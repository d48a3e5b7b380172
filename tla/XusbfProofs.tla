----------------------------- MODULE XusbfProofs -----------------------------
(***************************************************************************)
(* Proofs about Xusbf, for rings of any size and any number of requests,   *)
(* calls and failures.  The device context is a record of many fields, of  *)
(* which each operator changes a few: what it leaves alone is stated by    *)
(* the set of the fields it changes.                                       *)
(***************************************************************************)
EXTENDS Xusbf, FiniteSetTheorems, TLAPS

Frame(x, y, F) == DOMAIN y = Fields /\ \A f \in Fields \ F : y[f] = x[f]

\* The ring of an endpoint and both ends' places in it are the same in x and y.
SameRing(x, y, e) ==
    /\ y.tr[e] = x.tr[e] /\ y.enq[e] = x.enq[e] /\ y.pcs[e] = x.pcs[e]
    /\ y.deq[e] = x.deq[e] /\ y.hdeq[e] = x.hdeq[e] /\ y.hdcs[e] = x.hdcs[e]

-----------------------------------------------------------------------------
(* Rings.                                                                  *)

LEMMA PlaceLemma ==
    ASSUME NEW k \in Places
    PROVE  /\ After(k) \in Places /\ After(k) # k /\ k \in Slots /\ k + 1 \in Slots
           /\ k # RingSize - 1 /\ (After(k) = 0 <=> k + 1 = RingSize - 1)
  BY XusbfAssumption DEF Places, Slots, After

LEMMA SlotLemma ==
    ASSUME NEW x, Typed(x), NEW e \in Eps, SetUp(x, e)
    PROVE  x.tr[e] \in [Slots -> Trbs]
  BY DEF Typed, SetUp

LEMMA NextSlotLemma ==
    ASSUME NEW x, NEW e, Linked(x, e), NEW k \in Places
    PROVE  /\ NextSlot(x, e, k) = After(k)
           /\ x.tr[e][k + 1].type = "link" <=> After(k) = 0
  BY PlaceLemma DEF NextSlot, Linked, After

LEMMA EmptyRingLemma ==
    /\ EmptyRing \in [Slots -> Trbs] /\ EmptyRing # <<>>
    /\ \A k \in Slots : EmptyRing[k].c = 0 /\ (EmptyRing[k].type = "link" <=> k = RingSize - 1)
<1>1. 0 \in Slots
  BY XusbfAssumption DEF Slots
<1>2. EmptyRing \in [Slots -> Trbs]
  BY DEF EmptyRing, Blank, Trbs, Bits
<1>3. EmptyRing # <<>>
  <2>1. DOMAIN EmptyRing # {}
    BY <1>1, Zenon DEF EmptyRing
  <2>. QED  BY <2>1
<1>4. \A k \in Slots : EmptyRing[k].c = 0 /\ (EmptyRing[k].type = "link" <=> k = RingSize - 1)
  BY DEF EmptyRing, Blank
<1>. QED  BY <1>2, <1>3, <1>4

\* tegrabl_queue_trb puts the TRB where the producer is, marks it, and the link with
\* it at the end of a lap, and leaves the other rings alone.
Put(x, y, e, t) ==
    /\ y.enq[e] = After(x.enq[e])
    /\ y.deq[e] = x.deq[e] /\ y.hdeq[e] = x.hdeq[e] /\ y.hdcs[e] = x.hdcs[e]
    /\ LET q == y.tr[e][x.enq[e]] IN q.type = t.type /\ q.dir = t.dir /\ q.seq = t.seq /\ q.id = t.id
    /\ RingInv(x, e) /\ After(x.enq[e]) # x.hdeq[e] => RingInv(y, e)

LEMMA QueueEffect ==
    ASSUME NEW x, Typed(x), NEW e \in Eps, SetUp(x, e), Linked(x, e), NEW t \in Trbs, t.type # "link"
    PROVE  LET y == tegrabl_queue_trb(x, e, t)
           IN  /\ Typed(y) /\ Frame(x, y, {"tr", "enq", "pcs"})
               /\ \A f \in Eps \ {e} : SameRing(x, y, f)
               /\ SetUp(y, e) /\ Linked(y, e) /\ Put(x, y, e, t)
<1>. DEFINE y == tegrabl_queue_trb(x, e, t)
            at == x.enq[e]
            c == x.pcs[e]
            s == [t EXCEPT !.c = c]
            ring == [x.tr[e] EXCEPT ![at] = s]
            full == [ring EXCEPT ![at + 1].c = c]
            r == IF After(at) = 0 THEN full ELSE ring
<1>1. /\ at \in Places /\ c \in Bits /\ x.tr[e] \in [Slots -> Trbs] /\ DOMAIN x = Fields
  BY SlotLemma DEF Typed
<1>2. x.tr[e][at + 1].type = "link" <=> After(at) = 0
  BY <1>1, NextSlotLemma
<1>3. /\ Frame(x, y, {"tr", "enq", "pcs"})
      /\ y.tr = [x.tr EXCEPT ![e] = r]
      /\ y.enq = [x.enq EXCEPT ![e] = After(at)]
      /\ y.pcs = [x.pcs EXCEPT ![e] = IF After(at) = 0 THEN 1 - c ELSE c]
  <2>1. /\ Frame(x, y, {"tr", "enq", "pcs"})
        /\ y.tr = [x.tr EXCEPT ![e] = IF x.tr[e][at + 1].type = "link" THEN full ELSE ring]
        /\ y.enq = [x.enq EXCEPT ![e] = IF x.tr[e][at + 1].type = "link" THEN 0 ELSE at + 1]
        /\ y.pcs = [x.pcs EXCEPT ![e] = IF x.tr[e][at + 1].type = "link" THEN 1 - @ ELSE @]
    BY <1>1, Zenon DEF tegrabl_queue_trb, Fields, Frame
  <2>2. (IF x.tr[e][at + 1].type = "link" THEN 0 ELSE at + 1) = After(at)
    BY <1>1, <1>2, PlaceLemma DEF After
  <2>. QED  BY <1>2, <2>1, <2>2
<1>4. s \in Trbs /\ s.c = c /\ s.type = t.type /\ s.dir = t.dir /\ s.seq = t.seq /\ s.id = t.id
  BY <1>1 DEF Trbs
<1>5. at \in Slots /\ at + 1 \in Slots /\ at # at + 1 /\ After(at) \in Places
  BY <1>1, PlaceLemma DEF Places
<1>. HIDE DEF s, y, at, c
<1>6. ring \in [Slots -> Trbs] /\ ring[at] = s /\ \A k \in Slots \ {at} : ring[k] = x.tr[e][k]
  BY <1>1, <1>4, <1>5
<1>. HIDE DEF ring
<1>7. /\ full \in [Slots -> Trbs]
      /\ \A k \in Slots \ {at + 1} : full[k] = ring[k]
      /\ full[at + 1].c = c /\ full[at + 1].type = ring[at + 1].type
  <2>1. [ring[at + 1] EXCEPT !.c = c] \in Trbs
    BY <1>1, <1>5, <1>6 DEF Trbs
  <2>2. full = [ring EXCEPT ![at + 1] = [ring[at + 1] EXCEPT !.c = c]]
    OBVIOUS
  <2>3. [ring[at + 1] EXCEPT !.c = c].c = c /\ [ring[at + 1] EXCEPT !.c = c].type = ring[at + 1].type
    BY <1>5, <1>6 DEF Trbs
  <2>. HIDE DEF full
  <2>. QED  BY <1>5, <1>6, <2>1, <2>2, <2>3
<1>. HIDE DEF full
<1>8. /\ r \in [Slots -> Trbs] /\ r[at] = s
      /\ \A k \in Slots : r[k].c = IF k = at \/ (After(at) = 0 /\ k = at + 1) THEN c ELSE x.tr[e][k].c
      /\ \A k \in Slots : k # at => r[k].type = x.tr[e][k].type
  BY <1>4, <1>5, <1>6, <1>7
<1>. HIDE DEF r
<1>9. /\ y.tr \in [Eps -> [Slots -> Trbs] \cup {<<>>}] /\ y.enq \in [Eps -> Places]
      /\ y.pcs \in [Eps -> Bits]
      /\ y.tr[e] = r /\ y.enq[e] = After(at) /\ y.pcs[e] = IF After(at) = 0 THEN 1 - c ELSE c
      /\ \A f \in Eps \ {e} : y.tr[f] = x.tr[f] /\ y.enq[f] = x.enq[f] /\ y.pcs[f] = x.pcs[f]
  BY <1>1, <1>3, <1>5, <1>8 DEF Typed, Bits
<1>10. Typed(y)
  <2>1. /\ y.deq = x.deq /\ y.hdeq = x.hdeq /\ y.hdcs = x.hdcs /\ y.ev = x.ev /\ y.evdeq = x.evdeq
        /\ y.evenq = x.evenq /\ y.erdp = x.erdp /\ y.ccs = x.ccs /\ y.ecs = x.ecs
        /\ y.tx = x.tx /\ y.bytes = x.bytes /\ y.seq = x.seq /\ y.setup = x.setup
        /\ y.clean = x.clean /\ y.full = x.full /\ y.err = x.err /\ y.on = x.on
        /\ DOMAIN y = Fields
    BY <1>3, Zenon DEF Frame, Fields
  <2>2. /\ y.tr \in [Eps -> [Slots -> Trbs] \cup {<<>>}] /\ y.enq \in [Eps -> Places]
        /\ y.pcs \in [Eps -> Bits]
    BY <1>9
  <2>. QED  BY <2>1, <2>2, Zenon DEF Typed
<1>11. \A f \in Eps : y.deq[f] = x.deq[f] /\ y.hdeq[f] = x.hdeq[f] /\ y.hdcs[f] = x.hdcs[f]
  BY <1>3, Zenon DEF Frame, Fields
<1>12. \A f \in Eps \ {e} : SameRing(x, y, f)
  BY <1>9, <1>11 DEF SameRing
<1>13. SetUp(y, e)
  <2>1. DOMAIN r # {}
    BY <1>5, <1>8
  <2>. QED  BY <1>9, <2>1 DEF SetUp
<1>14. Linked(y, e)
  <2>1. at # RingSize - 1 /\ s.type # "link"
    BY <1>1, <1>4, PlaceLemma
  <2>. QED  BY <1>8, <1>9, <2>1 DEF Linked
<1>15. Put(x, y, e, t)
  <2>1. ASSUME RingInv(x, e), After(at) # x.hdeq[e] PROVE RingInv(y, e)
    <3>1. /\ \A k \in Slots : x.tr[e][k].c = IF k < at THEN c ELSE 1 - c
          /\ c = IF at >= x.hdeq[e] THEN x.hdcs[e] ELSE 1 - x.hdcs[e]
          /\ x.hdeq[e] \in Places /\ x.hdcs[e] \in Bits
      BY <2>1 DEF RingInv, at, c, Typed
    <3>2. CASE After(at) = 0
      <4>1. at + 1 = RingSize - 1 /\ at \in 0..RingSize - 2
        BY <1>1, <3>2, PlaceLemma DEF Places
      <4>2. \A k \in Slots : r[k].c = c
        BY <1>8, <3>1, <3>2, <4>1, XusbfAssumption DEF Slots
      <4>3. \A k \in Slots : r[k].c = IF k < 0 THEN 1 - c ELSE 1 - (1 - c)
        BY <4>2, <1>1 DEF Bits, Slots
      <4>4. 1 - c = IF 0 >= x.hdeq[e] THEN x.hdcs[e] ELSE 1 - x.hdcs[e]
        BY <2>1, <3>1, <3>2, <4>1, XusbfAssumption DEF Bits, Places
      <4>. QED  BY <1>9, <1>11, <3>2, <4>3, <4>4 DEF RingInv
    <3>3. CASE After(at) # 0
      <4>1. After(at) = at + 1 /\ at \in 0..RingSize - 3
        BY <1>1, <3>3, XusbfAssumption DEF After, Places
      <4>2. \A k \in Slots : r[k].c = IF k < at + 1 THEN c ELSE 1 - c
        BY <1>8, <3>1, <3>3, <4>1 DEF Slots
      <4>3. c = IF at + 1 >= x.hdeq[e] THEN x.hdcs[e] ELSE 1 - x.hdcs[e]
        BY <2>1, <3>1, <4>1 DEF Bits, Places
      <4>. QED  BY <1>9, <1>11, <3>3, <4>1, <4>2, <4>3 DEF RingInv
    <3>. QED  BY <3>2, <3>3
  <2>2. x.enq[e] = at
    BY DEF at
  <2>. QED  BY <1>4, <1>8, <1>9, <1>11, <2>1, <2>2 DEF Put
<1>. QED  BY <1>3, <1>10, <1>12, <1>13, <1>14, <1>15 DEF y

-----------------------------------------------------------------------------
(* Requests.                                                               *)

\* The shape of the rings, which every operator preserves.
Sound(x) ==
    /\ Typed(x) /\ SetUp(x, "ep0") /\ "ep0" \in x.on
    /\ \A e \in x.on : SetUp(x, e)
    /\ \A e \in Eps : SetUp(x, e) => Linked(x, e)

\* A bulk ring is left alone, or set up from the beginning.
NewRing(y, e) ==
    /\ y.tr[e] = EmptyRing /\ y.enq[e] = 0 /\ y.pcs[e] = 1 /\ y.deq[e] = 0
    /\ e \in y.torn \/ (y.hdeq[e] = 0 /\ y.hdcs[e] = 1)
BulkStep(x, y, e) ==
    \/ SameRing(x, y, e) /\ (e \in y.on => e \in x.on) /\ (e \in y.torn <=> e \in x.torn)
    \/ NewRing(y, e)

\* What the operations on endpoints do: ep0 is not concerned.
EpFields == {"tr", "enq", "deq", "pcs", "hdeq", "hdcs", "on", "halt", "torn", "err"}
EpStep(x, y) ==
    /\ Sound(y) /\ Frame(x, y, EpFields)
    /\ SameRing(x, y, "ep0") /\ ("ep0" \in y.torn <=> "ep0" \in x.torn)
    /\ \A e \in {"out", "in"} : BulkStep(x, y, e)
    /\ \A e \in Eps : SetUp(x, e) => SetUp(y, e)

LEMMA EpRefl ==
    ASSUME NEW x, Sound(x)
    PROVE  EpStep(x, x)
  BY DEF EpStep, Frame, SameRing, BulkStep, Sound, Typed

LEMMA EpTrans ==
    ASSUME NEW x, NEW y, NEW z, EpStep(x, y), EpStep(y, z)
    PROVE  EpStep(x, z)
<1>1. Frame(x, z, EpFields)
  BY Zenon DEF EpStep, Frame
<1>2. ASSUME NEW e \in {"out", "in"} PROVE BulkStep(x, z, e)
  <2>1. BulkStep(x, y, e) /\ BulkStep(y, z, e)
    BY DEF EpStep
  <2>2. CASE NewRing(z, e)
    BY <2>2 DEF BulkStep
  <2>3. CASE ~NewRing(z, e)
    <3>1. SameRing(y, z, e) /\ (e \in z.on => e \in y.on) /\ (e \in z.torn <=> e \in y.torn)
      BY <2>1, <2>3 DEF BulkStep
    <3>2. ~NewRing(y, e)
      BY <2>3, <3>1 DEF NewRing, SameRing
    <3>. QED  BY <2>1, <3>1, <3>2 DEF BulkStep, SameRing
  <2>. QED  BY <2>2, <2>3
<1>3. SameRing(x, z, "ep0") /\ ("ep0" \in z.torn <=> "ep0" \in x.torn)
  BY Zenon DEF EpStep, SameRing
<1>. QED  BY <1>1, <1>2, <1>3, Zenon DEF EpStep

\* Fields that have no part in the shape may change.
LEMMA ShapeLemma ==
    ASSUME NEW x, Sound(x), NEW y, Frame(x, y, {"halt", "err"}), y.err \in BOOLEAN
    PROVE  EpStep(x, y)
<1>1. /\ y.tr = x.tr /\ y.enq = x.enq /\ y.deq = x.deq /\ y.pcs = x.pcs /\ y.hdeq = x.hdeq
      /\ y.hdcs = x.hdcs /\ y.on = x.on /\ y.torn = x.torn /\ y.ev = x.ev /\ y.evdeq = x.evdeq
      /\ y.evenq = x.evenq /\ y.erdp = x.erdp /\ y.ccs = x.ccs /\ y.ecs = x.ecs
      /\ y.tx = x.tx /\ y.bytes = x.bytes /\ y.seq = x.seq /\ y.setup = x.setup
      /\ y.clean = x.clean /\ y.full = x.full /\ DOMAIN y = Fields
  BY Zenon DEF Frame, Fields
<1>2. Typed(y)
  BY <1>1, Zenon DEF Sound, Typed
<1>3. Sound(y)
  BY <1>1, <1>2, Zenon DEF Sound, SetUp, Linked
<1>4. Frame(x, y, EpFields)
  BY Zenon DEF Frame, EpFields
<1>. QED  BY <1>1, <1>3, <1>4, Zenon DEF EpStep, SameRing, BulkStep, SetUp

LEMMA DisableEffect ==
    ASSUME NEW x, Sound(x), NEW e \in {"out", "in"}, NEW b \in BOOLEAN
    PROVE  LET y == tegrabl_disable_ep(x, e, b)
           IN  EpStep(x, y) /\ y.torn = x.torn /\ (~b => y.err = x.err)
<1>. DEFINE y == tegrabl_disable_ep(x, e, b)
<1>0. DOMAIN x = Fields
  BY DEF Sound, Typed
<1>1. CASE x.err
  BY <1>1, EpRefl DEF tegrabl_disable_ep
<1>2. CASE ~x.err /\ b
  <2>1. y = [x EXCEPT !.err = TRUE]
    BY <1>2 DEF tegrabl_disable_ep
  <2>. HIDE DEF y
  <2>2. Frame(x, y, {"halt", "err"}) /\ y.err = TRUE /\ y.torn = x.torn
    BY <1>0, <2>1, Zenon DEF Frame, Fields
  <2>. QED  BY <1>2, <2>2, ShapeLemma DEF y
<1>3. CASE ~x.err /\ ~b
  <2>1. y = [x EXCEPT !.on = @ \ {e}]
    BY <1>3 DEF tegrabl_disable_ep
  <2>. HIDE DEF y
  <2>2. Frame(x, y, {"on"}) /\ y.on = x.on \ {e}
    BY <1>0, <2>1, Zenon DEF Frame, Fields
  <2>3. /\ y.tr = x.tr /\ y.enq = x.enq /\ y.deq = x.deq /\ y.pcs = x.pcs /\ y.hdeq = x.hdeq
        /\ y.hdcs = x.hdcs /\ y.torn = x.torn /\ y.ev = x.ev /\ y.evdeq = x.evdeq
        /\ y.evenq = x.evenq /\ y.erdp = x.erdp /\ y.ccs = x.ccs /\ y.ecs = x.ecs
        /\ y.tx = x.tx /\ y.bytes = x.bytes /\ y.seq = x.seq /\ y.setup = x.setup
        /\ y.clean = x.clean /\ y.full = x.full /\ y.err = x.err /\ DOMAIN y = Fields
    BY <2>2, Zenon DEF Frame, Fields
  <2>4. Typed(y)
    <3>1. y.on \subseteq Eps
      BY <2>2 DEF Sound, Typed
    <3>. QED  BY <2>3, <3>1, Zenon DEF Sound, Typed
  <2>5. Sound(y)
    BY <2>2, <2>3, <2>4 DEF Sound, SetUp, Linked
  <2>6. Frame(x, y, EpFields)
    BY <2>2, Zenon DEF Frame, EpFields
  <2>. QED  BY <2>2, <2>3, <2>5, <2>6 DEF EpStep, SameRing, BulkStep, SetUp, y
<1>. QED  BY <1>1, <1>2, <1>3


LEMMA InitepEffect ==
    ASSUME NEW x, Sound(x), NEW e \in {"out", "in"}, NEW b \in BOOLEAN
    PROVE  LET y == tegrabl_initep(x, e, b)
           IN  EpStep(x, y) /\ (~b => y.err = x.err /\ y.torn \subseteq x.torn)
<1>. DEFINE y == tegrabl_initep(x, e, b)
            f == IF e = "out" THEN "in" ELSE "out"
<1>0. /\ DOMAIN x = Fields /\ e \in Eps /\ e # "ep0" /\ f \in Eps /\ f # e
      /\ "ep0" \in Eps /\ \A g \in Eps : g \in {"ep0", e, f}
  BY DEF Sound, Typed, Eps
<1>1. CASE x.err
  <2>1. y = x
    BY <1>1 DEF tegrabl_initep
  <2>. HIDE DEF y
  <2>. QED  BY <2>1, EpRefl DEF y
<1>2. CASE ~x.err
  <2>1. /\ Frame(x, y, EpFields)
        /\ y.tr = [x.tr EXCEPT ![e] = EmptyRing] /\ y.enq = [x.enq EXCEPT ![e] = 0]
        /\ y.deq = [x.deq EXCEPT ![e] = 0] /\ y.pcs = [x.pcs EXCEPT ![e] = 1]
        /\ \/ /\ b /\ y.err = TRUE /\ y.torn = x.torn \cup {e}
              /\ y.hdeq = x.hdeq /\ y.hdcs = x.hdcs /\ y.on = x.on
           \/ /\ ~b /\ y.err = x.err /\ y.torn = x.torn \ {e}
              /\ y.hdeq = [x.hdeq EXCEPT ![e] = 0] /\ y.hdcs = [x.hdcs EXCEPT ![e] = 1]
              /\ y.on = x.on \cup {e}
    <3>. DEFINE z == tegrabl_init_epcontext(x, e)
    <3>0. /\ Frame(x, z, {"tr", "enq", "deq", "pcs"})
          /\ z.tr = [x.tr EXCEPT ![e] = EmptyRing] /\ z.enq = [x.enq EXCEPT ![e] = 0]
          /\ z.deq = [x.deq EXCEPT ![e] = 0] /\ z.pcs = [x.pcs EXCEPT ![e] = 1]
      BY <1>0, Zenon DEF Frame, Fields, tegrabl_init_epcontext
    <3>3. /\ b => y = [z EXCEPT !.err = TRUE, !.torn = @ \cup {e}]
          /\ ~b => y = [z EXCEPT !.torn = @ \ {e}, !.hdeq[e] = 0, !.hdcs[e] = 1,
                                 !.on = @ \cup {e}, !.halt = @ \ {e}]
      <4>. HIDE DEF z
      <4>. QED  BY <1>2, Zenon DEF tegrabl_initep, z
    <3>. HIDE DEF y, z
    <3>4. /\ DOMAIN z = Fields /\ z.err = x.err /\ z.torn = x.torn /\ z.hdeq = x.hdeq
          /\ z.hdcs = x.hdcs /\ z.on = x.on /\ z.halt = x.halt
      BY <3>0, Zenon DEF Frame, Fields
    <3>1. CASE b
      <4>1. /\ Frame(z, y, {"err", "torn"}) /\ y.err = TRUE /\ y.torn = z.torn \cup {e}
        BY <3>1, <3>3, <3>4, Zenon DEF Frame, Fields
      <4>2. /\ y.tr = z.tr /\ y.enq = z.enq /\ y.deq = z.deq /\ y.pcs = z.pcs
            /\ y.hdeq = z.hdeq /\ y.hdcs = z.hdcs /\ y.on = z.on
        BY <4>1, Zenon DEF Frame, Fields
      <4>3. Frame(x, y, EpFields)
        BY <3>0, <4>1, Zenon DEF Frame, EpFields
      <4>. QED  BY <3>0, <3>1, <3>4, <4>1, <4>2, <4>3
    <3>2. CASE ~b
      <4>1. /\ Frame(z, y, {"torn", "hdeq", "hdcs", "on", "halt"}) /\ y.torn = z.torn \ {e}
            /\ y.hdeq = [z.hdeq EXCEPT ![e] = 0] /\ y.hdcs = [z.hdcs EXCEPT ![e] = 1]
            /\ y.on = z.on \cup {e}
        BY <3>2, <3>3, <3>4, Zenon DEF Frame, Fields
      <4>2. y.tr = z.tr /\ y.enq = z.enq /\ y.deq = z.deq /\ y.pcs = z.pcs /\ y.err = z.err
        BY <4>1, Zenon DEF Frame, Fields
      <4>3. Frame(x, y, EpFields)
        BY <3>0, <4>1, Zenon DEF Frame, EpFields
      <4>. QED  BY <3>0, <3>2, <3>4, <4>1, <4>2, <4>3
    <3>. QED  BY <3>1, <3>2
  <2>. HIDE DEF y, f
  <2>2. /\ y.ev = x.ev /\ y.evdeq = x.evdeq /\ y.evenq = x.evenq /\ y.erdp = x.erdp
        /\ y.ccs = x.ccs /\ y.ecs = x.ecs /\ y.tx = x.tx /\ y.bytes = x.bytes
        /\ y.seq = x.seq /\ y.setup = x.setup /\ y.clean = x.clean /\ y.full = x.full
        /\ DOMAIN y = Fields
    BY <2>1, ZenonT(60) DEF Frame, Fields, EpFields
  <2>3. /\ x.tr \in [Eps -> [Slots -> Trbs] \cup {<<>>}]
        /\ x.enq \in [Eps -> Places] /\ x.deq \in [Eps -> Places] /\ x.hdeq \in [Eps -> Places]
        /\ x.pcs \in [Eps -> Bits] /\ x.hdcs \in [Eps -> Bits] /\ x.err \in BOOLEAN
    BY DEF Sound, Typed
  <2>4. /\ y.tr \in [Eps -> [Slots -> Trbs] \cup {<<>>}]
        /\ y.enq \in [Eps -> Places] /\ y.deq \in [Eps -> Places] /\ y.hdeq \in [Eps -> Places]
        /\ y.pcs \in [Eps -> Bits] /\ y.hdcs \in [Eps -> Bits] /\ y.err \in BOOLEAN
    <3>1. 0 \in Places /\ 1 \in Bits /\ EmptyRing \in [Slots -> Trbs]
      BY XusbfAssumption, EmptyRingLemma DEF Places, Bits
    <3>2. /\ y.tr \in [Eps -> [Slots -> Trbs] \cup {<<>>}]
          /\ y.enq \in [Eps -> Places] /\ y.deq \in [Eps -> Places] /\ y.pcs \in [Eps -> Bits]
      <4>. HIDE DEF Slots
      <4>. QED  BY <1>0, <2>1, <2>3, <3>1
    <3>3. y.hdeq \in [Eps -> Places] /\ y.hdcs \in [Eps -> Bits]
      BY <1>0, <2>1, <2>3, <3>1
    <3>4. y.err \in BOOLEAN
      BY <2>1, <2>3, Zenon
    <3>. QED  BY <3>2, <3>3, <3>4
  <2>5. Typed(y)
    <3>1. y.on \subseteq Eps
      BY <1>0, <2>1 DEF Sound, Typed
    <3>. QED  BY <2>2, <2>4, <3>1, ZenonT(60) DEF Sound, Typed
  <2>6. /\ y.tr[e] = EmptyRing /\ y.enq[e] = 0 /\ y.deq[e] = 0 /\ y.pcs[e] = 1
        /\ b => e \in y.torn
        /\ ~b => y.hdeq[e] = 0 /\ y.hdcs[e] = 1
    BY <1>0, <2>1, <2>3
  <2>7. ASSUME NEW g \in Eps \ {e}
        PROVE  SameRing(x, y, g) /\ (g \in y.on <=> g \in x.on) /\ (g \in y.torn <=> g \in x.torn)
    BY <1>0, <2>1, <2>3, <2>7 DEF SameRing
  <2>8. SetUp(y, e) /\ Linked(y, e)
    BY <2>6, EmptyRingLemma DEF SetUp, Linked
  <2>9. \A g \in Eps \ {e} : (SetUp(y, g) <=> SetUp(x, g)) /\ (Linked(x, g) => Linked(y, g))
    BY <2>7 DEF SameRing, SetUp, Linked
  <2>10. Sound(y)
    <3>1. \A g \in y.on : SetUp(y, g)
      <4>. SUFFICES ASSUME NEW g \in y.on, g # e PROVE SetUp(y, g)
        BY <2>8
      <4>1. g \in x.on
        BY <2>1
      <4>2. y.tr[g] = x.tr[g]
        BY <2>1, <2>3, <4>1
      <4>. QED  BY <4>1, <4>2 DEF Sound, SetUp
    <3>. QED  BY <1>0, <2>1, <2>5, <2>8, <2>9, <3>1 DEF Sound
  <2>11. SameRing(x, y, "ep0") /\ ("ep0" \in y.torn <=> "ep0" \in x.torn)
    BY <1>0, <2>7
  <2>12. \A g \in {"out", "in"} : BulkStep(x, y, g)
    <3>1. NewRing(y, e)
      BY <2>6 DEF NewRing
    <3>. QED  BY <1>0, <2>7, <3>1 DEF BulkStep, Eps
  <2>13. \A g \in Eps : SetUp(x, g) => SetUp(y, g)
    BY <2>8, <2>9
  <2>14. ~b => y.err = x.err /\ y.torn \subseteq x.torn
    BY <2>1
  <2>. QED  BY <2>1, <2>10, <2>11, <2>12, <2>13, <2>14, Zenon DEF EpStep, y
<1>. QED  BY <1>1, <1>2

-----------------------------------------------------------------------------
(* The event ring.                                                         *)

LEMMA ModLemma ==
    ASSUME NEW n \in Nat, n > 0, NEW a \in Int, -n < a, a < 2 * n
    PROVE  a % n = IF a < 0 THEN a + n ELSE IF a < n THEN a ELSE a - n
  OBVIOUS

AfterEvent(k) == IF k + 1 = EventSize THEN 0 ELSE k + 1

LEMMA AfterEventLemma ==
    ASSUME NEW k \in EvSlots
    PROVE  (k + 1) % EventSize = AfterEvent(k) /\ AfterEvent(k) \in EvSlots /\ AfterEvent(k) # k
  BY XusbfAssumption, ModLemma DEF EvSlots, AfterEvent

\* What the driver's step to the next event does: the first event is no longer pending.
Advanced(x, y) ==
    /\ y.ev \in [EvSlots -> Events] /\ y.evdeq \in EvSlots /\ y.ccs \in Bits
    /\ Pending(x, x.evdeq) /\ Behind(x, x.evdeq) = 0
    /\ \A k \in EvSlots :
          /\ Pending(y, k) <=> Pending(x, k) /\ k # x.evdeq
          /\ Pending(y, k) => y.ev[k] = x.ev[k] /\ Behind(y, k) = Behind(x, k) - 1 /\ Behind(y, k) >= 0

EventFields == {"ev", "evdeq", "ccs"}
Popped(x, y) == Advanced(x, y) /\ Frame(x, y, EventFields)

\* EventInv without what depends on whether events are being handled.
EventSound(x) ==
    /\ \A k \in EvSlots : x.ev[k].c = IF k < x.evenq THEN x.ecs ELSE 1 - x.ecs
    /\ x.ecs = IF x.evenq >= x.evdeq THEN x.ccs ELSE 1 - x.ccs
    /\ IF x.erdp <= x.evenq THEN x.erdp <= x.evdeq /\ x.evdeq <= x.evenq
       ELSE x.erdp <= x.evdeq \/ x.evdeq <= x.evenq
    /\ \A k \in EvSlots : Pending(x, k) =>
           /\ x.ev[k].type # "none"
           /\ x.ev[k].type = "transfer" => x.ev[k].ep \in Eps /\ SetUp(x, x.ev[k].ep)

LEMMA PopEffect ==
    ASSUME NEW x, Typed(x), EventInv(x, TRUE), NEW y, y = NextEvent(x)
    PROVE  /\ Popped(x, y)
           /\ EventSound(y)
<1>1. /\ DOMAIN x = Fields /\ x.ev \in [EvSlots -> Events] /\ x.evdeq \in EvSlots /\ x.evenq \in EvSlots
      /\ x.erdp \in EvSlots /\ x.ccs \in Bits /\ x.ecs \in Bits
  BY DEF Typed
<1>2. /\ Frame(x, y, {"ev", "evdeq", "ccs"})
      /\ y.ev = [x.ev EXCEPT ![x.evdeq] = Spent(NoEvent, @)]
      /\ y.evdeq = (x.evdeq + 1) % EventSize
      /\ y.ccs = IF x.evdeq = EventSize - 1 THEN 1 - x.ccs ELSE x.ccs
  BY <1>1, Zenon DEF NextEvent, Frame, Fields
<1>3. y.evdeq = AfterEvent(x.evdeq) /\ y.evdeq \in EvSlots
  BY <1>1, <1>2, AfterEventLemma
<1>4. y.evenq = x.evenq /\ y.erdp = x.erdp /\ y.ecs = x.ecs /\ y.tr = x.tr
  BY <1>2, Zenon DEF Frame, Fields
<1>5. y.ccs \in Bits
  BY <1>1, <1>2 DEF Bits
<1>6. Spent(NoEvent, x.ev[x.evdeq]) \in Events /\ Spent(NoEvent, x.ev[x.evdeq]).c = x.ev[x.evdeq].c
  BY <1>1 DEF Spent, NoEvent, Events, Bits
<1>7. /\ y.ev \in [EvSlots -> Events]
      /\ \A k \in EvSlots : k # x.evdeq => y.ev[k] = x.ev[k]
      /\ \A k \in EvSlots : y.ev[k].c = x.ev[k].c
  BY <1>1, <1>2, <1>6
<1>8. x.evdeq # x.evenq
  BY DEF EventInv
<1>9. /\ Pending(x, x.evdeq) /\ Behind(x, x.evdeq) = 0
      /\ \A k \in EvSlots :
            /\ Pending(y, k) <=> Pending(x, k) /\ k # x.evdeq
            /\ Pending(y, k) => Behind(y, k) = Behind(x, k) - 1 /\ Behind(y, k) >= 0
  BY <1>1, <1>3, <1>4, <1>8, XusbfAssumption, SMTT(60) DEF Pending, Behind, EvSlots, AfterEvent
<1>10. Popped(x, y)
  BY <1>2, <1>3, <1>5, <1>7, <1>9 DEF Popped, Advanced, EventFields
<1>11. EventSound(y)
  <2>1. \A k \in EvSlots : y.ev[k].c = IF k < y.evenq THEN y.ecs ELSE 1 - y.ecs
    BY <1>4, <1>7 DEF EventInv
  <2>2. y.ecs = IF y.evenq >= y.evdeq THEN y.ccs ELSE 1 - y.ccs
    <3>1. x.ecs = IF x.evenq >= x.evdeq THEN x.ccs ELSE 1 - x.ccs
      BY DEF EventInv
    <3>. QED  BY <1>1, <1>2, <1>3, <1>4, <1>8, <3>1, XusbfAssumption DEF AfterEvent, EvSlots, Bits
  <2>3. IF y.erdp <= y.evenq THEN y.erdp <= y.evdeq /\ y.evdeq <= y.evenq
        ELSE y.erdp <= y.evdeq \/ y.evdeq <= y.evenq
    <3>1. IF x.erdp <= x.evenq THEN x.erdp <= x.evdeq /\ x.evdeq <= x.evenq
          ELSE x.erdp <= x.evdeq \/ x.evdeq <= x.evenq
      BY DEF EventInv
    <3>. QED  BY <1>1, <1>3, <1>4, <1>8, <3>1, XusbfAssumption DEF AfterEvent, EvSlots
  <2>4. \A k \in EvSlots : Pending(y, k) =>
           /\ y.ev[k].type # "none"
           /\ y.ev[k].type = "transfer" => y.ev[k].ep \in Eps /\ SetUp(y, y.ev[k].ep)
    BY <1>4, <1>7, <1>9 DEF EventInv, SetUp
  <2>. QED  BY <2>1, <2>2, <2>3, <2>4, Zenon DEF EventSound
<1>. QED  BY <1>10, <1>11

\* What posting an event does: it is pending behind all the others.
Posted(x, y, ev) ==
    /\ Frame(x, y, {"ev", "evenq", "ecs", "ip", "ehb"})
    /\ y.ev \in [EvSlots -> Events] /\ y.evenq \in EvSlots /\ y.ecs \in Bits
    /\ ~Pending(x, x.evenq) /\ x.evenq \in EvSlots
    /\ y.ev[x.evenq] = [ev EXCEPT !.c = x.ecs]
    /\ \A k \in EvSlots :
          /\ Pending(y, k) <=> Pending(x, k) \/ k = x.evenq
          /\ Pending(x, k) => y.ev[k] = x.ev[k] /\ Behind(y, k) < Behind(y, x.evenq)
          /\ Behind(y, k) = Behind(x, k)

LEMMA PostEffect ==
    ASSUME NEW x, Typed(x), NEW h \in BOOLEAN, EventInv(x, h), Space(x),
           NEW ev \in Events, ev.type # "none",
           ev.type = "transfer" => ev.ep \in Eps /\ SetUp(x, ev.ep),
           NEW y, y = Post(x, ev)
    PROVE  Posted(x, y, ev) /\ EventInv(y, h)
<1>1. /\ DOMAIN x = Fields /\ x.ev \in [EvSlots -> Events] /\ x.evdeq \in EvSlots /\ x.evenq \in EvSlots
      /\ x.erdp \in EvSlots /\ x.ccs \in Bits /\ x.ecs \in Bits
  BY DEF Typed
<1>2. /\ Frame(x, y, {"ev", "evenq", "ecs", "ip", "ehb"})
      /\ y.ev = [x.ev EXCEPT ![x.evenq] = [ev EXCEPT !.c = x.ecs]]
      /\ y.evenq = (x.evenq + 1) % EventSize
      /\ y.ecs = IF x.evenq = EventSize - 1 THEN 1 - x.ecs ELSE x.ecs
  BY <1>1, Zenon DEF Post, Frame, Fields
<1>3. y.evenq = AfterEvent(x.evenq) /\ y.evenq \in EvSlots /\ y.evenq # x.erdp
  BY <1>1, <1>2, AfterEventLemma DEF Space
<1>4. y.evdeq = x.evdeq /\ y.erdp = x.erdp /\ y.ccs = x.ccs /\ y.tr = x.tr
  BY <1>2, Zenon DEF Frame, Fields
<1>5. y.ecs \in Bits
  BY <1>1, <1>2 DEF Bits
<1>6. /\ [ev EXCEPT !.c = x.ecs] \in Events /\ [ev EXCEPT !.c = x.ecs].c = x.ecs
      /\ [ev EXCEPT !.c = x.ecs].type = ev.type /\ [ev EXCEPT !.c = x.ecs].ep = ev.ep
  BY <1>1 DEF Events
<1>7. /\ y.ev \in [EvSlots -> Events] /\ y.ev[x.evenq] = [ev EXCEPT !.c = x.ecs]
      /\ \A k \in EvSlots : k # x.evenq => y.ev[k] = x.ev[k]
  <2>. DEFINE q == [ev EXCEPT !.c = x.ecs]
  <2>1. q \in Events /\ y.ev = [x.ev EXCEPT ![x.evenq] = q]
    BY <1>2, <1>6
  <2>. HIDE DEF q
  <2>2. /\ y.ev \in [EvSlots -> Events] /\ y.ev[x.evenq] = q
        /\ \A k \in EvSlots : k # x.evenq => y.ev[k] = x.ev[k]
    BY <1>1, <2>1
  <2>. QED  BY <2>2 DEF q
<1>8. /\ IF x.erdp <= x.evenq THEN x.erdp <= x.evdeq /\ x.evdeq <= x.evenq
         ELSE x.erdp <= x.evdeq \/ x.evdeq <= x.evenq
      /\ x.ecs = IF x.evenq >= x.evdeq THEN x.ccs ELSE 1 - x.ccs
      /\ IF h THEN x.evdeq # x.evenq ELSE x.erdp = x.evdeq
  BY DEF EventInv
<1>9. /\ ~Pending(x, x.evenq)
      /\ \A k \in EvSlots :
          /\ Pending(y, k) <=> Pending(x, k) \/ k = x.evenq
          /\ Pending(x, k) => Behind(y, k) < Behind(y, x.evenq)
          /\ Behind(y, k) = Behind(x, k)
  BY <1>1, <1>3, <1>4, <1>8, XusbfAssumption, SMTT(60) DEF Pending, Behind, EvSlots, AfterEvent
<1>10. Posted(x, y, ev)
  BY <1>1, <1>2, <1>3, <1>5, <1>7, <1>9 DEF Posted
<1>11. EventInv(y, h)
  <2>0. y.ev[x.evenq].c = x.ecs /\ \A k \in EvSlots : k # x.evenq => y.ev[k].c = x.ev[k].c
    BY <1>6, <1>7
  <2>1. \A k \in EvSlots : y.ev[k].c = IF k < y.evenq THEN y.ecs ELSE 1 - y.ecs
    <3>1. \A k \in EvSlots : x.ev[k].c = IF k < x.evenq THEN x.ecs ELSE 1 - x.ecs
      BY DEF EventInv
    <3>2. CASE x.evenq = EventSize - 1
      <4>1. y.evenq = 0 /\ y.ecs = 1 - x.ecs
        BY <1>2, <1>3, <3>2, XusbfAssumption DEF AfterEvent
      <4>2. \A k \in EvSlots : y.ev[k].c = x.ecs
        BY <1>1, <2>0, <3>1, <3>2 DEF EvSlots
      <4>3. 1 - (1 - x.ecs) = x.ecs
        BY <1>1 DEF Bits
      <4>. QED  BY <4>1, <4>2, <4>3 DEF EvSlots
    <3>3. CASE x.evenq # EventSize - 1
      <4>1. y.evenq = x.evenq + 1 /\ y.ecs = x.ecs
        BY <1>1, <1>2, <1>3, <3>3, XusbfAssumption DEF AfterEvent, EvSlots
      <4>. QED  BY <1>1, <2>0, <3>1, <4>1 DEF EvSlots
    <3>. QED  BY <3>2, <3>3
  <2>2. y.ecs = IF y.evenq >= y.evdeq THEN y.ccs ELSE 1 - y.ccs
    <3>1. CASE x.evenq = EventSize - 1
      <4>1. y.evenq = 0 /\ y.ecs = 1 - x.ecs /\ x.evdeq # 0 /\ x.evdeq <= x.evenq
        BY <1>1, <1>2, <1>3, <1>8, <3>1, XusbfAssumption DEF AfterEvent, EvSlots
      <4>. QED  BY <1>1, <1>4, <1>8, <4>1 DEF EvSlots
    <3>2. CASE x.evenq # EventSize - 1
      <4>1. y.evenq = x.evenq + 1 /\ y.ecs = x.ecs /\ x.evdeq # x.evenq + 1
        BY <1>1, <1>2, <1>3, <1>8, <3>2, XusbfAssumption DEF AfterEvent, EvSlots
      <4>. QED  BY <1>1, <1>4, <1>8, <4>1 DEF EvSlots
    <3>. QED  BY <3>1, <3>2
  <2>3. /\ IF y.erdp <= y.evenq THEN y.erdp <= y.evdeq /\ y.evdeq <= y.evenq
           ELSE y.erdp <= y.evdeq \/ y.evdeq <= y.evenq
        /\ IF h THEN y.evdeq # y.evenq ELSE y.erdp = y.evdeq
    BY <1>1, <1>3, <1>4, <1>8, XusbfAssumption DEF AfterEvent, EvSlots
  <2>4. \A k \in EvSlots : Pending(y, k) =>
           /\ y.ev[k].type # "none"
           /\ y.ev[k].type = "transfer" => y.ev[k].ep \in Eps /\ SetUp(y, y.ev[k].ep)
    <3>1. \A k \in EvSlots : Pending(x, k) =>
           /\ x.ev[k].type # "none"
           /\ x.ev[k].type = "transfer" => x.ev[k].ep \in Eps /\ SetUp(x, x.ev[k].ep)
      BY DEF EventInv
    <3>2. \A e : SetUp(y, e) <=> SetUp(x, e)
      BY <1>4 DEF SetUp
    <3>3. y.ev[x.evenq].type = ev.type /\ y.ev[x.evenq].ep = ev.ep
      BY <1>6, <1>7
    <3>. QED  BY <1>7, <1>9, <3>1, <3>2, <3>3
  <2>. QED  BY <2>1, <2>2, <2>3, <2>4, Zenon DEF EventInv
<1>. QED  BY <1>10, <1>11

-----------------------------------------------------------------------------
(* The controller's side of a transfer ring.                               *)

\* The cycle bit tells the controller that there is a TRB only if there is one.
LEMMA ReadyLemma ==
    ASSUME NEW x, Typed(x), NEW e \in Eps, RingInv(x, e), Ready(x, e)
    PROVE  x.hdeq[e] # x.enq[e]
<1>1. /\ x.hdeq[e] \in Places /\ x.enq[e] \in Places /\ x.hdcs[e] \in Bits /\ x.pcs[e] \in Bits
      /\ x.hdeq[e] \in Slots
  BY PlaceLemma DEF Typed
<1>2. /\ x.tr[e][x.hdeq[e]].c = IF x.hdeq[e] < x.enq[e] THEN x.pcs[e] ELSE 1 - x.pcs[e]
      /\ x.pcs[e] = IF x.enq[e] >= x.hdeq[e] THEN x.hdcs[e] ELSE 1 - x.hdcs[e]
      /\ x.tr[e][x.hdeq[e]].c = x.hdcs[e]
  BY <1>1 DEF RingInv, Ready
<1>. QED  BY <1>1, <1>2 DEF Bits, Places

Consumed(x, y, e) ==
    /\ Frame(x, y, {"tr", "hdeq", "hdcs"})
    /\ \A f \in Eps \ {e} : SameRing(x, y, f)
    /\ y.hdeq[e] = After(x.hdeq[e])
    /\ RingInv(x, e) /\ x.hdeq[e] # x.enq[e] => RingInv(y, e)

LEMMA ConsumeEffect ==
    ASSUME NEW x, Sound(x), NEW e \in Eps, e \in x.on, NEW y, y = Consume(x, e)
    PROVE  Sound(y) /\ Consumed(x, y, e)
<1>. DEFINE at == x.hdeq[e]
            q == Spent(Blank, x.tr[e][at])
            c == x.hdcs[e]
<1>1. /\ DOMAIN x = Fields /\ Typed(x) /\ SetUp(x, e) /\ Linked(x, e)
      /\ at \in Places /\ at \in Slots /\ c \in Bits /\ After(at) \in Places
      /\ at # RingSize - 1
  BY PlaceLemma DEF Sound, Typed
<1>2. x.tr[e] \in [Slots -> Trbs]
  BY <1>1, SlotLemma
<1>3. NextSlot(x, e, at) = After(at)
  BY <1>1, NextSlotLemma
<1>4. /\ Frame(x, y, {"tr", "hdeq", "hdcs"})
      /\ y.tr = [x.tr EXCEPT ![e] = [x.tr[e] EXCEPT ![at] = q]]
      /\ y.hdeq = [x.hdeq EXCEPT ![e] = After(at)]
      /\ y.hdcs = [x.hdcs EXCEPT ![e] = IF After(at) = 0 THEN 1 - c ELSE c]
  <2>1. /\ Frame(x, y, {"tr", "hdeq", "hdcs"})
        /\ y.tr = [x.tr EXCEPT ![e] = [@ EXCEPT ![at] = q]]
        /\ y.hdeq = [x.hdeq EXCEPT ![e] = NextSlot(x, e, at)]
        /\ y.hdcs = [x.hdcs EXCEPT ![e] = IF NextSlot(x, e, at) = 0 THEN 1 - @ ELSE @]
    BY <1>1, Zenon DEF Consume, Frame, Fields
  <2>. QED  BY <1>3, <2>1, Zenon
<1>5. q \in Trbs /\ q.c = x.tr[e][at].c /\ q.type = "none"
  BY <1>1, <1>2 DEF Trbs, Spent, Blank, Bits
<1>. HIDE DEF q, at, c
<1>. DEFINE r == [x.tr[e] EXCEPT ![at] = q]
<1>6. /\ r \in [Slots -> Trbs] /\ \A k \in Slots : r[k].c = x.tr[e][k].c
      /\ r[at] = q /\ \A k \in Slots : k # at => r[k] = x.tr[e][k]
  BY <1>1, <1>2, <1>5
<1>. HIDE DEF r
<1>7. /\ y.tr \in [Eps -> [Slots -> Trbs] \cup {<<>>}] /\ y.hdeq \in [Eps -> Places]
      /\ y.hdcs \in [Eps -> Bits]
      /\ y.tr[e] = r /\ y.hdeq[e] = After(at) /\ y.hdcs[e] = IF After(at) = 0 THEN 1 - c ELSE c
      /\ \A f \in Eps \ {e} : y.tr[f] = x.tr[f] /\ y.hdeq[f] = x.hdeq[f] /\ y.hdcs[f] = x.hdcs[f]
  <2>1. /\ x.tr \in [Eps -> [Slots -> Trbs] \cup {<<>>}] /\ x.hdeq \in [Eps -> Places]
        /\ x.hdcs \in [Eps -> Bits]
    BY <1>1 DEF Typed
  <2>2. (IF After(at) = 0 THEN 1 - c ELSE c) \in Bits
    BY <1>1 DEF Bits
  <2>3. y.tr = [x.tr EXCEPT ![e] = r]
    BY <1>4 DEF r
  <2>. QED  BY <1>1, <1>4, <1>6, <2>1, <2>2, <2>3
<1>8. /\ y.deq = x.deq /\ y.enq = x.enq /\ y.pcs = x.pcs /\ y.ev = x.ev /\ y.evdeq = x.evdeq
      /\ y.evenq = x.evenq /\ y.erdp = x.erdp /\ y.ccs = x.ccs /\ y.ecs = x.ecs
      /\ y.tx = x.tx /\ y.bytes = x.bytes /\ y.seq = x.seq /\ y.setup = x.setup
      /\ y.clean = x.clean /\ y.full = x.full /\ y.err = x.err /\ y.on = x.on /\ DOMAIN y = Fields
  BY <1>4, Zenon DEF Frame, Fields
<1>9. Typed(y)
  BY <1>1, <1>7, <1>8, ZenonT(60) DEF Typed
<1>10. \A f \in Eps \ {e} : SameRing(x, y, f)
  BY <1>7, <1>8 DEF SameRing
<1>11. SetUp(y, e) /\ Linked(y, e)
  <2>1. DOMAIN r # {}
    BY <1>1, <1>6
  <2>2. r # <<>>
    BY <2>1
  <2>. QED  BY <1>1, <1>5, <1>6, <1>7, <2>2 DEF SetUp, Linked
<1>12. Sound(y)
  <2>1. \A f \in Eps \ {e} : (SetUp(y, f) <=> SetUp(x, f)) /\ (Linked(x, f) => Linked(y, f))
    BY <1>10 DEF SameRing, SetUp, Linked
  <2>2. \A f \in y.on : SetUp(y, f)
    <3>. SUFFICES ASSUME NEW f \in x.on, f # e PROVE SetUp(y, f)
      BY <1>8, <1>11
    <3>1. y.tr[f] = x.tr[f]
      BY <1>1, <1>4 DEF Typed
    <3>. QED  BY <3>1 DEF Sound, SetUp
  <2>. QED  BY <1>8, <1>9, <1>11, <2>1, <2>2 DEF Sound, Eps
<1>13. ASSUME RingInv(x, e), x.hdeq[e] # x.enq[e] PROVE RingInv(y, e)
  <2>1. /\ \A k \in Slots : x.tr[e][k].c = IF k < x.enq[e] THEN x.pcs[e] ELSE 1 - x.pcs[e]
        /\ x.pcs[e] = IF x.enq[e] >= at THEN c ELSE 1 - c
        /\ x.enq[e] # at
    BY <1>13 DEF RingInv, at, c
  <2>2. \A k \in Slots : y.tr[e][k].c = IF k < y.enq[e] THEN y.pcs[e] ELSE 1 - y.pcs[e]
    BY <1>6, <1>7, <1>8, <2>1
  <2>3. y.pcs[e] = IF y.enq[e] >= y.hdeq[e] THEN y.hdcs[e] ELSE 1 - y.hdcs[e]
    <3>1. x.enq[e] \in Places
      BY <1>1 DEF Typed
    <3>. QED  BY <1>1, <1>7, <1>8, <2>1, <3>1, XusbfAssumption DEF After, Places, Bits
  <2>. QED  BY <2>2, <2>3 DEF RingInv
<1>. QED  BY <1>4, <1>7, <1>10, <1>12, <1>13 DEF Consumed, at

-----------------------------------------------------------------------------
(* Answers.                                                                *)

\* Fields on which the shape of the rings does not depend.
Loose == {"halt", "err", "wait", "config", "state", "snap", "ip", "ehb", "port", "link", "last",
          "clean", "tx", "bytes", "seq", "setup"}

LEMMA LooseLemma ==
    ASSUME NEW x, Sound(x), NEW y, Frame(x, y, Loose), {y.err, y.clean} \subseteq BOOLEAN,
           {y.tx, y.bytes} \subseteq Int, y.seq \in Nat, y.setup \in Requests \cup {NoRequest}
    PROVE  Sound(y) /\ \A e \in Eps : SameRing(x, y, e)
<1>1. /\ y.tr = x.tr /\ y.enq = x.enq /\ y.deq = x.deq /\ y.pcs = x.pcs /\ y.hdeq = x.hdeq
      /\ y.hdcs = x.hdcs /\ y.on = x.on /\ y.torn = x.torn /\ y.ev = x.ev /\ y.evdeq = x.evdeq
      /\ y.evenq = x.evenq /\ y.erdp = x.erdp /\ y.ccs = x.ccs /\ y.ecs = x.ecs
      /\ y.full = x.full /\ DOMAIN y = Fields
  BY Zenon DEF Frame, Fields, Loose
<1>2. Typed(y)
  BY <1>1 DEF Sound, Typed
<1>. QED  BY <1>1, <1>2, Zenon DEF Sound, SetUp, Linked, SameRing

\* A control TRB of the given type is queued.
Issued(x, y, type, dir) ==
    /\ Sound(y) /\ Frame(x, y, {"tr", "enq", "pcs", "wait"})
    /\ \A e \in {"out", "in"} : SameRing(x, y, e)
    /\ Put(x, y, "ep0", ControlTrb(x, type, dir)) /\ y.wait = type

LEMMA IssueEffect ==
    ASSUME NEW x, Sound(x), NEW type \in {"data", "status"}, NEW dir \in {"in", "out"}, NEW y,
           y = [tegrabl_queue_trb(x, "ep0", ControlTrb(x, type, dir)) EXCEPT !.wait = type]
    PROVE  Issued(x, y, type, dir)
<1>. DEFINE t == ControlTrb(x, type, dir)
            z == tegrabl_queue_trb(x, "ep0", t)
<1>1. Typed(x) /\ "ep0" \in Eps /\ SetUp(x, "ep0") /\ Linked(x, "ep0") /\ x.seq \in Nat
  BY DEF Sound, Typed, Eps
<1>2. t \in Trbs /\ t.type # "link"
  BY <1>1 DEF ControlTrb, Blank, Trbs, Bits
<1>. HIDE DEF t
<1>3. /\ Typed(z) /\ Frame(x, z, {"tr", "enq", "pcs"})
      /\ \A f \in Eps \ {"ep0"} : SameRing(x, z, f)
      /\ SetUp(z, "ep0") /\ Linked(z, "ep0") /\ Put(x, z, "ep0", t)
  BY <1>1, <1>2, QueueEffect
<1>4. y = [z EXCEPT !.wait = type]
  BY DEF t
<1>. HIDE DEF z
<1>5. DOMAIN z = Fields /\ z.on = x.on
  BY <1>3, Zenon DEF Frame, Fields
<1>6. Frame(z, y, {"wait"}) /\ y.wait = type
  BY <1>4, <1>5, Zenon DEF Frame, Fields
<1>7. Sound(z)
  <2>1. \A f \in Eps \ {"ep0"} : (SetUp(z, f) <=> SetUp(x, f)) /\ (Linked(x, f) => Linked(z, f))
    BY <1>3 DEF SameRing, SetUp, Linked
  <2>2. \A f \in z.on : SetUp(z, f)
    BY <1>1, <1>3, <1>5, <2>1 DEF Sound, Typed
  <2>. QED  BY <1>3, <1>5, <2>1, <2>2 DEF Sound
<1>8. Sound(y) /\ \A e \in Eps : SameRing(z, y, e)
  <2>1. Frame(z, y, Loose)
    BY <1>6, Zenon DEF Frame, Loose
  <2>2. /\ y.err = z.err /\ y.clean = z.clean /\ y.tx = z.tx /\ y.bytes = z.bytes
        /\ y.seq = z.seq /\ y.setup = z.setup
    BY <1>6, Zenon DEF Frame, Fields
  <2>3. /\ {y.err, y.clean} \subseteq BOOLEAN /\ {y.tx, y.bytes} \subseteq Int
        /\ y.seq \in Nat /\ y.setup \in Requests \cup {NoRequest}
    BY <1>7, <2>2 DEF Sound, Typed
  <2>. QED  BY <1>7, <2>1, <2>3, LooseLemma, Zenon
<1>9. Frame(x, y, {"tr", "enq", "pcs", "wait"})
  BY <1>3, <1>6, Zenon DEF Frame
<1>10. Put(x, y, "ep0", t)
  <2>1. /\ y.enq["ep0"] = z.enq["ep0"] /\ y.deq["ep0"] = z.deq["ep0"] /\ y.hdeq["ep0"] = z.hdeq["ep0"]
        /\ y.hdcs["ep0"] = z.hdcs["ep0"] /\ y.tr["ep0"] = z.tr["ep0"] /\ y.pcs["ep0"] = z.pcs["ep0"]
    BY <1>1, <1>8 DEF SameRing
  <2>. QED  BY <1>3, <2>1 DEF Put, RingInv
<1>11. \A e \in {"out", "in"} : SameRing(x, y, e)
  BY <1>3, <1>8 DEF SameRing, Eps
<1>. QED  BY <1>6, <1>8, <1>9, <1>10, <1>11 DEF Issued, t

LEMMA RingSame ==
    ASSUME NEW x, NEW y, NEW e, SameRing(x, y, e)
    PROVE  /\ RingInv(x, e) <=> RingInv(y, e)
           /\ SetUp(x, e) <=> SetUp(y, e)
  BY Zenon DEF SameRing, RingInv, SetUp

\* What handling a request does to the context, apart from the answer on ep0.
SetupFields == EpFields \cup {"wait", "config", "state"}
RingsKept(x, y) ==
    /\ Sound(y)
    /\ "ep0" \in y.torn <=> "ep0" \in x.torn
    /\ \A e \in {"out", "in"} : BulkStep(x, y, e)
    /\ \A e \in Eps : SetUp(x, e) => SetUp(y, e)
Reconfigured(x, y) == RingsKept(x, y) /\ Frame(x, y, SetupFields)
NoAnswer(x, y) == SameRing(x, y, "ep0") /\ y.wait = x.wait
Answer(x, y, type, dir) == Put(x, y, "ep0", ControlTrb(x, type, dir)) /\ y.wait = type

LEMMA AnswerLemma ==
    ASSUME NEW x, NEW z, NEW w, NEW y, EpStep(x, z), Frame(w, y, {"config", "state", "err"}), y.err \in BOOLEAN,
           NEW type, NEW dir, w = z \/ Issued(z, w, type, dir)
    PROVE  /\ Reconfigured(x, y) /\ y.torn = z.torn /\ y.halt = z.halt
           /\ w = z => NoAnswer(x, y)
           /\ Issued(z, w, type, dir) => Answer(x, y, type, dir)
<1>0. Sound(z) /\ Frame(x, z, EpFields) /\ SameRing(x, z, "ep0") /\ DOMAIN z = Fields
  BY DEF EpStep, Frame
<1>1. Sound(w) /\ Frame(z, w, {"tr", "enq", "pcs", "wait"}) /\ \A e \in {"out", "in"} : SameRing(z, w, e)
  <2>1. CASE w = z
    BY <1>0, <2>1, Zenon DEF Frame, SameRing
  <2>2. CASE Issued(z, w, type, dir)
    BY <2>2, Zenon DEF Issued
  <2>. QED  BY <2>1, <2>2
<1>2. /\ w.on = z.on /\ w.torn = z.torn /\ w.halt = z.halt
  BY <1>1, Zenon DEF Frame, Fields
<1>3. /\ y.on = w.on /\ y.torn = w.torn /\ y.halt = w.halt /\ y.wait = w.wait
      /\ y.clean = w.clean /\ y.tx = w.tx /\ y.bytes = w.bytes
      /\ y.seq = w.seq /\ y.setup = w.setup
  BY Zenon DEF Frame, Fields
<1>4. Sound(y) /\ \A e \in Eps : SameRing(w, y, e)
  <2>1. Frame(w, y, Loose)
    BY Zenon DEF Frame, Loose
  <2>2. /\ {y.err, y.clean} \subseteq BOOLEAN /\ {y.tx, y.bytes} \subseteq Int
        /\ y.seq \in Nat /\ y.setup \in Requests \cup {NoRequest}
    BY <1>1, <1>3 DEF Sound, Typed
  <2>. QED  BY <1>1, <2>1, <2>2, LooseLemma, Zenon
<1>5. Frame(x, y, SetupFields)
  BY <1>0, <1>1, Zenon DEF Frame, SetupFields, EpFields
<1>6. ASSUME NEW e \in {"out", "in"} PROVE BulkStep(x, y, e) /\ SameRing(z, y, e)
  <2>1. SameRing(z, w, e) /\ SameRing(w, y, e) /\ BulkStep(x, z, e)
    BY <1>1, <1>4 DEF EpStep, Eps
  <2>2. SameRing(z, y, e)
    BY <2>1, Zenon DEF SameRing
  <2>3. y.on = z.on /\ y.torn = z.torn
    BY <1>2, <1>3
  <2>. QED  BY <2>1, <2>2, <2>3, Zenon DEF BulkStep, SameRing, NewRing
<1>7. \A e \in Eps : SetUp(x, e) => SetUp(y, e)
  <2>1. \A e \in {"out", "in"} : SetUp(x, e) => SetUp(y, e)
    BY <1>6, RingSame DEF EpStep, Eps
  <2>. QED  BY <1>4, <2>1 DEF Sound, Eps
<1>8. Reconfigured(x, y)
  <2>1. "ep0" \in y.torn <=> "ep0" \in x.torn
    BY <1>2, <1>3 DEF EpStep
  <2>. QED  BY <1>4, <1>5, <1>6, <1>7, <2>1 DEF Reconfigured, RingsKept
<1>9. SameRing(w, y, "ep0")
  BY <1>4 DEF Eps
<1>10. w = z => NoAnswer(x, y)
  <2>1. z.wait = x.wait
    BY <1>0, Zenon DEF Frame, Fields, EpFields
  <2>. QED  BY <1>0, <1>3, <1>9, <2>1 DEF NoAnswer, SameRing
<1>11. ASSUME Issued(z, w, type, dir) PROVE Answer(x, y, type, dir)
  <2>1. z.seq = x.seq
    BY <1>0, Zenon DEF Frame, Fields, EpFields
  <2>2. ControlTrb(z, type, dir) = ControlTrb(x, type, dir)
    BY <2>1 DEF ControlTrb
  <2>. DEFINE t == ControlTrb(x, type, dir)
  <2>3. Put(z, w, "ep0", t) /\ w.wait = type
    BY <1>11, <2>2 DEF Issued
  <2>. HIDE DEF t
  <2>4. RingInv(x, "ep0") <=> RingInv(z, "ep0")
    BY <1>0, RingSame
  <2>5. RingInv(y, "ep0") <=> RingInv(w, "ep0")
    BY <1>9, RingSame
  <2>6. /\ z.enq["ep0"] = x.enq["ep0"] /\ z.deq["ep0"] = x.deq["ep0"]
        /\ z.hdeq["ep0"] = x.hdeq["ep0"] /\ z.hdcs["ep0"] = x.hdcs["ep0"]
    BY <1>0 DEF SameRing
  <2>7. /\ y.enq["ep0"] = w.enq["ep0"] /\ y.deq["ep0"] = w.deq["ep0"] /\ y.tr["ep0"] = w.tr["ep0"]
        /\ y.hdeq["ep0"] = w.hdeq["ep0"] /\ y.hdcs["ep0"] = w.hdcs["ep0"]
    BY <1>9 DEF SameRing
  <2>8. Put(x, y, "ep0", t)
    BY <2>3, <2>4, <2>5, <2>6, <2>7, Zenon DEF Put
  <2>. QED  BY <1>3, <2>3, <2>8 DEF Answer, t
<1>. QED  BY <1>2, <1>3, <1>8, <1>10, <1>11

\* The answer: none, for a reason, or the first TRB of it.
Expected(r, type, dir) ==
    \/ type = "data" /\ r.kind \in {"get", "sel"}
    \/ type = "status" /\ dir = "in" /\ r.kind # "get"
Silent(x, y, fail) ==
    NoAnswer(x, y) /\ (fail = "none" => ControlBusy(x) \/ "ep0" \in y.halt \/ x.setup.kind \in {"other", "none"})
Replied(x, y) ==
    ~ControlBusy(x) /\ \E type \in {"data", "status"}, dir \in {"in", "out"} :
                          Answer(x, y, type, dir) /\ Expected(x.setup, type, dir)
SetupStep(x, y, fail) ==
    /\ Reconfigured(x, y) /\ (fail = "none" => y.torn \subseteq x.torn)
    /\ Silent(x, y, fail) \/ Replied(x, y)

\* Requests with a status stage only.
LEMMA StatusLemma ==
    ASSUME NEW x, NEW z, EpStep(x, z), NEW fail, fail = "none" => z.torn \subseteq x.torn,
           x.setup.kind # "get", NEW y,
           Frame(tegrabl_issue_status_trb(z, "in"), y, {"config", "state", "err"}), y.err \in BOOLEAN
    PROVE  SetupStep(x, y, fail)
<1>. DEFINE w == tegrabl_issue_status_trb(z, "in")
<1>1. Sound(z) /\ (ControlBusy(z) <=> ControlBusy(x))
  BY DEF EpStep, SameRing, ControlBusy
<1>2. CASE ControlBusy(z)
  <2>1. w = z
    BY <1>2 DEF tegrabl_issue_status_trb
  <2>. HIDE DEF w
  <2>2. Frame(w, y, {"config", "state", "err"})
    BY DEF w
  <2>3. Reconfigured(x, y) /\ y.torn = z.torn /\ NoAnswer(x, y)
    BY <2>1, <2>2, AnswerLemma, SMTT(60)
  <2>. QED  BY <1>1, <1>2, <2>3 DEF SetupStep, Silent
<1>3. CASE ~ControlBusy(z)
  <2>1. w = [tegrabl_queue_trb(z, "ep0", ControlTrb(z, "status", "in")) EXCEPT !.wait = "status"]
    BY <1>3 DEF tegrabl_issue_status_trb
  <2>. HIDE DEF w
  <2>2. Frame(w, y, {"config", "state", "err"})
    BY DEF w
  <2>3. Issued(z, w, "status", "in")
    BY <1>1, <2>1, IssueEffect
  <2>4. Reconfigured(x, y) /\ y.torn = z.torn /\ Answer(x, y, "status", "in")
    BY <2>2, <2>3, AnswerLemma
  <2>. QED  BY <1>1, <1>3, <2>4 DEF SetupStep, Replied, Expected
<1>. QED  BY <1>2, <1>3

\* Requests with a data stage: tegrabl_handle_setuppkt also asks for the status stage of
\* the one whose data goes out, when the data TRB is still there.
LEMMA DataLemma ==
    ASSUME NEW x, NEW z, EpStep(x, z), NEW fail, z.torn = x.torn,
           x.setup.kind \in {"get", "sel"}, NEW dir \in {"in", "out"}, NEW y,
           y \in {tegrabl_issue_data_trb(z, dir), tegrabl_issue_status_trb(tegrabl_issue_data_trb(z, dir), "in")}
    PROVE  SetupStep(x, y, fail)
<1>. DEFINE w == tegrabl_issue_data_trb(z, dir)
<1>1. /\ Sound(z) /\ (ControlBusy(z) <=> ControlBusy(x)) /\ z.deq["ep0"] \in Places /\ z.enq["ep0"] \in Places
      /\ DOMAIN z = Fields /\ z.err \in BOOLEAN
  BY DEF EpStep, SameRing, ControlBusy, Sound, Typed, Eps
<1>2. CASE ControlBusy(z)
  <2>1. y = z
    BY <1>2 DEF tegrabl_issue_data_trb, tegrabl_issue_status_trb
  <2>2. Frame(z, y, {"config", "state", "err"})
    BY <1>1, <2>1, Zenon DEF Frame
  <2>3. Reconfigured(x, y) /\ y.torn = z.torn /\ NoAnswer(x, y)
    BY <1>1, <2>1, <2>2, AnswerLemma
  <2>. QED  BY <1>1, <1>2, <2>3 DEF SetupStep, Silent
<1>3. CASE ~ControlBusy(z)
  <2>1. w = [tegrabl_queue_trb(z, "ep0", ControlTrb(z, "data", dir)) EXCEPT !.wait = "data"]
    BY <1>3 DEF tegrabl_issue_data_trb
  <2>0. y \in {w, tegrabl_issue_status_trb(w, "in")}
    OBVIOUS
  <2>. HIDE DEF w
  <2>2. Issued(z, w, "data", dir)
    BY <1>1, <2>1, IssueEffect
  <2>3. ControlBusy(w)
    <3>1. w.enq["ep0"] = After(z.enq["ep0"]) /\ w.deq["ep0"] = z.deq["ep0"]
      BY <2>2 DEF Issued, Put
    <3>. QED  BY <1>1, <1>3, <3>1, PlaceLemma DEF ControlBusy
  <2>4. y = w
    BY <2>0, <2>3 DEF tegrabl_issue_status_trb
  <2>5. Frame(w, y, {"config", "state", "err"}) /\ y.err \in BOOLEAN
    BY <2>2, <2>4 DEF Issued, Frame, Sound, Typed
  <2>6. Reconfigured(x, y) /\ y.torn = z.torn /\ Answer(x, y, "data", dir)
    BY <2>2, <2>5, AnswerLemma
  <2>. QED  BY <1>1, <1>3, <2>6 DEF SetupStep, Replied, Expected
<1>. QED  BY <1>2, <1>3

\* Requests that are not answered.
LEMMA SilentLemma ==
    ASSUME NEW x, NEW z, EpStep(x, z), NEW fail, fail = "none" => z.torn \subseteq x.torn,
           fail = "none" => "ep0" \in z.halt \/ x.setup.kind \in {"other", "none"}
    PROVE  SetupStep(x, z, fail)
<1>1. Frame(z, z, {"config", "state", "err"}) /\ z.err \in BOOLEAN
  BY DEF EpStep, Sound, Typed, Frame
<1>2. Reconfigured(x, z) /\ NoAnswer(x, z)
  BY <1>1, AnswerLemma
<1>. QED  BY <1>2 DEF SetupStep, Silent

LEMMA ConfigurationEffect ==
    ASSUME NEW x, Sound(x), NEW y0, EpStep(x, y0), y0.torn = x.torn, y0.err = FALSE,
           NEW value, NEW fail, x.setup.kind = "config",
           NEW y, y = tegrabl_set_configuration(y0, value, fail)
    PROVE  SetupStep(x, y, fail)
<1>. DEFINE a == tegrabl_disable_ep(y0, "in", fail = "in off")
            b == tegrabl_disable_ep(a, "out", fail = "out off")
            off == IF y0.config # 0 \/ value = 0 THEN b ELSE y0
            c == tegrabl_initep(off, "out", fail = "out on")
            d == tegrabl_initep(c, "in", fail = "in on")
            on == IF value # 0 THEN d ELSE off
<1>1. y = IF on.err THEN on
          ELSE [tegrabl_issue_status_trb(on, "in") EXCEPT !.config = value,
                   !.state = IF value # 0 THEN "configured pending" ELSE "addressed pending"]
  BY DEF tegrabl_set_configuration
<1>2. EpStep(y0, a) /\ a.torn = y0.torn /\ (fail = "none" => a.err = FALSE)
  BY DisableEffect DEF EpStep
<1>. HIDE DEF a
<1>3. EpStep(a, b) /\ b.torn = a.torn /\ (fail = "none" => b.err = FALSE)
  BY <1>2, DisableEffect DEF EpStep
<1>. HIDE DEF b
<1>4. EpStep(x, off) /\ off.torn = x.torn /\ (fail = "none" => off.err = FALSE)
  <2>1. EpStep(x, b)
    BY <1>2, <1>3, EpTrans
  <2>. QED  BY <1>2, <1>3, <2>1
<1>. HIDE DEF off
<1>5. EpStep(off, c) /\ (fail = "none" => c.err = FALSE /\ c.torn \subseteq x.torn)
  BY <1>4, InitepEffect, ZenonT(60) DEF EpStep
<1>. HIDE DEF c
<1>6. EpStep(c, d) /\ (fail = "none" => d.err = FALSE /\ d.torn \subseteq x.torn)
  BY <1>5, InitepEffect DEF EpStep
<1>. HIDE DEF d
<1>7. EpStep(x, on) /\ (fail = "none" => on.err = FALSE /\ on.torn \subseteq x.torn)
  <2>1. EpStep(x, d)
    BY <1>4, <1>5, <1>6, EpTrans
  <2>. QED  BY <1>4, <1>6, <2>1
<1>. HIDE DEF on
<1>8. CASE on.err
  <2>1. fail # "none"
    BY <1>7, <1>8
  <2>. QED  BY <1>1, <1>7, <1>8, <2>1, SilentLemma
<1>9. CASE ~on.err
  <2>. DEFINE w == tegrabl_issue_status_trb(on, "in")
  <2>1. y = [w EXCEPT !.config = value,
                !.state = IF value # 0 THEN "configured pending" ELSE "addressed pending"]
    BY <1>1, <1>9
  <2>2. DOMAIN w = Fields /\ w.err \in BOOLEAN
    <3>1. Sound(on)
      BY <1>7 DEF EpStep
    <3>2. w = on \/ w = [tegrabl_queue_trb(on, "ep0", ControlTrb(on, "status", "in")) EXCEPT !.wait = "status"]
      BY DEF tegrabl_issue_status_trb
    <3>. HIDE DEF w
    <3>3. w = on \/ Issued(on, w, "status", "in")
      BY <3>1, <3>2, IssueEffect
    <3>. QED  BY <3>1, <3>3 DEF Issued, Sound, Typed
  <2>. HIDE DEF w
  <2>3. Frame(w, y, {"config", "state", "err"}) /\ y.err = w.err
    BY <2>1, <2>2, Zenon DEF Frame, Fields
  <2>. QED  BY <1>7, <2>2, <2>3, StatusLemma DEF w
<1>. QED  BY <1>8, <1>9

LEMMA SetupEffect ==
    ASSUME NEW x, Sound(x), NEW fail, NEW y, y = tegrabl_handle_setuppkt(x, fail)
    PROVE  SetupStep(x, y, fail)
<1>. DEFINE r == x.setup
            z == [x EXCEPT !.err = FALSE, !.halt = @ \ {"ep0"}]
<1>0. DOMAIN x = Fields
  BY DEF Sound, Typed
<1>1. Frame(x, z, {"halt", "err"}) /\ z.err = FALSE /\ z.torn = x.torn /\ z.halt = x.halt \ {"ep0"}
  BY <1>0, Zenon DEF Frame, Fields
<1>2. y = IF fail = "halt" THEN [z EXCEPT !.err = TRUE]
          ELSE CASE r.kind = "config"  -> tegrabl_set_configuration(z, r.value, fail)
                 [] r.kind = "address" -> [tegrabl_issue_status_trb(z, "in") EXCEPT !.state = "addressed pending"]
                 [] r.kind = "set"     -> tegrabl_issue_status_trb(z, "in")
                 [] r.kind = "sel"     -> tegrabl_issue_status_trb(tegrabl_issue_data_trb(z, "out"), "in")
                 [] r.kind = "get"     -> tegrabl_issue_data_trb(z, "in")
                 [] r.kind \in {"halt", "resume"} ->
                        [tegrabl_issue_status_trb(tegrabl_stall_ep(z, r.ep, r.kind = "halt", FALSE), "in")
                            EXCEPT !.err = FALSE]
                 [] r.kind = "bad"     -> tegrabl_stall_ep(z, "ep0", TRUE, fail = "stall")
                 [] OTHER              -> z
  BY DEF tegrabl_handle_setuppkt
<1>. HIDE DEF z
<1>3. EpStep(x, z) /\ Sound(z) /\ DOMAIN z = Fields
  <2>1. EpStep(x, z)
    BY <1>1, ShapeLemma
  <2>. QED  BY <2>1 DEF EpStep, Frame
<1>4. \A u : Sound(u) => DOMAIN tegrabl_issue_status_trb(u, "in") = Fields
                         /\ tegrabl_issue_status_trb(u, "in").err \in BOOLEAN
  <2>. SUFFICES ASSUME NEW u, Sound(u)
                PROVE  DOMAIN tegrabl_issue_status_trb(u, "in") = Fields
                       /\ tegrabl_issue_status_trb(u, "in").err \in BOOLEAN
    OBVIOUS
  <2>. DEFINE w == tegrabl_issue_status_trb(u, "in")
  <2>1. w = u \/ w = [tegrabl_queue_trb(u, "ep0", ControlTrb(u, "status", "in")) EXCEPT !.wait = "status"]
    BY DEF tegrabl_issue_status_trb
  <2>. HIDE DEF w
  <2>2. w = u \/ Issued(u, w, "status", "in")
    BY <2>1, IssueEffect
  <2>3. DOMAIN w = Fields /\ w.err \in BOOLEAN
    BY <2>2 DEF Issued, Sound, Typed
  <2>. QED  BY <2>3 DEF w
<1>5. CASE fail = "halt"
  <2>1. y = [z EXCEPT !.err = TRUE]
    BY <1>2, <1>5
  <2>2. Frame(z, y, {"halt", "err"}) /\ y.err = TRUE
    BY <1>3, <2>1, Zenon DEF Frame, Fields
  <2>3. EpStep(x, y)
    BY <1>3, <2>2, ShapeLemma, EpTrans
  <2>. QED  BY <1>5, <2>3, SilentLemma
<1>6. CASE fail # "halt" /\ r.kind = "config"
  <2>1. y = tegrabl_set_configuration(z, r.value, fail)
    BY <1>2, <1>6
  <2>. QED  BY <1>1, <1>3, <1>6, <2>1, ConfigurationEffect
<1>7. CASE fail # "halt" /\ r.kind = "address"
  <2>1. y = [tegrabl_issue_status_trb(z, "in") EXCEPT !.state = "addressed pending"]
    BY <1>2, <1>7
  <2>2. Frame(tegrabl_issue_status_trb(z, "in"), y, {"config", "state", "err"}) /\ y.err \in BOOLEAN
    <3>. DEFINE w == tegrabl_issue_status_trb(z, "in")
    <3>1. DOMAIN w = Fields /\ w.err \in BOOLEAN
      BY <1>3, <1>4
    <3>. HIDE DEF w
    <3>2. y = [w EXCEPT !.state = "addressed pending"]
      BY <2>1 DEF w
    <3>3. Frame(w, y, {"config", "state", "err"}) /\ y.err = w.err
      BY <3>1, <3>2, Zenon DEF Frame, Fields
    <3>. QED  BY <3>1, <3>3 DEF w
  <2>. QED  BY <1>1, <1>3, <1>7, <2>2, StatusLemma
<1>8. CASE fail # "halt" /\ r.kind = "set"
  <2>1. y = tegrabl_issue_status_trb(z, "in")
    BY <1>2, <1>8
  <2>2. Frame(tegrabl_issue_status_trb(z, "in"), y, {"config", "state", "err"}) /\ y.err \in BOOLEAN
    <3>1. DOMAIN y = Fields /\ y.err \in BOOLEAN
      BY <1>3, <1>4, <2>1
    <3>. QED  BY <2>1, <3>1 DEF Frame
  <2>. QED  BY <1>1, <1>3, <1>8, <2>2, StatusLemma
<1>9. CASE fail # "halt" /\ r.kind = "sel"
  <2>1. y = tegrabl_issue_status_trb(tegrabl_issue_data_trb(z, "out"), "in")
    BY <1>2, <1>9
  <2>. QED  BY <1>1, <1>3, <1>9, <2>1, DataLemma
<1>10. CASE fail # "halt" /\ r.kind = "get"
  <2>1. y = tegrabl_issue_data_trb(z, "in")
    BY <1>2, <1>10
  <2>. QED  BY <1>1, <1>3, <1>10, <2>1, DataLemma
<1>11. CASE fail # "halt" /\ r.kind \in {"halt", "resume"}
  <2>. DEFINE u == tegrabl_stall_ep(z, r.ep, r.kind = "halt", FALSE)
              w == tegrabl_issue_status_trb(u, "in")
  <2>1. y = [w EXCEPT !.err = FALSE]
    BY <1>2, <1>11
  <2>. HIDE DEF w
  <2>2. Frame(z, u, {"halt", "err"}) /\ u.err = FALSE /\ u.torn = z.torn
    BY <1>3, Zenon DEF tegrabl_stall_ep, Frame, Fields
  <2>. HIDE DEF u
  <2>3. EpStep(z, u)
    BY <1>3, <2>2, ShapeLemma
  <2>4. EpStep(x, u) /\ Sound(u)
    BY <1>3, <2>3, EpTrans DEF EpStep
  <2>5. DOMAIN w = Fields
    BY <1>4, <2>4 DEF w
  <2>6. Frame(w, y, {"config", "state", "err"}) /\ y.err = FALSE
    BY <2>1, <2>5, Zenon DEF Frame, Fields
  <2>. QED  BY <1>1, <1>11, <2>2, <2>4, <2>6, StatusLemma DEF w
<1>12. CASE fail # "halt" /\ r.kind = "bad"
  <2>1. y = tegrabl_stall_ep(z, "ep0", TRUE, fail = "stall")
    BY <1>2, <1>12
  <2>2. Frame(z, y, {"halt", "err"}) /\ y.err = (fail = "stall") /\ y.torn = z.torn
        /\ y.halt = z.halt \cup {"ep0"}
    BY <1>3, <2>1, Zenon DEF tegrabl_stall_ep, Frame, Fields
  <2>3. EpStep(z, y)
    BY <1>3, <2>2, ShapeLemma
  <2>4. EpStep(x, y)
    BY <1>3, <2>3, EpTrans
  <2>. QED  BY <1>1, <2>2, <2>4, SilentLemma
<1>13. CASE /\ fail # "halt"
            /\ r.kind \notin {"config", "address", "set", "sel", "get", "halt", "resume", "bad"}
  <2>1. y = z
    BY <1>2, <1>13
  <2>2. r.kind \in {"other", "none"}
    BY <1>13, RequestsAssumption DEF Sound, Typed, NoRequest
  <2>. QED  BY <1>1, <1>3, <2>1, <2>2, SilentLemma
<1>. QED  BY <1>5, <1>6, <1>7, <1>8, <1>9, <1>10, <1>11, <1>12, <1>13

-----------------------------------------------------------------------------
(* What an answer leaves true.                                             *)

\* Handling an event and stepping over it do not interfere.
LEMMA PopSame ==
    ASSUME NEW x, DOMAIN x = Fields, NEW y, NEW F, Frame(x, y, F), F \cap EventFields = {}
    PROVE  Frame(NextEvent(x), NextEvent(y), F)
<1>. DEFINE a == NextEvent(x)
            b == NextEvent(y)
<1>1. DOMAIN y = Fields /\ y.ev = x.ev /\ y.evdeq = x.evdeq /\ y.ccs = x.ccs
  BY Zenon DEF Frame, Fields, EventFields
<1>2. /\ Frame(x, a, EventFields)
      /\ a.ev = [x.ev EXCEPT ![x.evdeq] = Spent(NoEvent, @)]
      /\ a.evdeq = (x.evdeq + 1) % EventSize
      /\ a.ccs = IF x.evdeq = EventSize - 1 THEN 1 - x.ccs ELSE x.ccs
  BY Zenon DEF NextEvent, Frame, Fields, EventFields
<1>3. /\ Frame(y, b, EventFields)
      /\ b.ev = [y.ev EXCEPT ![y.evdeq] = Spent(NoEvent, @)]
      /\ b.evdeq = (y.evdeq + 1) % EventSize
      /\ b.ccs = IF y.evdeq = EventSize - 1 THEN 1 - y.ccs ELSE y.ccs
  BY <1>1, Zenon DEF NextEvent, Frame, Fields, EventFields
<1>4. b.ev = a.ev /\ b.evdeq = a.evdeq /\ b.ccs = a.ccs
  BY <1>1, <1>2, <1>3
<1>. HIDE DEF a, b
<1>5. ASSUME NEW f \in Fields \ F PROVE b[f] = a[f]
  <2>1. CASE f \in EventFields
    BY <1>4, <2>1 DEF EventFields
  <2>2. CASE f \notin EventFields
    BY <1>2, <1>3, <1>5, <2>2, Zenon DEF Frame
  <2>. QED  BY <2>1, <2>2
<1>6. DOMAIN b = Fields
  BY <1>3 DEF Frame
<1>. QED  BY <1>5, <1>6 DEF Frame, a, b

LEMMA ControlKept ==
    ASSUME NEW x, Sound(x), ControlInv(x), NEW y, Sound(y),
           "ep0" \in y.torn <=> "ep0" \in x.torn,
           y.ev = x.ev, y.evdeq = x.evdeq, y.evenq = x.evenq,
           NEW t, SameRing(x, y, "ep0") \/ (~ControlBusy(x) /\ Put(x, y, "ep0", t))
    PROVE  ControlInv(y)
<1>1. x.enq["ep0"] \in Places /\ x.deq["ep0"] \in Places
  BY DEF Sound, Typed, Eps
<1>2. \A k : IsDone(y, k, {"ep0"}) <=> IsDone(x, k, {"ep0"})
  BY DEF IsDone, Pending
<1>3. CASE SameRing(x, y, "ep0")
  <2>1. RingInv(y, "ep0")
    BY <1>3, RingSame DEF ControlInv
  <2>. QED  BY <1>2, <1>3, <2>1 DEF ControlInv, SameRing, Sound
<1>4. CASE ~ControlBusy(x) /\ Put(x, y, "ep0", t)
  <2>1. x.enq["ep0"] = x.deq["ep0"] /\ x.hdeq["ep0"] = x.deq["ep0"]
    BY <1>4 DEF ControlInv, ControlBusy
  <2>2. After(x.enq["ep0"]) # x.hdeq["ep0"]
    BY <1>1, <2>1, PlaceLemma
  <2>3. RingInv(y, "ep0")
    BY <1>4, <2>2 DEF Put, ControlInv
  <2>. QED  BY <1>2, <1>4, <2>1, <2>3 DEF ControlInv, Put, Sound
<1>. QED  BY <1>3, <1>4

LEMMA EmptyRingInv ==
    ASSUME NEW y, NEW e, NewRing(y, e), e \notin y.torn
    PROVE  RingInv(y, e) /\ y.enq[e] = y.hdeq[e]
<1>1. /\ y.tr[e] = EmptyRing /\ y.enq[e] = 0 /\ y.pcs[e] = 1 /\ y.hdeq[e] = 0 /\ y.hdcs[e] = 1
  BY DEF NewRing
<1>. QED  BY <1>1, EmptyRingLemma DEF RingInv, Slots

LEMMA TransferKept ==
    ASSUME NEW x, TransferInv(x), NEW y, RingsKept(x, y), RingInv(y, "ep0"), y.full = x.full
    PROVE  TransferInv(y)
<1>1. ASSUME ~y.full, NEW e \in y.on \ y.torn PROVE RingInv(y, e)
  <2>1. e \in Eps /\ Sound(y)
    BY DEF RingsKept, Sound, Typed
  <2>2. CASE e = "ep0"
    BY <2>2
  <2>3. CASE e # "ep0" /\ NewRing(y, e)
    BY <1>1, <2>3, EmptyRingInv
  <2>4. CASE e # "ep0" /\ ~NewRing(y, e)
    <3>1. SameRing(x, y, e) /\ e \in x.on /\ e \notin x.torn
      BY <1>1, <2>1, <2>4 DEF RingsKept, BulkStep, Eps
    <3>2. RingInv(x, e)
      BY <1>1, <3>1 DEF TransferInv
    <3>. QED  BY <3>1, <3>2, RingSame
  <2>. QED  BY <2>2, <2>3, <2>4
<1>. QED  BY <1>1 DEF TransferInv, RingsKept, Sound

LEMMA BulkKept ==
    ASSUME NEW x, NEW job, NEW r, BulkInv(x, job, r), NEW y, RingsKept(x, y), y.full = x.full,
           y.ev = x.ev, y.evdeq = x.evdeq, y.evenq = x.evenq,
           y.tx = x.tx, y.bytes = x.bytes, y.last = x.last,
           y.clean => x.clean /\ y.torn \subseteq x.torn
    PROVE  BulkInv(y, job, r)
<1>. SUFFICES ASSUME y.clean PROVE BulkInv(y, job, r)
  BY DEF BulkInv
<1>1. ~y.full /\ y.torn = {} /\ x.clean
  BY DEF BulkInv
<1>2. \A k : IsDone(y, k, {"out", "in"}) <=> IsDone(x, k, {"out", "in"})
  BY DEF IsDone, Pending
<1>3. Waits(y, job, r) <=> Waits(x, job, r)
  BY DEF Waits
<1>4. ASSUME NEW e \in {"out", "in"}
      PROVE  /\ SetUp(y, e) => RingInv(y, e) /\ y.enq[e] \in {y.hdeq[e], After(y.hdeq[e])}
             /\ Left(y, e) =>
                   /\ Waits(y, job, r) /\ job.name = e /\ y.tr[e][y.hdeq[e]].id = job.id
                   /\ \A k \in EvSlots : ~IsDone(y, k, {"out", "in"})
  <2>1. CASE NewRing(y, e)
    BY <1>1, <2>1, EmptyRingInv DEF Left
  <2>2. CASE ~NewRing(y, e)
    <3>1. SameRing(x, y, e)
      BY <2>2 DEF RingsKept, BulkStep
    <3>2. /\ SetUp(x, e) => RingInv(x, e) /\ x.enq[e] \in {x.hdeq[e], After(x.hdeq[e])}
          /\ Left(x, e) =>
                   /\ Waits(x, job, r) /\ job.name = e /\ x.tr[e][x.hdeq[e]].id = job.id
                   /\ \A k \in EvSlots : ~IsDone(x, k, {"out", "in"})
      BY <1>1 DEF BulkInv
    <3>3. /\ RingInv(x, e) <=> RingInv(y, e)
          /\ SetUp(x, e) <=> SetUp(y, e)
      BY <3>1, RingSame
    <3>4. y.tr[e] = x.tr[e] /\ y.enq[e] = x.enq[e] /\ y.hdeq[e] = x.hdeq[e]
      BY <3>1 DEF SameRing
    <3>. QED  BY <1>2, <1>3, <3>2, <3>3, <3>4 DEF Left
  <2>. QED  BY <2>1, <2>2
<1>5. \A k \in EvSlots : IsDone(y, k, {"out", "in"}) =>
              /\ Waits(y, job, r) /\ y.ev[k].ep = job.name /\ y.ev[k].id = job.id
              /\ y.ev[k].code = "ok" => y.ev[k].rem = Length - y.ev[k].moved
              /\ \A j \in EvSlots : IsDone(y, j, {"out", "in"}) => j = k
  BY <1>1, <1>2, <1>3 DEF BulkInv
<1>6. /\ r => job.name # "none"
      /\ r /\ job.name \in {"out", "in"} /\ y.tx = 0 =>
              y.last = [ep |-> job.name, id |-> job.id, moved |-> y.bytes]
  BY <1>1 DEF BulkInv
<1>. QED  BY <1>1, <1>4, <1>5, <1>6 DEF BulkInv

LEMMA SetupKept ==
    ASSUME NEW x, NEW host, SetupInv(x, host), NEW y, y.ev = x.ev, y.evdeq = x.evdeq, y.evenq = x.evenq,
           y.seq = x.seq, y.setup = x.setup
    PROVE  SetupInv(y, host)
<1>1. \A k : /\ IsDone(y, k, {"ep0"}) <=> IsDone(x, k, {"ep0"})
             /\ IsSetup(y, k) <=> IsSetup(x, k)
             /\ Behind(y, k) = Behind(x, k)
  BY DEF IsDone, IsSetup, Pending, Behind
<1>. QED  BY <1>1 DEF SetupInv

\* A TRB that fits the request answers it.
LEMMA AnswerKept ==
    ASSUME NEW x, Sound(x), ControlInv(x), NEW host,
           NEW y, NEW type, NEW dir, ~ControlBusy(x), Answer(x, y, type, dir),
           y.clean => \/ type = "data" /\ x.setup.kind \in {"get", "sel"}
                      \/ type = "status" /\ (dir = StatusDir(x.setup) \/ x.setup.kind = "sel"),
           y.ev = x.ev, y.evdeq = x.evdeq, y.evenq = x.evenq, y.seq = x.seq, y.setup = x.setup
    PROVE  TrbInv(y) /\ DoneInv(y, host) /\ AnswerInv(y, host)
<1>1. \A k : IsDone(y, k, {"ep0"}) <=> IsDone(x, k, {"ep0"})
  BY DEF IsDone, Pending
<1>2. x.enq["ep0"] = x.deq["ep0"] /\ x.hdeq["ep0"] = x.deq["ep0"] /\ x.deq["ep0"] \in Places /\ x.seq \in Nat
  BY DEF ControlBusy, ControlInv, Sound, Typed, Eps
<1>. DEFINE q == y.tr["ep0"][x.enq["ep0"]]
            t == ControlTrb(x, type, dir)
<1>3. /\ y.enq["ep0"] = After(x.enq["ep0"]) /\ y.deq["ep0"] = x.deq["ep0"] /\ y.hdeq["ep0"] = x.hdeq["ep0"]
      /\ q.type = t.type /\ q.dir = t.dir /\ q.seq = t.seq /\ y.wait = type
  BY DEF Answer, Put
<1>4. t.type = type /\ t.dir = dir /\ t.seq = x.seq
  BY DEF ControlTrb, Blank
<1>5. After(x.enq["ep0"]) # x.deq["ep0"]
  BY <1>2, PlaceLemma
<1>. HIDE DEF t
<1>6. TrbInv(y)
  BY <1>2, <1>3, <1>4 DEF TrbInv
<1>7. DoneInv(y, host)
  BY <1>1, <1>2 DEF DoneInv, ControlInv
<1>8. AnswerInv(y, host)
  BY <1>3, <1>5 DEF AnswerInv, ControlBusy
<1>. QED  BY <1>6, <1>7, <1>8

\* Handling the request, for the first time or again, answers it.
LEMMA ReplyKept ==
    ASSUME NEW x, Sound(x), ControlInv(x), TrbInv(x), NEW host, DoneInv(x, host), SetupInv(x, host),
           NEW y, NEW fail, Silent(x, y, fail) \/ Replied(x, y), y.clean => x.clean /\ fail = "none",
           y.ev = x.ev, y.evdeq = x.evdeq, y.evenq = x.evenq, y.seq = x.seq, y.setup = x.setup
    PROVE  TrbInv(y) /\ DoneInv(y, host) /\ AnswerInv(y, host)
<1>1. \A k : IsDone(y, k, {"ep0"}) <=> IsDone(x, k, {"ep0"})
  BY DEF IsDone, Pending
<1>2. host.stage = "open" /\ x.seq = host.seq => host.req = x.setup /\ host.req.kind # "none"
  BY RequestsAssumption DEF SetupInv
<1>3. CASE Silent(x, y, fail)
  <2>1. y.tr["ep0"] = x.tr["ep0"] /\ y.enq["ep0"] = x.enq["ep0"] /\ y.deq["ep0"] = x.deq["ep0"]
        /\ y.hdeq["ep0"] = x.hdeq["ep0"] /\ y.wait = x.wait
    BY <1>3 DEF Silent, NoAnswer, SameRing
  <2>2. TrbInv(y)
    BY <2>1 DEF TrbInv
  <2>3. DoneInv(y, host)
    BY <1>1, <2>1 DEF DoneInv
  <2>4. AnswerInv(y, host)
    BY <1>2, <1>3, <2>1 DEF AnswerInv, Silent, ControlBusy
  <2>. QED  BY <2>2, <2>3, <2>4
<1>4. CASE Replied(x, y)
  <2>1. PICK type \in {"data", "status"}, dir \in {"in", "out"} :
                Answer(x, y, type, dir) /\ Expected(x.setup, type, dir)
    BY <1>4 DEF Replied
  <2>. QED  BY <1>4, <2>1, AnswerKept DEF Replied, Expected, StatusDir
<1>. QED  BY <1>3, <1>4

-----------------------------------------------------------------------------
(* What stepping over an event leaves true.                                *)

LEMMA SoundPop ==
    ASSUME NEW x, Sound(x), NEW y, Frame(x, y, EventFields), y.ev \in [EvSlots -> Events],
           y.evdeq \in EvSlots, y.ccs \in Bits
    PROVE  Sound(y) /\ \A e \in Eps : SameRing(x, y, e)
<1>1. /\ y.tr = x.tr /\ y.enq = x.enq /\ y.deq = x.deq /\ y.pcs = x.pcs /\ y.hdeq = x.hdeq
      /\ y.hdcs = x.hdcs /\ y.on = x.on /\ y.evenq = x.evenq /\ y.erdp = x.erdp /\ y.ecs = x.ecs
      /\ y.tx = x.tx /\ y.bytes = x.bytes /\ y.seq = x.seq /\ y.setup = x.setup /\ y.err = x.err
      /\ y.clean = x.clean /\ y.full = x.full /\ DOMAIN y = Fields
  BY Zenon DEF Frame, Fields, EventFields
<1>2. Typed(y)
  BY <1>1 DEF Sound, Typed
<1>. QED  BY <1>1, <1>2, Zenon DEF Sound, SetUp, Linked, SameRing

LEMMA BulkMid ==
    ASSUME NEW x, NEW job, BulkInv(x, job, TRUE), NEW z, Advanced(x, z),
           z.tr = x.tr, z.enq = x.enq, z.pcs = x.pcs, z.hdeq = x.hdeq, z.hdcs = x.hdcs,
           z.tx = x.tx, z.bytes = x.bytes, z.last = x.last, z.clean = x.clean,
           z.full = x.full, z.torn = x.torn
    PROVE  BulkInv(z, job, TRUE)
<1>1. \A k \in EvSlots : IsDone(z, k, {"out", "in"}) => IsDone(x, k, {"out", "in"}) /\ z.ev[k] = x.ev[k]
  BY DEF IsDone, Advanced
<1>2. Waits(z, job, TRUE) <=> Waits(x, job, TRUE)
  BY DEF Waits
<1>3. \A e : /\ Left(z, e) <=> Left(x, e)
             /\ SetUp(z, e) <=> SetUp(x, e)
             /\ RingInv(z, e) <=> RingInv(x, e)
  BY DEF Left, SetUp, RingInv
<1>. QED  BY <1>1, <1>2, <1>3, ZenonT(60) DEF BulkInv

LEMMA SetupMid ==
    ASSUME NEW x, x.seq \in Nat, x.ev \in [EvSlots -> Events], x.evdeq \in EvSlots,
           NEW host, host.seq \in Nat, SetupInv(x, host), NEW z, Advanced(x, z),
           IF x.ev[x.evdeq].type = "setup"
           THEN z.seq = x.ev[x.evdeq].seq /\ z.setup = x.ev[x.evdeq].req
           ELSE z.seq = x.seq /\ z.setup = x.setup
    PROVE  SetupInv(z, host)
<1>. DEFINE at == x.evdeq
<1>1. \A k \in EvSlots :
          /\ IsSetup(z, k) => IsSetup(x, k) /\ k # at /\ z.ev[k] = x.ev[k] /\ Behind(x, at) < Behind(x, k)
          /\ IsSetup(x, k) /\ k # at => IsSetup(z, k) /\ z.ev[k] = x.ev[k]
          /\ IsDone(z, k, {"ep0"}) => IsDone(x, k, {"ep0"}) /\ z.ev[k] = x.ev[k]
  <2>1. \A k \in EvSlots : Behind(x, k) \in Nat
    BY XusbfAssumption DEF Behind, EvSlots
  <2>2. \A k \in EvSlots :
          /\ Pending(z, k) <=> Pending(x, k) /\ k # at
          /\ Pending(z, k) => z.ev[k] = x.ev[k] /\ Behind(x, at) < Behind(x, k)
    BY <2>1 DEF Advanced
  <2>. QED  BY <2>2, Zenon DEF IsSetup, IsDone
<1>2. \A j, k \in EvSlots : Pending(z, j) /\ Pending(z, k) =>
          (Behind(z, j) < Behind(z, k) <=> Behind(x, j) < Behind(x, k))
  <2>1. \A k \in EvSlots : Behind(x, k) \in Int
    BY XusbfAssumption DEF Behind, EvSlots
  <2>2. \A k \in EvSlots : Pending(z, k) => Behind(z, k) = Behind(x, k) - 1
    BY DEF Advanced
  <2>. QED  BY <2>1, <2>2
<1>3. \A j, k \in EvSlots : /\ IsSetup(z, j) => Pending(z, j)
                            /\ IsDone(z, j, {"ep0"}) => Pending(z, j)
  BY DEF IsSetup, IsDone
<1>4. \A k \in EvSlots : x.ev[k].seq \in Nat
  BY DEF Events
<1>5. CASE x.ev[at].type = "setup"
  <2>1. IsSetup(x, at) /\ z.seq = x.ev[at].seq /\ z.setup = x.ev[at].req
    BY <1>5 DEF IsSetup, Advanced
  <2>2. /\ x.seq < x.ev[at].seq /\ x.ev[at].seq <= host.seq
        /\ x.ev[at].seq = host.seq => x.ev[at].req = host.req
    BY <2>1 DEF SetupInv
  <2>3. z.seq # host.seq => \E k \in EvSlots : IsSetup(z, k) /\ z.ev[k].seq = host.seq
    BY <1>1, <1>4, <2>1, <2>2 DEF SetupInv
  <2>4. ASSUME NEW k \in EvSlots, IsSetup(z, k)
        PROVE  /\ z.seq < z.ev[k].seq /\ z.ev[k].seq <= host.seq
               /\ z.ev[k].seq = host.seq => z.ev[k].req = host.req
               /\ \A j \in EvSlots : IsSetup(z, j) /\ Behind(z, j) < Behind(z, k) => z.ev[j].seq < z.ev[k].seq
               /\ \A j \in EvSlots : IsDone(z, j, {"ep0"}) /\ z.ev[j].code # "seq" => Behind(z, j) < Behind(z, k)
    <3>1. /\ IsSetup(x, k) /\ z.ev[k] = x.ev[k] /\ Behind(x, at) < Behind(x, k)
      BY <1>1, <2>4
    <3>2. /\ x.ev[at].seq < x.ev[k].seq /\ x.ev[k].seq <= host.seq
          /\ x.ev[k].seq = host.seq => x.ev[k].req = host.req
      BY <2>1, <3>1 DEF SetupInv
    <3>3. \A j \in EvSlots : IsSetup(z, j) /\ Behind(z, j) < Behind(z, k) => z.ev[j].seq < z.ev[k].seq
      BY <1>1, <1>2, <1>3, <2>4, <3>1 DEF SetupInv
    <3>4. \A j \in EvSlots : IsDone(z, j, {"ep0"}) /\ z.ev[j].code # "seq" => Behind(z, j) < Behind(z, k)
      BY <1>1, <1>2, <1>3, <2>4, <3>1 DEF SetupInv
    <3>. QED  BY <2>1, <3>1, <3>2, <3>3, <3>4
  <2>5. host.stage = "open" => host.req \in Requests
    BY DEF SetupInv
  <2>. QED  BY <2>1, <2>2, <2>3, <2>4, <2>5 DEF SetupInv
<1>6. CASE x.ev[at].type # "setup"
  <2>1. ~IsSetup(x, at) /\ z.seq = x.seq /\ z.setup = x.setup
    BY <1>6 DEF IsSetup
  <2>3. z.seq # host.seq => \E k \in EvSlots : IsSetup(z, k) /\ z.ev[k].seq = host.seq
    BY <1>1, <2>1 DEF SetupInv
  <2>4. ASSUME NEW k \in EvSlots, IsSetup(z, k)
        PROVE  /\ z.seq < z.ev[k].seq /\ z.ev[k].seq <= host.seq
               /\ z.ev[k].seq = host.seq => z.ev[k].req = host.req
               /\ \A j \in EvSlots : IsSetup(z, j) /\ Behind(z, j) < Behind(z, k) => z.ev[j].seq < z.ev[k].seq
               /\ \A j \in EvSlots : IsDone(z, j, {"ep0"}) /\ z.ev[j].code # "seq" => Behind(z, j) < Behind(z, k)
    <3>1. IsSetup(x, k) /\ z.ev[k] = x.ev[k]
      BY <1>1, <2>4
    <3>2. /\ x.seq < x.ev[k].seq /\ x.ev[k].seq <= host.seq
          /\ x.ev[k].seq = host.seq => x.ev[k].req = host.req
      BY <3>1 DEF SetupInv
    <3>3. \A j \in EvSlots : IsSetup(z, j) /\ Behind(z, j) < Behind(z, k) => z.ev[j].seq < z.ev[k].seq
      BY <1>1, <1>2, <1>3, <2>4, <3>1 DEF SetupInv
    <3>4. \A j \in EvSlots : IsDone(z, j, {"ep0"}) /\ z.ev[j].code # "seq" => Behind(z, j) < Behind(z, k)
      BY <1>1, <1>2, <1>3, <2>4, <3>1 DEF SetupInv
    <3>. QED  BY <2>1, <3>1, <3>2, <3>3, <3>4
  <2>5. /\ host.stage = "open" => host.req \in Requests
        /\ x.seq <= host.seq /\ (x.seq = host.seq => x.setup = host.req)
    BY DEF SetupInv
  <2>. QED  BY <2>1, <2>3, <2>4, <2>5 DEF SetupInv
<1>. QED  BY <1>5, <1>6

LEMMA ControlMid ==
    ASSUME NEW x, Typed(x), ControlInv(x), NEW z, Advanced(x, z),
           z.tr = x.tr, z.enq = x.enq, z.pcs = x.pcs, z.hdeq = x.hdeq, z.hdcs = x.hdcs,
           z.on = x.on, z.torn = x.torn,
           z.deq["ep0"] = IF x.ev[x.evdeq].type = "transfer" /\ x.ev[x.evdeq].ep = "ep0"
                          THEN After(x.deq["ep0"]) ELSE x.deq["ep0"]
    PROVE  /\ ControlInv(z)
           /\ x.ev[x.evdeq].type = "transfer" /\ x.ev[x.evdeq].ep = "ep0" =>
                 ~ControlBusy(z) /\ z.hdeq["ep0"] = z.deq["ep0"]
<1>. DEFINE at == x.evdeq
            done == x.ev[at].type = "transfer" /\ x.ev[at].ep = "ep0"
<1>1. \A k \in EvSlots : IsDone(z, k, {"ep0"}) <=> IsDone(x, k, {"ep0"}) /\ k # at
  BY DEF IsDone, Advanced
<1>2. RingInv(z, "ep0") <=> RingInv(x, "ep0")
  BY DEF RingInv
<1>3. (IsDone(x, at, {"ep0"}) <=> done) /\ at \in EvSlots
  BY DEF IsDone, Advanced, Typed
<1>4. x.deq["ep0"] \in Places
  BY DEF Typed, Eps
<1>5. CASE done
  <2>1. x.hdeq["ep0"] # x.deq["ep0"]
    BY <1>3, <1>5 DEF ControlInv
  <2>2. x.hdeq["ep0"] = x.enq["ep0"] /\ x.enq["ep0"] = After(x.deq["ep0"])
    BY <2>1 DEF ControlInv
  <2>3. \A k \in EvSlots : ~IsDone(z, k, {"ep0"})
    BY <1>1, <1>3, <1>5, <2>1 DEF ControlInv
  <2>. QED  BY <1>2, <1>5, <2>2, <2>3 DEF ControlInv, ControlBusy
<1>6. CASE ~done
  <2>1. \A k \in EvSlots : IsDone(z, k, {"ep0"}) <=> IsDone(x, k, {"ep0"})
    BY <1>1, <1>3, <1>6
  <2>. QED  BY <1>2, <1>6, <2>1 DEF ControlInv
<1>. QED  BY <1>5, <1>6

LEMMA AnswerMid ==
    ASSUME NEW x, Sound(x), NEW host, SetupInv(x, host), TrbInv(x), DoneInv(x, host), NEW z, Advanced(x, z),
           z.tr = x.tr, z.enq = x.enq, z.hdeq = x.hdeq, z.clean = x.clean, z.wait = x.wait,
           IF x.ev[x.evdeq].type = "setup"
           THEN z.seq = x.ev[x.evdeq].seq /\ z.setup = x.ev[x.evdeq].req
           ELSE z.seq = x.seq /\ z.setup = x.setup
    PROVE  TrbInv(z) /\ DoneInv(z, host)
<1>. DEFINE at == x.evdeq
<1>1. \A k \in EvSlots : IsDone(z, k, {"ep0"}) => IsDone(x, k, {"ep0"}) /\ z.ev[k] = x.ev[k]
  BY DEF IsDone, Advanced
<1>2. CASE x.ev[at].type = "setup"
  <2>1. IsSetup(x, at) /\ z.seq = x.ev[at].seq /\ at \in EvSlots
    BY <1>2 DEF IsSetup, Advanced, Sound, Typed
  <2>2. x.seq < z.seq /\ x.seq \in Nat /\ z.seq \in Nat
    BY <2>1 DEF SetupInv, Sound, Typed, Events
  <2>3. ASSUME NEW k \in EvSlots, IsDone(z, k, {"ep0"}) PROVE z.ev[k].code = "seq"
    <3>1. IsDone(x, k, {"ep0"}) /\ z.ev[k] = x.ev[k]
      BY <1>1, <2>3
    <3>2. x.ev[k].code # "seq" => Behind(x, k) < Behind(x, at)
      BY <2>1, <3>1 DEF SetupInv
    <3>3. Behind(x, at) = 0
      BY DEF Advanced
    <3>4. Behind(x, k) \in Nat
      BY <2>1, XusbfAssumption DEF Behind, EvSlots
    <3>. QED  BY <3>1, <3>2, <3>3, <3>4
  <2>4. TrbInv(z)
    <3>. SUFFICES ASSUME x.hdeq["ep0"] # x.enq["ep0"] PROVE TrbInv(z)
      BY DEF TrbInv
    <3>1. x.tr["ep0"][x.hdeq["ep0"]].seq <= x.seq
      BY DEF TrbInv
    <3>2. x.tr["ep0"] \in [Slots -> Trbs] /\ x.hdeq["ep0"] \in Slots
      BY SlotLemma, PlaceLemma DEF Sound, Typed, Eps
    <3>3. x.tr["ep0"][x.hdeq["ep0"]].seq \in Nat
      BY <3>2 DEF Trbs
    <3>4. x.tr["ep0"][x.hdeq["ep0"]].seq <= z.seq /\ x.tr["ep0"][x.hdeq["ep0"]].seq # z.seq
      BY <2>2, <3>1, <3>3
    <3>. QED  BY <3>4 DEF TrbInv
  <2>. QED  BY <2>3, <2>4 DEF DoneInv
<1>3. CASE x.ev[at].type # "setup"
  BY <1>1, <1>3 DEF TrbInv, DoneInv
<1>. QED  BY <1>2, <1>3

\* The effect of handling an event carries over to the context that has stepped over it.
LEMMA Lift ==
    ASSUME NEW u, NEW v, NEW u2, NEW v2, Frame(u, u2, EventFields), Frame(v, v2, EventFields \cup {"clean"}),
           RingsKept(u, v), Sound(v2)
    PROVE  /\ RingsKept(u2, v2) /\ u2.torn = u.torn /\ v2.torn = v.torn
           /\ \A fail : Silent(u, v, fail) => Silent(u2, v2, fail)
           /\ Replied(u, v) => Replied(u2, v2)
           /\ \A type, dir : Answer(u, v, type, dir) => Answer(u2, v2, type, dir)
<1>1. /\ u2.tr = u.tr /\ u2.enq = u.enq /\ u2.deq = u.deq /\ u2.pcs = u.pcs /\ u2.hdeq = u.hdeq
      /\ u2.hdcs = u.hdcs /\ u2.on = u.on /\ u2.torn = u.torn /\ u2.wait = u.wait
      /\ u2.seq = u.seq /\ u2.setup = u.setup
  BY Zenon DEF Frame, Fields, EventFields
<1>2. /\ v2.tr = v.tr /\ v2.enq = v.enq /\ v2.deq = v.deq /\ v2.pcs = v.pcs /\ v2.hdeq = v.hdeq
      /\ v2.hdcs = v.hdcs /\ v2.on = v.on /\ v2.torn = v.torn /\ v2.wait = v.wait /\ v2.halt = v.halt
  BY Zenon DEF Frame, Fields, EventFields
<1>3. \A e : SameRing(u, v, e) => SameRing(u2, v2, e)
  BY <1>1, <1>2, Zenon DEF SameRing
<1>4. \A e : BulkStep(u, v, e) => BulkStep(u2, v2, e)
  <2>1. \A e : NewRing(v, e) => NewRing(v2, e)
    BY <1>2, Zenon DEF NewRing
  <2>. QED  BY <1>1, <1>2, <1>3, <2>1, Zenon DEF BulkStep
<1>5. RingsKept(u2, v2)
  BY <1>1, <1>2, <1>4, Zenon DEF RingsKept, SetUp
<1>6. \A fail : Silent(u, v, fail) => Silent(u2, v2, fail)
  BY <1>1, <1>2, <1>3, Zenon DEF Silent, NoAnswer, ControlBusy
<1>7. \A type, dir : Answer(u, v, type, dir) => Answer(u2, v2, type, dir)
  <2>1. \A type, dir : ControlTrb(u, type, dir) = ControlTrb(u2, type, dir)
    BY <1>1, Zenon DEF ControlTrb
  <2>2. (RingInv(u, "ep0") <=> RingInv(u2, "ep0")) /\ (RingInv(v, "ep0") <=> RingInv(v2, "ep0"))
    BY <1>1, <1>2, Zenon DEF RingInv
  <2>3. \A t : Put(u, v, "ep0", t) => Put(u2, v2, "ep0", t)
    BY <1>1, <1>2, <2>2, Zenon DEF Put
  <2>. QED  BY <1>2, <2>1, <2>3, Zenon DEF Answer
<1>8. Replied(u, v) => Replied(u2, v2)
  BY <1>1, <1>7, Zenon DEF Replied, ControlBusy
<1>. QED  BY <1>1, <1>2, <1>5, <1>6, <1>7, <1>8

\* All but the part that says that the request was answered, which does not hold
\* while an event is handled.
Core(x, host, job, r) ==
    /\ Sound(x) /\ TransferInv(x) /\ ControlInv(x) /\ BulkInv(x, job, r)
    /\ SetupInv(x, host) /\ TrbInv(x) /\ DoneInv(x, host)

\* The context before a request is handled or an endpoint is looked after.
Begun(x, y) ==
    LET ev == x.ev[x.evdeq]
    IN  /\ Sound(y) /\ Frame(x, y, {"setup", "seq", "deq", "err"})
        /\ IF ev.type = "setup" THEN y.seq = ev.seq /\ y.setup = ev.req
           ELSE y.seq = x.seq /\ y.setup = x.setup
        /\ y.deq["ep0"] = IF ev.type = "transfer" /\ ev.ep = "ep0" THEN After(x.deq["ep0"]) ELSE x.deq["ep0"]

LEMMA EventSame ==
    ASSUME NEW x, NEW h, EventInv(x, h), NEW y, y.ev = x.ev, y.evdeq = x.evdeq, y.evenq = x.evenq,
           y.ccs = x.ccs, y.ecs = x.ecs, y.erdp = x.erdp, \A e \in Eps : SetUp(x, e) => SetUp(y, e)
    PROVE  EventInv(y, h)
  BY DEF EventInv, Pending

LEMMA MidLemma ==
    ASSUME NEW x, NEW host, host.seq \in Nat, NEW job, Core(x, host, job, TRUE), EventInv(x, TRUE),
           NEW mid, Begun(x, mid), NEW z, z = NextEvent(mid)
    PROVE  /\ Core(z, host, job, TRUE) /\ Frame(mid, z, EventFields) /\ Advanced(x, z)
           /\ x.ev[x.evdeq].type = "transfer" /\ x.ev[x.evdeq].ep = "ep0" =>
                 ~ControlBusy(z) /\ z.hdeq["ep0"] = z.deq["ep0"]
<1>1. /\ mid.tr = x.tr /\ mid.enq = x.enq /\ mid.pcs = x.pcs /\ mid.hdeq = x.hdeq
      /\ mid.hdcs = x.hdcs /\ mid.on = x.on /\ mid.torn = x.torn /\ mid.wait = x.wait
      /\ mid.ev = x.ev /\ mid.evdeq = x.evdeq /\ mid.evenq = x.evenq /\ mid.erdp = x.erdp
      /\ mid.ccs = x.ccs /\ mid.ecs = x.ecs /\ mid.tx = x.tx /\ mid.bytes = x.bytes
      /\ mid.last = x.last /\ mid.clean = x.clean /\ mid.full = x.full
  <2>1. Frame(x, mid, {"setup", "seq", "deq", "err"})
    BY DEF Begun
  <2>. QED  BY <2>1, Zenon DEF Frame, Fields
<1>2. EventInv(mid, TRUE)
  BY <1>1, EventSame DEF SetUp
<1>3. Popped(mid, z)
  BY <1>2, PopEffect DEF Begun, Sound
<1>4. /\ z.tr = mid.tr /\ z.enq = mid.enq /\ z.pcs = mid.pcs /\ z.hdeq = mid.hdeq /\ z.deq = mid.deq
      /\ z.hdcs = mid.hdcs /\ z.on = mid.on /\ z.torn = mid.torn /\ z.wait = mid.wait
      /\ z.tx = mid.tx /\ z.bytes = mid.bytes /\ z.seq = mid.seq /\ z.setup = mid.setup
      /\ z.last = mid.last /\ z.clean = mid.clean /\ z.full = mid.full /\ z.evenq = mid.evenq
  <2>1. Frame(mid, z, EventFields)
    BY <1>3 DEF Popped
  <2>. QED  BY <2>1, Zenon DEF Frame, Fields, EventFields
<1>5. /\ z.tr = x.tr /\ z.enq = x.enq /\ z.pcs = x.pcs /\ z.hdeq = x.hdeq
      /\ z.hdcs = x.hdcs /\ z.on = x.on /\ z.torn = x.torn /\ z.wait = x.wait
      /\ z.tx = x.tx /\ z.bytes = x.bytes /\ z.last = x.last /\ z.clean = x.clean /\ z.full = x.full
  BY <1>1, <1>4, Zenon
<1>6. Advanced(x, z)
  <2>1. \A k : (Pending(mid, k) <=> Pending(x, k)) /\ Behind(mid, k) = Behind(x, k)
    BY <1>1 DEF Pending, Behind
  <2>2. Advanced(mid, z)
    BY <1>3 DEF Popped
  <2>. QED  BY <1>1, <2>1, <2>2 DEF Advanced
<1>7. /\ IF x.ev[x.evdeq].type = "setup"
         THEN z.seq = x.ev[x.evdeq].seq /\ z.setup = x.ev[x.evdeq].req
         ELSE z.seq = x.seq /\ z.setup = x.setup
      /\ z.deq["ep0"] = IF x.ev[x.evdeq].type = "transfer" /\ x.ev[x.evdeq].ep = "ep0"
                        THEN After(x.deq["ep0"]) ELSE x.deq["ep0"]
  BY <1>4 DEF Begun
<1>8. Sound(z)
  BY <1>3, SoundPop DEF Popped, Advanced, Begun
<1>9. TransferInv(z)
  <2>1. \A e : /\ SetUp(z, e) <=> SetUp(x, e)
               /\ Linked(z, e) <=> Linked(x, e)
               /\ RingInv(z, e) <=> RingInv(x, e)
    BY <1>5, Zenon DEF SetUp, Linked, RingInv
  <2>. QED  BY <1>5, <2>1 DEF Core, TransferInv
<1>10. BulkInv(z, job, TRUE)
  BY <1>5, <1>6, BulkMid DEF Core
<1>11. SetupInv(z, host)
  BY <1>6, <1>7, SetupMid DEF Core, Sound, Typed
<1>12. /\ ControlInv(z)
       /\ x.ev[x.evdeq].type = "transfer" /\ x.ev[x.evdeq].ep = "ep0" =>
                 ~ControlBusy(z) /\ z.hdeq["ep0"] = z.deq["ep0"]
  BY <1>5, <1>6, <1>7, ControlMid DEF Core, Sound
<1>13. TrbInv(z) /\ DoneInv(z, host)
  BY <1>5, <1>6, <1>7, AnswerMid DEF Core
<1>14. Frame(mid, z, EventFields)
  BY <1>3 DEF Popped
<1>. QED  BY <1>6, <1>8, <1>9, <1>10, <1>11, <1>12, <1>13, <1>14 DEF Core

-----------------------------------------------------------------------------
(* Handling an event.                                                      *)

HandleFields == SetupFields \cup {"clean", "tx", "bytes", "last", "port"}
Handled(x, y, host, job) ==
    /\ Core(y, host, job, TRUE) /\ AnswerInv(y, host) /\ EventSound(y)
    /\ y.clean => x.clean
Stepped(before, fail) == NextEvent([before EXCEPT !.clean = @ /\ fail = "none"])

StepsTo(mid, before, fail, y, F) ==
    /\ Sound(y) /\ y.clean = (before.clean /\ fail = "none")
    /\ Frame(NextEvent(mid), y, F \cup {"clean"})
    /\ Frame(before, y, EventFields \cup {"clean"})
    /\ EventSound(y)

LEMMA StepLemma ==
    ASSUME NEW x, Sound(x), EventInv(x, TRUE), NEW mid, Begun(x, mid), NEW fail,
           NEW before, Sound(before), NEW F \in SUBSET HandleFields, Frame(mid, before, F),
           \A e \in Eps : SetUp(mid, e) => SetUp(before, e),
           NEW y, y = Stepped(before, fail)
    PROVE  StepsTo(mid, before, fail, y, F)
<1>. DEFINE b == [before EXCEPT !.clean = @ /\ fail = "none"]
<1>0. DOMAIN before = Fields /\ DOMAIN mid = Fields
  BY DEF Sound, Typed, Begun
<1>1. Frame(before, b, {"clean"}) /\ b.clean = (before.clean /\ fail = "none")
  BY <1>0, Zenon DEF Frame, Fields
<1>. HIDE DEF b
<1>2. Frame(mid, b, F \cup {"clean"})
  BY <1>1, Zenon DEF Frame
<1>3. (F \cup {"clean"}) \cap EventFields = {}
  BY DEF HandleFields, SetupFields, EpFields, EventFields
<1>4. y = NextEvent(b)
  BY DEF b, Stepped
<1>5. Frame(NextEvent(mid), y, F \cup {"clean"})
  BY <1>0, <1>2, <1>3, <1>4, PopSame
<1>6. Sound(b) /\ \A e \in Eps : SameRing(before, b, e)
  <2>1. Frame(before, b, Loose)
    BY <1>1, Zenon DEF Frame, Loose
  <2>2. /\ b.err = before.err /\ b.tx = before.tx /\ b.bytes = before.bytes
        /\ b.seq = before.seq /\ b.setup = before.setup
    BY <1>1, Zenon DEF Frame, Fields
  <2>3. /\ {b.err, b.clean} \subseteq BOOLEAN /\ {b.tx, b.bytes} \subseteq Int
        /\ b.seq \in Nat /\ b.setup \in Requests \cup {NoRequest}
    BY <1>1, <2>2 DEF Sound, Typed
  <2>. QED  BY <2>1, <2>3, LooseLemma, Zenon
<1>7. EventInv(b, TRUE)
  <2>1. "ev" \notin F /\ "evdeq" \notin F /\ "evenq" \notin F /\ "ccs" \notin F /\ "ecs" \notin F /\ "erdp" \notin F
    BY DEF HandleFields, SetupFields, EpFields
  <2>2. /\ b.ev = mid.ev /\ b.evdeq = mid.evdeq /\ b.evenq = mid.evenq
        /\ b.ccs = mid.ccs /\ b.ecs = mid.ecs /\ b.erdp = mid.erdp
    BY <1>2, <2>1 DEF Frame, Fields
  <2>3. /\ mid.ev = x.ev /\ mid.evdeq = x.evdeq /\ mid.evenq = x.evenq
        /\ mid.ccs = x.ccs /\ mid.ecs = x.ecs /\ mid.erdp = x.erdp /\ mid.tr = x.tr
    <3>1. Frame(x, mid, {"setup", "seq", "deq", "err"})
      BY DEF Begun
    <3>. QED  BY <3>1, Zenon DEF Frame, Fields
  <2>4. \A e \in Eps : SetUp(x, e) => SetUp(b, e)
    BY <1>6, <2>3, RingSame DEF SetUp
  <2>. QED  BY <2>2, <2>3, <2>4, EventSame
<1>8. /\ Popped(b, y)
      /\ EventSound(y)
  BY <1>4, <1>6, <1>7, PopEffect DEF Sound
<1>9. Sound(y)
  BY <1>6, <1>8, SoundPop DEF Popped, Advanced
<1>10. y.clean = b.clean
  BY <1>8, Zenon DEF Popped, Frame, Fields, EventFields
<1>11. Frame(before, y, EventFields \cup {"clean"})
  BY <1>1, <1>8, Zenon DEF Popped, Frame
<1>. QED  BY <1>1, <1>5, <1>8, <1>9, <1>10, <1>11 DEF StepsTo

\* A request is handled, for the first time or again.
LEMMA SetupHandled ==
    ASSUME NEW x, NEW host, host.seq \in Nat, NEW job, Core(x, host, job, TRUE), EventInv(x, TRUE),
           NEW mid, Begun(x, mid), NEW fail, NEW before, SetupStep(mid, before, fail),
           NEW y, y = Stepped(before, fail)
    PROVE  Handled(x, y, host, job)
<1>. DEFINE z == NextEvent(mid)
<1>1. Core(z, host, job, TRUE) /\ Frame(mid, z, EventFields)
  BY MidLemma
<1>. HIDE DEF z
<1>2. RingsKept(mid, before) /\ Frame(mid, before, SetupFields) /\ Sound(before)
  BY DEF SetupStep, Reconfigured, RingsKept
<1>3. /\ Sound(y) /\ y.clean = (before.clean /\ fail = "none")
      /\ Frame(z, y, SetupFields \cup {"clean"})
      /\ Frame(before, y, EventFields \cup {"clean"})
      /\ EventSound(y)
  <2>1. SetupFields \in SUBSET HandleFields
    BY DEF HandleFields
  <2>2. Sound(x) /\ Sound(before) /\ \A e \in Eps : SetUp(mid, e) => SetUp(before, e)
    BY <1>2 DEF RingsKept, Core
  <2>3. StepsTo(mid, before, fail, y, SetupFields)
    BY <1>2, <2>1, <2>2, StepLemma
  <2>. QED  BY <2>3 DEF StepsTo, z
<1>4. /\ RingsKept(z, y) /\ z.torn = mid.torn /\ y.torn = before.torn
      /\ Silent(mid, before, fail) => Silent(z, y, fail)
      /\ Replied(mid, before) => Replied(z, y)
  BY <1>1, <1>2, <1>3, Lift
<1>5. /\ y.ev = z.ev /\ y.evdeq = z.evdeq /\ y.evenq = z.evenq /\ y.full = z.full
      /\ y.tx = z.tx /\ y.bytes = z.bytes /\ y.last = z.last /\ y.seq = z.seq /\ y.setup = z.setup
  BY <1>3, Zenon DEF Frame, Fields, SetupFields, EpFields
<1>6. z.clean = mid.clean /\ before.clean = mid.clean
  BY <1>1, <1>2, Zenon DEF Frame, Fields, SetupFields, EpFields, EventFields
<1>7. /\ y.clean => z.clean /\ fail = "none"
      /\ y.clean => y.torn \subseteq z.torn
      /\ Silent(z, y, fail) \/ Replied(z, y)
  BY <1>3, <1>4, <1>6 DEF SetupStep
<1>8. ControlInv(y)
  <2>1. \E t : SameRing(z, y, "ep0") \/ (~ControlBusy(z) /\ Put(z, y, "ep0", t))
    BY <1>7 DEF Silent, NoAnswer, Replied, Answer
  <2>. QED  BY <1>1, <1>3, <1>4, <1>5, <2>1, ControlKept DEF Core, RingsKept
<1>9. TransferInv(y)
  BY <1>1, <1>4, <1>5, <1>8, TransferKept DEF Core, ControlInv
<1>10. BulkInv(y, job, TRUE)
  BY <1>1, <1>4, <1>5, <1>7, BulkKept DEF Core
<1>11. SetupInv(y, host)
  BY <1>1, <1>5, SetupKept DEF Core
<1>12. TrbInv(y) /\ DoneInv(y, host) /\ AnswerInv(y, host)
  BY <1>1, <1>5, <1>7, ReplyKept DEF Core
<1>13. mid.clean = x.clean
  <2>1. Frame(x, mid, {"setup", "seq", "deq", "err"})
    BY DEF Begun
  <2>. QED  BY <2>1, Zenon DEF Frame, Fields
<1>. QED  BY <1>3, <1>6, <1>7, <1>8, <1>9, <1>10, <1>11, <1>12, <1>13 DEF Handled, Core

\* The data stage is over and the status stage is asked for.
LEMMA DataHandled ==
    ASSUME NEW x, NEW host, host.seq \in Nat, NEW job, Core(x, host, job, TRUE), EventInv(x, TRUE),
           x.ev[x.evdeq].type = "transfer", x.ev[x.evdeq].ep = "ep0", x.ev[x.evdeq].code = "ok",
           x.wait = "data",
           NEW mid, Begun(x, mid), NEW fail, NEW before, Issued(mid, before, "status", "out"),
           NEW y, y = Stepped(before, fail)
    PROVE  Handled(x, y, host, job)
<1>. DEFINE z == NextEvent(mid)
<1>1. /\ Core(z, host, job, TRUE) /\ Frame(mid, z, EventFields) /\ Advanced(x, z) /\ ~ControlBusy(z)
  BY MidLemma
<1>. HIDE DEF z
<1>2. /\ Frame(mid, before, {"tr", "enq", "pcs", "wait"}) /\ Sound(before) /\ Sound(mid)
      /\ Answer(mid, before, "status", "out")
  BY DEF Issued, Answer, Begun
<1>3. RingsKept(mid, before) /\ before.torn = mid.torn
  <2>1. before.on = mid.on /\ before.torn = mid.torn
    BY <1>2, Zenon DEF Frame, Fields
  <2>2. \A e \in {"out", "in"} : SameRing(mid, before, e)
    BY DEF Issued
  <2>3. \A e \in Eps : SetUp(mid, e) => SetUp(before, e)
    BY <1>2, <2>2, RingSame DEF Sound, Eps
  <2>. QED  BY <1>2, <2>1, <2>2, <2>3 DEF RingsKept, BulkStep
<1>4. /\ Sound(y) /\ y.clean = (before.clean /\ fail = "none")
      /\ Frame(z, y, {"tr", "enq", "pcs", "wait"} \cup {"clean"})
      /\ Frame(before, y, EventFields \cup {"clean"})
      /\ EventSound(y)
  <2>1. {"tr", "enq", "pcs", "wait"} \in SUBSET HandleFields
    BY DEF HandleFields, SetupFields, EpFields
  <2>2. Sound(x) /\ Sound(before) /\ \A e \in Eps : SetUp(mid, e) => SetUp(before, e)
    BY <1>2, <1>3 DEF RingsKept, Core
  <2>3. StepsTo(mid, before, fail, y, {"tr", "enq", "pcs", "wait"})
    BY <1>2, <2>1, <2>2, StepLemma
  <2>. QED  BY <2>3 DEF StepsTo, z
<1>5. RingsKept(z, y) /\ z.torn = mid.torn /\ y.torn = before.torn /\ Answer(z, y, "status", "out")
  BY <1>1, <1>2, <1>3, <1>4, Lift
<1>6. /\ y.ev = z.ev /\ y.evdeq = z.evdeq /\ y.evenq = z.evenq /\ y.full = z.full
      /\ y.tx = z.tx /\ y.bytes = z.bytes /\ y.last = z.last /\ y.seq = z.seq /\ y.setup = z.setup
  BY <1>4, Zenon DEF Frame, Fields
<1>7. z.clean = mid.clean /\ before.clean = mid.clean /\ z.setup = mid.setup
  BY <1>1, <1>2, Zenon DEF Frame, Fields, EventFields
<1>8. mid.clean = x.clean /\ mid.setup = x.setup
  <2>1. Frame(x, mid, {"setup", "seq", "deq", "err"}) /\ mid.setup = x.setup
    BY DEF Begun
  <2>. QED  BY <2>1, Zenon DEF Frame, Fields
<1>9. y.clean => z.setup.kind \in {"get", "sel"}
  <2>1. IsDone(x, x.evdeq, {"ep0"}) /\ x.evdeq \in EvSlots
    BY <1>1 DEF Advanced, IsDone, Core, Sound, Typed
  <2>2. x.clean => x.setup.kind \in {"get", "sel"}
    BY <2>1 DEF Core, DoneInv
  <2>. QED  BY <1>4, <1>7, <1>8, <2>2
<1>10. ControlInv(y)
  BY <1>1, <1>4, <1>5, <1>6, ControlKept DEF Core, RingsKept, Answer
<1>11. TransferInv(y)
  BY <1>1, <1>5, <1>6, <1>10, TransferKept DEF Core, ControlInv
<1>12. BulkInv(y, job, TRUE)
  BY <1>1, <1>3, <1>4, <1>5, <1>6, <1>7, BulkKept DEF Core
<1>13. SetupInv(y, host)
  BY <1>1, <1>6, SetupKept DEF Core
<1>14. TrbInv(y) /\ DoneInv(y, host) /\ AnswerInv(y, host)
  BY <1>1, <1>5, <1>6, <1>9, AnswerKept DEF Core, StatusDir
<1>. QED  BY <1>4, <1>7, <1>8, <1>10, <1>11, <1>12, <1>13, <1>14 DEF Handled, Core

\* The bytes of the call are counted.
Counted(x, y) ==
    LET ev == x.ev[x.evdeq]
    IN  /\ ev.type = "transfer" /\ ev.ep \in {"out", "in"} /\ ev.code = "ok"
        /\ y.tx = x.tx - 1 /\ y.bytes = x.bytes - ev.rem
        /\ y.last = [ep |-> ev.ep, id |-> ev.id, moved |-> ev.moved]

LEMMA BulkCounted ==
    ASSUME NEW x, Typed(x), NEW job, BulkInv(x, job, TRUE), NEW z, Advanced(x, z),
           z.tr = x.tr, z.enq = x.enq, z.pcs = x.pcs, z.hdeq = x.hdeq, z.hdcs = x.hdcs,
           z.clean => x.clean, z.full = x.full, z.torn = x.torn, Counted(x, z)
    PROVE  BulkInv(z, job, TRUE)
<1>. SUFFICES ASSUME z.clean PROVE BulkInv(z, job, TRUE)
  BY DEF BulkInv
<1>. DEFINE at == x.evdeq
<1>1. IsDone(x, at, {"out", "in"}) /\ at \in EvSlots /\ x.clean
  BY DEF Advanced, IsDone, Typed, Counted
<1>2. \A k \in EvSlots : ~IsDone(z, k, {"out", "in"})
  <2>1. \A k \in EvSlots : IsDone(z, k, {"out", "in"}) => IsDone(x, k, {"out", "in"}) /\ k # at
    BY DEF IsDone, Advanced
  <2>. QED  BY <1>1, <2>1 DEF BulkInv
<1>3. \A e : /\ Left(z, e) <=> Left(x, e)
             /\ SetUp(z, e) <=> SetUp(x, e)
             /\ RingInv(z, e) <=> RingInv(x, e)
  BY DEF Left, SetUp, RingInv
<1>4. \A e \in {"out", "in"} : ~Left(x, e)
  BY <1>1 DEF BulkInv
<1>5. /\ x.tx = 1 /\ x.bytes = Length /\ job.name = x.ev[at].ep /\ job.id = x.ev[at].id
      /\ x.ev[at].rem = Length - x.ev[at].moved
  BY <1>1 DEF BulkInv, Waits, Counted
<1>6. x.ev[at].moved \in Nat
  BY <1>1 DEF Typed, Events
<1>7. z.last = [ep |-> job.name, id |-> job.id, moved |-> z.bytes]
  <2>1. z.bytes = x.ev[at].moved
    BY <1>5, <1>6 DEF Counted, Length
  <2>. QED  BY <1>5, <2>1 DEF Counted
<1>. QED  BY <1>1, <1>2, <1>3, <1>4, <1>7 DEF BulkInv

\* Events after which the request needs no answer, or has it.
LEMMA AnswerSame ==
    ASSUME NEW x, NEW host, NEW job, Core(x, host, job, TRUE), AnswerInv(x, host), NEW z, Advanced(x, z),
           z.clean = x.clean, z.seq = x.seq, z.halt = x.halt, z.enq = x.enq,
           LET ev == x.ev[x.evdeq]
           IN  \/ ~(ev.type = "transfer" /\ ev.ep = "ep0") /\ z.deq["ep0"] = x.deq["ep0"]
               \/ ev.type = "transfer" /\ ev.ep = "ep0" /\ ev.code # "seq" /\ (ev.code = "ok" => x.wait # "data")
    PROVE  AnswerInv(z, host)
<1>. DEFINE ev == x.ev[x.evdeq]
<1>1. CASE ~(ev.type = "transfer" /\ ev.ep = "ep0")
  BY <1>1 DEF AnswerInv, ControlBusy
<1>2. CASE ev.type = "transfer" /\ ev.ep = "ep0"
  <2>. SUFFICES ASSUME x.clean, x.seq = host.seq, host.stage = "open", host.req.kind # "sel" PROVE FALSE
    BY DEF AnswerInv
  <2>1. IsDone(x, x.evdeq, {"ep0"}) /\ x.evdeq \in EvSlots
    BY <1>2 DEF Advanced, IsDone, Core, Sound, Typed
  <2>2. x.setup = host.req
    BY DEF Core, SetupInv
  <2>3. ev.code = "dir"
    BY <1>2, <2>1 DEF Core, DoneInv
  <2>. QED  BY <2>1, <2>2, <2>3 DEF Core, DoneInv
<1>. QED  BY <1>1, <1>2

\* Events that no answer follows.
PlainFields == {"state", "err", "port", "clean", "tx", "bytes", "last"}
LEMMA PlainHandled ==
    ASSUME NEW x, NEW host, host.seq \in Nat, NEW job, Core(x, host, job, TRUE), EventInv(x, TRUE),
           NEW mid, Begun(x, mid), NEW fail, NEW before, Frame(mid, before, PlainFields),
           {before.err, before.clean} \subseteq BOOLEAN, {before.tx, before.bytes} \subseteq Int,
           before.clean => x.clean,
           Counted(x, before) \/ (before.tx = x.tx /\ before.bytes = x.bytes /\ before.last = x.last),
           AnswerInv(x, host),
           LET ev == x.ev[x.evdeq]
           IN  \/ ev.type \notin {"transfer", "setup"}
               \/ ev.type = "transfer" /\ ev.ep # "ep0"
               \/ ev.type = "transfer" /\ ev.ep = "ep0" /\ ev.code # "seq" /\ (ev.code = "ok" => x.wait # "data"),
           NEW y, y = Stepped(before, fail)
    PROVE  Handled(x, y, host, job)
<1>. DEFINE z == NextEvent(mid)
<1>1. /\ Core(z, host, job, TRUE) /\ Frame(mid, z, EventFields) /\ Advanced(x, z)
  BY MidLemma
<1>. HIDE DEF z
<1>2. Sound(before) /\ \A e \in Eps : SameRing(mid, before, e)
  <2>1. Frame(mid, before, Loose)
    BY Zenon DEF Frame, Loose, PlainFields
  <2>2. before.seq = mid.seq /\ before.setup = mid.setup
    BY Zenon DEF Frame, Fields, PlainFields
  <2>3. before.seq \in Nat /\ before.setup \in Requests \cup {NoRequest} /\ Sound(mid)
    BY <2>2 DEF Begun, Sound, Typed
  <2>. QED  BY <2>1, <2>3, LooseLemma, Zenon
<1>3. RingsKept(mid, before) /\ before.torn = mid.torn
  <2>1. before.on = mid.on /\ before.torn = mid.torn
    BY Zenon DEF Frame, Fields, PlainFields
  <2>. QED  BY <1>2, <2>1, RingSame DEF RingsKept, BulkStep, Eps
<1>4. /\ Sound(y) /\ y.clean = (before.clean /\ fail = "none")
      /\ Frame(z, y, PlainFields \cup {"clean"})
      /\ Frame(before, y, EventFields \cup {"clean"})
      /\ EventSound(y)
  <2>1. PlainFields \in SUBSET HandleFields
    BY DEF HandleFields, SetupFields, EpFields, PlainFields
  <2>2. Sound(x) /\ Sound(before) /\ \A e \in Eps : SetUp(mid, e) => SetUp(before, e)
    BY <1>2, <1>3 DEF RingsKept, Core
  <2>3. StepsTo(mid, before, fail, y, PlainFields)
    BY <2>1, <2>2, StepLemma
  <2>. QED  BY <2>3 DEF StepsTo, z
<1>5. RingsKept(z, y)
  BY <1>1, <1>3, <1>4, Lift
<1>6. /\ y.ev = z.ev /\ y.evdeq = z.evdeq /\ y.evenq = z.evenq /\ y.full = z.full
      /\ y.seq = z.seq /\ y.setup = z.setup /\ y.tr = z.tr /\ y.enq = z.enq /\ y.deq = z.deq
      /\ y.pcs = z.pcs /\ y.hdeq = z.hdeq /\ y.hdcs = z.hdcs /\ y.torn = z.torn
      /\ y.wait = z.wait /\ y.halt = z.halt
  BY <1>4, ZenonT(60) DEF Frame, Fields, PlainFields
<1>7. y.tx = before.tx /\ y.bytes = before.bytes /\ y.last = before.last
  BY <1>4, Zenon DEF Frame, Fields, EventFields
<1>8. /\ z.tr = mid.tr /\ z.enq = mid.enq /\ z.pcs = mid.pcs /\ z.hdeq = mid.hdeq /\ z.hdcs = mid.hdcs
      /\ z.torn = mid.torn /\ z.clean = mid.clean /\ z.full = mid.full /\ z.deq = mid.deq
      /\ z.tx = mid.tx /\ z.bytes = mid.bytes /\ z.last = mid.last /\ z.halt = mid.halt /\ z.seq = mid.seq
  BY <1>1, Zenon DEF Frame, Fields, EventFields
<1>9. /\ mid.tr = x.tr /\ mid.enq = x.enq /\ mid.pcs = x.pcs /\ mid.hdeq = x.hdeq /\ mid.hdcs = x.hdcs
      /\ mid.torn = x.torn /\ mid.clean = x.clean /\ mid.full = x.full
      /\ mid.tx = x.tx /\ mid.bytes = x.bytes /\ mid.last = x.last /\ mid.halt = x.halt
  <2>1. Frame(x, mid, {"setup", "seq", "deq", "err"})
    BY DEF Begun
  <2>. QED  BY <2>1, Zenon DEF Frame, Fields
<1>10. SameRing(z, y, "ep0")
  BY <1>6, Zenon DEF SameRing
<1>11. ControlInv(y)
  BY <1>1, <1>4, <1>5, <1>6, <1>10, ControlKept DEF Core, RingsKept
<1>12. TransferInv(y)
  BY <1>1, <1>5, <1>6, <1>11, TransferKept DEF Core, ControlInv
<1>13. BulkInv(y, job, TRUE)
  <2>1. CASE before.tx = x.tx /\ before.bytes = x.bytes /\ before.last = x.last
    <3>1. y.clean => z.clean /\ y.torn \subseteq z.torn
      BY <1>4, <1>6, <1>8, <1>9
    <3>2. y.tx = z.tx /\ y.bytes = z.bytes /\ y.last = z.last
      BY <1>7, <1>8, <1>9, <2>1
    <3>. QED  BY <1>1, <1>5, <1>6, <3>1, <3>2, BulkKept DEF Core
  <2>2. CASE Counted(x, before)
    <3>1. Advanced(x, y)
      <4>1. \A k : (Pending(y, k) <=> Pending(z, k)) /\ Behind(y, k) = Behind(z, k)
        BY <1>6 DEF Pending, Behind
      <4>2. y.ccs \in Bits
        BY <1>4 DEF Sound, Typed
      <4>. QED  BY <1>1, <1>6, <4>1, <4>2 DEF Advanced
    <3>2. /\ y.tr = x.tr /\ y.enq = x.enq /\ y.pcs = x.pcs /\ y.hdeq = x.hdeq /\ y.hdcs = x.hdcs
          /\ y.full = x.full /\ y.torn = x.torn /\ (y.clean => x.clean)
      BY <1>4, <1>6, <1>8, <1>9
    <3>3. Counted(x, y)
      BY <1>7, <2>2, Zenon DEF Counted
    <3>. QED  BY <3>1, <3>2, <3>3, BulkCounted DEF Core, Sound
  <2>. QED  BY <2>1, <2>2
<1>14. SetupInv(y, host)
  BY <1>1, <1>6, SetupKept DEF Core
<1>15. TrbInv(y) /\ DoneInv(y, host)
  <2>1. y.clean => z.clean
    BY <1>4, <1>8, <1>9
  <2>2. \A k : IsDone(y, k, {"ep0"}) <=> IsDone(z, k, {"ep0"})
    BY <1>6 DEF IsDone, Pending
  <2>3. TrbInv(y)
    <3>1. TrbInv(z)
      BY <1>1 DEF Core
    <3>2. /\ y.tr = z.tr /\ y.enq = z.enq /\ y.hdeq = z.hdeq /\ y.seq = z.seq /\ y.setup = z.setup
          /\ y.wait = z.wait
      BY <1>6
    <3>. QED  BY <2>1, <3>1, <3>2, SMTT(60) DEF TrbInv
  <2>4. DoneInv(y, host)
    BY <1>1, <1>6, <2>1, <2>2 DEF Core, DoneInv
  <2>. QED  BY <2>3, <2>4
<1>16. AnswerInv(y, host)
  <2>1. AnswerInv(z, host)
    <3>1. z.seq = x.seq /\ z.clean = x.clean /\ z.halt = x.halt /\ z.enq = x.enq
      BY <1>8, <1>9 DEF Begun
    <3>2. ~(x.ev[x.evdeq].type = "transfer" /\ x.ev[x.evdeq].ep = "ep0") => z.deq["ep0"] = x.deq["ep0"]
      BY <1>8 DEF Begun
    <3>. QED  BY <1>1, <3>1, <3>2, AnswerSame
  <2>2. y.clean => z.clean
    BY <1>4, <1>8, <1>9
  <2>. QED  BY <1>6, <2>1, <2>2 DEF AnswerInv, ControlBusy
<1>. QED  BY <1>4, <1>11, <1>12, <1>13, <1>14, <1>15, <1>16 DEF Handled, Core

LEMMA HeadLemma ==
    ASSUME NEW x, Typed(x), EventInv(x, TRUE)
    PROVE  LET ev == x.ev[x.evdeq]
           IN  /\ ev \in Events /\ ev.type \in {"setup", "port", "transfer"}
               /\ ev.type = "transfer" => ev.ep \in Eps /\ SetUp(x, ev.ep)
<1>1. x.evdeq \in EvSlots /\ x.evenq \in EvSlots /\ x.ev[x.evdeq] \in Events
  BY DEF Typed
<1>2. Pending(x, x.evdeq)
  BY <1>1 DEF Pending, EventInv, EvSlots
<1>3. x.ev[x.evdeq].type \in {"none", "setup", "port", "transfer"}
  BY <1>1 DEF Events
<1>. QED  BY <1>1, <1>2, <1>3 DEF EventInv

LEMMA PortEffect ==
    ASSUME NEW x, Sound(x), NEW y, y = tegrabl_handle_port_status(x)
    PROVE  /\ Frame(x, y, PlainFields) /\ {y.err, y.clean} \subseteq BOOLEAN /\ (y.clean => x.clean)
           /\ y.tx = x.tx /\ y.bytes = x.bytes /\ y.last = x.last
<1>0. DOMAIN x = Fields /\ x.clean \in BOOLEAN
  BY DEF Sound, Typed
<1>1. /\ Frame(x, y, {"state", "err", "port", "clean"})
      /\ y.err \in BOOLEAN
  BY <1>0, Zenon DEF Frame, Fields, tegrabl_handle_port_status
<1>2. y.clean \in BOOLEAN /\ (y.clean => x.clean)
  BY <1>0, Zenon DEF Fields, tegrabl_handle_port_status
<1>3. Frame(x, y, PlainFields)
  BY <1>1, Zenon DEF Frame, PlainFields
<1>4. y.tx = x.tx /\ y.bytes = x.bytes /\ y.last = x.last
  BY <1>1, Zenon DEF Frame, Fields
<1>. QED  BY <1>1, <1>2, <1>3, <1>4

\* The driver's place in the ring of the endpoint moves past the TRB.
LEMMA DequeueEffect ==
    ASSUME NEW x, Sound(x), NEW e \in Eps, SetUp(x, e), x.ev[x.evdeq].type = "transfer",
           x.ev[x.evdeq].ep = e,
           NEW y, y = [x EXCEPT !.deq[e] = NextSlot(x, e, @), !.err = FALSE]
    PROVE  Begun(x, y) /\ y.err = FALSE /\ y.tx = x.tx /\ y.bytes = x.bytes /\ y.last = x.last /\ y.clean = x.clean
<1>1. DOMAIN x = Fields /\ x.deq \in [Eps -> Places] /\ Linked(x, e)
  BY DEF Sound, Typed
<1>2. NextSlot(x, e, x.deq[e]) = After(x.deq[e]) /\ After(x.deq[e]) \in Places
  BY <1>1, NextSlotLemma, PlaceLemma
<1>3. /\ Frame(x, y, {"deq", "err"}) /\ y.err = FALSE
      /\ y.deq = [x.deq EXCEPT ![e] = NextSlot(x, e, @)]
  BY <1>1, Zenon DEF Frame, Fields
<1>4. /\ y.tr = x.tr /\ y.enq = x.enq /\ y.pcs = x.pcs /\ y.hdeq = x.hdeq
      /\ y.hdcs = x.hdcs /\ y.on = x.on /\ y.ev = x.ev /\ y.evdeq = x.evdeq
      /\ y.evenq = x.evenq /\ y.erdp = x.erdp /\ y.ccs = x.ccs /\ y.ecs = x.ecs
      /\ y.tx = x.tx /\ y.bytes = x.bytes /\ y.seq = x.seq /\ y.setup = x.setup
      /\ y.clean = x.clean /\ y.full = x.full /\ y.last = x.last /\ DOMAIN y = Fields
  BY <1>3, Zenon DEF Frame, Fields
<1>5. y.deq \in [Eps -> Places] /\ y.deq["ep0"] = IF e = "ep0" THEN After(x.deq["ep0"]) ELSE x.deq["ep0"]
  BY <1>1, <1>2, <1>3 DEF Eps
<1>6. Typed(y)
  <2>1. y.err \in BOOLEAN /\ y.deq \in [Eps -> Places]
    BY <1>3, <1>5
  <2>. QED  BY <1>4, <2>1, ZenonT(60) DEF Sound, Typed
<1>7. Sound(y)
  <2>1. \A f : (SetUp(y, f) <=> SetUp(x, f)) /\ (Linked(y, f) <=> Linked(x, f))
    BY <1>4, ZenonT(60) DEF SetUp, Linked
  <2>. QED  BY <1>4, <1>6, <2>1 DEF Sound
<1>8. Frame(x, y, {"setup", "seq", "deq", "err"})
  BY <1>3, Zenon DEF Frame
<1>. QED  BY <1>3, <1>4, <1>5, <1>7, <1>8 DEF Begun

LEMMA HandleLemma ==
    ASSUME NEW x, NEW host, host.seq \in Nat, NEW job, Core(x, host, job, TRUE), AnswerInv(x, host),
           EventInv(x, TRUE), NEW fail,
           NEW y, y = Stepped(Handle(x, x.ev[x.evdeq], fail), fail)
    PROVE  Handled(x, y, host, job)
<1>. DEFINE ev == x.ev[x.evdeq]
            before == Handle(x, ev, fail)
<1>1. /\ ev \in Events /\ ev.type \in {"setup", "port", "transfer"}
      /\ ev.type = "transfer" => ev.ep \in Eps /\ SetUp(x, ev.ep)
  BY HeadLemma DEF Core, Sound
<1>2. /\ Sound(x) /\ DOMAIN x = Fields /\ y = Stepped(before, fail)
      /\ x.tx \in Int /\ x.bytes \in Int /\ x.clean \in BOOLEAN
  BY DEF Core, Sound, Typed
<1>3. CASE ev.type = "setup"
  <2>. DEFINE mid == [x EXCEPT !.setup = ev.req, !.seq = ev.seq]
  <2>1. before = tegrabl_handle_setuppkt(mid, fail)
    BY <1>3 DEF Handle
  <2>. HIDE DEF before
  <2>2. Frame(x, mid, {"setup", "seq"}) /\ mid.setup = ev.req /\ mid.seq = ev.seq
    BY <1>2, Zenon DEF Frame, Fields
  <2>. HIDE DEF mid
  <2>3. Sound(mid)
    <3>1. ev.req \in Requests \cup {NoRequest} /\ ev.seq \in Nat
      BY <1>1 DEF Events
    <3>2. mid.err = x.err /\ mid.clean = x.clean /\ mid.tx = x.tx /\ mid.bytes = x.bytes
      BY <2>2, Zenon DEF Frame, Fields
    <3>3. Frame(x, mid, Loose)
      BY <2>2, Zenon DEF Frame, Loose
    <3>4. {mid.err, mid.clean} \subseteq BOOLEAN /\ {mid.tx, mid.bytes} \subseteq Int
      BY <1>2, <3>2 DEF Sound, Typed
    <3>. QED  BY <1>2, <2>2, <3>1, <3>3, <3>4, LooseLemma
  <2>4. Begun(x, mid)
    <3>1. mid.deq = x.deq
      BY <2>2, Zenon DEF Frame, Fields
    <3>2. Frame(x, mid, {"setup", "seq", "deq", "err"})
      BY <2>2, Zenon DEF Frame
    <3>. QED  BY <1>3, <2>2, <2>3, <3>1, <3>2 DEF Begun
  <2>5. SetupStep(mid, before, fail)
    BY <2>1, <2>3, SetupEffect
  <2>. QED  BY <1>2, <2>4, <2>5, SetupHandled
<1>4. CASE ev.type = "port"
  <2>1. before = tegrabl_handle_port_status(x)
    BY <1>4 DEF Handle
  <2>. HIDE DEF before
  <2>2. /\ Frame(x, before, PlainFields) /\ {before.err, before.clean} \subseteq BOOLEAN
        /\ (before.clean => x.clean)
        /\ before.tx = x.tx /\ before.bytes = x.bytes /\ before.last = x.last
    BY <1>2, <2>1, PortEffect
  <2>3. Begun(x, x)
    BY <1>2, <1>4 DEF Begun, Frame
  <2>4. {before.tx, before.bytes} \subseteq Int
    BY <1>2, <2>2
  <2>. QED  BY <1>2, <1>4, <2>2, <2>3, <2>4, PlainHandled
<1>5. CASE ev.type = "transfer"
  <2>. DEFINE mid == [x EXCEPT !.deq[ev.ep] = NextSlot(x, ev.ep, @), !.err = FALSE]
  <2>1. /\ Begun(x, mid) /\ mid.err = FALSE /\ mid.tx = x.tx /\ mid.bytes = x.bytes
        /\ mid.last = x.last /\ mid.clean = x.clean
    BY <1>1, <1>2, <1>5, DequeueEffect, ZenonT(60)
  <2>2. before = CASE ev.code = "ok" /\ ev.ep = "ep0" ->
                        IF x.wait = "data" THEN tegrabl_issue_status_trb(mid, "out")
                        ELSE IF x.wait # "status" THEN mid
                        ELSE [mid EXCEPT !.state = CASE @ = "addressed pending"  -> "addressed"
                                                     [] @ = "configured pending" -> "configured"
                                                     [] OTHER -> @]
                   [] ev.code = "ok" /\ ev.ep = "out" -> BulkDone(mid, ev)
                   [] ev.code = "ok" /\ ev.ep = "in"  -> [BulkDone(mid, ev) EXCEPT !.err = ev.rem # 0]
                   [] ev.code = "seq" -> tegrabl_handle_setuppkt(mid, fail)
                   [] OTHER -> [mid EXCEPT !.err = TRUE]
    BY <1>5, Zenon DEF Handle, tegrabl_handle_txfer_event
  <2>. HIDE DEF mid, before
  <2>3. DOMAIN mid = Fields /\ Sound(mid)
    BY <2>1 DEF Begun, Sound, Typed
  <2>4. CASE ev.code = "ok" /\ ev.ep = "ep0" /\ x.wait = "data"
    <3>1. before = [tegrabl_queue_trb(mid, "ep0", ControlTrb(mid, "status", "out")) EXCEPT !.wait = "status"]
      BY <2>2, <2>4 DEF tegrabl_issue_status_trb
    <3>2. Issued(mid, before, "status", "out")
      BY <2>3, <3>1, IssueEffect
    <3>. QED  BY <1>2, <1>5, <2>1, <2>4, <3>2, DataHandled
  <2>5. CASE ev.code = "ok" /\ ev.ep = "ep0" /\ x.wait # "data"
    <3>. DEFINE s == CASE mid.state = "addressed pending"  -> "addressed"
                       [] mid.state = "configured pending" -> "configured"
                       [] OTHER -> mid.state
    <3>1. before = mid \/ before = [mid EXCEPT !.state = s]
      BY <2>2, <2>5
    <3>. HIDE DEF s
    <3>2. Frame(mid, before, {"state"})
      BY <2>3, <3>1, Zenon DEF Frame, Fields
    <3>3. Frame(mid, before, PlainFields)
      BY <3>2, Zenon DEF Frame, PlainFields
    <3>4. /\ before.err = mid.err /\ before.clean = mid.clean /\ before.tx = mid.tx
          /\ before.bytes = mid.bytes /\ before.last = mid.last
      BY <3>2, Zenon DEF Frame, Fields
    <3>. QED  BY <1>2, <1>5, <2>1, <2>5, <3>3, <3>4, PlainHandled
  <2>6. CASE ev.code = "ok" /\ ev.ep # "ep0"
    <3>. DEFINE d == BulkDone(mid, ev)
    <3>0. ev.ep \in {"out", "in"} /\ ev.rem \in Int
      BY <1>1, <1>5, <2>6 DEF Eps, Events
    <3>1. before = d \/ before = [d EXCEPT !.err = ev.rem # 0]
      BY <2>2, <2>6, <3>0
    <3>2. /\ Frame(mid, d, {"bytes", "tx", "last"}) /\ d.bytes = mid.bytes - ev.rem /\ d.tx = mid.tx - 1
          /\ d.last = [ep |-> ev.ep, id |-> ev.id, moved |-> ev.moved]
      <4>. HIDE DEF ev
      <4>. QED  BY <2>3, Zenon DEF BulkDone, Frame, Fields
    <3>3. d.err = mid.err /\ d.clean = mid.clean
      BY <3>2, Zenon DEF Frame, Fields
    <3>. HIDE DEF d
    <3>4. Frame(d, before, {"err"}) /\ before.err \in BOOLEAN
      <4>1. DOMAIN d = Fields /\ d.err \in BOOLEAN
        BY <2>1, <3>2, <3>3 DEF Frame
      <4>. QED  BY <3>1, <4>1, Zenon DEF Frame, Fields
    <3>5. before.clean = d.clean /\ before.tx = d.tx /\ before.bytes = d.bytes /\ before.last = d.last
      BY <3>4, Zenon DEF Frame, Fields
    <3>6. Frame(mid, before, PlainFields)
      BY <3>2, <3>4, Zenon DEF Frame, PlainFields
    <3>7. Counted(x, before)
      BY <1>5, <2>1, <2>6, <3>0, <3>2, <3>5 DEF Counted
    <3>8. /\ {before.err, before.clean} \subseteq BOOLEAN /\ {before.tx, before.bytes} \subseteq Int
          /\ (before.clean => x.clean)
      BY <1>2, <2>1, <3>0, <3>2, <3>3, <3>4, <3>5
    <3>. QED  BY <1>2, <1>5, <2>1, <2>6, <3>6, <3>7, <3>8, PlainHandled
  <2>7. CASE ev.code = "seq"
    <3>1. before = tegrabl_handle_setuppkt(mid, fail)
      BY <2>2, <2>7
    <3>2. SetupStep(mid, before, fail)
      BY <2>3, <3>1, SetupEffect
    <3>. QED  BY <1>2, <2>1, <3>2, SetupHandled
  <2>8. CASE ev.code \notin {"ok", "seq"}
    <3>1. before = [mid EXCEPT !.err = TRUE]
      BY <2>2, <2>8
    <3>2. Frame(mid, before, {"err"}) /\ before.err = TRUE
      BY <2>3, <3>1, Zenon DEF Frame, Fields
    <3>3. Frame(mid, before, PlainFields)
      BY <3>2, Zenon DEF Frame, PlainFields
    <3>4. /\ before.clean = mid.clean /\ before.tx = mid.tx
          /\ before.bytes = mid.bytes /\ before.last = mid.last
      BY <3>2, Zenon DEF Frame, Fields
    <3>. QED  BY <1>2, <1>5, <2>1, <2>8, <3>2, <3>3, <3>4, PlainHandled
  <2>. QED  BY <2>4, <2>5, <2>6, <2>7, <2>8
<1>. QED  BY <1>1, <1>3, <1>4, <1>5

-----------------------------------------------------------------------------
(* The steps.                                                              *)

\* Fields that matter to few parts may change.
SideFields == {"erdp", "ehb", "ip", "snap", "err", "link", "port", "last", "clean"}
LEMMA CoreLoose ==
    ASSUME NEW x, NEW host, NEW job, NEW r, Core(x, host, job, r), AnswerInv(x, host),
           NEW y, Frame(x, y, SideFields), y.erdp \in EvSlots, {y.err, y.clean} \subseteq BOOLEAN,
           y.clean => x.clean, NEW job2, NEW r2, BulkInv(y, job2, r2)
    PROVE  Core(y, host, job2, r2) /\ AnswerInv(y, host)
<1>1. /\ y.tr = x.tr /\ y.enq = x.enq /\ y.deq = x.deq /\ y.pcs = x.pcs /\ y.hdeq = x.hdeq
      /\ y.hdcs = x.hdcs /\ y.on = x.on /\ y.torn = x.torn /\ y.ev = x.ev /\ y.evdeq = x.evdeq
      /\ y.evenq = x.evenq /\ y.ccs = x.ccs /\ y.ecs = x.ecs /\ y.tx = x.tx /\ y.bytes = x.bytes
      /\ y.seq = x.seq /\ y.setup = x.setup /\ y.wait = x.wait /\ y.halt = x.halt
      /\ y.full = x.full /\ DOMAIN y = Fields
  BY Zenon DEF Frame, Fields, SideFields
<1>2. Typed(y)
  BY <1>1 DEF Core, Sound, Typed
<1>3. \A e : /\ SetUp(y, e) <=> SetUp(x, e)
             /\ Linked(y, e) <=> Linked(x, e)
             /\ RingInv(y, e) <=> RingInv(x, e)
  BY <1>1, ZenonT(60) DEF SetUp, Linked, RingInv
<1>4. Sound(y)
  BY <1>1, <1>2, <1>3 DEF Core, Sound
<1>5. TransferInv(y)
  BY <1>1, <1>3 DEF Core, TransferInv
<1>6. \A k : IsDone(y, k, {"ep0"}) <=> IsDone(x, k, {"ep0"})
  BY <1>1 DEF IsDone, Pending
<1>7. ControlInv(y)
  BY <1>1, <1>3, <1>6 DEF Core, ControlInv
<1>8. SetupInv(y, host)
  BY <1>1, SetupKept DEF Core
<1>9. TrbInv(y) /\ DoneInv(y, host)
  BY <1>1, <1>6 DEF Core, TrbInv, DoneInv
<1>10. AnswerInv(y, host)
  BY <1>1 DEF AnswerInv, ControlBusy
<1>. QED  BY <1>4, <1>5, <1>7, <1>8, <1>9, <1>10 DEF Core

LEMMA BulkLoose ==
    ASSUME NEW x, NEW job, NEW r, BulkInv(x, job, r), NEW y, Frame(x, y, SideFields),
           y.clean => x.clean, y.last = x.last
    PROVE  BulkInv(y, job, r)
<1>1. /\ y.tr = x.tr /\ y.enq = x.enq /\ y.pcs = x.pcs /\ y.hdeq = x.hdeq
      /\ y.hdcs = x.hdcs /\ y.torn = x.torn /\ y.ev = x.ev /\ y.evdeq = x.evdeq
      /\ y.evenq = x.evenq /\ y.tx = x.tx /\ y.bytes = x.bytes /\ y.full = x.full
  BY Zenon DEF Frame, Fields, SideFields
<1>2. \A e : /\ SetUp(y, e) <=> SetUp(x, e)
             /\ RingInv(y, e) <=> RingInv(x, e)
             /\ Left(y, e) <=> Left(x, e)
  BY <1>1, Zenon DEF SetUp, RingInv, Left
<1>3. \A k : IsDone(y, k, {"out", "in"}) <=> IsDone(x, k, {"out", "in"})
  BY <1>1 DEF IsDone, Pending
<1>4. Waits(y, job, r) <=> Waits(x, job, r)
  BY <1>1 DEF Waits
<1>. QED  BY <1>1, <1>2, <1>3, <1>4 DEF BulkInv

\* A call that ends has nothing out, unless it failed.
LEMMA BulkEnds ==
    ASSUME NEW x, NEW job, BulkInv(x, job, TRUE), NEW y, Frame(x, y, SideFields), NEW ok \in BOOLEAN,
           y.clean = (x.clean /\ ok), ok => job.name = "enumerate" \/ x.tx = 0
    PROVE  BulkInv(y, job, FALSE)
<1>. SUFFICES ASSUME y.clean PROVE BulkInv(y, job, FALSE)
  BY DEF BulkInv
<1>1. /\ y.tr = x.tr /\ y.enq = x.enq /\ y.pcs = x.pcs /\ y.hdeq = x.hdeq
      /\ y.hdcs = x.hdcs /\ y.torn = x.torn /\ y.ev = x.ev /\ y.evdeq = x.evdeq
      /\ y.evenq = x.evenq /\ y.full = x.full /\ x.clean /\ ok
  BY Zenon DEF Frame, Fields, SideFields
<1>2. \A e : /\ SetUp(y, e) <=> SetUp(x, e)
             /\ RingInv(y, e) <=> RingInv(x, e)
             /\ Left(y, e) <=> Left(x, e)
  BY <1>1, ZenonT(60) DEF SetUp, RingInv, Left
<1>3. \A k : IsDone(y, k, {"out", "in"}) <=> IsDone(x, k, {"out", "in"})
  BY <1>1 DEF IsDone, Pending
<1>4. ~Waits(x, job, TRUE)
  BY <1>1 DEF Waits
<1>5. /\ \A e \in {"out", "in"} : ~Left(y, e)
      /\ \A k \in EvSlots : ~IsDone(y, k, {"out", "in"})
  BY <1>1, <1>2, <1>3, <1>4 DEF BulkInv
<1>. QED  BY <1>1, <1>2, <1>5 DEF BulkInv

RestOK ==
    /\ pc \in {"idle", "poll", "events", "fault"}
    /\ call \in [name : {"none", "enumerate", "out", "in"}, id : Nat]
    /\ ctl \in [req : Requests \cup {NoRequest}, seq : Nat, stage : {"open", "done"}]
    /\ ret \in [ok : BOOLEAN, exact : BOOLEAN]
    /\ spent \in [setups : Nat, calls : Nat, faults : Nat]

LEMMA Unfold ==
    ASSUME UsbInv
    PROVE  /\ RestOK /\ Core(m, ctl, call, Running) /\ AnswerInv(m, ctl)
           /\ EventInv(m, pc = "events") /\ TransferExact
           /\ ctl.seq \in Nat /\ Typed(m) /\ Sound(m)
<1>1. Sound(m)
  BY DEF UsbInv, TypeOK, TransferInv, ControlInv, Sound
<1>. QED  BY <1>1 DEF UsbInv, TypeOK, RestOK, Core, Sound

LEMMA Fold ==
    ASSUME RestOK', Core(m', ctl', call', Running'), AnswerInv(m', ctl'),
           EventInv(m', (pc = "events")'), TransferExact'
    PROVE  UsbInv'
<1>1. TypeOK'
  BY DEF RestOK, Core, Sound, TypeOK
<1>. QED  BY <1>1 DEF UsbInv, Core

LEMMA LeaveStep ==
    ASSUME RestOK, NEW x, Core(x, ctl, call, TRUE), AnswerInv(x, ctl), EventInv(x, FALSE),
           NEW ok \in BOOLEAN, ok => call.name = "enumerate" \/ x.tx = 0, Leave(x, ok),
           ctl' = ctl, call' = call, spent' \in [setups : Nat, calls : Nat, faults : Nat]
    PROVE  UsbInv'
<1>. DEFINE y == [x EXCEPT !.last = NoTransfer, !.clean = @ /\ ok]
            exact == call.name = "enumerate" \/ x.last = [ep |-> call.name, id |-> call.id, moved |-> x.bytes]
<1>1. m' = y /\ pc' = "idle" /\ ret' = [ok |-> ok, exact |-> exact]
  BY DEF Leave
<1>2. DOMAIN x = Fields /\ x.clean \in BOOLEAN /\ x.err \in BOOLEAN /\ x.erdp \in EvSlots
  BY DEF Core, Sound, Typed
<1>3. Frame(x, y, {"last", "clean"}) /\ y.clean = (x.clean /\ ok)
  BY <1>2, Zenon DEF Frame, Fields
<1>. HIDE DEF y
<1>4. Frame(x, y, SideFields)
  BY <1>3, Zenon DEF Frame, SideFields
<1>5. y.erdp \in EvSlots /\ {y.err, y.clean} \subseteq BOOLEAN /\ (y.clean => x.clean)
  <2>1. y.erdp = x.erdp /\ y.err = x.err
    BY <1>3, Zenon DEF Frame, Fields
  <2>. QED  BY <1>2, <1>3, <2>1
<1>6. BulkInv(y, call, FALSE)
  BY <1>3, <1>4, BulkEnds DEF Core
<1>7. Core(y, ctl, call, FALSE) /\ AnswerInv(y, ctl)
  BY <1>4, <1>5, <1>6, CoreLoose
<1>8. EventInv(y, FALSE)
  <2>1. /\ y.ev = x.ev /\ y.evdeq = x.evdeq /\ y.evenq = x.evenq /\ y.ccs = x.ccs
        /\ y.ecs = x.ecs /\ y.erdp = x.erdp /\ y.tr = x.tr
    BY <1>3, Zenon DEF Frame, Fields
  <2>. QED  BY <2>1, EventSame DEF SetUp
<1>9. ok /\ x.clean => exact
  <2>1. call.name \in {"none", "enumerate", "out", "in"}
    BY DEF RestOK
  <2>. QED  BY <2>1 DEF Core, BulkInv
<1>10. TransferExact'
  BY <1>1, <1>3, <1>9 DEF TransferExact
<1>11. RestOK'
  BY <1>1 DEF RestOK
<1>12. Running' = FALSE /\ (pc = "events")' = FALSE
  BY <1>1 DEF Running
<1>13. Core(m', ctl', call', Running') /\ AnswerInv(m', ctl') /\ EventInv(m', (pc = "events")')
  BY <1>1, <1>7, <1>8, <1>12, Zenon
<1>. QED  BY <1>10, <1>11, <1>13, Fold

LEMMA PollStep ==
    ASSUME UsbInv, Poll
    PROVE  UsbInv'
<1>0. /\ RestOK /\ Core(m, ctl, call, Running) /\ AnswerInv(m, ctl)
      /\ EventInv(m, pc = "events") /\ TransferExact /\ Sound(m) /\ Typed(m)
  BY Unfold
<1>1. pc = "poll" /\ ctl' = ctl /\ call' = call /\ spent' = spent
  BY DEF Poll
<1>2. Core(m, ctl, call, TRUE) /\ EventInv(m, FALSE)
  <2>1. Running = TRUE /\ (pc = "events") = FALSE
    BY <1>1 DEF Running
  <2>. QED  BY <1>0, <2>1, Zenon
<1>. DEFINE x == [m EXCEPT !.ip = FALSE, !.snap = m.evenq, !.err = FALSE]
<1>3. IF m.ev[m.evdeq].c # m.ccs THEN Leave(x, FALSE)
      ELSE m' = x /\ pc' = "events" /\ UNCHANGED ret
  BY DEF Poll
<1>4. Frame(m, x, {"ip", "snap", "err"}) /\ x.err = FALSE
  <2>1. DOMAIN m = Fields
    BY <1>0 DEF Typed
  <2>. QED  BY <2>1, Zenon DEF Frame, Fields
<1>. HIDE DEF x
<1>5. /\ x.ev = m.ev /\ x.evdeq = m.evdeq /\ x.evenq = m.evenq /\ x.ccs = m.ccs
      /\ x.ecs = m.ecs /\ x.erdp = m.erdp /\ x.tr = m.tr /\ x.clean = m.clean /\ x.last = m.last
  BY <1>4, Zenon DEF Frame, Fields
<1>6. Core(x, ctl, call, TRUE) /\ AnswerInv(x, ctl) /\ EventInv(x, FALSE)
  <2>1. Frame(m, x, SideFields)
    BY <1>4, Zenon DEF Frame, SideFields
  <2>2. x.erdp \in EvSlots /\ {x.err, x.clean} \subseteq BOOLEAN
    BY <1>0, <1>4, <1>5 DEF Typed
  <2>3. BulkInv(x, call, TRUE)
    BY <1>2, <1>5, <2>1, BulkLoose DEF Core
  <2>4. EventInv(x, FALSE)
    BY <1>2, <1>5, EventSame DEF SetUp
  <2>. QED  BY <1>0, <1>2, <1>5, <2>1, <2>2, <2>3, <2>4, CoreLoose
<1>7. CASE m.ev[m.evdeq].c # m.ccs
  <2>1. Leave(x, FALSE)
    BY <1>3, <1>7
  <2>. QED  BY <1>0, <1>1, <1>6, <2>1, LeaveStep DEF RestOK
<1>8. CASE m.ev[m.evdeq].c = m.ccs
  <2>1. m' = x /\ pc' = "events" /\ ret' = ret
    BY <1>3, <1>8
  <2>2. x.evdeq # x.evenq
    <3>1. m.evdeq \in EvSlots /\ m.evenq \in EvSlots /\ m.ccs \in Bits /\ m.ecs \in Bits
      BY <1>0 DEF Typed
    <3>2. /\ m.ev[m.evdeq].c = IF m.evdeq < m.evenq THEN m.ecs ELSE 1 - m.ecs
          /\ m.ecs = IF m.evenq >= m.evdeq THEN m.ccs ELSE 1 - m.ccs
      BY <1>2, <3>1 DEF EventInv
    <3>. QED  BY <1>5, <1>8, <3>1, <3>2 DEF EvSlots, Bits
  <2>3. EventInv(x, TRUE)
    BY <1>6, <2>2 DEF EventInv
  <2>4. Running' = TRUE /\ (pc = "events")' = TRUE
    BY <2>1 DEF Running
  <2>5. Core(m', ctl', call', Running') /\ AnswerInv(m', ctl') /\ EventInv(m', (pc = "events")')
    BY <1>1, <1>6, <2>1, <2>3, <2>4, Zenon
  <2>6. RestOK'
    BY <1>0, <1>1, <2>1 DEF RestOK
  <2>7. TransferExact'
    BY <1>0, <1>5, <2>1 DEF TransferExact
  <2>. QED  BY <2>5, <2>6, <2>7, Fold
<1>. QED  BY <1>7, <1>8

LEMMA PollTimeoutStep ==
    ASSUME UsbInv, PollTimeout
    PROVE  UsbInv'
<1>0. /\ RestOK /\ Core(m, ctl, call, Running) /\ AnswerInv(m, ctl) /\ EventInv(m, pc = "events")
  BY Unfold
<1>1. /\ pc = "poll" /\ ctl' = ctl /\ call' = call /\ Leave(m, FALSE)
      /\ spent' = [spent EXCEPT !.faults = @ + 1]
  BY DEF PollTimeout, Fault
<1>2. Core(m, ctl, call, TRUE) /\ EventInv(m, FALSE)
  <2>1. Running = TRUE /\ (pc = "events") = FALSE
    BY <1>1 DEF Running
  <2>. QED  BY <1>0, <2>1, Zenon
<1>3. spent' \in [setups : Nat, calls : Nat, faults : Nat]
  BY <1>0, <1>1 DEF RestOK
<1>. QED  BY <1>0, <1>1, <1>2, <1>3, LeaveStep

\* The cycle bit tells the driver that there is an event only if there is one.
LEMMA MoreLemma ==
    ASSUME NEW x, Typed(x), EventSound(x), x.ev[x.evdeq].c = x.ccs
    PROVE  EventInv(x, TRUE)
<1>1. x.evdeq \in EvSlots /\ x.evenq \in EvSlots /\ x.ccs \in Bits /\ x.ecs \in Bits
  BY DEF Typed
<1>2. /\ x.ev[x.evdeq].c = IF x.evdeq < x.evenq THEN x.ecs ELSE 1 - x.ecs
      /\ x.ecs = IF x.evenq >= x.evdeq THEN x.ccs ELSE 1 - x.ccs
  BY <1>1 DEF EventSound
<1>3. x.evdeq # x.evenq
  BY <1>1, <1>2 DEF EvSlots, Bits
<1>. QED  BY <1>3 DEF EventSound, EventInv

LEMMA EventStep ==
    ASSUME UsbInv, Event
    PROVE  UsbInv'
<1>0. /\ RestOK /\ Core(m, ctl, call, Running) /\ AnswerInv(m, ctl)
      /\ EventInv(m, pc = "events") /\ TransferExact /\ ctl.seq \in Nat
  BY Unfold
<1>1. pc = "events" /\ ctl' = ctl /\ call' = call
  BY DEF Event
<1>2. Core(m, ctl, call, TRUE) /\ EventInv(m, TRUE)
  <2>1. Running = TRUE /\ (pc = "events") = TRUE
    BY <1>1 DEF Running
  <2>. QED  BY <1>0, <2>1, Zenon
<1>3. PICK fail :
        LET x == NextEvent([Handle(m, m.ev[m.evdeq], fail) EXCEPT !.clean = @ /\ fail = "none"])
            more == x.evdeq # x.snap /\ x.ev[x.evdeq].c = x.ccs
            left == x.evdeq # x.evenq
            y == [x EXCEPT !.erdp = x.evdeq, !.ehb = left, !.ip = left, !.snap = 0, !.err = FALSE]
        IN  /\ Fault(IF fail = "none" THEN 0 ELSE 1)
            /\ IF more THEN m' = x /\ UNCHANGED <<pc, ret>>
               ELSE IF x.err \/ Finished(y) THEN Leave(y, ~x.err)
               ELSE m' = y /\ pc' = "poll" /\ UNCHANGED ret
  BY Zenon DEF Event
<1>. DEFINE x == Stepped(Handle(m, m.ev[m.evdeq], fail), fail)
            y == [x EXCEPT !.erdp = x.evdeq, !.ehb = (x.evdeq # x.evenq), !.ip = (x.evdeq # x.evenq),
                           !.snap = 0, !.err = FALSE]
<1>4. /\ spent' = [spent EXCEPT !.faults = @ + (IF fail = "none" THEN 0 ELSE 1)]
      /\ IF x.evdeq # x.snap /\ x.ev[x.evdeq].c = x.ccs THEN m' = x /\ pc' = pc /\ ret' = ret
         ELSE IF x.err \/ Finished(y) THEN Leave(y, ~x.err)
         ELSE m' = y /\ pc' = "poll" /\ ret' = ret
  BY <1>3 DEF Fault, Stepped
<1>5. Handled(m, x, ctl, call) /\ (x.clean => m.clean)
  BY <1>0, <1>2, HandleLemma, ZenonT(60) DEF Handled
<1>. HIDE DEF x
<1>6. /\ Core(x, ctl, call, TRUE) /\ AnswerInv(x, ctl) /\ EventSound(x)
      /\ DOMAIN x = Fields /\ Typed(x)
  BY <1>5 DEF Handled, Core, Sound, Typed
<1>7. spent' \in [setups : Nat, calls : Nat, faults : Nat]
  BY <1>0, <1>4 DEF RestOK
<1>8. CASE x.evdeq # x.snap /\ x.ev[x.evdeq].c = x.ccs
  <2>1. m' = x /\ pc' = "events" /\ ret' = ret
    BY <1>1, <1>4, <1>8
  <2>2. EventInv(x, TRUE)
    BY <1>6, <1>8, MoreLemma
  <2>3. Running' = TRUE /\ (pc = "events")' = TRUE
    BY <2>1 DEF Running
  <2>4. Core(m', ctl', call', Running') /\ AnswerInv(m', ctl') /\ EventInv(m', (pc = "events")')
    BY <1>1, <1>6, <2>1, <2>2, <2>3, Zenon
  <2>5. RestOK'
    BY <1>0, <1>1, <1>7, <2>1 DEF RestOK
  <2>6. TransferExact'
    BY <1>0, <1>5, <2>1 DEF TransferExact
  <2>. QED  BY <2>4, <2>5, <2>6, Fold
<1>9. CASE ~(x.evdeq # x.snap /\ x.ev[x.evdeq].c = x.ccs)
  <2>1. Frame(x, y, {"erdp", "ehb", "ip", "snap", "err"}) /\ y.erdp = x.evdeq /\ y.err = FALSE
    BY <1>6, Zenon DEF Frame, Fields
  <2>2. IF x.err \/ Finished(y) THEN Leave(y, ~x.err) ELSE m' = y /\ pc' = "poll" /\ ret' = ret
    BY <1>4, <1>9
  <2>. HIDE DEF y
  <2>3. /\ y.ev = x.ev /\ y.evdeq = x.evdeq /\ y.evenq = x.evenq /\ y.ccs = x.ccs /\ y.ecs = x.ecs
        /\ y.tr = x.tr /\ y.clean = x.clean /\ y.last = x.last
    BY <2>1, Zenon DEF Frame, Fields
  <2>4. Frame(x, y, SideFields)
    BY <2>1, Zenon DEF Frame, SideFields
  <2>5. y.erdp \in EvSlots /\ {y.err, y.clean} \subseteq BOOLEAN
    BY <1>6, <2>1, <2>3 DEF Typed
  <2>6. BulkInv(y, call, TRUE)
    BY <1>6, <2>3, <2>4, BulkLoose DEF Core
  <2>7. Core(y, ctl, call, TRUE) /\ AnswerInv(y, ctl)
    BY <1>6, <2>3, <2>4, <2>5, <2>6, CoreLoose
  <2>8. EventInv(y, FALSE)
    <3>1. \A k : Pending(y, k) <=> Pending(x, k)
      BY <2>3 DEF Pending
    <3>2. \A e : SetUp(y, e) <=> SetUp(x, e)
      BY <2>3 DEF SetUp
    <3>3. x.evdeq \in EvSlots /\ x.evenq \in EvSlots
      BY <1>6 DEF Typed
    <3>4. IF y.erdp <= y.evenq THEN y.erdp <= y.evdeq /\ y.evdeq <= y.evenq
          ELSE y.erdp <= y.evdeq \/ y.evdeq <= y.evenq
      BY <2>1, <2>3, <3>3 DEF EvSlots
    <3>. QED  BY <1>6, <2>1, <2>3, <3>1, <3>2, <3>4 DEF EventSound, EventInv
  <2>9. CASE x.err \/ Finished(y)
    <3>1. Leave(y, ~x.err)
      BY <2>2, <2>9
    <3>2. ~x.err => call.name = "enumerate" \/ y.tx = 0
      BY <2>9 DEF Finished
    <3>. QED  BY <1>0, <1>1, <1>7, <2>7, <2>8, <3>1, <3>2, LeaveStep
  <2>10. CASE ~(x.err \/ Finished(y))
    <3>1. m' = y /\ pc' = "poll" /\ ret' = ret
      BY <2>2, <2>10
    <3>2. Running' = TRUE /\ (pc = "events")' = FALSE
      BY <3>1 DEF Running
    <3>3. Core(m', ctl', call', Running') /\ AnswerInv(m', ctl') /\ EventInv(m', (pc = "events")')
      BY <1>1, <2>7, <2>8, <3>1, <3>2, Zenon
    <3>4. RestOK'
      BY <1>0, <1>1, <1>7, <3>1 DEF RestOK
    <3>5. TransferExact'
      BY <1>0, <1>5, <2>3, <3>1 DEF TransferExact
    <3>. QED  BY <3>3, <3>4, <3>5, Fold
  <2>. QED  BY <2>9, <2>10
<1>. QED  BY <1>8, <1>9

-----------------------------------------------------------------------------
(* The controller and the host.                                            *)

\* What an event that is posted changes, and what not.
LEMMA PostSame ==
    ASSUME NEW x, NEW y, NEW ev, Posted(x, y, ev)
    PROVE  /\ y.tr = x.tr /\ y.enq = x.enq /\ y.deq = x.deq /\ y.pcs = x.pcs /\ y.hdeq = x.hdeq
           /\ y.hdcs = x.hdcs /\ y.on = x.on /\ y.torn = x.torn /\ y.evdeq = x.evdeq
           /\ y.erdp = x.erdp /\ y.ccs = x.ccs /\ y.tx = x.tx /\ y.bytes = x.bytes
           /\ y.seq = x.seq /\ y.setup = x.setup /\ y.wait = x.wait /\ y.halt = x.halt
           /\ y.clean = x.clean /\ y.full = x.full /\ y.err = x.err /\ y.last = x.last
           /\ DOMAIN y = Fields
<1>1. Frame(x, y, {"ev", "evenq", "ecs", "ip", "ehb"})
  BY DEF Posted
<1>. QED  BY <1>1, Zenon DEF Frame, Fields

\* The new event is the last one.
PostedKind(x, y, ev) ==
    LET n == x.evenq
    IN  /\ n \in EvSlots /\ ~Pending(x, n)
        /\ y.ev[n].type = ev.type /\ y.ev[n].req = ev.req /\ y.ev[n].seq = ev.seq /\ y.ev[n].ep = ev.ep
        /\ y.ev[n].code = ev.code /\ y.ev[n].rem = ev.rem /\ y.ev[n].id = ev.id /\ y.ev[n].moved = ev.moved
        /\ \A k \in EvSlots :
              /\ IsSetup(y, k) <=> IsSetup(x, k) \/ (k = n /\ ev.type = "setup")
              /\ \A S : IsDone(y, k, S) <=> IsDone(x, k, S) \/ (k = n /\ ev.type = "transfer" /\ ev.ep \in S)
              /\ Behind(y, k) = Behind(x, k)
              /\ IsSetup(x, k) => k # n /\ y.ev[k] = x.ev[k] /\ Behind(y, k) < Behind(y, n)
              /\ \A S : IsDone(x, k, S) => k # n /\ y.ev[k] = x.ev[k] /\ Behind(y, k) < Behind(y, n)

LEMMA PostKind ==
    ASSUME NEW x, NEW y, NEW ev \in Events, Posted(x, y, ev)
    PROVE  PostedKind(x, y, ev)
<1>. DEFINE n == x.evenq
            q == [ev EXCEPT !.c = x.ecs]
<1>1. /\ n \in EvSlots /\ ~Pending(x, n) /\ y.ev[n] = q
      /\ \A k \in EvSlots :
          /\ Pending(y, k) <=> Pending(x, k) \/ k = n
          /\ Pending(x, k) => y.ev[k] = x.ev[k] /\ Behind(y, k) < Behind(y, n)
          /\ Behind(y, k) = Behind(x, k)
  BY DEF Posted
<1>2. /\ q.type = ev.type /\ q.req = ev.req /\ q.seq = ev.seq /\ q.ep = ev.ep
      /\ q.code = ev.code /\ q.rem = ev.rem /\ q.id = ev.id /\ q.moved = ev.moved
  BY DEF Events
<1>. HIDE DEF q, n
<1>3. \A k \in EvSlots : Pending(x, k) => k # n
  BY <1>1
<1>4. \A k \in EvSlots :
         /\ IsSetup(y, k) <=> IsSetup(x, k) \/ (k = n /\ ev.type = "setup")
         /\ IsSetup(x, k) => k # n /\ y.ev[k] = x.ev[k] /\ Behind(y, k) < Behind(y, n)
  BY <1>1, <1>2, <1>3 DEF IsSetup
<1>5. \A k \in EvSlots : \A S :
         /\ IsDone(y, k, S) <=> IsDone(x, k, S) \/ (k = n /\ ev.type = "transfer" /\ ev.ep \in S)
         /\ IsDone(x, k, S) => k # n /\ y.ev[k] = x.ev[k] /\ Behind(y, k) < Behind(y, n)
  BY <1>1, <1>2, <1>3 DEF IsDone
<1>6. n = x.evenq
  BY DEF n
<1>. QED  BY <1>1, <1>2, <1>4, <1>5, <1>6, Zenon DEF PostedKind

LEMMA PostShape ==
    ASSUME NEW x, NEW y, NEW ev, Posted(x, y, ev), Sound(x)
    PROVE  /\ Sound(y) /\ (TransferInv(x) => TransferInv(y))
           /\ \A e : /\ SetUp(y, e) <=> SetUp(x, e)
                     /\ RingInv(y, e) <=> RingInv(x, e)
                     /\ Left(y, e) <=> Left(x, e)
<1>1. /\ y.tr = x.tr /\ y.enq = x.enq /\ y.deq = x.deq /\ y.pcs = x.pcs /\ y.hdeq = x.hdeq
      /\ y.hdcs = x.hdcs /\ y.on = x.on /\ y.torn = x.torn /\ y.evdeq = x.evdeq
      /\ y.erdp = x.erdp /\ y.ccs = x.ccs /\ y.tx = x.tx /\ y.bytes = x.bytes
      /\ y.seq = x.seq /\ y.setup = x.setup
      /\ y.clean = x.clean /\ y.full = x.full /\ y.err = x.err /\ DOMAIN y = Fields
  BY PostSame
<1>2. \A e : /\ SetUp(y, e) <=> SetUp(x, e)
             /\ Linked(y, e) <=> Linked(x, e)
             /\ RingInv(y, e) <=> RingInv(x, e)
             /\ Left(y, e) <=> Left(x, e)
  BY <1>1, ZenonT(60) DEF SetUp, Linked, RingInv, Left
<1>3. Typed(y)
  <2>1. y.ev \in [EvSlots -> Events] /\ y.evenq \in EvSlots /\ y.ecs \in Bits
    BY DEF Posted
  <2>. QED  BY <1>1, <2>1 DEF Sound, Typed
<1>4. Sound(y)
  BY <1>1, <1>2, <1>3, Zenon DEF Sound
<1>5. TransferInv(x) => TransferInv(y)
  BY <1>1, <1>2, Zenon DEF TransferInv
<1>. QED  BY <1>2, <1>4, <1>5

\* An event that completes no transfer.
LEMMA PostPlain ==
    ASSUME NEW x, NEW y, NEW ev \in Events, Posted(x, y, ev), ev.type # "transfer",
           NEW host, NEW job, NEW r, Core(x, host, job, r)
    PROVE  /\ Sound(y) /\ TransferInv(y) /\ ControlInv(y) /\ BulkInv(y, job, r) /\ TrbInv(y)
<1>1. Sound(y) /\ TransferInv(y)
  BY PostShape DEF Core
<1>2. /\ y.tr = x.tr /\ y.enq = x.enq /\ y.deq = x.deq /\ y.hdeq = x.hdeq
      /\ y.on = x.on /\ y.torn = x.torn /\ y.tx = x.tx /\ y.bytes = x.bytes
      /\ y.seq = x.seq /\ y.setup = x.setup /\ y.wait = x.wait
      /\ y.clean = x.clean /\ y.full = x.full /\ y.last = x.last
  BY PostSame
<1>3. /\ \A k \in EvSlots : \A S : IsDone(y, k, S) <=> IsDone(x, k, S)
      /\ \A k \in EvSlots : \A S : IsDone(x, k, S) => y.ev[k] = x.ev[k]
  BY PostKind DEF PostedKind
<1>4. \A e : /\ SetUp(y, e) <=> SetUp(x, e)
             /\ RingInv(y, e) <=> RingInv(x, e)
             /\ Left(y, e) <=> Left(x, e)
  BY PostShape DEF Core
<1>5. ControlInv(y)
  BY <1>2, <1>3, <1>4 DEF Core, ControlInv
<1>6. Waits(y, job, r) <=> Waits(x, job, r)
  BY <1>2 DEF Waits
<1>7. BulkInv(y, job, r)
  <2>1. BulkInv(x, job, r)
    BY DEF Core
  <2>2. \A k \in EvSlots : IsDone(y, k, {"out", "in"}) <=> IsDone(x, k, {"out", "in"})
    BY <1>3
  <2>3. \A k \in EvSlots : IsDone(x, k, {"out", "in"}) => y.ev[k] = x.ev[k]
    BY <1>3
  <2>. QED  BY <1>2, <2>2, <2>3, <1>4, <1>6, <2>1 DEF BulkInv
<1>8. TrbInv(y)
  BY <1>2 DEF Core, TrbInv
<1>. QED  BY <1>1, <1>5, <1>7, <1>8

\* The steps of the controller and the host leave the driver where it is.
LEMMA FoldBeside ==
    ASSUME RestOK, pc' = pc, call' = call, ret' = ret,
           ctl' \in [req : Requests \cup {NoRequest}, seq : Nat, stage : {"open", "done"}],
           spent' \in [setups : Nat, calls : Nat, faults : Nat],
           TransferExact, m'.clean => m.clean,
           Core(m', ctl', call, Running), AnswerInv(m', ctl'), EventInv(m', pc = "events")
    PROVE  UsbInv'
<1>1. Running' = Running /\ (pc = "events")' = (pc = "events")
  BY DEF Running
<1>2. Core(m', ctl', call', Running') /\ EventInv(m', (pc = "events")')
  BY <1>1, Zenon
<1>3. RestOK'
  BY DEF RestOK
<1>4. TransferExact'
  BY DEF TransferExact
<1>. QED  BY <1>2, <1>3, <1>4, Fold

LEMMA PortArrives ==
    ASSUME UsbInv, Port
    PROVE  UsbInv'
<1>0. /\ RestOK /\ Core(m, ctl, call, Running) /\ AnswerInv(m, ctl)
      /\ EventInv(m, pc = "events") /\ TransferExact /\ Typed(m) /\ DOMAIN m = Fields
  BY Unfold DEF Typed
<1>. DEFINE ev == [NoEvent EXCEPT !.type = "port"]
<1>1. /\ Space(m) /\ PortChange /\ spent' = [spent EXCEPT !.faults = @ + 1]
      /\ pc' = pc /\ call' = call /\ ctl' = ctl /\ ret' = ret
  BY DEF Port, Fault
<1>2. PICK x : Frame(m, x, {"port", "link"}) /\ m' = Post(x, ev)
  <2>. HIDE DEF ev
  <2>1. CASE m' = Post([m EXCEPT !.port = @ \cup {"PR"}], ev)
    <3>. DEFINE x == [m EXCEPT !.port = @ \cup {"PR"}]
    <3>1. Frame(m, x, {"port", "link"})
      BY <1>0, Zenon DEF Frame
    <3>. QED  BY <2>1, <3>1
  <2>2. CASE m' = Post([m EXCEPT !.port = (@ \ {"PR"}) \cup {"PRC", "CSC"}], ev)
    <3>. DEFINE x == [m EXCEPT !.port = (@ \ {"PR"}) \cup {"PRC", "CSC"}]
    <3>1. Frame(m, x, {"port", "link"})
      BY <1>0, Zenon DEF Frame
    <3>. QED  BY <2>2, <3>1
  <2>3. CASE m' = Post([m EXCEPT !.link = IF @ = "U0" THEN "U3" ELSE "U0", !.port = @ \cup {"PLC"}], ev)
    <3>. DEFINE x == [m EXCEPT !.link = IF @ = "U0" THEN "U3" ELSE "U0", !.port = @ \cup {"PLC"}]
    <3>1. Frame(m, x, {"port", "link"})
      BY <1>0, Zenon DEF Frame
    <3>. QED  BY <2>3, <3>1
  <2>4. CASE m' = Post([m EXCEPT !.port = @ \cup {"CEC"}], ev)
    <3>. DEFINE x == [m EXCEPT !.port = @ \cup {"CEC"}]
    <3>1. Frame(m, x, {"port", "link"})
      BY <1>0, Zenon DEF Frame
    <3>. QED  BY <2>4, <3>1
  <2>. QED  BY <1>1, <2>1, <2>2, <2>3, <2>4, Zenon DEF PortChange, ev
<1>3. /\ x.ev = m.ev /\ x.evdeq = m.evdeq /\ x.evenq = m.evenq /\ x.ccs = m.ccs
      /\ x.ecs = m.ecs /\ x.erdp = m.erdp /\ x.tr = m.tr /\ x.clean = m.clean /\ x.last = m.last
      /\ x.err = m.err
  BY <1>2, Zenon DEF Frame, Fields
<1>4. Frame(m, x, SideFields)
  BY <1>2, Zenon DEF Frame, SideFields
<1>5. x.erdp \in EvSlots /\ {x.err, x.clean} \subseteq BOOLEAN
  BY <1>0, <1>3 DEF Typed
<1>6. BulkInv(x, call, Running)
  BY <1>0, <1>3, <1>4, BulkLoose DEF Core
<1>7. Core(x, ctl, call, Running) /\ AnswerInv(x, ctl)
  BY <1>0, <1>3, <1>4, <1>5, <1>6, CoreLoose
<1>8. EventInv(x, pc = "events") /\ Space(x)
  BY <1>0, <1>1, <1>3, EventSame DEF SetUp, Space
<1>9. ev \in Events /\ ev.type = "port"
  BY DEF NoEvent, Events, Bits
<1>. HIDE DEF ev
<1>10. Posted(x, m', ev) /\ EventInv(m', pc = "events")
  BY <1>2, <1>7, <1>8, <1>9, PostEffect DEF Core, Sound
<1>11. /\ Sound(m') /\ TransferInv(m') /\ ControlInv(m') /\ BulkInv(m', call, Running) /\ TrbInv(m')
  BY <1>7, <1>9, <1>10, PostPlain
<1>12. /\ m'.seq = x.seq /\ m'.setup = x.setup /\ m'.wait = x.wait /\ m'.clean = x.clean
       /\ m'.halt = x.halt /\ m'.enq = x.enq /\ m'.deq = x.deq
  BY <1>10, PostSame
<1>13. \A k \in EvSlots :
         /\ IsSetup(m', k) <=> IsSetup(x, k)
         /\ IsDone(m', k, {"ep0"}) <=> IsDone(x, k, {"ep0"})
         /\ Behind(m', k) = Behind(x, k)
         /\ IsSetup(x, k) => m'.ev[k] = x.ev[k]
         /\ IsDone(x, k, {"ep0"}) => m'.ev[k] = x.ev[k]
  BY <1>9, <1>10, PostKind DEF PostedKind
<1>14. SetupInv(m', ctl)
  BY <1>7, <1>12, <1>13 DEF Core, SetupInv
<1>15. DoneInv(m', ctl)
  BY <1>7, <1>12, <1>13 DEF Core, DoneInv
<1>16. AnswerInv(m', ctl)
  BY <1>7, <1>12 DEF AnswerInv, ControlBusy
<1>17. Core(m', ctl', call, Running) /\ AnswerInv(m', ctl')
  BY <1>1, <1>11, <1>14, <1>15, <1>16, Zenon DEF Core
<1>18. spent' \in [setups : Nat, calls : Nat, faults : Nat]
  BY <1>0, <1>1 DEF RestOK
<1>. QED  BY <1>0, <1>1, <1>3, <1>10, <1>12, <1>17, <1>18, FoldBeside DEF RestOK

LEMMA RequestArrives ==
    ASSUME UsbInv, NEW q \in Requests, Setup(q)
    PROVE  UsbInv'
<1>0. /\ RestOK /\ Core(m, ctl, call, Running) /\ AnswerInv(m, ctl)
      /\ EventInv(m, pc = "events") /\ TransferExact /\ Typed(m) /\ ctl.seq \in Nat
  BY Unfold
<1>. DEFINE ev == [NoEvent EXCEPT !.type = "setup", !.req = q, !.seq = ctl.seq + 1]
            n == m.evenq
<1>1. /\ Space(m) /\ spent' = [spent EXCEPT !.setups = @ + 1] /\ m' = Post(m, ev)
      /\ pc' = pc /\ call' = call /\ ret' = ret
      /\ ctl' = [req |-> q, seq |-> ctl.seq + 1, stage |-> "open"]
  BY DEF Setup
<1>2. ev \in Events /\ ev.type = "setup" /\ ev.req = q /\ ev.seq = ctl.seq + 1
  <2>1. NoEvent \in Events
    BY DEF NoEvent, Events, Bits
  <2>2. ctl.seq + 1 \in Nat
    BY <1>0
  <2>. QED  BY <2>1, <2>2 DEF Events
<1>. HIDE DEF ev
<1>3. Posted(m, m', ev) /\ EventInv(m', pc = "events")
  BY <1>0, <1>1, <1>2, PostEffect
<1>4. /\ Sound(m') /\ TransferInv(m') /\ ControlInv(m') /\ BulkInv(m', call, Running) /\ TrbInv(m')
  BY <1>0, <1>2, <1>3, PostPlain
<1>5. /\ m'.seq = m.seq /\ m'.setup = m.setup /\ m'.wait = m.wait /\ m'.clean = m.clean
  BY <1>3, PostSame
<1>6. /\ n \in EvSlots /\ m'.ev[n].req = q /\ m'.ev[n].seq = ctl.seq + 1
      /\ \A k \in EvSlots :
            /\ IsSetup(m', k) <=> IsSetup(m, k) \/ k = n
            /\ IsDone(m', k, {"ep0"}) <=> IsDone(m, k, {"ep0"})
            /\ Behind(m', k) = Behind(m, k)
            /\ IsSetup(m, k) => k # n /\ m'.ev[k] = m.ev[k] /\ Behind(m', k) < Behind(m', n)
            /\ IsDone(m, k, {"ep0"}) => m'.ev[k] = m.ev[k] /\ Behind(m', k) < Behind(m', n)
  BY <1>2, <1>3, PostKind DEF PostedKind
<1>7. ctl'.seq = ctl.seq + 1 /\ ctl'.stage = "open" /\ ctl'.req = q
  BY <1>1
<1>8. /\ m.seq <= ctl.seq /\ m.seq \in Nat
      /\ \A k \in EvSlots : IsSetup(m, k) =>
            /\ m.ev[k].seq \in Nat /\ m.seq < m.ev[k].seq /\ m.ev[k].seq <= ctl.seq
            /\ \A j \in EvSlots : IsSetup(m, j) /\ Behind(m, j) < Behind(m, k) =>
                  m.ev[j].seq < m.ev[k].seq
            /\ \A j \in EvSlots : IsDone(m, j, {"ep0"}) /\ m.ev[j].code # "seq" =>
                  Behind(m, j) < Behind(m, k)
  <2>1. \A k \in EvSlots : m.ev[k].seq \in Nat
    BY <1>0 DEF Typed, Events
  <2>2. m.seq \in Nat
    BY <1>0 DEF Typed
  <2>. QED  BY <1>0, <2>1, <2>2 DEF Core, SetupInv
<1>9. \A k \in EvSlots : Behind(m, k) \in Int
  BY <1>0, XusbfAssumption DEF Typed, Behind, EvSlots
<1>. HIDE DEF n
<1>10. SetupInv(m', ctl')
  <2>1. /\ m'.seq <= ctl'.seq /\ (ctl'.stage = "open" => ctl'.req \in Requests)
        /\ m'.seq # ctl'.seq
    BY <1>0, <1>5, <1>7, <1>8
  <2>2. IsSetup(m', n) /\ m'.ev[n].seq = ctl'.seq
    BY <1>6, <1>7
  <2>3. ASSUME NEW k \in EvSlots, IsSetup(m', k)
        PROVE  /\ m'.seq < m'.ev[k].seq /\ m'.ev[k].seq <= ctl'.seq
               /\ m'.ev[k].seq = ctl'.seq => m'.ev[k].req = ctl'.req
               /\ \A j \in EvSlots : IsSetup(m', j) /\ Behind(m', j) < Behind(m', k) =>
                     m'.ev[j].seq < m'.ev[k].seq
               /\ \A j \in EvSlots : IsDone(m', j, {"ep0"}) /\ m'.ev[j].code # "seq" =>
                     Behind(m', j) < Behind(m', k)
    <3>1. CASE k = n
      <4>1. \A j \in EvSlots : IsSetup(m', j) /\ Behind(m', j) < Behind(m', n) => IsSetup(m, j)
        BY <1>6, <1>9
      <4>. QED  BY <1>0, <1>5, <1>6, <1>7, <1>8, <3>1, <4>1
    <3>2. CASE k # n
      <4>1. IsSetup(m, k) /\ m'.ev[k] = m.ev[k] /\ Behind(m', k) < Behind(m', n)
        BY <1>6, <2>3, <3>2
      <4>2. \A j \in EvSlots : IsSetup(m', j) /\ Behind(m', j) < Behind(m', k) => IsSetup(m, j)
        BY <1>6, <1>9, <4>1
      <4>. QED  BY <1>0, <1>5, <1>6, <1>7, <1>8, <4>1, <4>2
    <3>. QED  BY <3>1, <3>2
  <2>. QED  BY <2>1, <2>2, <2>3, <1>6 DEF SetupInv
<1>11. m'.seq # ctl'.seq
  BY <1>0, <1>5, <1>7, <1>8
<1>12. DoneInv(m', ctl')
  BY <1>0, <1>5, <1>6, <1>11 DEF Core, DoneInv
<1>13. AnswerInv(m', ctl')
  BY <1>11 DEF AnswerInv
<1>14. Core(m', ctl', call, Running)
  BY <1>4, <1>10, <1>12, Zenon DEF Core
<1>15. /\ spent' \in [setups : Nat, calls : Nat, faults : Nat]
       /\ ctl' \in [req : Requests \cup {NoRequest}, seq : Nat, stage : {"open", "done"}]
  BY <1>0, <1>1 DEF RestOK
<1>. QED  BY <1>0, <1>1, <1>3, <1>5, <1>13, <1>14, <1>15, FoldBeside

LEMMA StallSeen ==
    ASSUME UsbInv, Stalled
    PROVE  UsbInv'
<1>0. /\ RestOK /\ Core(m, ctl, call, Running) /\ AnswerInv(m, ctl)
      /\ EventInv(m, pc = "events") /\ TransferExact
  BY Unfold
<1>1. /\ m' = m /\ spent' = spent /\ pc' = pc /\ call' = call /\ ret' = ret
      /\ ctl' = [ctl EXCEPT !.stage = "done"]
  BY DEF Stalled
<1>2. /\ ctl'.seq = ctl.seq /\ ctl'.req = ctl.req /\ ctl'.stage = "done"
      /\ ctl' \in [req : Requests \cup {NoRequest}, seq : Nat, stage : {"open", "done"}]
  BY <1>0, <1>1 DEF RestOK
<1>3. SetupInv(m, ctl')
  BY <1>0, <1>2 DEF Core, SetupInv
<1>4. DoneInv(m, ctl') /\ AnswerInv(m, ctl')
  BY <1>0, <1>2 DEF Core, DoneInv, AnswerInv
<1>5. Core(m', ctl', call, Running) /\ AnswerInv(m', ctl') /\ EventInv(m', pc = "events")
  BY <1>0, <1>1, <1>3, <1>4, Zenon DEF Core
<1>6. spent' \in [setups : Nat, calls : Nat, faults : Nat]
  BY <1>0, <1>1 DEF RestOK
<1>. QED  BY <1>0, <1>1, <1>2, <1>4, <1>5, <1>6, FoldBeside

\* The controller is done with a TRB.
Completed(x, y, e, ev) ==
    /\ Frame(x, y, {"tr", "hdeq", "hdcs", "ev", "evenq", "ecs", "ip", "ehb"}) /\ Sound(y)
    /\ \A f \in Eps \ {e} : SameRing(x, y, f)
    /\ y.hdeq[e] = After(x.hdeq[e])
    /\ RingInv(x, e) /\ x.hdeq[e] # x.enq[e] => RingInv(y, e)
    /\ PostedKind(x, y, ev)
Reported(x, y, e, code, rem, moved) ==
    \E ev \in Events :
       /\ Completed(x, y, e, ev)
       /\ ev.type = "transfer" /\ ev.ep = e /\ ev.code = code /\ ev.rem = rem
       /\ ev.id = x.tr[e][x.hdeq[e]].id /\ ev.moved = moved

LEMMA CompleteEffect ==
    ASSUME NEW x, Sound(x), NEW h \in BOOLEAN, EventInv(x, h), Space(x), NEW e \in Eps, e \in x.on,
           NEW code \in {"ok", "seq", "dir", "error"}, NEW rem \in Int, NEW moved \in Nat,
           NEW y, y = Complete(x, e, code, rem, moved)
    PROVE  EventInv(y, h) /\ Reported(x, y, e, code, rem, moved)
<1>. DEFINE id == x.tr[e][x.hdeq[e]].id
            z == Consume(x, e)
            ev == [NoEvent EXCEPT !.type = "transfer", !.ep = e, !.code = code, !.rem = rem,
                                  !.id = id, !.moved = moved]
<1>1. id \in Nat
  <2>1. x.hdeq[e] \in Slots /\ x.tr[e] \in [Slots -> Trbs]
    BY SlotLemma, PlaceLemma DEF Sound, Typed
  <2>. QED  BY <2>1 DEF Trbs
<1>2. y = Post(z, ev)
  BY DEF Complete
<1>. HIDE DEF id, z
<1>3. /\ ev \in Events /\ ev.type = "transfer" /\ ev.ep = e /\ ev.code = code /\ ev.rem = rem
      /\ ev.id = id /\ ev.moved = moved
  <2>1. NoEvent \in Events
    BY DEF NoEvent, Events, Bits
  <2>. QED  BY <1>1, <2>1 DEF Events
<1>. HIDE DEF ev
<1>4. Sound(z) /\ Consumed(x, z, e)
  BY ConsumeEffect DEF z
<1>5. /\ z.ev = x.ev /\ z.evdeq = x.evdeq /\ z.evenq = x.evenq /\ z.ccs = x.ccs /\ z.ecs = x.ecs
      /\ z.erdp = x.erdp /\ z.enq = x.enq /\ z.pcs = x.pcs /\ z.deq = x.deq
  BY <1>4, Zenon DEF Consumed, Frame, Fields
<1>6. \A f \in Eps : SetUp(x, f) => SetUp(z, f)
  <2>1. SetUp(z, e)
    <3>1. z.on = x.on
      BY <1>4, Zenon DEF Consumed, Frame, Fields
    <3>. QED  BY <1>4, <3>1 DEF Sound
  <2>2. \A f \in Eps \ {e} : SetUp(x, f) => SetUp(z, f)
    BY <1>4 DEF Consumed, SameRing, SetUp
  <2>. QED  BY <2>1, <2>2
<1>7. EventInv(z, h) /\ Space(z) /\ SetUp(z, e)
  <2>1. EventInv(z, h)
    BY <1>5, <1>6, EventSame
  <2>2. Space(z)
    BY <1>5 DEF Space
  <2>3. SetUp(x, e)
    BY DEF Sound
  <2>. QED  BY <1>6, <2>1, <2>2, <2>3
<1>8. Posted(z, y, ev) /\ EventInv(y, h)
  BY <1>2, <1>3, <1>4, <1>7, PostEffect DEF Sound
<1>9. /\ y.tr = z.tr /\ y.enq = z.enq /\ y.deq = z.deq /\ y.pcs = z.pcs /\ y.hdeq = z.hdeq
      /\ y.hdcs = z.hdcs
  BY <1>8, PostSame
<1>10. Sound(y) /\ (RingInv(z, e) => RingInv(y, e))
  BY <1>4, <1>8, PostShape
<1>11. Frame(x, y, {"tr", "hdeq", "hdcs", "ev", "evenq", "ecs", "ip", "ehb"})
  BY <1>4, <1>8, Zenon DEF Consumed, Posted, Frame
<1>12. PostedKind(x, y, ev)
  <2>1. PostedKind(z, y, ev)
    BY <1>3, <1>8, PostKind
  <2>2. \A k : /\ Pending(z, k) <=> Pending(x, k)
               /\ IsSetup(z, k) <=> IsSetup(x, k)
               /\ \A S : IsDone(z, k, S) <=> IsDone(x, k, S)
               /\ Behind(z, k) = Behind(x, k)
    BY <1>5, Zenon DEF Pending, IsSetup, IsDone, Behind
  <2>. QED  BY <1>5, <2>1, <2>2, ZenonT(60) DEF PostedKind
<1>13. Completed(x, y, e, ev)
  <2>1. \A f \in Eps \ {e} : SameRing(x, y, f)
    BY <1>4, <1>9 DEF Consumed, SameRing
  <2>2. y.hdeq[e] = After(x.hdeq[e])
    BY <1>4, <1>9 DEF Consumed
  <2>3. RingInv(x, e) /\ x.hdeq[e] # x.enq[e] => RingInv(y, e)
    BY <1>4, <1>10 DEF Consumed
  <2>. QED  BY <1>10, <1>11, <1>12, <2>1, <2>2, <2>3 DEF Completed
<1>. QED  BY <1>3, <1>8, <1>13 DEF id, Reported

LEMMA CompleteSame ==
    ASSUME NEW x, Sound(x), NEW e, NEW ev, NEW y, Completed(x, y, e, ev)
    PROVE  /\ y.enq = x.enq /\ y.deq = x.deq /\ y.pcs = x.pcs /\ y.on = x.on /\ y.torn = x.torn
           /\ y.tx = x.tx /\ y.bytes = x.bytes /\ y.last = x.last
           /\ y.seq = x.seq /\ y.setup = x.setup /\ y.wait = x.wait /\ y.halt = x.halt
           /\ y.clean = x.clean /\ y.full = x.full
           /\ \A f \in Eps \ {e} : /\ SetUp(y, f) <=> SetUp(x, f)
                                   /\ RingInv(y, f) <=> RingInv(x, f)
                                   /\ Left(y, f) <=> Left(x, f)
                                   /\ y.tr[f] = x.tr[f] /\ y.hdeq[f] = x.hdeq[f]
<1>1. Frame(x, y, {"tr", "hdeq", "hdcs", "ev", "evenq", "ecs", "ip", "ehb"})
  BY DEF Completed
<1>2. /\ y.enq = x.enq /\ y.deq = x.deq /\ y.pcs = x.pcs /\ y.on = x.on /\ y.torn = x.torn
      /\ y.tx = x.tx /\ y.bytes = x.bytes /\ y.last = x.last
      /\ y.seq = x.seq /\ y.setup = x.setup /\ y.wait = x.wait /\ y.halt = x.halt
      /\ y.clean = x.clean /\ y.full = x.full
  BY <1>1, Zenon DEF Frame, Fields
<1>3. \A f \in Eps \ {e} : /\ y.tr[f] = x.tr[f] /\ y.enq[f] = x.enq[f] /\ y.pcs[f] = x.pcs[f]
                           /\ y.hdeq[f] = x.hdeq[f] /\ y.hdcs[f] = x.hdcs[f]
  BY DEF Completed, SameRing
<1>4. \A f \in Eps \ {e} : /\ SetUp(y, f) <=> SetUp(x, f)
                           /\ RingInv(y, f) <=> RingInv(x, f)
                           /\ Left(y, f) <=> Left(x, f)
  BY <1>3, Zenon DEF SetUp, RingInv, Left
<1>. QED  BY <1>2, <1>3, <1>4

LEMMA CompleteTransfer ==
    ASSUME NEW x, Sound(x), TransferInv(x), NEW e \in Eps, Ready(x, e), NEW ev, NEW y, Completed(x, y, e, ev)
    PROVE  TransferInv(y)
<1>1. /\ y.on = x.on /\ y.torn = x.torn /\ y.full = x.full
      /\ \A f \in Eps \ {e} : RingInv(y, f) <=> RingInv(x, f)
  BY CompleteSame
<1>2. Sound(y) /\ y.on \subseteq Eps
  BY DEF Completed, Sound, Typed
<1>3. ASSUME RingInv(x, e) PROVE RingInv(y, e)
  <2>1. x.hdeq[e] # x.enq[e]
    BY <1>3, ReadyLemma DEF Sound
  <2>. QED  BY <1>3, <2>1 DEF Completed
<1>4. ~y.full => \A f \in y.on \ y.torn : RingInv(y, f)
  BY <1>1, <1>2, <1>3 DEF TransferInv
<1>. QED  BY <1>2, <1>4 DEF TransferInv, Sound

\* The TRB on ep0 was the only one out, and it is for the request of the host or refused.
LEMMA ControlCompleted ==
    ASSUME NEW x, NEW host, host.seq \in Nat, NEW job, NEW r, Core(x, host, job, r), Ready(x, "ep0"),
           NEW ev \in Events, NEW y, Completed(x, y, "ep0", ev), ev.type = "transfer", ev.ep = "ep0",
           NEW host2, host2.seq = host.seq, host2.req = host.req,
           host2.stage = "open" => host.stage = "open",
           LET t == x.tr["ep0"][x.hdeq["ep0"]]
           IN  \/ ev.code = "seq"
               \/ ev.code = "dir" /\ t.seq = host.seq /\ t.type = "status" /\ t.dir # StatusDir(host.req)
               \/ ev.code = "ok" /\ t.seq = host.seq /\ (t.type = "status" => host2.stage = "done")
    PROVE  Core(y, host2, job, r) /\ AnswerInv(y, host2)
<1>. DEFINE t == x.tr["ep0"][x.hdeq["ep0"]]
            n == x.evenq
<1>0. /\ Sound(x) /\ TransferInv(x) /\ ControlInv(x) /\ BulkInv(x, job, r) /\ SetupInv(x, host)
      /\ TrbInv(x) /\ DoneInv(x, host) /\ "ep0" \in Eps
  BY DEF Core, Eps
<1>1. x.hdeq["ep0"] # x.enq["ep0"]
  BY <1>0, ReadyLemma DEF Sound, ControlInv
<1>2. /\ x.hdeq["ep0"] = x.deq["ep0"] /\ x.enq["ep0"] = After(x.deq["ep0"])
      /\ \A k \in EvSlots : ~IsDone(x, k, {"ep0"})
  BY <1>0, <1>1 DEF ControlInv
<1>3. /\ y.enq = x.enq /\ y.deq = x.deq /\ y.pcs = x.pcs /\ y.on = x.on /\ y.torn = x.torn
      /\ y.tx = x.tx /\ y.bytes = x.bytes /\ y.last = x.last
      /\ y.seq = x.seq /\ y.setup = x.setup /\ y.wait = x.wait /\ y.halt = x.halt
      /\ y.clean = x.clean /\ y.full = x.full
  BY <1>0, CompleteSame
<1>4. /\ y.hdeq["ep0"] = y.enq["ep0"] /\ RingInv(y, "ep0") /\ Sound(y)
  BY <1>0, <1>1, <1>2, <1>3 DEF Completed, ControlInv
<1>5. y.enq["ep0"] # y.deq["ep0"]
  <2>1. x.deq["ep0"] \in Places
    BY <1>0 DEF Sound, Typed
  <2>. QED  BY <1>2, <1>3, <2>1, PlaceLemma
<1>6. /\ n \in EvSlots /\ y.ev[n].code = ev.code
      /\ \A k \in EvSlots :
            /\ IsSetup(y, k) <=> IsSetup(x, k)
            /\ IsDone(y, k, {"ep0"}) <=> k = n
            /\ IsDone(y, k, {"out", "in"}) <=> IsDone(x, k, {"out", "in"})
            /\ Behind(y, k) = Behind(x, k)
            /\ IsSetup(x, k) => y.ev[k] = x.ev[k]
            /\ IsDone(x, k, {"out", "in"}) => y.ev[k] = x.ev[k]
  <2>1. PostedKind(x, y, ev)
    BY DEF Completed
  <2>2. /\ n \in EvSlots /\ y.ev[n].code = ev.code
        /\ \A k \in EvSlots :
            /\ IsSetup(y, k) <=> IsSetup(x, k)
            /\ Behind(y, k) = Behind(x, k)
            /\ IsSetup(x, k) => y.ev[k] = x.ev[k]
    BY <2>1 DEF PostedKind
  <2>3. \A k \in EvSlots : IsDone(y, k, {"ep0"}) <=> k = n
    BY <1>2, <2>1 DEF PostedKind
  <2>4. \A k \in EvSlots :
            /\ IsDone(y, k, {"out", "in"}) <=> IsDone(x, k, {"out", "in"})
            /\ IsDone(x, k, {"out", "in"}) => y.ev[k] = x.ev[k]
    BY <2>1 DEF PostedKind
  <2>. QED  BY <2>2, <2>3, <2>4
<1>7. TransferInv(y)
  BY <1>0, CompleteTransfer
<1>8. ControlInv(y)
  BY <1>0, <1>2, <1>3, <1>4, <1>5, <1>6 DEF ControlInv
<1>9. BulkInv(y, job, r)
  <2>1. \A f \in {"out", "in"} : /\ SetUp(y, f) <=> SetUp(x, f)
                                 /\ RingInv(y, f) <=> RingInv(x, f)
                                 /\ Left(y, f) <=> Left(x, f)
                                 /\ y.tr[f] = x.tr[f] /\ y.hdeq[f] = x.hdeq[f]
    <3>1. \A f \in {"out", "in"} : f \in Eps \ {"ep0"}
      BY DEF Eps
    <3>. QED  BY <1>0, <3>1, CompleteSame
  <2>2. Waits(y, job, r) <=> Waits(x, job, r)
    BY <1>3 DEF Waits
  <2>3. /\ \A k \in EvSlots : IsDone(y, k, {"out", "in"}) <=> IsDone(x, k, {"out", "in"})
        /\ \A k \in EvSlots : IsDone(x, k, {"out", "in"}) => y.ev[k] = x.ev[k]
    BY <1>6
  <2>4. /\ y.clean = x.clean /\ y.full = x.full /\ y.torn = x.torn /\ y.enq = x.enq
        /\ y.tx = x.tx /\ y.bytes = x.bytes /\ y.last = x.last
    BY <1>3
  <2>5. BulkInv(x, job, r)
    BY <1>0
  <2>. SUFFICES ASSUME y.clean PROVE BulkInv(y, job, r)
    BY <2>5 DEF BulkInv
  <2>6. ~y.full /\ y.torn = {} /\ x.clean /\ (r => job.name # "none")
    BY <2>4, <2>5 DEF BulkInv
  <2>7. \A f \in {"out", "in"} :
           /\ SetUp(y, f) => RingInv(y, f) /\ y.enq[f] \in {y.hdeq[f], After(y.hdeq[f])}
           /\ Left(y, f) =>
                 /\ Waits(y, job, r) /\ job.name = f /\ y.tr[f][y.hdeq[f]].id = job.id
                 /\ \A k \in EvSlots : ~IsDone(y, k, {"out", "in"})
    <3>. SUFFICES ASSUME NEW f \in {"out", "in"}
                  PROVE  /\ SetUp(y, f) => RingInv(y, f) /\ y.enq[f] \in {y.hdeq[f], After(y.hdeq[f])}
                         /\ Left(y, f) =>
                              /\ Waits(y, job, r) /\ job.name = f /\ y.tr[f][y.hdeq[f]].id = job.id
                              /\ \A k \in EvSlots : ~IsDone(y, k, {"out", "in"})
      OBVIOUS
    <3>1. /\ SetUp(x, f) => RingInv(x, f) /\ x.enq[f] \in {x.hdeq[f], After(x.hdeq[f])}
          /\ Left(x, f) =>
                /\ Waits(x, job, r) /\ job.name = f /\ x.tr[f][x.hdeq[f]].id = job.id
                /\ \A k \in EvSlots : ~IsDone(x, k, {"out", "in"})
      BY <2>5, <2>6 DEF BulkInv
    <3>2. /\ SetUp(y, f) <=> SetUp(x, f)
          /\ RingInv(y, f) <=> RingInv(x, f)
          /\ Left(y, f) <=> Left(x, f)
          /\ y.tr[f] = x.tr[f] /\ y.hdeq[f] = x.hdeq[f] /\ y.enq[f] = x.enq[f]
      BY <2>1, <2>4
    <3>. QED  BY <2>2, <2>3, <3>1, <3>2, ZenonT(60)
  <2>8. \A k \in EvSlots : IsDone(y, k, {"out", "in"}) =>
              /\ Waits(y, job, r) /\ y.ev[k].ep = job.name /\ y.ev[k].id = job.id
              /\ y.ev[k].code = "ok" => y.ev[k].rem = Length - y.ev[k].moved
              /\ \A j \in EvSlots : IsDone(y, j, {"out", "in"}) => j = k
    <3>1. \A k \in EvSlots : IsDone(x, k, {"out", "in"}) =>
              /\ Waits(x, job, r) /\ x.ev[k].ep = job.name /\ x.ev[k].id = job.id
              /\ x.ev[k].code = "ok" => x.ev[k].rem = Length - x.ev[k].moved
              /\ \A j \in EvSlots : IsDone(x, j, {"out", "in"}) => j = k
      BY <2>5, <2>6, ZenonT(60) DEF BulkInv
    <3>. QED  BY <2>2, <2>3, <3>1, ZenonT(60)
  <2>9. r /\ job.name \in {"out", "in"} /\ y.tx = 0 =>
              y.last = [ep |-> job.name, id |-> job.id, moved |-> y.bytes]
    BY <2>4, <2>5, <2>6 DEF BulkInv
  <2>. QED  BY <2>6, <2>7, <2>8, <2>9, Zenon DEF BulkInv
<1>10. TrbInv(y)
  BY <1>4 DEF TrbInv
<1>. DEFINE s == t.seq
<1>11. /\ s <= x.seq /\ x.seq <= host.seq /\ x.seq \in Nat /\ s \in Nat
       /\ x.seq = host.seq => x.setup = host.req
  <2>1. s <= x.seq
    BY <1>0, <1>1 DEF TrbInv
  <2>2. x.hdeq["ep0"] \in Slots /\ x.tr["ep0"] \in [Slots -> Trbs]
    BY <1>0, SlotLemma, PlaceLemma DEF Sound, Typed
  <2>3. s \in Nat
    BY <2>2 DEF Trbs
  <2>4. x.seq \in Nat
    BY <1>0 DEF Sound, Typed
  <2>. QED  BY <1>0, <2>1, <2>3, <2>4 DEF SetupInv
<1>12. x.clean /\ s = x.seq => 
          /\ t.type = x.wait
          /\ \/ t.type = "data" /\ x.setup.kind \in {"get", "sel"}
             \/ t.type = "status" /\ (t.dir = StatusDir(x.setup) \/ x.setup.kind = "sel")
  BY <1>0, <1>1 DEF TrbInv
<1>13. \/ ev.code = "seq"
       \/ ev.code = "dir" /\ s = host.seq /\ t.type = "status" /\ t.dir # StatusDir(host.req)
       \/ ev.code = "ok" /\ s = host.seq /\ (t.type = "status" => host2.stage = "done")
  OBVIOUS
<1>. HIDE DEF t, s, n
<1>14. ev.code # "seq" => s = x.seq /\ x.seq = host.seq
  BY <1>11, <1>13
<1>15. ASSUME ev.code # "seq", NEW k \in EvSlots, IsSetup(x, k) PROVE FALSE
  <2>1. x.seq < x.ev[k].seq /\ x.ev[k].seq <= host.seq
    BY <1>0, <1>15 DEF SetupInv
  <2>2. x.ev[k].seq \in Nat
    BY <1>0 DEF Sound, Typed, Events
  <2>. QED  BY <1>11, <1>14, <1>15, <2>1, <2>2
<1>16. SetupInv(y, host2)
  <2>1. \A k \in EvSlots : IsSetup(y, k) =>
          \A j \in EvSlots : IsDone(y, j, {"ep0"}) /\ y.ev[j].code # "seq" =>
                Behind(y, j) < Behind(y, k)
    BY <1>6, <1>15
  <2>2. \A k \in EvSlots : IsSetup(y, k) =>
          /\ y.seq < y.ev[k].seq /\ y.ev[k].seq <= host2.seq
          /\ y.ev[k].seq = host2.seq => y.ev[k].req = host2.req
          /\ \A j \in EvSlots : IsSetup(y, j) /\ Behind(y, j) < Behind(y, k) =>
                y.ev[j].seq < y.ev[k].seq
    BY <1>0, <1>3, <1>6 DEF SetupInv
  <2>3. /\ y.seq <= host2.seq /\ (host2.stage = "open" => host2.req \in Requests)
        /\ y.seq = host2.seq => y.setup = host2.req
        /\ y.seq # host2.seq => \E k \in EvSlots : IsSetup(y, k) /\ y.ev[k].seq = host2.seq
    BY <1>0, <1>3, <1>6 DEF SetupInv
  <2>. QED  BY <2>1, <2>2, <2>3 DEF SetupInv
<1>17. DoneInv(y, host2)
  BY <1>3, <1>6, <1>11, <1>12, <1>13, <1>14 DEF DoneInv
<1>18. AnswerInv(y, host2)
  BY <1>5 DEF AnswerInv, ControlBusy
<1>. QED  BY <1>4, <1>7, <1>8, <1>9, <1>10, <1>16, <1>17, <1>18 DEF Core

LEMMA ControlCompletes ==
    ASSUME UsbInv, ControlStage
    PROVE  UsbInv'
<1>0. /\ RestOK /\ Core(m, ctl, call, Running) /\ AnswerInv(m, ctl) /\ Sound(m)
      /\ EventInv(m, pc = "events") /\ TransferExact /\ ctl.seq \in Nat
  BY Unfold
<1>. DEFINE t == m.tr["ep0"][m.hdeq["ep0"]]
<1>1. /\ Space(m) /\ Ready(m, "ep0") /\ "ep0" \in m.on /\ "ep0" \in Eps
      /\ pc' = pc /\ call' = call /\ ret' = ret /\ spent' = spent
      /\ IF t.seq # ctl.seq \/ ctl.stage = "done" THEN m' = Complete(m, "ep0", "seq", 0, 0) /\ ctl' = ctl
         ELSE IF t.type = "status" /\ t.dir # StatusDir(ctl.req)
         THEN m' = Complete(m, "ep0", "dir", 0, 0) /\ ctl' = ctl
         ELSE /\ m' = Complete(m, "ep0", "ok", 0, 0)
              /\ ctl' = [ctl EXCEPT !.stage = IF t.type = "status" THEN "done" ELSE @]
  BY DEF ControlStage, Ready, Eps
<1>. HIDE DEF t
<1>2. PICK code \in {"ok", "seq", "dir"} :
         /\ m' = Complete(m, "ep0", code, 0, 0)
         /\ \/ code = "seq"
            \/ code = "dir" /\ t.seq = ctl.seq /\ t.type = "status" /\ t.dir # StatusDir(ctl.req)
            \/ code = "ok" /\ t.seq = ctl.seq /\ (t.type = "status" => ctl'.stage = "done")
  <2>1. ctl' = [ctl EXCEPT !.stage = IF t.type = "status" THEN "done" ELSE @] =>
          (t.type = "status" => ctl'.stage = "done")
    BY <1>0 DEF RestOK
  <2>. QED  BY <1>1, <2>1, Zenon
<1>3. /\ ctl'.seq = ctl.seq /\ ctl'.req = ctl.req /\ (ctl'.stage = "open" => ctl.stage = "open")
      /\ ctl' \in [req : Requests \cup {NoRequest}, seq : Nat, stage : {"open", "done"}]
  <2>1. ctl' = ctl \/ ctl' = [ctl EXCEPT !.stage = "done"]
    <3>1. ctl = [ctl EXCEPT !.stage = @]
      BY <1>0 DEF RestOK
    <3>. QED  BY <1>1, <3>1
  <2>. QED  BY <1>0, <2>1 DEF RestOK
<1>4. EventInv(m', pc = "events") /\ Reported(m, m', "ep0", code, 0, 0)
  <2>1. /\ (pc = "events") \in BOOLEAN /\ code \in {"ok", "seq", "dir", "error"}
        /\ 0 \in Int /\ 0 \in Nat
    OBVIOUS
  <2>2. Space(m) /\ "ep0" \in m.on /\ "ep0" \in Eps /\ m' = Complete(m, "ep0", code, 0, 0)
    BY <1>1, <1>2
  <2>. QED  BY <1>0, <2>1, <2>2, CompleteEffect, Zenon
<1>5. PICK ev \in Events : /\ Completed(m, m', "ep0", ev)
                           /\ ev.type = "transfer" /\ ev.ep = "ep0" /\ ev.code = code
  BY <1>4 DEF Reported
<1>6. Core(m', ctl', call, Running) /\ AnswerInv(m', ctl')
  <2>1. \/ ev.code = "seq"
        \/ ev.code = "dir" /\ t.seq = ctl.seq /\ t.type = "status" /\ t.dir # StatusDir(ctl.req)
        \/ ev.code = "ok" /\ t.seq = ctl.seq /\ (t.type = "status" => ctl'.stage = "done")
    BY <1>2, <1>5
  <2>2. Ready(m, "ep0")
    BY <1>1
  <2>. QED  BY <1>0, <1>3, <1>5, <2>1, <2>2, ControlCompleted, ZenonT(60) DEF t
<1>7. m'.clean => m.clean
  BY <1>0, <1>5, CompleteSame
<1>. QED  BY <1>0, <1>1, <1>3, <1>4, <1>6, <1>7, FoldBeside DEF RestOK

\* The TRB of a bulk endpoint was that of the call in progress.
LEMMA BulkCompleted ==
    ASSUME NEW x, NEW host, NEW job, NEW r, Core(x, host, job, r), AnswerInv(x, host),
           NEW e \in {"out", "in"}, Ready(x, e),
           NEW ev \in Events, NEW y, Completed(x, y, e, ev), ev.type = "transfer", ev.ep = e,
           ev.id = x.tr[e][x.hdeq[e]].id, ev.code = "ok" => ev.rem = Length - ev.moved
    PROVE  Core(y, host, job, r) /\ AnswerInv(y, host)
<1>. DEFINE n == x.evenq
            f == IF e = "out" THEN "in" ELSE "out"
<1>0. /\ Sound(x) /\ TransferInv(x) /\ ControlInv(x) /\ BulkInv(x, job, r) /\ SetupInv(x, host)
      /\ TrbInv(x) /\ DoneInv(x, host) /\ "ep0" \in Eps /\ e \in Eps /\ "ep0" # e
      /\ f \in Eps /\ f # e /\ f \in {"out", "in"} /\ \A g \in {"out", "in"} : g = e \/ g = f
  BY DEF Core, Eps
<1>. HIDE DEF f
<1>1. /\ y.enq = x.enq /\ y.deq = x.deq /\ y.pcs = x.pcs /\ y.on = x.on /\ y.torn = x.torn
      /\ y.tx = x.tx /\ y.bytes = x.bytes /\ y.last = x.last
      /\ y.seq = x.seq /\ y.setup = x.setup /\ y.wait = x.wait /\ y.halt = x.halt
      /\ y.clean = x.clean /\ y.full = x.full
      /\ \A g \in Eps \ {e} : /\ SetUp(y, g) <=> SetUp(x, g)
                              /\ RingInv(y, g) <=> RingInv(x, g)
                              /\ Left(y, g) <=> Left(x, g)
                              /\ y.tr[g] = x.tr[g] /\ y.hdeq[g] = x.hdeq[g]
  <2>1. /\ y.enq = x.enq /\ y.deq = x.deq /\ y.pcs = x.pcs /\ y.on = x.on /\ y.torn = x.torn
        /\ y.tx = x.tx /\ y.bytes = x.bytes /\ y.last = x.last
        /\ y.seq = x.seq /\ y.setup = x.setup /\ y.wait = x.wait /\ y.halt = x.halt
        /\ y.clean = x.clean /\ y.full = x.full
    BY <1>0, CompleteSame
  <2>2. \A g \in Eps \ {e} : /\ SetUp(y, g) <=> SetUp(x, g)
                             /\ RingInv(y, g) <=> RingInv(x, g)
                             /\ Left(y, g) <=> Left(x, g)
                             /\ y.tr[g] = x.tr[g] /\ y.hdeq[g] = x.hdeq[g]
    <3>1. Sound(x)
      BY <1>0
    <3>. QED  BY <3>1, CompleteSame, SMTT(60)
  <2>. QED  BY <2>1, <2>2, ZenonT(60)
<1>2. Sound(y) /\ TransferInv(y)
  BY <1>0, CompleteTransfer DEF Completed
<1>3. PostedKind(x, y, ev)
  BY DEF Completed
<1>4. /\ n \in EvSlots /\ y.ev[n].code = ev.code /\ y.ev[n].ep = e /\ y.ev[n].id = ev.id
      /\ y.ev[n].rem = ev.rem /\ y.ev[n].moved = ev.moved
      /\ \A k \in EvSlots :
            /\ IsSetup(y, k) <=> IsSetup(x, k)
            /\ Behind(y, k) = Behind(x, k)
            /\ IsSetup(x, k) => y.ev[k] = x.ev[k]
  BY <1>3 DEF PostedKind
<1>5. \A k \in EvSlots :
            /\ IsDone(y, k, {"ep0"}) <=> IsDone(x, k, {"ep0"})
            /\ IsDone(x, k, {"ep0"}) => y.ev[k] = x.ev[k]
  BY <1>0, <1>3 DEF PostedKind
<1>6. \A k \in EvSlots :
            /\ IsDone(y, k, {"out", "in"}) <=> IsDone(x, k, {"out", "in"}) \/ k = n
            /\ IsDone(x, k, {"out", "in"}) => y.ev[k] = x.ev[k]
  BY <1>0, <1>3 DEF PostedKind
<1>. HIDE DEF n
<1>7. ControlInv(y)
  BY <1>0, <1>1, <1>5 DEF ControlInv
<1>8. SetupInv(y, host)
  BY <1>0, <1>1, <1>4, <1>5 DEF SetupInv
<1>9. TrbInv(y)
  BY <1>0, <1>1 DEF TrbInv
<1>10. DoneInv(y, host)
  BY <1>0, <1>1, <1>5 DEF DoneInv
<1>11. AnswerInv(y, host)
  BY <1>1 DEF AnswerInv, ControlBusy
<1>12. BulkInv(y, job, r)
  <2>. SUFFICES ASSUME y.clean PROVE BulkInv(y, job, r)
    BY <1>0 DEF BulkInv
  <2>1. x.clean /\ SetUp(x, e)
    BY <1>0, <1>1 DEF Ready, Sound
  <2>2. RingInv(x, e) /\ x.enq[e] \in {x.hdeq[e], After(x.hdeq[e])}
    BY <1>0, <2>1 DEF BulkInv
  <2>3. x.hdeq[e] # x.enq[e]
    BY <1>0, <2>2, ReadyLemma DEF Sound
  <2>4. Left(x, e)
    BY <2>1, <2>3 DEF Left
  <2>5. /\ Waits(x, job, r) /\ job.name = e /\ x.tr[e][x.hdeq[e]].id = job.id
        /\ \A k \in EvSlots : ~IsDone(x, k, {"out", "in"})
    BY <1>0, <2>1, <2>4 DEF BulkInv
  <2>6. RingInv(y, e) /\ y.enq[e] = y.hdeq[e] /\ ~Left(y, e)
    BY <1>1, <2>2, <2>3 DEF Completed, Left
  <2>7. Waits(y, job, r) /\ x.tx = 1
    BY <1>1, <2>5 DEF Waits
  <2>8. ~Left(x, f) /\ ~Left(y, f)
    BY <1>0, <1>1, <2>1, <2>5 DEF BulkInv
  <2>9. SetUp(y, f) => RingInv(y, f) /\ y.enq[f] \in {y.hdeq[f], After(y.hdeq[f])}
    BY <1>0, <1>1, <2>1 DEF BulkInv
  <2>10. \A g \in {"out", "in"} :
            /\ SetUp(y, g) => RingInv(y, g) /\ y.enq[g] \in {y.hdeq[g], After(y.hdeq[g])}
            /\ ~Left(y, g)
    BY <1>0, <2>6, <2>8, <2>9
  <2>11. \A k \in EvSlots : IsDone(y, k, {"out", "in"}) <=> k = n
    BY <1>6, <2>5
  <2>12. /\ ~y.full /\ y.torn = {} /\ (r => job.name # "none")
    BY <1>0, <1>1, <2>1 DEF BulkInv
  <2>. QED  BY <1>1, <1>4, <2>5, <2>7, <2>10, <2>11, <2>12 DEF BulkInv
<1>. QED  BY <1>2, <1>7, <1>8, <1>9, <1>10, <1>11, <1>12 DEF Core

LEMMA BulkCompletes ==
    ASSUME UsbInv, NEW e \in {"out", "in"}, Bulk(e)
    PROVE  UsbInv'
<1>0. /\ RestOK /\ Core(m, ctl, call, Running) /\ AnswerInv(m, ctl) /\ Sound(m)
      /\ EventInv(m, pc = "events") /\ TransferExact
  BY Unfold
<1>1. /\ Space(m) /\ Ready(m, e) /\ e \in m.on /\ e \in Eps
      /\ pc' = pc /\ call' = call /\ ret' = ret /\ ctl' = ctl
      /\ spent' = spent \/ spent' = [spent EXCEPT !.faults = @ + 1]
  BY DEF Bulk, Ready, Eps, Fault
<1>2. PICK code \in {"ok", "error"}, rem \in Int, moved \in Nat :
         /\ m' = Complete(m, e, code, rem, moved)
         /\ code = "ok" => rem = Length - moved
  <2>1. CASE \E moved \in (IF e = "out" THEN 1..Length ELSE {Length}) :
                m' = Complete(m, e, "ok", Length - moved, moved)
    <3>1. PICK moved \in (IF e = "out" THEN 1..Length ELSE {Length}) :
                m' = Complete(m, e, "ok", Length - moved, moved)
      BY <2>1
    <3>2. moved \in Nat /\ Length - moved \in Int
      BY DEF Length
    <3>. QED  BY <3>1, <3>2
  <2>2. CASE m' = Complete(m, e, "error", Length, 0)
    <3>1. Length \in Int
      BY DEF Length
    <3>. QED  BY <2>2, <3>1
  <2>. QED  BY <2>1, <2>2 DEF Bulk
<1>3. EventInv(m', pc = "events") /\ Reported(m, m', e, code, rem, moved)
  <2>1. (pc = "events") \in BOOLEAN /\ code \in {"ok", "seq", "dir", "error"}
    OBVIOUS
  <2>2. Space(m) /\ e \in m.on /\ e \in Eps /\ m' = Complete(m, e, code, rem, moved)
    BY <1>1, <1>2
  <2>. QED  BY <1>0, <2>1, <2>2, CompleteEffect, Zenon
<1>4. PICK ev \in Events : /\ Completed(m, m', e, ev)
                           /\ ev.type = "transfer" /\ ev.ep = e /\ ev.code = code /\ ev.rem = rem
                           /\ ev.id = m.tr[e][m.hdeq[e]].id /\ ev.moved = moved
  BY <1>3 DEF Reported
<1>5. Core(m', ctl, call, Running) /\ AnswerInv(m', ctl)
  BY <1>0, <1>1, <1>2, <1>4, BulkCompleted
<1>6. m'.clean => m.clean
  BY <1>0, <1>4, CompleteSame
<1>7. spent' \in [setups : Nat, calls : Nat, faults : Nat]
  BY <1>0, <1>1 DEF RestOK
<1>8. /\ Core(m', ctl', call, Running) /\ AnswerInv(m', ctl')
      /\ ctl' \in [req : Requests \cup {NoRequest}, seq : Nat, stage : {"open", "done"}]
  BY <1>0, <1>1, <1>5 DEF RestOK
<1>. QED  BY <1>0, <1>1, <1>3, <1>6, <1>7, <1>8, FoldBeside

-----------------------------------------------------------------------------
(* A call begins.                                                          *)

LEMMA AfterLemma ==
    ASSUME NEW k \in Places
    PROVE  (k + 1) % (RingSize - 1) = After(k)
<1>. DEFINE n == RingSize - 1
            a == k + 1
<1>1. n \in Nat /\ n > 0 /\ a \in Int /\ -n < a /\ a < 2 * n /\ a >= 0 /\ a <= n
  BY XusbfAssumption DEF Places
<1>2. After(k) = IF a = n THEN 0 ELSE a
  BY DEF After
<1>. HIDE DEF n, a
<1>3. a % n = IF a < 0 THEN a + n ELSE IF a < n THEN a ELSE a - n
  BY <1>1, ModLemma
<1>4. a % n = IF a = n THEN 0 ELSE a
  BY <1>1, <1>3
<1>. QED  BY <1>2, <1>4 DEF n, a

\* Between calls nothing is out for a call.
LEMMA BulkIdle ==
    ASSUME NEW x, NEW job, BulkInv(x, job, FALSE)
    PROVE  /\ \A job2 : BulkInv(x, job2, FALSE)
           /\ x.clean => /\ \A e \in {"out", "in"} : ~Left(x, e)
                         /\ \A k \in EvSlots : ~IsDone(x, k, {"out", "in"})
<1>1. \A j : ~Waits(x, j, FALSE)
  BY DEF Waits
<1>2. x.clean => /\ \A e \in {"out", "in"} : ~Left(x, e)
                 /\ \A k \in EvSlots : ~IsDone(x, k, {"out", "in"})
  BY <1>1 DEF BulkInv
<1>. QED  BY <1>2 DEF BulkInv

\* receive and send: the TRB of the call is put at the producer's place.
Begins(x, y, e) ==
    /\ Frame(x, y, {"tr", "enq", "pcs", "bytes", "wait", "tx", "clean", "full"}) /\ Sound(y)
    /\ y.bytes = Length /\ y.tx = 1 /\ y.clean = (x.clean /\ ~ControlBusy(x))
    /\ y.full = (x.full \/ After(x.enq[e]) = x.hdeq[e])
    /\ \A f \in Eps \ {e} : SameRing(x, y, f)
    /\ SetUp(y, e)
    /\ y.enq[e] = After(x.enq[e]) /\ y.hdeq[e] = x.hdeq[e]
    /\ y.tr[e][x.enq[e]].id = x.enq[e] + 1
    /\ RingInv(x, e) /\ After(x.enq[e]) # x.hdeq[e] => RingInv(y, e)

LEMMA StartEffect ==
    ASSUME Sound(m), NEW e \in {"out", "in"}, SetUp(m, e), NEW y,
           y = [tegrabl_issue_normal_trb([m EXCEPT !.bytes = Length], e, NextId(e)) EXCEPT
                        !.tx = 1, !.clean = @ /\ ~ControlBusy(m),
                        !.full = @ \/ (m.enq[e] + 1) % (RingSize - 1) = m.hdeq[e]]
    PROVE  Begins(m, y, e)
<1>. DEFINE t == [Blank EXCEPT !.type = "normal", !.id = NextId(e)]
            x == [m EXCEPT !.bytes = Length]
            q == tegrabl_queue_trb(x, e, t)
            z == [q EXCEPT !.wait = "normal"]
<1>0. e \in Eps /\ DOMAIN m = Fields /\ m.enq[e] \in Places /\ Typed(m) /\ Linked(m, e)
  BY DEF Sound, Typed, Eps
<1>1. NextId(e) \in Nat
  BY <1>0, XusbfAssumption DEF NextId, Places
<1>2. t \in Trbs /\ t.type = "normal" /\ t.id = NextId(e)
  BY <1>1 DEF Blank, Trbs, Bits
<1>3. y = [z EXCEPT !.tx = 1, !.clean = @ /\ ~ControlBusy(m),
                    !.full = @ \/ (m.enq[e] + 1) % (RingSize - 1) = m.hdeq[e]]
  BY DEF tegrabl_issue_normal_trb
<1>. HIDE DEF t
<1>4. Frame(m, x, {"bytes"}) /\ x.bytes = Length
  BY <1>0, Zenon DEF Frame, Fields
<1>. HIDE DEF x
<1>5. /\ x.tr = m.tr /\ x.enq = m.enq /\ x.deq = m.deq /\ x.pcs = m.pcs /\ x.hdeq = m.hdeq
      /\ x.hdcs = m.hdcs /\ x.on = m.on /\ x.ev = m.ev /\ x.evdeq = m.evdeq
      /\ x.evenq = m.evenq /\ x.erdp = m.erdp /\ x.ccs = m.ccs /\ x.ecs = m.ecs
      /\ x.tx = m.tx /\ x.seq = m.seq /\ x.setup = m.setup
      /\ x.clean = m.clean /\ x.full = m.full /\ x.err = m.err /\ DOMAIN x = Fields
  BY <1>4, Zenon DEF Frame, Fields
<1>6. Typed(x)
  <2>1. x.bytes \in Int
    BY <1>4 DEF Length
  <2>. QED  BY <1>0, <1>5, <2>1 DEF Typed
<1>7. SetUp(x, e) /\ Linked(x, e) /\ (RingInv(m, e) => RingInv(x, e))
  BY <1>0, <1>5, Zenon DEF SetUp, Linked, RingInv
<1>8. /\ Typed(q) /\ Frame(x, q, {"tr", "enq", "pcs"})
      /\ \A f \in Eps \ {e} : SameRing(x, q, f)
      /\ SetUp(q, e) /\ Linked(q, e) /\ Put(x, q, e, t)
  BY <1>0, <1>2, <1>6, <1>7, QueueEffect
<1>. HIDE DEF q
<1>9. Frame(q, z, {"wait"})
  <2>1. DOMAIN q = Fields
    BY <1>8 DEF Typed
  <2>. QED  BY <2>1, Zenon DEF Frame, Fields
<1>. HIDE DEF z
<1>10. /\ Frame(z, y, {"tx", "clean", "full"}) /\ y.tx = 1 /\ y.clean = (z.clean /\ ~ControlBusy(m))
       /\ y.full = (z.full \/ (m.enq[e] + 1) % (RingSize - 1) = m.hdeq[e])
  <2>1. DOMAIN z = Fields
    BY <1>9 DEF Frame
  <2>. QED  BY <1>3, <2>1, Zenon DEF Frame, Fields
<1>11. Frame(q, y, {"wait", "tx", "clean", "full"})
  BY <1>9, <1>10, Zenon DEF Frame
<1>12. Frame(m, y, {"tr", "enq", "pcs", "bytes", "wait", "tx", "clean", "full"})
  BY <1>4, <1>8, <1>11, Zenon DEF Frame
<1>13. y.bytes = Length /\ z.clean = m.clean /\ z.full = m.full
  <2>1. y.bytes = q.bytes
    BY <1>11, Zenon DEF Frame, Fields
  <2>2. q.bytes = x.bytes /\ q.clean = x.clean /\ q.full = x.full
    BY <1>8, Zenon DEF Frame, Fields
  <2>3. z.clean = q.clean /\ z.full = q.full
    BY <1>9, Zenon DEF Frame, Fields
  <2>. QED  BY <1>4, <1>5, <2>1, <2>2, <2>3
<1>14. (m.enq[e] + 1) % (RingSize - 1) = After(m.enq[e])
  BY <1>0, AfterLemma
<1>15. /\ y.tr = q.tr /\ y.enq = q.enq /\ y.deq = q.deq /\ y.pcs = q.pcs /\ y.hdeq = q.hdeq
       /\ y.hdcs = q.hdcs /\ y.on = q.on /\ y.ev = q.ev /\ y.evdeq = q.evdeq
       /\ y.evenq = q.evenq /\ y.erdp = q.erdp /\ y.ccs = q.ccs /\ y.ecs = q.ecs
       /\ y.seq = q.seq /\ y.setup = q.setup /\ y.err = q.err /\ y.bytes = q.bytes /\ DOMAIN y = Fields
  BY <1>11, ZenonT(60) DEF Frame, Fields
<1>16. q.on = x.on
  BY <1>8, Zenon DEF Frame, Fields
<1>17. Typed(y)
  <2>1. {y.clean, y.full} \subseteq BOOLEAN /\ y.tx \in Int
    BY <1>10
  <2>. QED  BY <1>8, <1>15, <2>1 DEF Typed
<1>18. \A f \in Eps \ {e} : SameRing(m, y, f)
  <2>1. \A f \in Eps \ {e} : SameRing(x, q, f)
    BY <1>8
  <2>2. /\ x.tr = m.tr /\ x.enq = m.enq /\ x.deq = m.deq /\ x.pcs = m.pcs /\ x.hdeq = m.hdeq
        /\ x.hdcs = m.hdcs
    BY <1>5
  <2>3. /\ y.tr = q.tr /\ y.enq = q.enq /\ y.deq = q.deq /\ y.pcs = q.pcs /\ y.hdeq = q.hdeq
        /\ y.hdcs = q.hdcs
    BY <1>15
  <2>. QED  BY <2>1, <2>2, <2>3, SMTT(60) DEF SameRing
<1>19. SetUp(y, e) /\ Linked(y, e) /\ (RingInv(q, e) => RingInv(y, e))
  BY <1>8, <1>15, ZenonT(60) DEF SetUp, Linked, RingInv
<1>20. /\ y.enq[e] = After(m.enq[e]) /\ y.hdeq[e] = m.hdeq[e]
       /\ y.tr[e][m.enq[e]].id = NextId(e)
       /\ RingInv(m, e) /\ After(m.enq[e]) # m.hdeq[e] => RingInv(y, e)
  <2>1. /\ q.enq[e] = After(x.enq[e]) /\ q.hdeq[e] = x.hdeq[e] /\ q.tr[e][x.enq[e]].id = t.id
        /\ RingInv(x, e) /\ After(x.enq[e]) # x.hdeq[e] => RingInv(q, e)
    BY <1>8 DEF Put
  <2>. QED  BY <1>2, <1>5, <1>7, <1>15, <1>19, <2>1
<1>21. Sound(y)
  <2>1. \A f \in Eps \ {e} : (SetUp(y, f) <=> SetUp(m, f)) /\ (Linked(m, f) => Linked(y, f))
    BY <1>18 DEF SameRing, SetUp, Linked
  <2>2. y.on = m.on /\ m.on \subseteq Eps
    BY <1>0, <1>5, <1>15, <1>16 DEF Typed
  <2>3. "ep0" # e /\ "ep0" \in Eps
    BY DEF Eps
  <2>. QED  BY <1>17, <1>19, <2>1, <2>2, <2>3 DEF Sound
<1>22. NextId(e) = m.enq[e] + 1
  BY DEF NextId
<1>23. /\ y.clean = (m.clean /\ ~ControlBusy(m)) /\ y.tx = 1
       /\ y.full = (m.full \/ After(m.enq[e]) = m.hdeq[e])
       /\ y.tr[e][m.enq[e]].id = m.enq[e] + 1
  <2>1. y.clean = (m.clean /\ ~ControlBusy(m)) /\ y.tx = 1
    BY <1>10, <1>13
  <2>2. y.full = (m.full \/ After(m.enq[e]) = m.hdeq[e])
    BY <1>10, <1>13, <1>14
  <2>3. y.tr[e][m.enq[e]].id = m.enq[e] + 1
    BY <1>20, <1>22, Zenon
  <2>. QED  BY <2>1, <2>2, <2>3, Zenon
<1>. QED  BY <1>12, <1>13, <1>18, <1>19, <1>20, <1>21, <1>23, Zenon DEF Begins

LEMMA CallStarted ==
    ASSUME UsbInv, NEW e \in {"out", "in"}, Start(e), SetUp(m, e)
    PROVE  UsbInv'
<1>0. /\ RestOK /\ Core(m, ctl, call, Running) /\ AnswerInv(m, ctl) /\ Sound(m)
      /\ EventInv(m, pc = "events") /\ ctl.seq \in Nat
  BY Unfold
<1>1. /\ pc = "idle" /\ pc' = "poll" /\ ret' = NoResult /\ ctl' = ctl
      /\ spent' = [spent EXCEPT !.calls = @ + 1]
      /\ call' = [name |-> e, id |-> NextId(e)]
      /\ m' = [tegrabl_issue_normal_trb([m EXCEPT !.bytes = Length], e, NextId(e)) EXCEPT
                        !.tx = 1, !.clean = @ /\ ~ControlBusy(m),
                        !.full = @ \/ (m.enq[e] + 1) % (RingSize - 1) = m.hdeq[e]]
  BY DEF Start
<1>. DEFINE y == m'
<1>2. /\ Frame(m, y, {"tr", "enq", "pcs", "bytes", "wait", "tx", "clean", "full"}) /\ Sound(y)
      /\ y.bytes = Length /\ y.tx = 1 /\ y.clean = (m.clean /\ ~ControlBusy(m))
      /\ y.full = (m.full \/ After(m.enq[e]) = m.hdeq[e])
      /\ \A f \in Eps \ {e} : SameRing(m, y, f)
      /\ SetUp(y, e)
      /\ y.enq[e] = After(m.enq[e]) /\ y.hdeq[e] = m.hdeq[e]
      /\ y.tr[e][m.enq[e]].id = NextId(e)
      /\ RingInv(m, e) /\ After(m.enq[e]) # m.hdeq[e] => RingInv(y, e)
  <2>1. m' = [tegrabl_issue_normal_trb([m EXCEPT !.bytes = Length], e, NextId(e)) EXCEPT
                        !.tx = 1, !.clean = @ /\ ~ControlBusy(m),
                        !.full = @ \/ (m.enq[e] + 1) % (RingSize - 1) = m.hdeq[e]]
    BY <1>1
  <2>2. Begins(m, m', e)
    BY <1>0, <2>1, StartEffect, Zenon
  <2>. QED  BY <2>2, Zenon DEF Begins, NextId
<1>3. Core(m, ctl, call, FALSE) /\ EventInv(m, FALSE)
  <2>1. Running = FALSE /\ (pc = "events") = FALSE
    BY <1>1 DEF Running
  <2>. QED  BY <1>0, <2>1, Zenon
<1>4. /\ TransferInv(m) /\ ControlInv(m) /\ BulkInv(m, call, FALSE) /\ SetupInv(m, ctl)
      /\ TrbInv(m) /\ DoneInv(m, ctl) /\ "ep0" \in Eps \ {e} /\ e \in Eps
  BY <1>3 DEF Core, Eps
<1>5. m.enq[e] \in Places
  BY <1>0, <1>4 DEF Sound, Typed
<1>6. call' \in [name : {"none", "enumerate", "out", "in"}, id : Nat] /\ call'.name = e /\ call'.id = NextId(e)
  <2>1. NextId(e) \in Nat
    BY <1>5, XusbfAssumption DEF NextId, Places
  <2>. QED  BY <1>1, <2>1
<1>. HIDE DEF y
<1>7. /\ y.on = m.on /\ y.torn = m.torn /\ y.ev = m.ev /\ y.evdeq = m.evdeq /\ y.evenq = m.evenq
      /\ y.ccs = m.ccs /\ y.ecs = m.ecs /\ y.erdp = m.erdp /\ y.seq = m.seq /\ y.setup = m.setup
      /\ y.halt = m.halt /\ y.deq = m.deq
  BY <1>2, Zenon DEF Frame, Fields
<1>8. \A f \in Eps \ {e} : /\ SetUp(y, f) <=> SetUp(m, f)
                           /\ RingInv(y, f) <=> RingInv(m, f)
                           /\ Left(y, f) <=> Left(m, f)
                           /\ y.tr[f] = m.tr[f] /\ y.hdeq[f] = m.hdeq[f] /\ y.enq[f] = m.enq[f]
  <2>1. \A f \in Eps \ {e} : /\ y.tr[f] = m.tr[f] /\ y.enq[f] = m.enq[f] /\ y.pcs[f] = m.pcs[f]
                             /\ y.hdeq[f] = m.hdeq[f] /\ y.hdcs[f] = m.hdcs[f]
    BY <1>2 DEF SameRing
  <2>. QED  BY <2>1, Zenon DEF SetUp, RingInv, Left
<1>9. TransferInv(y)
  <2>1. ~y.full => \A f \in y.on \ y.torn : RingInv(y, f)
    <3>1. y.on \subseteq Eps
      BY <1>2 DEF Sound, Typed
    <3>. QED  BY <1>2, <1>4, <1>7, <1>8, <3>1 DEF TransferInv
  <2>. QED  BY <1>2, <2>1 DEF TransferInv, Sound
<1>10. \A k, S : IsDone(y, k, S) <=> IsDone(m, k, S)
  BY <1>7 DEF IsDone, Pending
<1>11. ControlInv(y)
  <2>1. \A k : IsDone(y, k, {"ep0"}) <=> IsDone(m, k, {"ep0"})
    BY <1>10
  <2>. QED  BY <1>4, <1>7, <1>8, <2>1 DEF ControlInv
<1>12. SetupInv(y, ctl)
  BY <1>4, <1>7, SetupKept
<1>13. y.clean => /\ m.hdeq["ep0"] = m.enq["ep0"]
                  /\ \A k \in EvSlots : ~IsDone(m, k, {"ep0"})
  BY <1>2, <1>4 DEF ControlBusy, ControlInv
<1>14. TrbInv(y) /\ DoneInv(y, ctl)
  BY <1>4, <1>7, <1>8, <1>10, <1>13 DEF TrbInv, DoneInv
<1>15. AnswerInv(y, ctl)
  BY <1>0, <1>2, <1>4, <1>7, <1>8 DEF AnswerInv, ControlBusy
<1>16. BulkInv(y, call', TRUE)
  <2>. SUFFICES ASSUME y.clean PROVE BulkInv(y, call', TRUE)
    BY <1>6 DEF BulkInv
  <2>1. /\ m.clean /\ \A f \in {"out", "in"} : ~Left(m, f)
        /\ \A k \in EvSlots : ~IsDone(y, k, {"out", "in"})
    BY <1>2, <1>4, <1>10, BulkIdle
  <2>2. m.enq[e] = m.hdeq[e] /\ After(m.enq[e]) # m.hdeq[e]
    BY <1>5, <2>1, PlaceLemma DEF Left
  <2>3. RingInv(m, e) /\ ~m.full /\ m.torn = {}
    BY <1>4, <2>1 DEF BulkInv
  <2>4. RingInv(y, e) /\ ~y.full /\ y.torn = {} /\ y.enq[e] = After(y.hdeq[e])
    BY <1>2, <1>7, <2>2, <2>3
  <2>5. Waits(y, call', TRUE) /\ y.tr[e][y.hdeq[e]].id = call'.id
    BY <1>2, <1>6, <2>2 DEF Waits
  <2>6. \A f \in {"out", "in"} : f # e =>
           /\ SetUp(y, f) => RingInv(y, f) /\ y.enq[f] \in {y.hdeq[f], After(y.hdeq[f])}
           /\ ~Left(y, f)
    <3>1. \A f \in {"out", "in"} : f # e => f \in Eps \ {e}
      BY DEF Eps
    <3>. QED  BY <1>4, <1>8, <2>1, <3>1 DEF BulkInv
  <2>7. \A f \in {"out", "in"} :
           /\ SetUp(y, f) => RingInv(y, f) /\ y.enq[f] \in {y.hdeq[f], After(y.hdeq[f])}
           /\ Left(y, f) =>
                 /\ Waits(y, call', TRUE) /\ call'.name = f /\ y.tr[f][y.hdeq[f]].id = call'.id
                 /\ \A k \in EvSlots : ~IsDone(y, k, {"out", "in"})
    BY <1>6, <2>1, <2>4, <2>5, <2>6
  <2>8. y.tx # 0 /\ call'.name # "none"
    BY <1>2, <1>6
  <2>. QED  BY <2>1, <2>4, <2>7, <2>8, Zenon DEF BulkInv
<1>17. EventInv(y, FALSE)
  <2>1. \A f \in Eps : SetUp(m, f) => SetUp(y, f)
    BY <1>2, <1>8
  <2>. QED  BY <1>3, <1>7, <2>1, EventSame
<1>18. Core(y, ctl, call', TRUE)
  BY <1>2, <1>9, <1>11, <1>12, <1>14, <1>16 DEF Core
<1>19. Running' = TRUE /\ (pc = "events")' = FALSE
  BY <1>1 DEF Running
<1>20. Core(m', ctl', call', Running') /\ AnswerInv(m', ctl') /\ EventInv(m', (pc = "events")')
  BY <1>1, <1>15, <1>17, <1>18, <1>19, Zenon DEF y
<1>21. RestOK'
  <2>1. /\ pc' \in {"idle", "poll", "events", "fault"} /\ ret' \in [ok : BOOLEAN, exact : BOOLEAN]
        /\ ctl' \in [req : Requests \cup {NoRequest}, seq : Nat, stage : {"open", "done"}]
    BY <1>0, <1>1 DEF RestOK, NoResult
  <2>2. spent' \in [setups : Nat, calls : Nat, faults : Nat]
    BY <1>0, <1>1 DEF RestOK
  <2>. QED  BY <1>6, <2>1, <2>2 DEF RestOK
<1>22. TransferExact'
  BY <1>1 DEF TransferExact, NoResult
<1>. QED  BY <1>20, <1>21, <1>22, Fold

LEMMA CallRefused ==
    ASSUME UsbInv, NEW e \in {"out", "in"}, Start(e), ~SetUp(m, e)
    PROVE  UsbInv'
<1>0. /\ RestOK /\ Core(m, ctl, call, Running) /\ AnswerInv(m, ctl) /\ Sound(m)
      /\ EventInv(m, pc = "events")
  BY Unfold
<1>1. /\ pc = "idle" /\ pc' = "fault" /\ ret' = NoResult /\ ctl' = ctl /\ m' = m
      /\ spent' = [spent EXCEPT !.calls = @ + 1]
      /\ call' = [name |-> e, id |-> NextId(e)]
  BY DEF Start
<1>2. Core(m, ctl, call, FALSE) /\ EventInv(m, FALSE)
  <2>1. Running = FALSE /\ (pc = "events") = FALSE
    BY <1>1 DEF Running
  <2>. QED  BY <1>0, <2>1, Zenon
<1>3. Core(m, ctl, call', FALSE)
  BY <1>2, BulkIdle DEF Core
<1>4. Running' = FALSE /\ (pc = "events")' = FALSE
  BY <1>1 DEF Running
<1>5. Core(m', ctl', call', Running') /\ AnswerInv(m', ctl') /\ EventInv(m', (pc = "events")')
  BY <1>0, <1>1, <1>2, <1>3, <1>4, Zenon
<1>6. RestOK'
  <2>1. NextId(e) \in Nat
    <3>1. m.enq[e] \in Places
      BY <1>0 DEF Sound, Typed, Eps
    <3>. QED  BY <3>1, XusbfAssumption DEF NextId, Places
  <2>2. call' \in [name : {"none", "enumerate", "out", "in"}, id : Nat]
    BY <1>1, <2>1
  <2>3. /\ pc' \in {"idle", "poll", "events", "fault"} /\ ret' \in [ok : BOOLEAN, exact : BOOLEAN]
        /\ ctl' \in [req : Requests \cup {NoRequest}, seq : Nat, stage : {"open", "done"}]
    BY <1>0, <1>1 DEF RestOK, NoResult
  <2>4. spent' \in [setups : Nat, calls : Nat, faults : Nat]
    BY <1>0, <1>1 DEF RestOK
  <2>. QED  BY <2>2, <2>3, <2>4 DEF RestOK
<1>7. TransferExact'
  BY <1>1 DEF TransferExact, NoResult
<1>. QED  BY <1>5, <1>6, <1>7, Fold

-----------------------------------------------------------------------------
(* The invariant.                                                          *)

LEMMA InitLemma ==
    ASSUME Init
    PROVE  UsbInv
<1>1. PICK reinit \in BOOLEAN :
        /\ m = tegrabl_usbf_priv_init(reinit)
        /\ pc = IF reinit THEN "idle" ELSE "poll"
        /\ call = [name |-> IF reinit THEN "none" ELSE "enumerate", id |-> 0]
  BY DEF Init
<1>2. /\ ctl = [req |-> NoRequest, seq |-> 0, stage |-> "done"] /\ ret = NoResult
      /\ spent = [setups |-> 0, calls |-> 0, faults |-> 0]
  BY DEF Init
<1>3. /\ DOMAIN m = Fields
      /\ m.tr = [e \in Eps |-> IF reinit \/ e = "ep0" THEN EmptyRing ELSE <<>>]
      /\ m.enq = [e \in Eps |-> 0] /\ m.deq = [e \in Eps |-> 0] /\ m.pcs = [e \in Eps |-> 1]
      /\ m.hdeq = [e \in Eps |-> 0] /\ m.hdcs = [e \in Eps |-> 1]
      /\ m.ev = [k \in 0..EventSize - 1 |-> NoEvent] /\ m.evdeq = 0 /\ m.evenq = 0 /\ m.erdp = 0
      /\ m.ccs = 1 /\ m.ecs = 1 /\ m.tx = 0 /\ m.bytes = 0 /\ m.seq = 0 /\ m.setup = NoRequest
      /\ m.err = FALSE /\ m.clean = TRUE /\ m.full = FALSE /\ m.torn = {} /\ m.wait = "setup"
      /\ m.on = {e \in Eps : reinit \/ e = "ep0"} /\ m.last = NoTransfer
  <2>1. DOMAIN m = Fields
    BY <1>1 DEF tegrabl_usbf_priv_init, Fields
  <2>. QED  BY <1>1, <2>1, Zenon DEF tegrabl_usbf_priv_init
<1>4. \A e \in Eps : /\ m.tr[e] = IF reinit \/ e = "ep0" THEN EmptyRing ELSE <<>>
                     /\ m.enq[e] = 0 /\ m.deq[e] = 0 /\ m.pcs[e] = 1 /\ m.hdeq[e] = 0 /\ m.hdcs[e] = 1
  BY <1>3
<1>5. \A k \in EvSlots : m.ev[k] = NoEvent
  BY <1>3 DEF EvSlots
<1>6. Typed(m)
  <2>1. 0 \in Places /\ 0 \in EvSlots /\ 1 \in Bits /\ 0 \in Int
    BY XusbfAssumption DEF Places, EvSlots, Bits
  <2>2. m.tr \in [Eps -> [Slots -> Trbs] \cup {<<>>}]
    BY <1>3, EmptyRingLemma
  <2>3. NoEvent \in Events
    BY DEF NoEvent, Events, Bits
  <2>4. m.ev \in [EvSlots -> Events]
    BY <1>3, <2>3 DEF EvSlots
  <2>5. m.on \subseteq Eps
    BY <1>3
  <2>6. /\ m.enq \in [Eps -> Places] /\ m.deq \in [Eps -> Places] /\ m.hdeq \in [Eps -> Places]
        /\ m.pcs \in [Eps -> Bits] /\ m.hdcs \in [Eps -> Bits]
    <3>1. /\ m.enq = [e \in Eps |-> 0] /\ m.deq = [e \in Eps |-> 0] /\ m.pcs = [e \in Eps |-> 1]
          /\ m.hdeq = [e \in Eps |-> 0] /\ m.hdcs = [e \in Eps |-> 1]
      BY <1>3
    <3>. QED  BY <2>1, <3>1
  <2>7. /\ {m.evdeq, m.evenq, m.erdp} \subseteq EvSlots /\ {m.ccs, m.ecs} \subseteq Bits
        /\ {m.tx, m.bytes} \subseteq Int /\ m.seq \in Nat /\ m.setup \in Requests \cup {NoRequest}
        /\ {m.clean, m.full, m.err} \subseteq BOOLEAN /\ DOMAIN m = Fields
    <3>1. /\ m.evdeq = 0 /\ m.evenq = 0 /\ m.erdp = 0 /\ m.ccs = 1 /\ m.ecs = 1 /\ m.tx = 0 /\ m.bytes = 0
          /\ m.seq = 0 /\ m.setup = NoRequest
      BY <1>3
    <3>2. {m.clean, m.full, m.err} \subseteq BOOLEAN /\ DOMAIN m = Fields
      BY <1>3, Zenon
    <3>. QED  BY <2>1, <3>1, <3>2
  <2>. QED  BY <2>2, <2>4, <2>5, <2>6, <2>7, Zenon DEF Typed
<1>7. RestOK
  BY <1>1, <1>2 DEF RestOK, NoResult
<1>8. \A e \in Eps : SetUp(m, e) => m.tr[e] = EmptyRing
  BY <1>4 DEF SetUp
<1>9. \A e \in Eps : SetUp(m, e) => Linked(m, e) /\ RingInv(m, e) /\ ~Left(m, e)
  <2>. SUFFICES ASSUME NEW e \in Eps, SetUp(m, e) PROVE Linked(m, e) /\ RingInv(m, e) /\ ~Left(m, e)
    OBVIOUS
  <2>1. NewRing(m, e) /\ e \notin m.torn
    BY <1>3, <1>4, <1>8 DEF NewRing
  <2>2. Linked(m, e)
    BY <1>8, EmptyRingLemma DEF Linked
  <2>. QED  BY <2>1, <2>2, EmptyRingInv DEF Left
<1>10. \A e \in m.on : e \in Eps /\ SetUp(m, e)
  BY <1>3, <1>4, EmptyRingLemma DEF SetUp
<1>11. TransferInv(m)
  BY <1>9, <1>10 DEF TransferInv
<1>12. \A k \in EvSlots : ~Pending(m, k)
  BY <1>3 DEF Pending, EvSlots
<1>13. EventInv(m, pc = "events")
  <2>1. pc # "events"
    BY <1>1
  <2>2. \A k \in EvSlots : m.ev[k].c = IF k < m.evenq THEN m.ecs ELSE 1 - m.ecs
    BY <1>3, <1>5 DEF EvSlots, NoEvent
  <2>3. m.evdeq = 0 /\ m.evenq = 0 /\ m.erdp = 0 /\ m.ccs = 1 /\ m.ecs = 1
    BY <1>3
  <2>4. /\ m.ecs = IF m.evenq >= m.evdeq THEN m.ccs ELSE 1 - m.ccs
        /\ IF m.erdp <= m.evenq THEN m.erdp <= m.evdeq /\ m.evdeq <= m.evenq
           ELSE m.erdp <= m.evdeq \/ m.evdeq <= m.evenq
        /\ m.erdp = m.evdeq
    BY <2>3
  <2>. QED  BY <1>12, <2>1, <2>2, <2>4 DEF EventInv
<1>14. "ep0" \in Eps /\ "ep0" \in m.on
  BY <1>3 DEF Eps
<1>15. \A k \in EvSlots : \A S : ~IsDone(m, k, S) /\ ~IsSetup(m, k)
  BY <1>12 DEF IsDone, IsSetup
<1>16. ControlInv(m)
  BY <1>3, <1>4, <1>9, <1>10, <1>14, <1>15 DEF ControlInv
<1>17. BulkInv(m, call, Running)
  <2>1. \A e \in {"out", "in"} : e \in Eps
    BY DEF Eps
  <2>2. \A e \in {"out", "in"} : ~Left(m, e)
    BY <1>9, <2>1 DEF Left
  <2>3. Running => call.name = "enumerate"
    BY <1>1 DEF Running
  <2>. QED  BY <1>3, <1>4, <1>9, <1>15, <2>1, <2>2, <2>3 DEF BulkInv
<1>18. SetupInv(m, ctl)
  BY <1>2, <1>3, <1>15 DEF SetupInv
<1>19. TrbInv(m) /\ DoneInv(m, ctl) /\ AnswerInv(m, ctl)
  BY <1>2, <1>4, <1>14, <1>15 DEF TrbInv, DoneInv, AnswerInv
<1>20. TransferExact
  BY <1>2 DEF TransferExact, NoResult
<1>. QED  BY <1>6, <1>7, <1>11, <1>13, <1>16, <1>17, <1>18, <1>19, <1>20 DEF UsbInv, TypeOK, RestOK

LEMMA NextLemma ==
    ASSUME UsbInv, [Next]_vars
    PROVE  UsbInv'
<1>1. ASSUME NEW q \in Requests, Setup(q) PROVE UsbInv'
  BY <1>1, RequestArrives
<1>2. ASSUME NEW e \in {"out", "in"}, Start(e) PROVE UsbInv'
  BY <1>2, CallStarted, CallRefused
<1>3. ASSUME NEW e \in {"out", "in"}, Bulk(e) PROVE UsbInv'
  BY <1>3, BulkCompletes
<1>4. CASE UNCHANGED vars
  <2>1. Running' = Running
    BY <1>4 DEF vars, Running
  <2>. QED  BY <1>4, <2>1 DEF vars, UsbInv, TypeOK, TransferExact
<1>. QED  BY <1>1, <1>2, <1>3, <1>4, PollStep, PollTimeoutStep, EventStep, ControlCompletes, StallSeen,
             PortArrives DEF Next

\* The strengthening of the three properties is preserved by every step of the driver,
\* of the controller and of the host.
THEOREM UsbInductive == Spec => []UsbInv
<1>1. Init => UsbInv
  BY InitLemma
<1>2. UsbInv /\ [Next]_vars => UsbInv'
  BY NextLemma
<1>. QED  BY <1>1, <1>2, PTL DEF Spec

\* A bulk call that reports success reports what the controller moved for its own TRB
\* (tegrabl_usbf_transmit and tegrabl_usbf_receive, whose count and TRB are not tied together).
THEOREM CallsReportTheirTransfer == Spec => []TransferExact
<1>1. UsbInv => TransferExact
  BY DEF UsbInv
<1>. QED  BY <1>1, UsbInductive, PTL

LEMMA DistanceLemma ==
    ASSUME NEW n \in Nat, n > 0, NEW a \in 0..n - 1, NEW b \in 0..n - 1
    PROVE  (a - b) % n = IF a < b THEN a - b + n ELSE a - b
<1>. DEFINE d == a - b
<1>1. d \in Int /\ -n < d /\ d < n /\ (d < 0 <=> a < b)
  OBVIOUS
<1>. HIDE DEF d
<1>2. d % n = IF d < 0 THEN d + n ELSE d
  BY <1>1, ModLemma
<1>. QED  BY <1>1, <1>2 DEF d

\* What the cycle bits tell the consumer, where the producer has marked what lies before
\* its place in this lap.
LEMMA FilledLemma ==
    ASSUME NEW size \in Nat, size > 0, NEW from \in 0..size - 1, NEW to \in 0..size - 1,
           NEW cycle \in Bits, NEW p, p = (IF to >= from THEN cycle ELSE 1 - cycle), NEW bit,
           \A j \in 0..size - 1 : bit[j] = IF j < to THEN p ELSE 1 - p
    PROVE  Filled(from, to, cycle, size, bit)
<1>. DEFINE n == (to - from) % size
<1>1. n = IF to >= from THEN to - from ELSE to - from + size
  BY DistanceLemma
<1>2. ASSUME NEW k \in 0..size - 1
      PROVE  (bit[(from + k) % size] = (IF from + k < size THEN cycle ELSE 1 - cycle)) <=> k < n
  <2>. DEFINE j == (from + k) % size
  <2>1. j = IF from + k < size THEN from + k ELSE from + k - size
    <3>1. from + k \in Int /\ -size < from + k /\ from + k < 2 * size /\ from + k >= 0
      OBVIOUS
    <3>. QED  BY <3>1, ModLemma
  <2>. HIDE DEF j, n
  <2>2. j \in 0..size - 1
    BY <2>1
  <2>3. bit[j] = IF j < to THEN p ELSE 1 - p
    BY <2>2
  <2>4. cycle \in {0, 1} /\ p \in {0, 1}
    BY DEF Bits
  <2>5. CASE from + k < size
    <3>1. j = from + k /\ (k < n <=> (to < from \/ j < to))
      BY <1>1, <2>1, <2>5
    <3>2. CASE to >= from
      BY <2>3, <2>4, <2>5, <3>1, <3>2 DEF j
    <3>3. CASE to < from
      <4>1. p = 1 - cycle /\ ~(j < to)
        BY <3>1, <3>3
      <4>. QED  BY <2>3, <2>4, <2>5, <3>1, <3>3, <4>1 DEF j
    <3>. QED  BY <3>2, <3>3
  <2>6. CASE ~(from + k < size)
    <3>1. j = from + k - size /\ j < from /\ (k < n <=> (to < from /\ j < to))
      BY <1>1, <2>1, <2>6
    <3>2. CASE to >= from
      <4>1. p = cycle /\ j < to
        BY <3>1, <3>2, <2>2
      <4>. QED  BY <2>3, <2>4, <2>6, <3>1, <3>2, <4>1 DEF j
    <3>3. CASE to < from
      <4>1. p = 1 - cycle
        BY <3>3
      <4>. QED  BY <2>3, <2>4, <2>6, <3>1, <3>3, <4>1 DEF j
    <3>. QED  BY <3>2, <3>3
  <2>. QED  BY <2>5, <2>6
<1>. QED  BY <1>2 DEF Filled

LEMMA AgreeLemma ==
    ASSUME UsbInv
    PROVE  RingsAgree
<1>0. /\ Typed(m) /\ TransferInv(m) /\ EventInv(m, pc = "events") /\ ControlInv(m) /\ "ep0" \in Eps
  BY DEF UsbInv, TypeOK, Eps
<1>. DEFINE size == RingSize - 1
            waiting == {k \in 0..EventSize - 1 : /\ (k - m.evdeq) % EventSize < (m.evenq - m.evdeq) % EventSize
                                                 /\ m.ev[k].type = "transfer" /\ m.ev[k].ep = "ep0"}
<1>1. size \in Nat /\ size > 0 /\ size \in Slots /\ Places = 0..size - 1 /\ Places \subseteq Slots
      /\ EventSize \in Nat /\ EventSize > 0
  BY XusbfAssumption DEF Slots, Places
<1>2. ASSUME ~m.full, NEW e \in m.on \ m.torn
      PROVE  /\ Filled(m.hdeq[e], m.enq[e], m.hdcs[e], size, [k \in 0..size - 1 |-> m.tr[e][k].c])
             /\ m.enq[e] < m.hdeq[e] => m.tr[e][size].c = m.hdcs[e]
  <2>. DEFINE bit == [k \in 0..size - 1 |-> m.tr[e][k].c]
  <2>1. RingInv(m, e) /\ e \in Eps
    BY <1>0, <1>2 DEF TransferInv, Typed
  <2>2. /\ m.hdeq[e] \in 0..size - 1 /\ m.enq[e] \in 0..size - 1 /\ m.hdcs[e] \in Bits
    BY <1>0, <1>1, <2>1 DEF Typed
  <2>3. /\ \A k \in Slots : m.tr[e][k].c = IF k < m.enq[e] THEN m.pcs[e] ELSE 1 - m.pcs[e]
        /\ m.pcs[e] = IF m.enq[e] >= m.hdeq[e] THEN m.hdcs[e] ELSE 1 - m.hdcs[e]
    BY <2>1 DEF RingInv
  <2>. HIDE DEF size
  <2>4. \A j \in 0..size - 1 : bit[j] = IF j < m.enq[e] THEN m.pcs[e] ELSE 1 - m.pcs[e]
    BY <1>1, <2>3
  <2>. HIDE DEF bit
  <2>5. Filled(m.hdeq[e], m.enq[e], m.hdcs[e], size, bit)
    BY <1>1, <2>2, <2>3, <2>4, FilledLemma
  <2>6. m.enq[e] < m.hdeq[e] => m.tr[e][size].c = m.hdcs[e]
    <3>1. m.tr[e][size].c = 1 - m.pcs[e]
      BY <1>1, <2>2, <2>3
    <3>. QED  BY <2>2, <2>3, <3>1 DEF Bits
  <2>. QED  BY <2>5, <2>6 DEF bit
<1>3. /\ m.evdeq \in 0..EventSize - 1 /\ m.evenq \in 0..EventSize - 1 /\ m.ccs \in Bits
  BY <1>0 DEF Typed, EvSlots
<1>4. Filled(m.evdeq, m.evenq, m.ccs, EventSize, [k \in 0..EventSize - 1 |-> m.ev[k].c])
  <2>. DEFINE bit == [k \in 0..EventSize - 1 |-> m.ev[k].c]
  <2>1. \A j \in 0..EventSize - 1 : bit[j] = IF j < m.evenq THEN m.ecs ELSE 1 - m.ecs
    BY <1>0 DEF EventInv, EvSlots
  <2>2. m.ecs = IF m.evenq >= m.evdeq THEN m.ccs ELSE 1 - m.ccs
    BY <1>0 DEF EventInv
  <2>. HIDE DEF bit
  <2>3. Filled(m.evdeq, m.evenq, m.ccs, EventSize, bit)
    BY <1>1, <1>3, <2>1, <2>2, FilledLemma
  <2>. QED  BY <2>3 DEF bit
<1>5. \A k \in EvSlots : k \in waiting <=> IsDone(m, k, {"ep0"})
  <2>. SUFFICES ASSUME NEW k \in 0..EventSize - 1
                PROVE  (k - m.evdeq) % EventSize < (m.evenq - m.evdeq) % EventSize <=> Pending(m, k)
    BY DEF IsDone, EvSlots
  <2>. DEFINE a == (k - m.evdeq) % EventSize
              b == (m.evenq - m.evdeq) % EventSize
  <2>1. a = IF k < m.evdeq THEN k - m.evdeq + EventSize ELSE k - m.evdeq
    BY <1>1, <1>3, DistanceLemma
  <2>2. b = IF m.evenq < m.evdeq THEN m.evenq - m.evdeq + EventSize ELSE m.evenq - m.evdeq
    BY <1>1, <1>3, DistanceLemma
  <2>. HIDE DEF a, b
  <2>3. a < b <=> Pending(m, k)
    BY <1>1, <1>3, <2>1, <2>2, SMTT(60) DEF Pending
  <2>. QED  BY <2>3 DEF a, b
<1>6. waiting \subseteq EvSlots
  BY DEF EvSlots
<1>. HIDE DEF waiting
<1>7. m.deq["ep0"] \in Places /\ m.hdeq["ep0"] \in Places
  BY <1>0 DEF Typed
<1>8. (m.deq["ep0"] + Cardinality(waiting)) % size = m.hdeq["ep0"]
  <2>1. CASE m.hdeq["ep0"] = m.deq["ep0"]
    <3>1. waiting = {}
      BY <1>0, <1>5, <1>6, <2>1 DEF ControlInv
    <3>2. Cardinality(waiting) = 0
      BY <3>1, FS_EmptySet
    <3>3. m.deq["ep0"] \in Int /\ -size < m.deq["ep0"] /\ m.deq["ep0"] < size /\ m.deq["ep0"] >= 0
      BY <1>1, <1>7
    <3>4. m.deq["ep0"] % size = m.deq["ep0"]
      BY <1>1, <3>3, ModLemma
    <3>. QED  BY <2>1, <3>2, <3>3, <3>4
  <2>2. CASE m.hdeq["ep0"] # m.deq["ep0"]
    <3>1. PICK k \in EvSlots : \A j \in EvSlots : IsDone(m, j, {"ep0"}) <=> j = k
      BY <1>0, <2>2 DEF ControlInv
    <3>2. waiting = {k}
      BY <1>5, <1>6, <3>1
    <3>3. Cardinality(waiting) = 1
      BY <3>2, FS_Singleton
    <3>4. m.hdeq["ep0"] = After(m.deq["ep0"])
      BY <1>0, <2>2 DEF ControlInv
    <3>5. (m.deq["ep0"] + 1) % size = After(m.deq["ep0"])
      BY <1>7, AfterLemma
    <3>. QED  BY <3>3, <3>4, <3>5
  <2>. QED  BY <2>1, <2>2
<1>. QED  BY <1>2, <1>4, <1>8 DEF RingsAgree, waiting

LEMMA AnsweredLemma ==
    ASSUME UsbInv
    PROVE  NoRequestForgotten
<1>0. /\ Typed(m) /\ ControlInv(m) /\ SetupInv(m, ctl) /\ AnswerInv(m, ctl)
      /\ ctl.stage \in {"open", "done"} /\ "ep0" \in Eps
  BY DEF UsbInv, TypeOK, Eps
<1>. SUFFICES ASSUME Quiet, m.clean, ctl.req.kind \notin {"sel", "other"}, ctl.stage = "open", "ep0" \notin m.halt
              PROVE  FALSE
  BY <1>0 DEF NoRequestForgotten
<1>1. \A k \in EvSlots : ~Pending(m, k)
  <2>1. m.evdeq = m.evenq /\ m.evdeq \in EvSlots
    BY <1>0 DEF Quiet, Typed
  <2>. QED  BY <2>1 DEF Pending, EvSlots
<1>2. m.hdeq["ep0"] = m.deq["ep0"]
  BY <1>0, <1>1 DEF ControlInv, IsDone
<1>3. m.enq["ep0"] = m.hdeq["ep0"]
  <2>1. /\ m.hdeq["ep0"] \in Places /\ m.enq["ep0"] \in Places /\ m.hdcs["ep0"] \in Bits
        /\ m.hdeq["ep0"] \in Slots
    BY <1>0, PlaceLemma DEF Typed
  <2>2. m.tr["ep0"][m.hdeq["ep0"]].c # m.hdcs["ep0"]
    BY <1>0 DEF Quiet, Ready, ControlInv
  <2>3. /\ m.tr["ep0"][m.hdeq["ep0"]].c =
              IF m.hdeq["ep0"] < m.enq["ep0"] THEN m.pcs["ep0"] ELSE 1 - m.pcs["ep0"]
        /\ m.pcs["ep0"] = IF m.enq["ep0"] >= m.hdeq["ep0"] THEN m.hdcs["ep0"] ELSE 1 - m.hdcs["ep0"]
    BY <1>0, <2>1 DEF ControlInv, RingInv
  <2>. QED  BY <2>1, <2>2, <2>3 DEF Places, Bits
<1>4. m.seq = ctl.seq
  BY <1>0, <1>1 DEF SetupInv, IsSetup
<1>. QED  BY <1>0, <1>2, <1>3, <1>4 DEF AnswerInv, ControlBusy

\* Driver and controller read the same owner from every cycle bit, on the event ring and
\* on every transfer ring (tegrabl_queue_trb, tegrabl_poll_for_event, tegrabl_initep).
THEOREM RingsStayInStep == Spec => []RingsAgree
<1>1. UsbInv => RingsAgree
  BY AgreeLemma
<1>. QED  BY <1>1, UsbInductive, PTL

\* However many requests the host gives up half way, the last one is answered before
\* the driver can wait with nothing to wait for (tegrabl_handle_setuppkt, the sequence
\* number errors of tegrabl_handle_txfer_event).
THEOREM RequestsAreAnswered == Spec => []NoRequestForgotten
<1>1. UsbInv => NoRequestForgotten
  BY AnsweredLemma
<1>. QED  BY <1>1, UsbInductive, PTL

=============================================================================
