--------------------------- MODULE BootMediaProofs ---------------------------
(***************************************************************************)
(* The search for a kernel keeps its devices, mounts and drivers in order  *)
(* and its statics together, for every set of boot orders and every number *)
(* of controllers, boot entries and calls: MediaInv is inductive.          *)
(***************************************************************************)
EXTENDS BootMedia, WellFoundedInduction, SequenceTheorems, TLAPS

----------------------------------------------------------------------------
(* Sequences *)

\* SelectInSeq takes the least index, which a set of naturals has.
LEMMA MinOfNats ==
    ASSUME NEW S, S \subseteq Nat, S # {}
    PROVE  Min(S) \in S /\ \A y \in S : Min(S) <= y
<1>1. \E x \in S : \A y \in S : ~(<<y, x>> \in OpToRel(<, Nat))
    BY NatLessThanWellFounded, WFMin, Zenon
<1>2. OpToRel(<, Nat) = {p \in Nat \X Nat : p[1] < p[2]}
    BY Zenon DEF OpToRel
<1>3. \E x \in S : \A y \in S : ~(<<y, x>> \in {p \in Nat \X Nat : p[1] < p[2]})
    BY <1>1, <1>2, Zenon
<1>4. \A x, y \in S : ~(<<y, x>> \in {p \in Nat \X Nat : p[1] < p[2]}) => x =< y
  <2>1. ASSUME NEW x \in S, NEW y \in S, y < x
        PROVE  <<y, x>> \in {p \in Nat \X Nat : p[1] < p[2]}
      BY <2>1
  <2>. QED BY <2>1
<1>. QED BY <1>3, <1>4, Zenon DEF Min

\* RemoveFirst takes out the element and nothing else, if no element is there twice.
LEMMA RemoveFirstElement ==
    ASSUME NEW s \in Seq(Nat), NEW k \in 1..Len(s),
           \A x, y \in 1..Len(s) : x # y => s[x] # s[y]
    PROVE  LET t == RemoveFirst(s, s[k])
           IN  /\ t \in Seq(Nat) /\ Len(t) = Len(s) - 1
               /\ \A x \in 1..Len(t) : t[x] = IF x < k THEN s[x] ELSE s[x + 1]
<1>0. {x \in 1..Len(s) : s[x] = s[k]} = {k} /\ {k} # {} /\ {k} \subseteq Nat
    OBVIOUS
<1>1. SelectInSeq(s, LAMBDA v : v = s[k]) = Min({k})
    BY <1>0, Zenon DEF SelectInSeq
<1>6. Min({k}) = k
    BY <1>0, MinOfNats, Zenon
<1>2. RemoveFirst(s, s[k]) = RemoveAt(s, k)
    BY <1>1, <1>6, Zenon DEF RemoveFirst
<1>. DEFINE a == SubSeq(s, 1, k - 1)
            b == SubSeq(s, k + 1, Len(s))
<1>3. /\ a \in Seq(Nat) /\ Len(a) = k - 1
      /\ \A x \in 1..(k - 1) : a[x] = s[x]
    BY SMT
<1>4. /\ b \in Seq(Nat) /\ Len(b) = Len(s) - k
      /\ \A x \in 1..(Len(s) - k) : b[x] = s[k + x]
    BY SMT
<1>. HIDE DEF a, b
<1>5. /\ a \o b \in Seq(Nat) /\ Len(a \o b) = Len(s) - 1
      /\ \A x \in 1..(Len(s) - 1) : (a \o b)[x] = IF x < k THEN s[x] ELSE s[x + 1]
  <2>1. /\ a \o b \in Seq(Nat) /\ Len(a \o b) = Len(a) + Len(b)
        /\ \A x \in 1..(Len(a) + Len(b)) : (a \o b)[x] = IF x <= Len(a) THEN a[x] ELSE b[x - Len(a)]
      BY <1>3, <1>4, ConcatProperties, ZenonT(60)
  <2>. DEFINE c == a \o b
  <2>. HIDE DEF c
  <2>2. \A x \in 1..(Len(s) - 1) : c[x] = IF x <= k - 1 THEN a[x] ELSE b[x - (k - 1)]
    <3>1. /\ Len(a) = k - 1 /\ Len(b) = Len(s) - k
          /\ \A x \in 1..(Len(a) + Len(b)) : c[x] = IF x <= Len(a) THEN a[x] ELSE b[x - Len(a)]
        BY <2>1, <1>3, <1>4, Zenon DEF c
    <3>2. 1..(Len(a) + Len(b)) = 1..(Len(s) - 1)
        BY <3>1, SMT
    <3>. QED BY <3>1, <3>2, Zenon
  <2>3. ASSUME NEW x \in 1..(Len(s) - 1)
        PROVE  c[x] = IF x < k THEN s[x] ELSE s[x + 1]
    <3>1. CASE x < k
        BY <3>1, <2>2, <1>3, SMT
    <3>2. CASE ~(x < k)
      <4>0. ~(x <= k - 1)
          BY <3>2, SMT
      <4>1. c[x] = b[x - (k - 1)]
          BY <4>0, <2>2, Zenon
      <4>2. b[x - (k - 1)] = s[k + (x - (k - 1))]
          BY <3>2, <1>4, SMTT(60)
      <4>3. k + (x - (k - 1)) = x + 1
          BY SMT
      <4>. QED BY <3>2, <4>1, <4>2, <4>3
    <3>. QED BY <3>1, <3>2
  <2>4. a \o b \in Seq(Nat) /\ Len(a \o b) = Len(s) - 1
      BY <2>1, <1>3, <1>4, SMT
  <2>. QED BY <2>3, <2>4, Zenon DEF c
<1>. QED BY <1>2, <1>5, Zenon DEF RemoveAt, a, b

\* The lists with one or two entries that an attempt adds to and takes from.
LEMMA RemoveAtHead ==
    /\ \A x : RemoveAt(<<x>>, 1) = <<>>
    /\ \A x, y : RemoveAt(<<x, y>>, 1) = <<y>>
<1>1. \A x : RemoveAt(<<x>>, 1) = <<>>
    BY SMT DEF RemoveAt
<1>2. ASSUME NEW x, NEW y PROVE RemoveAt(<<x, y>>, 1) = <<y>>
  <2>1. SubSeq(<<x, y>>, 1, 0) = <<>>
      BY SMT
  <2>2. SubSeq(<<x, y>>, 2, 2) = <<y>>
    <3>. DEFINE t == <<x, y>>
                u == SubSeq(t, 2, 2)
    <3>1. t \in Seq({x, y}) /\ Len(t) = 2 /\ t[2] = y
        BY SMT
    <3>. HIDE DEF t
    <3>2. u \in Seq({x, y}) /\ Len(u) = 1 /\ u[1] = t[2]
        BY <3>1, SMT
    <3>. HIDE DEF u
    <3>3. u = <<y>>
        BY <3>1, <3>2, SMT
    <3>. QED BY <3>3, Zenon DEF u, t
  <2>3. RemoveAt(<<x, y>>, 1) = SubSeq(<<x, y>>, 1, 1 - 1) \o SubSeq(<<x, y>>, 1 + 1, Len(<<x, y>>))
      BY Zenon DEF RemoveAt
  <2>4. 1 - 1 = 0 /\ 1 + 1 = 2 /\ Len(<<x, y>>) = 2
      BY SMT
  <2>5. <<>> \o <<y>> = <<y>>
      BY SMT
  <2>. QED BY <2>1, <2>2, <2>3, <2>4, <2>5, Zenon
<1>. QED BY <1>1, <1>2

----------------------------------------------------------------------------
(* The operators on the media *)

LEMMA SelfPrefix == \A k \in Kinds : IsPrefix(Prefix[k], Prefix[k])
<1>1. \A k \in Kinds : Len(Prefix[k]) \in Nat
    BY SMT DEF Kinds, Prefix
<1>. QED BY <1>1, SMT DEF IsPrefix

\* What a device list without a gap gives for an id that is, or is not, in it.
LEMMA OpenFinds ==
    ASSUME NEW mm \in Media, ListSound(mm), NEW id
    PROVE  LET o == tegrabl_blockdev_open(mm, id)
               J == {j \in 1..Len(mm.bdevs) : mm.devs[mm.bdevs[j]].id = id}
           IN  /\ J # {} => \E j \in J : o = mm.bdevs[j]
               /\ J = {} => o = NoDev
               /\ 1 \in J => o = mm.bdevs[1]
<1>. DEFINE J == {j \in 1..Len(mm.bdevs) : mm.devs[mm.bdevs[j]].id = id}
            I == {j \in 1..Len(mm.bdevs) : mm.devs[mm.bdevs[j]].ref = 0 \/ mm.devs[mm.bdevs[j]].id = id}
            at == IF I # {} THEN Min(I) ELSE 0
<1>1. I = J
    BY DEF ListSound
<1>2. J # {} => at \in J
  <2>1. J \subseteq Nat
      BY SMT
  <2>. HIDE DEF I, J
  <2>. QED BY <1>1, <2>1, MinOfNats, Zenon
<1>3. tegrabl_blockdev_open(mm, id) =
        IF at = 0 \/ mm.devs[mm.bdevs[at]].ref = 0 THEN NoDev ELSE mm.bdevs[at]
    BY Zenon DEF tegrabl_blockdev_open, SelectInSeq
<1>4. J = {} => at = 0
    BY <1>1
<1>5. \A j \in J : j # 0 /\ mm.devs[mm.bdevs[j]].ref # 0
    BY <1>1, SMT DEF ListSound
<1>. HIDE DEF J, I, at
<1>6. J # {} => tegrabl_blockdev_open(mm, id) = mm.bdevs[at]
    BY <1>2, <1>3, <1>5, Zenon
<1>7. J = {} => tegrabl_blockdev_open(mm, id) = NoDev
    BY <1>3, <1>4, Zenon
<1>8. 1 \in J => at = 1
  <2>1. J \subseteq 1..Len(mm.bdevs)
      BY DEF J
  <2>2. J \subseteq Nat /\ \A j \in J : 1 <= j
      BY <2>1, SMT
  <2>3. ASSUME 1 \in J PROVE at = 1
    <3>1. Min(J) \in J /\ Min(J) <= 1
        BY <2>2, <2>3, MinOfNats, Zenon
    <3>2. at \in J /\ at <= 1
        BY <3>1, <1>1, <2>3, Zenon DEF at
    <3>3. at \in Nat /\ 1 <= at
        BY <3>2, <2>2, Zenon
    <3>. QED BY <3>2, <3>3, SMT
  <2>. QED BY <2>3
<1>. QED BY <1>2, <1>6, <1>7, <1>8, Zenon DEF J

\* The fields of the media, changed one at a time.
LEMMA MediaFields ==
    ASSUME NEW mm \in Media
    PROVE  /\ mm.devs \in Seq(Devices) /\ mm.bdevs \in Seq(Nat) /\ mm.storage \in Seq(Nat)
           /\ mm.mounts \in Seq([kind : Kinds, dev : Nat, ref : Nat])
           /\ mm.driver \in [Kinds -> BOOLEAN] /\ mm.stuck \in BOOLEAN
           /\ mm.fault \in SUBSET {"device", "section", "forced close"}
           /\ mm = [devs |-> mm.devs, bdevs |-> mm.bdevs, storage |-> mm.storage, mounts |-> mm.mounts,
                    driver |-> mm.driver, stuck |-> mm.stuck, fault |-> mm.fault]
    BY Zenon DEF Media

\* A change of one device leaves the others alone.
LEMMA DeviceChanged ==
    ASSUME NEW ds \in Seq(Devices), NEW o \in 1..Len(ds), NEW d \in Devices
    PROVE  LET es == [ds EXCEPT ![o] = d]
           IN  /\ es \in Seq(Devices) /\ Len(es) = Len(ds) /\ es[o] = d
               /\ \A x \in 1..Len(ds) : x # o => es[x] = ds[x]
    BY SMT

\* The close functions of the drivers change neither the lists nor the references,
\* and the one of NVMe leaves the driver free unless it gets stuck.
LEMMA HookEffect ==
    ASSUME NEW mm \in Media, NEW o \in 1..Len(mm.devs), NEW ok \in BOOLEAN
    PROVE  LET h == CloseHook(mm, o, ok)
           IN  /\ h \in Media /\ Len(h.devs) = Len(mm.devs)
               /\ \A x \in 1..Len(mm.devs) :
                     /\ h.devs[x].id = mm.devs[x].id /\ h.devs[x].ref = mm.devs[x].ref
                     /\ h.devs[x].live = mm.devs[x].live
                     /\ h.devs[x].published = mm.devs[x].published
               /\ h.bdevs = mm.bdevs /\ h.storage = mm.storage /\ h.mounts = mm.mounts
               /\ h.fault = mm.fault
               /\ h.driver["nvme"] /\ ~h.stuck => mm.driver["nvme"] /\ ~mm.stuck
               /\ mm.devs[o].id[1] = "nvme" => (h.driver["nvme"] => h.stuck)
<1>. DEFINE h == CloseHook(mm, o, ok)
            kind == mm.devs[o].id[1]
            d == [mm.devs[o] EXCEPT !.open = FALSE]
            es == [mm.devs EXCEPT ![o] = d]
<1>0. mm.devs \in Seq(Devices) /\ mm.driver \in [Kinds -> BOOLEAN] /\ mm.stuck \in BOOLEAN
    BY MediaFields, Zenon
<1>1. mm.devs[o] \in Devices
    BY <1>0
<1>7. kind \in Kinds
    BY <1>1 DEF Devices
<1>2. /\ d \in Devices /\ d.id = mm.devs[o].id /\ d.ref = mm.devs[o].ref
      /\ d.live = mm.devs[o].live /\ d.published = mm.devs[o].published
    BY <1>1 DEF Devices
<1>3. /\ es \in Seq(Devices) /\ Len(es) = Len(mm.devs)
      /\ \A x \in 1..Len(mm.devs) :
            /\ es[x].id = mm.devs[x].id /\ es[x].ref = mm.devs[x].ref
            /\ es[x].live = mm.devs[x].live /\ es[x].published = mm.devs[x].published
  <2>. HIDE DEF d
  <2>1. /\ es \in Seq(Devices) /\ Len(es) = Len(mm.devs) /\ es[o] = d
        /\ \A x \in 1..Len(mm.devs) : x # o => es[x] = mm.devs[x]
      BY <1>0, <1>2, DeviceChanged
  <2>. HIDE DEF es
  <2>. QED BY <1>2, <2>1, Zenon
<1>4. CASE kind = "nvme" /\ ~mm.driver["nvme"]
  <2>1. h = mm
      BY <1>4, Zenon DEF CloseHook
  <2>. QED BY <2>1, <1>4, Zenon
<1>5. CASE kind = "nvme" /\ mm.driver["nvme"]
  <2>. DEFINE dr == [mm.driver EXCEPT !["nvme"] = ~ok]
  <2>1. h = [mm EXCEPT !.devs[o].open = FALSE, !.driver["nvme"] = ~ok, !.stuck = @ \/ ~ok]
      BY <1>5, Zenon DEF CloseHook
  <2>2. h = [mm EXCEPT !.devs = es, !.driver = dr, !.stuck = mm.stuck \/ ~ok]
      BY <2>1, Zenon DEF Media
  <2>3. dr \in [Kinds -> BOOLEAN] /\ dr["nvme"] = ~ok
      BY <1>0, Zenon DEF Kinds
  <2>4. (mm.stuck \/ ~ok) \in BOOLEAN
      BY Zenon
  <2>. HIDE DEF es, h, dr
  <2>5. /\ h \in Media /\ h.devs = es /\ h.driver = dr /\ h.stuck = (mm.stuck \/ ~ok)
        /\ h.bdevs = mm.bdevs /\ h.storage = mm.storage
        /\ h.mounts = mm.mounts /\ h.fault = mm.fault
      BY <2>2, <2>3, <2>4, <1>3, Zenon DEF Media
  <2>. QED BY <2>3, <2>5, <1>3, <1>5, Zenon DEF h
<1>6. CASE kind # "nvme"
  <2>. DEFINE dr == [mm.driver EXCEPT ![kind] = (kind = "sd")]
  <2>1. h = [mm EXCEPT !.devs[o].open = FALSE, !.driver[kind] = (kind = "sd")]
      BY <1>6, Zenon DEF CloseHook
  <2>2. h = [mm EXCEPT !.devs = es, !.driver = dr]
      BY <2>1, Zenon DEF Media
  <2>3. dr \in [Kinds -> BOOLEAN] /\ dr["nvme"] = mm.driver["nvme"]
    <3>. HIDE DEF kind
    <3>. QED BY <1>0, <1>6, Zenon DEF Kinds
  <2>. HIDE DEF es, h, dr
  <2>5. /\ h \in Media /\ h.devs = es /\ h.driver = dr /\ h.stuck = mm.stuck
        /\ h.bdevs = mm.bdevs /\ h.storage = mm.storage
        /\ h.mounts = mm.mounts /\ h.fault = mm.fault
      BY <2>2, <2>3, <1>3, Zenon DEF Media
  <2>. QED BY <2>3, <2>5, <1>3, <1>6, Zenon DEF h
<1>. QED BY <1>4, <1>5, <1>6, Zenon

\* A reference that is not the last one is given back.
LEMMA CloseShared ==
    ASSUME NEW mm \in Media, ListSound(mm), NEW k \in 1..Len(mm.bdevs),
           mm.devs[mm.bdevs[k]].ref > 1, NEW ok
    PROVE  LET o == mm.bdevs[k]
               c == tegrabl_blockdev_close(mm, o, ok)
           IN  /\ c \in Media /\ Len(c.devs) = Len(mm.devs)
               /\ c.devs[o] = [mm.devs[o] EXCEPT !.ref = mm.devs[o].ref - 1]
               /\ \A x \in 1..Len(mm.devs) : x # o => c.devs[x] = mm.devs[x]
               /\ c.bdevs = mm.bdevs /\ c.storage = mm.storage /\ c.mounts = mm.mounts
               /\ c.driver = mm.driver /\ c.stuck = mm.stuck /\ c.fault = mm.fault
<1>. DEFINE o == mm.bdevs[k]
            c == tegrabl_blockdev_close(mm, o, ok)
            v == IF mm.devs[o].ref > 0 THEN mm.devs[o].ref - 1 ELSE mm.devs[o].ref
            d == [mm.devs[o] EXCEPT !.ref = v]
            es == [mm.devs EXCEPT ![o] = d]
<1>0. mm.devs \in Seq(Devices)
    BY MediaFields, Zenon
<1>1. o \in 1..Len(mm.devs) /\ mm.devs[o].live
    BY Zenon DEF ListSound
<1>2. mm.devs[o] \in Devices
    BY <1>0, <1>1
<1>3. v = mm.devs[o].ref - 1 /\ v \in Nat /\ mm.devs[o].ref # 1
    BY <1>2 DEF Devices
<1>4. d \in Devices
  <2>. HIDE DEF v
  <2>. QED BY <1>2, <1>3 DEF Devices
<1>5. Touch(mm, o) = mm
    BY <1>1, Zenon DEF Touch
<1>6. c = [mm EXCEPT !.devs[o].ref = IF @ > 0 THEN @ - 1 ELSE @]
  <2>1. c = bdev_dec_ref(mm, o, ok)
      BY <1>5, Zenon DEF tegrabl_blockdev_close
  <2>2. ~(mm.devs[o].ref = 1 /\ o \in Range(mm.bdevs))
      BY <1>3, Zenon
  <2>. HIDE DEF c, o
  <2>. QED BY <2>1, <2>2, Zenon DEF bdev_dec_ref
<1>7. c = [mm EXCEPT !.devs = es]
    BY <1>6, Zenon DEF Media
<1>. HIDE DEF c, d, o
<1>8. /\ es \in Seq(Devices) /\ Len(es) = Len(mm.devs) /\ es[o] = d
      /\ \A x \in 1..Len(mm.devs) : x # o => es[x] = mm.devs[x]
    BY <1>0, <1>1, <1>4, DeviceChanged
<1>. HIDE DEF es
<1>9. /\ c \in Media /\ c.devs = es
      /\ c.bdevs = mm.bdevs /\ c.storage = mm.storage /\ c.mounts = mm.mounts
      /\ c.driver = mm.driver /\ c.stuck = mm.stuck /\ c.fault = mm.fault
    BY <1>7, <1>8, Zenon DEF Media
<1>10. d = [mm.devs[o] EXCEPT !.ref = mm.devs[o].ref - 1]
    BY <1>3, Zenon DEF d
<1>. QED BY <1>8, <1>9, <1>10, Zenon DEF c, o

\* With the last reference a device leaves the list, which stays sound without it.
LEMMA CloseLast ==
    ASSUME NEW mm \in Media, ListSound(mm), NEW k \in 1..Len(mm.bdevs), mm.bdevs[k] # 1,
           mm.devs[mm.bdevs[k]].ref = 1, OthersAtRest(mm, mm.bdevs[k]), NEW ok \in BOOLEAN
    PROVE  LET o == mm.bdevs[k]
               c == tegrabl_blockdev_close(mm, o, ok)
           IN  /\ c \in Media /\ ListSound(c) /\ OthersAtRest(c, NoDev)
               /\ Len(c.devs) = Len(mm.devs) /\ c.devs[o].id = mm.devs[o].id
               /\ c.storage = mm.storage /\ c.mounts = mm.mounts
               /\ c.driver["nvme"] /\ ~c.stuck => mm.driver["nvme"] /\ ~mm.stuck
<1>. DEFINE o == mm.bdevs[k]
            c == tegrabl_blockdev_close(mm, o, ok)
            v == IF mm.devs[o].ref > 0 THEN mm.devs[o].ref - 1 ELSE mm.devs[o].ref
            d == [mm.devs[o] EXCEPT !.ref = v]
            es == [mm.devs EXCEPT ![o] = d]
            rest == RemoveFirst(mm.bdevs, o)
            low == [mm EXCEPT !.devs = es, !.bdevs = rest]
            h == CloseHook(low, o, ok)
            e == [h.devs[o] EXCEPT !.live = FALSE]
            fs == [h.devs EXCEPT ![o] = e]
<1>0. mm.devs \in Seq(Devices) /\ mm.bdevs \in Seq(Nat)
    BY MediaFields, Zenon
<1>1. o \in 1..Len(mm.devs) /\ mm.devs[o].live
    BY Zenon DEF ListSound
<1>2. mm.devs[o] \in Devices
    BY <1>0, <1>1
<1>3. v \in Nat
    BY <1>2 DEF Devices
<1>4. d \in Devices /\ d.id = mm.devs[o].id
  <2>. HIDE DEF v
  <2>. QED BY <1>2, <1>3 DEF Devices
<1>5. Touch(mm, o) = mm
    BY <1>1, Zenon DEF Touch
<1>6. o \in Range(mm.bdevs)
    BY <1>0, Zenon, LenProperties DEF Range
<1>7. c = [CloseHook([[mm EXCEPT !.devs[o].ref = IF @ > 0 THEN @ - 1 ELSE @] EXCEPT !.bdevs = RemoveFirst(@, o)], o, ok)
             EXCEPT !.devs[o].live = FALSE]
    BY <1>5, <1>6, Zenon DEF tegrabl_blockdev_close, bdev_dec_ref
<1>8. [[mm EXCEPT !.devs[o].ref = IF @ > 0 THEN @ - 1 ELSE @] EXCEPT !.bdevs = RemoveFirst(@, o)] = low
    BY Zenon DEF Media
<1>9. c = [h EXCEPT !.devs[o].live = FALSE]
    BY <1>7, <1>8, Zenon
<1>10. /\ es \in Seq(Devices) /\ Len(es) = Len(mm.devs) /\ es[o] = d
       /\ \A x \in 1..Len(mm.devs) : x # o => es[x] = mm.devs[x]
  <2>. HIDE DEF d, o
  <2>. QED BY <1>0, <1>1, <1>4, DeviceChanged
<1>11. /\ rest \in Seq(Nat) /\ Len(rest) = Len(mm.bdevs) - 1
       /\ \A x \in 1..Len(rest) : rest[x] = IF x < k THEN mm.bdevs[x] ELSE mm.bdevs[x + 1]
  <2>1. \A x, y \in 1..Len(mm.bdevs) : x # y => mm.bdevs[x] # mm.bdevs[y]
      BY Zenon DEF ListSound
  <2>. QED BY <2>1, <1>0, RemoveFirstElement, Zenon
<1>12. /\ low \in Media /\ low.devs = es /\ low.bdevs = rest /\ low.storage = mm.storage
       /\ low.mounts = mm.mounts /\ low.driver = mm.driver /\ low.stuck = mm.stuck
       /\ low.fault = mm.fault
  <2>. HIDE DEF es, rest
  <2>. QED BY <1>10, <1>11, Zenon DEF Media
<1>13. o \in 1..Len(low.devs)
    BY <1>1, <1>10, <1>12, ZenonT(60)
<1>14. /\ h \in Media /\ Len(h.devs) = Len(low.devs)
       /\ \A x \in 1..Len(low.devs) :
             /\ h.devs[x].id = low.devs[x].id /\ h.devs[x].ref = low.devs[x].ref
             /\ h.devs[x].live = low.devs[x].live
             /\ h.devs[x].published = low.devs[x].published
       /\ h.bdevs = low.bdevs /\ h.storage = low.storage /\ h.mounts = low.mounts
       /\ h.fault = low.fault
       /\ h.driver["nvme"] /\ ~h.stuck => low.driver["nvme"] /\ ~low.stuck
  <2>. HIDE DEF low, o
  <2>1. low \in Media
      BY <1>12
  <2>. QED BY <2>1, <1>13, HookEffect
<1>. HIDE DEF c, h, low, es, d, rest, v
<1>15. h.devs \in Seq(Devices) /\ o \in 1..Len(h.devs)
    BY <1>13, <1>14, MediaFields, Zenon
<1>16. h.devs[o] \in Devices
    BY <1>15
<1>17. e \in Devices /\ e.id = h.devs[o].id
    BY <1>16 DEF Devices
<1>18. c = [h EXCEPT !.devs = fs]
    BY <1>9, <1>14, Zenon DEF Media
<1>19. /\ fs \in Seq(Devices) /\ Len(fs) = Len(h.devs) /\ fs[o] = e
       /\ \A x \in 1..Len(h.devs) : x # o => fs[x] = h.devs[x]
  <2>. HIDE DEF e, o
  <2>. QED BY <1>15, <1>17, DeviceChanged
<1>. HIDE DEF fs, e
<1>20. /\ c \in Media /\ c.devs = fs
       /\ c.bdevs = h.bdevs /\ c.storage = h.storage /\ c.mounts = h.mounts
       /\ c.driver = h.driver /\ c.stuck = h.stuck /\ c.fault = h.fault
    BY <1>14, <1>18, <1>19, Zenon DEF Media
<1>21. /\ Len(c.devs) = Len(mm.devs) /\ c.devs[o].id = mm.devs[o].id
       /\ \A x \in 1..Len(mm.devs) : x # o =>
             /\ c.devs[x].id = mm.devs[x].id /\ c.devs[x].ref = mm.devs[x].ref
             /\ c.devs[x].live = mm.devs[x].live /\ c.devs[x].published = mm.devs[x].published
  <2>1. Len(c.devs) = Len(mm.devs) /\ Len(h.devs) = Len(mm.devs)
      BY <1>10, <1>12, <1>14, <1>19, <1>20, Zenon
  <2>2. c.devs[o].id = mm.devs[o].id
      BY <1>1, <1>4, <1>10, <1>12, <1>14, <1>17, <1>19, <1>20, ZenonT(60)
  <2>3. ASSUME NEW x \in 1..Len(mm.devs), x # o
        PROVE  /\ c.devs[x].id = mm.devs[x].id /\ c.devs[x].ref = mm.devs[x].ref
               /\ c.devs[x].live = mm.devs[x].live /\ c.devs[x].published = mm.devs[x].published
    <3>1. c.devs[x] = h.devs[x] /\ low.devs[x] = mm.devs[x]
        BY <2>1, <2>3, <1>10, <1>12, <1>19, <1>20, Zenon
    <3>2. x \in 1..Len(low.devs)
        BY <1>10, <1>12, Zenon
    <3>. QED BY <3>1, <3>2, <1>14, Zenon
  <2>. QED BY <2>1, <2>2, <2>3, Zenon
<1>22. /\ c.bdevs = rest /\ c.fault = mm.fault /\ c.storage = mm.storage /\ c.mounts = mm.mounts
       /\ c.driver["nvme"] /\ ~c.stuck => mm.driver["nvme"] /\ ~mm.stuck
    BY <1>12, <1>14, <1>20, Zenon
<1>23. \A x \in 1..Len(rest) : \E y \in 1..Len(mm.bdevs) :
          y # k /\ rest[x] = mm.bdevs[y] /\ (y = IF x < k THEN x ELSE x + 1)
  <2>1. ASSUME NEW x \in 1..Len(rest)
        PROVE  \E y \in 1..Len(mm.bdevs) :
                  y # k /\ rest[x] = mm.bdevs[y] /\ (y = IF x < k THEN x ELSE x + 1)
    <3>. DEFINE y == IF x < k THEN x ELSE x + 1
    <3>0. Len(mm.bdevs) \in Nat /\ x \in 1..(Len(mm.bdevs) - 1)
        BY <1>0, <1>11, LenProperties, Zenon
    <3>1. y \in 1..Len(mm.bdevs) /\ y # k
        BY <3>0, SMT
    <3>2. rest[x] = mm.bdevs[y]
        BY <1>11, Zenon
    <3>. QED BY <3>1, <3>2, Zenon
  <2>. QED BY <2>1, Zenon
<1>24. \A x \in 1..Len(rest) : rest[x] \in 1..Len(mm.devs) /\ rest[x] # o
  <2>1. ASSUME NEW x \in 1..Len(rest)
        PROVE  rest[x] \in 1..Len(mm.devs) /\ rest[x] # o
    <3>1. PICK y \in 1..Len(mm.bdevs) : y # k /\ rest[x] = mm.bdevs[y]
        BY <1>23, Zenon
    <3>. QED BY <3>1, Zenon DEF ListSound
  <2>. QED BY <2>1, Zenon
<1>25. ListSound(c)
  <2>1. Len(rest) > 0 /\ rest[1] = 1
    <3>1. k # 1 /\ mm.bdevs[1] = 1
        BY DEF ListSound
    <3>. QED BY <3>1, <1>0, <1>11, SMTT(60)
  <2>2. \A x, y \in 1..Len(rest) : x # y => rest[x] # rest[y]
    <3>1. ASSUME NEW x \in 1..Len(rest), NEW y \in 1..Len(rest), x # y
          PROVE  rest[x] # rest[y]
      <4>1. PICK a \in 1..Len(mm.bdevs) : rest[x] = mm.bdevs[a] /\ (a = IF x < k THEN x ELSE x + 1)
          BY <1>23, Zenon
      <4>2. PICK b \in 1..Len(mm.bdevs) : rest[y] = mm.bdevs[b] /\ (b = IF y < k THEN y ELSE y + 1)
          BY <1>23, Zenon
      <4>3. a # b
          BY <3>1, <4>1, <4>2, <1>11, SMT
      <4>. QED BY <4>1, <4>2, <4>3, Zenon DEF ListSound
    <3>. QED BY <3>1, Zenon
  <2>3. \A x \in 1..Len(rest) :
            rest[x] \in 1..Len(c.devs) /\ c.devs[rest[x]].live /\ c.devs[rest[x]].ref > 0
    <3>1. ASSUME NEW x \in 1..Len(rest)
          PROVE  rest[x] \in 1..Len(c.devs) /\ c.devs[rest[x]].live /\ c.devs[rest[x]].ref > 0
      <4>1. PICK y \in 1..Len(mm.bdevs) : rest[x] = mm.bdevs[y]
          BY <1>23, Zenon
      <4>2. mm.devs[rest[x]].live /\ mm.devs[rest[x]].ref > 0
          BY <4>1, Zenon DEF ListSound
      <4>. QED BY <4>2, <1>21, <1>24, Zenon
    <3>. QED BY <3>1, Zenon
  <2>4. c.devs[1].id = Emmc /\ c.devs[1].published
    <3>1. 1 \in 1..Len(mm.devs) /\ 1 # o
        BY <2>1, <1>24, <1>11, SMT
    <3>. QED BY <3>1, <1>21, Zenon DEF ListSound
  <2>. QED BY <2>1, <2>2, <2>3, <2>4, <1>22, Zenon DEF ListSound
<1>26. OthersAtRest(c, NoDev)
  <2>1. ASSUME NEW x \in 1..Len(rest), rest[x] # 1
        PROVE  c.devs[rest[x]].ref = 1 /\ ~c.devs[rest[x]].published
    <3>1. PICK y \in 1..Len(mm.bdevs) : rest[x] = mm.bdevs[y]
        BY <1>23, Zenon
    <3>2. mm.devs[rest[x]].ref = 1 /\ ~mm.devs[rest[x]].published
        BY <2>1, <3>1, <1>24, Zenon DEF OthersAtRest
    <3>. QED BY <3>2, <1>21, <1>24, Zenon
  <2>. QED BY <2>1, <1>22, Zenon DEF OthersAtRest
<1>. QED BY <1>20, <1>21, <1>22, <1>25, <1>26, Zenon DEF c

\* What the list says depends on the devices, the list and the faults only.
LEMMA SameList ==
    ASSUME NEW mm, NEW c, c.devs = mm.devs, c.bdevs = mm.bdevs, c.fault = mm.fault
    PROVE  /\ ListSound(mm) => ListSound(c)
           /\ \A o : OthersAtRest(mm, o) => OthersAtRest(c, o)
<1>1. ListSound(mm) => ListSound(c)
    BY SMT DEF ListSound
<1>2. ASSUME NEW o PROVE OthersAtRest(mm, o) => OthersAtRest(c, o)
    BY SMT DEF OthersAtRest
<1>. QED BY <1>1, <1>2, Zenon

\* What the list says does not depend on the published flag, the open flag or the
\* reference count of one device, as long as it has a reference.
LEMMA OneDeviceChanged ==
    ASSUME NEW mm \in Media, NEW c \in Media, NEW o \in 1..Len(mm.devs),
           Len(c.devs) = Len(mm.devs), c.bdevs = mm.bdevs, c.fault = mm.fault,
           \A x \in 1..Len(mm.devs) : x # o =>
              /\ c.devs[x].id = mm.devs[x].id /\ c.devs[x].ref = mm.devs[x].ref
              /\ c.devs[x].live = mm.devs[x].live /\ c.devs[x].published = mm.devs[x].published,
           c.devs[o].id = mm.devs[o].id, c.devs[o].live = mm.devs[o].live, c.devs[o].ref > 0,
           o = 1 => c.devs[o].published,
           ListSound(mm), OthersAtRest(mm, o)
    PROVE  ListSound(c) /\ OthersAtRest(c, o)
<1>1. \A j \in 1..Len(c.bdevs) :
         /\ c.bdevs[j] \in 1..Len(c.devs)
         /\ c.devs[c.bdevs[j]].live /\ c.devs[c.bdevs[j]].ref > 0
  <2>1. ASSUME NEW j \in 1..Len(c.bdevs)
        PROVE  /\ c.bdevs[j] \in 1..Len(c.devs)
               /\ c.devs[c.bdevs[j]].live /\ c.devs[c.bdevs[j]].ref > 0
    <3>1. /\ c.bdevs[j] \in 1..Len(mm.devs)
          /\ mm.devs[c.bdevs[j]].live /\ mm.devs[c.bdevs[j]].ref > 0
        BY Zenon DEF ListSound
    <3>. QED BY <3>1, Zenon
  <2>. QED BY <2>1, Zenon
<1>2. c.devs[1].id = Emmc /\ c.devs[1].published
  <2>1. 1 \in 1..Len(mm.devs)
    <3>1. mm.bdevs \in Seq(Nat)
        BY MediaFields, Zenon
    <3>2. 1 \in 1..Len(mm.bdevs)
        BY <3>1 DEF ListSound
    <3>. QED BY <3>2, Zenon DEF ListSound
  <2>2. mm.devs[1].id = Emmc /\ mm.devs[1].published
      BY Zenon DEF ListSound
  <2>. QED BY <2>1, <2>2, Zenon
<1>3. ListSound(c)
  <2>1. Len(c.bdevs) > 0 /\ c.bdevs[1] = 1 /\ "device" \notin c.fault
      BY Zenon DEF ListSound
  <2>2. \A j, k \in 1..Len(c.bdevs) : j # k => c.bdevs[j] # c.bdevs[k]
      BY SMT DEF ListSound
  <2>. QED BY <2>1, <2>2, <1>1, <1>2, Zenon DEF ListSound
<1>4. OthersAtRest(c, o)
  <2>1. ASSUME NEW j \in 1..Len(c.bdevs), c.bdevs[j] \notin {1, o}
        PROVE  c.devs[c.bdevs[j]].ref = 1 /\ ~c.devs[c.bdevs[j]].published
    <3>1. mm.devs[c.bdevs[j]].ref = 1 /\ ~mm.devs[c.bdevs[j]].published
        BY <2>1, ZenonT(60) DEF OthersAtRest
    <3>2. c.bdevs[j] \in 1..Len(mm.devs) /\ c.bdevs[j] # o
        BY <1>1, <2>1, Zenon
    <3>. QED BY <3>1, <3>2, Zenon
  <2>. QED BY <2>1, Zenon DEF OthersAtRest
<1>. QED BY <1>3, <1>4

\* The partitions of the device of an attempt are taken off the list again.
LEMMA UnpublishEffect ==
    ASSUME NEW mm \in Media, NEW o, NEW id, NEW mnt \in BOOLEAN, o # 1,
           ListSound(mm), OthersAtRest(mm, o), Held(mm, o, id, mnt)
    PROVE  LET u == tegrabl_partitions_unpublish(mm, o)
           IN  /\ u \in Media /\ ListSound(u) /\ OthersAtRest(u, o)
               /\ Held(u, o, id, mnt) /\ ~u.devs[o].published
               /\ u.driver = mm.driver /\ u.stuck = mm.stuck
<1>. DEFINE u == tegrabl_partitions_unpublish(mm, o)
            d == [mm.devs[o] EXCEPT !.published = FALSE]
            es == [mm.devs EXCEPT ![o] = d]
            I == {j \in 1..Len(mm.storage) : mm.devs[mm.storage[j]].id = mm.devs[o].id}
            at == IF I # {} THEN Min(I) ELSE 0
<1>0. mm.devs \in Seq(Devices) /\ mm.bdevs \in Seq(Nat)
    BY MediaFields, Zenon
<1>1. o \in 1..Len(mm.devs) /\ mm.devs[o].live /\ mm.devs[o].ref > 0
    BY Zenon DEF ListSound, Held
<1>2. mm.devs[o] \in Devices
    BY <1>0, <1>1
<1>3. Touch(mm, o) = mm
    BY <1>1, Zenon DEF Touch
<1>4. SelectInSeq(mm.storage, LAMBDA x : mm.devs[x].id = mm.devs[o].id) = at
    BY Zenon DEF SelectInSeq
<1>5. CASE ~mm.devs[o].published
  <2>1. u = mm
      BY <1>3, <1>5, Zenon DEF tegrabl_partitions_unpublish
  <2>. QED BY <2>1, <1>5, Zenon
<1>6. CASE mm.devs[o].published
  <2>1. mm.storage = <<o, 1>>
      BY <1>6, Zenon DEF Held
  <2>2. at = 1
    <3>1. Len(mm.storage) = 2 /\ mm.storage[1] = o
        BY <2>1
    <3>2. I \subseteq Nat /\ 1 \in I /\ \A j \in I : 1 <= j
        BY <3>1
    <3>. HIDE DEF I
    <3>3. Min(I) \in I /\ Min(I) <= 1
        BY <3>2, MinOfNats, Zenon
    <3>4. Min(I) = 1
      <4>. DEFINE min == Min(I)
      <4>1. min \in Nat /\ min <= 1 /\ 1 <= min
          BY <3>2, <3>3, Zenon
      <4>. HIDE DEF min
      <4>2. min = 1
          BY <4>1, SMT
      <4>. QED BY <4>2, Zenon DEF min
    <3>. QED BY <3>2, <3>4, Zenon
  <2>3. RemoveAt(mm.storage, at) = <<1>>
      BY <2>1, <2>2, RemoveAtHead, Zenon
  <2>4. u = [mm EXCEPT !.storage = IF at = 0 THEN @ ELSE RemoveAt(@, at), !.devs[o].published = FALSE]
    <3>. DEFINE pos(t) == SelectInSeq(t.storage, LAMBDA x : t.devs[x].id = t.devs[o].id)
                U(t) == IF ~t.devs[o].published THEN t
                        ELSE [t EXCEPT !.storage = IF pos(t) = 0 THEN @ ELSE RemoveAt(@, pos(t)),
                                       !.devs[o].published = FALSE]
    <3>1. u = U(Touch(mm, o))
        BY Zenon DEF tegrabl_partitions_unpublish
    <3>. HIDE DEF U, u
    <3>2. u = U(mm)
        BY <3>1, <1>3, Zenon
    <3>. HIDE DEF pos, at
    <3>3. u = [mm EXCEPT !.storage = IF pos(mm) = 0 THEN @ ELSE RemoveAt(@, pos(mm)),
                         !.devs[o].published = FALSE]
        BY <3>2, <1>6, Zenon DEF U
    <3>4. pos(mm) = at
        BY <1>4, Zenon DEF pos
    <3>. QED BY <3>3, <3>4, Zenon
  <2>5. u = [mm EXCEPT !.storage = <<1>>, !.devs = es]
    <3>1. at # 0
        BY <2>2
    <3>. HIDE DEF at
    <3>. QED BY <3>1, <2>3, <2>4, Zenon DEF Media
  <2>6. /\ d \in Devices /\ d.id = mm.devs[o].id /\ d.ref = mm.devs[o].ref
        /\ d.live = mm.devs[o].live /\ d.published = FALSE
      BY <1>2 DEF Devices
  <2>. HIDE DEF d
  <2>7. /\ es \in Seq(Devices) /\ Len(es) = Len(mm.devs) /\ es[o] = d
        /\ \A x \in 1..Len(mm.devs) : x # o => es[x] = mm.devs[x]
      BY <1>0, <1>1, <2>6, DeviceChanged
  <2>8. <<1>> \in Seq(Nat)
      BY SMT
  <2>. HIDE DEF es, u, at, I
  <2>9. /\ u \in Media /\ u.devs = es /\ u.storage = <<1>>
        /\ u.bdevs = mm.bdevs /\ u.mounts = mm.mounts
        /\ u.driver = mm.driver /\ u.stuck = mm.stuck /\ u.fault = mm.fault
      BY <2>5, <2>7, <2>8, Zenon DEF Media
  <2>10. u.devs[o].ref > 0
      BY <2>6, <2>7, <2>9, <1>1, Zenon
  <2>11. ListSound(u) /\ OthersAtRest(u, o)
      BY <1>1, <2>6, <2>7, <2>9, <2>10, OneDeviceChanged, Zenon
  <2>12. Held(u, o, id, mnt)
      BY <2>6, <2>7, <2>9, Zenon DEF Held
  <2>. QED BY <2>6, <2>7, <2>9, <2>11, <2>12, Zenon DEF u
<1>. QED BY <1>5, <1>6

\* The mount of an attempt is undone, with the reference it was given.
Unmounted(f, mm, o, id) ==
    /\ f \in Media /\ ListSound(f) /\ OthersAtRest(f, o)
    /\ Held(f, o, id, FALSE) /\ f.storage = mm.storage
    /\ f.driver["nvme"] /\ ~f.stuck => mm.driver["nvme"] /\ ~mm.stuck

LEMMA FmCloseEffect ==
    ASSUME NEW mm \in Media, NEW o, NEW id, id[1] \in Kinds, NEW mnt \in BOOLEAN, NEW ok,
           ListSound(mm), OthersAtRest(mm, o), Held(mm, o, id, mnt)
    PROVE  Unmounted(tegrabl_fm_close(mm, id[1], mnt, ok), mm, o, id)
<1>. DEFINE f == tegrabl_fm_close(mm, id[1], mnt, ok)
            n == [mm EXCEPT !.mounts = <<>>]
            I == {j \in 1..Len(mm.mounts) : IsPrefix(Prefix[mm.mounts[j].kind], Prefix[id[1]])}
<1>1. CASE ~mnt
  <2>1. f = mm
      BY <1>1, Zenon DEF tegrabl_fm_close
  <2>. HIDE DEF f
  <2>2. Unmounted(f, mm, o, id)
      BY <2>1, <1>1, Zenon DEF Held, Unmounted
  <2>. QED BY <2>2, Zenon DEF f
<1>2. CASE mnt
  <2>1. /\ mm.mounts = << [kind |-> id[1], dev |-> o, ref |-> 1] >>
        /\ mm.devs[o].ref > 1
      BY <1>2, Zenon DEF Held
  <2>2. /\ Len(mm.mounts) = 1 /\ mm.mounts[1].kind = id[1]
        /\ mm.mounts[1].dev = o /\ mm.mounts[1].ref = 1
      BY <2>1
  <2>3. IsPrefix(Prefix[id[1]], Prefix[id[1]])
      BY SelfPrefix, Zenon
  <2>4. I = {1}
    <3>1. 1 \in I
        BY <2>2, <2>3
    <3>2. I \subseteq {1}
        BY <2>2
    <3>. QED BY <3>1, <3>2, Zenon
  <2>5. Min({1}) = 1
      BY MinOfNats
  <2>6. find_mount(mm, id[1]) = 1
    <3>1. find_mount(mm, id[1]) = IF I # {} THEN Min(I) ELSE 0
        BY Zenon DEF find_mount, SelectInSeq
    <3>. HIDE DEF I
    <3>2. I # {}
        BY <2>4, Zenon
    <3>. QED BY <3>1, <3>2, <2>4, <2>5, Zenon
  <2>7. f = put_mount(mm, 1, ok)
    <3>1. 1 # 0
        BY SMT
    <3>. QED BY <1>2, <2>6, <3>1, Zenon DEF tegrabl_fm_close, fs_unmount
  <2>8. f = tegrabl_blockdev_close([mm EXCEPT !.mounts = RemoveAt(@, 1)], o, ok)
    <3>1. ~(mm.mounts[1].ref > 1)
        BY <2>2
    <3>. HIDE DEF f
    <3>. QED BY <3>1, <2>2, <2>7, Zenon DEF put_mount
  <2>9. RemoveAt(mm.mounts, 1) = <<>>
      BY <2>1, RemoveAtHead, Zenon
  <2>10. f = tegrabl_blockdev_close(n, o, ok)
    <3>. HIDE DEF f
    <3>. QED BY <2>8, <2>9, Zenon DEF Media
  <2>. HIDE DEF I, n, f
  <2>11. <<>> \in Seq([kind : Kinds, dev : Nat, ref : Nat])
      BY EmptySeq, Zenon
  <2>12. /\ n \in Media /\ n.mounts = <<>> /\ n.devs = mm.devs /\ n.bdevs = mm.bdevs
         /\ n.storage = mm.storage /\ n.driver = mm.driver /\ n.stuck = mm.stuck
         /\ n.fault = mm.fault
      BY <2>11, Zenon DEF Media, n
  <2>13. ListSound(n) /\ OthersAtRest(n, o)
      BY <2>12, SameList, Zenon
  <2>14. PICK k \in 1..Len(n.bdevs) : n.bdevs[k] = o
      BY <2>12, Zenon DEF Held
  <2>15. n.devs[n.bdevs[k]].ref > 1
      BY <2>1, <2>12, <2>14, Zenon
  <2>16. /\ f \in Media /\ Len(f.devs) = Len(n.devs)
         /\ f.devs[o] = [n.devs[o] EXCEPT !.ref = n.devs[o].ref - 1]
         /\ \A x \in 1..Len(n.devs) : x # o => f.devs[x] = n.devs[x]
         /\ f.bdevs = n.bdevs /\ f.storage = n.storage /\ f.mounts = n.mounts
         /\ f.driver = n.driver /\ f.stuck = n.stuck /\ f.fault = n.fault
    <3>. DEFINE q == n.bdevs[k]
                c == tegrabl_blockdev_close(n, q, ok)
    <3>1. /\ c \in Media /\ Len(c.devs) = Len(n.devs)
          /\ c.devs[q] = [n.devs[q] EXCEPT !.ref = n.devs[q].ref - 1]
          /\ \A x \in 1..Len(n.devs) : x # q => c.devs[x] = n.devs[x]
          /\ c.bdevs = n.bdevs /\ c.storage = n.storage /\ c.mounts = n.mounts
          /\ c.driver = n.driver /\ c.stuck = n.stuck /\ c.fault = n.fault
        BY <2>12, <2>13, <2>15, CloseShared, ZenonT(60)
    <3>2. c = f /\ q = o
        BY <2>10, <2>14, Zenon
    <3>. HIDE DEF c, q
    <3>. QED BY <3>1, <3>2, Zenon
  <2>17. n.devs \in Seq(Devices) /\ o \in 1..Len(n.devs)
      BY <2>12, <2>13, <2>14, MediaFields, Zenon DEF ListSound
  <2>18. n.devs[o] \in Devices /\ n.devs[o].ref > 1
      BY <2>14, <2>15, <2>17
  <2>19. /\ f.devs[o].id = n.devs[o].id /\ f.devs[o].live = n.devs[o].live
         /\ f.devs[o].published = n.devs[o].published
         /\ f.devs[o].ref = n.devs[o].ref - 1 /\ f.devs[o].ref > 0
      BY <2>16, <2>18 DEF Devices
  <2>20. o = 1 => f.devs[o].published
      BY <2>13, <2>19, Zenon DEF ListSound
  <2>21. ListSound(f) /\ OthersAtRest(f, o)
      BY <2>12, <2>13, <2>16, <2>17, <2>19, <2>20, OneDeviceChanged, ZenonT(60)
  <2>22. o # 1 => f.devs[o].ref \in {1, 2}
    <3>1. o # 1 => n.devs[o].ref \in {1, 2}
        BY <2>12, Zenon DEF Held
    <3>. QED BY <3>1, <2>18, <2>19
  <2>23. Held(f, o, id, FALSE)
      BY <2>12, <2>14, <2>16, <2>19, <2>22, Zenon DEF Held
  <2>24. Unmounted(f, mm, o, id)
      BY <2>12, <2>16, <2>21, <2>23, Zenon DEF Unmounted
  <2>. QED BY <2>24, Zenon DEF f
<1>. QED BY <1>1, <1>2

\* A driver that is opened adds at most one device, at the end of the list; if it is
\* the NVMe driver that becomes occupied, its device is the one that was asked for.
LEMMA DriverOpenEffect ==
    ASSUME NEW mm \in Media, NEW id \in Kinds \X Nat, NEW works \in BOOLEAN,
           ListSound(mm), OthersAtRest(mm, NoDev), Released(mm),
           mm.driver["nvme"] => mm.stuck
    PROVE  LET d == DriverOpen(mm, id, works)
           IN  /\ d.m \in Media /\ ListSound(d.m) /\ OthersAtRest(d.m, NoDev) /\ Released(d.m)
               /\ d.m.driver["nvme"] /\ ~d.m.stuck =>
                    /\ d.ok /\ id[1] = "nvme"
                    /\ \E j \in 1..Len(d.m.bdevs) : d.m.devs[d.m.bdevs[j]].id = id
<1>. DEFINE d == DriverOpen(mm, id, works)
            kind == id[1]
            dup == \E o \in Range(mm.bdevs) : mm.devs[o].id = id
            ds == Append(mm.devs, NewDev(id))
            bs == IF dup THEN mm.bdevs ELSE Append(mm.bdevs, Len(ds))
            dr == [mm.driver EXCEPT ![kind] = ~dup]
            reg == tegrabl_blockdev_register_device(mm, id)
            n == [mm EXCEPT !.devs = ds, !.bdevs = bs, !.driver = dr]
<1>0. /\ mm.devs \in Seq(Devices) /\ mm.bdevs \in Seq(Nat)
      /\ mm.driver \in [Kinds -> BOOLEAN] /\ mm.stuck \in BOOLEAN
    BY MediaFields, Zenon
<1>1. CASE d.m = mm
    BY <1>1, Zenon
<1>2. CASE d.m # mm
  <2>1. d = [reg EXCEPT !.m.driver[kind] = reg.ok]
    <3>1. ~(mm.driver[kind] /\ kind \in {"usb", "nvme"}) /\ works /\ ~mm.driver[kind]
        BY <1>2, SMT DEF DriverOpen
    <3>. HIDE DEF d, kind
    <3>. QED BY <3>1, Zenon DEF DriverOpen, d, kind
  <2>. DEFINE rm == IF dup THEN [mm EXCEPT !.devs = ds]
                    ELSE [[mm EXCEPT !.devs = ds] EXCEPT !.bdevs = Append(@, Len([mm EXCEPT !.devs = ds].devs))]
  <2>2. reg = [m |-> rm, ok |-> ~dup]
      BY Zenon DEF tegrabl_blockdev_register_device
  <2>. HIDE DEF reg, d, kind
  <2>3. reg.ok = (~dup) /\ reg.m = rm
    <3>. HIDE DEF rm, dup
    <3>. QED BY <2>2, Zenon
  <2>5. d.ok = (~dup) /\ d.m = [reg.m EXCEPT !.driver[kind] = reg.ok]
    <3>. HIDE DEF rm, dup
    <3>. QED BY <2>1, <2>2, <2>3, Zenon
  <2>4. rm = [mm EXCEPT !.devs = ds, !.bdevs = bs]
    <3>. HIDE DEF dup, ds
    <3>1. CASE dup
      <4>1. rm = [mm EXCEPT !.devs = ds] /\ bs = mm.bdevs
          BY <3>1, Zenon
      <4>. HIDE DEF rm, bs
      <4>. QED BY <4>1, Zenon DEF Media
    <3>2. CASE ~dup
      <4>1. rm = [[mm EXCEPT !.devs = ds] EXCEPT !.bdevs = Append(@, Len([mm EXCEPT !.devs = ds].devs))]
          BY <3>2, Zenon
      <4>2. bs = Append(mm.bdevs, Len(ds)) /\ [mm EXCEPT !.devs = ds].devs = ds
          BY <3>2, Zenon DEF Media
      <4>. HIDE DEF bs, rm
      <4>. QED BY <4>1, <4>2, Zenon DEF Media
    <3>. QED BY <3>1, <3>2, Zenon
  <2>6. d.m = n
    <3>. HIDE DEF dup, ds, bs, rm
    <3>. QED BY <2>3, <2>4, <2>5, ZenonT(60) DEF Media
  <2>7. NewDev(id) \in Devices /\ NewDev(id).id = id /\ NewDev(id).ref = 1
        /\ NewDev(id).live /\ ~NewDev(id).published
      BY Zenon, 1 \in Nat DEF NewDev, Devices
  <2>8. /\ ds \in Seq(Devices) /\ Len(ds) = Len(mm.devs) + 1 /\ ds[Len(ds)] = NewDev(id)
        /\ \A x \in 1..Len(mm.devs) : ds[x] = mm.devs[x]
        /\ Len(ds) \in Nat /\ Len(mm.devs) \in Nat
      BY <1>0, <2>7
  <2>9. /\ bs \in Seq(Nat)
        /\ dup => bs = mm.bdevs
        /\ ~dup => /\ Len(bs) = Len(mm.bdevs) + 1 /\ bs[Len(bs)] = Len(ds)
                   /\ \A x \in 1..Len(mm.bdevs) : bs[x] = mm.bdevs[x]
    <3>. HIDE DEF dup, ds
    <3>. QED BY <1>0, <2>8
  <2>10. kind \in Kinds /\ dup \in BOOLEAN
      BY Zenon DEF kind
  <2>11. dr \in [Kinds -> BOOLEAN] /\ dr[kind] = ~dup /\ (kind # "nvme" => dr["nvme"] = mm.driver["nvme"])
    <3>. HIDE DEF dup, kind
    <3>. QED BY <1>0, <2>10, Zenon DEF Kinds
  <2>. HIDE DEF ds, bs, dr, reg, d
  <2>12. /\ n \in Media /\ n.devs = ds /\ n.bdevs = bs /\ n.driver = dr
         /\ n.storage = mm.storage /\ n.mounts = mm.mounts
         /\ n.stuck = mm.stuck /\ n.fault = mm.fault
      BY <2>8, <2>9, <2>11, Zenon DEF Media
  <2>. HIDE DEF n, dup, kind
  <2>13. \A x \in 1..Len(bs) :
            \/ x \in 1..Len(mm.bdevs) /\ bs[x] = mm.bdevs[x]
            \/ ~dup /\ x = Len(bs) /\ bs[x] = Len(ds) /\ x \notin 1..Len(mm.bdevs)
      BY <1>0, <2>9
  <2>14. \A x \in 1..Len(mm.bdevs) :
            /\ mm.bdevs[x] \in 1..Len(mm.devs) /\ mm.bdevs[x] # Len(ds)
            /\ ds[mm.bdevs[x]] = mm.devs[mm.bdevs[x]]
            /\ mm.devs[mm.bdevs[x]].live /\ mm.devs[mm.bdevs[x]].ref > 0
            /\ mm.bdevs[x] # 1 =>
                  mm.devs[mm.bdevs[x]].ref = 1 /\ ~mm.devs[mm.bdevs[x]].published
    <3>1. ASSUME NEW x \in 1..Len(mm.bdevs)
          PROVE  /\ mm.bdevs[x] \in 1..Len(mm.devs)
                 /\ mm.devs[mm.bdevs[x]].live /\ mm.devs[mm.bdevs[x]].ref > 0
        BY Zenon DEF ListSound
    <3>2. ASSUME NEW x \in 1..Len(mm.bdevs), mm.bdevs[x] # 1
          PROVE  mm.devs[mm.bdevs[x]].ref = 1 /\ ~mm.devs[mm.bdevs[x]].published
      <4>1. mm.bdevs[x] # NoDev
          BY <3>1 DEF NoDev
      <4>. QED BY <3>2, <4>1, Zenon DEF OthersAtRest
    <3>3. \A y \in 1..Len(mm.devs) : y # Len(ds)
        BY <2>8
    <3>. QED BY <3>1, <3>2, <3>3, <2>8, Zenon
  <2>15. \A x \in 1..Len(bs) :
            /\ bs[x] \in 1..Len(ds) /\ ds[bs[x]].live /\ ds[bs[x]].ref > 0
            /\ bs[x] # 1 => ds[bs[x]].ref = 1 /\ ~ds[bs[x]].published
    <3>1. ASSUME NEW x \in 1..Len(bs)
          PROVE  /\ bs[x] \in 1..Len(ds) /\ ds[bs[x]].live /\ ds[bs[x]].ref > 0
                 /\ bs[x] # 1 => ds[bs[x]].ref = 1 /\ ~ds[bs[x]].published
      <4>1. \A y \in 1..Len(mm.devs) : y \in 1..Len(ds)
          BY <2>8
      <4>2. Len(ds) \in 1..Len(ds) /\ ds[Len(ds)].ref > 0
          BY <2>7, <2>8
      <4>3. CASE x \in 1..Len(mm.bdevs) /\ bs[x] = mm.bdevs[x]
          BY <4>3, <4>1, <2>14, Zenon
      <4>4. CASE bs[x] = Len(ds)
          BY <4>4, <4>2, <2>7, <2>8, Zenon
      <4>. QED BY <4>3, <4>4, <2>13, Zenon
    <3>. QED BY <3>1, Zenon
  <2>16. ListSound(n)
    <3>1. Len(bs) > 0 /\ bs[1] = 1 /\ 1 \in 1..Len(mm.bdevs)
      <4>1. Len(mm.bdevs) > 0 /\ mm.bdevs[1] = 1
          BY Zenon DEF ListSound
      <4>. QED BY <4>1, <1>0, <2>9, SMTT(60)
    <3>2. \A x, y \in 1..Len(bs) : x # y => bs[x] # bs[y]
      <4>1. \A x, y \in 1..Len(mm.bdevs) : x # y => mm.bdevs[x] # mm.bdevs[y]
          BY Zenon DEF ListSound
      <4>2. ASSUME NEW x \in 1..Len(bs), NEW y \in 1..Len(bs), x # y
            PROVE  bs[x] # bs[y]
        <5>1. CASE x \in 1..Len(mm.bdevs) /\ bs[x] = mm.bdevs[x] /\ y \in 1..Len(mm.bdevs) /\ bs[y] = mm.bdevs[y]
            BY <4>1, <4>2, <5>1, Zenon
        <5>2. CASE x \in 1..Len(mm.bdevs) /\ bs[x] = mm.bdevs[x] /\ bs[y] = Len(ds)
            BY <5>2, <2>14, Zenon
        <5>3. CASE y \in 1..Len(mm.bdevs) /\ bs[y] = mm.bdevs[y] /\ bs[x] = Len(ds)
            BY <5>3, <2>14, Zenon
        <5>4. CASE x = Len(bs) /\ y = Len(bs)
            BY <4>2, <5>4, Zenon
        <5>. QED BY <5>1, <5>2, <5>3, <5>4, <2>13, Zenon
      <4>. QED BY <4>2, Zenon
    <3>3. ds[1].id = Emmc /\ ds[1].published
      <4>1. ds[1] = mm.devs[1]
          BY <3>1, <2>14, Zenon DEF ListSound
      <4>. QED BY <4>1, Zenon DEF ListSound
    <3>4. "device" \notin mm.fault
        BY Zenon DEF ListSound
    <3>. QED BY <3>1, <3>2, <3>3, <3>4, <2>12, <2>15, ZenonT(60) DEF ListSound
  <2>17. OthersAtRest(n, NoDev)
      BY <2>12, <2>15, Zenon DEF OthersAtRest
  <2>18. Released(n)
      BY <2>12, Zenon DEF Released
  <2>19. ASSUME n.driver["nvme"], ~n.stuck
         PROVE  /\ ~dup /\ kind = "nvme"
                /\ \E j \in 1..Len(n.bdevs) : n.devs[n.bdevs[j]].id = id
    <3>1. ~dup /\ kind = "nvme"
        BY <2>19, <2>11, <2>12, Zenon
    <3>2. Len(bs) \in 1..Len(bs) /\ ds[bs[Len(bs)]].id = id
      <4>1. Len(bs) \in 1..Len(bs)
          BY <3>1, <1>0, <2>9
      <4>. QED BY <4>1, <3>1, <2>7, <2>8, <2>9, Zenon
    <3>. QED BY <3>1, <3>2, <2>12, Zenon
  <2>. QED BY <2>5, <2>6, <2>12, <2>16, <2>17, <2>18, <2>19, Zenon DEF d, kind
<1>. QED BY <1>1, <1>2

\* The reference that an attempt takes.
LEMMA OpenEffect ==
    ASSUME NEW mm \in Media, NEW k \in 1..Len(mm.bdevs), NEW id,
           mm.devs[mm.bdevs[k]].id = id, mm.bdevs[k] = 1 <=> id = Emmc,
           ListSound(mm), OthersAtRest(mm, NoDev), Released(mm)
    PROVE  LET o == mm.bdevs[k]
               n == [mm EXCEPT !.devs[o].ref = @ + 1]
           IN  /\ n \in Media /\ ListSound(n) /\ OthersAtRest(n, o)
               /\ Held(n, o, id, FALSE) /\ n.devs[o].ref > 1
               /\ n.driver = mm.driver /\ n.stuck = mm.stuck
<1>. DEFINE o == mm.bdevs[k]
            n == [mm EXCEPT !.devs[o].ref = @ + 1]
            v == mm.devs[o].ref + 1
            d == [mm.devs[o] EXCEPT !.ref = v]
            es == [mm.devs EXCEPT ![o] = d]
<1>0. mm.devs \in Seq(Devices)
    BY MediaFields, Zenon
<1>1. o \in 1..Len(mm.devs) /\ mm.devs[o].ref > 0
    BY Zenon DEF ListSound
<1>2. mm.devs[o] \in Devices
    BY <1>0, <1>1
<1>3. v \in Nat /\ v > 1 /\ v > 0 /\ (mm.devs[o].ref = 1 => v \in {1, 2})
    BY <1>1, <1>2, SMTT(60) DEF Devices
<1>4. /\ d \in Devices /\ d.id = mm.devs[o].id /\ d.live = mm.devs[o].live
      /\ d.published = mm.devs[o].published /\ d.ref = v
  <2>. HIDE DEF v
  <2>. QED BY <1>2, <1>3 DEF Devices
<1>5. n = [mm EXCEPT !.devs = es]
    BY Zenon DEF Media
<1>6. /\ es \in Seq(Devices) /\ Len(es) = Len(mm.devs) /\ es[o] = d
      /\ \A x \in 1..Len(mm.devs) : x # o => es[x] = mm.devs[x]
  <2>. HIDE DEF d, o
  <2>. QED BY <1>0, <1>1, <1>4, DeviceChanged
<1>7. /\ n \in Media /\ n.devs = es
      /\ n.bdevs = mm.bdevs /\ n.storage = mm.storage /\ n.mounts = mm.mounts
      /\ n.driver = mm.driver /\ n.stuck = mm.stuck /\ n.fault = mm.fault
  <2>. HIDE DEF es, n
  <2>. QED BY <1>5, <1>6, Zenon DEF Media
<1>. HIDE DEF n, es, d, v
<1>8. o # 1 => mm.devs[o].ref = 1 /\ ~mm.devs[o].published
  <2>1. o # NoDev
      BY <1>1 DEF NoDev
  <2>. QED BY <2>1, Zenon DEF OthersAtRest
<1>9. o = 1 => n.devs[o].published
    BY <1>4, <1>6, <1>7, Zenon DEF ListSound
<1>10. OthersAtRest(mm, o)
  <2>1. \A j \in 1..Len(mm.bdevs) : mm.bdevs[j] # NoDev
    <3>1. \A j \in 1..Len(mm.bdevs) : mm.bdevs[j] \in 1..Len(mm.devs)
        BY Zenon DEF ListSound
    <3>. QED BY <3>1 DEF NoDev
  <2>. QED BY <2>1, Zenon DEF OthersAtRest
<1>11. ListSound(n) /\ OthersAtRest(n, o)
  <2>. HIDE DEF o
  <2>. QED BY <1>1, <1>3, <1>4, <1>6, <1>7, <1>9, <1>10, OneDeviceChanged, Zenon
<1>12. Held(n, o, id, FALSE)
  <2>1. n.devs[o].id = id /\ n.devs[o].published = mm.devs[o].published /\ n.devs[o].ref = v
      BY <1>4, <1>6, <1>7, Zenon
  <2>2. n.mounts = <<>> /\ n.storage = <<1>>
      BY <1>7, Zenon DEF Released
  <2>. QED BY <1>3, <1>7, <1>8, <2>1, <2>2, Zenon DEF Held
<1>. QED BY <1>3, <1>4, <1>6, <1>7, <1>11, <1>12, Zenon DEF n

\* Publishing and mounting leave the attempt with its reference, or, when the mount
\* fails, without it.
LEMMA PublishEffect ==
    ASSUME NEW mm \in Media, NEW o, NEW id \in Kinds \X Nat, NEW r \in PublishResults,
           ListSound(mm), OthersAtRest(mm, o), Held(mm, o, id, FALSE), mm.devs[o].ref > 1
    PROVE  LET p == tegrabl_fm_publish(mm, o, r)
           IN  /\ p.m \in Media /\ p.ok \in BOOLEAN
               /\ ListSound(p.m) /\ OthersAtRest(p.m, o) /\ Held(p.m, o, id, p.ok)
               /\ p.m.driver = mm.driver /\ p.m.stuck = mm.stuck
<1>. DEFINE p == tegrabl_fm_publish(mm, o, r)
            pub == tegrabl_partition_publish(mm, o, r.gpt)
            n == pub.m
<1>0. /\ mm.devs \in Seq(Devices) /\ mm.bdevs \in Seq(Nat)
      /\ mm.mounts = <<>> /\ mm.devs[o].id = id
    BY MediaFields, Zenon DEF Held
<1>1. o \in 1..Len(mm.devs) /\ o \in Nat
    BY <1>0 DEF ListSound, Held
<1>2. mm.devs[o] \in Devices
    BY <1>0, <1>1
<1>3. /\ n \in Media /\ ListSound(n) /\ OthersAtRest(n, o) /\ Held(n, o, id, FALSE)
      /\ n.devs[o].ref > 1 /\ n.driver = mm.driver /\ n.stuck = mm.stuck
  <2>1. CASE n = mm
      BY <2>1, Zenon
  <2>2. CASE n # mm
    <3>. DEFINE d == [mm.devs[o] EXCEPT !.published = TRUE]
                es == [mm.devs EXCEPT ![o] = d]
    <3>1. ~mm.devs[o].published /\ n = [mm EXCEPT !.storage = <<o>> \o @, !.devs[o].published = TRUE]
        BY <2>2, Zenon DEF tegrabl_partition_publish
    <3>2. o # 1 /\ mm.storage = <<1>>
        BY <3>1, Zenon DEF ListSound, Held
    <3>3. <<o>> \o <<1>> = <<o, 1>> /\ <<o, 1>> \in Seq(Nat)
      <4>. DEFINE t == <<o>> \o <<1>>
      <4>1. t = <<o, 1>>
        <5>1. /\ <<o>> \in Seq(Nat) /\ Len(<<o>>) = 1 /\ <<o>>[1] = o
              /\ <<1>> \in Seq(Nat) /\ Len(<<1>>) = 1 /\ <<1>>[1] = 1
            BY <1>1
        <5>2. /\ t \in Seq(Nat) /\ Len(t) = Len(<<o>>) + Len(<<1>>)
              /\ \A x \in 1..(Len(<<o>>) + Len(<<1>>)) :
                    t[x] = IF x <= Len(<<o>>) THEN <<o>>[x] ELSE <<1>>[x - Len(<<o>>)]
            BY <5>1, ConcatProperties
        <5>. HIDE DEF t
        <5>3. Len(t) = 2 /\ t[1] = o /\ t[2] = 1
            BY <5>1, <5>2
        <5>. QED BY <5>2, <5>3
      <4>2. <<o, 1>> \in Seq(Nat)
          BY <1>1
      <4>. QED BY <4>1, <4>2, Zenon
    <3>4. n = [mm EXCEPT !.storage = <<o, 1>>, !.devs = es]
      <4>. HIDE DEF n
      <4>. QED BY <3>1, <3>2, <3>3, Zenon DEF Media
    <3>5. /\ d \in Devices /\ d.id = mm.devs[o].id /\ d.ref = mm.devs[o].ref
          /\ d.live = mm.devs[o].live /\ d.published
        BY <1>2, Zenon DEF Devices
    <3>. HIDE DEF d
    <3>6. /\ es \in Seq(Devices) /\ Len(es) = Len(mm.devs) /\ es[o] = d
          /\ \A x \in 1..Len(mm.devs) : x # o => es[x] = mm.devs[x]
        BY <1>0, <1>1, <3>5, DeviceChanged
    <3>. HIDE DEF es, n
    <3>7. /\ n \in Media /\ n.devs = es /\ n.storage = <<o, 1>>
          /\ n.bdevs = mm.bdevs /\ n.mounts = mm.mounts
          /\ n.driver = mm.driver /\ n.stuck = mm.stuck /\ n.fault = mm.fault
        BY <3>3, <3>4, <3>6, Zenon DEF Media
    <3>8. n.devs[o].ref > 0 /\ n.devs[o].ref > 1
        BY <1>2, <3>5, <3>6, <3>7, SMT DEF Devices
    <3>9. ListSound(n) /\ OthersAtRest(n, o)
        BY <1>1, <3>2, <3>5, <3>6, <3>7, <3>8, OneDeviceChanged, Zenon
    <3>10. Held(n, o, id, FALSE)
        BY <3>2, <3>5, <3>6, <3>7, ZenonT(60) DEF Held
    <3>. QED BY <3>7, <3>8, <3>9, <3>10, Zenon
  <2>. QED BY <2>1, <2>2
<1>. HIDE DEF n
<1>4. CASE (pub.ok /\ ~r.boot) \/ ~r.fs
  <2>1. p.m = n /\ p.ok = FALSE
      BY <1>4, Zenon DEF tegrabl_fm_publish, n
  <2>. HIDE DEF p
  <2>. QED BY <2>1, <1>3, Zenon DEF p
<1>5. CASE ~((pub.ok /\ ~r.boot) \/ ~r.fs)
  <2>. DEFINE q == fs_mount(n, id[1], o, r.mount, r.reset)
  <2>1. p = q
      BY <1>0, <1>5, Zenon DEF tegrabl_fm_publish, n
  <2>2. n.mounts = <<>> /\ n.devs \in Seq(Devices)
      BY <1>3, MediaFields, Zenon DEF Held
  <2>3. find_mount(n, id[1]) = 0
    <3>. DEFINE I == {j \in 1..Len(n.mounts) : IsPrefix(Prefix[n.mounts[j].kind], Prefix[id[1]])}
    <3>1. I = {}
        BY <2>2
    <3>2. find_mount(n, id[1]) = IF I # {} THEN Min(I) ELSE 0
        BY Zenon DEF find_mount, SelectInSeq
    <3>. QED BY <3>1, <3>2, Zenon
  <2>4. CASE ~r.mount
    <3>. DEFINE c == tegrabl_blockdev_close(n, o, r.reset)
    <3>1. q.m = c /\ q.ok = FALSE
        BY <2>3, <2>4, Zenon DEF fs_mount
    <3>2. PICK k \in 1..Len(n.bdevs) : n.bdevs[k] = o
        BY <1>3, Zenon DEF Held
    <3>3. n.devs[n.bdevs[k]].ref > 1
        BY <1>3, <3>2, Zenon
    <3>4. /\ c \in Media /\ Len(c.devs) = Len(n.devs)
          /\ c.devs[o] = [n.devs[o] EXCEPT !.ref = n.devs[o].ref - 1]
          /\ \A x \in 1..Len(n.devs) : x # o => c.devs[x] = n.devs[x]
          /\ c.bdevs = n.bdevs /\ c.storage = n.storage /\ c.mounts = n.mounts
          /\ c.driver = n.driver /\ c.stuck = n.stuck /\ c.fault = n.fault
      <4>. DEFINE b == n.bdevs[k]
                  e == tegrabl_blockdev_close(n, b, r.reset)
      <4>1. /\ e \in Media /\ Len(e.devs) = Len(n.devs)
            /\ e.devs[b] = [n.devs[b] EXCEPT !.ref = n.devs[b].ref - 1]
            /\ \A x \in 1..Len(n.devs) : x # b => e.devs[x] = n.devs[x]
            /\ e.bdevs = n.bdevs /\ e.storage = n.storage /\ e.mounts = n.mounts
            /\ e.driver = n.driver /\ e.stuck = n.stuck /\ e.fault = n.fault
          BY <1>3, <3>3, CloseShared, ZenonT(60)
      <4>2. e = c /\ b = o
          BY <3>2, Zenon
      <4>. HIDE DEF e, b, c
      <4>. QED BY <4>1, <4>2, Zenon
    <3>. HIDE DEF c
    <3>5. o \in 1..Len(n.devs)
        BY <1>3, <3>2, Zenon DEF ListSound
    <3>6. n.devs[o] \in Devices /\ n.devs[o].ref > 1
        BY <1>3, <2>2, <3>5
    <3>7. /\ c.devs[o].id = n.devs[o].id /\ c.devs[o].live = n.devs[o].live
          /\ c.devs[o].published = n.devs[o].published
          /\ c.devs[o].ref = n.devs[o].ref - 1 /\ c.devs[o].ref > 0
        BY <3>4, <3>6 DEF Devices
    <3>8. o = 1 => c.devs[o].published
        BY <1>3, <3>7, Zenon DEF ListSound
    <3>9. ListSound(c) /\ OthersAtRest(c, o)
        BY <1>3, <3>4, <3>5, <3>7, <3>8, OneDeviceChanged, Zenon
    <3>10. o # 1 => c.devs[o].ref \in {1, 2}
      <4>1. o # 1 => n.devs[o].ref \in {1, 2}
          BY <1>3, Zenon DEF Held
      <4>. QED BY <4>1, <3>6, <3>7
    <3>11. Held(c, o, id, FALSE)
        BY <1>3, <3>4, <3>7, <3>10, Zenon DEF Held
    <3>. HIDE DEF q
    <3>. QED BY <2>1, <3>1, <3>4, <3>9, <3>11, <1>3, Zenon
  <2>5. CASE r.mount
    <3>. DEFINE mo == [kind |-> id[1], dev |-> o, ref |-> 1]
                c == [n EXCEPT !.mounts = <<mo>>]
    <3>1. q.m = [n EXCEPT !.mounts = <<mo>> \o @] /\ q.ok = TRUE
        BY <2>3, <2>5, Zenon DEF fs_mount
    <3>2. mo \in [kind : Kinds, dev : Nat, ref : Nat]
        BY <1>1
    <3>. HIDE DEF mo
    <3>3. <<mo>> \o <<>> = <<mo>> /\ <<mo>> \in Seq([kind : Kinds, dev : Nat, ref : Nat])
        BY <3>2
    <3>. HIDE DEF q
    <3>4. q.m = c
        BY <1>3, <2>2, <3>1, <3>3, Zenon DEF Media
    <3>5. /\ c \in Media /\ c.mounts = <<mo>> /\ c.devs = n.devs /\ c.bdevs = n.bdevs
          /\ c.storage = n.storage /\ c.driver = n.driver /\ c.stuck = n.stuck
          /\ c.fault = n.fault
        BY <1>3, <3>3, Zenon DEF Media
    <3>. HIDE DEF c
    <3>6. ListSound(c) /\ OthersAtRest(c, o)
        BY <1>3, <3>5, SameList, Zenon
    <3>7. Held(c, o, id, TRUE)
        BY <1>3, <3>5, Zenon DEF Held, mo
    <3>. QED BY <2>1, <3>1, <3>4, <3>5, <3>6, <3>7, <1>3, Zenon
  <2>. QED BY <2>4, <2>5
<1>. QED BY <1>4, <1>5

\* The end of an attempt on a removable device: all it took is given back.
LEMMA RemovableCloseEffect ==
    ASSUME NEW mm \in Media, NEW o, NEW id \in Kinds \X Nat, NEW mnt \in BOOLEAN,
           NEW ok \in BOOLEAN, o # 1,
           ListSound(mm), OthersAtRest(mm, o), Held(mm, o, id, mnt)
    PROVE  LET un == tegrabl_partitions_unpublish(mm, o)
               fm == tegrabl_fm_close(un, id[1], mnt, ok)
               cl == tegrabl_blockdev_close(fm, o, ok)
               n == IF id[1] = "nvme" THEN ForceClose(cl, o, ok) ELSE cl
           IN  /\ n \in Media /\ ListSound(n) /\ OthersAtRest(n, NoDev) /\ Released(n)
               /\ n.driver["nvme"] /\ ~n.stuck => mm.driver["nvme"] /\ ~mm.stuck
               /\ id[1] = "nvme" => (n.driver["nvme"] => n.stuck)
<1>. DEFINE un == tegrabl_partitions_unpublish(mm, o)
            fm == tegrabl_fm_close(un, id[1], mnt, ok)
            cl == tegrabl_blockdev_close(fm, o, ok)
            n == IF id[1] = "nvme" THEN ForceClose(cl, o, ok) ELSE cl
<1>. SUFFICES /\ n \in Media /\ ListSound(n) /\ OthersAtRest(n, NoDev) /\ Released(n)
              /\ n.driver["nvme"] /\ ~n.stuck => mm.driver["nvme"] /\ ~mm.stuck
              /\ id[1] = "nvme" => (n.driver["nvme"] => n.stuck)
    BY Zenon
<1>1. /\ un \in Media /\ ListSound(un) /\ OthersAtRest(un, o)
      /\ Held(un, o, id, mnt) /\ ~un.devs[o].published
      /\ un.driver = mm.driver /\ un.stuck = mm.stuck
    BY UnpublishEffect, Zenon
<1>. HIDE DEF un
<1>2. /\ fm \in Media /\ ListSound(fm) /\ OthersAtRest(fm, o)
      /\ Held(fm, o, id, FALSE) /\ fm.storage = un.storage
      /\ fm.driver["nvme"] /\ ~fm.stuck => un.driver["nvme"] /\ ~un.stuck
  <2>1. id[1] \in Kinds
      OBVIOUS
  <2>2. un \in Media /\ ListSound(un) /\ OthersAtRest(un, o) /\ Held(un, o, id, mnt)
      BY <1>1, Zenon
  <2>3. Unmounted(fm, un, o, id)
      BY <2>1, <2>2, FmCloseEffect, Zenon
  <2>. HIDE DEF fm
  <2>. QED BY <2>3, Zenon DEF Unmounted
<1>. HIDE DEF fm
<1>3. PICK k \in 1..Len(fm.bdevs) : fm.bdevs[k] = o
    BY <1>2, Zenon DEF Held
<1>4. /\ fm.mounts = <<>> /\ fm.storage = <<1>> /\ fm.devs[o].id = id
      /\ fm.devs[o].ref \in {1, 2} /\ ~fm.devs[o].published
  <2>1. <<o, 1>> # <<1>>
      BY SMT
  <2>. QED BY <2>1, <1>1, <1>2, Zenon DEF Held
<1>5. fm.devs \in Seq(Devices) /\ o \in 1..Len(fm.devs) /\ fm.bdevs \in Seq(Nat)
    BY <1>2, <1>3, MediaFields, Zenon DEF ListSound
<1>6. /\ cl \in Media /\ ListSound(cl) /\ OthersAtRest(cl, NoDev) /\ Released(cl)
      /\ Len(cl.devs) = Len(fm.devs) /\ cl.devs[o].id = id
      /\ cl.driver["nvme"] /\ ~cl.stuck => fm.driver["nvme"] /\ ~fm.stuck
  <2>1. CASE fm.devs[o].ref = 1
    <3>. DEFINE b == fm.bdevs[k]
                c == tegrabl_blockdev_close(fm, b, ok)
    <3>1. b # 1 /\ fm.devs[b].ref = 1 /\ OthersAtRest(fm, b)
        BY <1>2, <1>3, <2>1, Zenon
    <3>2. /\ c \in Media /\ ListSound(c) /\ OthersAtRest(c, NoDev)
          /\ Len(c.devs) = Len(fm.devs) /\ c.devs[b].id = fm.devs[b].id
          /\ c.storage = fm.storage /\ c.mounts = fm.mounts
          /\ c.driver["nvme"] /\ ~c.stuck => fm.driver["nvme"] /\ ~fm.stuck
        BY <1>2, <3>1, CloseLast
    <3>3. b = o /\ c = cl
        BY <1>3, Zenon
    <3>. HIDE DEF b, c, cl
    <3>. QED BY <3>2, <3>3, <1>4, Zenon DEF Released
  <2>2. CASE fm.devs[o].ref = 2
    <3>. DEFINE b == fm.bdevs[k]
                c == tegrabl_blockdev_close(fm, b, ok)
    <3>1. fm.devs[b].ref > 1
        BY <1>3, <2>2
    <3>2. /\ c \in Media /\ Len(c.devs) = Len(fm.devs)
          /\ c.devs[b] = [fm.devs[b] EXCEPT !.ref = fm.devs[b].ref - 1]
          /\ \A x \in 1..Len(fm.devs) : x # b => c.devs[x] = fm.devs[x]
          /\ c.bdevs = fm.bdevs /\ c.storage = fm.storage /\ c.mounts = fm.mounts
          /\ c.driver = fm.driver /\ c.stuck = fm.stuck /\ c.fault = fm.fault
        BY <1>2, <3>1, CloseShared
    <3>3. b = o /\ c = cl
        BY <1>3, Zenon
    <3>. HIDE DEF b, c, cl
    <3>4. fm.devs[o] \in Devices
        BY <1>5
    <3>5. /\ cl.devs[o].id = fm.devs[o].id /\ cl.devs[o].live = fm.devs[o].live
          /\ cl.devs[o].published = fm.devs[o].published
          /\ cl.devs[o].ref = 1 /\ cl.devs[o].ref > 0
        BY <2>2, <3>2, <3>3, <3>4 DEF Devices
    <3>6. ListSound(cl) /\ OthersAtRest(cl, o)
        BY <1>2, <1>5, <3>2, <3>3, <3>5, OneDeviceChanged, Zenon
    <3>7. OthersAtRest(cl, NoDev)
        BY <1>4, <3>5, <3>6, Zenon DEF OthersAtRest
    <3>. QED BY <3>2, <3>3, <3>5, <3>6, <3>7, <1>4, Zenon DEF Released
  <2>. QED BY <2>1, <2>2, <1>4, Zenon
<1>. HIDE DEF cl
<1>7. CASE id[1] # "nvme"
    BY <1>1, <1>2, <1>6, <1>7, Zenon
<1>8. CASE id[1] = "nvme"
  <2>. DEFINE t == IF cl.devs[o].live THEN cl ELSE [cl EXCEPT !.fault = @ \cup {"forced close"}]
              h == CloseHook(t, o, ok)
  <2>1. n = h
      BY <1>8, Zenon DEF ForceClose
  <2>2. /\ t \in Media /\ t.devs = cl.devs /\ t.bdevs = cl.bdevs /\ t.storage = cl.storage
        /\ t.mounts = cl.mounts /\ t.driver = cl.driver /\ t.stuck = cl.stuck
        /\ "device" \notin t.fault
    <3>1. cl.fault \in SUBSET {"device", "section", "forced close"} /\ "device" \notin cl.fault
        BY <1>6, MediaFields, Zenon DEF ListSound
    <3>. DEFINE fl == cl.fault \cup {"forced close"}
    <3>2. fl \in SUBSET {"device", "section", "forced close"} /\ "device" \notin fl
        BY <3>1
    <3>3. t = cl \/ t = [cl EXCEPT !.fault = fl]
        BY Zenon
    <3>. HIDE DEF t, fl
    <3>. QED BY <1>6, <3>1, <3>2, <3>3, Zenon DEF Media
  <2>. HIDE DEF t
  <2>3. o \in 1..Len(t.devs)
      BY <1>5, <1>6, <2>2, Zenon
  <2>4. /\ h \in Media /\ Len(h.devs) = Len(t.devs)
        /\ \A x \in 1..Len(t.devs) :
              /\ h.devs[x].id = t.devs[x].id /\ h.devs[x].ref = t.devs[x].ref
              /\ h.devs[x].live = t.devs[x].live
              /\ h.devs[x].published = t.devs[x].published
        /\ h.bdevs = t.bdevs /\ h.storage = t.storage /\ h.mounts = t.mounts
        /\ h.fault = t.fault
        /\ h.driver["nvme"] /\ ~h.stuck => t.driver["nvme"] /\ ~t.stuck
        /\ t.devs[o].id[1] = "nvme" => (h.driver["nvme"] => h.stuck)
      BY <2>2, <2>3, HookEffect
  <2>. HIDE DEF h
  <2>5. /\ h.driver["nvme"] => h.stuck
        /\ h.storage = cl.storage /\ h.mounts = cl.mounts /\ h.bdevs = cl.bdevs
        /\ Len(h.devs) = Len(cl.devs) /\ "device" \notin h.fault
        /\ \A x \in 1..Len(cl.devs) :
              /\ h.devs[x].id = cl.devs[x].id /\ h.devs[x].ref = cl.devs[x].ref
              /\ h.devs[x].live = cl.devs[x].live
              /\ h.devs[x].published = cl.devs[x].published
    <3>1. t.devs[o].id[1] = "nvme"
        BY <1>6, <1>8, <2>2, Zenon
    <3>. QED BY <3>1, <2>2, <2>4, ZenonT(60)
  <2>6. \A j \in 1..Len(cl.bdevs) : cl.bdevs[j] \in 1..Len(cl.devs)
      BY <1>6, Zenon DEF ListSound
  <2>7. ListSound(h)
    <3>1. 1 \in 1..Len(cl.devs)
      <4>1. cl.bdevs \in Seq(Nat) /\ Len(cl.bdevs) > 0 /\ cl.bdevs[1] = 1
          BY <1>6, MediaFields, Zenon DEF ListSound
      <4>2. 1 \in 1..Len(cl.bdevs)
          BY <4>1
      <4>. QED BY <4>1, <4>2, <2>6, Zenon
    <3>2. h.devs[1].id = Emmc /\ h.devs[1].published
        BY <3>1, <2>5, <1>6, Zenon DEF ListSound
    <3>3. Len(h.bdevs) > 0 /\ h.bdevs[1] = 1
        BY <2>5, <1>6, Zenon DEF ListSound
    <3>4. \A j, l \in 1..Len(h.bdevs) : j # l => h.bdevs[j] # h.bdevs[l]
        BY <2>5, <1>6 DEF ListSound
    <3>5. ASSUME NEW j \in 1..Len(h.bdevs)
          PROVE  /\ h.bdevs[j] \in 1..Len(h.devs)
                 /\ h.devs[h.bdevs[j]].live /\ h.devs[h.bdevs[j]].ref > 0
      <4>1. j \in 1..Len(cl.bdevs) /\ h.bdevs[j] = cl.bdevs[j]
          BY <2>5, Zenon
      <4>2. cl.devs[cl.bdevs[j]].live /\ cl.devs[cl.bdevs[j]].ref > 0
          BY <4>1, <1>6, Zenon DEF ListSound
      <4>. QED BY <4>1, <4>2, <2>5, <2>6, Zenon
    <3>. QED BY <3>2, <3>3, <3>4, <3>5, <2>5, Zenon DEF ListSound
  <2>8. OthersAtRest(h, NoDev)
    <3>1. ASSUME NEW j \in 1..Len(h.bdevs), h.bdevs[j] \notin {1, NoDev}
          PROVE  h.devs[h.bdevs[j]].ref = 1 /\ ~h.devs[h.bdevs[j]].published
      <4>1. j \in 1..Len(cl.bdevs) /\ h.bdevs[j] = cl.bdevs[j]
          BY <2>5, Zenon
      <4>2. cl.devs[cl.bdevs[j]].ref = 1 /\ ~cl.devs[cl.bdevs[j]].published
          BY <3>1, <4>1, <1>6, Zenon DEF OthersAtRest
      <4>. QED BY <4>1, <4>2, <2>5, <2>6, Zenon
    <3>. QED BY <3>1, Zenon DEF OthersAtRest
  <2>9. Released(h)
      BY <2>5, <1>6, Zenon DEF Released
  <2>. QED BY <2>1, <2>4, <2>5, <2>7, <2>8, <2>9, Zenon
<1>. QED BY <1>7, <1>8, Zenon

----------------------------------------------------------------------------
(* The devices of the boot order, and the loading of the binaries *)

LEMMA DevIdFacts ==
    ASSUME TypeOK
    PROVE  /\ OrderAt(i) \in Kinds
           /\ DevId \in Kinds \X Nat /\ DevId[1] = OrderAt(i)
           /\ DevId = Emmc <=> OrderAt(i) = "emmc"
<1>1. OrderAt(i) \in Kinds
  <2>1. order \in Seq(Kinds) /\ i \in Nat \ {0}
      BY OrdersAssumption DEF TypeOK
  <2>2. CASE i > Len(order)
      BY <2>2 DEF OrderAt, Kinds
  <2>3. CASE ~(i > Len(order))
    <3>1. order[i] \in Kinds
        BY <2>1, <2>3
    <3>. QED BY <2>3, <3>1, Zenon DEF OrderAt
  <2>. QED BY <2>2, <2>3
<1>2. ctrl \in Nat
    BY DEF TypeOK
<1>3. CASE OrderAt(i) = "emmc"
  <2>1. DevId = Emmc
      BY <1>3, Zenon DEF DevId
  <2>. QED BY <1>3, <2>1 DEF Emmc, Kinds
<1>4. CASE OrderAt(i) = "nvme"
  <2>1. DevId = <<"nvme", ctrl>>
      BY <1>4 DEF DevId
  <2>. QED BY <1>2, <1>4, <2>1 DEF Emmc, Kinds
<1>5. CASE OrderAt(i) \in {"sd", "usb"}
  <2>1. DevId = <<OrderAt(i), 0>>
      BY <1>5 DEF DevId
  <2>. QED BY <1>1, <1>5, <2>1 DEF Emmc
<1>. QED BY <1>1, <1>3, <1>4, <1>5 DEF Kinds

LEMMA PartitionIsSource ==
    ASSUME TypeOK
    PROVE  Partition \in Sources /\ Nowhere \in Sources
    BY DEF TypeOK, Partition, Nowhere, Sources

\* What extlinux leaves behind: if it succeeds, the kernel is of this attempt, and so
\* is the device tree if there was no handle; if it sets the flag, arguments and
\* ramdisk are those of the kernel.
Loaded(id, g, h, ok, handle) ==
    /\ h \in Loads /\ ok \in BOOLEAN
    /\ ok => h.kernel \in {id, Partition}
    /\ h.dtb = g.dtb \/ h.dtb \in {id, Partition}
    /\ ok /\ ~handle => h.dtb \in {id, Partition}
    /\ h.status => g.status \/ (ok /\ h.kernel = h.args /\ (h.path # Nowhere => h.ramdisk = h.kernel))

LEMMA ExtlinuxEffect ==
    ASSUME NEW id \in Sources, NEW f \in Finds, NEW mnt \in BOOLEAN, NEW g \in Loads,
           NEW handle \in BOOLEAN, TypeOK
    PROVE  LET l == extlinux_boot_load_kernel_and_dtb(id, f, mnt, g, handle)
           IN  Loaded(id, g, l.got, l.ok, handle)
<1>. DEFINE l == extlinux_boot_load_kernel_and_dtb(id, f, mnt, g, handle)
            parsed == mnt /\ f.n > 0
            rootfs == parsed /\ f.linux /\ f.file
            g1 == IF parsed THEN BootDetails(id, f, g) ELSE g
            kernel == IF rootfs THEN id ELSE IF f.part THEN Partition ELSE g1.kernel
            g2 == [g1 EXCEPT !.kernel = kernel]
            dtb == IF handle THEN g2.dtb
                   ELSE IF parsed /\ f.dtb = "file" THEN id ELSE Partition
            g3 == [g2 EXCEPT !.dtb = dtb]
<1>0. Partition \in Sources /\ Nowhere \in Sources
    BY PartitionIsSource
<1>1. /\ g1 \in Loads /\ g1.status = g.status /\ g1.dtb = g.dtb
      /\ parsed => g1.args = id /\ g1.path \in {id, Nowhere}
  <2>. DEFINE path == IF f.initrd THEN id ELSE Nowhere
  <2>1. CASE parsed
    <3>1. g1 = [g EXCEPT !.path = path, !.args = id]
        BY <2>1, Zenon DEF BootDetails
    <3>2. path \in Sources /\ path \in {id, Nowhere}
        BY <1>0
    <3>. HIDE DEF path, g1, parsed
    <3>. QED BY <3>1, <3>2, Zenon DEF Loads
  <2>2. CASE ~parsed
    <3>1. g1 = g
        BY <2>2, Zenon
    <3>. HIDE DEF g1, parsed
    <3>. QED BY <2>2, <3>1, Zenon
  <2>. QED BY <2>1, <2>2, Zenon
<1>2. l = IF ~rootfs /\ ~f.part THEN [got |-> g2, ok |-> FALSE]
          ELSE IF ~handle /\ f.dtb = "none" THEN [got |-> g2, ok |-> FALSE]
          ELSE IF ~rootfs THEN [got |-> g3, ok |-> TRUE]
          ELSE IF g3.path = Nowhere THEN [got |-> [g3 EXCEPT !.status = TRUE], ok |-> TRUE]
          ELSE IF f.ram THEN [got |-> [g3 EXCEPT !.ramdisk = g3.path, !.status = TRUE], ok |-> TRUE]
          ELSE [got |-> g3, ok |-> FALSE]
    BY Zenon DEF extlinux_boot_load_kernel_and_dtb
<1>. HIDE DEF g1
<1>3. kernel \in Sources
    BY <1>0, <1>1, Zenon DEF Loads
<1>5. rootfs => parsed /\ kernel = id
    BY Zenon
<1>6. rootfs \/ f.part => kernel \in {id, Partition}
    BY Zenon
<1>. HIDE DEF kernel
<1>7. /\ g2 \in Loads /\ g2.kernel = kernel /\ g2.dtb = g.dtb /\ g2.status = g1.status
      /\ g2.args = g1.args /\ g2.path = g1.path
    BY <1>1, <1>3, Zenon DEF Loads
<1>. HIDE DEF g2
<1>4. /\ dtb \in Sources /\ (dtb = g.dtb \/ dtb \in {id, Partition})
      /\ ~handle => dtb \in {id, Partition}
  <2>1. g2.dtb \in Sources
      BY <1>7, Zenon DEF Loads
  <2>. QED BY <1>0, <1>7, <2>1, Zenon
<1>. HIDE DEF dtb, rootfs, parsed
<1>8. /\ g3 \in Loads /\ g3.kernel = kernel /\ g3.dtb = dtb /\ g3.status = g1.status
      /\ g3.args = g1.args /\ g3.path = g1.path
    BY <1>4, <1>7, Zenon DEF Loads
<1>. HIDE DEF g3, l
<1>9. CASE l = [got |-> g2, ok |-> FALSE]
  <2>1. l.got = g2 /\ l.ok = FALSE
      BY <1>9, Zenon
  <2>. QED BY <2>1, <1>1, <1>7, Zenon DEF Loaded, l
<1>10. CASE l = [got |-> g3, ok |-> FALSE]
  <2>1. l.got = g3 /\ l.ok = FALSE
      BY <1>10, Zenon
  <2>. QED BY <2>1, <1>1, <1>4, <1>8, Zenon DEF Loaded, l
<1>11. CASE l = [got |-> g3, ok |-> TRUE] /\ (rootfs \/ f.part)
  <2>1. l.got = g3 /\ l.ok = TRUE
      BY <1>11, Zenon
  <2>. QED BY <2>1, <1>1, <1>4, <1>6, <1>8, <1>11, Zenon DEF Loaded, l
<1>12. CASE l = [got |-> [g3 EXCEPT !.status = TRUE], ok |-> TRUE] /\ rootfs /\ g3.path = Nowhere
  <2>. DEFINE h == [g3 EXCEPT !.status = TRUE]
  <2>1. l.got = h /\ l.ok = TRUE
      BY <1>12, Zenon
  <2>2. h \in Loads /\ h.kernel = kernel /\ h.dtb = dtb /\ h.args = g1.args /\ h.path = g3.path
      BY <1>8, Zenon DEF Loads
  <2>. HIDE DEF h
  <2>. QED BY <2>1, <2>2, <1>1, <1>4, <1>5, <1>6, <1>12, Zenon DEF Loaded, l
<1>13. CASE l = [got |-> [g3 EXCEPT !.ramdisk = g3.path, !.status = TRUE], ok |-> TRUE] /\ rootfs
  <2>. DEFINE h == [g3 EXCEPT !.ramdisk = g3.path, !.status = TRUE]
  <2>1. l.got = h /\ l.ok = TRUE
      BY <1>13, Zenon
  <2>2. /\ h \in Loads /\ h.kernel = kernel /\ h.dtb = dtb /\ h.args = g1.args
        /\ h.path = g3.path /\ h.ramdisk = g3.path
      BY <1>8, Zenon DEF Loads
  <2>. HIDE DEF h
  <2>. QED BY <2>1, <2>2, <1>1, <1>4, <1>5, <1>6, <1>8, <1>13, Zenon DEF Loaded, l
<1>. QED BY <1>2, <1>9, <1>10, <1>11, <1>12, <1>13, Zenon

----------------------------------------------------------------------------
(* The invariant *)

LEMMA InitMedia == Init => MediaInv
<1>. SUFFICES ASSUME Init PROVE MediaInv
    OBVIOUS
<1>. DEFINE d == [NewDev(Emmc) EXCEPT !.published = TRUE]
            dr == [k \in Kinds |-> k = "emmc"]
<1>1. /\ d \in Devices /\ d.id = Emmc /\ d.ref = 1 /\ d.live /\ d.published
    BY 1 \in Nat DEF NewDev, Devices, Emmc, Kinds
<1>. HIDE DEF d
<1>2. /\ <<d>> \in Seq(Devices) /\ <<1>> \in Seq(Nat)
      /\ Len(<<d>>) = 1 /\ <<d>>[1] = d /\ Len(<<1>>) = 1 /\ <<1>>[1] = 1
    BY <1>1
<1>3. <<>> \in Seq([kind : Kinds, dev : Nat, ref : Nat])
    BY EmptySeq, Zenon
<1>4. dr \in [Kinds -> BOOLEAN] /\ ~dr["nvme"]
    BY DEF Kinds
<1>. HIDE DEF dr
<1>5. m = [devs |-> <<d>>, bdevs |-> <<1>>, storage |-> <<1>>, mounts |-> <<>>,
           driver |-> dr, stuck |-> FALSE, fault |-> {}]
    BY Zenon DEF Init, d, dr
<1>6. /\ m \in Media /\ m.devs = <<d>> /\ m.bdevs = <<1>> /\ m.storage = <<1>>
      /\ m.mounts = <<>> /\ m.driver = dr /\ m.fault = {}
    BY <1>2, <1>3, <1>4, <1>5, Zenon DEF Media
<1>7. pc = "next" /\ bdev = NoDev /\ mounted = FALSE /\ calls = 1 /\ got.status = FALSE
    BY Zenon DEF Init
<1>8. got \in Loads
    BY DEF Init, Loads, Sources, Nowhere
<1>9. conf \in Confs
    BY BoundsAssumption DEF Init, Confs
<1>10. TypeOK
  <2>1. order \in Orders /\ recovery \in {"no", "once", "always"}
      BY Zenon DEF Init
  <2>2. i \in Nat \ {0} /\ ctrl \in Nat /\ bdev \in Nat /\ calls \in Nat \ {0} /\ fdt \in Nat
      BY DEF Init, NoDev
  <2>. QED BY <1>6, <1>7, <1>8, <1>9, <2>1, <2>2, Zenon DEF TypeOK
<1>11. ListSound(m)
  <2>1. \A j \in 1..Len(m.bdevs) : j = 1 /\ m.bdevs[j] = 1
      BY <1>2, <1>6
  <2>2. 1 \in 1..Len(m.devs) /\ Len(m.bdevs) > 0 /\ m.devs[1].ref > 0 /\ m.devs[1] = d
      BY <1>1, <1>2, <1>6
  <2>. QED BY <1>1, <1>2, <1>6, <2>1, <2>2, Zenon DEF ListSound
<1>12. OthersAtRest(m, bdev)
    BY <1>2, <1>6 DEF OthersAtRest
<1>13. ~Trying
    BY <1>7 DEF Trying
<1>14. Released(m) /\ DriverInv
    BY <1>4, <1>6, Zenon DEF Released, DriverInv
<1>15. LoadInv
    BY <1>7, Zenon DEF LoadInv
<1>. QED BY <1>7, <1>10, <1>11, <1>12, <1>13, <1>14, <1>15, Zenon DEF MediaInv

\* Between attempts, nothing is held and the NVMe driver is free or stuck.
LEMMA AtRest ==
    ASSUME MediaInv, ~Trying
    PROVE  /\ m \in Media /\ ListSound(m) /\ OthersAtRest(m, NoDev) /\ Released(m)
           /\ m.driver["nvme"] => m.stuck
<1>1. m \in Media /\ ListSound(m) /\ OthersAtRest(m, NoDev) /\ Released(m) /\ DriverInv
    BY Zenon DEF MediaInv, TypeOK
<1>. QED BY <1>1, Zenon DEF DriverInv

LEMMA RemovableOpenStep == MediaInv /\ RemovableOpen => MediaInv'
<1>. SUFFICES ASSUME MediaInv, RemovableOpen PROVE MediaInv'
    OBVIOUS
<1>1. /\ pc = "next" /\ OrderAt(i) # "emmc" /\ ~Trying
      /\ conf' = conf /\ order' = order /\ i' = i /\ ctrl' = ctrl
      /\ got' = got /\ fdt' = fdt /\ calls' = calls
    BY DEF RemovableOpen, Trying
<1>14. recovery' \in {"no", "once", "always"}
  <2>1. recovery \in {"no", "once", "always"}
      BY Zenon DEF MediaInv, TypeOK
  <2>2. AskRecovery \/ recovery' = recovery
      BY Zenon DEF RemovableOpen
  <2>. QED BY <2>1, <2>2, Zenon DEF AskRecovery
<1>2. TypeOK /\ LoadInv /\ bdev = NoDev /\ mounted \in BOOLEAN /\ mounted = FALSE
    BY <1>1, Zenon DEF MediaInv, TypeOK
<1>3. DevId \in Kinds \X Nat /\ DevId[1] = OrderAt(i) /\ DevId # Emmc
    BY <1>1, <1>2, DevIdFacts, Zenon
<1>4. DevId' = DevId /\ OrderAt(i)' = OrderAt(i) /\ Partition' = Partition
    BY <1>1 DEF DevId, OrderAt, Partition
<1>5. PICK works \in BOOLEAN :
         LET d == DriverOpen(m, DevId, works)
             o == tegrabl_blockdev_open(d.m, DevId)
         IN  IF d.ok /\ o # NoDev
             THEN /\ Publish(o, [d.m EXCEPT !.devs[o].ref = @ + 1])
                  /\ AskRecovery
                  /\ bdev' = o /\ pc' = IF BootToRecovery THEN "recover" ELSE "load"
             ELSE /\ m' = d.m /\ pc' = "gave up"
                  /\ UNCHANGED <<recovery, bdev, mounted>>
    BY Zenon DEF RemovableOpen
<1>. DEFINE d == DriverOpen(m, DevId, works)
            o == tegrabl_blockdev_open(d.m, DevId)
<1>6. /\ d.m \in Media /\ ListSound(d.m) /\ OthersAtRest(d.m, NoDev) /\ Released(d.m)
      /\ d.m.driver["nvme"] /\ ~d.m.stuck =>
           /\ d.ok /\ DevId[1] = "nvme"
           /\ \E j \in 1..Len(d.m.bdevs) : d.m.devs[d.m.bdevs[j]].id = DevId
    BY <1>1, <1>3, AtRest, DriverOpenEffect
<1>. DEFINE n == d.m
            J == {j \in 1..Len(n.bdevs) : n.devs[n.bdevs[j]].id = DevId}
<1>7. /\ J # {} => \E j \in J : o = n.bdevs[j]
      /\ J = {} => o = NoDev
    BY <1>6, OpenFinds, SMTT(60)
<1>8. \A j \in 1..Len(n.bdevs) : n.bdevs[j] # NoDev
  <2>1. \A j \in 1..Len(n.bdevs) : n.bdevs[j] \in 1..Len(n.devs)
      BY <1>6, Zenon DEF ListSound
  <2>. HIDE DEF n
  <2>. QED BY <2>1 DEF NoDev
<1>9. n.devs[1].id = Emmc
    BY <1>6, Zenon DEF ListSound
<1>. HIDE DEF d, n, o
<1>10. LoadInv' \/ pc' \notin {"recover", "load", "gave up"}
  <2>1. calls = 1 => ~got.status
      BY <1>1, <1>2, Zenon DEF LoadInv
  <2>2. CASE pc' \in {"recover", "load", "gave up"}
    <3>1. pc' \notin {"close ok", "loaded", "booted"}
        BY <2>2
    <3>. QED BY <3>1, <2>1, <1>1, Zenon DEF LoadInv
  <2>. QED BY <2>2
<1>11. CASE d.ok /\ o # NoDev
  <2>. DEFINE q == [n EXCEPT !.devs[o].ref = @ + 1]
  <2>1. Publish(o, q) /\ bdev' = o /\ pc' \in {"recover", "load"}
      BY <1>5, <1>11, Zenon DEF d, o, n
  <2>2. PICK k \in 1..Len(n.bdevs) : n.devs[n.bdevs[k]].id = DevId /\ o = n.bdevs[k]
      BY <1>7, <1>11, Zenon
  <2>3. n.bdevs[k] # 1
      BY <1>3, <1>9, <2>2, Zenon
  <2>4. /\ q \in Media /\ ListSound(q) /\ OthersAtRest(q, o)
        /\ Held(q, o, DevId, FALSE) /\ q.devs[o].ref > 1
        /\ q.driver = n.driver /\ q.stuck = n.stuck
    <3>. DEFINE b == n.bdevs[k]
                e == [n EXCEPT !.devs[b].ref = @ + 1]
    <3>1. n \in Media /\ ListSound(n) /\ OthersAtRest(n, NoDev) /\ Released(n)
        BY <1>6, Zenon DEF n
    <3>2. n.bdevs[k] = 1 <=> DevId = Emmc
        BY <1>3, <2>3, Zenon
    <3>3. /\ e \in Media /\ ListSound(e) /\ OthersAtRest(e, b)
          /\ Held(e, b, DevId, FALSE) /\ e.devs[b].ref > 1
          /\ e.driver = n.driver /\ e.stuck = n.stuck
        BY <2>2, <3>1, <3>2, OpenEffect
    <3>4. b = o /\ e = q
        BY <2>2, Zenon
    <3>. HIDE DEF b, e, q
    <3>. QED BY <3>3, <3>4, Zenon
  <2>5. PICK r \in PublishResults :
           m' = tegrabl_fm_publish(q, o, r).m /\ mounted' = tegrabl_fm_publish(q, o, r).ok
      BY <2>1, Zenon DEF Publish
  <2>. HIDE DEF q
  <2>. DEFINE p == tegrabl_fm_publish(q, o, r)
  <2>6. /\ p.m \in Media /\ p.ok \in BOOLEAN
        /\ ListSound(p.m) /\ OthersAtRest(p.m, o) /\ Held(p.m, o, DevId, p.ok)
        /\ p.m.driver = q.driver /\ p.m.stuck = q.stuck
      BY <1>3, <2>4, PublishEffect
  <2>. HIDE DEF p
  <2>7. /\ m' \in Media /\ mounted' \in BOOLEAN
        /\ ListSound(m)' /\ OthersAtRest(m, bdev)' /\ Held(m, bdev, DevId, mounted)'
        /\ m'.driver = n.driver /\ m'.stuck = n.stuck
    <3>1. m' = p.m /\ mounted' = p.ok /\ bdev' = o
        BY <2>1, <2>5, Zenon DEF p
    <3>. QED BY <3>1, <1>4, <2>4, <2>6, Zenon
  <2>8. TypeOK'
    <3>1. n.bdevs \in Seq(Nat)
        BY <1>6, MediaFields, Zenon DEF n
    <3>2. o \in Nat
        BY <2>2, <3>1
    <3>3. bdev' \in Nat
        BY <2>1, <3>2, Zenon
    <3>4. pc' \in {"next", "recover", "load", "close", "close ok", "gave up", "loaded",
                  "reset", "booted", "failed"}
        BY <2>1
    <3>. QED BY <3>3, <3>4, <1>1, <1>2, <1>14, <2>7, Zenon DEF TypeOK
  <2>9. Trying'
      BY <2>1 DEF Trying
  <2>10. DriverInv'
      BY <1>3, <1>4, <1>6, <2>7, <2>9, Zenon DEF DriverInv, n
  <2>11. LoadInv'
      BY <1>10, <2>1
  <2>. QED BY <2>7, <2>8, <2>9, <2>10, <2>11, Zenon DEF MediaInv
<1>12. CASE ~(d.ok /\ o # NoDev)
  <2>1. m' = n /\ pc' = "gave up" /\ bdev' = bdev /\ mounted' = mounted
      BY <1>5, <1>12, Zenon DEF d, o, n
  <2>2. n \in Media /\ ListSound(n) /\ OthersAtRest(n, NoDev) /\ Released(n)
      BY <1>6, Zenon DEF n
  <2>3. TypeOK'
      BY <2>1, <2>2, <1>1, <1>2, <1>14, Zenon DEF TypeOK
  <2>4. ~Trying'
      BY <2>1 DEF Trying
  <2>5. ~(n.driver["nvme"] /\ ~n.stuck)
      BY <1>6, <1>7, <1>8, <1>12, Zenon DEF n
  <2>6. DriverInv' /\ LoadInv'
      BY <2>1, <2>5, <1>10, Zenon DEF DriverInv
  <2>. QED BY <2>1, <2>2, <2>3, <2>4, <2>6, <1>2, Zenon DEF MediaInv
<1>. QED BY <1>11, <1>12

LEMMA FixedOpenStep == MediaInv /\ FixedOpen => MediaInv'
<1>. SUFFICES ASSUME MediaInv, FixedOpen PROVE MediaInv'
    OBVIOUS
<1>1. /\ pc = "next" /\ OrderAt(i) = "emmc" /\ ~Trying
      /\ conf' = conf /\ order' = order /\ i' = i /\ ctrl' = ctrl
      /\ fdt' = fdt /\ calls' = calls
    BY DEF FixedOpen, Trying
<1>9. recovery' \in {"no", "once", "always"}
  <2>1. recovery \in {"no", "once", "always"} /\ AskRecovery
      BY Zenon DEF MediaInv, TypeOK, FixedOpen
  <2>. QED BY <2>1, Zenon DEF AskRecovery
<1>2. TypeOK /\ LoadInv /\ bdev = NoDev /\ mounted \in BOOLEAN /\ mounted = FALSE /\ DriverInv
    BY <1>1, Zenon DEF MediaInv, TypeOK
<1>3. DevId \in Kinds \X Nat /\ DevId = Emmc
    BY <1>1, <1>2, DevIdFacts, Zenon
<1>4. DevId' = DevId /\ OrderAt(i)' = OrderAt(i) /\ Partition' = Partition
    BY <1>1 DEF DevId, OrderAt, Partition
<1>5. /\ m \in Media /\ ListSound(m) /\ OthersAtRest(m, NoDev) /\ Released(m)
      /\ m.driver["nvme"] => m.stuck
    BY <1>1, AtRest, Zenon
<1>6. calls = 1 => ~got.status
    BY <1>1, <1>2, Zenon DEF LoadInv
<1>7. CASE BootToRecovery
  <2>1. m' = m /\ bdev' = bdev /\ mounted' = mounted
      BY <1>7, Zenon DEF FixedOpen
  <2>2. \/ pc' = "loaded" /\ got' = [got EXCEPT !.kernel = Partition, !.dtb = Partition]
        \/ pc' = "reset" /\ got' = got
      BY <1>7, Zenon DEF FixedOpen
  <2>3. Partition \in Sources /\ got \in Loads
      BY <1>2, PartitionIsSource, Zenon DEF TypeOK
  <2>4. /\ got' \in Loads /\ got'.status = got.status
        /\ pc' = "loaded" => got'.kernel = Partition /\ got'.dtb = Partition
    <3>1. CASE pc' = "loaded" /\ got' = [got EXCEPT !.kernel = Partition, !.dtb = Partition]
        BY <2>3, <3>1, Zenon DEF Loads
    <3>2. CASE pc' = "reset" /\ got' = got
        BY <2>3, <3>2
    <3>. QED BY <2>2, <3>1, <3>2, Zenon
  <2>5. pc' \in {"loaded", "reset"}
      BY <2>2
  <2>6. ~Trying'
      BY <2>5 DEF Trying
  <2>7. TypeOK'
    <3>1. pc' \in {"next", "recover", "load", "close", "close ok", "gave up", "loaded",
             "reset", "booted", "failed"}
        BY <2>5
    <3>. QED BY <3>1, <2>1, <2>4, <1>1, <1>2, <1>9, Zenon DEF TypeOK
  <2>8. LoadInv'
    <3>1. pc' \in {"close ok", "loaded", "booted"} => pc' = "loaded"
        BY <2>5
    <3>2. calls' = 1 => ~got'.status
        BY <1>1, <1>6, <2>4, Zenon
    <3>. QED BY <3>1, <3>2, <2>4, <1>4, Zenon DEF LoadInv
  <2>9. DriverInv'
      BY <2>1, <1>5, Zenon DEF DriverInv
  <2>. QED BY <2>1, <2>6, <2>7, <2>8, <2>9, <1>2, <1>5, Zenon DEF MediaInv
<1>8. CASE ~BootToRecovery
  <2>. DEFINE o == tegrabl_blockdev_open(m, Emmc)
              q == [m EXCEPT !.devs[o].ref = @ + 1]
  <2>1. Publish(o, q) /\ bdev' = o /\ pc' = "load" /\ got' = got
      BY <1>8, Zenon DEF FixedOpen
  <2>2. 1 \in 1..Len(m.bdevs) /\ m.bdevs[1] = 1 /\ m.devs[1].id = Emmc
    <3>1. m.bdevs \in Seq(Nat) /\ Len(m.bdevs) > 0
        BY <1>5, MediaFields, Zenon DEF ListSound
    <3>2. m.bdevs[1] = 1 /\ m.devs[1].id = Emmc
        BY <1>5, Zenon DEF ListSound
    <3>. QED BY <3>1, <3>2
  <2>3. o = 1
    <3>. DEFINE J == {j \in 1..Len(m.bdevs) : m.devs[m.bdevs[j]].id = Emmc}
    <3>1. 1 \in J
        BY <2>2, Zenon
    <3>2. 1 \in J => o = m.bdevs[1]
        BY <1>5, OpenFinds
    <3>. QED BY <3>1, <3>2, <2>2, Zenon
  <2>. HIDE DEF o
  <2>4. /\ q \in Media /\ ListSound(q) /\ OthersAtRest(q, o)
        /\ Held(q, o, DevId, FALSE) /\ q.devs[o].ref > 1
        /\ q.driver = m.driver /\ q.stuck = m.stuck
    <3>. DEFINE b == m.bdevs[1]
                e == [m EXCEPT !.devs[b].ref = @ + 1]
    <3>1. m.bdevs[1] = 1 <=> DevId = Emmc
        BY <1>3, <2>2, Zenon
    <3>2. m.devs[m.bdevs[1]].id = DevId
        BY <1>3, <2>2, Zenon
    <3>3. /\ e \in Media /\ ListSound(e) /\ OthersAtRest(e, b)
          /\ Held(e, b, DevId, FALSE) /\ e.devs[b].ref > 1
          /\ e.driver = m.driver /\ e.stuck = m.stuck
        BY <1>5, <2>2, <3>1, <3>2, OpenEffect, ZenonT(60)
    <3>4. b = o /\ e = q
        BY <2>2, <2>3, Zenon
    <3>. HIDE DEF b, e, q
    <3>. QED BY <3>3, <3>4, Zenon
  <2>5. PICK r \in PublishResults :
           m' = tegrabl_fm_publish(q, o, r).m /\ mounted' = tegrabl_fm_publish(q, o, r).ok
      BY <2>1, Zenon DEF Publish
  <2>. HIDE DEF q
  <2>. DEFINE p == tegrabl_fm_publish(q, o, r)
  <2>6. /\ p.m \in Media /\ p.ok \in BOOLEAN
        /\ ListSound(p.m) /\ OthersAtRest(p.m, o) /\ Held(p.m, o, DevId, p.ok)
        /\ p.m.driver = q.driver /\ p.m.stuck = q.stuck
      BY <1>3, <2>4, PublishEffect, ZenonT(60)
  <2>. HIDE DEF p
  <2>7. /\ m' \in Media /\ mounted' \in BOOLEAN
        /\ ListSound(m)' /\ OthersAtRest(m, bdev)' /\ Held(m, bdev, DevId, mounted)'
        /\ m'.driver = m.driver /\ m'.stuck = m.stuck
    <3>1. m' = p.m /\ mounted' = p.ok /\ bdev' = o
        BY <2>1, <2>5, Zenon DEF p
    <3>. QED BY <3>1, <1>4, <2>4, <2>6, Zenon
  <2>8. TypeOK'
    <3>1. pc' = "load" /\ bdev' \in Nat
        BY <2>1, <2>3
    <3>. QED BY <3>1, <1>1, <1>2, <1>9, <2>1, <2>7, Zenon DEF TypeOK
  <2>9. Trying'
      BY <2>1 DEF Trying
  <2>10. DriverInv'
      BY <1>5, <2>7, Zenon DEF DriverInv
  <2>11. LoadInv'
    <3>1. pc' \notin {"close ok", "loaded", "booted"}
        BY <2>1
    <3>. QED BY <3>1, <2>1, <1>1, <1>6, Zenon DEF LoadInv
  <2>. QED BY <2>7, <2>8, <2>9, <2>10, <2>11, Zenon DEF MediaInv
<1>. QED BY <1>7, <1>8

LEMMA LoadFromPartitionStep == MediaInv /\ LoadFromPartition => MediaInv'
<1>. SUFFICES ASSUME MediaInv, LoadFromPartition PROVE MediaInv'
    OBVIOUS
<1>1. /\ pc \in {"recover", "load"} /\ Trying /\ m' = m /\ conf' = conf /\ order' = order
      /\ recovery' = recovery /\ i' = i /\ ctrl' = ctrl /\ bdev' = bdev
      /\ mounted' = mounted /\ fdt' = fdt /\ calls' = calls
    BY DEF LoadFromPartition, Trying
<1>2. /\ TypeOK /\ LoadInv /\ DriverInv /\ ListSound(m) /\ OthersAtRest(m, bdev)
      /\ Held(m, bdev, DevId, mounted)
    BY <1>1, Zenon DEF MediaInv
<1>3. DevId' = DevId /\ OrderAt(i)' = OrderAt(i) /\ Partition' = Partition
    BY <1>1 DEF DevId, OrderAt, Partition
<1>4. DevId \in Sources /\ got \in Loads
  <2>1. DevId \in Kinds \X Nat
      BY <1>2, DevIdFacts, Zenon
  <2>. QED BY <1>2, <2>1 DEF Sources, TypeOK
<1>5. \/ pc' = "close ok" /\ got' = [got EXCEPT !.kernel = DevId, !.dtb = DevId]
      \/ pc' = "close" /\ (got' = got \/ got' = [got EXCEPT !.kernel = DevId])
    BY Zenon DEF LoadFromPartition
<1>6. /\ got' \in Loads /\ got'.status = got.status
      /\ pc' = "close ok" => got'.kernel = DevId /\ got'.dtb = DevId
  <2>1. CASE pc' = "close ok" /\ got' = [got EXCEPT !.kernel = DevId, !.dtb = DevId]
      BY <1>4, <2>1, Zenon DEF Loads
  <2>2. CASE pc' = "close" /\ got' = got
      BY <1>4, <2>2
  <2>3. CASE pc' = "close" /\ got' = [got EXCEPT !.kernel = DevId]
    <3>1. got' \in Loads /\ got'.status = got.status
        BY <1>4, <2>3, Zenon DEF Loads
    <3>. QED BY <2>3, <3>1
  <2>. QED BY <1>5, <2>1, <2>2, <2>3, Zenon
<1>7. pc' \in {"close", "close ok"}
    BY <1>5
<1>8. Trying'
    BY <1>7 DEF Trying
<1>9. TypeOK'
  <2>1. pc' \in {"next", "recover", "load", "close", "close ok", "gave up", "loaded",
             "reset", "booted", "failed"}
      BY <1>7
  <2>. QED BY <2>1, <1>1, <1>2, <1>6, Zenon DEF TypeOK
<1>10. LoadInv'
  <2>1. pc' \in {"close ok", "loaded", "booted"} => pc' = "close ok"
      BY <1>7
  <2>2. calls' = 1 => ~got'.status
      BY <1>1, <1>2, <1>6, Zenon DEF LoadInv
  <2>. QED BY <2>1, <2>2, <1>3, <1>6, Zenon DEF LoadInv
<1>11. DriverInv'
    BY <1>1, <1>2, <1>3, <1>8, Zenon DEF DriverInv
<1>12. ListSound(m)' /\ OthersAtRest(m, bdev)' /\ Held(m, bdev, DevId, mounted)'
    BY <1>1, <1>2, <1>3, Zenon
<1>. QED BY <1>8, <1>9, <1>10, <1>11, <1>12, Zenon DEF MediaInv

\* The parser's memory keeps its type.
LEMMA ConfType ==
    ASSUME NEW c \in Confs, NEW n \in 0..MaxEntries
    PROVE  parse_conf_file(c, n) \in Confs /\ free_sections(c) \in Confs
    BY DEF Confs, parse_conf_file, free_sections

LEMMA ExtlinuxBootStep == MediaInv /\ ExtlinuxBoot => MediaInv'
<1>. SUFFICES ASSUME MediaInv, ExtlinuxBoot PROVE MediaInv'
    OBVIOUS
<1>1. /\ pc = "load" /\ Trying /\ order' = order /\ recovery' = recovery /\ i' = i
      /\ ctrl' = ctrl /\ bdev' = bdev /\ mounted' = mounted /\ fdt' = fdt /\ calls' = calls
    BY DEF ExtlinuxBoot, Trying
<1>2. /\ TypeOK /\ LoadInv /\ DriverInv /\ ListSound(m) /\ OthersAtRest(m, bdev)
      /\ Held(m, bdev, DevId, mounted)
    BY <1>1, Zenon DEF MediaInv
<1>3. DevId' = DevId /\ OrderAt(i)' = OrderAt(i) /\ Partition' = Partition
    BY <1>1 DEF DevId, OrderAt, Partition
<1>4. DevId \in Sources /\ got \in Loads /\ mounted \in BOOLEAN /\ conf \in Confs /\ m \in Media
  <2>1. DevId \in Kinds \X Nat
      BY <1>2, DevIdFacts, Zenon
  <2>2. DevId \in Sources
      BY <2>1 DEF Sources
  <2>. QED BY <1>2, <2>2, Zenon DEF TypeOK
<1>5. m.devs[bdev].id = DevId
    BY <1>2, Zenon DEF Held
<1>6. PICK f \in Finds :
         LET c == IF mounted /\ f.n > 0 THEN parse_conf_file(conf, f.n) ELSE conf
             l == extlinux_boot_load_kernel_and_dtb(m.devs[bdev].id, f, mounted, got, fdt # 0)
         IN  /\ got' = l.got
             /\ conf' = free_sections(c)
             /\ m' = IF FreedTwice(c) THEN [m EXCEPT !.fault = @ \cup {"section"}] ELSE m
             /\ pc' = IF l.ok THEN "close ok" ELSE "close"
    BY Zenon DEF ExtlinuxBoot
<1>. DEFINE c == IF mounted /\ f.n > 0 THEN parse_conf_file(conf, f.n) ELSE conf
            l == extlinux_boot_load_kernel_and_dtb(DevId, f, mounted, got, fdt # 0)
<1>7. got' = l.got /\ pc' = IF l.ok THEN "close ok" ELSE "close"
    BY <1>5, <1>6, Zenon
<1>8. conf' = free_sections(c) /\ m' \in {m, [m EXCEPT !.fault = @ \cup {"section"}]}
    BY <1>6, Zenon
<1>9. Loaded(DevId, got, l.got, l.ok, fdt # 0)
  <2>1. (fdt # 0) \in BOOLEAN
      OBVIOUS
  <2>. QED BY <1>2, <1>4, <2>1, ExtlinuxEffect
<1>10. f.n \in 0..MaxEntries
    BY DEF Finds
<1>11. conf' \in Confs
  <2>1. c \in Confs
      BY <1>4, <1>10, ConfType, Zenon
  <2>. HIDE DEF c
  <2>. QED BY <1>8, <1>10, <2>1, ConfType, Zenon
<1>. HIDE DEF l, c
<1>12. /\ m' \in Media /\ m'.devs = m.devs /\ m'.bdevs = m.bdevs /\ m'.storage = m.storage
       /\ m'.mounts = m.mounts /\ m'.driver = m.driver /\ m'.stuck = m.stuck
       /\ "device" \notin m'.fault
  <2>. DEFINE fl == m.fault \cup {"section"}
  <2>1. m.fault \in SUBSET {"device", "section", "forced close"} /\ "device" \notin m.fault
      BY <1>2, <1>4, MediaFields, Zenon DEF ListSound
  <2>2. fl \in SUBSET {"device", "section", "forced close"} /\ "device" \notin fl
      BY <2>1
  <2>3. m' = m \/ m' = [m EXCEPT !.fault = fl]
      BY <1>8, Zenon
  <2>. HIDE DEF fl
  <2>. QED BY <1>4, <2>1, <2>2, <2>3, Zenon DEF Media
<1>13. ListSound(m')
    BY <1>2, <1>12, SMT DEF ListSound
<1>14. OthersAtRest(m', bdev)
    BY <1>2, <1>12, SMT DEF OthersAtRest
<1>15. Held(m', bdev, DevId, mounted)
    BY <1>2, <1>12, SMT DEF Held
<1>16. pc' \in {"close", "close ok"} /\ (pc' = "close ok" <=> l.ok)
    BY <1>7, <1>9 DEF Loaded
<1>17. Trying'
    BY <1>16 DEF Trying
<1>18. TypeOK'
  <2>1. pc' \in {"next", "recover", "load", "close", "close ok", "gave up", "loaded",
             "reset", "booted", "failed"}
      BY <1>16
  <2>2. got' \in Loads
      BY <1>7, <1>9, Zenon DEF Loaded
  <2>. QED BY <2>1, <2>2, <1>1, <1>2, <1>11, <1>12, Zenon DEF TypeOK
<1>19. LoadInv'
  <2>1. calls = 1 => ~got.status
      BY <1>1, <1>2, Zenon DEF LoadInv
  <2>2. pc' \in {"close ok", "loaded", "booted"} => l.ok
      BY <1>16
  <2>3. pc' \in {"next", "recover", "load", "close", "gave up"} => ~l.ok
      BY <1>16
  <2>4. pc' \in {"close ok", "loaded", "booted"} => got'.kernel \in {DevId', Partition'}
      BY <2>2, <1>3, <1>7, <1>9, Zenon DEF Loaded
  <2>5. calls' = 1 /\ pc' \in {"next", "recover", "load", "close", "gave up"} => ~got'.status
      BY <2>1, <2>3, <1>1, <1>7, <1>9, Zenon DEF Loaded
  <2>6. calls' = 1 /\ got'.status =>
          got'.kernel = got'.args /\ (got'.path # Nowhere => got'.ramdisk = got'.kernel)
      BY <2>1, <1>1, <1>7, <1>9, Zenon DEF Loaded
  <2>. QED BY <2>4, <2>5, <2>6, Zenon DEF LoadInv
<1>20. DriverInv'
    BY <1>1, <1>2, <1>3, <1>12, <1>17, Zenon DEF DriverInv
<1>21. ListSound(m)' /\ OthersAtRest(m, bdev)' /\ Held(m, bdev, DevId, mounted)'
    BY <1>1, <1>3, <1>13, <1>14, <1>15, Zenon
<1>. QED BY <1>17, <1>18, <1>19, <1>20, <1>21, Zenon DEF MediaInv

\* Both ends of an attempt come to this: all is given back, and the result stands.
LEMMA AttemptEnds ==
    ASSUME MediaInv, pc \in {"close", "close ok"},
           m' \in Media, ListSound(m'), OthersAtRest(m', NoDev), Released(m'),
           m'.driver["nvme"] => m'.stuck,
           bdev' = NoDev, mounted' = FALSE,
           pc' \in {"loaded", "gave up", "failed"}, pc' = "loaded" <=> pc = "close ok",
           UNCHANGED <<conf, order, recovery, i, ctrl, got, fdt, calls>>
    PROVE  MediaInv'
<1>1. TypeOK /\ LoadInv
    BY Zenon DEF MediaInv
<1>2. DevId' = DevId /\ Partition' = Partition
    BY DEF DevId, OrderAt, Partition
<1>3. ~Trying'
    BY DEF Trying
<1>4. TypeOK'
  <2>1. pc' \in {"next", "recover", "load", "close", "close ok", "gave up", "loaded",
             "reset", "booted", "failed"}
      OBVIOUS
  <2>2. bdev' \in Nat /\ mounted' \in BOOLEAN
      BY DEF NoDev
  <2>. QED BY <1>1, <2>1, <2>2, Zenon DEF TypeOK
<1>5. LoadInv'
  <2>1. pc' \in {"close ok", "loaded", "booted"} => pc = "close ok"
      OBVIOUS
  <2>2. pc' \in {"next", "recover", "load", "close", "gave up"} => pc = "close"
      OBVIOUS
  <2>3. pc = "close ok" => pc \in {"close ok", "loaded", "booted"}
      OBVIOUS
  <2>4. pc = "close" => pc \in {"next", "recover", "load", "close", "gave up"}
      OBVIOUS
  <2>5. got' = got /\ calls' = calls
      OBVIOUS
  <2>. QED BY <1>1, <1>2, <2>1, <2>2, <2>3, <2>4, <2>5, Zenon DEF LoadInv
<1>6. DriverInv'
    BY Zenon DEF DriverInv
<1>. QED BY <1>3, <1>4, <1>5, <1>6, Zenon DEF MediaInv

LEMMA RemovableCloseStep == MediaInv /\ RemovableClose => MediaInv'
<1>. SUFFICES ASSUME MediaInv, RemovableClose PROVE MediaInv'
    OBVIOUS
<1>1. pc \in {"close", "close ok"} /\ OrderAt(i) # "emmc" /\ Trying
    BY DEF RemovableClose, Trying
<1>2. /\ TypeOK /\ DriverInv /\ ListSound(m) /\ OthersAtRest(m, bdev)
      /\ Held(m, bdev, DevId, mounted) /\ m \in Media /\ mounted \in BOOLEAN
    BY <1>1, Zenon DEF MediaInv, TypeOK
<1>3. DevId \in Kinds \X Nat /\ DevId # Emmc /\ DevId[1] = OrderAt(i)
    BY <1>1, <1>2, DevIdFacts, Zenon
<1>4. m.devs[bdev].id = DevId /\ bdev # 1
    BY <1>2, <1>3, Zenon DEF Held
<1>5. PICK ok \in BOOLEAN :
         LET kind == m.devs[bdev].id[1]
             un == tegrabl_partitions_unpublish(m, bdev)
             fm == tegrabl_fm_close(un, kind, mounted, ok)
             cl == tegrabl_blockdev_close(fm, bdev, ok)
         IN  m' = IF kind = "nvme" THEN ForceClose(cl, bdev, ok) ELSE cl
    BY Zenon DEF RemovableClose
<1>. DEFINE un == tegrabl_partitions_unpublish(m, bdev)
            fm == tegrabl_fm_close(un, DevId[1], mounted, ok)
            cl == tegrabl_blockdev_close(fm, bdev, ok)
            n == IF DevId[1] = "nvme" THEN ForceClose(cl, bdev, ok) ELSE cl
<1>6. m' = n
    BY <1>4, <1>5, Zenon
<1>7. /\ n \in Media /\ ListSound(n) /\ OthersAtRest(n, NoDev) /\ Released(n)
      /\ n.driver["nvme"] /\ ~n.stuck => m.driver["nvme"] /\ ~m.stuck
      /\ DevId[1] = "nvme" => (n.driver["nvme"] => n.stuck)
    BY <1>2, <1>3, <1>4, RemovableCloseEffect
<1>. HIDE DEF n
<1>8. n.driver["nvme"] => n.stuck
    BY <1>2, <1>3, <1>7, Zenon DEF DriverInv
<1>9. /\ pc' \in {"loaded", "gave up", "failed"} /\ (pc' = "loaded" <=> pc = "close ok")
      /\ bdev' = NoDev /\ mounted' = FALSE
      /\ UNCHANGED <<conf, order, recovery, i, ctrl, got, fdt, calls>>
    BY DEF RemovableClose
<1>. QED BY <1>1, <1>6, <1>7, <1>8, <1>9, AttemptEnds

LEMMA FixedCloseStep == MediaInv /\ FixedClose => MediaInv'
<1>. SUFFICES ASSUME MediaInv, FixedClose PROVE MediaInv'
    OBVIOUS
<1>1. pc \in {"close", "close ok"} /\ OrderAt(i) = "emmc" /\ Trying
    BY DEF FixedClose, Trying
<1>2. /\ TypeOK /\ DriverInv /\ ListSound(m) /\ OthersAtRest(m, bdev)
      /\ Held(m, bdev, DevId, mounted) /\ m \in Media /\ mounted \in BOOLEAN
    BY <1>1, Zenon DEF MediaInv, TypeOK
<1>3. DevId = Emmc /\ DevId[1] = "emmc" /\ DevId[1] \in Kinds
    BY <1>1, <1>2, DevIdFacts, Zenon
<1>4. bdev = 1
    BY <1>2, <1>3, Zenon DEF Held
<1>. DEFINE n == tegrabl_fm_close(m, DevId[1], mounted, TRUE)
<1>5. m' = n
    BY <1>3, Zenon DEF FixedClose
<1>6. Unmounted(n, m, bdev, DevId)
    BY <1>2, <1>3, FmCloseEffect, Zenon
<1>. HIDE DEF n
<1>7. /\ n \in Media /\ ListSound(n) /\ OthersAtRest(n, NoDev) /\ Released(n)
  <2>1. n \in Media /\ ListSound(n) /\ OthersAtRest(n, 1) /\ Held(n, 1, DevId, FALSE)
      BY <1>4, <1>6, Zenon DEF Unmounted
  <2>2. OthersAtRest(n, NoDev)
      BY <2>1, Zenon DEF OthersAtRest
  <2>3. Released(n)
      BY <2>1, Zenon DEF Held, Released
  <2>. QED BY <2>1, <2>2, <2>3
<1>8. n.driver["nvme"] => n.stuck
  <2>1. OrderAt(i) # "nvme"
      BY <1>1
  <2>. QED BY <1>2, <1>6, <2>1, Zenon DEF DriverInv, Unmounted
<1>9. /\ pc' \in {"loaded", "gave up", "failed"} /\ (pc' = "loaded" <=> pc = "close ok")
      /\ bdev' = NoDev /\ mounted' = FALSE
      /\ UNCHANGED <<conf, order, recovery, i, ctrl, got, fdt, calls>>
    BY DEF FixedClose
<1>. QED BY <1>1, <1>5, <1>7, <1>8, <1>9, AttemptEnds

LEMMA RestStep == MediaInv /\ (NextDevice \/ Extract \/ CallAgain) => MediaInv'
<1>. SUFFICES ASSUME MediaInv, NextDevice \/ Extract \/ CallAgain PROVE MediaInv'
    OBVIOUS
<1>1. /\ m' = m /\ conf' = conf /\ order' = order /\ recovery' = recovery
      /\ bdev' = bdev /\ mounted' = mounted /\ got' = got
    BY DEF NextDevice, Extract, extract_kernel_dtb, CallAgain
<1>2. TypeOK /\ LoadInv
    BY Zenon DEF MediaInv
<1>3. i' \in Nat \ {0} /\ ctrl' \in Nat /\ calls' \in Nat \ {0} /\ fdt' \in Nat
  <2>1. i \in Nat \ {0} /\ ctrl \in Nat /\ calls \in Nat \ {0} /\ fdt \in Nat
      BY <1>2, Zenon DEF TypeOK
  <2>2. CASE NextDevice
    <3>1. calls' = calls /\ i' \in {i, i + 1} /\ ctrl' \in {0, ctrl + 1} /\ fdt' = fdt
        BY <2>2, Zenon DEF NextDevice
    <3>. QED BY <2>1, <3>1
  <2>3. CASE Extract
      BY <2>1, <2>3, Zenon DEF Extract, extract_kernel_dtb
  <2>4. CASE CallAgain
    <3>1. calls' = calls + 1 /\ i' = 1 /\ ctrl' = 0 /\ fdt' = fdt
        BY <2>4, Zenon DEF CallAgain
    <3>. QED BY <2>1, <3>1
  <2>. QED BY <2>2, <2>3, <2>4
<1>4. /\ pc \in {"gave up", "loaded", "failed"} /\ pc' \in {"next", "booted", "failed"}
      /\ pc' = "booted" => pc = "loaded"
      /\ pc' = "next" /\ calls' = 1 => pc = "gave up"
  <2>1. CASE NextDevice
    <3>1. pc = "gave up" /\ pc' = "next"
        BY <2>1, Zenon DEF NextDevice
    <3>. QED BY <3>1
  <2>2. CASE Extract
    <3>1. pc = "loaded" /\ pc' \in {"booted", "failed"}
        BY <2>2 DEF Extract, extract_kernel_dtb
    <3>. QED BY <3>1
  <2>3. CASE CallAgain
    <3>1. pc = "failed" /\ pc' = "next" /\ calls' = calls + 1 /\ calls \in Nat \ {0}
        BY <2>3, <1>2, Zenon DEF CallAgain, TypeOK
    <3>. QED BY <3>1
  <2>. QED BY <2>1, <2>2, <2>3
<1>5. ~Trying /\ ~Trying'
    BY <1>4 DEF Trying
<1>6. /\ m \in Media /\ ListSound(m) /\ OthersAtRest(m, NoDev) /\ Released(m)
      /\ m.driver["nvme"] => m.stuck
    BY <1>5, AtRest, Zenon
<1>7. bdev = NoDev /\ mounted = FALSE
    BY <1>2, <1>5, Zenon DEF MediaInv, TypeOK
<1>8. TypeOK'
  <2>1. pc' \in {"next", "recover", "load", "close", "close ok", "gave up", "loaded",
             "reset", "booted", "failed"}
      BY <1>4
  <2>. QED BY <2>1, <1>1, <1>2, <1>3, Zenon DEF TypeOK
<1>9. DriverInv'
    BY <1>1, <1>6, Zenon DEF DriverInv
<1>10. LoadInv'
  <2>1. calls' = 1 => calls = 1
    <3>1. calls \in Nat \ {0}
        BY <1>2, Zenon DEF TypeOK
    <3>2. calls' = calls \/ calls' = calls + 1
        BY Zenon DEF NextDevice, Extract, extract_kernel_dtb, CallAgain
    <3>. QED BY <3>1, <3>2
  <2>2. pc' = "booted" => DevId' = DevId /\ Partition' = Partition
      BY DEF NextDevice, Extract, extract_kernel_dtb, CallAgain, DevId, OrderAt, Partition
  <2>3. pc' \in {"close ok", "loaded", "booted"} => pc' = "booted" /\ pc \in {"close ok", "loaded", "booted"}
      BY <1>4
  <2>4. calls' = 1 /\ pc' \in {"next", "recover", "load", "close", "gave up"} =>
           pc \in {"next", "recover", "load", "close", "gave up"}
      BY <1>4
  <2>. QED BY <1>1, <1>2, <2>1, <2>2, <2>3, <2>4, Zenon DEF LoadInv
<1>. QED BY <1>1, <1>5, <1>6, <1>7, <1>8, <1>9, <1>10, Zenon DEF MediaInv

\* The device tree and its handle, step by step.
LEMMA HandleStep == MediaInv /\ HandleInv /\ Next => HandleInv'
<1>. SUFFICES ASSUME MediaInv, HandleInv, Next PROVE HandleInv'
    OBVIOUS
<1>1. /\ TypeOK /\ fdt \in Nat /\ calls \in Nat \ {0} /\ got \in Loads
    BY Zenon DEF MediaInv, TypeOK
<1>2. DevId # Nowhere /\ Partition # Nowhere
  <2>1. DevId \in Kinds \X Nat
      BY <1>1, DevIdFacts, Zenon
  <2>. QED BY <2>1 DEF Kinds, Nowhere, Partition
<1>3. UNCHANGED <<order, i, ctrl, calls>> => DevId' = DevId /\ Partition' = Partition
    BY DEF DevId, OrderAt, Partition
<1>4. CASE RemovableOpen
  <2>1. /\ pc = "next" /\ got' = got /\ fdt' = fdt /\ calls' = calls
        /\ pc' \in {"recover", "load", "gave up"}
      BY <1>4 DEF RemovableOpen
  <2>2. /\ pc' \notin {"close ok", "loaded", "booted"} /\ pc' # "booted"
        /\ pc \notin {"booted", "failed"}
      BY <2>1
  <2>. QED BY <2>1, <2>2, Zenon DEF HandleInv
<1>5. CASE FixedOpen
  <2>1. /\ pc = "next" /\ fdt' = fdt /\ calls' = calls /\ UNCHANGED <<order, i, ctrl, calls>>
        /\ pc' \in {"loaded", "reset", "load"}
        /\ got' = got \/ got' = [got EXCEPT !.kernel = Partition, !.dtb = Partition]
        /\ pc' = "loaded" => got' = [got EXCEPT !.kernel = Partition, !.dtb = Partition]
      BY <1>5 DEF FixedOpen
  <2>2. /\ got'.dtb \in {got.dtb, Partition}
        /\ pc' = "loaded" => got'.dtb = Partition
      BY <1>1, <2>1 DEF Loads
  <2>3. Partition' = Partition
      BY <1>3, <2>1
  <2>4. /\ pc' \in {"close ok", "loaded", "booted"} => pc' = "loaded"
        /\ pc' # "booted" /\ pc \notin {"booted", "failed"}
      BY <2>1
  <2>. QED BY <1>2, <2>1, <2>2, <2>3, <2>4, Zenon DEF HandleInv
<1>6. CASE LoadFromPartition
  <2>1. /\ pc \in {"recover", "load"} /\ fdt' = fdt /\ calls' = calls
        /\ UNCHANGED <<order, i, ctrl, calls>>
        /\ \/ pc' = "close ok" /\ got' = [got EXCEPT !.kernel = DevId, !.dtb = DevId]
           \/ pc' = "close" /\ (got' = got \/ got' = [got EXCEPT !.kernel = DevId])
      BY <1>6 DEF LoadFromPartition
  <2>2. /\ pc' \in {"close", "close ok"} /\ got'.dtb \in {got.dtb, DevId}
        /\ pc' = "close ok" => got'.dtb = DevId
      BY <1>1, <2>1 DEF Loads
  <2>3. DevId' = DevId
      BY <1>3, <2>1
  <2>4. /\ pc' \in {"close ok", "loaded", "booted"} => pc' = "close ok"
        /\ pc' # "booted" /\ pc \notin {"booted", "failed"}
      BY <2>1, <2>2
  <2>. QED BY <1>2, <2>1, <2>2, <2>3, <2>4, Zenon DEF HandleInv
<1>7. CASE ExtlinuxBoot
  <2>1. /\ pc = "load" /\ Trying /\ fdt' = fdt /\ calls' = calls
        /\ UNCHANGED <<order, i, ctrl, calls>>
      BY <1>7 DEF ExtlinuxBoot, Trying
  <2>2. m.devs[bdev].id = DevId /\ mounted \in BOOLEAN /\ DevId \in Sources
    <3>1. Held(m, bdev, DevId, mounted) /\ DevId \in Kinds \X Nat /\ mounted \in BOOLEAN
        BY <1>1, <2>1, DevIdFacts, Zenon DEF MediaInv, TypeOK
    <3>2. DevId \in Sources
        BY <3>1 DEF Sources
    <3>. QED BY <3>1, <3>2, Zenon DEF Held
  <2>3. PICK f \in Finds :
           LET l == extlinux_boot_load_kernel_and_dtb(m.devs[bdev].id, f, mounted, got, fdt # 0)
           IN  got' = l.got /\ pc' = IF l.ok THEN "close ok" ELSE "close"
      BY <1>7, Zenon DEF ExtlinuxBoot
  <2>. DEFINE l == extlinux_boot_load_kernel_and_dtb(DevId, f, mounted, got, fdt # 0)
  <2>4. got' = l.got /\ pc' = IF l.ok THEN "close ok" ELSE "close"
      BY <2>2, <2>3, Zenon
  <2>5. Loaded(DevId, got, l.got, l.ok, fdt # 0)
    <3>1. (fdt # 0) \in BOOLEAN
        OBVIOUS
    <3>. QED BY <1>1, <2>2, <3>1, ExtlinuxEffect
  <2>. HIDE DEF l
  <2>6. /\ pc' \in {"close", "close ok"}
        /\ got'.dtb = got.dtb \/ got'.dtb \in {DevId, Partition}
        /\ pc' = "close ok" /\ fdt = 0 => got'.dtb \in {DevId, Partition}
      BY <2>4, <2>5 DEF Loaded
  <2>7. DevId' = DevId /\ Partition' = Partition
      BY <1>3, <2>1
  <2>8. /\ pc' \in {"close ok", "loaded", "booted"} => pc' = "close ok"
        /\ pc' # "booted" /\ pc \notin {"booted", "failed"}
      BY <2>1, <2>6
  <2>9. fdt <= calls /\ fdt < calls /\ fdt # calls
    <3>1. fdt <= calls /\ fdt < calls
        BY <2>8, Zenon DEF HandleInv
    <3>. QED BY <1>1, <3>1
  <2>10. fdt # 0 => got.dtb # Nowhere
      BY Zenon DEF HandleInv
  <2>11. fdt # 0 => got'.dtb # Nowhere
      BY <1>2, <2>6, <2>10, Zenon
  <2>12. pc' = "close ok" => got'.dtb # Nowhere
      BY <1>2, <2>6, <2>11, Zenon
  <2>13. pc' = "close ok" /\ fdt \in {0, calls} => got'.dtb \in {DevId', Partition'}
      BY <2>6, <2>7, <2>9, Zenon
  <2>. QED BY <2>1, <2>8, <2>9, <2>11, <2>12, <2>13, Zenon DEF HandleInv
<1>8. CASE RemovableClose \/ FixedClose
  <2>1. /\ pc \in {"close", "close ok"} /\ got' = got /\ fdt' = fdt /\ calls' = calls
        /\ UNCHANGED <<order, i, ctrl, calls>>
        /\ pc' \in {"loaded", "gave up", "failed"} /\ (pc' = "loaded" => pc = "close ok")
      BY <1>8 DEF RemovableClose, FixedClose
  <2>2. DevId' = DevId /\ Partition' = Partition
      BY <1>3, <2>1
  <2>3. /\ pc' \in {"close ok", "loaded", "booted"} => pc = "close ok" /\ pc \in {"close ok", "loaded", "booted"}
        /\ pc' # "booted" /\ pc \notin {"booted", "failed"}
      BY <2>1
  <2>. QED BY <2>1, <2>2, <2>3, Zenon DEF HandleInv
<1>9. CASE NextDevice \/ CallAgain
  <2>1. /\ pc \in {"gave up", "failed"} /\ pc' = "next" /\ got' = got /\ fdt' = fdt
        /\ calls' = IF pc = "failed" THEN calls + 1 ELSE calls
      BY <1>9 DEF NextDevice, CallAgain
  <2>2. pc' \notin {"close ok", "loaded", "booted"}
      BY <2>1
  <2>3. fdt <= calls /\ (pc = "gave up" => fdt < calls)
      BY <2>1, Zenon DEF HandleInv
  <2>4. fdt' <= calls' /\ fdt' < calls'
    <3>1. fdt' = fdt /\ (calls' = calls + 1 \/ (calls' = calls /\ fdt < calls))
        BY <2>1, <2>3, Zenon
    <3>2. fdt \in Nat /\ calls \in Nat /\ fdt <= calls
        BY <1>1, <2>3
    <3>3. \A f, c, d \in Nat : f <= c /\ (d = c + 1 \/ (d = c /\ f < c)) => f <= d /\ f < d
        OBVIOUS
    <3>4. calls + 1 \in Nat
        BY <3>2
    <3>. QED BY <3>1, <3>2, <3>3, <3>4, Zenon
  <2>5. fdt' # 0 => got'.dtb # Nowhere
      BY <2>1, Zenon DEF HandleInv
  <2>. QED BY <2>1, <2>2, <2>4, <2>5, Zenon DEF HandleInv
<1>10. CASE Extract
  <2>1. /\ pc = "loaded" /\ got' = got /\ calls' = calls /\ UNCHANGED <<order, i, ctrl, calls>>
        /\ \/ pc' = "failed" /\ fdt' = fdt
           \/ pc' \in {"booted", "failed"} /\ fdt' = IF fdt = 0 THEN calls ELSE fdt
      BY <1>10 DEF Extract, extract_kernel_dtb
  <2>2. DevId' = DevId /\ Partition' = Partition
      BY <1>3, <2>1
  <2>3. /\ pc \in {"close ok", "loaded", "booted"} /\ pc \notin {"booted", "failed"}
        /\ pc' \in {"booted", "failed"} /\ (pc' = "booted" => pc' # "failed")
      BY <2>1
  <2>4. /\ got.dtb # Nowhere /\ (fdt \in {0, calls} => got.dtb \in {DevId, Partition})
        /\ fdt <= calls /\ fdt < calls
      BY <2>3, Zenon DEF HandleInv
  <2>5. fdt # calls /\ calls <= calls /\ calls # 0
      BY <1>1, <2>4
  <2>6. fdt' \in {fdt, calls} /\ (pc' = "booted" => fdt' = IF fdt = 0 THEN calls ELSE fdt)
      BY <2>1
  <2>7. fdt' <= calls' /\ (pc' = "booted" => fdt' # 0)
      BY <1>1, <2>1, <2>4, <2>5, <2>6
  <2>8. pc' = "booted" /\ fdt' \in {0, calls'} => fdt = 0
      BY <1>1, <2>1, <2>5, <2>6
  <2>9. pc' \in {"close ok", "loaded", "booted"} => pc' = "booted"
      BY <2>3
  <2>. QED BY <2>1, <2>2, <2>3, <2>4, <2>7, <2>8, <2>9, Zenon DEF HandleInv
<1>. QED BY <1>4, <1>5, <1>6, <1>7, <1>8, <1>9, <1>10, Zenon DEF Next

\* MediaInv and HandleInv hold throughout the search, for all boot orders and any number
\* of calls: references, mounts, published partitions and drivers are those of the
\* attempt under way, and none when there is none; a kernel's device tree that was not
\* loaded in this call is used only through a handle that an earlier call has left.
THEOREM MediaInductive == Spec => [](MediaInv /\ HandleInv)
<1>1. MediaInv /\ HandleInv /\ [Next]_vars => (MediaInv /\ HandleInv)'
  <2>1. MediaInv /\ HandleInv /\ UNCHANGED vars => (MediaInv /\ HandleInv)'
    <3>. SUFFICES ASSUME MediaInv, HandleInv, UNCHANGED vars PROVE MediaInv' /\ HandleInv'
        OBVIOUS
    <3>1. /\ m' = m /\ conf' = conf /\ order' = order /\ recovery' = recovery /\ pc' = pc
          /\ i' = i /\ ctrl' = ctrl /\ bdev' = bdev /\ mounted' = mounted
          /\ got' = got /\ fdt' = fdt /\ calls' = calls
        BY DEF vars
    <3>2. DevId' = DevId /\ OrderAt(i)' = OrderAt(i) /\ Partition' = Partition
        BY <3>1 DEF DevId, OrderAt, Partition
    <3>3. Trying' <=> Trying
        BY <3>1, Zenon DEF Trying
    <3>4. TypeOK' /\ DriverInv' /\ LoadInv'
        BY <3>1, <3>2, <3>3, Zenon DEF MediaInv, TypeOK, DriverInv, LoadInv
    <3>5. HandleInv'
        BY <3>1, <3>2, Zenon DEF HandleInv
    <3>. QED BY <3>1, <3>2, <3>3, <3>4, <3>5, Zenon DEF MediaInv
  <2>2. MediaInv /\ Next => MediaInv'
      BY RemovableOpenStep, FixedOpenStep, LoadFromPartitionStep, ExtlinuxBootStep,
         RemovableCloseStep, FixedCloseStep, RestStep, Zenon DEF Next
  <2>. QED BY <2>1, <2>2, HandleStep, Zenon
<1>2. Init => HandleInv
    BY DEF Init, HandleInv
<1>. QED BY <1>1, <1>2, InitMedia, PTL DEF Spec

\* No device that was given back is listed, published or mounted, every listed one has a
\* reference, and between two attempts only those of the list and of the fixed storage
\* are left: tegrabl_blockdev_close, put_mount and the closing paths of removable_boot.c.
THEOREM ReferencesAreKept == Spec => []ReferencesAgree
<1>1. MediaInv => ReferencesAgree
  <2>. SUFFICES ASSUME MediaInv PROVE ReferencesAgree
      OBVIOUS
  <2>1. m \in Media /\ ListSound(m) /\ OthersAtRest(m, bdev)
      BY Zenon DEF MediaInv, TypeOK
  <2>2. m.devs \in Seq(Devices) /\ m.bdevs \in Seq(Nat)
      BY <2>1, MediaFields, Zenon
  <2>3. \A o \in Range(m.bdevs) : \E j \in 1..Len(m.bdevs) : o = m.bdevs[j]
      BY <2>2, SMTT(60) DEF Range
  <2>4. \A o \in Range(m.bdevs) : m.devs[o].live /\ m.devs[o].ref > 0
      BY <2>1, <2>3, Zenon DEF ListSound
  <2>5. m.devs[1].live /\ m.devs[1].published /\ m.devs[1].id = Emmc
    <3>1. 1 \in 1..Len(m.bdevs) /\ m.bdevs[1] = 1
        BY <2>1, <2>2 DEF ListSound
    <3>. QED BY <3>1, <2>1, Zenon DEF ListSound
  <2>6. "device" \notin m.fault
      BY <2>1, Zenon DEF ListSound
  <2>7. CASE Trying
    <3>1. Held(m, bdev, DevId, mounted) /\ m.devs[bdev].live
        BY <2>1, <2>7, Zenon DEF MediaInv, ListSound, Held
    <3>2. \A o \in Range(m.storage) : o = 1 \/ (o = bdev /\ m.devs[bdev].published)
      <4>1. m.storage = <<1>> \/ (m.storage = <<bdev, 1>> /\ m.devs[bdev].published)
          BY <3>1, Zenon DEF Held
      <4>. QED BY <4>1 DEF Range
    <3>3. \A x \in Range(m.mounts) : x.dev = bdev
      <4>1. \/ m.mounts = <<>>
            \/ m.mounts = << [kind |-> DevId[1], dev |-> bdev, ref |-> 1] >>
          BY <3>1, Zenon DEF Held
      <4>. QED BY <4>1 DEF Range
    <3>4. pc \notin {"next", "gave up"}
        BY <2>7 DEF Trying
    <3>. QED BY <2>4, <2>5, <2>6, <3>1, <3>2, <3>3, <3>4, Zenon DEF ReferencesAgree
  <2>8. CASE ~Trying
    <3>1. m.mounts = <<>> /\ m.storage = <<1>> /\ bdev = NoDev
        BY <2>8, Zenon DEF MediaInv, Released
    <3>2. \A o \in Range(m.storage) : o = 1
        BY <3>1 DEF Range
    <3>3. Range(m.mounts) = {}
        BY <3>1 DEF Range
    <3>4. \A o \in Range(m.bdevs) : m.devs[o].id # Emmc => m.devs[o].ref = 1
      <4>1. \A j \in 1..Len(m.bdevs) : m.bdevs[j] # NoDev
        <5>1. \A j \in 1..Len(m.bdevs) : m.bdevs[j] \in 1..Len(m.devs)
            BY <2>1, Zenon DEF ListSound
        <5>. QED BY <5>1 DEF NoDev
      <4>. QED BY <4>1, <2>1, <2>3, <2>5, <3>1, Zenon DEF OthersAtRest
    <3>. QED BY <2>4, <2>5, <2>6, <3>1, <3>2, <3>3, <3>4, Zenon DEF ReferencesAgree
  <2>. QED BY <2>7, <2>8
<1>. QED BY <1>1, MediaInductive, PTL

\* A call that boots uses the kernel of its last attempt, and its device tree unless an
\* earlier call has left a handle; and in the first call the arguments and the ramdisk of
\* extlinux.conf only with the kernel of the same file system:
\* extlinux_boot_load_kernel_and_dtb over its static variables and the handle table.
THEOREM OneSourceBoots == Spec => []LoadedTogether
<1>1. MediaInv /\ HandleInv => LoadedTogether
    BY DEF MediaInv, LoadInv, HandleInv, LoadedTogether
<1>. QED BY <1>1, MediaInductive, PTL

\* An attempt finds the NVMe driver free, unless a PCIe reset has failed: the forced close
\* of removable_boot.c, with tegrabl_blockdev_open finding what was just registered.
THEOREM DriverIsFree == Spec => []ControllersReleased
<1>1. MediaInv => ControllersReleased
  <2>1. MediaInv => DriverInv
      BY Zenon DEF MediaInv
  <2>2. pc = "next" => ~Trying
      BY DEF Trying
  <2>. QED BY <2>1, <2>2, Zenon DEF DriverInv, ControllersReleased
<1>. QED BY <1>1, MediaInductive, PTL

=============================================================================
