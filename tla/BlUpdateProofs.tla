-------------------------- MODULE BlUpdateProofs --------------------------
(***************************************************************************)
(* For any payloads and partitions, and any number of updates, failures    *)
(* and resets: an image is written after the one it depends on, the other  *)
(* slot is kept, and a successful update is complete.                      *)
(***************************************************************************)
EXTENDS BlUpdate, SequenceTheorems, TLAPS

-----------------------------------------------------------------------------
(* Plans: sequences of operations on the device.                           *)

\* What the concatenation of two plans does.
LEMMA ConcatPlan ==
  ASSUME NEW s \in Seq(Operations), NEW t \in Seq(Operations)
  PROVE  /\ s \o t \in Seq(Operations)
         /\ \A i \in DOMAIN (s \o t) : \/ \E j \in DOMAIN s : (s \o t)[i] = s[j]
                                       \/ \E j \in DOMAIN t : (s \o t)[i] = t[j]
         /\ \A x : Writes(t, x) \/ Writes(s, x) => Writes(s \o t, x)
         /\ \A x : Settles(t, x) /\ (Settles(s, x) \/ Writes(t, x)) => Settles(s \o t, x)
<1> DEFINE c == s \o t
<1>1. /\ Len(s) \in Nat /\ Len(t) \in Nat
      /\ DOMAIN s = 1 .. Len(s) /\ DOMAIN t = 1 .. Len(t)
      /\ c \in Seq(Operations) /\ DOMAIN c = 1 .. Len(s) + Len(t)
      /\ \A i \in 1 .. Len(s) : c[i] = s[i]
      /\ \A i \in 1 .. Len(t) : c[Len(s) + i] = t[i]
      /\ \A i \in 1 .. Len(s) + Len(t) : i > Len(s) => c[i] = t[i - Len(s)]
  BY ConcatProperties, LenProperties
<1> HIDE DEF c
<1>2. ASSUME NEW i \in DOMAIN c
      PROVE  \/ \E j \in DOMAIN s : c[i] = s[j]
             \/ \E j \in DOMAIN t : c[i] = t[j]
  <2>1. CASE i <= Len(s)
    BY <1>1, <2>1
  <2>2. CASE i > Len(s)
    <3>1. i - Len(s) \in DOMAIN t /\ c[i] = t[i - Len(s)]
      BY <1>1, <2>2
    <3>. QED  BY <3>1
  <2>. QED  BY <1>1, <2>1, <2>2
<1>3. ASSUME NEW x, Writes(t, x) \/ Writes(s, x)
      PROVE  Writes(c, x)
  <2>1. CASE Writes(s, x)
    BY <1>1, <2>1 DEF Writes
  <2>2. CASE Writes(t, x)
    <3>1. PICK j \in 1 .. Len(t) : t[j].op = "write" /\ t[j].at = x
      BY <1>1, <2>2 DEF Writes
    <3>2. Len(s) + j \in DOMAIN c /\ c[Len(s) + j] = t[j]
      BY <1>1
    <3>. QED  BY <3>1, <3>2 DEF Writes
  <2>. QED  BY <1>3, <2>1, <2>2
<1>4. ASSUME NEW x, Settles(t, x), Settles(s, x) \/ Writes(t, x)
      PROVE  Settles(c, x)
  <2> SUFFICES ASSUME NEW i \in 1 .. Len(s) + Len(t), c[i].op = "erase", c[i].at = x
               PROVE  \E j \in DOMAIN c : i < j /\ c[j].op = "write" /\ c[j].at = x
    BY <1>1 DEF Settles
  <2>1. ASSUME NEW k \in 1 .. Len(t), t[k].op = "write", t[k].at = x, i < Len(s) + k
        PROVE  \E j \in DOMAIN c : i < j /\ c[j].op = "write" /\ c[j].at = x
    <3>1. Len(s) + k \in DOMAIN c /\ c[Len(s) + k] = t[k]
      BY <1>1
    <3>. QED  BY <2>1, <3>1
  <2>2. CASE i > Len(s)
    <3>1. i - Len(s) \in 1 .. Len(t) /\ c[i] = t[i - Len(s)]
      BY <1>1, <2>2
    <3>2. PICK k \in 1 .. Len(t) : i - Len(s) < k /\ t[k].op = "write" /\ t[k].at = x
      BY <1>1, <1>4, <3>1 DEF Settles
    <3>. QED  BY <1>1, <2>1, <3>2
  <2>3. CASE i <= Len(s) /\ Writes(t, x)
    <3>1. PICK k \in 1 .. Len(t) : t[k].op = "write" /\ t[k].at = x
      BY <1>1, <2>3 DEF Writes
    <3>. QED  BY <1>1, <2>1, <2>3, <3>1
  <2>4. CASE i <= Len(s) /\ Settles(s, x)
    BY <1>1, <2>4 DEF Settles
  <2>. QED  BY <1>1, <1>4, <2>2, <2>3, <2>4
<1>. QED  BY <1>1, <1>2, <1>3, <1>4 DEF c

\* What is left of a plan when its first operation is done.
LEMMA TailPlan ==
  ASSUME NEW s \in Seq(Operations), s # <<>>
  PROVE  /\ Head(s) \in Operations /\ Tail(s) \in Seq(Operations)
         /\ 1 \in DOMAIN s /\ Head(s) = s[1]
         /\ \A i \in DOMAIN Tail(s) : \E j \in DOMAIN s : Tail(s)[i] = s[j]
         /\ \A x : Settles(s, x) => Settles(Tail(s), x)
         /\ \A x : Writes(s, x) => Writes(Tail(s), x) \/ (Head(s).op = "write" /\ Head(s).at = x)
         /\ \A x : Settles(s, x) /\ Head(s).op = "erase" /\ Head(s).at = x => Writes(Tail(s), x)
<1> DEFINE t == Tail(s)
<1>1. /\ Len(s) \in Nat \ {0} /\ DOMAIN s = 1 .. Len(s) /\ Head(s) = s[1] /\ s[1] \in Operations
      /\ t \in Seq(Operations) /\ DOMAIN t = 1 .. Len(s) - 1
      /\ \A i \in 1 .. Len(s) - 1 : t[i] = s[i + 1]
      /\ \A i \in 2 .. Len(s) : i - 1 \in 1 .. Len(s) - 1 /\ t[i - 1] = s[i]
  BY HeadTailProperties, LenProperties, EmptySeq
<1> HIDE DEF t
<1>2. \A i \in DOMAIN t : \E j \in DOMAIN s : t[i] = s[j]
  BY <1>1, SMTT(60)
<1>3. ASSUME NEW x, Settles(s, x) PROVE Settles(t, x)
  <2> SUFFICES ASSUME NEW i \in 1 .. Len(s) - 1, t[i].op = "erase", t[i].at = x
               PROVE  \E j \in DOMAIN t : i < j /\ t[j].op = "write" /\ t[j].at = x
    BY <1>1 DEF Settles
  <2>1. PICK k \in 1 .. Len(s) : i + 1 < k /\ s[k].op = "write" /\ s[k].at = x
    BY <1>1, <1>3 DEF Settles
  <2>2. k - 1 \in DOMAIN t /\ t[k - 1] = s[k] /\ i < k - 1
    BY <1>1, <2>1
  <2>. QED  BY <2>1, <2>2
<1>4. ASSUME NEW x, NEW k \in 2 .. Len(s), s[k].op = "write", s[k].at = x PROVE Writes(t, x)
  BY <1>1, <1>4 DEF Writes
<1>5. ASSUME NEW x, Writes(s, x), ~(s[1].op = "write" /\ s[1].at = x) PROVE Writes(t, x)
  <2>1. PICK k \in 1 .. Len(s) : s[k].op = "write" /\ s[k].at = x
    BY <1>1, <1>5 DEF Writes
  <2>. QED  BY <1>1, <1>4, <1>5, <2>1
<1>6. ASSUME NEW x, Settles(s, x), s[1].op = "erase", s[1].at = x PROVE Writes(t, x)
  <2>1. PICK k \in 1 .. Len(s) : 1 < k /\ s[k].op = "write" /\ s[k].at = x
    BY <1>1, <1>6 DEF Settles
  <2>. QED  BY <1>1, <1>4, <2>1, SMTT(60)
<1>. QED  BY <1>1, <1>2, <1>3, <1>5, <1>6 DEF t

\* A plan of one operation.
LEMMA OnePlan ==
  ASSUME NEW o \in Operations
  PROVE  /\ <<o>> \in Seq(Operations)
         /\ \A i \in DOMAIN <<o>> : <<o>>[i] = o
         /\ \A x : o.op = "write" /\ o.at = x => Writes(<<o>>, x)
         /\ \A x : o.op = "write" \/ o.at # x => Settles(<<o>>, x)
<1>1. <<o>> \in Seq(Operations) /\ DOMAIN <<o>> = {1} /\ <<o>>[1] = o
  OBVIOUS
<1>. QED  BY <1>1 DEF Writes, Settles

\* A plan without operations.
LEMMA NoPlan ==
  /\ <<>> \in Seq(Operations)
  /\ \A i \in DOMAIN <<>> : FALSE
  /\ \A x : ~Writes(<<>>, x) /\ Settles(<<>>, x)
<1>1. <<>> \in Seq(Operations) /\ DOMAIN <<>> = {}
  OBVIOUS
<1>. QED  BY <1>1 DEF Writes, Settles

\* write_partition writes its place, after any erase, and touches no other.
LEMMA WritePlan ==
  ASSUME NEW x \in Places
  PROVE  LET s == write_partition(x)
         IN  /\ s \in Seq(Operations)
             /\ \A i \in DOMAIN s : s[i].at = x
             /\ Writes(s, x) /\ \A y : Settles(s, y)
<1> DEFINE e == [op |-> "erase", at |-> x]
           w == [op |-> "write", at |-> x]
<1>1. e \in Operations /\ w \in Operations
  BY DEF Operations
<1>2. /\ <<w>> \in Seq(Operations) /\ Writes(<<w>>, x) /\ \A y : Settles(<<w>>, y)
      /\ \A i \in DOMAIN <<w>> : <<w>>[i].at = x
  BY <1>1, OnePlan
<1>3. /\ <<e>> \in Seq(Operations) /\ \A y : y # x => Settles(<<e>>, y)
      /\ \A i \in DOMAIN <<e>> : <<e>>[i].at = x
  BY <1>1, OnePlan
<1>4. CASE qspi
  <2>1. write_partition(x) = <<e>> \o <<w>>
    BY <1>4 DEF write_partition
  <2> HIDE DEF e, w
  <2>. QED  BY <1>2, <1>3, <2>1, ConcatPlan
<1>5. CASE ~qspi
  <2>1. write_partition(x) = <<>> \o <<w>>
    BY <1>5 DEF write_partition
  <2> HIDE DEF e, w
  <2>. QED  BY <1>2, <2>1, NoPlan, ConcatPlan
<1>. QED  BY <1>4, <1>5

\* The plan of update_partition stays within the partition, and in the slot when
\* only that is updated; it writes the targets, after any erase.
LEMMA UpdatePlan ==
  ASSUME TypeOK, payload \in Payloads, NEW p
  PROVE  /\ update_partition(p) \in Seq(Operations)
         /\ \A i \in DOMAIN update_partition(p) :
               /\ update_partition(p)[i].at[1] = p
               /\ ~required /\ ~(qspi /\ slot = 1) /\ p \in Slotted \ AlwaysAb
                     => update_partition(p)[i].at[2] = slot
         /\ Fits(p) => \A x \in Targets(p) :
               Writes(update_partition(p), x) /\ Settles(update_partition(p), x)
<1>1. CASE ~Fits(p)
  <2>1. update_partition(p) = <<>>
    BY <1>1 DEF Fits, update_partition
  <2>. QED  BY <1>1, <2>1, NoPlan
<1>2. CASE Fits(p)
  <2>p. p \in Slotted \cup Single
    <3>1. PICK j \in DOMAIN payload.entries : payload.entries[j].part = p
      BY <1>2 DEF Fits
    <3>2. payload.entries \in Seq([part : Slotted \cup Single, fits : BOOLEAN])
      BY PayloadsAssumption
    <3>3. payload.entries[j] \in [part : Slotted \cup Single, fits : BOOLEAN]
      BY <3>1, <3>2, LenProperties, ElementOfSeq
    <3>. QED  BY <3>1, <3>3
  <2>s. slot \in {0, 1} /\ 1 - slot \in {0, 1} /\ 1 - slot # slot
    BY DEF TypeOK, Slots
  <2> DEFINE e == [op |-> "erase", at |-> <<p, 0>>]
             bare == IF qspi THEN <<e>> ELSE <<>>
             own == write_partition(PlaceOf(p))
             twin == write_partition(<<p, 1 - slot>>)
             both == p \in Slotted /\ (required \/ p \in AlwaysAb)
             written == write_a_b_partition(p)
  <2>1. update_partition(p) = bare \o written
    BY <1>2 DEF Fits, update_partition
  <2>2. e \in Operations /\ PlaceOf(p) \in Places /\ (both => <<p, 1 - slot>> \in Places)
    BY <2>p, <2>s DEF Operations, Places, PlaceOf, Slots
  <2>3. /\ bare \in Seq(Operations)
        /\ \A i \in DOMAIN bare : qspi /\ bare[i].at = <<p, 0>>
        /\ \A x : x # <<p, 0>> => Settles(bare, x)
    BY <2>2, OnePlan, NoPlan
  <2>4. /\ own \in Seq(Operations) /\ \A i \in DOMAIN own : own[i].at = PlaceOf(p)
        /\ Writes(own, PlaceOf(p)) /\ \A y : Settles(own, y)
    BY <2>2, WritePlan
  <2>5. both => /\ twin \in Seq(Operations) /\ \A i \in DOMAIN twin : twin[i].at = <<p, 1 - slot>>
                /\ Writes(twin, <<p, 1 - slot>>) /\ \A y : Settles(twin, y)
    BY <2>2, WritePlan
  <2>t. Targets(p) = {PlaceOf(p)} \cup (IF both THEN {<<p, 1 - slot>>} ELSE {})
    BY DEF Targets
  <2>w. /\ written \in Seq(Operations)
        /\ \A i \in DOMAIN written : written[i].at \in Targets(p)
        /\ \A x \in Targets(p) : Writes(written, x)
        /\ \A x : Settles(written, x)
    <3>1. CASE both
      <4>1. written = own \o twin
        BY <3>1, PartitionsAssumption DEF write_a_b_partition, PlaceOf
      <4> HIDE DEF own, twin, written, both
      <4>2. Targets(p) = {PlaceOf(p), <<p, 1 - slot>>}
        BY <2>t, <3>1
      <4>3. written \in Seq(Operations) /\ \A x : Settles(written, x)
        BY <2>4, <2>5, <3>1, <4>1, ConcatPlan
      <4>4. Writes(written, PlaceOf(p)) /\ Writes(written, <<p, 1 - slot>>)
        BY <2>4, <2>5, <3>1, <4>1, ConcatPlan
      <4>5. \A i \in DOMAIN written : written[i].at \in Targets(p)
        <5>1. own \in Seq(Operations) /\ twin \in Seq(Operations)
          BY <2>4, <2>5, <3>1
        <5>2. \A i \in DOMAIN written : (\E j \in DOMAIN own : written[i] = own[j])
                                       \/ (\E j \in DOMAIN twin : written[i] = twin[j])
          BY <4>1, <5>1, ConcatPlan
        <5>. QED  BY <2>4, <2>5, <3>1, <4>2, <5>2
      <4>. QED  BY <4>2, <4>3, <4>4, <4>5
    <3>2. CASE ~both
      <4>1. written = own
        <5>1. written = own \/ written = own \o <<>>
          BY <2>p, <3>2, PartitionsAssumption DEF write_a_b_partition, PlaceOf
        <5> HIDE DEF own, written
        <5>. QED  BY <5>1, <2>4, ConcatEmptySeq
      <4> HIDE DEF own, written, both
      <4>. QED  BY <2>4, <2>t, <3>2, <4>1
    <3>. QED  BY <3>1, <3>2
  <2>6. /\ update_partition(p) \in Seq(Operations)
        /\ \A i \in DOMAIN update_partition(p) :
              \/ update_partition(p)[i].at \in Targets(p)
              \/ qspi /\ update_partition(p)[i].at = <<p, 0>>
        /\ \A x \in Targets(p) : Writes(update_partition(p), x) /\ Settles(update_partition(p), x)
    <3> HIDE DEF written, bare
    <3>. QED  BY <2>1, <2>3, <2>w, ConcatPlan
  <2>7. \A x \in Targets(p) : /\ x[1] = p
                              /\ p \in Slotted \ AlwaysAb /\ ~required => x[2] = slot
    BY <2>t DEF PlaceOf
  <2>8. <<p, 0>>[1] = p /\ <<p, 0>>[2] = 0
    OBVIOUS
  <2>9. ASSUME NEW i \in DOMAIN update_partition(p)
        PROVE  /\ update_partition(p)[i].at[1] = p
               /\ ~required /\ ~(qspi /\ slot = 1) /\ p \in Slotted \ AlwaysAb
                     => update_partition(p)[i].at[2] = slot
    <3> DEFINE a == update_partition(p)[i].at
    <3>1. CASE a \in Targets(p)
      BY <2>7, <3>1
    <3>2. CASE qspi /\ a = <<p, 0>>
      BY <2>s, <2>8, <3>2
    <3>. QED  BY <2>6, <3>1, <3>2
  <2>. QED  BY <2>6, <2>9
<1>. QED  BY <1>1, <1>2

-----------------------------------------------------------------------------
(* The inductive invariant.                                                *)

\* The invariant holds at boot.
LEMMA UpdateInit == Init => UpdateInv
<1> SUFFICES ASSUME Init PROVE UpdateInv
  OBVIOUS
<1>1. TypeOK
  <2>1. <<>> \in Seq(Parts) /\ <<>> \in Seq(Operations)
    OBVIOUS
  <2>2. storage \in [Places -> Int] /\ entry \in Nat /\ slot \in Slots
    BY DEF Init, Slots
  <2>. QED  BY <2>1, <2>2 DEF Init, TypeOK
<1>2. LoopInv /\ ListInv /\ PlanInv /\ CheckedInv /\ RatchetFresh /\ SuccessIsComplete
  BY DEF Init, LoopInv, ListInv, PlanInv, CheckedInv, RatchetFresh, SuccessIsComplete
<1>. QED  BY <1>1, <1>2 DEF UpdateInv

\* The entries of a payload name partitions.
LEMMA EntryParts ==
  ASSUME NEW b \in Payloads
  PROVE  /\ b.ratchet \in BOOLEAN /\ b.version \in Nat /\ Len(b.entries) \in Nat
         /\ DOMAIN b.entries = 1 .. Len(b.entries)
         /\ b.entries # <<>> <=> 1 \in 1 .. Len(b.entries)
         /\ \A j \in 1 .. Len(b.entries) : b.entries[j].part \in Parts
<1>1. /\ b.ratchet \in BOOLEAN /\ b.version \in Nat
      /\ b.entries \in Seq([part : Slotted \cup Single, fits : BOOLEAN])
  BY PayloadsAssumption
<1>2. \A j \in 1 .. Len(b.entries) : b.entries[j] \in [part : Slotted \cup Single, fits : BOOLEAN]
  BY <1>1, ElementOfSeq
<1>3. Len(b.entries) \in Nat /\ DOMAIN b.entries = 1 .. Len(b.entries)
      /\ (b.entries # <<>> <=> Len(b.entries) # 0)
  BY <1>1, LenProperties, EmptySeq
<1>. QED  BY <1>1, <1>2, <1>3 DEF Parts

\* The innermost call of update_partition_recursive.
LEMMA StackLemma ==
  ASSUME NEW s \in Seq(Parts), s # <<>>
  PROVE  /\ Last(s) \in Parts /\ Front(s) \in Seq(Parts)
         /\ Front(s) = <<>> => Last(s) = s[1]
         /\ Front(s) # <<>> => Front(s)[1] = s[1]
         /\ \A x \in Parts : Append(s, x) \in Seq(Parts) /\ Append(s, x) # <<>> /\ Append(s, x)[1] = s[1]
<1>1. Len(s) \in Nat \ {0} /\ \A i \in 1 .. Len(s) : s[i] \in Parts
  BY LenProperties, EmptySeq, ElementOfSeq
<1>2. /\ Front(s) \in Seq(Parts) /\ Len(Front(s)) = Len(s) - 1
      /\ \A i \in 1 .. Len(s) - 1 : Front(s)[i] = s[i]
  <2>1. \A i \in 1 .. Len(s) - 1 : s[i] \in Parts
    BY <1>1
  <2>2. /\ Front(s) \in Seq(Parts)
        /\ Len(Front(s)) = IF 1 <= Len(s) - 1 THEN ((Len(s) - 1) - 1) + 1 ELSE 0
        /\ \A i \in 1 .. ((Len(s) - 1) - 1) + 1 : Front(s)[i] = s[(1 + i) - 1]
    BY <1>1, <2>1, SubSeqProperties DEF Front
  <2>3. Len(Front(s)) = Len(s) - 1
    <3>1. Len(Front(s)) = IF 1 <= Len(s) - 1 THEN ((Len(s) - 1) - 1) + 1 ELSE 0
      BY <2>2
    <3>2. \A n \in Nat \ {0} : (IF 1 <= n - 1 THEN ((n - 1) - 1) + 1 ELSE 0) = n - 1
      OBVIOUS
    <3>. QED  BY <1>1, <3>1, <3>2
  <2>4. ASSUME NEW i \in 1 .. Len(s) - 1 PROVE Front(s)[i] = s[i]
    <3>1. i \in 1 .. ((Len(s) - 1) - 1) + 1 /\ (1 + i) - 1 = i
      BY <1>1
    <3>. QED  BY <2>2, <3>1
  <2>. QED  BY <2>2, <2>3, <2>4
<1>3. Front(s) = <<>> <=> Len(s) = 1
  BY <1>1, <1>2, EmptySeq
<1>4. \A x \in Parts : Append(s, x) \in Seq(Parts) /\ Append(s, x) # <<>> /\ Append(s, x)[1] = s[1]
  BY <1>1, AppendProperties
<1>. QED  BY <1>1, <1>2, <1>3, <1>4 DEF Last

\* The dependency of a partition is a partition.
LEMMA DependencyParts == \A p : get_dependency(p) # "none" => get_dependency(p) \in Parts
  BY DEF get_dependency, Parts

\* Every step keeps the types.
LEMMA UpdateTypes == ASSUME TypeOK, LoopInv, PlanInv, [Next]_vars PROVE TypeOK'
<1> USE DEF TypeOK
<1>1. ASSUME NEW p \in Payloads, NEW s \in Slots, Check(p, s) PROVE TypeOK'
  <2>1. p.entries # <<>> => <<p.entries[1].part>> \in Seq(Parts)
    <3>1. p.entries # <<>> => p.entries[1].part \in Parts
      BY EntryParts
    <3>. QED  BY <3>1
  <2>2. <<>> \in Seq(Parts) /\ <<>> \in Seq(Operations)
    OBVIOUS
  <2>3. p.ratchet \in BOOLEAN
    BY EntryParts
  <2>. QED  BY <1>1, <2>1, <2>2, <2>3 DEF Check, Return, is_update_all_slots_required, static
<1>2. CASE Walk
  <2>1. /\ Front(stack) \in Seq(Parts)
        /\ \A x \in Parts : Append(stack, x) \in Seq(Parts)
    BY <1>2, StackLemma DEF Walk
  <2>2. update_partition(Last(stack)) \in Seq(Operations) /\ <<>> \in Seq(Operations)
    BY <1>2, UpdatePlan, NoPlan DEF Walk, LoopInv
  <2>. QED  BY <1>2, <2>1, <2>2, DependencyParts DEF Walk, static
<1>3. CASE Operate
  <2>1. Head(plan) \in Operations /\ Tail(plan) \in Seq(Operations)
    BY <1>3, TailPlan DEF Operate
  <2>2. payload.version \in Int
    BY <1>3, EntryParts DEF Operate, LoopInv
  <2>3. <<>> \in Seq(Parts) /\ <<>> \in Seq(Operations)
    OBVIOUS
  <2>4. storage' \in [Places -> Int]
    BY <1>3, <2>1, <2>2 DEF Operate, Operations, Blank, Torn
  <2>. QED  BY <1>3, <2>1, <2>3, <2>4 DEF Operate, Return, static
<1>4. CASE Updated
  <2>1. Last(stack) \in Parts /\ Front(stack) \in Seq(Parts)
    BY <1>4, StackLemma DEF Updated, PlanInv
  <2>2. <<>> \in Seq(Parts) /\ <<>> \in Seq(Operations)
    OBVIOUS
  <2>. QED  BY <1>4, <2>1, <2>2 DEF Updated, Return, static
<1>5. CASE NextEntry
  <2>1. entry < Len(payload.entries) => payload.entries[entry + 1].part \in Parts
    BY <1>5, EntryParts, SMTT(60) DEF NextEntry, LoopInv
  <2>2. <<>> \in Seq(Parts) /\ <<>> \in Seq(Operations)
    OBVIOUS
  <2>3. entry < Len(payload.entries) => <<payload.entries[entry + 1].part>> \in Seq(Parts)
    BY <2>1
  <2>4. /\ entry' = entry + 1
        /\ UNCHANGED <<qspi, storage, spec, skipped, payload, slot, required>>
    BY <1>5 DEF NextEntry
  <2>5. /\ pc' \in {"idle", "walk"} /\ stack' \in Seq(Parts) /\ plan' \in Seq(Operations)
        /\ list' \subseteq Parts /\ status' \in {"none", "ok", "error"}
        /\ checked' \in BOOLEAN /\ failed' \in BOOLEAN
    BY <1>5, <2>2, <2>3 DEF NextEntry, Return
  <2>. QED  BY <2>4, <2>5
<1>6. CASE Reset
  <2>1. plan # <<>> => Head(plan) \in Operations
    BY TailPlan
  <2>2. storage' \in [Places -> Int]
    BY <1>6, <2>1 DEF Reset, Operations, Torn
  <2>3. <<>> \in Seq(Parts) /\ <<>> \in Seq(Operations)
    OBVIOUS
  <2>. QED  BY <1>6, <2>2, <2>3 DEF Reset
<1>7. CASE UNCHANGED vars
  BY <1>7 DEF vars
<1>. QED  BY <1>1, <1>2, <1>3, <1>4, <1>5, <1>6, <1>7 DEF Next

\* Every step keeps the loop over the entries and the recursion in step.
LEMMA UpdateLoop == ASSUME TypeOK, LoopInv, PlanInv, [Next]_vars PROVE LoopInv'
<1> USE DEF LoopInv
<1>1. ASSUME NEW p \in Payloads, NEW s \in Slots, Check(p, s) PROVE LoopInv'
  <2>1. p.entries # <<>> => 1 \in 1 .. Len(p.entries) /\ 1 .. 1 - 1 = {}
    BY EntryParts
  <2>2. \A x : <<x>> # <<>> /\ <<x>>[1] = x
    OBVIOUS
  <2>3. CASE pc' = "idle"
    <3>1. list' = {}
      BY <1>1, <2>3 DEF Check, Return
    <3>. QED  BY <2>3, <3>1
  <2>4. CASE pc' # "idle"
    <3>1. /\ payload' = p /\ p.kind = "update" /\ p.entries # <<>> /\ status' = "none"
          /\ entry' = 1 /\ stack' = <<p.entries[1].part>>
      BY <1>1, <2>4 DEF Check, Return
    <3>2. 1 \in 1 .. Len(p.entries) /\ 1 .. 1 - 1 = {}
      BY <2>1, <3>1
    <3>3. <<p.entries[1].part>> # <<>> /\ <<p.entries[1].part>>[1] = p.entries[1].part
      BY <2>2
    <3>4. \A j \in 1 .. entry' - 1 : payload'.entries[j].part \in list'
      BY <3>1, <3>2
    <3>5. stack' # <<>> /\ stack'[1] = payload'.entries[entry'].part
      BY <3>1, <3>3
    <3>6. payload' \in Payloads /\ payload'.kind = "update" /\ entry' \in 1 .. Len(payload'.entries)
      BY <3>1, <3>2
    <3>. QED  BY <2>4, <3>1, <3>4, <3>5, <3>6
  <2>. QED  BY <2>3, <2>4
<1>2. CASE Walk
  BY <1>2, StackLemma, DependencyParts DEF Walk, TypeOK, is_partition_updated
<1>3. CASE Operate
  BY <1>3 DEF Operate, Return
<1>4. CASE Updated
  BY <1>4, StackLemma DEF Updated, Return, PlanInv, TypeOK
<1>5. CASE NextEntry
  <2>1. CASE entry < Len(payload.entries)
    <3>1. entry + 1 \in 1 .. Len(payload.entries)
          /\ 1 .. (entry + 1) - 1 = 1 .. entry - 1 \cup {entry}
      BY <1>5, <2>1, EntryParts DEF NextEntry
    <3>2. \A x : <<x>> # <<>> /\ <<x>>[1] = x
      OBVIOUS
    <3>3. /\ UNCHANGED <<pc, payload, list, status>> /\ entry' = entry + 1 /\ pc # "idle"
          /\ stack = <<>> /\ stack' = <<payload.entries[entry + 1].part>>
      BY <1>5, <2>1 DEF NextEntry
    <3>4. \A j \in 1 .. entry' - 1 : payload'.entries[j].part \in list'
      BY <3>1, <3>3
    <3>5. stack' # <<>> /\ stack'[1] = payload'.entries[entry'].part
      BY <3>2, <3>3
    <3>. QED  BY <3>1, <3>3, <3>4, <3>5
  <2>2. CASE ~(entry < Len(payload.entries))
    BY <1>5, <2>2 DEF NextEntry, Return
  <2>. QED  BY <2>1, <2>2
<1>6. CASE Reset
  BY <1>6 DEF Reset
<1>7. CASE UNCHANGED vars
  BY <1>7 DEF vars
<1>. QED  BY <1>1, <1>2, <1>3, <1>4, <1>5, <1>6, <1>7 DEF Next

\* What a partition must be written to is settled when the update begins.
LEMMA SameTargets ==
  ASSUME UNCHANGED <<payload, slot, required>>
  PROVE  \A p : Fits(p)' = Fits(p) /\ Targets(p)' = Targets(p) /\ PlaceOf(p)' = PlaceOf(p)
  BY DEF Fits, Targets, PlaceOf

\* The targets of a partition are places of it, on the storage if it has an entry.
LEMMA TargetPlaces ==
  ASSUME TypeOK, payload \in Payloads, NEW p, Fits(p), NEW x \in Targets(p)
  PROVE  x[1] = p /\ x \in Places
<1>1. p \in Slotted \cup Single
  <2>1. PICK j \in DOMAIN payload.entries : payload.entries[j].part = p
    BY DEF Fits
  <2>2. payload.entries \in Seq([part : Slotted \cup Single, fits : BOOLEAN])
    BY PayloadsAssumption
  <2>3. payload.entries[j] \in [part : Slotted \cup Single, fits : BOOLEAN]
    BY <2>1, <2>2, LenProperties, ElementOfSeq
  <2>. QED  BY <2>1, <2>3
<1>2. slot \in {0, 1} /\ 1 - slot \in {0, 1}
  BY DEF TypeOK, Slots
<1>3. x = PlaceOf(p) \/ (x = <<p, 1 - slot>> /\ p \in Slotted)
  BY DEF Targets
<1>. QED  BY <1>1, <1>2, <1>3 DEF PlaceOf, Places, Slots

\* An operation of the plan changes one place, of the partition being updated.
LEMMA OperatePlace ==
  ASSUME TypeOK, LoopInv, PlanInv, pc = "write", plan # <<>>
  PROVE  /\ Head(plan) \in Operations /\ Head(plan).at \in Places
         /\ Head(plan).at[1] = Last(stack)
         /\ ~required /\ ~(qspi /\ slot = 1) /\ Last(stack) \in Slotted \ AlwaysAb
               => Head(plan).at[2] = slot
         /\ \A v : \A x \in Places : [storage EXCEPT ![Head(plan).at] = v][x]
                                    = IF x = Head(plan).at THEN v ELSE storage[x]
<1>1. Head(plan) \in Operations /\ 1 \in DOMAIN plan /\ Head(plan) = plan[1]
  BY TailPlan DEF TypeOK
<1>2. Head(plan).at \in Places
  BY <1>1 DEF Operations
<1>3. storage \in [Places -> Int]
  BY DEF TypeOK
<1>4. /\ Head(plan).at[1] = Last(stack)
      /\ ~required /\ ~(qspi /\ slot = 1) /\ Last(stack) \in Slotted \ AlwaysAb
            => Head(plan).at[2] = slot
  BY <1>1 DEF PlanInv
<1>5. \A v : \A x \in Places : [storage EXCEPT ![Head(plan).at] = v][x]
                               = IF x = Head(plan).at THEN v ELSE storage[x]
  BY <1>2, <1>3
<1>. QED  BY <1>1, <1>2, <1>4, <1>5

\* Every step keeps the partitions in the list complete.
LEMMA UpdateList ==
  ASSUME TypeOK, LoopInv, ListInv, PlanInv, [Next]_vars
  PROVE  ListInv'
<1> USE DEF ListInv
<1>1. ASSUME NEW p \in Payloads, NEW s \in Slots, Check(p, s) PROVE ListInv'
  <2>1. list' = {}
    BY <1>1 DEF Check, Return, LoopInv
  <2>. QED  BY <2>1
<1>2. CASE Walk
  <2>1. UNCHANGED <<payload, slot, required, list, storage>> /\ skipped \subseteq skipped'
    BY <1>2 DEF Walk, static
  <2>. QED  BY <2>1, SameTargets
<1>3. CASE Operate
  <2>1. CASE list' = {}
    BY <2>1
  <2>2. CASE list' # {}
    <3>1. UNCHANGED <<payload, slot, required, list, skipped>>
          /\ \E v : storage' = [storage EXCEPT ![Head(plan).at] = v]
      BY <1>3, <2>2 DEF Operate, Return, static
    <3>2. pc = "write" /\ plan # <<>> /\ Last(stack) \notin list /\ payload \in Payloads
      BY <1>3 DEF Operate, PlanInv, LoopInv
    <3>3. ASSUME NEW p \in list, Fits(p), "partition" \notin skipped, NEW x \in Targets(p)
          PROVE  storage'[x] = payload.version
      <4>1. x[1] = p /\ x \in Places /\ x # Head(plan).at
        BY <3>2, <3>3, TargetPlaces, OperatePlace
      <4>. QED  BY <3>1, <3>2, <3>3, <4>1, OperatePlace
    <3>. QED  BY <3>1, <3>3, SameTargets
  <2>. QED  BY <2>1, <2>2
<1>4. CASE Updated
  <2>1. CASE list' = {}
    BY <2>1
  <2>2. CASE list' # {}
    <3>1. /\ UNCHANGED <<payload, slot, required, skipped, storage>>
          /\ list' = list \cup {Last(stack)}
      BY <1>4, <2>2 DEF Updated, Return, static
    <3>2. Fits(Last(stack)) /\ "partition" \notin skipped =>
            \A x \in Targets(Last(stack)) : storage[x] = payload.version
      BY <1>4, NoPlan DEF Updated, PlanInv
    <3>. QED  BY <3>1, <3>2, SameTargets
  <2>. QED  BY <2>1, <2>2
<1>5. CASE NextEntry
  <2>1. CASE list' = {}
    BY <2>1
  <2>2. CASE list' # {}
    <3>1. UNCHANGED <<payload, slot, required, skipped, storage, list>>
      BY <1>5, <2>2 DEF NextEntry, Return
    <3>. QED  BY <3>1, SameTargets
  <2>. QED  BY <2>1, <2>2
<1>6. CASE Reset
  BY <1>6 DEF Reset
<1>7. CASE UNCHANGED vars
  BY <1>7, SameTargets DEF vars
<1>. QED  BY <1>1, <1>2, <1>3, <1>4, <1>5, <1>6, <1>7 DEF Next

\* Every step keeps the plan within its partition, and completing it.
LEMMA UpdatePlans ==
  ASSUME TypeOK, LoopInv, PlanInv, [Next]_vars
  PROVE  PlanInv'
<1>1. ASSUME pc' # "write" PROVE PlanInv'
  BY <1>1 DEF PlanInv
<1>2. CASE Walk
  <2> SUFFICES ASSUME pc' = "write" PROVE PlanInv'
    BY <1>1
  <2>1. /\ UNCHANGED <<qspi, storage, payload, slot, required, list, stack>> /\ stack # <<>>
        /\ Last(stack) \notin list /\ payload \in Payloads
        /\ get_dependency(Last(stack)) \in list \cup {"none"}
    BY <1>2 DEF Walk, static, is_partition_updated, LoopInv
  <2>2. plan' = update_partition(Last(stack)) \/ (plan' = <<>> /\ "partition" \in skipped')
    BY <1>2 DEF Walk
  <2>3. CASE plan' = update_partition(Last(stack))
    <3>1. \A i \in DOMAIN plan' :
            /\ plan'[i].at[1] = Last(stack)
            /\ ~required /\ ~(qspi /\ slot = 1) /\ Last(stack) \in Slotted \ AlwaysAb
                  => plan'[i].at[2] = slot
      BY <2>1, <2>3, UpdatePlan
    <3>2. Fits(Last(stack)) => \A x \in Targets(Last(stack)) : Settles(plan', x) /\ Writes(plan', x)
      BY <2>1, <2>3, UpdatePlan
    <3>3. /\ Fits(Last(stack))' = Fits(Last(stack)) /\ Targets(Last(stack))' = Targets(Last(stack))
      BY <2>1 DEF Fits, Targets, PlaceOf
    <3>4. \A x : Settles(plan, x)' = Settles(plan', x) /\ Writes(plan, x)' = Writes(plan', x)
      BY DEF Settles, Writes
    <3>. QED  BY <2>1, <3>1, <3>2, <3>3, <3>4 DEF PlanInv
  <2>4. CASE plan' = <<>> /\ "partition" \in skipped'
    BY <2>1, <2>4, NoPlan DEF PlanInv
  <2>. QED  BY <2>2, <2>3, <2>4
<1>3. CASE Operate
  <2> SUFFICES ASSUME pc' = "write" PROVE PlanInv'
    BY <1>1
  <2> DEFINE p == Last(stack)
             o == Head(plan)
  <2>1. /\ UNCHANGED <<qspi, payload, slot, required, list, stack, skipped>>
        /\ storage' = [storage EXCEPT ![o.at] = IF o.op = "erase" THEN Blank ELSE payload.version]
        /\ plan' = Tail(plan) /\ plan # <<>> /\ pc = "write" /\ payload \in Payloads
    BY <1>3 DEF Operate, Return, static, LoopInv
  <2>2. plan \in Seq(Operations) /\ o \in Operations
    BY <2>1, TailPlan DEF TypeOK
  <2>3. o.op \in {"erase", "write"}
    BY <2>2 DEF Operations
  <2>4. \A i \in DOMAIN plan' :
          /\ plan'[i].at[1] = p
          /\ ~required /\ ~(qspi /\ slot = 1) /\ p \in Slotted \ AlwaysAb => plan'[i].at[2] = slot
    <3>1. \A i \in DOMAIN plan' : \E j \in DOMAIN plan : plan'[i] = plan[j]
      BY <2>1, <2>2, TailPlan
    <3>. QED  BY <2>1, <3>1 DEF PlanInv
  <2>5. ASSUME Fits(p), "partition" \notin skipped, NEW x \in Targets(p)
        PROVE  Settles(Tail(plan), x) /\ (Writes(Tail(plan), x) \/ storage'[x] = payload.version)
    <3>1. Settles(plan, x) /\ (Writes(plan, x) \/ storage[x] = payload.version)
      BY <2>1, <2>5 DEF PlanInv
    <3>2. x \in Places
      BY <2>1, <2>5, TargetPlaces
    <3>3. storage'[x] = IF x = o.at THEN (IF o.op = "erase" THEN Blank ELSE payload.version)
                                    ELSE storage[x]
      <4>1. storage \in [Places -> Int]
        BY DEF TypeOK
      <4>. QED  BY <2>1, <3>2, <4>1
    <3>4. Settles(Tail(plan), x)
      BY <2>1, <2>2, <3>1, TailPlan
    <3>5. CASE x = o.at /\ o.op = "erase"
      BY <2>1, <2>2, <3>1, <3>4, <3>5, TailPlan
    <3>6. CASE x = o.at /\ o.op = "write"
      BY <3>3, <3>4, <3>6
    <3>7. CASE x # o.at
      BY <2>1, <2>2, <3>1, <3>3, <3>4, <3>7, TailPlan
    <3>. QED  BY <2>3, <3>5, <3>6, <3>7
  <2>6. /\ Fits(p)' = Fits(p) /\ Targets(p)' = Targets(p) /\ p' = p
        /\ get_dependency(p)' = get_dependency(p)
    BY <2>1 DEF Fits, Targets, PlaceOf, get_dependency
  <2>7. \A x : Settles(plan, x)' = Settles(Tail(plan), x) /\ Writes(plan, x)' = Writes(Tail(plan), x)
    BY <2>1 DEF Settles, Writes
  <2>. QED  BY <2>1, <2>4, <2>5, <2>6, <2>7 DEF PlanInv
<1>4. CASE UNCHANGED vars
  BY <1>4, SameTargets DEF vars, PlanInv, Settles, Writes
<1>5. CASE Updated \/ NextEntry \/ Reset \/ \E p \in Payloads, s \in Slots : Check(p, s)
  <2>1. pc' # "write"
    BY <1>5 DEF Updated, NextEntry, Reset, Check, Return
  <2>. QED  BY <1>1, <2>1
<1>. QED  BY <1>2, <1>3, <1>4, <1>5 DEF Next

\* Every step keeps the ratchet decision fresh, unless an update has failed.
LEMMA UpdateRatchet ==
  ASSUME TypeOK, LoopInv, CheckedInv, RatchetFresh, [Next]_vars
  PROVE  CheckedInv' /\ RatchetFresh'
<1> USE DEF CheckedInv, RatchetFresh
<1>1. ASSUME NEW p \in Payloads, NEW s \in Slots, Check(p, s) PROVE CheckedInv' /\ RatchetFresh'
  <2>1. CASE p.kind = "update"
    <3>1. PICK known \in BOOLEAN :
            /\ skipped' = IF known THEN {} ELSE {"ratchet"}
            /\ checked' = TRUE
            /\ required' = IF checked THEN required ELSE p.ratchet /\ known
      BY <1>1, <2>1 DEF Check, is_update_all_slots_required
    <3>2. /\ pc = "idle" /\ payload' = p
          /\ \/ pc' = "idle" /\ failed' = (failed \/ TRUE)
             \/ pc' = "walk" /\ failed' = failed
      BY <1>1, <2>1 DEF Check, Return
    <3>3. p.ratchet \in BOOLEAN
      BY EntryParts
    <3>. QED  BY <3>1, <3>2, <3>3
  <2>2. CASE p.kind # "update"
    <3>1. pc = "idle" /\ pc' = "idle" /\ checked' = checked /\ (failed => failed')
      BY <1>1, <2>2 DEF Check, Return, static, TypeOK
    <3>. QED  BY <3>1
  <2>. QED  BY <2>1, <2>2
<1>2. CASE Walk
  BY <1>2 DEF Walk, static
<1>3. CASE Operate
  <2>1. /\ UNCHANGED <<skipped, payload, required, checked>> /\ pc = "write"
        /\ \/ UNCHANGED <<pc, failed>>
           \/ pc' = "idle" /\ failed' = TRUE
    BY <1>3 DEF Operate, Return, static
  <2>. QED  BY <2>1
<1>4. CASE Updated
  BY <1>4 DEF Updated, Return, static
<1>5. CASE NextEntry
  BY <1>5 DEF NextEntry, Return
<1>6. CASE Reset
  BY <1>6 DEF Reset
<1>7. CASE UNCHANGED vars
  BY <1>7 DEF vars
<1>. QED  BY <1>1, <1>2, <1>3, <1>4, <1>5, <1>6, <1>7 DEF Next

\* An update that returns success has been through every entry.
LEMMA UpdateSuccess ==
  ASSUME TypeOK, LoopInv, ListInv, SuccessIsComplete, [Next]_vars
  PROVE  SuccessIsComplete'
<1>1. ASSUME status' # "ok" PROVE SuccessIsComplete'
  BY <1>1 DEF SuccessIsComplete
<1>2. ASSUME NEW p \in Payloads, NEW s \in Slots, Check(p, s) PROVE SuccessIsComplete'
  <2>1. status' = "ok" => payload'.kind # "update"
    BY <1>2 DEF Check, Return
  <2>. QED  BY <2>1 DEF SuccessIsComplete
<1>3. CASE NextEntry
  <2> SUFFICES ASSUME status' = "ok", "partition" \notin skipped,
                      NEW p \in Slotted \cup Single, Fits(p)
               PROVE  /\ storage[PlaceOf(p)] = payload.version
                      /\ p \in Slotted /\ (required \/ p \in AlwaysAb)
                            => storage[<<p, 1 - slot>>] = payload.version
    <3>1. UNCHANGED <<storage, skipped, payload, slot, required>>
      BY <1>3 DEF NextEntry
    <3>2. \A p : Fits(p)' = Fits(p) /\ PlaceOf(p)' = PlaceOf(p)
      BY <3>1, SameTargets
    <3>. QED  BY <3>1, <3>2 DEF SuccessIsComplete
  <2>1. /\ payload \in Payloads /\ stack = <<>> /\ entry \in 1 .. Len(payload.entries)
        /\ payload.entries[entry].part \in list
        /\ \A j \in 1 .. entry - 1 : payload.entries[j].part \in list
        /\ ~(entry < Len(payload.entries))
    BY <1>3 DEF NextEntry, LoopInv
  <2>2. DOMAIN payload.entries = 1 .. Len(payload.entries) /\ Len(payload.entries) \in Nat
    BY <2>1, EntryParts
  <2>3. entry = Len(payload.entries)
    BY <2>1, <2>2
  <2>4. p \in list
    <3>1. PICK j \in 1 .. Len(payload.entries) : payload.entries[j].part = p
      BY <2>2 DEF Fits
    <3>2. CASE j = entry
      BY <2>1, <3>1, <3>2
    <3>3. CASE j # entry
      BY <2>1, <2>2, <2>3, <3>1, <3>3
    <3>. QED  BY <3>2, <3>3
  <2>5. \A x \in Targets(p) : storage[x] = payload.version
    BY <2>4 DEF ListInv
  <2>. QED  BY <2>5 DEF Targets
<1>4. CASE UNCHANGED vars
  <2>1. \A p : Fits(p)' = Fits(p) /\ PlaceOf(p)' = PlaceOf(p)
    BY <1>4, SameTargets DEF vars
  <2>. QED  BY <1>4, <2>1 DEF vars, SuccessIsComplete
<1>5. CASE Walk \/ Operate \/ Updated \/ Reset
  <2>1. status' # "ok"
    BY <1>5 DEF Walk, Operate, Updated, Reset, Return, LoopInv
  <2>. QED  BY <1>1, <2>1
<1>. QED  BY <1>2, <1>3, <1>4, <1>5 DEF Next

-----------------------------------------------------------------------------
(* The theorems.                                                           *)

\* The inductive invariant of the bootloader update.
THEOREM UpdateInductive == Spec => []UpdateInv
<1>1. UpdateInv /\ [Next]_vars => UpdateInv'
  BY UpdateTypes, UpdateLoop, UpdateList, UpdatePlans, UpdateRatchet, UpdateSuccess DEF UpdateInv
<1>. QED  BY <1>1, UpdateInit, PTL DEF Spec

\* tegrabl_check_and_update_bl_payload returns success only when every partition
\* with a fitting entry is complete on storage, in both slots where it must be.
THEOREM CompleteUpdates == Spec => []SuccessIsComplete
<1>1. UpdateInv => SuccessIsComplete
  BY DEF UpdateInv
<1>. QED  BY <1>1, UpdateInductive, PTL

\* is_new_bup_checked never carries a ratchet decision over to another payload,
\* as long as no update of this boot has failed.
THEOREM FreshRatchet == Spec => []RatchetFresh
<1>1. UpdateInv => RatchetFresh
  BY DEF UpdateInv
<1>. QED  BY <1>1, UpdateInductive, PTL

\* A step changes the storage only by an operation of the plan.
LEMMA StorageStep ==
  ASSUME UpdateInv, [Next]_vars, storage' # storage
  PROVE  /\ pc = "write" /\ plan # <<>>
         /\ \A x \in Places : x # Head(plan).at => storage'[x] = storage[x]
<1>1. pc = "write" /\ plan # <<>> /\ \E v : storage' = [storage EXCEPT ![Head(plan).at] = v]
  BY DEF Next, Check, Walk, Operate, Updated, NextEntry, Reset, vars
<1>2. storage \in [Places -> Int]
  BY DEF UpdateInv, TypeOK
<1>. QED  BY <1>1, <1>2

\* However the entries are ordered and wherever the update is cut off, no image
\* is touched before the one it depends on is complete in the slot.
THEOREM DependenciesFirst == Spec => DependencyFirst
<1>1. ASSUME UpdateInv, [Next]_vars, NEW d \in {<<"BCT", "mb2">>, <<"mb1", "BCT">>},
             Fits(d[1]), Fits(d[2]), "partition" \notin skipped,
             storage'[PlaceOf(d[1])] # storage[PlaceOf(d[1])]
      PROVE  storage[PlaceOf(d[2])] = payload.version
  <2> USE DEF UpdateInv
  <2>1. pc = "write" /\ plan # <<>> /\ \A x \in Places : x # Head(plan).at => storage'[x] = storage[x]
    BY <1>1, StorageStep
  <2>2. payload \in Payloads
    BY <1>1, <2>1 DEF LoopInv
  <2>3. PlaceOf(d[1]) \in Targets(d[1]) /\ PlaceOf(d[2]) \in Targets(d[2])
    BY DEF Targets
  <2>4. PlaceOf(d[1]) = Head(plan).at /\ PlaceOf(d[1])[1] = d[1]
    BY <1>1, <2>1, <2>2, <2>3, TargetPlaces
  <2>5. Last(stack) = d[1] /\ get_dependency(d[1]) \in list \cup {"none"}
    BY <1>1, <2>1, <2>4, OperatePlace DEF PlanInv
  <2>6. get_dependency(d[1]) = d[2] /\ d[2] # "none"
    BY DEF get_dependency
  <2>7. d[2] \in list
    BY <2>5, <2>6
  <2>. QED  BY <1>1, <2>3, <2>7 DEF ListInv
<1>2. UpdateInv /\ [Next]_vars =>
        [\A d \in {<<"BCT", "mb2">>, <<"mb1", "BCT">>} :
          pc = "write" /\ Fits(d[1]) /\ Fits(d[2]) /\ "partition" \notin skipped
              /\ storage'[PlaceOf(d[1])] # storage[PlaceOf(d[1])]
          => storage[PlaceOf(d[2])] = payload.version]_vars
  BY <1>1
<1>. QED  BY <1>2, UpdateInductive, PTL DEF Spec, DependencyFirst

\* The slot that is not being updated stays bootable throughout (slot 1 of a QSPI
\* flash excepted), cut off or not.
THEOREM KeepsOtherSlot == Spec => OtherSlotKept
<1>1. ASSUME UpdateInv, [Next]_vars, ~required, ~(qspi /\ slot = 1),
             NEW p \in Slotted \ AlwaysAb
      PROVE  storage'[<<p, 1 - slot>>] = storage[<<p, 1 - slot>>]
  <2> SUFFICES ASSUME storage' # storage PROVE storage'[<<p, 1 - slot>>] = storage[<<p, 1 - slot>>]
    OBVIOUS
  <2> USE DEF UpdateInv
  <2>1. pc = "write" /\ plan # <<>> /\ \A x \in Places : x # Head(plan).at => storage'[x] = storage[x]
    BY <1>1, StorageStep
  <2>2. slot \in {0, 1}
    BY <1>1 DEF TypeOK, Slots
  <2>3. <<p, 1 - slot>> \in Places
    BY <2>2 DEF Places, Slots
  <2>4. <<p, 1 - slot>> # Head(plan).at
    <3>1. Head(plan).at = <<p, 1 - slot>> => Head(plan).at[1] = p /\ Head(plan).at[2] = 1 - slot
      OBVIOUS
    <3>. QED  BY <1>1, <2>1, <2>2, <3>1, OperatePlace
  <2>. QED  BY <2>1, <2>3, <2>4
<1>2. UpdateInv /\ [Next]_vars =>
        [~required /\ ~(qspi /\ slot = 1) => \A p \in Slotted \ AlwaysAb :
          storage'[<<p, 1 - slot>>] = storage[<<p, 1 - slot>>]]_vars
  BY <1>1
<1>. QED  BY <1>2, UpdateInductive, PTL DEF Spec, OtherSlotKept
=============================================================================
