-------------------------- MODULE TegraIvcProofs --------------------------
(***************************************************************************)
(* Proofs about TegraIvc, for every ring size, every counter width and any *)
(* number of resets.                                                       *)
(***************************************************************************)
EXTENDS TegraIvc, SequenceTheorems, TLAPS

(***************************************************************************)
(* The resets the handshake survives: none is started against a peer in    *)
(* the ack state, unless the end is still in the sync state, and none by   *)
(* an end in the ack state against a peer in the sync state.               *)
(***************************************************************************)
ResetsAreSafe ==
    ResetFrom \cap {<<"established", "ack">>, <<"ack", "ack">>, <<"ack", "sync">>} = {}

\* The peer of an end is the other end.
LEMMA PeerLemma ==
    ASSUME NEW e \in Ends
    PROVE  /\ Peer(e) \in Ends /\ Peer(e) # e /\ Peer(Peer(e)) = e
           /\ \A f \in Ends : f = e \/ f = Peer(e)
<1>1. PICK a, b \in Ends : a # b /\ Ends = {a, b}
  BY EndsAssumption
<1>2. \A f \in Ends : Peer(f) \in Ends /\ Peer(f) # f
  <2>1. \A f \in Ends : \E g \in Ends : g # f
    BY <1>1
  <2> QED BY <2>1 DEF Peer
<1> QED BY <1>1, <1>2

\* A counter or a position incremented with wrap-around stays in its range.
LEMMA IncLemma ==
    ASSUME NEW mod \in Nat \ {0}, NEW n \in 0 .. mod - 1
    PROVE  Inc(n, mod) \in 0 .. mod - 1
  BY DEF Inc

\* The counters start at zero and every step keeps the types (uint32_t counters,
\* positions below nframes, the three states of ivc_state_t).
LEMMA TypeInit == Init => TypeOK
  BY FramesAssumption, ResetsAssumption, DataAssumption
  DEF Init, TypeOK, Counts, Slots, States, PcValues

\* Every handler of either end, and every step within a call, keeps the types.
LEMMA TypeStep == TypeOK /\ [Next]_vars => TypeOK'
<1> SUFFICES ASSUME TypeOK, [Next]_vars PROVE TypeOK'
  OBVIOUS
<1> USE FramesAssumption, ResetsAssumption
<1>1. CASE UNCHANGED vars
  BY <1>1 DEF vars, TypeOK
<1>2. ASSUME NEW e \in Ends, WriteCheck(e) PROVE TypeOK'
  BY <1>2 DEF TypeOK, WriteCheck, Goto, PcValues, handshake
<1>3. ASSUME NEW e \in Ends, ReadCheck(e) PROVE TypeOK'
  BY <1>3 DEF TypeOK, ReadCheck, Goto, PcValues, handshake
<1>4. ASSUME NEW e \in Ends, tegra_ivc_channel_reset(e) PROVE TypeOK'
  BY <1>4 DEF TypeOK, tegra_ivc_channel_reset, PcValues, States, Slots
<1>5. ASSUME NEW e \in Ends, tegra_ivc_channel_notified(e) PROVE TypeOK'
  <2>1. pc' \in [Ends -> PcValues]
    <3>1. \E v \in {"idle", "store", "clear"} : pc' = [pc EXCEPT ![e] = v]
      BY <1>5 DEF tegra_ivc_channel_notified, Begin
    <3>. QED  BY <3>1 DEF TypeOK, PcValues
  <2>2. todo' \in [Ends -> SUBSET {"w", "r"}]
    <3>1. todo' = todo \/ \E c \in SUBSET {"w", "r"} : todo' = [todo EXCEPT ![e] = c]
      BY <1>5 DEF tegra_ivc_channel_notified, Begin
    <3>. QED  BY <3>1 DEF TypeOK
  <2>3. target' \in [Ends -> States]
    BY <1>5 DEF TypeOK, tegra_ivc_channel_notified, Begin, States
  <2>4. bell' \in [Ends -> BOOLEAN]
    BY <1>5 DEF TypeOK, tegra_ivc_channel_notified
  <2> QED
    BY <1>5, <2>1, <2>2, <2>3, <2>4 DEF TypeOK, tegra_ivc_channel_notified
<1>6. ASSUME NEW e \in Ends, WriteCopy(e) PROVE TypeOK'
  BY <1>6 DEF TypeOK, WriteCopy, Goto, PcValues, handshake
<1>7. ASSUME NEW e \in Ends, ivc_advance_tx(e) PROVE TypeOK'
  <2>1. Inc(w_count[e], CountMod) \in Counts
    BY IncLemma, w_count[e] \in 0 .. CountMod - 1, CountMod \in Nat \ {0} DEF TypeOK, Counts
  <2>2. Inc(w_pos[e], NFrames) \in Slots
    BY IncLemma, w_pos[e] \in 0 .. NFrames - 1 DEF TypeOK, Slots
  <2> QED
    BY <1>7, <2>1, <2>2 DEF TypeOK, ivc_advance_tx, Goto, PcValues, handshake
<1>8. ASSUME NEW e \in Ends, WriteNotify(e) PROVE TypeOK'
  BY <1>8 DEF TypeOK, WriteNotify, Ring, Goto, PcValues, handshake
<1>9. ASSUME NEW e \in Ends, ReadCopy(e) PROVE TypeOK'
  BY <1>9 DEF TypeOK, ReadCopy, Goto, PcValues, handshake
<1>10. ASSUME NEW e \in Ends, ivc_advance_rx(e) PROVE TypeOK'
  <2>1. Inc(r_count[e], CountMod) \in Counts
    BY IncLemma, r_count[e] \in 0 .. CountMod - 1, CountMod \in Nat \ {0} DEF TypeOK, Counts
  <2>2. Inc(r_pos[e], NFrames) \in Slots
    BY IncLemma, r_pos[e] \in 0 .. NFrames - 1 DEF TypeOK, Slots
  <2> QED
    BY <1>10, <2>1, <2>2 DEF TypeOK, ivc_advance_rx, Goto, PcValues, handshake
<1>11. ASSUME NEW e \in Ends, ReadNotify(e) PROVE TypeOK'
  BY <1>11 DEF TypeOK, ReadNotify, Ring, Goto, PcValues, handshake
<1>12. ASSUME NEW e \in Ends, ClearCounter(e) PROVE TypeOK'
  BY <1>12 DEF TypeOK, ClearCounter, PcValues, Counts, Slots
<1>13. ASSUME NEW e \in Ends, StoreState(e) PROVE TypeOK'
  BY <1>13 DEF TypeOK, StoreState, Goto, PcValues, States
<1>14. ASSUME NEW e \in Ends, Notify(e) PROVE TypeOK'
  BY <1>14 DEF TypeOK, Notify, Ring, Goto, PcValues, handshake
<1> QED
  BY <1>1, <1>2, <1>3, <1>4, <1>5, <1>6, <1>7, <1>8, <1>9, <1>10, <1>11, <1>12, <1>13, <1>14
  DEF Next, Finish

\* The counters stay in their width, the positions below nframes, the states
\* among those of ivc_state_t, whatever the two ends do and however often they
\* reset: the part of the argument that needs no assumption on resets.
THEOREM TypeCorrect == Spec => []TypeOK
  BY TypeInit, TypeStep, PTL DEF Spec

\* Only an established end is in a call on the rings.
LEMMA CallsStep ==
    ASSUME TypeOK, CallsAreEstablished, [Next]_vars
    PROVE  CallsAreEstablished'
<1>1. CASE UNCHANGED vars
  BY <1>1 DEF vars, TypeOK, CallsAreEstablished, InCall, Reading, Writing, ivc_check_read, ivc_check_write
<1>2. ASSUME NEW e \in Ends, WriteCheck(e) PROVE CallsAreEstablished'
  BY <1>2, PeerLemma DEF WriteCheck, Goto, handshake, TypeOK, CallsAreEstablished, InCall, Reading, Writing, ivc_check_read, ivc_check_write
<1>3. ASSUME NEW e \in Ends, ReadCheck(e) PROVE CallsAreEstablished'
  BY <1>3, PeerLemma DEF ReadCheck, Goto, handshake, TypeOK, CallsAreEstablished, InCall, Reading, Writing, ivc_check_read, ivc_check_write
<1>4. ASSUME NEW e \in Ends, tegra_ivc_channel_reset(e) PROVE CallsAreEstablished'
  BY <1>4, PeerLemma DEF tegra_ivc_channel_reset, TypeOK, CallsAreEstablished, InCall, Reading, Writing, ivc_check_read, ivc_check_write
<1>5. ASSUME NEW e \in Ends, tegra_ivc_channel_notified(e) PROVE CallsAreEstablished'
  BY <1>5, PeerLemma DEF tegra_ivc_channel_notified, Begin, TypeOK, CallsAreEstablished, InCall, Reading, Writing, ivc_check_read, ivc_check_write
<1>6. ASSUME NEW e \in Ends, WriteCopy(e) PROVE CallsAreEstablished'
  BY <1>6, PeerLemma DEF WriteCopy, Goto, handshake, TypeOK, CallsAreEstablished, InCall, Reading, Writing, ivc_check_read, ivc_check_write
<1>7. ASSUME NEW e \in Ends, ivc_advance_tx(e) PROVE CallsAreEstablished'
  BY <1>7, PeerLemma DEF ivc_advance_tx, Goto, handshake, TypeOK, CallsAreEstablished, InCall, Reading, Writing, ivc_check_read, ivc_check_write
<1>8. ASSUME NEW e \in Ends, WriteNotify(e) PROVE CallsAreEstablished'
  BY <1>8, PeerLemma DEF WriteNotify, Goto, handshake, TypeOK, CallsAreEstablished, InCall, Reading, Writing, ivc_check_read, ivc_check_write
<1>9. ASSUME NEW e \in Ends, ReadCopy(e) PROVE CallsAreEstablished'
  BY <1>9, PeerLemma DEF ReadCopy, Goto, handshake, TypeOK, CallsAreEstablished, InCall, Reading, Writing, ivc_check_read, ivc_check_write
<1>10. ASSUME NEW e \in Ends, ivc_advance_rx(e) PROVE CallsAreEstablished'
  BY <1>10, PeerLemma DEF ivc_advance_rx, Goto, handshake, TypeOK, CallsAreEstablished, InCall, Reading, Writing, ivc_check_read, ivc_check_write
<1>11. ASSUME NEW e \in Ends, ReadNotify(e) PROVE CallsAreEstablished'
  BY <1>11, PeerLemma DEF ReadNotify, Goto, handshake, TypeOK, CallsAreEstablished, InCall, Reading, Writing, ivc_check_read, ivc_check_write
<1>12. ASSUME NEW e \in Ends, ClearCounter(e) PROVE CallsAreEstablished'
  BY <1>12, PeerLemma DEF ClearCounter, TypeOK, CallsAreEstablished, InCall, Reading, Writing, ivc_check_read, ivc_check_write
<1>13. ASSUME NEW e \in Ends, StoreState(e) PROVE CallsAreEstablished'
  BY <1>13, PeerLemma DEF StoreState, Goto, TypeOK, CallsAreEstablished, InCall, Reading, Writing, ivc_check_read, ivc_check_write
<1>14. ASSUME NEW e \in Ends, Notify(e) PROVE CallsAreEstablished'
  BY <1>14, PeerLemma DEF Notify, Goto, handshake, TypeOK, CallsAreEstablished, InCall, Reading, Writing, ivc_check_read, ivc_check_write
<1> QED
  BY <1>1, <1>2, <1>3, <1>4, <1>5, <1>6, <1>7, <1>8, <1>9, <1>10, <1>11, <1>12, <1>13, <1>14
  DEF Next, Finish

\* What the handshake has cleared stays cleared.
LEMMA ClearedStep ==
    ASSUME TypeOK, CallsAreEstablished, ClearedSoFar, [Next]_vars
    PROVE  ClearedSoFar'
<1>1. CASE UNCHANGED vars
  BY <1>1 DEF vars, TypeOK, CallsAreEstablished, InCall, Reading, Writing, ClearedSoFar, Changing
<1>2. ASSUME NEW e \in Ends, WriteCheck(e) PROVE ClearedSoFar'
  BY <1>2, PeerLemma DEF WriteCheck, Goto, handshake, TypeOK, CallsAreEstablished, InCall, Reading, Writing, ClearedSoFar, Changing
<1>3. ASSUME NEW e \in Ends, ReadCheck(e) PROVE ClearedSoFar'
  BY <1>3, PeerLemma DEF ReadCheck, Goto, handshake, TypeOK, CallsAreEstablished, InCall, Reading, Writing, ClearedSoFar, Changing
<1>4. ASSUME NEW e \in Ends, tegra_ivc_channel_reset(e) PROVE ClearedSoFar'
  BY <1>4, PeerLemma DEF tegra_ivc_channel_reset, TypeOK, CallsAreEstablished, InCall, Reading, Writing, ClearedSoFar, Changing
<1>5. ASSUME NEW e \in Ends, tegra_ivc_channel_notified(e) PROVE ClearedSoFar'
  BY <1>5, PeerLemma DEF tegra_ivc_channel_notified, Begin, TypeOK, CallsAreEstablished, InCall, Reading, Writing, ClearedSoFar, Changing
<1>6. ASSUME NEW e \in Ends, WriteCopy(e) PROVE ClearedSoFar'
  BY <1>6, PeerLemma DEF WriteCopy, Goto, handshake, TypeOK, CallsAreEstablished, InCall, Reading, Writing, ClearedSoFar, Changing
<1>7. ASSUME NEW e \in Ends, ivc_advance_tx(e) PROVE ClearedSoFar'
  BY <1>7, PeerLemma DEF ivc_advance_tx, Goto, handshake, TypeOK, CallsAreEstablished, InCall, Reading, Writing, ClearedSoFar, Changing
<1>8. ASSUME NEW e \in Ends, WriteNotify(e) PROVE ClearedSoFar'
  BY <1>8, PeerLemma DEF WriteNotify, Goto, handshake, TypeOK, CallsAreEstablished, InCall, Reading, Writing, ClearedSoFar, Changing
<1>9. ASSUME NEW e \in Ends, ReadCopy(e) PROVE ClearedSoFar'
  BY <1>9, PeerLemma DEF ReadCopy, Goto, handshake, TypeOK, CallsAreEstablished, InCall, Reading, Writing, ClearedSoFar, Changing
<1>10. ASSUME NEW e \in Ends, ivc_advance_rx(e) PROVE ClearedSoFar'
  BY <1>10, PeerLemma DEF ivc_advance_rx, Goto, handshake, TypeOK, CallsAreEstablished, InCall, Reading, Writing, ClearedSoFar, Changing
<1>11. ASSUME NEW e \in Ends, ReadNotify(e) PROVE ClearedSoFar'
  BY <1>11, PeerLemma DEF ReadNotify, Goto, handshake, TypeOK, CallsAreEstablished, InCall, Reading, Writing, ClearedSoFar, Changing
<1>12. ASSUME NEW e \in Ends, ClearCounter(e) PROVE ClearedSoFar'
  BY <1>12, PeerLemma DEF ClearCounter, TypeOK, CallsAreEstablished, InCall, Reading, Writing, ClearedSoFar, Changing
<1>13. ASSUME NEW e \in Ends, StoreState(e) PROVE ClearedSoFar'
  BY <1>13, PeerLemma DEF StoreState, Goto, TypeOK, CallsAreEstablished, InCall, Reading, Writing, ClearedSoFar, Changing
<1>14. ASSUME NEW e \in Ends, Notify(e) PROVE ClearedSoFar'
  BY <1>14, PeerLemma DEF Notify, Goto, handshake, TypeOK, CallsAreEstablished, InCall, Reading, Writing, ClearedSoFar, Changing
<1> QED
  BY <1>1, <1>2, <1>3, <1>4, <1>5, <1>6, <1>7, <1>8, <1>9, <1>10, <1>11, <1>12, <1>13, <1>14
  DEF Next, Finish

\* A sampled state stays usable.
LEMMA SampleStep ==
    ASSUME ResetsAreSafe, TypeOK, ClearedSoFar, SampleStaysValid, [Next]_vars
    PROVE  SampleStaysValid'
<1>1. CASE UNCHANGED vars
  BY <1>1 DEF vars, TypeOK, States, ClearedSoFar, SampleStaysValid, Changing, ToEstablished, ResetsAreSafe
<1>2. ASSUME NEW e \in Ends, WriteCheck(e) PROVE SampleStaysValid'
  BY <1>2, PeerLemma DEF WriteCheck, Goto, handshake, TypeOK, States, ClearedSoFar, SampleStaysValid, Changing, ToEstablished, ResetsAreSafe
<1>3. ASSUME NEW e \in Ends, ReadCheck(e) PROVE SampleStaysValid'
  BY <1>3, PeerLemma DEF ReadCheck, Goto, handshake, TypeOK, States, ClearedSoFar, SampleStaysValid, Changing, ToEstablished, ResetsAreSafe
<1>4. ASSUME NEW e \in Ends, tegra_ivc_channel_reset(e) PROVE SampleStaysValid'
  BY <1>4, PeerLemma DEF tegra_ivc_channel_reset, TypeOK, States, ClearedSoFar, SampleStaysValid, Changing, ToEstablished, ResetsAreSafe
<1>5. ASSUME NEW e \in Ends, tegra_ivc_channel_notified(e) PROVE SampleStaysValid'
  BY <1>5, PeerLemma DEF tegra_ivc_channel_notified, Begin, TypeOK, States, ClearedSoFar, SampleStaysValid, Changing, ToEstablished, ResetsAreSafe
<1>6. ASSUME NEW e \in Ends, WriteCopy(e) PROVE SampleStaysValid'
  BY <1>6, PeerLemma DEF WriteCopy, Goto, handshake, TypeOK, States, ClearedSoFar, SampleStaysValid, Changing, ToEstablished, ResetsAreSafe
<1>7. ASSUME NEW e \in Ends, ivc_advance_tx(e) PROVE SampleStaysValid'
  BY <1>7, PeerLemma DEF ivc_advance_tx, Goto, handshake, TypeOK, States, ClearedSoFar, SampleStaysValid, Changing, ToEstablished, ResetsAreSafe
<1>8. ASSUME NEW e \in Ends, WriteNotify(e) PROVE SampleStaysValid'
  BY <1>8, PeerLemma DEF WriteNotify, Goto, handshake, TypeOK, States, ClearedSoFar, SampleStaysValid, Changing, ToEstablished, ResetsAreSafe
<1>9. ASSUME NEW e \in Ends, ReadCopy(e) PROVE SampleStaysValid'
  BY <1>9, PeerLemma DEF ReadCopy, Goto, handshake, TypeOK, States, ClearedSoFar, SampleStaysValid, Changing, ToEstablished, ResetsAreSafe
<1>10. ASSUME NEW e \in Ends, ivc_advance_rx(e) PROVE SampleStaysValid'
  BY <1>10, PeerLemma DEF ivc_advance_rx, Goto, handshake, TypeOK, States, ClearedSoFar, SampleStaysValid, Changing, ToEstablished, ResetsAreSafe
<1>11. ASSUME NEW e \in Ends, ReadNotify(e) PROVE SampleStaysValid'
  BY <1>11, PeerLemma DEF ReadNotify, Goto, handshake, TypeOK, States, ClearedSoFar, SampleStaysValid, Changing, ToEstablished, ResetsAreSafe
<1>12. ASSUME NEW e \in Ends, ClearCounter(e) PROVE SampleStaysValid'
  BY <1>12, PeerLemma, ZenonT(60) DEF ClearCounter, TypeOK, States, ClearedSoFar, SampleStaysValid, Changing, ToEstablished, ResetsAreSafe
<1>13. ASSUME NEW e \in Ends, StoreState(e) PROVE SampleStaysValid'
  BY <1>13, PeerLemma DEF StoreState, Goto, TypeOK, States, ClearedSoFar, SampleStaysValid, Changing, ToEstablished, ResetsAreSafe
<1>14. ASSUME NEW e \in Ends, Notify(e) PROVE SampleStaysValid'
  BY <1>14, PeerLemma DEF Notify, Goto, handshake, TypeOK, States, ClearedSoFar, SampleStaysValid, Changing, ToEstablished, ResetsAreSafe
<1> QED
  BY <1>1, <1>2, <1>3, <1>4, <1>5, <1>6, <1>7, <1>8, <1>9, <1>10, <1>11, <1>12, <1>13, <1>14
  DEF Next, Finish

\* uint32_t subtraction follows an increment of either operand, across the wrap,
\* as long as the distance is below the ring size (and so below 2^32).
LEMMA SubLemma ==
    ASSUME NEW w \in Counts, NEW r \in Counts
    PROVE  /\ Sub(w, r) \in Counts
           /\ Sub(w, r) = 0 <=> w = r
           /\ Sub(w, r) < NFrames => Sub(Inc(w, CountMod), r) = Sub(w, r) + 1
           /\ Sub(w, r) >= 1 => Sub(w, Inc(r, CountMod)) = Sub(w, r) - 1
  BY FramesAssumption DEF Sub, Inc, Counts

\* The rings stay within bounds and the positions stay matched.
LEMMA RingsStep ==
    ASSUME IvcInv, [Next]_vars
    PROVE  RingsInUse'
<1> USE FramesAssumption
<1>1. CASE UNCHANGED vars
  BY <1>1 DEF vars, IvcInv, TypeOK, RingsInUse, InUse, Within, Matching, Wrap, ivc_channel_avail_count, CallsAreEstablished, ClearedSoFar, SampleStaysValid, CheckStaysValid, Changing, ToEstablished, InCall, Reading, Writing
<1>2. ASSUME NEW e \in Ends, WriteCheck(e) PROVE RingsInUse'
  BY <1>2, PeerLemma, SubLemma DEF WriteCheck, Goto, handshake, IvcInv, TypeOK, RingsInUse, InUse, Within, Matching, Wrap, ivc_channel_avail_count, CallsAreEstablished, ClearedSoFar, SampleStaysValid, CheckStaysValid, Changing, ToEstablished, InCall, Reading, Writing
<1>3. ASSUME NEW e \in Ends, ReadCheck(e) PROVE RingsInUse'
  BY <1>3, PeerLemma, SubLemma DEF ReadCheck, Goto, handshake, IvcInv, TypeOK, RingsInUse, InUse, Within, Matching, Wrap, ivc_channel_avail_count, CallsAreEstablished, ClearedSoFar, SampleStaysValid, CheckStaysValid, Changing, ToEstablished, InCall, Reading, Writing
<1>4. ASSUME NEW e \in Ends, tegra_ivc_channel_reset(e) PROVE RingsInUse'
  BY <1>4, PeerLemma, SubLemma DEF tegra_ivc_channel_reset, IvcInv, TypeOK, RingsInUse, InUse, Within, Matching, Wrap, ivc_channel_avail_count, CallsAreEstablished, ClearedSoFar, SampleStaysValid, CheckStaysValid, Changing, ToEstablished, InCall, Reading, Writing
<1>5. ASSUME NEW e \in Ends, tegra_ivc_channel_notified(e) PROVE RingsInUse'
  BY <1>5, PeerLemma, SubLemma DEF tegra_ivc_channel_notified, Begin, IvcInv, TypeOK, RingsInUse, InUse, Within, Matching, Wrap, ivc_channel_avail_count, CallsAreEstablished, ClearedSoFar, SampleStaysValid, CheckStaysValid, Changing, ToEstablished, InCall, Reading, Writing
<1>6. ASSUME NEW e \in Ends, WriteCopy(e) PROVE RingsInUse'
  BY <1>6, PeerLemma, SubLemma DEF WriteCopy, Goto, handshake, IvcInv, TypeOK, RingsInUse, InUse, Within, Matching, Wrap, ivc_channel_avail_count, CallsAreEstablished, ClearedSoFar, SampleStaysValid, CheckStaysValid, Changing, ToEstablished, InCall, Reading, Writing
<1>7. ASSUME NEW e \in Ends, ivc_advance_tx(e) PROVE RingsInUse'
  <2> USE PeerLemma
  <2>1. /\ InUse(e) /\ state' = state /\ pc'[Peer(e)] = pc[Peer(e)]
        /\ ivc_channel_avail_count(e) < NFrames
    BY <1>7 DEF ivc_advance_tx, Goto, handshake, IvcInv, TypeOK, CallsAreEstablished, InCall, Reading, Writing, InUse, Changing, CheckStaysValid
  <2>2. /\ ivc_channel_avail_count(e)' = ivc_channel_avail_count(e) + 1
        /\ ivc_channel_avail_count(Peer(e))' = ivc_channel_avail_count(Peer(e))
        /\ ivc_channel_avail_count(e) \in Counts /\ ivc_channel_avail_count(Peer(e)) \in Counts
    BY <1>7, <2>1, SubLemma DEF ivc_advance_tx, IvcInv, TypeOK, ivc_channel_avail_count
  <2>3. Within(e)' /\ Within(Peer(e))'
    BY <2>1, <2>2 DEF IvcInv, RingsInUse, Within, Counts
  <2>4. state[Peer(e)] # "sync" => Matching(e)' /\ Matching(Peer(e))'
    <3> SUFFICES ASSUME state[Peer(e)] # "sync" PROVE Matching(e)' /\ Matching(Peer(e))'
      OBVIOUS
    <3>1. Matching(e) /\ Matching(Peer(e)) /\ Within(e) /\ Within(Peer(e))
      BY <2>1 DEF IvcInv, RingsInUse
    <3>2. /\ w_pos'[e] = Inc(w_pos[e], NFrames) /\ r_pos' = r_pos
          /\ w_pos'[Peer(e)] = w_pos[Peer(e)]
      BY <1>7 DEF ivc_advance_tx, IvcInv, TypeOK
    <3>3. w_pos \in [Ends -> Slots] /\ r_pos \in [Ends -> Slots]
      BY DEF IvcInv, TypeOK
    <3> QED
      BY <2>1, <2>2, <3>1, <3>2, <3>3 DEF Matching, Wrap, Within, Inc, Slots, Counts
  <2> QED
    BY <2>1, <2>3, <2>4 DEF RingsInUse, InUse
<1>8. ASSUME NEW e \in Ends, WriteNotify(e) PROVE RingsInUse'
  BY <1>8, PeerLemma, SubLemma DEF WriteNotify, Goto, handshake, IvcInv, TypeOK, RingsInUse, InUse, Within, Matching, Wrap, ivc_channel_avail_count, CallsAreEstablished, ClearedSoFar, SampleStaysValid, CheckStaysValid, Changing, ToEstablished, InCall, Reading, Writing
<1>9. ASSUME NEW e \in Ends, ReadCopy(e) PROVE RingsInUse'
  BY <1>9, PeerLemma, SubLemma DEF ReadCopy, Goto, handshake, IvcInv, TypeOK, RingsInUse, InUse, Within, Matching, Wrap, ivc_channel_avail_count, CallsAreEstablished, ClearedSoFar, SampleStaysValid, CheckStaysValid, Changing, ToEstablished, InCall, Reading, Writing
<1>10. ASSUME NEW e \in Ends, ivc_advance_rx(e) PROVE RingsInUse'
  <2> USE PeerLemma
  <2>1. /\ InUse(e) /\ state' = state /\ pc'[Peer(e)] = pc[Peer(e)]
        /\ ivc_channel_avail_count(Peer(e)) >= 1
    BY <1>10 DEF ivc_advance_rx, Goto, handshake, IvcInv, TypeOK, CallsAreEstablished, InCall, Reading, Writing, InUse, Changing, CheckStaysValid
  <2>2. /\ ivc_channel_avail_count(Peer(e))' = ivc_channel_avail_count(Peer(e)) - 1
        /\ ivc_channel_avail_count(e)' = ivc_channel_avail_count(e)
        /\ ivc_channel_avail_count(e) \in Counts /\ ivc_channel_avail_count(Peer(e)) \in Counts
    BY <1>10, <2>1, SubLemma DEF ivc_advance_rx, IvcInv, TypeOK, ivc_channel_avail_count
  <2>3. Within(e)' /\ Within(Peer(e))'
    BY <2>1, <2>2 DEF IvcInv, RingsInUse, Within, Counts
  <2>4. state[Peer(e)] # "sync" => Matching(e)' /\ Matching(Peer(e))'
    <3> SUFFICES ASSUME state[Peer(e)] # "sync" PROVE Matching(e)' /\ Matching(Peer(e))'
      OBVIOUS
    <3>1. Matching(e) /\ Matching(Peer(e)) /\ Within(e) /\ Within(Peer(e))
      BY <2>1 DEF IvcInv, RingsInUse
    <3>2. /\ r_pos'[e] = Inc(r_pos[e], NFrames) /\ w_pos' = w_pos
          /\ r_pos'[Peer(e)] = r_pos[Peer(e)]
      BY <1>10 DEF ivc_advance_rx, IvcInv, TypeOK
    <3>3. w_pos \in [Ends -> Slots] /\ r_pos \in [Ends -> Slots]
      BY DEF IvcInv, TypeOK
    <3> QED
      BY <2>1, <2>2, <3>1, <3>2, <3>3 DEF Matching, Wrap, Within, Inc, Slots, Counts
  <2> QED
    BY <2>1, <2>3, <2>4 DEF RingsInUse, InUse
<1>11. ASSUME NEW e \in Ends, ReadNotify(e) PROVE RingsInUse'
  BY <1>11, PeerLemma, SubLemma DEF ReadNotify, Goto, handshake, IvcInv, TypeOK, RingsInUse, InUse, Within, Matching, Wrap, ivc_channel_avail_count, CallsAreEstablished, ClearedSoFar, SampleStaysValid, CheckStaysValid, Changing, ToEstablished, InCall, Reading, Writing
<1>12. ASSUME NEW e \in Ends, ClearCounter(e) PROVE RingsInUse'
  <2> USE PeerLemma
  <2>1. CASE state[e] = "ack"
    <3>1. UNCHANGED <<w_count, r_count, w_pos, r_pos, state>>
      BY <1>12, <2>1 DEF ClearCounter, IvcInv, TypeOK, ClearedSoFar
    <3>2. pc'[Peer(e)] = pc[Peer(e)] /\ pc[e] = "clear" /\ pc'[e] \in {"clear", "store"}
      BY <1>12 DEF ClearCounter, IvcInv, TypeOK
    <3> QED
      BY <2>1, <3>1, <3>2 DEF IvcInv, RingsInUse, InUse, Changing, Within, Matching, Wrap, ivc_channel_avail_count
  <2>2. CASE state[e] # "ack"
    <3>1. state[Peer(e)] # "established" /\ state' = state
      BY <1>12, <2>2 DEF ClearCounter, IvcInv, TypeOK, States, SampleStaysValid, Changing, ToEstablished
    <3>2. pc'[Peer(e)] = pc[Peer(e)] /\ pc'[e] \in {"clear", "store"}
      BY <1>12 DEF ClearCounter, IvcInv, TypeOK
    <3> QED
      BY <3>1, <3>2 DEF IvcInv, RingsInUse, InUse, Changing
  <2> QED
    BY <2>1, <2>2
<1>13. ASSUME NEW e \in Ends, StoreState(e) PROVE RingsInUse'
  <2> USE PeerLemma
  <2>1. /\ UNCHANGED <<w_count, r_count, w_pos, r_pos>> /\ Changing(e) /\ ~Changing(e)'
        /\ todo[e] = {} /\ pc'[Peer(e)] = pc[Peer(e)]
        /\ state'[e] = target[e] /\ state'[Peer(e)] = state[Peer(e)]
    BY <1>13 DEF StoreState, Goto, IvcInv, TypeOK, ClearedSoFar, Changing
  <2>2. w_count[e] = 0 /\ r_count[e] = 0 /\ w_pos[e] = 0 /\ r_pos[e] = 0
    BY <2>1 DEF IvcInv, ClearedSoFar
  <2>3. CASE target[e] = "ack"
    <3>1. InUse(Peer(e)) => state[e] = "ack"
      BY <2>1 DEF IvcInv, TypeOK, States, SampleStaysValid, InUse
    <3> QED
      BY <2>1, <2>3, <3>1
      DEF IvcInv, RingsInUse, InUse, Changing, Within, Matching, Wrap, ivc_channel_avail_count
  <2>4. CASE target[e] = "established"
    <3>1. state[e] \in {"sync", "ack"} /\ state[Peer(e)] \in {"ack", "established"}
          /\ (state[Peer(e)] = "established" => InUse(Peer(e)) /\ state[e] = "ack")
      BY <2>1, <2>4 DEF IvcInv, TypeOK, States, SampleStaysValid, InUse, ToEstablished, Changing
    <3>2. CASE state[Peer(e)] = "ack"
      <4>1. /\ w_count[Peer(e)] = 0 /\ r_count[Peer(e)] = 0
            /\ w_pos[Peer(e)] = 0 /\ r_pos[Peer(e)] = 0
        BY <3>2 DEF IvcInv, ClearedSoFar
      <4>2. ivc_channel_avail_count(e)' = 0 /\ ivc_channel_avail_count(Peer(e))' = 0
        BY <2>1, <2>2, <4>1 DEF ivc_channel_avail_count, Sub
      <4> QED
        BY <2>1, <2>2, <3>2, <4>1, <4>2 DEF RingsInUse, InUse, Within, Matching, Wrap
    <3>3. CASE state[Peer(e)] = "established"
      <4>1. Within(e) /\ Within(Peer(e)) /\ Matching(e) /\ Matching(Peer(e))
        BY <3>1, <3>3 DEF IvcInv, RingsInUse
      <4> QED
        BY <2>1, <4>1 DEF RingsInUse, Within, Matching, Wrap, ivc_channel_avail_count
    <3> QED
      BY <3>1, <3>2, <3>3
  <2> QED
    BY <2>1, <2>3, <2>4 DEF IvcInv, TypeOK, States, ClearedSoFar
<1>14. ASSUME NEW e \in Ends, Notify(e) PROVE RingsInUse'
  BY <1>14, PeerLemma, SubLemma DEF Notify, Goto, handshake, IvcInv, TypeOK, RingsInUse, InUse, Within, Matching, Wrap, ivc_channel_avail_count, CallsAreEstablished, ClearedSoFar, SampleStaysValid, CheckStaysValid, Changing, ToEstablished, InCall, Reading, Writing
<1> QED
  BY <1>1, <1>2, <1>3, <1>4, <1>5, <1>6, <1>7, <1>8, <1>9, <1>10, <1>11, <1>12, <1>13, <1>14
  DEF Next, Finish

\* The checks of a call stay valid until it advances.
LEMMA CheckStep ==
    ASSUME IvcInv, [Next]_vars
    PROVE  CheckStaysValid'
<1> USE FramesAssumption
<1>1. CASE UNCHANGED vars
  BY <1>1 DEF vars, IvcInv, TypeOK, CheckStaysValid, RingsInUse, InUse, Within, ivc_channel_avail_count, ivc_channel_empty, ivc_channel_full, ivc_check_read, ivc_check_write, CallsAreEstablished, ClearedSoFar, SampleStaysValid, Changing, ToEstablished, InCall, Reading, Writing
<1>2. ASSUME NEW e \in Ends, WriteCheck(e) PROVE CheckStaysValid'
  <2> USE PeerLemma
  <2>1. /\ UNCHANGED <<w_count, r_count>> /\ pc'[Peer(e)] = pc[Peer(e)]
        /\ ~Reading(e)'
        /\ Writing(e)' => ~ivc_channel_full(e)
    BY <1>2 DEF WriteCheck, Goto, IvcInv, TypeOK, Reading, Writing, ivc_check_write
  <2>2. ivc_channel_avail_count(e) \in Counts /\ ivc_channel_avail_count(Peer(e)) \in Counts
    BY SubLemma DEF ivc_channel_avail_count, IvcInv, TypeOK
  <2>3. Writing(e)' => ivc_channel_avail_count(e) < NFrames
    BY <2>1, <2>2 DEF ivc_channel_full, Counts
  <2> QED
    BY <2>1, <2>3 DEF IvcInv, CheckStaysValid, Reading, Writing, ivc_channel_avail_count
<1>3. ASSUME NEW e \in Ends, ReadCheck(e) PROVE CheckStaysValid'
  <2> USE PeerLemma
  <2>1. /\ UNCHANGED <<w_count, r_count>> /\ pc'[Peer(e)] = pc[Peer(e)]
        /\ ~Writing(e)'
        /\ Reading(e)' => ~ivc_channel_empty(Peer(e))
    BY <1>3 DEF ReadCheck, Goto, IvcInv, TypeOK, Reading, Writing, ivc_check_read
  <2>2. ivc_channel_avail_count(e) \in Counts /\ ivc_channel_avail_count(Peer(e)) \in Counts
    BY SubLemma DEF ivc_channel_avail_count, IvcInv, TypeOK
  <2>3. Reading(e)' => ivc_channel_avail_count(Peer(e)) \in 1 .. NFrames
    <3>1. w_count[Peer(e)] # r_count[e] => ivc_channel_avail_count(Peer(e)) # 0
      BY SubLemma DEF ivc_channel_avail_count, IvcInv, TypeOK
    <3> QED
      BY <2>1, <2>2, <3>1 DEF ivc_channel_empty, Counts
  <2> QED
    BY <2>1, <2>3 DEF IvcInv, CheckStaysValid, Reading, Writing, ivc_channel_avail_count
<1>4. ASSUME NEW e \in Ends, tegra_ivc_channel_reset(e) PROVE CheckStaysValid'
  BY <1>4, PeerLemma, SubLemma DEF tegra_ivc_channel_reset, IvcInv, TypeOK, CheckStaysValid, RingsInUse, InUse, Within, ivc_channel_avail_count, ivc_channel_empty, ivc_channel_full, ivc_check_read, ivc_check_write, CallsAreEstablished, ClearedSoFar, SampleStaysValid, Changing, ToEstablished, InCall, Reading, Writing
<1>5. ASSUME NEW e \in Ends, tegra_ivc_channel_notified(e) PROVE CheckStaysValid'
  BY <1>5, PeerLemma, SubLemma DEF tegra_ivc_channel_notified, Begin, IvcInv, TypeOK, CheckStaysValid, RingsInUse, InUse, Within, ivc_channel_avail_count, ivc_channel_empty, ivc_channel_full, ivc_check_read, ivc_check_write, CallsAreEstablished, ClearedSoFar, SampleStaysValid, Changing, ToEstablished, InCall, Reading, Writing
<1>6. ASSUME NEW e \in Ends, WriteCopy(e) PROVE CheckStaysValid'
  BY <1>6, PeerLemma, SubLemma DEF WriteCopy, Goto, handshake, IvcInv, TypeOK, CheckStaysValid, RingsInUse, InUse, Within, ivc_channel_avail_count, ivc_channel_empty, ivc_channel_full, ivc_check_read, ivc_check_write, CallsAreEstablished, ClearedSoFar, SampleStaysValid, Changing, ToEstablished, InCall, Reading, Writing
<1>7. ASSUME NEW e \in Ends, ivc_advance_tx(e) PROVE CheckStaysValid'
  BY <1>7, PeerLemma, SubLemma DEF ivc_advance_tx, Goto, handshake, IvcInv, TypeOK, CheckStaysValid, RingsInUse, InUse, Within, ivc_channel_avail_count, ivc_channel_empty, ivc_channel_full, ivc_check_read, ivc_check_write, CallsAreEstablished, ClearedSoFar, SampleStaysValid, Changing, ToEstablished, InCall, Reading, Writing
<1>8. ASSUME NEW e \in Ends, WriteNotify(e) PROVE CheckStaysValid'
  BY <1>8, PeerLemma, SubLemma DEF WriteNotify, Goto, handshake, IvcInv, TypeOK, CheckStaysValid, RingsInUse, InUse, Within, ivc_channel_avail_count, ivc_channel_empty, ivc_channel_full, ivc_check_read, ivc_check_write, CallsAreEstablished, ClearedSoFar, SampleStaysValid, Changing, ToEstablished, InCall, Reading, Writing
<1>9. ASSUME NEW e \in Ends, ReadCopy(e) PROVE CheckStaysValid'
  BY <1>9, PeerLemma, SubLemma DEF ReadCopy, Goto, handshake, IvcInv, TypeOK, CheckStaysValid, RingsInUse, InUse, Within, ivc_channel_avail_count, ivc_channel_empty, ivc_channel_full, ivc_check_read, ivc_check_write, CallsAreEstablished, ClearedSoFar, SampleStaysValid, Changing, ToEstablished, InCall, Reading, Writing
<1>10. ASSUME NEW e \in Ends, ivc_advance_rx(e) PROVE CheckStaysValid'
  BY <1>10, PeerLemma, SubLemma DEF ivc_advance_rx, Goto, handshake, IvcInv, TypeOK, CheckStaysValid, RingsInUse, InUse, Within, ivc_channel_avail_count, ivc_channel_empty, ivc_channel_full, ivc_check_read, ivc_check_write, CallsAreEstablished, ClearedSoFar, SampleStaysValid, Changing, ToEstablished, InCall, Reading, Writing
<1>11. ASSUME NEW e \in Ends, ReadNotify(e) PROVE CheckStaysValid'
  BY <1>11, PeerLemma, SubLemma DEF ReadNotify, Goto, handshake, IvcInv, TypeOK, CheckStaysValid, RingsInUse, InUse, Within, ivc_channel_avail_count, ivc_channel_empty, ivc_channel_full, ivc_check_read, ivc_check_write, CallsAreEstablished, ClearedSoFar, SampleStaysValid, Changing, ToEstablished, InCall, Reading, Writing
<1>12. ASSUME NEW e \in Ends, ClearCounter(e) PROVE CheckStaysValid'
  <2> USE PeerLemma
  <2>1. CASE state[e] = "ack"
    <3>1. UNCHANGED <<w_count, r_count, w_pos, r_pos, state>>
      BY <1>12, <2>1 DEF ClearCounter, IvcInv, TypeOK, ClearedSoFar
    <3>2. pc'[Peer(e)] = pc[Peer(e)] /\ pc[e] = "clear" /\ pc'[e] \in {"clear", "store"}
      BY <1>12 DEF ClearCounter, IvcInv, TypeOK
    <3> QED
      BY <2>1, <3>1, <3>2 DEF IvcInv, CheckStaysValid, Reading, Writing, ivc_channel_avail_count
  <2>2. CASE state[e] # "ack"
    <3>1. state[Peer(e)] # "established" /\ state' = state
      BY <1>12, <2>2 DEF ClearCounter, IvcInv, TypeOK, States, SampleStaysValid, Changing, ToEstablished
    <3>2. pc'[Peer(e)] = pc[Peer(e)] /\ pc'[e] \in {"clear", "store"}
      BY <1>12 DEF ClearCounter, IvcInv, TypeOK
    <3> QED
      BY <3>1, <3>2 DEF IvcInv, CheckStaysValid, CallsAreEstablished, InCall, Reading, Writing
  <2> QED
    BY <2>1, <2>2
<1>13. ASSUME NEW e \in Ends, StoreState(e) PROVE CheckStaysValid'
  BY <1>13, PeerLemma, SubLemma DEF StoreState, Goto, IvcInv, TypeOK, CheckStaysValid, RingsInUse, InUse, Within, ivc_channel_avail_count, ivc_channel_empty, ivc_channel_full, ivc_check_read, ivc_check_write, CallsAreEstablished, ClearedSoFar, SampleStaysValid, Changing, ToEstablished, InCall, Reading, Writing
<1>14. ASSUME NEW e \in Ends, Notify(e) PROVE CheckStaysValid'
  BY <1>14, PeerLemma, SubLemma DEF Notify, Goto, handshake, IvcInv, TypeOK, CheckStaysValid, RingsInUse, InUse, Within, ivc_channel_avail_count, ivc_channel_empty, ivc_channel_full, ivc_check_read, ivc_check_write, CallsAreEstablished, ClearedSoFar, SampleStaysValid, Changing, ToEstablished, InCall, Reading, Writing
<1> QED
  BY <1>1, <1>2, <1>3, <1>4, <1>5, <1>6, <1>7, <1>8, <1>9, <1>10, <1>11, <1>12, <1>13, <1>14
  DEF Next, Finish

\* The invariant holds of two ends on zeroed shared memory.
LEMMA IvcInit == Init => IvcInv
<1> SUFFICES ASSUME Init PROVE IvcInv
  OBVIOUS
<1> USE PeerLemma, FramesAssumption
<1>1. TypeOK
  BY TypeInit
<1>2. CallsAreEstablished /\ ClearedSoFar /\ SampleStaysValid /\ CheckStaysValid
  BY DEF Init, CallsAreEstablished, ClearedSoFar, SampleStaysValid, CheckStaysValid, InCall,
         Reading, Writing, Changing
<1>3. RingsInUse
  BY DEF Init, RingsInUse, Within, Matching, Wrap, ivc_channel_avail_count, Sub
<1> QED
  BY <1>1, <1>2, <1>3 DEF IvcInv

\* The inductive invariant: as long as resets are safe, every step of either end
\* keeps it.
THEOREM Inductive ==
    ASSUME ResetsAreSafe
    PROVE  Spec => []IvcInv
<1>1. IvcInv /\ [Next]_vars => IvcInv'
  BY TypeStep, CallsStep, ClearedStep, SampleStep, RingsStep, CheckStep DEF IvcInv
<1> QED
  BY <1>1, IvcInit, PTL DEF Spec

\* The check a call makes stays valid until the call advances its counter
\* (tegra_ivc_read, _read_advance, _write, _write_advance).
THEOREM ChecksStayValid ==
    ASSUME ResetsAreSafe
    PROVE  Spec => []CheckStaysValid
  BY Inductive, PTL DEF IvcInv

\* Two established ends agree on the content of both rings.
THEOREM EstablishedEndsAgree ==
    ASSUME ResetsAreSafe
    PROVE  Spec => []EndsAgree
<1>1. IvcInv => EndsAgree
  BY PeerLemma DEF IvcInv, TypeOK, SampleStaysValid, RingsInUse, InUse, EndsAgree
<1> QED
  BY <1>1, Inductive, PTL

\* No frame is copied into by one end while the other copies out of it.
THEOREM NoRaceOnFrames ==
    ASSUME ResetsAreSafe
    PROVE  Spec => []NoFrameRace
<1>1. IvcInv => NoFrameRace
  <2> SUFFICES ASSUME IvcInv, NEW e \in Ends,
                      pc[e] \in {"write_copy", "poke_copy"},
                      pc[Peer(e)] \in {"read_copy", "peek_copy"}
               PROVE  w_pos[e] # r_pos[Peer(e)]
    BY DEF NoFrameRace
  <2> USE PeerLemma
  <2>1. Writing(e) /\ Reading(Peer(e))
    BY DEF Writing, Reading
  <2>2. ivc_channel_avail_count(e) \in 1 .. NFrames - 1
    <3>1. ivc_channel_avail_count(e) \in 1 .. NFrames /\ ivc_channel_avail_count(e) < NFrames
      BY <2>1 DEF IvcInv, CheckStaysValid
    <3> QED BY <3>1, FramesAssumption
  <2>3. Matching(e)
    BY <2>1 DEF IvcInv, CallsAreEstablished, InCall, RingsInUse, InUse, Changing
  <2>4. w_pos[e] \in Slots /\ r_pos[Peer(e)] \in Slots
    BY DEF IvcInv, TypeOK
  <2> QED
    BY <2>2, <2>3, <2>4, FramesAssumption DEF Matching, Wrap, Slots
<1> QED
  BY <1>1, Inductive, PTL

\* A handshake step never changes a counter an established peer relies on.
THEOREM ClearsAreSafe ==
    ASSUME ResetsAreSafe
    PROVE  Spec => []ClearsUnusedCounters
<1>1. IvcInv => ClearsUnusedCounters
  <2> SUFFICES ASSUME IvcInv, NEW e \in Ends, state[Peer(e)] = "established", todo[e] # {}
               PROVE  w_count[e] = 0 /\ r_count[e] = 0
    BY DEF ClearsUnusedCounters
  <2>1. Changing(e)
    BY DEF IvcInv, ClearedSoFar, Changing
  <2>2. state[e] = "ack"
    BY <2>1, PeerLemma DEF IvcInv, TypeOK, States, SampleStaysValid
  <2> QED
    BY <2>2 DEF IvcInv, ClearedSoFar
<1> QED
  BY <1>1, Inductive, PTL

\* The notification that a waiting end needs stays owed until it is sent.
LEMMA WakeupStep ==
    ASSUME IvcInv, WakeupOwed, [Next]_vars
    PROVE  WakeupOwed'
<1> USE FramesAssumption DEF WakeupOwed, ivc_channel_empty, ivc_channel_full
<1>1. CASE UNCHANGED vars
  BY <1>1 DEF vars, ivc_channel_avail_count
<1>2. ASSUME NEW e \in Ends, WriteCheck(e) PROVE WakeupOwed'
  BY <1>2, PeerLemma DEF WriteCheck, Goto, handshake, ivc_channel_avail_count, IvcInv, TypeOK
<1>3. ASSUME NEW e \in Ends, ReadCheck(e) PROVE WakeupOwed'
  BY <1>3, PeerLemma DEF ReadCheck, Goto, handshake, ivc_channel_avail_count, IvcInv, TypeOK
<1>4. ASSUME NEW e \in Ends, tegra_ivc_channel_reset(e) PROVE WakeupOwed'
  BY <1>4, PeerLemma DEF tegra_ivc_channel_reset, IvcInv, TypeOK
<1>5. ASSUME NEW e \in Ends, tegra_ivc_channel_notified(e) PROVE WakeupOwed'
  BY <1>5, PeerLemma DEF tegra_ivc_channel_notified, Begin, ivc_channel_avail_count, IvcInv, TypeOK
<1>6. ASSUME NEW e \in Ends, WriteCopy(e) PROVE WakeupOwed'
  BY <1>6, PeerLemma, SMTT(60) DEF WriteCopy, Goto, handshake, ivc_channel_avail_count, IvcInv, TypeOK
<1>7. ASSUME NEW e \in Ends, ivc_advance_tx(e) PROVE WakeupOwed'
  <2> USE PeerLemma
  <2>1. /\ UNCHANGED <<state, bell>> /\ pc'[Peer(e)] = pc[Peer(e)]
        /\ pc[e] = "write_advance" /\ pc'[e] = "write_notify"
        /\ ivc_channel_avail_count(e) < NFrames
    BY <1>7 DEF ivc_advance_tx, Goto, handshake, IvcInv, TypeOK, Writing, CheckStaysValid
  <2>2. /\ ivc_channel_avail_count(e)' = ivc_channel_avail_count(e) + 1
        /\ ivc_channel_avail_count(Peer(e))' = ivc_channel_avail_count(Peer(e))
        /\ ivc_channel_avail_count(e) \in Counts
        /\ ivc_channel_avail_count(e) = 0 <=> w_count[e] = r_count[Peer(e)]
    BY <1>7, <2>1, SubLemma DEF ivc_advance_tx, IvcInv, TypeOK, ivc_channel_avail_count
  <2> QED
    BY <2>1, <2>2 DEF Counts
<1>8. ASSUME NEW e \in Ends, WriteNotify(e) PROVE WakeupOwed'
  BY <1>8, PeerLemma, SMTT(60) DEF WriteNotify, Ring, Goto, handshake, ivc_channel_avail_count, IvcInv, TypeOK
<1>9. ASSUME NEW e \in Ends, ReadCopy(e) PROVE WakeupOwed'
  BY <1>9, PeerLemma DEF ReadCopy, Goto, handshake, ivc_channel_avail_count, IvcInv, TypeOK
<1>10. ASSUME NEW e \in Ends, ivc_advance_rx(e) PROVE WakeupOwed'
  <2> USE PeerLemma
  <2>1. /\ UNCHANGED <<state, bell>> /\ pc'[Peer(e)] = pc[Peer(e)]
        /\ pc[e] = "read_advance" /\ pc'[e] = "read_notify"
        /\ ivc_channel_avail_count(Peer(e)) \in 1 .. NFrames
    BY <1>10 DEF ivc_advance_rx, Goto, handshake, IvcInv, TypeOK, Reading, CheckStaysValid
  <2>2. /\ ivc_channel_avail_count(Peer(e))' = ivc_channel_avail_count(Peer(e)) - 1
        /\ ivc_channel_avail_count(e)' = ivc_channel_avail_count(e)
        /\ UNCHANGED w_count /\ r_count'[Peer(e)] = r_count[Peer(e)]
    BY <1>10, <2>1, SubLemma DEF ivc_advance_rx, IvcInv, TypeOK, ivc_channel_avail_count
  <2> QED
    BY <2>1, <2>2
<1>11. ASSUME NEW e \in Ends, ReadNotify(e) PROVE WakeupOwed'
  BY <1>11, PeerLemma DEF ReadNotify, Ring, Goto, handshake, ivc_channel_avail_count, IvcInv, TypeOK
<1>12. ASSUME NEW e \in Ends, ClearCounter(e) PROVE WakeupOwed'
  BY <1>12, PeerLemma DEF ClearCounter, IvcInv, TypeOK, SampleStaysValid, Changing
<1>13. ASSUME NEW e \in Ends, StoreState(e) PROVE WakeupOwed'
  BY <1>13, PeerLemma DEF StoreState, Goto, IvcInv, TypeOK
<1>14. ASSUME NEW e \in Ends, Notify(e) PROVE WakeupOwed'
  BY <1>14, PeerLemma DEF Notify, Ring, Goto, handshake, IvcInv, TypeOK
<1> QED
  BY <1>1, <1>2, <1>3, <1>4, <1>5, <1>6, <1>7, <1>8, <1>9, <1>10, <1>11, <1>12, <1>13, <1>14
  DEF Next, Finish

\* An end asleep on a channel that has got a frame, or room, is notified although
\* the code notifies on the two transitions only.
THEOREM WakeupsAreKept ==
    ASSUME ResetsAreSafe
    PROVE  Spec => []NoLostWakeup
<1>1. Init => WakeupOwed
  BY PeerLemma DEF Init, WakeupOwed
<1>2. WakeupOwed => NoLostWakeup
  BY DEF WakeupOwed, NoLostWakeup
<1> QED
  BY <1>1, <1>2, WakeupStep, Inductive, PTL DEF Spec

-----------------------------------------------------------------------------
(* The refinement of IvcFifo.                                              *)

\* An established end has read nothing from a peer that is in the ack state.
LEMMA AckStep ==
    ASSUME IvcInv, AckUnread, [Next]_vars
    PROVE  AckUnread'
<1> USE PeerLemma DEF AckUnread
<1>1. CASE UNCHANGED vars
  BY <1>1 DEF vars
<1>2. ASSUME NEW e \in Ends, UNCHANGED <<state, r_count>> PROVE AckUnread'
  BY <1>2
<1>3. ASSUME NEW e \in Ends, tegra_ivc_channel_reset(e) PROVE AckUnread'
  BY <1>3 DEF tegra_ivc_channel_reset, IvcInv, TypeOK
<1>4. ASSUME NEW e \in Ends, ivc_advance_rx(e) PROVE AckUnread'
  <2>1. UNCHANGED state /\ r_count'[Peer(e)] = r_count[Peer(e)]
        /\ ivc_channel_avail_count(Peer(e)) \in 1 .. NFrames
    BY <1>4 DEF ivc_advance_rx, Goto, handshake, IvcInv, TypeOK, Reading, CheckStaysValid
  <2>2. ~(state[Peer(e)] = "ack" /\ state[e] = "established")
    BY <2>1, FramesAssumption DEF IvcInv, ClearedSoFar, ivc_channel_avail_count, Sub
  <2> QED
    BY <2>1, <2>2
<1>5. ASSUME NEW e \in Ends, ClearCounter(e) PROVE AckUnread'
  BY <1>5 DEF ClearCounter, IvcInv, TypeOK
<1>6. ASSUME NEW e \in Ends, StoreState(e) PROVE AckUnread'
  <2>1. /\ UNCHANGED r_count /\ Changing(e) /\ todo[e] = {}
        /\ state'[e] = target[e] /\ state'[Peer(e)] = state[Peer(e)]
    BY <1>6 DEF StoreState, Goto, IvcInv, TypeOK, ClearedSoFar, Changing
  <2>2. r_count[e] = 0
    BY <2>1 DEF IvcInv, ClearedSoFar
  <2>3. target[e] = "ack" /\ state[Peer(e)] = "established" => state[e] = "ack"
    BY <2>1 DEF IvcInv, TypeOK, States, SampleStaysValid
  <2> QED
    BY <2>1, <2>2, <2>3
<1> QED
  BY <1>1, <1>2, <1>3, <1>4, <1>5, <1>6
  DEF Next, Finish, WriteCheck, ReadCheck, tegra_ivc_channel_notified, WriteCopy, ivc_advance_tx,
      WriteNotify, ReadCopy, ReadNotify, Notify, handshake

\* The frames between two counters are a sequence.
LEMMA FramesSeq ==
    ASSUME NEW S, NEW n \in Nat, NEW s \in [1 .. n -> S]
    PROVE  /\ s \in Seq(S) /\ Len(s) = n
           /\ s = <<>> <=> n = 0
           /\ \A d \in S : Append(s, d) = [i \in 1 .. n + 1 |-> IF i = n + 1 THEN d ELSE s[i]]
<1>1. \A m \in Nat : \A t \in [1 .. m -> S] : t \in Seq(S) /\ Len(t) = m
  BY SeqDef
<1>2. s = <<>> <=> n = 0
  BY <1>1, EmptySeq
<1>3. ASSUME NEW d \in S
      PROVE  Append(s, d) = [i \in 1 .. n + 1 |-> IF i = n + 1 THEN d ELSE s[i]]
  <2> DEFINE t == [i \in 1 .. n + 1 |-> IF i = n + 1 THEN d ELSE s[i]]
  <2>1. t \in [1 .. n + 1 -> S]
    OBVIOUS
  <2>2. t \in Seq(S) /\ Len(t) = n + 1
    BY <1>1, <2>1
  <2>3. Append(s, d) \in Seq(S) /\ Len(Append(s, d)) = n + 1
        /\ \A i \in 1 .. n + 1 : Append(s, d)[i] = t[i]
    BY <1>1, AppendProperties
  <2> QED
    BY <2>2, <2>3, SeqEqual
<1> QED
  BY <1>1, <1>2, <1>3

\* What is left of it when the oldest frame is freed.
LEMMA FramesTail ==
    ASSUME NEW S, NEW n \in Nat \ {0}, NEW s \in [1 .. n -> S]
    PROVE  s # <<>> /\ Tail(s) = [i \in 1 .. n - 1 |-> s[i + 1]]
<1> DEFINE t == [i \in 1 .. n - 1 |-> s[i + 1]]
<1>1. s \in Seq(S) /\ Len(s) = n /\ s # <<>>
  BY FramesSeq
<1>2. t \in [1 .. n - 1 -> S]
  OBVIOUS
<1>3. t \in Seq(S) /\ Len(t) = n - 1
  BY <1>2, FramesSeq
<1>4. Tail(s) \in Seq(S) /\ Len(Tail(s)) = n - 1
      /\ \A i \in 1 .. n - 1 : Tail(s)[i] = t[i]
  BY <1>1, HeadTailProperties
<1> QED
  BY <1>1, <1>3, <1>4, SeqEqual

\* What is in flight is a sequence of at most NFrames frames.
LEMMA FlightLemma ==
    ASSUME IvcInv, NEW e \in Ends, Live(e)
    PROVE  /\ ivc_channel_avail_count(e) \in 0 .. NFrames
           /\ First(e, ivc_channel_avail_count(e)) \in Slots
           /\ InFlight(e) \in [1 .. ivc_channel_avail_count(e) -> Data]
<1> USE PeerLemma, FramesAssumption
<1> DEFINE n == ivc_channel_avail_count(e)
<1>1. n \in 0 .. NFrames
  <2>1. Within(e)
    BY DEF Live, IvcInv, RingsInUse
  <2>2. n \in Counts
    BY SubLemma DEF IvcInv, TypeOK, ivc_channel_avail_count
  <2> QED
    BY <2>1, <2>2 DEF Within, Counts
<1>2. First(e, n) \in Slots
  BY <1>1 DEF First, Wrap, Slots, IvcInv, TypeOK
<1>3. \A i \in 1 .. n : Wrap((First(e, n) + i) - 1) \in Slots
  BY <1>1, <1>2 DEF Wrap, Slots
<1>4. InFlight(e) = Frames(e, First(e, n), n)
  BY DEF InFlight, FramesBetween
<1>5. frame[e] \in [Slots -> Data]
  BY DEF IvcInv, TypeOK
<1> QED
  BY <1>1, <1>2, <1>3, <1>4, <1>5 DEF Frames

\* A step that keeps or empties each direction is one the FIFO allows.
LEMMA DiscardLemma ==
    ASSUME \A e \in Ends : InFlight(e)' = InFlight(e) \/ InFlight(e)' = <<>>
    PROVE  Fifo!Next
<1> DEFINE S == {e \in Ends : InFlight(e)' = <<>>}
<1>1. Fifo!Discard(S)
  BY DEF Fifo!Discard
<1>2. S \in SUBSET Ends
  OBVIOUS
<1> QED
  BY <1>1, <1>2 DEF Fifo!Next

\* A step that touches neither the headers, the frames nor the positions, and
\* starts or ends no handshake step, leaves both directions as they are.
LEMMA SameFlight ==
    ASSUME UNCHANGED <<w_count, r_count, frame, w_pos, r_pos, state>>,
           \A e \in Ends : Changing(e)' = Changing(e)
    PROVE  \A e \in Ends : InFlight(e)' = InFlight(e)
  BY PeerLemma DEF InFlight, Live, InUse, FramesBetween, First, Frames, ivc_channel_avail_count

\* A frame is copied in behind the frames in flight.
LEMMA CopyFlight ==
    ASSUME IvcInv, NEW e \in Ends, WriteCopy(e)
    PROVE  \A f \in Ends : InFlight(f)' = InFlight(f)
<1> USE PeerLemma, FramesAssumption
<1> DEFINE n == ivc_channel_avail_count(e)
<1>1. /\ UNCHANGED <<w_count, r_count, w_pos, r_pos, state>>
      /\ \A f \in Ends : Changing(f)' = Changing(f)
      /\ Writing(e)
    BY DEF WriteCopy, Goto, handshake, Changing, Writing, IvcInv, TypeOK
<1>2. state[e] = "established" /\ Live(e) /\ n < NFrames /\ w_pos[e] \in Slots
  BY <1>1 DEF IvcInv, TypeOK, CallsAreEstablished, InCall, Live, InUse, Changing, Writing, CheckStaysValid
<1>3. n \in 0 .. NFrames /\ First(e, n) \in Slots
  BY <1>2, FlightLemma
<1>4. \A i \in 1 .. n : Wrap((First(e, n) + i) - 1) \in Slots \ {w_pos[e]}
  BY <1>2, <1>3 DEF First, Wrap, Slots
<1>5. /\ \A k \in Slots \ {w_pos[e]} : frame'[e][k] = frame[e][k]
      /\ frame'[Peer(e)] = frame[Peer(e)]
  BY DEF WriteCopy, IvcInv, TypeOK
<1>6. \A f \in Ends : /\ Live(f)' = Live(f)
                      /\ ivc_channel_avail_count(f)' = ivc_channel_avail_count(f)
                      /\ \A m : First(f, m)' = First(f, m)
  BY <1>1 DEF Live, InUse, First, ivc_channel_avail_count
<1>7. InFlight(e)' = InFlight(e)
  <2>1. Frames(e, First(e, n), n)' = Frames(e, First(e, n), n)
    BY <1>4, <1>5, <1>6 DEF Frames
  <2> QED
    BY <1>6, <2>1 DEF InFlight, FramesBetween
<1>8. InFlight(Peer(e))' = InFlight(Peer(e))
  BY <1>1, <1>5, <1>6 DEF InFlight, FramesBetween, Frames, First, ivc_channel_avail_count
<1> QED
  BY <1>7, <1>8

\* ivc_advance_tx publishes the frame at the write position.
LEMMA PublishFlight ==
    ASSUME IvcInv, NEW e \in Ends, ivc_advance_tx(e)
    PROVE  Fifo!Next
<1> USE PeerLemma, FramesAssumption
<1> DEFINE n == ivc_channel_avail_count(e)
           d == frame[e][w_pos[e]]
<1>1. /\ UNCHANGED <<r_count, frame, r_pos, state>>
      /\ \A f \in Ends : Changing(f)' = Changing(f)
      /\ Writing(e)
      /\ w_count'[Peer(e)] = w_count[Peer(e)] /\ w_pos'[Peer(e)] = w_pos[Peer(e)]
      /\ w_pos'[e] = Inc(w_pos[e], NFrames)
    BY DEF ivc_advance_tx, Goto, handshake, Changing, Writing, IvcInv, TypeOK
<1>2. state[e] = "established" /\ Live(e) /\ n < NFrames /\ w_pos[e] \in Slots
  BY <1>1 DEF IvcInv, TypeOK, CallsAreEstablished, InCall, Live, InUse, Changing, Writing, CheckStaysValid
<1>3. n \in 0 .. NFrames /\ First(e, n) \in Slots /\ InFlight(e) \in [1 .. n -> Data]
  BY <1>2, FlightLemma
<1>4. n' = n + 1
  BY <1>2, SubLemma DEF ivc_advance_tx, IvcInv, TypeOK, ivc_channel_avail_count
<1>5. First(e, n)' = First(e, n) /\ Wrap(First(e, n) + n) = w_pos[e]
  <2>1. /\ First(e, n) = Wrap((w_pos[e] + NFrames) - n)
        /\ First(e, n)' = Wrap((Inc(w_pos[e], NFrames) + NFrames) - (n + 1))
    BY <1>1, <1>2, <1>4 DEF First, Wrap
  <2> QED
    BY <1>2, <1>3, <2>1, SMTT(60) DEF Wrap, Slots, Inc
<1>6. Live(e)' /\ Live(Peer(e))' = Live(Peer(e))
  BY <1>1, <1>2 DEF Live, InUse
<1>7. InFlight(e)' = Append(InFlight(e), d)
  <2>1. InFlight(e)' = [i \in 1 .. n + 1 |-> frame[e][Wrap((First(e, n) + i) - 1)]]
    BY <1>1, <1>4, <1>5, <1>6 DEF InFlight, FramesBetween, Frames
  <2>2. InFlight(e) = [i \in 1 .. n |-> frame[e][Wrap((First(e, n) + i) - 1)]]
    BY <1>2 DEF InFlight, FramesBetween, Frames
  <2>3. frame[e][Wrap((First(e, n) + (n + 1)) - 1)] = d
    BY <1>3, <1>5 DEF Slots
  <2>4. d \in Data
    BY <1>2 DEF IvcInv, TypeOK
  <2>5. Append(InFlight(e), d) = [i \in 1 .. n + 1 |-> IF i = n + 1 THEN d ELSE InFlight(e)[i]]
    BY <1>3, <2>4, FramesSeq
  <2>6. \A i \in 1 .. n + 1 : frame[e][Wrap((First(e, n) + i) - 1)]
                            = IF i = n + 1 THEN d ELSE InFlight(e)[i]
    BY <1>3, <2>2, <2>3
  <2> QED
    BY <2>1, <2>5, <2>6
<1>8. InFlight(Peer(e))' = InFlight(Peer(e))
  BY <1>1, <1>6 DEF InFlight, FramesBetween, Frames, First, ivc_channel_avail_count
<1>9. d \in Data /\ Len(InFlight(e)) < NFrames
  BY <1>2, <1>3, FramesSeq DEF IvcInv, TypeOK
<1>10. Fifo!Publish(e, d)
  BY <1>7, <1>8, <1>9, ZenonT(60) DEF Fifo!Publish
<1> QED
  BY <1>9, <1>10 DEF Fifo!Next

\* ivc_advance_rx frees the oldest frame in flight, if a reset has not
\* discarded it.
LEMMA FreeFlight ==
    ASSUME IvcInv, NEW e \in Ends, ivc_advance_rx(e)
    PROVE  Fifo!Next
<1> USE PeerLemma, FramesAssumption
<1> DEFINE p == Peer(e)
           n == ivc_channel_avail_count(p)
<1>1. /\ UNCHANGED <<w_count, frame, w_pos, state>>
      /\ \A f \in Ends : Changing(f)' = Changing(f)
      /\ Reading(e)
      /\ r_count'[p] = r_count[p] /\ r_pos'[p] = r_pos[p]
      /\ r_pos'[e] = Inc(r_pos[e], NFrames)
    BY DEF ivc_advance_rx, Goto, handshake, Changing, Reading, IvcInv, TypeOK
<1>2. n \in 1 .. NFrames /\ r_pos[e] \in Slots /\ w_pos[p] \in Slots
  BY <1>1 DEF IvcInv, TypeOK, CheckStaysValid
<1>4. n' = n - 1
  BY <1>2, SubLemma DEF ivc_advance_rx, IvcInv, TypeOK, ivc_channel_avail_count
<1>6. \A f \in Ends : Live(f)' = Live(f)
  BY <1>1 DEF Live, InUse
<1>8. InFlight(e)' = InFlight(e)
  BY <1>1, <1>6 DEF InFlight, FramesBetween, Frames, First, ivc_channel_avail_count
<1>9. CASE ~Live(p)
  <2>1. InFlight(p)' = InFlight(p)
    BY <1>6, <1>9 DEF InFlight
  <2> QED
    BY <1>8, <2>1, DiscardLemma
<1>10. CASE Live(p)
  <2>1. First(p, n) \in Slots /\ InFlight(p) \in [1 .. n -> Data]
    BY <1>10, FlightLemma
  <2>2. First(p, n)' = Wrap(First(p, n) + 1)
    BY <1>1, <1>2, <1>4 DEF First, Wrap, Slots, Inc
  <2>3. InFlight(p)' = [i \in 1 .. n - 1 |-> frame[p][Wrap((Wrap(First(p, n) + 1) + i) - 1)]]
    BY <1>1, <1>4, <1>6, <1>10, <2>2 DEF InFlight, FramesBetween, Frames
  <2>4. InFlight(p) = [i \in 1 .. n |-> frame[p][Wrap((First(p, n) + i) - 1)]]
    BY <1>10 DEF InFlight, FramesBetween, Frames
  <2>5. \A i \in 1 .. n - 1 : Wrap((Wrap(First(p, n) + 1) + i) - 1) = Wrap((First(p, n) + (i + 1)) - 1)
    BY <1>2, <2>1 DEF Wrap, Slots
  <2>6. InFlight(p) # <<>> /\ Tail(InFlight(p)) = [i \in 1 .. n - 1 |-> InFlight(p)[i + 1]]
    <3>1. n \in Nat \ {0}
      BY <1>2
    <3>2. \A m \in Nat \ {0} : \A s \in [1 .. m -> Data] :
            s # <<>> /\ Tail(s) = [i \in 1 .. m - 1 |-> s[i + 1]]
      BY FramesTail
    <3> HIDE DEF n, p
    <3> QED
      BY <2>1, <3>1, <3>2, Zenon
  <2>7. InFlight(p)' = Tail(InFlight(p))
    BY <1>2, <2>3, <2>4, <2>5, <2>6
  <2>8. Fifo!Free(p)
    BY <1>8, <2>6, <2>7 DEF Fifo!Free
  <2> QED
    BY <2>8 DEF Fifo!Next
<1> QED
  BY <1>9, <1>10

\* A reset, or the start of a handshake step, keeps or discards what is in flight.
LEMMA ResetFlight ==
    ASSUME IvcInv, AckUnread, NEW e \in Ends, tegra_ivc_channel_reset(e)
    PROVE  \A f \in Ends : InFlight(f)' = InFlight(f) \/ InFlight(f)' = <<>>
<1> USE PeerLemma, FramesAssumption
<1> DEFINE p == Peer(e)
           n == ivc_channel_avail_count(e)
<1>1. /\ UNCHANGED <<w_count, r_count, frame>>
      /\ state'[e] = "sync" /\ state'[p] = state[p]
      /\ ~Changing(e)' /\ Changing(p)' = Changing(p)
      /\ w_pos'[p] = w_pos[p] /\ r_pos'[p] = r_pos[p]
  BY DEF tegra_ivc_channel_reset, IvcInv, TypeOK, Changing
<1>2. ~InUse(e)' /\ InUse(p)' = InUse(p)
  BY <1>1 DEF InUse
<1>3. InFlight(p)' = InFlight(p) \/ InFlight(p)' = <<>>
  <2>1. CASE InUse(p)
    BY <1>1, <1>2, <2>1
    DEF InFlight, Live, InUse, FramesBetween, Frames, First, ivc_channel_avail_count
  <2>2. CASE ~InUse(p)
    BY <1>2, <2>2 DEF InFlight, Live
  <2> QED
    BY <2>1, <2>2
<1>4. InFlight(e)' = InFlight(e) \/ InFlight(e)' = <<>>
  <2>1. CASE ~InUse(p)
    BY <1>2, <2>1 DEF InFlight, Live
  <2>2. CASE InUse(p)
    <3>1. /\ Live(e)' /\ n' = n /\ First(e, n)' = r_pos[p]
          /\ InFlight(e)' = Frames(e, r_pos[p], n)
      BY <1>1, <1>2, <2>2
      DEF InFlight, FramesBetween, Live, First, Frames, ivc_channel_avail_count
    <3>2. CASE state[e] = "ack"
      <4>1. n = 0
        BY <2>2, <3>2 DEF IvcInv, ClearedSoFar, AckUnread, InUse, ivc_channel_avail_count, Sub
      <4> QED
        BY <3>1, <4>1 DEF Frames
    <3>3. CASE state[e] = "sync"
      <4>1. ~Changing(e)
        BY <2>2, <3>3 DEF IvcInv, SampleStaysValid, InUse
      <4> QED
        BY <2>2, <3>1, <3>3, <4>1 DEF InFlight, FramesBetween, Live, First
    <3>4. CASE state[e] = "established"
      <4>1. InUse(e) /\ Matching(e) /\ Live(e)
        BY <2>2, <3>4 DEF IvcInv, SampleStaysValid, RingsInUse, InUse, Live
      <4>2. n \in 0 .. NFrames /\ InFlight(e) = Frames(e, First(e, n), n)
        BY <4>1, FlightLemma DEF InFlight, FramesBetween
      <4>3. w_pos[e] \in Slots /\ r_pos[p] \in Slots
        BY DEF IvcInv, TypeOK
      <4>4. n = 0 \/ First(e, n) = r_pos[p]
        BY <3>4, <4>1, <4>2, <4>3 DEF First, Matching, Wrap, Slots
      <4>5. CASE n = 0
        BY <3>1, <4>5 DEF Frames
      <4> QED
        BY <3>1, <4>2, <4>4, <4>5
    <3> QED
      BY <3>2, <3>3, <3>4 DEF IvcInv, TypeOK, States
  <2> QED
    BY <2>1, <2>2
<1> QED
  BY <1>3, <1>4

\* The same of a branch of tegra_ivc_channel_notified.
LEMMA NotifiedFlight ==
    ASSUME IvcInv, NEW e \in Ends, tegra_ivc_channel_notified(e)
    PROVE  \A f \in Ends : InFlight(f)' = InFlight(f) \/ InFlight(f)' = <<>>
<1> USE PeerLemma
<1>1. /\ UNCHANGED <<w_count, r_count, frame, w_pos, r_pos, state>>
      /\ ~Changing(e) /\ Changing(Peer(e))' = Changing(Peer(e))
  BY DEF tegra_ivc_channel_notified, Begin, IvcInv, TypeOK, Changing
<1>2. \A f \in Ends : Live(f)' => Live(f)
  BY <1>1 DEF Live, InUse
<1>3. \A f \in Ends : FramesBetween(f, ivc_channel_avail_count(f))'
                      = FramesBetween(f, ivc_channel_avail_count(f))
  BY <1>1 DEF FramesBetween, Frames, First, ivc_channel_avail_count
<1> QED
  BY <1>2, <1>3 DEF InFlight

\* The counters that are cleared delimit nothing in flight.
LEMMA ClearFlight ==
    ASSUME IvcInv, NEW e \in Ends, ClearCounter(e)
    PROVE  \A f \in Ends : InFlight(f)' = InFlight(f)
<1> USE PeerLemma
<1> DEFINE p == Peer(e)
<1>1. /\ UNCHANGED <<frame, state>>
      /\ Changing(e) /\ Changing(e)' /\ Changing(p)' = Changing(p)
      /\ w_count'[p] = w_count[p] /\ w_pos'[p] = w_pos[p]
  BY DEF ClearCounter, IvcInv, TypeOK, Changing
<1>2. ~Live(e) /\ ~Live(e)'
  BY <1>1 DEF Live, InUse
<1>3. Live(p) \/ Live(p)' => InUse(p) /\ InUse(p)'
  BY <1>1 DEF Live, InUse
<1>4. InUse(p) => UNCHANGED r_count
  BY <1>1 DEF ClearCounter, IvcInv, TypeOK, States, ClearedSoFar, SampleStaysValid, InUse
<1>5. InFlight(p)' = InFlight(p)
  <2>1. CASE InUse(p) /\ InUse(p)'
    BY <1>1, <1>4, <2>1
    DEF InFlight, Live, InUse, FramesBetween, Frames, First, ivc_channel_avail_count
  <2>2. CASE ~Live(p) /\ ~Live(p)'
    BY <2>2 DEF InFlight
  <2> QED
    BY <1>3, <2>1, <2>2
<1> QED
  BY <1>2, <1>5 DEF InFlight

\* An end that becomes established has nothing in flight yet.
LEMMA StoreFlight ==
    ASSUME IvcInv, AckUnread, NEW e \in Ends, StoreState(e)
    PROVE  \A f \in Ends : InFlight(f)' = InFlight(f) \/ InFlight(f)' = <<>>
<1> USE PeerLemma
<1> DEFINE p == Peer(e)
           n == ivc_channel_avail_count(e)
<1>1. /\ UNCHANGED <<w_count, r_count, frame, w_pos, r_pos>>
      /\ Changing(e) /\ ~Changing(e)' /\ Changing(p)' = Changing(p) /\ todo[e] = {}
      /\ state'[e] = target[e] /\ state'[p] = state[p]
  BY DEF StoreState, Goto, IvcInv, TypeOK, ClearedSoFar, Changing
<1>2. target[e] \in {"ack", "established"} /\ w_count[e] = 0
  BY <1>1 DEF IvcInv, TypeOK, States, ClearedSoFar
<1>3. target[e] = "established" => /\ state[p] # "sync"
                                   /\ state[p] = "established" => state[e] = "ack"
  BY <1>1 DEF IvcInv, TypeOK, States, SampleStaysValid, ToEstablished
<1>4. InFlight(e)' = <<>>
  <2>1. CASE target[e] = "ack"
    BY <1>1, <2>1 DEF InFlight, Live, InUse
  <2>2. CASE target[e] = "established"
    <3>1. r_count[p] = 0
      BY <1>3, <2>2 DEF IvcInv, TypeOK, States, ClearedSoFar, AckUnread
    <3>2. n' = 0
      BY <1>1, <1>2, <3>1 DEF ivc_channel_avail_count, Sub
    <3>3. FramesBetween(e, n)' = <<>>
      BY <3>2 DEF FramesBetween, Frames
    <3> QED
      BY <3>3 DEF InFlight
  <2> QED
    BY <1>2, <2>1, <2>2
<1>5. InFlight(p)' = InFlight(p)
  <2>1. CASE InUse(p)
    BY <1>1, <2>1 DEF InFlight, Live, InUse, FramesBetween, Frames, First, ivc_channel_avail_count
  <2>2. CASE ~InUse(p)
    <3>1. ~Live(p) /\ ~Live(p)'
      BY <1>1, <1>2, <1>3, <2>2 DEF Live, InUse
    <3> QED
      BY <3>1 DEF InFlight
  <2> QED
    BY <2>1, <2>2
<1> QED
  BY <1>4, <1>5

\* Every step of the channel is a step of the two queues, or leaves them alone.
LEMMA FifoStep ==
    ASSUME IvcInv, AckUnread, [Next]_vars
    PROVE  [Fifo!Next]_[e \in Ends |-> InFlight(e)]
<1> USE PeerLemma
<1>1. ASSUME UNCHANGED <<w_count, r_count, frame, w_pos, r_pos, state>>,
             \A f \in Ends : Changing(f)' = Changing(f)
      PROVE  Fifo!Next
  BY <1>1, SameFlight, DiscardLemma
<1>2. CASE UNCHANGED vars
  BY <1>1, <1>2 DEF vars, Changing
<1>3. ASSUME NEW e \in Ends, WriteCheck(e) PROVE Fifo!Next
  BY <1>1, <1>3 DEF WriteCheck, Goto, handshake, Changing, IvcInv, TypeOK
<1>4. ASSUME NEW e \in Ends, ReadCheck(e) PROVE Fifo!Next
  BY <1>1, <1>4 DEF ReadCheck, Goto, handshake, Changing, IvcInv, TypeOK
<1>5. ASSUME NEW e \in Ends, tegra_ivc_channel_reset(e) PROVE Fifo!Next
  BY <1>5, ResetFlight, DiscardLemma
<1>6. ASSUME NEW e \in Ends, tegra_ivc_channel_notified(e) PROVE Fifo!Next
  BY <1>6, NotifiedFlight, DiscardLemma
<1>7. ASSUME NEW e \in Ends, WriteCopy(e) PROVE Fifo!Next
  BY <1>7, CopyFlight, DiscardLemma
<1>8. ASSUME NEW e \in Ends, ivc_advance_tx(e) PROVE Fifo!Next
  BY <1>8, PublishFlight
<1>9. ASSUME NEW e \in Ends, WriteNotify(e) PROVE Fifo!Next
  BY <1>1, <1>9 DEF WriteNotify, Goto, handshake, Changing, IvcInv, TypeOK
<1>10. ASSUME NEW e \in Ends, ReadCopy(e) PROVE Fifo!Next
  BY <1>1, <1>10 DEF ReadCopy, Goto, handshake, Changing, IvcInv, TypeOK
<1>11. ASSUME NEW e \in Ends, ivc_advance_rx(e) PROVE Fifo!Next
  BY <1>11, FreeFlight
<1>12. ASSUME NEW e \in Ends, ReadNotify(e) PROVE Fifo!Next
  BY <1>1, <1>12 DEF ReadNotify, Goto, handshake, Changing, IvcInv, TypeOK
<1>13. ASSUME NEW e \in Ends, ClearCounter(e) PROVE Fifo!Next
  BY <1>13, ClearFlight, DiscardLemma
<1>14. ASSUME NEW e \in Ends, StoreState(e) PROVE Fifo!Next
  BY <1>14, StoreFlight, DiscardLemma
<1>15. ASSUME NEW e \in Ends, Notify(e) PROVE Fifo!Next
  BY <1>1, <1>15 DEF Notify, Goto, handshake, Changing, IvcInv, TypeOK
<1> QED
  BY <1>2, <1>3, <1>4, <1>5, <1>6, <1>7, <1>8, <1>9, <1>10, <1>11, <1>12, <1>13, <1>14, <1>15
  DEF Next, Finish

\* Nothing is in flight on zeroed shared memory.
LEMMA FifoInit == Init => Fifo!Init
<1> SUFFICES ASSUME Init PROVE \A e \in Ends : InFlight(e) = <<>>
  BY DEF Fifo!Init
<1> TAKE e \in Ends
<1>1. ivc_channel_avail_count(e) = 0
  BY PeerLemma DEF Init, ivc_channel_avail_count, Sub
<1> QED
  BY <1>1 DEF InFlight, FramesBetween, Frames

\* The channel implements the bounded FIFO: whatever the interleaving of the two
\* ends, the counter wrap-around and the (safe) resets, no frame is reordered,
\* duplicated, altered or invented, and only a reset discards frames.
THEOREM ChannelIsFifo ==
    ASSUME ResetsAreSafe
    PROVE  Spec => IsFifo
<1>1. Init => AckUnread
  BY DEF Init, AckUnread
<1> QED
  BY <1>1, AckStep, FifoInit, FifoStep, Inductive, PTL DEF Spec, IsFifo, Fifo!Spec
=============================================================================
