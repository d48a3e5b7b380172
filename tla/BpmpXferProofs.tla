-------------------------- MODULE BpmpXferProofs --------------------------
(***************************************************************************)
(* For any number of calls, polls and timeouts: the calls are given the    *)
(* responses in the order of the requests, each at most once, and as long  *)
(* as no call has timed out each gets its own.                             *)
(***************************************************************************)
EXTENDS BpmpXfer, TLAPS

\* What the direction of a channel can hold.
Flight == {<<>>} \cup {<<n>> : n \in 0 .. MaxXfers}

\* A direction with a single frame is empty or holds its head only.
LEMMA OneFrame ==
  ASSUME NEW f \in Flight
  PROVE  /\ f # <<>> => Head(f) \in 0 .. MaxXfers /\ Tail(f) = <<>>
         /\ Len(f) < 1 <=> f = <<>>
         /\ \A d : f = <<>> => Append(f, d) = <<d>>
<1>1. CASE f = <<>>
  <2>1. \A d : Append(<<>>, d) = <<d>>
    OBVIOUS
  <2>. QED  BY <1>1, <2>1
<1>2. ASSUME NEW n \in 0 .. MaxXfers, f = <<n>>
      PROVE  Head(f) \in 0 .. MaxXfers /\ Tail(f) = <<>> /\ Len(f) = 1 /\ f # <<>>
  BY <1>2
<1>. QED  BY <1>1, <1>2 DEF Flight

\* The invariant holds initially, whatever the previous boot stage left.
LEMMA XferInit == Init => XferInv
<1> SUFFICES ASSUME Init PROVE XferInv
  OBVIOUS
<1>1. TypeOK
  <2>1. q \in [Ends -> Flight]
    BY XferBounds DEF Init, Flight, None
  <2>2. result \in [Serials -> {"pending", "failed"} \X {None} \cup {"ok"} \X (0 .. MaxXfers)]
    BY DEF Init
  <2>3. 0 \in 0 .. MaxXfers /\ 0 \in 0 .. MaxPolls /\ 0 \in 0 .. MaxTimeouts
    BY XferBounds
  <2>. QED  BY <2>1, <2>2, <2>3 DEF Init, TypeOK, Flight, None
<1>2. Succeeded = {}
  BY DEF Init, Succeeded
<1>3. CallsInOrder /\ FlightInOrder /\ OneInFlight
  BY DEF Init, CallsInOrder, FlightInOrder, OneInFlight, Waiting
<1>4. AnswersInOrder /\ InStepUntilTimeout
  BY <1>2 DEF AnswersInOrder, InStepUntilTimeout, AnswerMatches
<1>. QED  BY <1>1, <1>3, <1>4 DEF XferInv

\* Every step of the caller and of the firmware preserves the types.
LEMMA XferTypes == ASSUME TypeOK, CallsInOrder, [Next]_vars PROVE TypeOK'
<1> USE XferBounds DEF TypeOK, Ends, Serials, None
<1> DEFINE Results == {"pending", "failed"} \X {None} \cup {"ok"} \X (0 .. MaxXfers)
<1>q. \A e \in Ends : q[e] \in Flight
  BY DEF Flight
<1>1. CASE tegrabl_connect_bpmp
  BY <1>1 DEF tegrabl_connect_bpmp, Ivc!Discard
<1>2. CASE tegrabl_ccplex_bpmp_xfer
  <2>1. serial' \in 1 .. MaxXfers
    BY <1>2 DEF tegrabl_ccplex_bpmp_xfer
  <2>2. CASE Ivc!Publish("ccplex", serial') /\ UNCHANGED result
             /\ pc' = "wait_for_slave_ack" /\ timeout' = MaxPolls
    <3>1. q' = [q EXCEPT !["ccplex"] = <<serial'>>]
      BY <2>2, <1>q, OneFrame DEF Ivc!Publish
    <3>. QED  BY <1>2, <2>1, <2>2, <3>1 DEF tegrabl_ccplex_bpmp_xfer
  <2>3. CASE result' = [result EXCEPT ![serial'] = <<"failed", None>>]
             /\ UNCHANGED <<q, pc, timeout>>
    BY <1>2, <2>1, <2>3 DEF tegrabl_ccplex_bpmp_xfer
  <2>. QED  BY <1>2, <2>2, <2>3 DEF tegrabl_ccplex_bpmp_xfer
<1>3. CASE tegrabl_ccplex_bpmp_wait_for_slave_ack
  BY <1>3 DEF tegrabl_ccplex_bpmp_wait_for_slave_ack, Return, CallsInOrder, Waiting
<1>4. CASE CopyIn
  BY <1>4, <1>q, OneFrame DEF CopyIn, CallsInOrder
<1>5. CASE tegrabl_ccplex_bpmp_free_master
  <2>1. q' = [q EXCEPT !["bpmp"] = <<>>]
    BY <1>5, <1>q, OneFrame DEF tegrabl_ccplex_bpmp_free_master, Ivc!Free
  <2>. QED  BY <1>5, <2>1 DEF tegrabl_ccplex_bpmp_free_master, Return, CallsInOrder, Waiting
<1>6. CASE BpmpUp
  BY <1>6 DEF BpmpUp
<1>7. CASE BpmpTake
  <2>1. q' = [q EXCEPT !["ccplex"] = <<>>] /\ serving' \in 0 .. MaxXfers
    BY <1>7, <1>q, OneFrame DEF BpmpTake, Ivc!Free
  <2>. QED  BY <1>7, <2>1 DEF BpmpTake
<1>8. CASE BpmpReply
  <2>1. q' = [q EXCEPT !["bpmp"] = <<serving>>]
    BY <1>8, <1>q, OneFrame DEF BpmpReply, Ivc!Publish
  <2>. QED  BY <1>8, <2>1 DEF BpmpReply
<1>9. CASE UNCHANGED vars
  BY <1>9 DEF vars
<1>. QED  BY <1>1, <1>2, <1>3, <1>4, <1>5, <1>6, <1>7, <1>8, <1>9 DEF Next, Caller

\* Every step keeps the calls in order.
LEMMA XferCalls == ASSUME TypeOK, CallsInOrder, [Next]_vars PROVE CallsInOrder'
<1> USE XferBounds DEF CallsInOrder, Waiting, TypeOK, Ends, Serials
<1>q. \A e \in Ends : q[e] \in Flight
  BY DEF Flight
<1>1. CASE tegrabl_connect_bpmp
  BY <1>1 DEF tegrabl_connect_bpmp, Ivc!Discard
<1>2. CASE tegrabl_ccplex_bpmp_xfer
  BY <1>2 DEF tegrabl_ccplex_bpmp_xfer, Ivc!Publish
<1>3. CASE tegrabl_ccplex_bpmp_wait_for_slave_ack
  BY <1>3 DEF tegrabl_ccplex_bpmp_wait_for_slave_ack, Return
<1>4. CASE CopyIn
  BY <1>4 DEF CopyIn
<1>5. CASE tegrabl_ccplex_bpmp_free_master
  BY <1>5 DEF tegrabl_ccplex_bpmp_free_master, Return, Ivc!Free
<1>6. CASE BpmpUp
  BY <1>6 DEF BpmpUp
<1>7. CASE BpmpTake
  BY <1>7 DEF BpmpTake, Ivc!Free
<1>8. CASE BpmpReply
  <2>1. q["bpmp"] = <<>>
    BY <1>8, <1>q, OneFrame DEF BpmpReply, Ivc!Publish
  <2>. QED  BY <1>8, <2>1 DEF BpmpReply, Ivc!Publish
<1>9. CASE UNCHANGED vars
  BY <1>9 DEF vars
<1>. QED  BY <1>1, <1>2, <1>3, <1>4, <1>5, <1>6, <1>7, <1>8, <1>9 DEF Next, Caller

\* No answer is given to a call not yet made, or for one.
LEMMA AnsweredSoFar ==
  ASSUME TypeOK, CallsInOrder, AnswersInOrder, NEW n \in Succeeded
  PROVE  n \in 1 .. serial /\ result[n][2] \in 1 .. serial
  BY XferBounds DEF TypeOK, CallsInOrder, AnswersInOrder, Succeeded, Serials

\* A step that returns no response leaves the answers as they are: it changes no
\* result, or a pending one to a failure.
SameAnswers ==
  \/ UNCHANGED result
  \/ \E n \in Serials : /\ result[n] = <<"pending", None>>
                        /\ result' = [result EXCEPT ![n] = <<"failed", None>>]

\* Such a step answers no request, and keeps the order of the answers.
LEMMA AnswersKept ==
  ASSUME TypeOK, SameAnswers, serial' \in Nat, serial' >= serial
  PROVE  /\ Succeeded' = Succeeded
         /\ \A n \in Succeeded : result'[n] = result[n]
         /\ AnswersInOrder => AnswersInOrder'
         /\ AnswerMatches => AnswerMatches'
         /\ \A r : Unanswered(r) => Unanswered(r)'
<1>1. Succeeded' = Succeeded /\ \A n \in Succeeded : result'[n] = result[n]
  BY DEF SameAnswers, Succeeded, TypeOK
<1>. QED  BY <1>1 DEF AnswersInOrder, AnswerMatches, Unanswered, TypeOK

\* A call that returns a response adds one answer.
LEMMA AnswerAdded ==
  ASSUME TypeOK, serial \in Serials, result' = [result EXCEPT ![serial] = <<"ok", p_in>>]
  PROVE  \A n \in Succeeded' :
           \/ n = serial /\ result'[n][2] = p_in
           \/ n \in Succeeded /\ result'[n] = result[n]
<1>1. DOMAIN result = Serials
  BY DEF TypeOK
<1>2. /\ result'[serial] = <<"ok", p_in>>
      /\ \A n \in Serials : n # serial => result'[n] = result[n]
  BY <1>1
<1>. QED  BY <1>2 DEF Succeeded

\* Every step keeps what is in flight in the order of the requests.
LEMMA XferFlight == ASSUME XferInv, [Next]_vars PROVE FlightInOrder'
<1> USE XferBounds DEF XferInv, FlightInOrder
<1>q. \A e \in Ends : q[e] \in Flight
  BY DEF Flight, TypeOK
<1>1. CASE tegrabl_connect_bpmp
  BY <1>1 DEF tegrabl_connect_bpmp, Ivc!Discard, Ends, CallsInOrder
<1>2. CASE tegrabl_ccplex_bpmp_xfer
  <2> USE <1>2 DEF tegrabl_ccplex_bpmp_xfer
  <2>1. serial \in Nat /\ serial' = serial + 1 /\ serial' \in Serials
    BY DEF TypeOK, Serials
  <2>2. SameAnswers
    BY <2>1 DEF SameAnswers, CallsInOrder
  <2>3. \A r : Unanswered(r) => Unanswered(r)'
    BY <2>1, <2>2, AnswersKept
  <2>4. CASE UNCHANGED q
    BY <2>3, <2>4
  <2>5. CASE Ivc!Publish("ccplex", serial')
    <3>1. q' = [q EXCEPT !["ccplex"] = <<serial'>>]
      BY <2>5, <1>q, OneFrame DEF Ivc!Publish, Ends
    <3>2. q'["bpmp"] = q["bpmp"] /\ q'["ccplex"] # <<>> /\ Head(q'["ccplex"]) = serial'
      BY <3>1 DEF TypeOK, Ends
    <3>3. \A n \in Succeeded : result[n][2] \in 1 .. serial
      BY AnsweredSoFar
    <3>4. Unanswered(serial)'
      BY <2>1, <2>2, <3>3, AnswersKept DEF Unanswered
    <3>5. \A r : Unanswered(r) => r < serial'
      BY <2>1 DEF Unanswered
    <3>. QED  BY <2>3, <3>2, <3>4, <3>5
  <2>. QED  BY <2>4, <2>5
<1>3. CASE tegrabl_ccplex_bpmp_wait_for_slave_ack
  <2> USE <1>3 DEF tegrabl_ccplex_bpmp_wait_for_slave_ack
  <2>1. SameAnswers
    BY DEF SameAnswers, CallsInOrder, Waiting, Return, TypeOK, Serials
  <2>2. \A r : Unanswered(r) => Unanswered(r)'
    BY <2>1, AnswersKept DEF TypeOK
  <2>. QED  BY <2>2
<1>4. CASE CopyIn
  <2>1. \A r : Unanswered(r) => Unanswered(r)'
    BY <1>4, AnswersKept DEF SameAnswers, CopyIn, TypeOK
  <2>. QED  BY <1>4, <2>1 DEF CopyIn
<1>5. CASE tegrabl_ccplex_bpmp_free_master
  <2> USE <1>5 DEF tegrabl_ccplex_bpmp_free_master, Return
  <2>1. q' = [q EXCEPT !["bpmp"] = <<>>]
    BY <1>q, OneFrame DEF Ivc!Free, Ends
  <2>2. q'["bpmp"] = <<>> /\ q'["ccplex"] = q["ccplex"]
    BY <2>1 DEF TypeOK, Ends
  <2>3. serial \in Serials /\ p_in = Head(q["bpmp"])
    BY DEF CallsInOrder, Waiting, TypeOK, Serials
  <2>4. \A n \in Succeeded' :
          \/ n = serial /\ result'[n][2] = p_in
          \/ n \in Succeeded /\ result'[n] = result[n]
    BY <2>3, AnswerAdded
  <2>5. \A r : Unanswered(r) /\ p_in < r => Unanswered(r)'
    BY <2>4 DEF Unanswered
  <2>. QED  BY <2>2, <2>3, <2>5 DEF CallsInOrder
<1>6. CASE BpmpUp
  <2>1. \A r : Unanswered(r) => Unanswered(r)'
    BY <1>6, AnswersKept DEF SameAnswers, BpmpUp, TypeOK
  <2>. QED  BY <1>6, <2>1 DEF BpmpUp
<1>7. CASE BpmpTake
  <2> USE <1>7 DEF BpmpTake
  <2>1. \A r : Unanswered(r) => Unanswered(r)'
    BY AnswersKept DEF SameAnswers, TypeOK
  <2>2. q' = [q EXCEPT !["ccplex"] = <<>>]
    BY <1>q, OneFrame DEF Ivc!Free, Ends
  <2>3. q'["ccplex"] = <<>> /\ q'["bpmp"] = q["bpmp"]
    BY <2>2 DEF TypeOK, Ends
  <2>. QED  BY <2>1, <2>3
<1>8. CASE BpmpReply
  <2> USE <1>8 DEF BpmpReply
  <2>1. \A r : Unanswered(r) => Unanswered(r)'
    BY AnswersKept DEF SameAnswers, TypeOK
  <2>2. q' = [q EXCEPT !["bpmp"] = <<serving>>]
    BY <1>q, OneFrame DEF Ivc!Publish, Ends
  <2>3. q'["ccplex"] = q["ccplex"] /\ q'["bpmp"] # <<>> /\ Head(q'["bpmp"]) = serving
    BY <2>2 DEF TypeOK, Ends
  <2>. QED  BY <2>1, <2>3
<1>9. CASE UNCHANGED vars
  <2>1. \A r : Unanswered(r) => Unanswered(r)'
    BY <1>9, AnswersKept DEF SameAnswers, vars, TypeOK
  <2>. QED  BY <1>9, <2>1 DEF vars
<1>. QED  BY <1>1, <1>2, <1>3, <1>4, <1>5, <1>6, <1>7, <1>8, <1>9 DEF Next, Caller

\* Every step keeps a single request in flight, until a call times out.
LEMMA XferOne == ASSUME XferInv, [Next]_vars PROVE OneInFlight'
<1> USE XferBounds DEF XferInv, OneInFlight, Ends
<1>q. \A e \in Ends : q[e] \in Flight
  BY DEF Flight, TypeOK
<1>1. CASE tegrabl_connect_bpmp
  BY <1>1 DEF tegrabl_connect_bpmp, Ivc!Discard, CallsInOrder
<1>2. CASE tegrabl_ccplex_bpmp_xfer
  <2> USE <1>2 DEF tegrabl_ccplex_bpmp_xfer
  <2> SUFFICES ASSUME timeouts = 0 PROVE OneInFlight'
    OBVIOUS
  <2>1. serving = None /\ q["ccplex"] = <<>> /\ q["bpmp"] = <<>>
    OBVIOUS
  <2>2. Len(q["ccplex"]) # 1
    BY <2>1
  <2>3. q' = [q EXCEPT !["ccplex"] = <<serial'>>]
    BY <1>q, <2>2, OneFrame DEF Ivc!Publish
  <2>4. q'["bpmp"] = <<>> /\ Head(q'["ccplex"]) = serial'
    BY <2>1, <2>3 DEF TypeOK
  <2>. QED  BY <2>1, <2>2, <2>4
<1>3. CASE tegrabl_ccplex_bpmp_wait_for_slave_ack
  BY <1>3 DEF tegrabl_ccplex_bpmp_wait_for_slave_ack, Return, TypeOK
<1>4. CASE CopyIn
  BY <1>4 DEF CopyIn
<1>5. CASE tegrabl_ccplex_bpmp_free_master
  <2> USE <1>5 DEF tegrabl_ccplex_bpmp_free_master, Return
  <2>1. q' = [q EXCEPT !["bpmp"] = <<>>]
    BY <1>q, OneFrame DEF Ivc!Free
  <2>2. q'["bpmp"] = <<>> /\ q'["ccplex"] = q["ccplex"]
    BY <2>1 DEF TypeOK
  <2>3. q["bpmp"] # <<>> /\ serial \in Nat
    BY DEF CallsInOrder, TypeOK
  <2>4. timeouts = 0 => serving = None /\ q["ccplex"] = <<>>
    BY <2>3 DEF FlightInOrder
  <2>. QED  BY <2>2, <2>4
<1>6. CASE BpmpUp
  BY <1>6 DEF BpmpUp
<1>7. CASE BpmpTake
  <2>2. q' = [q EXCEPT !["ccplex"] = <<>>]
    BY <1>7, <1>q, OneFrame DEF BpmpTake, Ivc!Free
  <2>3. q'["ccplex"] = <<>> /\ q'["bpmp"] = q["bpmp"]
    BY <2>2 DEF TypeOK
  <2>. QED  BY <1>7, <2>3 DEF BpmpTake
<1>8. CASE BpmpReply
  <2>2. q' = [q EXCEPT !["bpmp"] = <<serving>>]
    BY <1>8, <1>q, OneFrame DEF BpmpReply, Ivc!Publish
  <2>3. q'["ccplex"] = q["ccplex"] /\ q'["bpmp"] # <<>> /\ Head(q'["bpmp"]) = serving
    BY <2>2 DEF TypeOK
  <2>4. pc # "connect"
    BY <1>8 DEF BpmpReply, CallsInOrder
  <2>. QED  BY <1>8, <2>3, <2>4 DEF BpmpReply
<1>9. CASE UNCHANGED vars
  BY <1>9 DEF vars
<1>. QED  BY <1>1, <1>2, <1>3, <1>4, <1>5, <1>6, <1>7, <1>8, <1>9 DEF Next, Caller

\* Every step keeps the answers in order, and matching until a timeout.
LEMMA XferAnswers == ASSUME XferInv, [Next]_vars PROVE AnswersInOrder' /\ InStepUntilTimeout'
<1> USE XferBounds DEF XferInv
<1>1. CASE SameAnswers /\ serial' \in Nat /\ serial' >= serial /\ (timeouts' = 0 => timeouts = 0)
  BY <1>1, AnswersKept DEF InStepUntilTimeout
<1>2. CASE tegrabl_ccplex_bpmp_free_master
  <2> USE <1>2 DEF tegrabl_ccplex_bpmp_free_master, Return
  <2>1. serial \in Serials /\ p_in = Head(q["bpmp"]) /\ q["bpmp"] # <<>> /\ pc # "connect"
    BY DEF CallsInOrder, Waiting, TypeOK, Serials
  <2>2. \A n \in Succeeded' :
          \/ n = serial /\ result'[n][2] = p_in
          \/ n \in Succeeded /\ result'[n] = result[n]
    BY <2>1, AnswerAdded
  <2>3. Unanswered(p_in)
    BY <2>1 DEF FlightInOrder
  <2>4. \A n \in Succeeded : n \in 1 .. serial /\ n # serial /\ result[n][2] \in 1 .. serial
    BY <2>1, AnsweredSoFar DEF CallsInOrder, Waiting, Succeeded
  <2>5. AnswersInOrder'
    <3>1. \A n \in Succeeded' : result'[n][2] \in 1 .. n
      BY <2>2, <2>3 DEF AnswersInOrder, Unanswered
    <3>2. ASSUME NEW m \in Succeeded', NEW n \in Succeeded', m < n
          PROVE  result'[m][2] < result'[n][2]
      <4>1. CASE n = serial
        BY <2>1, <2>2, <2>3, <2>4, <3>2, <4>1 DEF Unanswered, Serials
      <4>2. CASE n # serial
        BY <2>1, <2>2, <2>4, <3>2, <4>2 DEF AnswersInOrder, Serials
      <4>. QED  BY <4>1, <4>2
    <3>. QED  BY <3>1, <3>2 DEF AnswersInOrder
  <2>6. timeouts = 0 => p_in = serial
    BY <2>1 DEF OneInFlight, Ends
  <2>. QED  BY <2>2, <2>5, <2>6 DEF InStepUntilTimeout, AnswerMatches
<1>3. CASE ~tegrabl_ccplex_bpmp_free_master
  <2>1. serial \in Nat /\ timeouts \in Nat
    BY DEF TypeOK
  <2>2. CASE tegrabl_ccplex_bpmp_xfer
    BY <1>1, <2>1, <2>2 DEF tegrabl_ccplex_bpmp_xfer, SameAnswers, CallsInOrder, Serials
  <2>3. CASE tegrabl_ccplex_bpmp_wait_for_slave_ack
    BY <1>1, <2>1, <2>3 DEF tegrabl_ccplex_bpmp_wait_for_slave_ack, SameAnswers, CallsInOrder,
                            Waiting, Return, Serials, TypeOK
  <2>4. CASE UNCHANGED <<serial, result, timeouts>>
    BY <1>1, <2>1, <2>4 DEF SameAnswers
  <2>. QED
    BY <1>3, <2>2, <2>3, <2>4 DEF Next, Caller, tegrabl_connect_bpmp, CopyIn, BpmpUp, BpmpTake,
                                  BpmpReply, vars
<1>. QED  BY <1>2, <1>3

\* The inductive invariant of the request/response client.
THEOREM XferInductive == Spec => []XferInv
<1>1. XferInv /\ [Next]_vars => XferInv'
  BY XferTypes, XferCalls, XferFlight, XferOne, XferAnswers DEF XferInv
<1>. QED  BY <1>1, XferInit, PTL DEF Spec

\* However many calls of tegrabl_ccplex_bpmp_xfer time out, a response is handed
\* to at most one call, in the order of the requests, and never to a call made
\* before its request.
THEOREM ResponsesInOrder == Spec => []AnswersInOrder
<1>1. XferInv => AnswersInOrder
  BY DEF XferInv
<1>. QED  BY <1>1, XferInductive, PTL

\* Until wait_for_slave_ack gives up, every call gets the response to its own
\* request, although the frames carry nothing that tells them apart.
THEOREM OwnResponseUntilTimeout == Spec => []InStepUntilTimeout
<1>1. XferInv => InStepUntilTimeout
  BY DEF XferInv
<1>. QED  BY <1>1, XferInductive, PTL
=============================================================================
