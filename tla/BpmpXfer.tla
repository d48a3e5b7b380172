------------------------------ MODULE BpmpXfer ------------------------------
(***************************************************************************)
(* The request/response client of lib/ipc/tegrabl_bpmp_fw_interface.c on   *)
(* top of the IVC channel to the BPMP firmware.  The channel is used       *)
(* through what IvcFifo promises, with the single frame per direction that *)
(* tegrabl_connect_bpmp configures.  A request is identified by its serial *)
(* number, a response by the serial number of the request it answers; the  *)
(* frames of the code carry neither.  The firmware is external.            *)
(***************************************************************************)
EXTENDS Naturals, Sequences

CONSTANTS
    MaxXfers,      \* bound: calls of tegrabl_ccplex_bpmp_xfer
    MaxPolls,      \* TIMEOUT_RESPONSE_FROM_BPMP, in polls of the channel
    MaxTimeouts    \* bound: calls that time out

ASSUME XferBounds == MaxXfers \in Nat /\ MaxPolls \in Nat \ {0} /\ MaxTimeouts \in Nat

Serials == 1 .. MaxXfers
None == 0

VARIABLES
    q,          \* the channel: q["ccplex"] the requests, q["bpmp"] the responses
    ready,      \* the firmware lets CCPLEX ring its doorbell
    pc,         \* where the caller is: the two calls and their steps
    serial,     \* the request of the last call of tegrabl_ccplex_bpmp_xfer
    timeout,    \* polls left in wait_for_slave_ack
    p_in,       \* what was copied out of the in frame
    result,     \* result[n]: what call n returned, the response or "failed"
    serving,    \* the request the firmware is working on
    timeouts

vars == <<q, ready, pc, serial, timeout, p_in, result, serving, timeouts>>

Ends == {"ccplex", "bpmp"}
Ivc == INSTANCE IvcFifo WITH Data <- Serials \cup {None}, NFrames <- 1

TypeOK ==
    /\ q \in [Ends -> {<<>>} \cup {<<n>> : n \in 0 .. MaxXfers}]
    /\ ready \in BOOLEAN
    /\ pc \in {"connect", "idle", "wait_for_slave_ack", "copy_in", "free_master"}
    /\ serial \in 0 .. MaxXfers
    /\ timeout \in 0 .. MaxPolls
    /\ p_in \in 0 .. MaxXfers
    /\ result \in [Serials -> {"pending", "failed"} \X {None} \cup {"ok"} \X (0 .. MaxXfers)]
    /\ serving \in 0 .. MaxXfers
    /\ timeouts \in 0 .. MaxTimeouts

\* The previous boot stage may have left a response (None answers no request of
\* this stage) in the channel.
Init ==
    /\ q \in [Ends -> {<<>>, <<None>>}]
    /\ ready = FALSE
    /\ pc = "connect"
    /\ serial = 0 /\ timeout = 0 /\ p_in = None /\ timeouts = 0
    /\ result = [n \in Serials |-> <<"pending", None>>]
    /\ serving = None

Return(value) ==
    /\ result' = [result EXCEPT ![serial] = value]
    /\ pc' = "idle"

\* Mutant: the channel is used as the previous boot stage left it.
ConnectWithoutReset ==
    /\ pc = "connect" /\ ready
    /\ pc' = "idle"
    /\ UNCHANGED <<q, ready, serial, timeout, p_in, result, serving, timeouts>>

\* Wait, for ever if need be, until the doorbell is enabled; then reset the
\* channel and spin in tegra_ivc_channel_notified until it is established.
tegrabl_connect_bpmp ==
    /\ pc = "connect" /\ ready
    /\ Ivc!Discard(Ends)
    /\ pc' = "idle"
    /\ UNCHANGED <<ready, serial, timeout, p_in, result, serving, timeouts>>

\* Fill the next out frame and signal the slave; fail when there is none.
tegrabl_ccplex_bpmp_xfer ==
    /\ pc = "idle" /\ serial < MaxXfers
    /\ serial' = serial + 1
    /\ \/ /\ Ivc!Publish("ccplex", serial')
          /\ pc' = "wait_for_slave_ack" /\ timeout' = MaxPolls
          /\ UNCHANGED result
       \/ /\ Len(q["ccplex"]) = 1
          /\ result' = [result EXCEPT ![serial'] = <<"failed", None>>]
          /\ UNCHANGED <<q, pc, timeout>>
    /\ UNCHANGED <<ready, p_in, serving, timeouts>>

\* Mutant: the polls are not counted.
WaitForEver ==
    /\ pc = "wait_for_slave_ack"
    /\ q["bpmp"] # <<>> /\ pc' = "copy_in"
    /\ UNCHANGED <<q, ready, serial, timeout, p_in, result, serving, timeouts>>

\* One poll of the in channel: the frame that is there, whichever it is, is the
\* answer; after the last poll the call fails.
tegrabl_ccplex_bpmp_wait_for_slave_ack ==
    /\ pc = "wait_for_slave_ack"
    /\ \/ /\ q["bpmp"] # <<>>
          /\ pc' = "copy_in"
          /\ UNCHANGED <<timeout, result, timeouts>>
       \/ /\ q["bpmp"] = <<>> /\ timeout > 1
          /\ timeout' = timeout - 1
          /\ UNCHANGED <<pc, result, timeouts>>
       \/ /\ q["bpmp"] = <<>> /\ timeout = 1 /\ timeouts < MaxTimeouts
          /\ timeout' = 0 /\ timeouts' = timeouts + 1
          /\ Return(<<"failed", None>>)
    /\ UNCHANGED <<q, ready, serial, p_in, serving>>

\* memcpy(p_in, p->data, size_in).
CopyIn ==
    /\ pc = "copy_in"
    /\ p_in' = Head(q["bpmp"])
    /\ pc' = "free_master"
    /\ UNCHANGED <<q, ready, serial, timeout, result, serving, timeouts>>

\* Mutant: the frame is not freed.
KeepMaster ==
    /\ pc = "free_master"
    /\ Return(<<"ok", p_in>>)
    /\ UNCHANGED <<q, ready, serial, timeout, p_in, serving, timeouts>>

tegrabl_ccplex_bpmp_free_master ==
    /\ pc = "free_master"
    /\ Ivc!Free("bpmp")
    /\ Return(<<"ok", p_in>>)
    /\ UNCHANGED <<ready, serial, timeout, p_in, serving, timeouts>>

\* The firmware: it comes up, and answers each request it takes once.
BpmpUp ==
    /\ ~ready /\ ready' = TRUE
    /\ UNCHANGED <<q, pc, serial, timeout, p_in, result, serving, timeouts>>

BpmpTake ==
    /\ ready /\ pc # "connect" /\ serving = None /\ q["ccplex"] # <<>>
    /\ serving' = Head(q["ccplex"])
    /\ Ivc!Free("ccplex")
    /\ UNCHANGED <<ready, pc, serial, timeout, p_in, result, timeouts>>

BpmpReply ==
    /\ serving # None
    /\ Ivc!Publish("bpmp", serving)
    /\ serving' = None
    /\ UNCHANGED <<ready, pc, serial, timeout, p_in, result, timeouts>>

Caller ==
    \/ tegrabl_connect_bpmp \/ tegrabl_ccplex_bpmp_xfer
    \/ tegrabl_ccplex_bpmp_wait_for_slave_ack \/ CopyIn \/ tegrabl_ccplex_bpmp_free_master

Next == Caller \/ BpmpUp \/ BpmpTake \/ BpmpReply

Spec == Init /\ [][Next]_vars

\* The caller runs; the firmware comes up, but may stop answering.
FairSpec == Spec /\ WF_vars(Caller) /\ WF_vars(BpmpUp)

-----------------------------------------------------------------------------
Succeeded == {n \in Serials : result[n][1] = "ok"}

\* "response by bpmp (mrq) in case of successful IPC transaction": a call that
\* succeeds returns the response to its own request.
AnswerMatches == \A n \in Succeeded : result[n][2] = n

\* Whatever times out, a response is handed to at most one call, no call gets a
\* response older than an earlier call's, none gets the answer to a request not
\* yet made, and none gets what the previous boot stage left in the channel.
AnswersInOrder ==
    /\ \A n \in Succeeded : result[n][2] \in 1 .. n
    /\ \A m, n \in Succeeded : m < n => result[m][2] < result[n][2]

\* A call that timed out is the only way to get out of step.
InStepUntilTimeout == timeouts = 0 => AnswerMatches

-----------------------------------------------------------------------------
(* The inductive invariant behind the two properties above: what is in     *)
(* flight is in the order of the requests, younger than every answer given.*)

Waiting == pc \in {"wait_for_slave_ack", "copy_in", "free_master"}

\* A call is pending until it returns; no request is made before the reset of
\* the channel, and the frame that was copied out stays until it is freed.
CallsInOrder ==
    /\ pc = "connect" => serial = 0 /\ serving = None /\ timeouts = 0
    /\ Waiting => serial # 0 /\ result[serial] = <<"pending", None>>
    /\ \A n \in Serials : n > serial => result[n] = <<"pending", None>>
    /\ pc \in {"copy_in", "free_master"} => q["bpmp"] # <<>>
    /\ pc = "free_master" => p_in = Head(q["bpmp"])

\* r is a request of this boot stage, made so far and not yet answered.
Unanswered(r) == r \in 1 .. serial /\ \A n \in Succeeded : result[n][2] < r

\* A response is older than what the firmware works on, and that is older than
\* the request waiting for it.
FlightInOrder ==
    pc # "connect" =>
        /\ q["bpmp"] # <<>> =>
              /\ Unanswered(Head(q["bpmp"]))
              /\ serving # None => Head(q["bpmp"]) < serving
              /\ q["ccplex"] # <<>> => Head(q["bpmp"]) < Head(q["ccplex"])
        /\ serving # None =>
              /\ Unanswered(serving)
              /\ q["ccplex"] # <<>> => serving < Head(q["ccplex"])
        /\ q["ccplex"] # <<>> => Unanswered(Head(q["ccplex"]))

\* Until a call times out only the request of the present call is in flight.
OneInFlight ==
    timeouts = 0 /\ pc # "connect" =>
        /\ pc = "idle" => serving = None /\ \A e \in Ends : q[e] = <<>>
        /\ serving # None => serving = serial
        /\ \A e \in Ends : q[e] # <<>> => Head(q[e]) = serial

XferInv ==
    /\ TypeOK /\ CallsInOrder /\ FlightInOrder /\ OneInFlight
    /\ AnswersInOrder /\ InStepUntilTimeout

-----------------------------------------------------------------------------
\* A call returns even if the firmware stops answering.
XferReturns == pc # "idle" ~> pc = "idle"
=============================================================================
