------------------------------ MODULE TegraIvc ------------------------------
(***************************************************************************)
(* The inter-VM communication channel of lib/ipc/tegra-ivc.c: two ends,    *)
(* one ring of frames per direction, and the reset handshake that makes    *)
(* both ends restart from empty rings.                                     *)
(*                                                                         *)
(* Each end is one thread.  A call of the library is split at its accesses *)
(* to the shared headers and frames, so that the peer's accesses fall      *)
(* between any two of them; the memory barriers of the code keep those     *)
(* accesses in program order, except the two counters cleared between one  *)
(* pair of barriers, which may become visible in either order.             *)
(***************************************************************************)
EXTENDS Naturals, Sequences

CONSTANTS
    Ends,             \* the two ends of the channel
    Data,             \* what a frame can hold
    NFrames,          \* ivc->nframes
    CountMod,         \* 2^32: the counters are uint32_t
    MaxResets,        \* bound on the resets of a behaviour
    ResetFrom         \* the <<own, peer>> states in which an end may start a reset

States == {"established", "sync", "ack"}

ASSUME EndsAssumption ==
    \E a, b \in Ends : a # b /\ Ends = {a, b}
ASSUME DataAssumption == Data # {}
\* check_ivc_params: nframes * frame_size < 2^32, so the ring is never larger
\* than the range of the counters.
ASSUME FramesAssumption ==
    /\ NFrames \in Nat \ {0} /\ CountMod \in Nat /\ NFrames < CountMod
ASSUME ResetsAssumption == MaxResets \in Nat /\ ResetFrom \subseteq States \X States

Peer(e) == CHOOSE f \in Ends : f # e
Counts == 0 .. CountMod - 1
Slots == 0 .. NFrames - 1

VARIABLES
    \* Shared memory.  Each field is indexed by the end that writes it.
    w_count,   \* w_count[e] : tx_channel->w_count of e
    state,     \* state[e]   : tx_channel->state of e
    r_count,   \* r_count[e] : rx_channel->r_count of e
    frame,     \* frame[e]   : the frames of e's tx_channel
    bell,      \* bell[e]    : a notification to e that e has not handled yet
    \* struct ivc and the program counter, private to each end.
    w_pos, r_pos,
    pc,
    todo,      \* the counters that a handshake step has still to clear
    target,    \* the state that it stores once they are cleared
    resets

vars == <<w_count, state, r_count, frame, bell, w_pos, r_pos, pc, todo, target, resets>>

PcValues == {"idle", "wait_read", "wait_write",
             "write_copy", "poke_copy", "write_advance", "write_notify",
             "read_copy", "peek_copy", "read_advance", "read_notify",
             "clear", "store", "notify"}

TypeOK ==
    /\ w_count \in [Ends -> Counts]
    /\ r_count \in [Ends -> Counts]
    /\ state \in [Ends -> States]
    /\ frame \in [Ends -> [Slots -> Data]]
    /\ bell \in [Ends -> BOOLEAN]
    /\ w_pos \in [Ends -> Slots]
    /\ r_pos \in [Ends -> Slots]
    /\ pc \in [Ends -> PcValues]
    /\ todo \in [Ends -> SUBSET {"w", "r"}]
    /\ target \in [Ends -> States]
    /\ resets \in 0 .. MaxResets

-----------------------------------------------------------------------------
(* uint32_t arithmetic and the predicates on a channel header.  The        *)
(* channel of e is the one e transmits on.                                 *)

Inc(n, mod) == IF n = mod - 1 THEN 0 ELSE n + 1
Sub(m, n) == IF m >= n THEN m - n ELSE (m + CountMod) - n

ivc_channel_avail_count(e) == Sub(w_count[e], r_count[Peer(e)])

\* An over-full channel looks empty to the receiver ...
ivc_channel_empty(e) ==
    ivc_channel_avail_count(e) > NFrames \/ w_count[e] = r_count[Peer(e)]

\* Mutant: one frame too many.
ivc_channel_fullLate(e) == ivc_channel_avail_count(e) > NFrames

\* ... and full to the transmitter.
ivc_channel_full(e) == ivc_channel_avail_count(e) >= NFrames

\* Mutant: no test for an empty channel.
ivc_check_readEmpty(e) == state[e] = "established"

ivc_check_read(e) == state[e] = "established" /\ ~ivc_channel_empty(Peer(e))
ivc_check_write(e) == state[e] = "established" /\ ~ivc_channel_full(e)

\* tegra_ivc_init of both ends on zeroed shared memory.
Init ==
    /\ w_count = [e \in Ends |-> 0]
    /\ r_count = [e \in Ends |-> 0]
    /\ state = [e \in Ends |-> "established"]
    /\ \E d \in Data : frame = [e \in Ends |-> [i \in Slots |-> d]]
    /\ bell = [e \in Ends |-> FALSE]
    /\ w_pos = [e \in Ends |-> 0]
    /\ r_pos = [e \in Ends |-> 0]
    /\ pc = [e \in Ends |-> "idle"]
    /\ todo = [e \in Ends |-> {}]
    /\ target = [e \in Ends |-> "established"]
    /\ resets = 0

Goto(e, from, to) == pc[e] = from /\ pc' = [pc EXCEPT ![e] = to]

Ring(e) == bell' = [bell EXCEPT ![Peer(e)] = TRUE]

handshake == <<state, todo, target, resets>>

-----------------------------------------------------------------------------
(* Transmitting.                                                           *)

\* tegra_ivc_write, tegra_ivc_write_poke and tegra_ivc_write_advance check the
\* channel first; when it is full (-ENOMEM) the caller waits for a notification,
\* when it is being reset (-ECONNRESET) nothing happens.
WriteCheck(e) ==
    /\ \/ /\ ivc_check_write(e)
          /\ \E to \in {"write_copy", "poke_copy", "write_advance"} : Goto(e, "idle", to)
       \/ /\ state[e] = "established" /\ ivc_channel_full(e)
          /\ Goto(e, "idle", "wait_write")
    /\ UNCHANGED <<w_count, r_count, frame, bell, w_pos, r_pos, handshake>>

\* The memcpy of tegra_ivc_write, and that of tegra_ivc_write_poke.
WriteCopy(e) ==
    /\ Goto(e, "write_copy", "write_advance") \/ Goto(e, "poke_copy", "idle")
    /\ \E d \in Data : frame' = [frame EXCEPT ![e][w_pos[e]] = d]
    /\ UNCHANGED <<w_count, r_count, bell, w_pos, r_pos, handshake>>

\* Mutant: the write position stays.
ivc_advance_txStuck(e) ==
    /\ Goto(e, "write_advance", "write_notify")
    /\ w_count' = [w_count EXCEPT ![e] = Inc(@, CountMod)]
    /\ UNCHANGED <<r_count, frame, bell, w_pos, r_pos, handshake>>

ivc_advance_tx(e) ==
    /\ Goto(e, "write_advance", "write_notify")
    /\ w_count' = [w_count EXCEPT ![e] = Inc(@, CountMod)]
    /\ w_pos' = [w_pos EXCEPT ![e] = Inc(@, NFrames)]
    /\ UNCHANGED <<r_count, frame, bell, r_pos, handshake>>

\* Mutant: the transition is tested as if the counter had not been advanced.
WriteNotifyStale(e) ==
    /\ Goto(e, "write_notify", "idle")
    /\ IF ivc_channel_avail_count(e) = 0 THEN Ring(e) ELSE UNCHANGED bell
    /\ UNCHANGED <<w_count, r_count, frame, w_pos, r_pos, handshake>>

\* Notify only upon transition from empty to non-empty.
WriteNotify(e) ==
    /\ Goto(e, "write_notify", "idle")
    /\ IF ivc_channel_avail_count(e) = 1 THEN Ring(e) ELSE UNCHANGED bell
    /\ UNCHANGED <<w_count, r_count, frame, w_pos, r_pos, handshake>>

-----------------------------------------------------------------------------
(* Receiving.                                                              *)

\* tegra_ivc_read, tegra_ivc_read_peek (and tegra_ivc_read_get_next_frame) and
\* tegra_ivc_read_advance.
ReadCheck(e) ==
    /\ \/ /\ ivc_check_read(e)
          /\ \E to \in {"read_copy", "peek_copy", "read_advance"} : Goto(e, "idle", to)
       \/ /\ state[e] = "established" /\ ivc_channel_empty(Peer(e))
          /\ Goto(e, "idle", "wait_read")
    /\ UNCHANGED <<w_count, r_count, frame, bell, w_pos, r_pos, handshake>>

\* The memcpy out of frame[Peer(e)][r_pos[e]].
ReadCopy(e) ==
    /\ Goto(e, "read_copy", "read_advance") \/ Goto(e, "peek_copy", "idle")
    /\ UNCHANGED <<w_count, r_count, frame, bell, w_pos, r_pos, handshake>>

ivc_advance_rx(e) ==
    /\ Goto(e, "read_advance", "read_notify")
    /\ r_count' = [r_count EXCEPT ![e] = Inc(@, CountMod)]
    /\ r_pos' = [r_pos EXCEPT ![e] = Inc(@, NFrames)]
    /\ UNCHANGED <<w_count, frame, bell, w_pos, handshake>>

\* Notify only upon transition from full to non-full.
ReadNotify(e) ==
    /\ Goto(e, "read_notify", "idle")
    /\ IF ivc_channel_avail_count(Peer(e)) = NFrames - 1 THEN Ring(e) ELSE UNCHANGED bell
    /\ UNCHANGED <<w_count, r_count, frame, w_pos, r_pos, handshake>>

-----------------------------------------------------------------------------
(* The reset handshake.                                                    *)

\* A new owner of the end (the next boot stage, or one that was restarted in
\* the middle of a call) runs tegra_ivc_init and tegra_ivc_channel_reset.
tegra_ivc_channel_reset(e) ==
    /\ resets < MaxResets /\ resets' = resets + 1
    /\ <<state[e], state[Peer(e)]>> \in ResetFrom
    /\ state' = [state EXCEPT ![e] = "sync"]
    /\ w_pos' = [w_pos EXCEPT ![e] = 0]
    /\ r_pos' = [r_pos EXCEPT ![e] = 0]
    /\ pc' = [pc EXCEPT ![e] = "notify"]
    /\ todo' = [todo EXCEPT ![e] = {}]
    /\ target' = [target EXCEPT ![e] = "established"]
    /\ UNCHANGED <<w_count, r_count, frame, bell>>

\* Mutant: the state is stored without clearing the counters.
BeginUncleared(e, c, new) ==
    /\ pc' = [pc EXCEPT ![e] = "store"]
    /\ todo' = [todo EXCEPT ![e] = {}]
    /\ target' = [target EXCEPT ![e] = new]

\* A branch of tegra_ivc_channel_notified that clears the counters in c, then
\* stores the state new.
Begin(e, c, new) ==
    /\ pc' = [pc EXCEPT ![e] = IF c = {} THEN "store" ELSE "clear"]
    /\ todo' = [todo EXCEPT ![e] = c]
    /\ target' = [target EXCEPT ![e] = new]

\* Mutant: the sync branch clears its tx counter only.
NotifiedHalfClear(e) ==
    LET peer_state == state[Peer(e)]
    IN  /\ pc[e] = "idle" \/ (pc[e] \in {"wait_read", "wait_write"} /\ bell[e])
        /\ bell' = [bell EXCEPT ![e] = FALSE]
        /\ \/ peer_state = "sync" /\ Begin(e, {"w"}, "ack")
           \/ state[e] = "sync" /\ peer_state = "ack" /\ Begin(e, {"w", "r"}, "established")
           \/ state[e] = "ack" /\ peer_state # "sync" /\ Begin(e, {}, "established")
        /\ UNCHANGED <<w_count, r_count, state, frame, w_pos, r_pos, resets>>

\* Mutant: a peer in the ack state is answered whatever the own state is.
NotifiedAnyAck(e) ==
    LET peer_state == state[Peer(e)]
    IN  /\ pc[e] = "idle" \/ (pc[e] \in {"wait_read", "wait_write"} /\ bell[e])
        /\ bell' = [bell EXCEPT ![e] = FALSE]
        /\ \/ peer_state = "sync" /\ Begin(e, {"w", "r"}, "ack")
           \/ state[e] # "ack" /\ peer_state = "ack" /\ Begin(e, {"w", "r"}, "established")
           \/ state[e] = "ack" /\ peer_state # "sync" /\ Begin(e, {}, "established")
        /\ UNCHANGED <<w_count, r_count, state, frame, w_pos, r_pos, resets>>

\* tegra_ivc_channel_notified: sample the peer's state and choose the branch of
\* the state transition table.  An end that waits calls it on a notification.
tegra_ivc_channel_notified(e) ==
    LET peer_state == state[Peer(e)]
    IN  /\ pc[e] = "idle" \/ (pc[e] \in {"wait_read", "wait_write"} /\ bell[e])
        /\ bell' = [bell EXCEPT ![e] = FALSE]
        /\ \/ peer_state = "sync" /\ Begin(e, {"w", "r"}, "ack")
           \/ state[e] = "sync" /\ peer_state = "ack" /\ Begin(e, {"w", "r"}, "established")
           \/ state[e] = "ack" /\ peer_state # "sync" /\ Begin(e, {}, "established")
           \/ /\ peer_state # "sync" /\ state[e] # "ack"
              /\ ~(state[e] = "sync" /\ peer_state = "ack")
              /\ pc' = [pc EXCEPT ![e] = "idle"]
              /\ UNCHANGED <<todo, target>>
        /\ UNCHANGED <<w_count, r_count, state, frame, w_pos, r_pos, resets>>

\* The stores that clear the counters, before the write barrier.
ClearCounter(e) ==
    /\ pc[e] = "clear"
    /\ \E c \in todo[e] :
        /\ w_count' = IF c = "w" THEN [w_count EXCEPT ![e] = 0] ELSE w_count
        /\ r_count' = IF c = "r" THEN [r_count EXCEPT ![e] = 0] ELSE r_count
        /\ todo' = [todo EXCEPT ![e] = @ \ {c}]
        /\ pc' = [pc EXCEPT ![e] = IF todo[e] = {c} THEN "store" ELSE "clear"]
    /\ w_pos' = [w_pos EXCEPT ![e] = 0]
    /\ r_pos' = [r_pos EXCEPT ![e] = 0]
    /\ UNCHANGED <<state, frame, bell, target, resets>>

\* The store of the new state, after the write barrier.  target is dead afterwards.
StoreState(e) ==
    /\ Goto(e, "store", "notify")
    /\ state' = [state EXCEPT ![e] = target[e]]
    /\ target' = [target EXCEPT ![e] = "established"]
    /\ UNCHANGED <<w_count, r_count, frame, bell, w_pos, r_pos, todo, resets>>

\* Mutant: the peer is not notified.
NotifySilent(e) ==
    /\ Goto(e, "notify", "idle")
    /\ UNCHANGED <<w_count, r_count, frame, bell, w_pos, r_pos, handshake>>

\* ivc->notify at the end of a reset or of a handshake step.
Notify(e) ==
    /\ Goto(e, "notify", "idle")
    /\ Ring(e)
    /\ UNCHANGED <<w_count, r_count, frame, w_pos, r_pos, handshake>>

-----------------------------------------------------------------------------
\* The steps by which an end finishes the call it is in.
Finish(e) ==
    \/ WriteCopy(e) \/ ivc_advance_tx(e) \/ WriteNotify(e)
    \/ ReadCopy(e) \/ ivc_advance_rx(e) \/ ReadNotify(e)
    \/ ClearCounter(e) \/ StoreState(e) \/ Notify(e)

Next ==
    \E e \in Ends :
        \/ WriteCheck(e) \/ ReadCheck(e)
        \/ tegra_ivc_channel_reset(e) \/ tegra_ivc_channel_notified(e)
        \/ Finish(e)

Spec == Init /\ [][Next]_vars

-----------------------------------------------------------------------------
(* Properties.                                                             *)

Reading(e) == pc[e] \in {"read_copy", "peek_copy", "read_advance"}
Writing(e) == pc[e] \in {"write_copy", "poke_copy", "write_advance"}

\* Between the check and the advance the peer cannot take the frame, or the
\* room, away: the check that ivc_check_read and ivc_check_write made on values
\* sampled earlier still holds when the counter is advanced, so a channel never
\* becomes over-full and read_advance never frees a frame that is not there.
CheckStaysValid ==
    \A e \in Ends :
        /\ Reading(e) => ivc_channel_avail_count(Peer(e)) \in 1 .. NFrames
        /\ Writing(e) => ivc_channel_avail_count(e) < NFrames

\* No data race: no end copies into a frame that the other end copies out of.
NoFrameRace ==
    \A e \in Ends :
        pc[e] \in {"write_copy", "poke_copy"} /\ pc[Peer(e)] \in {"read_copy", "peek_copy"}
            => w_pos[e] # r_pos[Peer(e)]

\* Seen from e, the ring it transmits on holds at most NFrames frames, and its
\* write position is as far from the peer's read position as the counters say.
Within(e) == ivc_channel_avail_count(e) <= NFrames
Wrap(i) == IF i >= NFrames THEN i - NFrames ELSE i
Matching(e) == w_pos[e] = Wrap(r_pos[Peer(e)] + ivc_channel_avail_count(e))

\* Two ends that both consider the channel established agree on what is in it:
\* the counters are at most NFrames apart and the private positions of the two
\* ends are the same distance apart, through resets and counter wrap-around.
EndsAgree ==
    (\A f \in Ends : state[f] = "established") =>
        \A e \in Ends : Within(e) /\ Matching(e)

\* "The remote end is in the ACK state and won't make progress until we change
\* our state, so the counters are not in use at this time": a handshake step
\* never changes a counter while the peer is established.
ClearsUnusedCounters ==
    \A e \in Ends : state[Peer(e)] = "established" =>
        /\ "w" \in todo[e] => w_count[e] = 0
        /\ "r" \in todo[e] => r_count[e] = 0

-----------------------------------------------------------------------------
(* The inductive invariant behind the four properties above.               *)

\* A call on the rings is in progress only at an established end.
InCall(e) == Reading(e) \/ Writing(e) \/ pc[e] \in {"write_notify", "read_notify"}
CallsAreEstablished == \A e \in Ends : InCall(e) => state[e] = "established"

\* What a handshake step has cleared so far; an end in the ack state is clear.
Changing(e) == pc[e] \in {"clear", "store"}
ClearedSoFar ==
    \A e \in Ends :
        /\ state[e] = "ack" => w_count[e] = 0 /\ r_count[e] = 0 /\ w_pos[e] = 0 /\ r_pos[e] = 0
        /\ pc[e] = "clear" <=> todo[e] # {}
        /\ Changing(e) =>
              /\ target[e] # "sync"
              /\ "w" \notin todo[e] => w_count[e] = 0
              /\ "r" \notin todo[e] => r_count[e] = 0
              /\ todo[e] # {"w", "r"} => w_pos[e] = 0 /\ r_pos[e] = 0

\* The states the peer can be in while an end acts on the state it sampled.
ToEstablished(e) == Changing(e) /\ target[e] = "established"
SampleStaysValid ==
    \A e \in Ends :
        LET p == Peer(e)
        IN  Changing(e) =>
              /\ state[e] = "established" =>
                    target[e] = "ack" /\ state[p] = "sync" /\ ~Changing(p)
              /\ state[e] = "sync" =>
                    /\ ~ToEstablished(p) /\ state[p] # "established"
                    /\ target[e] = "established" => state[p] = "ack"
              /\ state[e] = "ack" /\ target[e] = "established" => state[p] # "sync"

\* Seen from an established end, both rings are within bounds, whatever its
\* peer is doing; and unless the peer is resetting, the positions match.
InUse(e) == state[e] = "established" /\ ~Changing(e)
RingsInUse ==
    \A e \in Ends : InUse(e) =>
        /\ Within(e) /\ Within(Peer(e))
        /\ state[Peer(e)] # "sync" => Matching(e) /\ Matching(Peer(e))

IvcInv ==
    /\ TypeOK
    /\ CallsAreEstablished
    /\ ClearedSoFar
    /\ SampleStaysValid
    /\ RingsInUse
    /\ CheckStaysValid

-----------------------------------------------------------------------------
\* Notifications are sent only on the transitions empty -> non-empty and
\* full -> non-full, and none is lost: an end asleep on an empty (full) channel
\* that has since got a frame (room) has a notification pending or coming.
NoLostWakeup ==
    \A e \in Ends :
        LET p == Peer(e)
            coming == bell[e] \/ pc[p] \in {"write_notify", "read_notify", "notify"}
        IN  state[e] = "established" /\ state[p] = "established" =>
                /\ pc[e] = "wait_read" /\ ~ivc_channel_empty(p) => coming
                /\ pc[e] = "wait_write" /\ ~ivc_channel_full(e) => coming

\* Its inductive form: only the write that made the channel non-empty, and the
\* read that made it non-full, may still owe the notification.
WakeupOwed ==
    \A e \in Ends :
        LET p == Peer(e)
            sent == bell[e] \/ pc[p] = "notify"
            filled == pc[p] = "write_notify" /\ ivc_channel_avail_count(p) = 1
            drained == pc[p] = "read_notify" /\ ivc_channel_avail_count(e) = NFrames - 1
        IN  state[e] = "established" /\ state[p] = "established" =>
                /\ pc[e] = "wait_read" /\ ~ivc_channel_empty(p) => sent \/ filled
                /\ pc[e] = "wait_write" /\ ~ivc_channel_full(e) => sent \/ drained

\* The frames in flight from e: those between the two counters, until a reset
\* starts to clear one of them.  An end that resets has lost its position.
Live(e) ==
    \/ InUse(e)
    \/ state[e] = "sync" /\ ~Changing(e) /\ InUse(Peer(e))
First(e, n) ==
    IF state[e] = "established" THEN Wrap((w_pos[e] + NFrames) - n) ELSE r_pos[Peer(e)]
Frames(e, first, n) == [i \in 1 .. n |-> frame[e][Wrap((first + i) - 1)]]
FramesBetween(e, n) == Frames(e, First(e, n), n)
InFlight(e) == IF Live(e) THEN FramesBetween(e, ivc_channel_avail_count(e)) ELSE <<>>

\* An established end has read nothing from a peer still in the ack state.
AckUnread ==
    \A e \in Ends : state[e] = "ack" /\ state[Peer(e)] = "established" => r_count[Peer(e)] = 0

Fifo == INSTANCE IvcFifo WITH q <- [e \in Ends |-> InFlight(e)]

\* Every behaviour of the channel is one of a bounded FIFO per direction whose
\* content a reset may discard.
IsFifo == Fifo!Spec

\* The calls return, and tegra_ivc_channel_notified is called after every
\* notification, whatever calls the end makes meanwhile; nothing is assumed of
\* polling.
Fairness ==
    \A e \in Ends :
        /\ WF_vars(Finish(e))
        /\ SF_vars(bell[e] /\ tegra_ivc_channel_notified(e))

FairSpec == Spec /\ Fairness

\* A channel that was reset becomes ready for use at both ends.
ResetCompletes ==
    \A e \in Ends : state[e] # "established" ~> (\A f \in Ends : state[f] = "established")
=============================================================================
