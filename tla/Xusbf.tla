-------------------------------- MODULE Xusbf --------------------------------
(***************************************************************************)
(* The USB device driver (drivers/usbf/xusbf): a single thread that polls, *)
(* a controller that runs beside it, and a host.  Driver and controller    *)
(* share an event ring (the controller produces) and one transfer ring for *)
(* each of the endpoints ep0, out and in (the driver produces).  A ring    *)
(* has no count: the owner of a slot is told by its cycle bit, which each  *)
(* side inverts when it wraps.                                             *)
(*                                                                         *)
(* The controller is external; it is modelled from how the driver uses it. *)
(* It has one interrupt bit, raised again when the driver acknowledges     *)
(* while events remain, and it refuses a control TRB whose sequence number *)
(* is not that of the last setup packet.  Super speed is not configured.   *)
(***************************************************************************)
EXTENDS Integers, Sequences, FiniteSets

CONSTANTS
    RingSize,   \* NUM_TRB_TRANSFER_RING, the link TRB included
    EventSize,  \* NUM_TRB_EVENT_RING
    Requests,   \* the setup packets of the host
    MaxSetups, MaxCalls,   \* bounds on setup packets and calls
    MaxFaults   \* bound on port changes and failures together

ASSUME XusbfAssumption ==
    /\ RingSize \in Nat /\ RingSize > 2 /\ EventSize \in Nat /\ EventSize > 1
\* The kinds that tegrabl_handle_setuppkt tells apart: "set" stands for requests that
\* have a status stage only, "other" for those that it does not answer.
ASSUME RequestsAssumption ==
    \A r \in Requests :
        r.kind \in {"config", "address", "set", "sel", "get", "halt", "resume", "bad", "other"}

VARIABLES
    m,          \* the device context, the rings and the registers
    pc,         \* where the driver is: idle, poll, events or fault
    call,       \* the call in progress: its name and number
    ctl,        \* the control transfer of the host
    ret,        \* what the last call gave
    spent       \* what is used up of the bounds

vars == <<m, pc, call, ctl, ret, spent>>

Eps == {"ep0", "out", "in"}
Slots == 0..RingSize - 1
Blank == [c |-> 0, type |-> "none", dir |-> "none", seq |-> 0, id |-> 0]
\* tegrabl_init_transfer_ring and the link TRB of tegrabl_init_epcontext.
EmptyRing == [k \in Slots |-> IF k = RingSize - 1 THEN [Blank EXCEPT !.type = "link"] ELSE Blank]
NoTransfer == [ep |-> "none", id |-> 0, moved |-> 0]
NoResult == [ok |-> FALSE, exact |-> FALSE]
NoRequest == [kind |-> "none"]
NoEvent == [c |-> 0, type |-> "none", req |-> NoRequest, seq |-> 0,
            ep |-> "none", code |-> "none", rem |-> 0, id |-> 0, moved |-> 0]

\* A slot that was consumed: only its cycle bit is looked at again.
Spent(blank, slot) == [blank EXCEPT !.c = slot.c]

\* usbf_init leaves the bulk endpoints alone, usbf_reinit takes over an enumerated device.
tegrabl_usbf_priv_init(reinit) ==
    [tr |-> [e \in Eps |-> IF reinit \/ e = "ep0" THEN EmptyRing ELSE <<>>],
     enq |-> [e \in Eps |-> 0], deq |-> [e \in Eps |-> 0], pcs |-> [e \in Eps |-> 1],
     ev |-> [k \in 0..EventSize - 1 |-> NoEvent], evdeq |-> 0, ccs |-> 1, snap |-> 0,
     state |-> IF reinit THEN "configured" ELSE "default",
     wait |-> "setup", config |-> 0, tx |-> 0, bytes |-> 0,
     seq |-> 0, setup |-> NoRequest, err |-> FALSE,
     \* the controller: its place in the rings and its registers
     hdeq |-> [e \in Eps |-> 0], hdcs |-> [e \in Eps |-> 1],
     on |-> {e \in Eps : reinit \/ e = "ep0"}, halt |-> {},
     evenq |-> 0, ecs |-> 1, erdp |-> 0, ip |-> FALSE, ehb |-> FALSE,
     port |-> {}, link |-> "U0",
     \* what the properties speak of
     last |-> NoTransfer, clean |-> TRUE, full |-> FALSE, torn |-> {}]

Init ==
    /\ \E reinit \in BOOLEAN :
          /\ m = tegrabl_usbf_priv_init(reinit)
          /\ pc = IF reinit THEN "idle" ELSE "poll"
          /\ call = [name |-> IF reinit THEN "none" ELSE "enumerate", id |-> 0]
    /\ ctl = [req |-> NoRequest, seq |-> 0, stage |-> "done"]
    /\ ret = NoResult
    /\ spent = [setups |-> 0, calls |-> 0, faults |-> 0]

----------------------------------------------------------------------------
(* Transfer rings *)

\* Mutant: the producer forgets to invert its cycle state.
QueueKeepingCycle(x, e, t) ==
    LET at == x.enq[e]
        wrap == x.tr[e][at + 1].type = "link"
        ring == [x.tr[e] EXCEPT ![at] = [t EXCEPT !.c = x.pcs[e]]]
    IN  [x EXCEPT !.tr[e] = IF wrap THEN [ring EXCEPT ![at + 1].c = x.pcs[e]] ELSE ring,
                  !.enq[e] = IF wrap THEN 0 ELSE at + 1]

\* The slot before the link TRB hands the link over with it.
tegrabl_queue_trb(x, e, t) ==
    LET at == x.enq[e]
        wrap == x.tr[e][at + 1].type = "link"
        ring == [x.tr[e] EXCEPT ![at] = [t EXCEPT !.c = x.pcs[e]]]
    IN  [x EXCEPT !.tr[e] = IF wrap THEN [ring EXCEPT ![at + 1].c = x.pcs[e]] ELSE ring,
                  !.pcs[e] = IF wrap THEN 1 - @ ELSE @,
                  !.enq[e] = IF wrap THEN 0 ELSE at + 1]

ControlTrb(x, type, dir) == [Blank EXCEPT !.type = type, !.dir = dir, !.seq = x.seq]
ControlBusy(x) == x.enq["ep0"] # x.deq["ep0"]

\* Mutant: a status is queued behind what is still there.
StatusAlways(x, dir) == [tegrabl_queue_trb(x, "ep0", ControlTrb(x, "status", dir)) EXCEPT !.wait = "status"]

tegrabl_issue_status_trb(x, dir) ==
    IF dir = "in" /\ ControlBusy(x) THEN x
    ELSE [tegrabl_queue_trb(x, "ep0", ControlTrb(x, "status", dir)) EXCEPT !.wait = "status"]

tegrabl_issue_data_trb(x, dir) ==
    IF ControlBusy(x) THEN x
    ELSE [tegrabl_queue_trb(x, "ep0", ControlTrb(x, "data", dir)) EXCEPT !.wait = "data"]

tegrabl_issue_normal_trb(x, e, id) ==
    [tegrabl_queue_trb(x, e, [Blank EXCEPT !.type = "normal", !.id = id]) EXCEPT !.wait = "normal"]

\* Whether the address the driver polls is in the ring of an endpoint it has set up.
SetUp(x, e) == x.tr[e] # <<>>

----------------------------------------------------------------------------
(* Requests of the host.  `fail` names the register poll that times out.   *)

Polls(r) == {"halt"} \cup (CASE r.kind = "config" -> {"in off", "out off", "out on", "in on"}
                               [] r.kind = "bad" -> {"stall"}
                               [] OTHER -> {})

tegrabl_disable_ep(x, e, times_out) ==
    IF x.err THEN x
    ELSE IF times_out THEN [x EXCEPT !.err = TRUE]
    ELSE [x EXCEPT !.on = @ \ {e}]

\* The ring is emptied with the context of the endpoint.
tegrabl_init_epcontext(x, e) ==
    [x EXCEPT !.tr[e] = EmptyRing, !.enq[e] = 0, !.deq[e] = 0, !.pcs[e] = 1]

tegrabl_initep(x, e, times_out) ==
    IF x.err THEN x
    ELSE IF times_out
    THEN [tegrabl_init_epcontext(x, e) EXCEPT !.err = TRUE, !.torn = @ \cup {e}]
    ELSE [tegrabl_init_epcontext(x, e) EXCEPT !.torn = @ \ {e}, !.hdeq[e] = 0, !.hdcs[e] = 1,
                                              !.on = @ \cup {e}, !.halt = @ \ {e}]

tegrabl_set_configuration(x, value, fail) ==
    LET off == IF x.config # 0 \/ value = 0
               THEN tegrabl_disable_ep(tegrabl_disable_ep(x, "in", fail = "in off"), "out", fail = "out off")
               ELSE x
        on  == IF value # 0
               THEN tegrabl_initep(tegrabl_initep(off, "out", fail = "out on"), "in", fail = "in on")
               ELSE off
    IN  IF on.err THEN on
        ELSE [tegrabl_issue_status_trb(on, "in") EXCEPT
                 !.config = value,
                 !.state = IF value # 0 THEN "configured pending" ELSE "addressed pending"]

tegrabl_stall_ep(x, e, stall, times_out) ==
    [x EXCEPT !.halt = IF stall THEN @ \cup {e} ELSE @ \ {e}, !.err = times_out]

\* A request that is not known is stalled, or not answered at all if it is
\* for the device or asks for a string there is not.
tegrabl_handle_setuppkt(x, fail) ==
    LET r == x.setup
        y == [x EXCEPT !.err = FALSE, !.halt = @ \ {"ep0"}]
    IN  IF fail = "halt" THEN [y EXCEPT !.err = TRUE]
        ELSE CASE r.kind = "config"  -> tegrabl_set_configuration(y, r.value, fail)
               [] r.kind = "address" -> [tegrabl_issue_status_trb(y, "in") EXCEPT !.state = "addressed pending"]
               [] r.kind = "set"     -> tegrabl_issue_status_trb(y, "in")
               [] r.kind = "sel"     -> tegrabl_issue_status_trb(tegrabl_issue_data_trb(y, "out"), "in")
               [] r.kind = "get"     -> tegrabl_issue_data_trb(y, "in")
               [] r.kind \in {"halt", "resume"} ->
                      [tegrabl_issue_status_trb(tegrabl_stall_ep(y, r.ep, r.kind = "halt", FALSE), "in")
                          EXCEPT !.err = FALSE]
               [] r.kind = "bad"     -> tegrabl_stall_ep(y, "ep0", TRUE, fail = "stall")
               [] OTHER              -> y

\* The bits of PORTSC, as they are when the event is handled.  Two cases are left
\* out: the warm reset, which a super speed link alone has, and CSC without CCS,
\* which would disconnect the device and of which the code says that it never
\* happens, as Vbus is overridden.
tegrabl_handle_port_status(x) ==
    LET reset == IF "PR" \in x.port THEN "reset" ELSE x.state
        conn  == IF "CSC" \in x.port THEN "connected" ELSE reset
        plc   == "PLC" \in x.port
    IN  [x EXCEPT
            !.state = IF plc /\ x.link = "U3" THEN "suspended"
                      ELSE IF plc /\ conn = "suspended" THEN "configured"
                      ELSE conn,
            \* the change of the link hides a configuration error
            !.err = "CEC" \in x.port /\ ~plc,
            !.port = (@ \ {"PRC", "CSC", "PLC"}) \ (IF plc THEN {} ELSE {"CEC"}),
            !.clean = @ /\ ~("CEC" \in x.port)
                        /\ ~(plc /\ x.link = "U0" /\ conn = "suspended" /\ "out" \notin x.on)]

NextSlot(x, e, k) == IF x.tr[e][k + 1].type = "link" THEN 0 ELSE k + 1

\* Mutant: the bytes the controller did not move are counted.
BulkDoneWhole(x, ev) ==
    [x EXCEPT !.tx = @ - 1, !.last = [ep |-> ev.ep, id |-> ev.id, moved |-> ev.moved]]

\* tx_count is unsigned: -1 stands for its largest value, which ends no loop.
BulkDone(x, ev) ==
    [x EXCEPT !.bytes = @ - ev.rem, !.tx = @ - 1,
              !.last = [ep |-> ev.ep, id |-> ev.id, moved |-> ev.moved]]

tegrabl_handle_txfer_event(x, ev, fail) ==
    LET y == [x EXCEPT !.deq[ev.ep] = NextSlot(x, ev.ep, @), !.err = FALSE]
    IN  CASE ev.code = "ok" /\ ev.ep = "ep0" ->
                 IF x.wait = "data" THEN tegrabl_issue_status_trb(y, "out")
                 ELSE IF x.wait # "status" THEN y
                 ELSE [y EXCEPT !.state = CASE @ = "addressed pending"  -> "addressed"
                                            [] @ = "configured pending" -> "configured"
                                            [] OTHER -> @]
          [] ev.code = "ok" /\ ev.ep = "out" -> BulkDone(y, ev)
          [] ev.code = "ok" /\ ev.ep = "in"  -> [BulkDone(y, ev) EXCEPT !.err = ev.rem # 0]
          [] ev.code = "seq" -> tegrabl_handle_setuppkt(y, fail)
          [] OTHER -> [y EXCEPT !.err = TRUE]

----------------------------------------------------------------------------
(* The driver *)

Fault(f) == spent' = [spent EXCEPT !.faults = @ + f]
MayFault == spent.faults < MaxFaults
Length == 2
\* The number of a call is the slot of its TRB.
NextId(e) == m.enq[e] + 1

\* transport_usbf: receive and send, one TRB at a time.
Start(e) ==
    /\ pc = "idle" /\ spent.calls < MaxCalls
    /\ spent' = [spent EXCEPT !.calls = @ + 1]
    /\ call' = [name |-> e, id |-> NextId(e)]
    /\ IF ~SetUp(m, e) THEN pc' = "fault" /\ UNCHANGED m
       ELSE /\ pc' = "poll"
            /\ m' = [tegrabl_issue_normal_trb([m EXCEPT !.bytes = Length], e, NextId(e)) EXCEPT
                        !.tx = 1, !.clean = @ /\ ~ControlBusy(m),
                        !.full = @ \/ (m.enq[e] + 1) % (RingSize - 1) = m.hdeq[e]]
    /\ ret' = NoResult
    /\ UNCHANGED ctl

\* A call returns; an error inside the polling ends it at once.
Leave(x, ok) ==
    /\ pc' = "idle"
    /\ LET exact == call.name = "enumerate" \/ x.last = [ep |-> call.name, id |-> call.id, moved |-> x.bytes]
       IN  /\ m' = [x EXCEPT !.last = NoTransfer, !.clean = @ /\ ok]
           /\ ret' = [ok |-> ok, exact |-> exact]

\* The interrupt bit is cleared before the place of the controller is read.
Poll ==
    /\ pc = "poll" /\ m.ip
    /\ LET x == [m EXCEPT !.ip = FALSE, !.snap = m.evenq, !.err = FALSE]
       IN  IF m.ev[m.evdeq].c # m.ccs
           THEN Leave(x, FALSE)
           ELSE m' = x /\ pc' = "events" /\ UNCHANGED ret
    /\ UNCHANGED <<call, ctl, spent>>

\* No interrupt for the whole of the timeout.
PollTimeout ==
    /\ pc = "poll" /\ ~m.ip /\ MayFault /\ Fault(1)
    /\ Leave(m, FALSE)
    /\ UNCHANGED <<call, ctl>>

Handle(x, ev, fail) ==
    CASE ev.type = "setup" -> tegrabl_handle_setuppkt([x EXCEPT !.setup = ev.req, !.seq = ev.seq], fail)
      [] ev.type = "port" -> tegrabl_handle_port_status(x)
      [] ev.type = "transfer" -> tegrabl_handle_txfer_event(x, ev, fail)

MayFail(ev) == CASE ev.type = "setup" -> Polls(ev.req)
                 [] ev.code = "seq" -> Polls(m.setup)
                 [] OTHER -> {}

NextEvent(x) ==
    [x EXCEPT !.ev[x.evdeq] = Spent(NoEvent, @), !.evdeq = (@ + 1) % EventSize,
              !.ccs = IF x.evdeq = EventSize - 1 THEN 1 - @ ELSE @]

Finished(x) == IF call.name = "enumerate" THEN x.state = "configured" ELSE x.tx = 0

\* One event of the batch; behind the last one the batch is acknowledged and
\* only the error of that event counts.
Event ==
    /\ pc = "events"
    /\ \E fail \in {"none"} \cup (IF MayFault THEN MayFail(m.ev[m.evdeq]) ELSE {}) :
       LET before == Handle(m, m.ev[m.evdeq], fail)
           x == NextEvent([before EXCEPT !.clean = @ /\ fail = "none"])
           more == x.evdeq # x.snap /\ x.ev[x.evdeq].c = x.ccs
           left == x.evdeq # x.evenq
           y == [x EXCEPT !.erdp = x.evdeq, !.ehb = left, !.ip = left, !.snap = 0, !.err = FALSE]
       IN  /\ Fault(IF fail = "none" THEN 0 ELSE 1)
           /\ IF more THEN m' = x /\ UNCHANGED <<pc, ret>>
              ELSE IF x.err \/ Finished(y) THEN Leave(y, ~x.err)
              ELSE m' = y /\ pc' = "poll" /\ UNCHANGED ret
    /\ UNCHANGED <<call, ctl>>

----------------------------------------------------------------------------
(* The controller and the host *)

Space(x) == (x.evenq + 1) % EventSize # x.erdp
Post(x, ev) ==
    [x EXCEPT !.ev[x.evenq] = [ev EXCEPT !.c = x.ecs],
              !.evenq = (@ + 1) % EventSize,
              !.ecs = IF x.evenq = EventSize - 1 THEN 1 - @ ELSE @,
              !.ip = @ \/ ~x.ehb, !.ehb = TRUE]

\* The TRB the controller is at, if the cycle bit says it is the controller's.
Ready(x, e) == e \in x.on \ x.halt /\ x.tr[e][x.hdeq[e]].c = x.hdcs[e]
Consume(x, e) ==
    LET next == NextSlot(x, e, x.hdeq[e])
    IN  [x EXCEPT !.tr[e][x.hdeq[e]] = Spent(Blank, @), !.hdeq[e] = next, !.hdcs[e] = IF next = 0 THEN 1 - @ ELSE @]
Complete(x, e, code, rem, moved) ==
    Post(Consume(x, e), [NoEvent EXCEPT !.type = "transfer", !.ep = e, !.code = code, !.rem = rem,
                                        !.id = x.tr[e][x.hdeq[e]].id, !.moved = moved])

\* A new setup packet ends the transfer before it, which the host may have given up.
Setup(r) ==
    /\ Space(m) /\ spent.setups < MaxSetups
    /\ spent' = [spent EXCEPT !.setups = @ + 1]
    /\ ctl' = [req |-> r, seq |-> ctl.seq + 1, stage |-> "open"]
    /\ m' = Post(m, [NoEvent EXCEPT !.type = "setup", !.req = r, !.seq = ctl.seq + 1])
    /\ UNCHANGED <<pc, call, ret>>

StatusDir(r) == IF r.kind = "get" THEN "out" ELSE "in"
\* The host sees the stage through, or the TRB is refused.
ControlStage ==
    LET t == m.tr["ep0"][m.hdeq["ep0"]]
    IN  /\ Space(m) /\ Ready(m, "ep0")
        /\ IF t.seq # ctl.seq \/ ctl.stage = "done" THEN m' = Complete(m, "ep0", "seq", 0, 0) /\ UNCHANGED ctl
           ELSE IF t.type = "status" /\ t.dir # StatusDir(ctl.req)
           THEN m' = Complete(m, "ep0", "dir", 0, 0) /\ UNCHANGED ctl
           ELSE /\ m' = Complete(m, "ep0", "ok", 0, 0)
                /\ ctl' = [ctl EXCEPT !.stage = IF t.type = "status" THEN "done" ELSE @]
        /\ UNCHANGED <<pc, call, ret, spent>>

\* The host sees the stall of the control endpoint.
Stalled ==
    /\ "ep0" \in m.halt /\ m.seq = ctl.seq /\ ctl.stage = "open"
    /\ ctl' = [ctl EXCEPT !.stage = "done"]
    /\ UNCHANGED <<m, pc, call, ret, spent>>

\* Data moves on a bulk endpoint: the host may send less than there is room for.
Bulk(e) ==
    /\ Space(m) /\ Ready(m, e)
    /\ \/ \E moved \in (IF e = "out" THEN 1..Length ELSE {Length}) :
             m' = Complete(m, e, "ok", Length - moved, moved) /\ UNCHANGED spent
       \/ MayFault /\ Fault(1) /\ m' = Complete(m, e, "error", Length, 0)
    /\ UNCHANGED <<pc, call, ctl, ret>>

\* A reset begins and ends; the link is suspended and resumed; the port is configured badly.
PortChange ==
    \/ "PR" \notin m.port /\ m' = Post([m EXCEPT !.port = @ \cup {"PR"}], [NoEvent EXCEPT !.type = "port"])
    \/ "PR" \in m.port /\ m' = Post([m EXCEPT !.port = (@ \ {"PR"}) \cup {"PRC", "CSC"}], [NoEvent EXCEPT !.type = "port"])
    \/ m' = Post([m EXCEPT !.link = IF @ = "U0" THEN "U3" ELSE "U0", !.port = @ \cup {"PLC"}], [NoEvent EXCEPT !.type = "port"])
    \/ "CEC" \notin m.port /\ m' = Post([m EXCEPT !.port = @ \cup {"CEC"}], [NoEvent EXCEPT !.type = "port"])

Port ==
    /\ Space(m) /\ MayFault /\ Fault(1)
    /\ PortChange
    /\ UNCHANGED <<pc, call, ctl, ret>>

Next ==
    \/ Poll \/ PollTimeout \/ Event
    \/ \E r \in Requests : Setup(r)
    \/ ControlStage \/ Stalled \/ Port
    \/ \E e \in {"out", "in"} : Start(e) \/ Bulk(e)

Spec == Init /\ [][Next]_vars

----------------------------------------------------------------------------

(* Driver and controller agree on who owns which slot of every ring: walking *)
(* from where the consumer is, the cycle bit tells exactly the slots the     *)
(* producer has filled, also around the end and after a new configuration    *)
(* has emptied a ring, once the controller has confirmed the new place and   *)
(* as long as TRBs left behind by calls that failed have not filled a bulk   *)
(* ring.  The driver's idea of where the controller is on ep0, which decides *)
(* whether an answer may be queued, is behind by just the events it has yet  *)
(* to handle.                                                                *)
Filled(from, to, cycle, size, bit) ==
    LET n == (to - from) % size
    IN  \A k \in 0..size - 1 :
           (bit[(from + k) % size] = (IF from + k < size THEN cycle ELSE 1 - cycle)) <=> k < n
RingsAgree ==
    LET size == RingSize - 1
        waiting == {k \in 0..EventSize - 1 : /\ (k - m.evdeq) % EventSize < (m.evenq - m.evdeq) % EventSize
                                             /\ m.ev[k].type = "transfer" /\ m.ev[k].ep = "ep0"}
    IN  ~m.full =>
        /\ \A e \in m.on \ m.torn :
              /\ Filled(m.hdeq[e], m.enq[e], m.hdcs[e], size, [k \in 0..size - 1 |-> m.tr[e][k].c])
              /\ m.enq[e] < m.hdeq[e] => m.tr[e][size].c = m.hdcs[e]
        /\ Filled(m.evdeq, m.evenq, m.ccs, EventSize, [k \in 0..EventSize - 1 |-> m.ev[k].c])
        /\ (m.deq["ep0"] + Cardinality(waiting)) % size = m.hdeq["ep0"]

(* A bulk call that reports success waited for the TRB it queued itself and  *)
(* reports what the controller moved for it, whatever control requests,      *)
(* resets and reconfigurations came in between.  Not so once m.clean is      *)
(* lost: after a call that failed or gave up, whose TRB is still out and     *)
(* whose completion a later call takes for its own (tx_count is one number), *)
(* after a port configuration error, or when a bulk call was begun in the    *)
(* middle of a control stage (tegrabl_xusbf.c:1908).                         *)
TransferExact == ret.ok /\ m.clean => ret.exact

(* No request is forgotten: when the driver waits for an interrupt, no event *)
(* is left and the controller has nothing to do on ep0, the last request of  *)
(* the host, if it is one the driver knows, has had its status stage or a    *)
(* stall.  This is so however many requests the host gave up half way, as    *)
(* long as m.clean: no call has failed, and no bulk call was begun during a  *)
(* control stage, whose wait_for_eventt it would overwrite (line 1908).      *)
Quiet == pc = "poll" /\ ~m.ip /\ m.evdeq = m.evenq /\ ~Ready(m, "ep0")
NoRequestForgotten ==
    Quiet /\ m.clean /\ ctl.req.kind \notin {"sel", "other"} => ctl.stage = "done" \/ "ep0" \in m.halt

----------------------------------------------------------------------------
(* The inductive invariant behind these three, of XusbfProofs.  Its parts   *)
(* take the context as a parameter, as it changes in several steps while an *)
(* event is handled.                                                        *)

Bits == {0, 1}
Places == 0..RingSize - 2
EvSlots == 0..EventSize - 1
Trbs == [c : Bits, type : {"none", "link", "data", "status", "normal"},
         dir : {"none", "in", "out"}, seq : Nat, id : Nat]
Events == [c : Bits, type : {"none", "setup", "port", "transfer"}, req : Requests \cup {NoRequest},
           seq : Nat, ep : Eps \cup {"none"}, code : {"none", "ok", "seq", "dir", "error"},
           rem : Int, id : Nat, moved : Nat]
Fields == {"tr", "enq", "deq", "pcs", "ev", "evdeq", "ccs", "snap", "state", "wait", "config",
           "tx", "bytes", "seq", "setup", "err", "hdeq", "hdcs", "on", "halt", "evenq", "ecs",
           "erdp", "ip", "ehb", "port", "link", "last", "clean", "full", "torn"}

Typed(x) ==
    /\ DOMAIN x = Fields
    /\ x.tr \in [Eps -> [Slots -> Trbs] \cup {<<>>}]
    /\ x.enq \in [Eps -> Places] /\ x.deq \in [Eps -> Places] /\ x.hdeq \in [Eps -> Places]
    /\ x.pcs \in [Eps -> Bits] /\ x.hdcs \in [Eps -> Bits]
    /\ x.ev \in [EvSlots -> Events] /\ {x.evdeq, x.evenq, x.erdp} \subseteq EvSlots
    /\ {x.ccs, x.ecs} \subseteq Bits
    /\ {x.tx, x.bytes} \subseteq Int /\ x.seq \in Nat /\ x.setup \in Requests \cup {NoRequest}
    /\ {x.clean, x.full, x.err} \subseteq BOOLEAN /\ x.on \subseteq Eps

TypeOK ==
    /\ Typed(m)
    /\ pc \in {"idle", "poll", "events", "fault"}
    /\ call \in [name : {"none", "enumerate", "out", "in"}, id : Nat]
    /\ ctl \in [req : Requests \cup {NoRequest}, seq : Nat, stage : {"open", "done"}]
    /\ ret \in [ok : BOOLEAN, exact : BOOLEAN]
    /\ spent \in [setups : Nat, calls : Nat, faults : Nat]

\* Only the last TRB is a link.
Linked(x, e) == \A k \in Slots : x.tr[e][k].type = "link" <=> k = RingSize - 1

\* The producer has marked what lies before its place in this lap, the link
\* included, and is in the lap of the consumer or in the next one.
RingInv(x, e) ==
    /\ \A k \in Slots : x.tr[e][k].c = IF k < x.enq[e] THEN x.pcs[e] ELSE 1 - x.pcs[e]
    /\ x.pcs[e] = IF x.enq[e] >= x.hdeq[e] THEN x.hdcs[e] ELSE 1 - x.hdcs[e]

TransferInv(x) ==
    /\ \A e \in x.on : SetUp(x, e)
    /\ \A e \in Eps : SetUp(x, e) => Linked(x, e)
    /\ ~x.full => \A e \in x.on \ x.torn : RingInv(x, e)

\* The events posted and not yet handled, and how far behind the next one they are.
Pending(x, k) == IF x.evdeq <= x.evenq THEN x.evdeq <= k /\ k < x.evenq ELSE x.evdeq <= k \/ k < x.evenq
Behind(x, k) == IF k >= x.evdeq THEN k - x.evdeq ELSE k - x.evdeq + EventSize
IsSetup(x, k) == Pending(x, k) /\ x.ev[k].type = "setup"
IsDone(x, k, eps) == Pending(x, k) /\ x.ev[k].type = "transfer" /\ x.ev[k].ep \in eps

\* The same for the event ring; the controller sees the driver at the place it
\* acknowledged last.
EventInv(x, handling) ==
    /\ \A k \in EvSlots : x.ev[k].c = IF k < x.evenq THEN x.ecs ELSE 1 - x.ecs
    /\ x.ecs = IF x.evenq >= x.evdeq THEN x.ccs ELSE 1 - x.ccs
    /\ IF x.erdp <= x.evenq THEN x.erdp <= x.evdeq /\ x.evdeq <= x.evenq
       ELSE x.erdp <= x.evdeq \/ x.evdeq <= x.evenq
    /\ IF handling THEN x.evdeq # x.evenq ELSE x.erdp = x.evdeq
    /\ \A k \in EvSlots : Pending(x, k) =>
           /\ x.ev[k].type # "none"
           /\ x.ev[k].type = "transfer" => x.ev[k].ep \in Eps /\ SetUp(x, x.ev[k].ep)

\* At most one TRB is out on ep0: with the controller, or in an event.
After(k) == IF k + 1 = RingSize - 1 THEN 0 ELSE k + 1
ControlInv(x) ==
    /\ "ep0" \in x.on /\ "ep0" \notin x.torn /\ RingInv(x, "ep0")
    /\ x.enq["ep0"] \in {x.deq["ep0"], After(x.deq["ep0"])}
    /\ x.hdeq["ep0"] \in {x.deq["ep0"], x.enq["ep0"]}
    /\ IF x.hdeq["ep0"] = x.deq["ep0"] THEN \A k \in EvSlots : ~IsDone(x, k, {"ep0"})
       ELSE \E k \in EvSlots : \A j \in EvSlots : IsDone(x, j, {"ep0"}) <=> j = k

\* As long as nothing has gone wrong, the call in progress has at most one TRB out
\* and none was left by the calls before it.
Running == pc \in {"poll", "events"}
Left(x, e) == SetUp(x, e) /\ x.enq[e] # x.hdeq[e]
Waits(x, job, running) == running /\ job.name \in {"out", "in"} /\ x.tx = 1 /\ x.bytes = Length
BulkInv(x, job, running) ==
    /\ running => job.name # "none"
    /\ x.clean =>
        /\ ~x.full /\ x.torn = {}
        /\ \A e \in {"out", "in"} :
              /\ SetUp(x, e) => RingInv(x, e) /\ x.enq[e] \in {x.hdeq[e], After(x.hdeq[e])}
              /\ Left(x, e) =>
                    /\ Waits(x, job, running) /\ job.name = e /\ x.tr[e][x.hdeq[e]].id = job.id
                    /\ \A k \in EvSlots : ~IsDone(x, k, {"out", "in"})
        /\ \A k \in EvSlots : IsDone(x, k, {"out", "in"}) =>
              /\ Waits(x, job, running) /\ x.ev[k].ep = job.name /\ x.ev[k].id = job.id
              /\ x.ev[k].code = "ok" => x.ev[k].rem = Length - x.ev[k].moved
              /\ \A j \in EvSlots : IsDone(x, j, {"out", "in"}) => j = k
        /\ running /\ job.name \in {"out", "in"} /\ x.tx = 0 =>
              x.last = [ep |-> job.name, id |-> job.id, moved |-> x.bytes]

\* Setup packets are handled in order, and what the controller has answered is
\* handled before the setup packets that came after it.
SetupInv(x, host) ==
    /\ x.seq <= host.seq /\ (host.stage = "open" => host.req \in Requests)
    /\ x.seq = host.seq => x.setup = host.req
    /\ x.seq # host.seq => \E k \in EvSlots : IsSetup(x, k) /\ x.ev[k].seq = host.seq
    /\ \A k \in EvSlots : IsSetup(x, k) =>
          /\ x.seq < x.ev[k].seq /\ x.ev[k].seq <= host.seq
          /\ x.ev[k].seq = host.seq => x.ev[k].req = host.req
          /\ \A j \in EvSlots : IsSetup(x, j) /\ Behind(x, j) < Behind(x, k) =>
                x.ev[j].seq < x.ev[k].seq
          /\ \A j \in EvSlots : IsDone(x, j, {"ep0"}) /\ x.ev[j].code # "seq" =>
                Behind(x, j) < Behind(x, k)

\* The TRB that is out on ep0 is one for the request handled last, or an older
\* one that will be refused;
TrbInv(x) ==
    x.hdeq["ep0"] # x.enq["ep0"] =>
        LET t == x.tr["ep0"][x.hdeq["ep0"]]
        IN  /\ t.seq <= x.seq
            /\ x.clean /\ t.seq = x.seq =>
                  /\ t.type = x.wait
                  /\ \/ t.type = "data" /\ x.setup.kind \in {"get", "sel"}
                     \/ t.type = "status" /\ (t.dir = StatusDir(x.setup) \/ x.setup.kind = "sel")
\* what is said of it tells the driver how to go on;
DoneInv(x, host) ==
    \A k \in EvSlots : x.clean /\ IsDone(x, k, {"ep0"}) =>
        /\ x.ev[k].code \in {"ok", "seq", "dir"}
        /\ x.ev[k].code = "dir" => x.setup.kind = "sel"
        /\ x.ev[k].code = "ok" =>
              /\ x.wait = "data" => x.setup.kind \in {"get", "sel"}
              /\ x.seq = host.seq /\ host.stage = "open" => x.wait = "data"
\* and so a request that was handled is stalled or has something out for it.
AnswerInv(x, host) ==
    x.clean /\ x.seq = host.seq /\ host.stage = "open" /\ host.req.kind \notin {"sel", "other"} =>
        "ep0" \in x.halt \/ ControlBusy(x)

UsbInv ==
    /\ TypeOK
    /\ TransferInv(m) /\ EventInv(m, pc = "events") /\ ControlInv(m)
    /\ BulkInv(m, call, Running) /\ TransferExact
    /\ SetupInv(m, ctl) /\ TrbInv(m) /\ DoneInv(m, ctl) /\ AnswerInv(m, ctl)
=============================================================================
