------------------------------ MODULE BlUpdate ------------------------------
(***************************************************************************)
(* The bootloader update of                                                *)
(* lib/bootloader_update/tegrabl_bootloader_update.c, built with           *)
(* CONFIG_ENABLE_A_B_SLOT, CONFIG_ENABLE_A_B_UPDATE and                    *)
(* CONFIG_ENABLE_QSPI.  One erase or write of a partition is a step; the   *)
(* device may fail and the board may reset at any of them.                 *)
(*                                                                         *)
(* A payload has a kind, a version, entries that name a partition and      *)
(* either fit the board (specification and mode) or not, and whether it is *)
(* a ratchet update.  What a partition holds is the version of the payload *)
(* that it was written from.  The callbacks are registered; there are two  *)
(* slots, and a partition without slots is at slot 0.                      *)
(***************************************************************************)
EXTENDS Integers, Sequences, FiniteSets, SequencesExt

CONSTANTS
    Payloads,
    Slotted,        \* the partitions that exist twice
    Single,         \* and those that do not
    AlwaysAb,       \* those of Slotted that are always written to both slots
    MaxUpdates,     \* bounds on the calls and on the failures and resets
    MaxFaults

\* A partition has slots or not; the entries of a payload name partitions that
\* the storage has.
ASSUME PartitionsAssumption == Slotted \cap Single = {}
ASSUME PayloadsAssumption ==
    \A p \in Payloads :
        p \in [kind : {"update", "invalid", "other", "short"}, version : Nat,
              entries : Seq([part : Slotted \cup Single, fits : BOOLEAN]), ratchet : BOOLEAN]

VARIABLES
    qspi,       \* whether the storage is a QSPI flash
    storage,    \* what the partitions hold
    spec,       \* whether global_nct_spec is known
    skipped,    \* what this call has passed over for want of it
    pc,         \* "idle", in the recursion "walk", or "write"
    payload, slot, entry,   \* the arguments, and the entry at which the loop is
    stack,      \* the calls of update_partition_recursive, the innermost last
    plan,       \* the device operations left for the partition being updated
    list,       \* the partitions updated by this call
    checked,    \* is_new_bup_checked
    required,   \* is_required
    status,     \* what the last call returned
    failed,     \* whether a call of this boot has failed
    updates, faults

vars == <<qspi, storage, spec, skipped, pc, payload, slot, entry, stack, plan, list, checked, required, status, failed, updates, faults>>
static == <<checked, required>>
bounds == <<updates, faults>>

Slots == {0, 1}
Places == (Slotted \X Slots) \cup (Single \X {0})
Torn == -1
Blank == -2
NoPayload == [kind |-> "none", version |-> 0, entries |-> <<>>, ratchet |-> FALSE]

\* What update_partition_recursive can be called for, and an operation on the device.
Parts == Slotted \cup Single \cup {"mb2", "BCT"}
Operations == [op : {"erase", "write"}, at : Places]

TypeOK ==
    /\ {qspi, spec, checked, required, failed} \subseteq BOOLEAN
    /\ storage \in [Places -> Int]
    /\ skipped \subseteq {"ratchet", "partition"}
    /\ pc \in {"idle", "walk", "write"}
    /\ payload \in Payloads \cup {NoPayload}
    /\ slot \in Slots
    /\ entry \in Nat
    /\ stack \in Seq(Parts)
    /\ plan \in Seq(Operations)
    /\ list \subseteq Parts
    /\ status \in {"none", "ok", "error"}

Init ==
    /\ qspi \in BOOLEAN
    /\ storage = [p \in Places |-> 0]
    /\ spec = FALSE /\ skipped = {}
    /\ pc = "idle"
    /\ payload = NoPayload /\ slot = 0 /\ entry = 0
    /\ stack = <<>> /\ plan = <<>> /\ list = {}
    /\ checked = FALSE /\ required = FALSE
    /\ status = "none" /\ failed = FALSE
    /\ updates = 0 /\ faults = 0

-----------------------------------------------------------------------------

is_partition_updated(p) == p \in list

\* Mutant: the boot configuration comes before the image that it names.
DependencySwapped(p) ==
    CASE p = "mb2" -> "BCT" [] p = "mb1" -> "BCT" [] OTHER -> "none"

get_dependency(p) == CASE p = "BCT" -> "mb2" [] p = "mb1" -> "BCT" [] OTHER -> "none"

\* is_update_all_slots_required: the answer is kept until an update succeeds.
is_update_all_slots_required(ratchet) ==
    /\ checked' = TRUE
    /\ required' = IF checked THEN required ELSE ratchet

\* write_partition: a QSPI flash is erased first.  The boot configuration is
\* written by a callback.
write_partition(place) ==
    (IF qspi THEN <<[op |-> "erase", at |-> place]>> ELSE <<>>) \o <<[op |-> "write", at |-> place]>>

\* Mutant: every partition with slots is written to all of them.
WriteAllSlots(p) ==
    IF p \in Single THEN write_partition(<<p, 0>>)
    ELSE write_partition(<<p, slot>>) \o write_partition(<<p, 1 - slot>>)

write_a_b_partition(p) ==
    IF p \in Single THEN write_partition(<<p, 0>>)
    ELSE write_partition(<<p, slot>>)
            \o IF required \/ p \in AlwaysAb THEN write_partition(<<p, 1 - slot>>) ELSE <<>>

\* The operations of update_partition.  On a QSPI flash the partition by the bare
\* name, slot 0, is erased beforehand.  Without an entry that fits nothing is done.
update_partition(p) ==
    IF \E j \in DOMAIN payload.entries : payload.entries[j].part = p /\ payload.entries[j].fits
    THEN (IF qspi THEN <<[op |-> "erase", at |-> <<p, 0>>]>> ELSE <<>>) \o write_a_b_partition(p)
    ELSE <<>>

\* Mutant: the list is cleared only by an update that has succeeded.
ReturnKeepingList(result) ==
    /\ pc' = "idle" /\ stack' = <<>> /\ plan' = <<>>
    /\ list' = IF result = "ok" THEN {} ELSE list
    /\ status' = result
    /\ failed' = (failed \/ result = "error")

\* The end of tegrabl_check_and_update_bl_payload: the list is cleared.
Return(result) ==
    /\ pc' = "idle" /\ stack' = <<>> /\ plan' = <<>> /\ list' = {}
    /\ status' = result
    /\ failed' = (failed \/ result = "error")

Fault == faults < MaxFaults /\ faults' = faults + 1

-----------------------------------------------------------------------------
(* tegrabl_check_and_update_bl_payload up to the loop.  A payload that is   *)
(* no blob, and one of another type, is a success without an update.        *)

Check(p, s) ==
    /\ pc = "idle" /\ updates < MaxUpdates
    /\ updates' = updates + 1
    /\ payload' = p /\ slot' = s /\ entry' = 1
    /\ \/ /\ p.kind \in {"invalid", "other", "short"}
          /\ Return(IF p.kind = "short" THEN "error" ELSE "ok")
          /\ skipped' = {}
          /\ UNCHANGED <<static, faults>>
       \/ /\ p.kind = "update"
          /\ \E known \in BOOLEAN :
                /\ IF known THEN UNCHANGED faults ELSE ~checked /\ p.ratchet /\ Fault
                /\ skipped' = IF known THEN {} ELSE {"ratchet"}
                /\ is_update_all_slots_required(p.ratchet /\ known)
          /\ IF p.entries = <<>> THEN Return("error")
             ELSE pc' = "walk" /\ stack' = <<p.entries[1].part>> /\ status' = "none"
                  /\ UNCHANGED <<plan, list, failed>>
    /\ UNCHANGED <<qspi, storage, spec>>

\* One step of update_partition_recursive.  When the specification of the board
\* cannot be read, the partition passes for updated.
Walk ==
    LET p == Last(stack)
        dep == get_dependency(p)
    IN /\ pc = "walk" /\ stack # <<>>
       /\ \/ /\ is_partition_updated(p)
             /\ stack' = Front(stack) /\ UNCHANGED <<pc, plan, spec, skipped, faults>>
          \/ /\ ~is_partition_updated(p) /\ dep # "none" /\ ~is_partition_updated(dep)
             /\ stack' = Append(stack, dep) /\ UNCHANGED <<pc, plan, spec, skipped, faults>>
          \/ /\ ~is_partition_updated(p) /\ (dep = "none" \/ is_partition_updated(dep))
             /\ pc' = "write"
             /\ \/ plan' = update_partition(p) /\ spec' = TRUE /\ UNCHANGED <<skipped, faults>>
                \/ ~spec /\ Fault /\ plan' = <<>> /\ skipped' = skipped \cup {"partition"} /\ UNCHANGED spec
             /\ UNCHANGED stack
       /\ UNCHANGED <<qspi, storage, payload, slot, entry, list, static, status, failed, updates>>

\* One operation on the device.
Operate ==
    LET o == Head(plan)
        new == IF o.op = "erase" THEN Blank ELSE payload.version
    IN /\ pc = "write" /\ plan # <<>>
       /\ \/ /\ storage' = [storage EXCEPT ![o.at] = new]
             /\ plan' = Tail(plan)
             /\ UNCHANGED <<pc, stack, list, status, failed, faults>>
          \/ /\ Fault
             /\ storage' = [storage EXCEPT ![o.at] = Torn]
             /\ Return("error")
       /\ UNCHANGED <<qspi, spec, skipped, payload, slot, entry, static, updates>>

\* The partition goes to the list, if there is memory for it.
Updated ==
    /\ pc = "write" /\ plan = <<>>
    /\ \/ /\ list' = list \cup {Last(stack)}
          /\ stack' = Front(stack) /\ pc' = "walk"
          /\ UNCHANGED <<plan, status, failed, faults>>
       \/ Fault /\ Return("error")
    /\ UNCHANGED <<qspi, storage, spec, skipped, payload, slot, entry, static, updates>>

\* Mutant: the flag stays set.
FinishChecked ==
    /\ pc = "walk" /\ stack = <<>>
    /\ entry' = entry + 1
    /\ IF entry < Len(payload.entries)
       THEN stack' = <<payload.entries[entry + 1].part>> /\ UNCHANGED <<pc, plan, list, status, failed>>
       ELSE Return("ok")
    /\ UNCHANGED <<qspi, storage, spec, skipped, payload, slot, static, bounds>>

\* The loop of tegrabl_check_and_update_bl_payload and its successful end.
NextEntry ==
    /\ pc = "walk" /\ stack = <<>>
    /\ entry' = entry + 1
    /\ IF entry < Len(payload.entries)
       THEN stack' = <<payload.entries[entry + 1].part>>
            /\ UNCHANGED <<pc, plan, list, status, failed, checked>>
       ELSE Return("ok") /\ checked' = FALSE
    /\ UNCHANGED <<qspi, storage, spec, skipped, payload, slot, required, bounds>>

\* A reset, which may tear the operation under way.
Reset ==
    /\ Fault
    /\ \/ UNCHANGED storage
       \/ pc = "write" /\ plan # <<>> /\ storage' = [storage EXCEPT ![Head(plan).at] = Torn]
    /\ pc' = "idle" /\ stack' = <<>> /\ plan' = <<>> /\ list' = {}
    /\ checked' = FALSE /\ required' = FALSE /\ status' = "none" /\ failed' = FALSE
    /\ spec' = FALSE /\ skipped' = {}
    /\ UNCHANGED <<qspi, payload, slot, entry, updates>>

Next ==
    \/ \E p \in Payloads, s \in Slots : Check(p, s)
    \/ Walk
    \/ Operate
    \/ Updated
    \/ NextEntry
    \/ Reset

Spec == Init /\ [][Next]_vars

-----------------------------------------------------------------------------
(* Properties.                                                             *)

Fits(p) == \E j \in DOMAIN payload.entries : payload.entries[j].part = p /\ payload.entries[j].fits
PlaceOf(p) == <<p, IF p \in Slotted THEN slot ELSE 0>>

\* Whatever the order of the entries, an image is written only when the image it
\* depends on is on storage already, so that an update cut off at any point does
\* not leave a boot configuration without the MB2 it names, or an MB1 newer than
\* the configuration (update_sequence, update_partition_recursive).
DependencyFirst ==
    [][\A d \in {<<"BCT", "mb2">>, <<"mb1", "BCT">>} :
          pc = "write" /\ Fits(d[1]) /\ Fits(d[2]) /\ "partition" \notin skipped
              /\ storage'[PlaceOf(d[1])] # storage[PlaceOf(d[1])]
          => storage[PlaceOf(d[2])] = payload.version]_vars

\* A call that returns success on an update payload has written every partition
\* with a fitting entry, if the specification of the board could be read: in the
\* slot that was asked for and, when the update was taken for a ratchet update,
\* in both; it leaves nothing erased or torn there.
SuccessIsComplete ==
    status = "ok" /\ payload.kind = "update" /\ "partition" \notin skipped =>
        \A p \in Slotted \cup Single : Fits(p) =>
            /\ storage[PlaceOf(p)] = payload.version
            /\ p \in Slotted /\ (required \/ p \in AlwaysAb) => storage[<<p, 1 - slot>>] = payload.version

\* As long as no update has failed in this boot, the slots written are chosen by
\* the payload at hand and not by one before it (is_new_bup_checked), unless the
\* specification that tells a ratchet update cannot be read.
RatchetFresh ==
    pc # "idle" /\ ~failed /\ "ratchet" \notin skipped => required = payload.ratchet

\* An update of one slot leaves the other one as it is, to be booted if the
\* update is cut off (write_a_b_partition).  Slot 1 of a QSPI flash is left out:
\* update_partition erases the partition by its bare name, which is slot 0.
OtherSlotKept ==
    [][~required /\ ~(qspi /\ slot = 1) => \A p \in Slotted \ AlwaysAb :
          storage'[<<p, 1 - slot>>] = storage[<<p, 1 - slot>>]]_vars

-----------------------------------------------------------------------------
(* The inductive invariant behind the properties above.                    *)

\* The loop is at an entry of an update payload; the partitions of the entries
\* before it are in the list, and the recursion started from that of the entry.
LoopInv ==
    IF pc = "idle" THEN list = {}
    ELSE /\ payload \in Payloads /\ payload.kind = "update" /\ status = "none"
         /\ entry \in 1 .. Len(payload.entries)
         /\ \A j \in 1 .. entry - 1 : payload.entries[j].part \in list
         /\ IF stack = <<>> THEN payload.entries[entry].part \in list
                            ELSE stack[1] = payload.entries[entry].part

\* The places that the partition p must have been written to.
Targets(p) ==
    {PlaceOf(p)} \cup {x \in {<<p, 1 - slot>>} : p \in Slotted /\ (required \/ p \in AlwaysAb)}

\* A partition in the list is complete on storage.
ListInv ==
    \A p \in list : Fits(p) /\ "partition" \notin skipped =>
        \A x \in Targets(p) : storage[x] = payload.version

Writes(s, x) == \E i \in DOMAIN s : s[i].op = "write" /\ s[i].at = x

\* What is left of a plan writes again whatever it erases at x.
Settles(s, x) ==
    \A i \in DOMAIN s : s[i].op = "erase" /\ s[i].at = x =>
        \E j \in DOMAIN s : i < j /\ s[j].op = "write" /\ s[j].at = x

\* The plan is for a partition that is not in the list and whose dependency is;
\* it stays within that partition, and in the slot where only that is updated,
\* and it completes the partition.
PlanInv ==
    pc = "write" =>
        /\ stack # <<>> /\ Last(stack) \notin list
        /\ get_dependency(Last(stack)) \in list \cup {"none"}
        /\ \A i \in DOMAIN plan :
              /\ plan[i].at[1] = Last(stack)
              /\ ~required /\ ~(qspi /\ slot = 1) /\ Last(stack) \in Slotted \ AlwaysAb
                    => plan[i].at[2] = slot
        /\ Fits(Last(stack)) /\ "partition" \notin skipped =>
              \A x \in Targets(Last(stack)) :
                  Settles(plan, x) /\ (Writes(plan, x) \/ storage[x] = payload.version)

\* is_new_bup_checked is clear between updates, as long as none has failed.
CheckedInv == pc = "idle" /\ ~failed => ~checked

UpdateInv ==
    /\ TypeOK /\ LoopInv /\ ListInv /\ PlanInv
    /\ CheckedInv /\ RatchetFresh /\ SuccessIsComplete
=============================================================================
