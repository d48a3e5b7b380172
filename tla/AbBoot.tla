------------------------------- MODULE AbBoot -------------------------------
(***************************************************************************)
(* A/B slot and rootfs selection over a sequence of boots                  *)
(* (lib/a_b_boot/tegrabl_a_b_boot_control.c): which slot MB1 boots, how    *)
(* cboot counts attempts in two scratch registers that survive a reset but *)
(* not a power loss, when it switches slots or rootfs, and when it boots   *)
(* the recovery kernel.                                                    *)
(*                                                                         *)
(* The metadata (SMD) on storage is one value, which a flush replaces or   *)
(* leaves: what SmdStore provides as long as a good copy can be read.      *)
(* That a read error after a cut-off flush shows a boot, or MB1 and cboot  *)
(* of one boot, the old metadata or the new is left out.  The order of the *)
(* calls is that of the boot stages: MB1 (external) selects a slot; cboot  *)
(* loads the SMD, loads a kernel, updates the SMD and hands over; the user *)
(* space of the kernel (UE, external) marks the boot successful.           *)
(***************************************************************************)
EXTENDS Naturals, FiniteSets

CONSTANTS
    Features,             \* the feature sets in the SMD version to consider
    max_bl_retry_count,   \* smd_ext.max_bl_retry_count
    max_rf_retry_count,   \* the max retry count in smd_ext.features.rootfs_misc_info
    NoSmd,                \* no SMD buffer: smd_loadaddress is NULL
    MaxUpsets,            \* bound: stage resets, power losses and failed flushes
    MaxSetActive          \* bound: fastboot set_active commands

AllFeatures == {"REDUNDANCY_ENABLE", "REDUNDANCY_USER", "ROOTFS_AB", "UNIFY_RF_BL_AB"}

ASSUME FeaturesAssumption ==
    /\ Features \subseteq SUBSET AllFeatures
    /\ \A f \in Features : "UNIFY_RF_BL_AB" \in f => "ROOTFS_AB" \in f
ASSUME CountsAssumption ==
    /\ max_bl_retry_count \in 0 .. 255 /\ max_rf_retry_count \in 0 .. 3
    /\ MaxUpsets \in Nat /\ MaxSetActive \in Nat

Slots == {0, 1}                \* BOOT_SLOT_A and B; also ROOTFS_A and B
Other(s) == IF s = 0 THEN 1 ELSE 0     \* !s
ROOTFS_INVALID == 3
SLOT_PRIORITY_DEFAULT == 15

VARIABLES
    features,  \* the upper half of the SMD version
    smd,       \* the metadata on storage
    buf,       \* the SMD buffer of cboot (smd_loadaddress), or NoSmd
    backup,    \* smd_backup, or NoSmd
    reg,       \* the boot slot scratch register (SR)
    rf_reg,    \* the rootfs scratch register (RF_SR)
    pc,        \* the boot stage that runs
    booted,    \* the kernel that cboot loaded: its slot and rootfs, or recovery
    upsets, actives,
    \* What the properties speak of.
    tries,     \* tries[s]: kernels started from slot s since the count restarted;
               \* update_smd counts the recovery kernel as the first of the next round
    rf_tries,  \* rf_tries[r]: boots that selected rootfs r since it was last known good
    undisturbed \* no stage reset, failed flush or set_active since UE or a power loss

boot == <<smd, buf, backup, reg, rf_reg, pc, booted>>
history == <<tries, rf_tries, undisturbed>>
vars == <<features, boot, upsets, actives, history>>

Has(f) == f \in features
UnifiedEnabled == Has("UNIFY_RF_BL_AB")
UserRedundancy == Has("REDUNDANCY_USER") \/ UnifiedEnabled

-----------------------------------------------------------------------------
(* Reading and changing the metadata.                                      *)

tegrabl_get_max_retry_count ==
    IF max_bl_retry_count \in 1 .. 7 THEN max_bl_retry_count ELSE 7
tegrabl_get_rootfs_max_retry_count ==
    IF max_rf_retry_count = 0 THEN 3 ELSE max_rf_retry_count
get_max_rotate_count ==
    IF tegrabl_get_max_retry_count * 2 < 4 THEN tegrabl_get_max_retry_count * 2 ELSE 4

\* Slots with a retry left and a priority.
Bootable(m) ==
    {s \in Slots : m.slot_info[s].retry_count # 0 /\ m.slot_info[s].priority # 0}

\* Mutant: the comparison is the wrong way round.
BootslotLowest(m) ==
    CHOOSE s \in Bootable(m) :
        \A t \in Bootable(m) : m.slot_info[s].priority <= m.slot_info[t].priority

\* The first of the bootable slots with the highest priority.
boot_chain_get_bootslot_from_smd(m) ==
    CHOOSE s \in Bootable(m) :
        \A t \in Bootable(m) :
            \/ m.slot_info[s].priority > m.slot_info[t].priority
            \/ m.slot_info[s].priority = m.slot_info[t].priority /\ s <= t

tegrabl_a_b_set_active_slot(m, slot) ==
    [m EXCEPT !.slot_info =
        [s \in Slots |->
            IF s = slot
            THEN [priority |-> SLOT_PRIORITY_DEFAULT,
                  retry_count |-> tegrabl_get_max_retry_count,
                  boot_successful |-> FALSE]
            ELSE [m.slot_info[s] EXCEPT !.priority = IF @ > 1 THEN @ - 1 ELSE @]]]

\* Selecting a rootfs restores the retry count as well.
tegrabl_a_b_set_active_rootfs(m, r) ==
    [m EXCEPT !.active = r, !.retry = tegrabl_get_rootfs_max_retry_count]

FromRegToSmd(m, retry) ==
    [m EXCEPT !.slot_info = [s \in Slots |-> [m.slot_info[s] EXCEPT !.retry_count = retry[s]]]]
FromSmdToReg(m) == [s \in Slots |-> m.slot_info[s].retry_count]

NoMagic == [magic |-> FALSE, slot |-> 0, retry |-> [s \in Slots |-> 0], flag |-> "OTA_OFF"]
NoRfMagic == [magic |-> FALSE, rotate |-> 0, retry |-> 0]
NoBoot == [slot |-> 0, rootfs |-> 0, recovery |-> FALSE]

tegrabl_a_b_save_boot_slot_reg(r, m, slot) ==
    [r EXCEPT
        !.magic = TRUE, !.slot = slot, !.retry = FromSmdToReg(m),
        !.flag = IF ~m.slot_info[slot].boot_successful THEN "OTA_ON"
                 ELSE IF Has("REDUNDANCY_ENABLE") THEN "REDUNDANCY_BOOT" ELSE @]

-----------------------------------------------------------------------------
\* As flashed, or as user space left it: slot A good, slot B good, unbootable,
\* or freshly updated and selected; the other rootfs usable or being updated.
SlotInfo(p, n, ok) == [priority |-> p, retry_count |-> n, boot_successful |-> ok]

Init ==
    /\ features \in Features
    /\ \E a \in Slots, b \in {SlotInfo(14, tegrabl_get_max_retry_count, TRUE),
                              SlotInfo(0, 0, FALSE),
                              SlotInfo(15, tegrabl_get_max_retry_count, FALSE)},
          st \in {"NORMAL", "IN_PROGRESS"} :
        smd = [slot_info |-> [s \in Slots |->
                   IF s = 1 THEN b
                   ELSE SlotInfo(IF b.priority = 15 THEN 14 ELSE 15,
                                 tegrabl_get_max_retry_count, TRUE)],
               active |-> a, retry |-> tegrabl_get_rootfs_max_retry_count,
               status |-> [r \in Slots |-> IF r = a THEN "NORMAL" ELSE st]]
    /\ buf = NoSmd /\ backup = NoSmd
    /\ reg = NoMagic /\ rf_reg = NoRfMagic
    /\ pc = "mb1"
    /\ booted = NoBoot
    /\ upsets = 0 /\ actives = 0
    /\ tries = [s \in Slots |-> 0] /\ rf_tries = [r \in Slots |-> 0]
    /\ undisturbed = TRUE

\* MB1 initialises SR from the SMD after a power loss and otherwise keeps it;
\* it selects a slot by the retry counts of SR, takes one retry and saves SR.
tegrabl_a_b_init_boot_slot_reg(m) ==
    IF reg.magic THEN reg
    ELSE IF Bootable(m) = {} THEN [NoMagic EXCEPT !.magic = TRUE]
    ELSE tegrabl_a_b_save_boot_slot_reg(NoMagic, m, boot_chain_get_bootslot_from_smd(m))

tegrabl_a_b_check_and_update_retry_count(m, slot) ==
    IF Has("REDUNDANCY_ENABLE") \/ ~m.slot_info[slot].boot_successful
    THEN [m EXCEPT !.slot_info[slot].retry_count = @ - 1]
    ELSE m

Mb1 ==
    LET r == tegrabl_a_b_init_boot_slot_reg(smd)
        m == FromRegToSmd(smd, r.retry)
        slot == boot_chain_get_bootslot_from_smd(m)
    IN  /\ pc = "mb1"
        /\ \/ /\ Bootable(m) = {}
              /\ pc' = "rcm" /\ UNCHANGED reg
           \/ /\ Bootable(m) # {}
              /\ reg' = tegrabl_a_b_save_boot_slot_reg(
                            r, tegrabl_a_b_check_and_update_retry_count(m, slot), slot)
              /\ pc' = "bl"
        /\ UNCHANGED <<features, smd, buf, backup, rf_reg, booted, upsets, actives, history>>

-----------------------------------------------------------------------------
(* cboot.                                                                  *)

\* Mutant: the retry count is not copied.
InitRootfsRegZero(m) ==
    IF rf_reg.magic \/ ~(Has("REDUNDANCY_USER") \/ Has("ROOTFS_AB"))
    THEN rf_reg
    ELSE [magic |-> TRUE, rotate |-> 0, retry |-> 0]

\* After a power loss; the retry count comes from the SMD if rootfs are selected
\* on their own.
tegrabl_a_b_init_rootfs_slot_reg(m) ==
    IF rf_reg.magic \/ ~(Has("REDUNDANCY_USER") \/ Has("ROOTFS_AB"))
    THEN rf_reg
    ELSE [magic |-> TRUE, rotate |-> 0,
          retry |-> IF Has("ROOTFS_AB") /\ ~UnifiedEnabled THEN m.retry ELSE 0]

\* The SMD buffer after tegrabl_a_b_select_active_rootfs: when no retry is left
\* the current rootfs has failed and the other one is next, if it is usable.
tegrabl_a_b_select_active_rootfs(m, rf) ==
    LET f == IF m.active \in Slots THEN [m EXCEPT !.status[m.active] = "BOOT_FAILED"] ELSE m
        next == Other(IF m.active = 0 THEN 0 ELSE 1)
    IN  IF ~Has("ROOTFS_AB") \/ UnifiedEnabled \/ rf.retry # 0 THEN m
        ELSE tegrabl_a_b_set_active_rootfs(
                 f, IF f.status[next] = "NORMAL" THEN next ELSE ROOTFS_INVALID)

\* RF_SR after it: one retry less, of the count restored by a switch; unchanged
\* when there is no rootfs to switch to.
TakeRootfsRetry(m, rf) ==
    IF ~Has("ROOTFS_AB") \/ UnifiedEnabled THEN rf
    ELSE IF rf.retry # 0 THEN [rf EXCEPT !.retry = @ - 1]
    ELSE IF m.active = ROOTFS_INVALID THEN rf
    ELSE [rf EXCEPT !.retry = m.retry - 1]

tegrabl_a_b_get_smd ==
    LET rf == tegrabl_a_b_init_rootfs_slot_reg(smd)
    IN  /\ pc = "bl"
        /\ pc' = "cboot"
        /\ backup' = smd
        /\ buf' = tegrabl_a_b_select_active_rootfs(smd, rf)
        /\ rf_reg' = TakeRootfsRetry(buf', rf)
        /\ rf_tries' = [r \in Slots |->
               IF r = buf'.active /\ rf_tries[r] < tegrabl_get_rootfs_max_retry_count
               THEN rf_tries[r] + 1 ELSE rf_tries[r]]
        /\ UNCHANGED <<features, smd, reg, booted, upsets, actives, tries, undisturbed>>

\* fastboot set_active: change the buffer and flush it.
FastbootSetActive ==
    /\ pc = "cboot" /\ actives < MaxSetActive
    /\ actives' = actives + 1
    /\ \E slot \in Slots : buf' = tegrabl_a_b_set_active_slot(buf, slot)
    /\ smd' = buf'
    /\ undisturbed' = FALSE
    /\ UNCHANGED <<features, backup, reg, rf_reg, pc, booted, upsets, tries, rf_tries>>

tegrabl_a_b_rootfs_is_all_unbootable ==
    \/ UserRedundancy /\ rf_reg.rotate >= get_max_rotate_count
    \/ ~UserRedundancy /\ Has("ROOTFS_AB") /\ buf.active = ROOTFS_INVALID

\* Unified: the slot that the SMD buffer selects.  Errors mean rootfs A.
tegrabl_a_b_get_current_rootfs_id ==
    IF ~Has("ROOTFS_AB") THEN 0
    ELSE IF UnifiedEnabled
         THEN IF Bootable(buf) = {} THEN 0 ELSE boot_chain_get_bootslot_from_smd(buf)
    ELSE buf.active

\* What tegrabl_a_b_rootfs_is_all_unbootable leaves in RF_SR when it says yes.
RotationCleared == IF UserRedundancy THEN [rf_reg EXCEPT !.rotate = 0] ELSE rf_reg

\* A removable medium is tried first, and asks before it looks for its recovery
\* image: without one the search goes on, with the rotation count cleared.
RemovableWithoutRecovery ==
    /\ pc = "cboot" /\ tegrabl_a_b_rootfs_is_all_unbootable
    /\ rf_reg' = RotationCleared
    /\ tries' = IF UserRedundancy THEN [s \in Slots |-> 0] ELSE tries
    /\ UNCHANGED <<features, smd, buf, backup, reg, pc, booted, upsets, actives, rf_tries,
                   undisturbed>>

\* The removable medium or the fixed storage that is booted from: the recovery
\* kernel if every rootfs is unbootable, which restarts the rotation, or the
\* kernel of the current rootfs.
LoadKernel ==
    /\ pc = "cboot"
    /\ pc' = "update"
    /\ \/ /\ tegrabl_a_b_rootfs_is_all_unbootable
          /\ booted' = [slot |-> reg.slot, rootfs |-> 0, recovery |-> TRUE]
          /\ rf_reg' = RotationCleared
       \/ /\ ~tegrabl_a_b_rootfs_is_all_unbootable
          /\ booted' = [slot |-> reg.slot,
                        rootfs |-> tegrabl_a_b_get_current_rootfs_id, recovery |-> FALSE]
          /\ UNCHANGED rf_reg
    /\ UNCHANGED <<features, smd, buf, backup, reg, upsets, actives, history>>

\* The bootloader made it to cboot: the current slot has all its retries again.
Restored(r) == [r EXCEPT !.retry[r.slot] = tegrabl_get_max_retry_count]

\* Mutant: the slots are switched after the last try only.
RotatesAtEnd ==
    /\ rf_reg.rotate + 1 = get_max_rotate_count
    /\ reg.retry[Other(reg.slot)] # 0
    /\ \A s \in Slots : buf.slot_info[s].priority # 0

\* Rotation: after each half of max_rotate_count the other slot gets its turn.
Rotates ==
    LET cur == reg.slot
        n == rf_reg.rotate + 1
    IN  /\ n = get_max_rotate_count \div 2 \/ n = get_max_rotate_count
        /\ reg.retry[Other(cur)] # 0
        /\ \A s \in Slots : buf.slot_info[s].priority # 0

check_user_redundancy_status(m) ==
    IF Rotates
    THEN [m EXCEPT !.slot_info =
             [@ EXCEPT ![reg.slot].priority = 14, ![Other(reg.slot)].priority = 15]]
    ELSE m

Redundant == reg.flag = "REDUNDANCY_BOOT" /\ Has("REDUNDANCY_ENABLE")

\* Mutant: the rotation count is not saved.
UpdateSmdUncounted ==
    LET r == IF Redundant THEN Restored(reg) ELSE reg
        m == IF Redundant /\ UserRedundancy THEN check_user_redundancy_status(buf) ELSE buf
    IN  /\ reg.flag # "OTA_OFF"
        /\ reg' = r
        /\ buf' = FromRegToSmd(m, r.retry)
        /\ pc' = IF buf' # backup THEN "flush" ELSE "hand_over"
        /\ UNCHANGED rf_reg

\* check_redundancy_status and the copy of the retry counts to the SMD; the
\* flush follows if the buffer differs from the backup.
UpdateSmd ==
    LET r == IF Redundant THEN Restored(reg) ELSE reg
        m == IF Redundant /\ UserRedundancy THEN check_user_redundancy_status(buf) ELSE buf
    IN  /\ reg.flag # "OTA_OFF"
        /\ reg' = r
        /\ rf_reg' = IF Redundant /\ UserRedundancy
                     THEN [rf_reg EXCEPT !.rotate = (@ + 1) % 16] ELSE rf_reg
        /\ buf' = FromRegToSmd(m, r.retry)
        /\ pc' = IF buf' # backup THEN "flush" ELSE "hand_over"

\* TEGRABL_ASSERT(slot1_priority >= slot2_priority) before the switch.
PriorityAsserted ==
    Redundant /\ UserRedundancy /\ Rotates =>
        buf.slot_info[reg.slot].priority >= buf.slot_info[Other(reg.slot)].priority

tegrabl_a_b_update_smd ==
    /\ pc = "update"
    /\ \/ PriorityAsserted /\ UpdateSmd
       \/ ~PriorityAsserted /\ pc' = "halted" /\ UNCHANGED <<reg, rf_reg, buf>>
       \/ reg.flag = "OTA_OFF" /\ pc' = "hand_over" /\ UNCHANGED <<reg, rf_reg, buf>>
    /\ UNCHANGED <<features, smd, backup, booted, upsets, actives, history>>

\* The flush, or its failure; cboot goes on either way.
tegrabl_a_b_flush_smd ==
    /\ pc = "flush"
    /\ \/ smd' = buf /\ UNCHANGED <<upsets, undisturbed>>
       \/ /\ upsets < MaxUpsets /\ upsets' = upsets + 1
          /\ undisturbed' = FALSE
          /\ UNCHANGED smd
    /\ pc' = "hand_over"
    /\ UNCHANGED <<features, buf, backup, reg, rf_reg, booted, actives, tries, rf_tries>>

\* Clear SR and start the kernel.
HandOver ==
    /\ pc = "hand_over"
    /\ reg' = NoMagic
    /\ pc' = IF booted.recovery THEN "recovery" ELSE "kernel"
    /\ tries' = IF booted.recovery
                THEN [s \in Slots |-> IF s = reg.slot THEN rf_reg.rotate ELSE 0]
                ELSE [tries EXCEPT ![reg.slot] = IF @ < 4 THEN @ + 1 ELSE @]
    /\ buf' = NoSmd /\ backup' = NoSmd
    /\ UNCHANGED <<features, smd, rf_reg, booted, upsets, actives, rf_tries, undisturbed>>

-----------------------------------------------------------------------------
(* What happens around the bootloader.                                     *)

\* User space is up: it marks the slot and the rootfs good, restores the
\* priorities and clears RF_SR.
UeReached ==
    LET s == booted.slot
    IN  /\ pc = "kernel"
        /\ pc' = "ue"
        /\ smd' = [smd EXCEPT
               !.slot_info = [t \in Slots |->
                   IF t = s THEN SlotInfo(15, tegrabl_get_max_retry_count, TRUE)
                   ELSE [smd.slot_info[t] EXCEPT !.priority = IF @ = 0 THEN 0 ELSE 14]],
               !.retry = tegrabl_get_rootfs_max_retry_count,
               !.status[booted.rootfs] = "NORMAL"]
        /\ rf_reg' = NoRfMagic
        /\ tries' = [t \in Slots |-> 0]
        /\ rf_tries' = [rf_tries EXCEPT ![booted.rootfs] = 0]
        /\ undisturbed' = TRUE
        /\ UNCHANGED <<features, buf, backup, reg, booted, upsets, actives>>

\* MB1 starts over; what was in memory is gone.
Restart == pc' = "mb1" /\ buf' = NoSmd /\ backup' = NoSmd /\ booted' = NoBoot

\* A reboot, perhaps into the slot and rootfs that user space has updated.
Reboot ==
    /\ pc = "ue"
    /\ Restart
    /\ \/ UNCHANGED <<smd, rf_tries>>
       \/ LET o == Other(booted.rootfs)
          IN  /\ smd' = [tegrabl_a_b_set_active_slot(smd, Other(booted.slot)) EXCEPT
                             !.active = o, !.status[o] = "NORMAL"]
              /\ rf_tries' = [rf_tries EXCEPT ![o] = 0]
    /\ UNCHANGED <<features, reg, rf_reg, upsets, actives, tries, undisturbed>>

\* The kernel hangs or panics, or the recovery kernel is done: a reset.
KernelReset ==
    /\ pc \in {"kernel", "recovery"}
    /\ Restart
    /\ UNCHANGED <<features, smd, reg, rf_reg, upsets, actives, history>>

\* A boot stage fails or hangs: a reset, which keeps both scratch registers.
StageReset ==
    /\ pc \in {"bl", "cboot", "update", "flush", "hand_over"} /\ upsets < MaxUpsets
    /\ upsets' = upsets + 1
    /\ Restart
    /\ undisturbed' = FALSE
    /\ UNCHANGED <<features, smd, reg, rf_reg, actives, tries, rf_tries>>

PowerLoss ==
    /\ pc # "mb1" /\ upsets < MaxUpsets
    /\ upsets' = upsets + 1
    /\ Restart
    /\ reg' = NoMagic /\ rf_reg' = NoRfMagic
    /\ tries' = [s \in Slots |-> 0] /\ undisturbed' = TRUE
    /\ UNCHANGED <<features, smd, actives, rf_tries>>

Boot ==
    \/ Mb1 \/ tegrabl_a_b_get_smd \/ RemovableWithoutRecovery \/ LoadKernel
    \/ tegrabl_a_b_update_smd \/ tegrabl_a_b_flush_smd \/ HandOver \/ UeReached \/ Reboot \/ KernelReset

Next == Boot \/ FastbootSetActive \/ StageReset \/ PowerLoss

Spec == Init /\ [][Next]_vars

-----------------------------------------------------------------------------
Counts == 0 .. 15
SlotInfos == [priority : Counts, retry_count : 0 .. 7, boot_successful : BOOLEAN]
Metadata ==
    [slot_info : [Slots -> SlotInfos],
     active : Slots \cup {ROOTFS_INVALID},
     retry : 1 .. 3,
     status : [Slots -> {"NORMAL", "IN_PROGRESS", "BOOT_FAILED"}]]
BootSlotRegs ==
    [magic : BOOLEAN, slot : Slots, retry : [Slots -> 0 .. 7],
     flag : {"OTA_OFF", "OTA_ON", "REDUNDANCY_BOOT"}]
RootfsRegs == [magic : BOOLEAN, rotate : Counts, retry : 0 .. 3]

\* cboot has loaded the SMD and not yet handed over.
Loaded == pc \in {"cboot", "update", "flush", "hand_over", "halted"}

TypeOK ==
    /\ features \in Features
    /\ smd \in Metadata
    /\ IF Loaded THEN buf \in Metadata /\ backup \in Metadata
                 ELSE buf = NoSmd /\ backup = NoSmd
    /\ reg \in BootSlotRegs /\ rf_reg \in RootfsRegs
    /\ pc \in {"mb1", "rcm", "bl", "cboot", "update", "flush", "hand_over",
               "kernel", "recovery", "ue", "halted"}
    /\ booted \in [slot : Slots, rootfs : Slots \cup {ROOTFS_INVALID}, recovery : BOOLEAN]
    /\ upsets \in 0 .. MaxUpsets /\ actives \in 0 .. MaxSetActive
    /\ tries \in [Slots -> 0 .. 4]
    /\ rf_tries \in [Slots -> 0 .. tegrabl_get_rootfs_max_retry_count]
    /\ undisturbed \in BOOLEAN

\* The assertions of cboot hold: "current slot priority must be greater or equal
\* than non-current slot" when slots are switched, and RF_SR has its magic when
\* the rotation count is read.
AssertionsHold == pc # "halted" /\ (pc = "cboot" /\ UserRedundancy => rf_reg.magic)

\* They do as long as nobody selects a slot over fastboot.
AssertionsHoldWithoutFastboot == actives = 0 => AssertionsHold

\* "If both slots have tried max_rotate_count/2 times, boot to recovery": with
\* two bootable slots, user redundancy gives up only after each had its turns.
BothSlotsTried ==
    pc = "update" /\ booted.recovery /\ UserRedundancy
      /\ Bootable(FromRegToSmd(buf, reg.retry)) = Slots
        => \A s \in Slots : tries[s] >= get_max_rotate_count \div 2

BothSlotsTriedUndisturbed == undisturbed => BothSlotsTried

\* A rootfs is given up only after its full number of attempts, whatever was
\* reset or lost between them.
RootfsTried ==
    \A m \in {smd, buf} \ {NoSmd} : \A r \in Slots :
        m.status[r] = "BOOT_FAILED" => rf_tries[r] = tegrabl_get_rootfs_max_retry_count

\* "use bootloader active slot for rootfs".
UnifiedSlotIsRootfs ==
    pc = "update" /\ ~booted.recovery /\ UnifiedEnabled => booted.rootfs = booted.slot

\* The boot stages go on, resets and power losses end.
FairSpec == Spec /\ WF_vars(Boot)

\* A kernel that keeps failing does not loop for ever: some boot reaches user
\* space or the recovery kernel, MB1 finds no slot to boot, or cboot halts; unless
\* time and again a removable medium without recovery image takes the recovery
\* that was due, which restarts the rotation.
FailingBootsEnd ==
    <>[][~RemovableWithoutRecovery]_vars =>
        (pc = "mb1" /\ features \cap {"REDUNDANCY_USER", "ROOTFS_AB"} # {}
            ~> pc \in {"ue", "recovery", "rcm", "halted"})

\* "If rotate_count is no less than max_rotate_count, clear the rotate_count in
\* scratch register and return true to boot to recovery kernel": a boot that finds
\* the count exhausted, and is not reset, gets to the recovery kernel.
ExhaustedBootsRecovery ==
    pc = "cboot" /\ UserRedundancy /\ rf_reg.rotate >= get_max_rotate_count ~> booted.recovery

-----------------------------------------------------------------------------
(* Why these hold: what the proofs use.                                    *)

\* The rotation count never passes its maximum; the recovery kernel restarts it.
RotateBound ==
    /\ rf_reg.rotate <= get_max_rotate_count
    /\ pc = "update" /\ UserRedundancy =>
           IF booted.recovery THEN rf_reg.rotate = 0 ELSE rf_reg.rotate < get_max_rotate_count

\* Rootfs are selected on their own, by the retry count of RF_SR.
RootfsAlone == Has("ROOTFS_AB") /\ ~UnifiedEnabled

\* For the active rootfs, attempts made and retries left add up to the maximum;
\* the SMD always restores the full count.
Accounted(m) ==
    /\ m.retry = tegrabl_get_rootfs_max_retry_count
    /\ RootfsAlone /\ rf_reg.magic /\ m.active \in Slots =>
           rf_tries[m.active] + rf_reg.retry >= tegrabl_get_rootfs_max_retry_count
    /\ \A r \in Slots :
           m.status[r] = "BOOT_FAILED" => rf_tries[r] = tegrabl_get_rootfs_max_retry_count

RootfsInv ==
    /\ Accounted(smd)
    /\ Loaded => Accounted(buf)
    /\ pc = "ue" => rf_reg = NoRfMagic

\* The slot MB1 selected is preferred to the other one as long as that one is
\* bootable, and cboot sees the slots that MB1 saw.
Preferred(m) ==
    reg.retry[Other(reg.slot)] # 0 /\ (\A s \in Slots : m.slot_info[s].priority # 0) =>
        m.slot_info[reg.slot].priority >= m.slot_info[Other(reg.slot)].priority

SelectionInv ==
    /\ pc \in {"bl", "cboot", "update"} /\ actives = 0 => Preferred(smd)
    /\ pc \in {"cboot", "update"} /\ actives = 0 => buf.slot_info = smd.slot_info
    /\ pc \in {"cboot", "update"} /\ UserRedundancy => rf_reg.magic
    /\ pc = "halted" => actives # 0

\* The metadata the next boot finds, and the starts it counts, if this boot ends
\* undisturbed.
Pending == IF pc = "flush" THEN buf ELSE smd
Started ==
    IF pc \notin {"flush", "hand_over"} THEN tries
    ELSE IF booted.recovery
         THEN [s \in Slots |-> IF s = reg.slot THEN rf_reg.rotate ELSE 0]
    ELSE [tries EXCEPT ![reg.slot] = IF @ < 4 THEN @ + 1 ELSE @]

\* n rotations into a round the preferred slot has had its share of the first or
\* of the second half, and in the second half the other one all of its own.
Shares(cur, n, t) ==
    LET half == get_max_rotate_count \div 2
    IN  /\ n <= get_max_rotate_count
        /\ n < half => t[cur] >= n
        /\ n >= half => t[Other(cur)] >= half /\ t[cur] >= n - half

RotationInv ==
    /\ pc \in {"kernel", "recovery", "ue"} \/ (undisturbed /\ pc = "mb1") => reg = NoMagic
    /\ undisturbed /\ pc \in {"cboot", "update"} => backup = smd /\ buf.slot_info = smd.slot_info
    /\ undisturbed /\ pc \in {"bl", "cboot", "update"} =>
           /\ reg.slot \in Bootable(smd)
           /\ Bootable(smd) = Slots => reg.slot = boot_chain_get_bootslot_from_smd(smd)
           /\ reg.retry[Other(reg.slot)] = smd.slot_info[Other(reg.slot)].retry_count
    /\ undisturbed /\ UserRedundancy /\ Bootable(Pending) = Slots =>
           IF pc = "update" /\ booted.recovery
           THEN \A s \in Slots : tries[s] >= get_max_rotate_count \div 2
           ELSE Shares(boot_chain_get_bootslot_from_smd(Pending), rf_reg.rotate, Started)

AbInv == TypeOK /\ RotateBound /\ RootfsInv /\ SelectionInv /\ RotationInv
=============================================================================
