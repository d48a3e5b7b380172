--------------------------- MODULE AbBootProofs ---------------------------
(***************************************************************************)
(* Proofs about AbBoot.                                                    *)
(***************************************************************************)
EXTENDS AbBoot, TLAPS

\* The limits the counts are compared with (smd_ext of version 3 and up).
LEMMA Limits ==
    /\ tegrabl_get_max_retry_count \in 1 .. 7
    /\ tegrabl_get_rootfs_max_retry_count \in 1 .. 3
    /\ get_max_rotate_count \in {2, 4}
    /\ get_max_rotate_count \div 2 \in {1, 2}
    /\ get_max_rotate_count = 2 * (get_max_rotate_count \div 2)
<1>1. tegrabl_get_max_retry_count \in 1 .. 7
  BY CountsAssumption DEF tegrabl_get_max_retry_count
<1>2. tegrabl_get_rootfs_max_retry_count \in 1 .. 3
  BY CountsAssumption DEF tegrabl_get_rootfs_max_retry_count
<1>3. get_max_rotate_count \in {2, 4}
  BY <1>1 DEF get_max_rotate_count
<1> QED
  BY <1>1, <1>2, <1>3

\* tegrabl_a_b_set_active_slot keeps the type and touches slots only.
LEMMA SetActiveSlot ==
    ASSUME NEW m \in Metadata, NEW slot \in Slots
    PROVE  /\ tegrabl_a_b_set_active_slot(m, slot) \in Metadata
           /\ tegrabl_a_b_set_active_slot(m, slot).active = m.active
           /\ tegrabl_a_b_set_active_slot(m, slot).retry = m.retry
           /\ tegrabl_a_b_set_active_slot(m, slot).status = m.status
<1> DEFINE f == [s \in Slots |->
            IF s = slot
            THEN [priority |-> SLOT_PRIORITY_DEFAULT,
                  retry_count |-> tegrabl_get_max_retry_count,
                  boot_successful |-> FALSE]
            ELSE [m.slot_info[s] EXCEPT !.priority = IF @ > 1 THEN @ - 1 ELSE @]]
<1>1. f \in [Slots -> SlotInfos]
  BY Limits DEF Metadata, SlotInfos, Counts, SLOT_PRIORITY_DEFAULT
<1>2. tegrabl_a_b_set_active_slot(m, slot) = [m EXCEPT !.slot_info = f]
  BY DEF tegrabl_a_b_set_active_slot
<1> HIDE DEF f
<1> QED
  BY <1>1, <1>2 DEF Metadata

\* tegrabl_a_b_copy_retry_count from SR to the SMD replaces the retry counts.
LEMMA CopyRetries ==
    ASSUME NEW m \in Metadata, NEW n \in [Slots -> 0 .. 7]
    PROVE  /\ FromRegToSmd(m, n) \in Metadata
           /\ FromRegToSmd(m, n).active = m.active
           /\ FromRegToSmd(m, n).retry = m.retry
           /\ FromRegToSmd(m, n).status = m.status
           /\ \A s \in Slots :
                 /\ FromRegToSmd(m, n).slot_info[s].priority = m.slot_info[s].priority
                 /\ FromRegToSmd(m, n).slot_info[s].retry_count = n[s]
<1> DEFINE f == [s \in Slots |-> [m.slot_info[s] EXCEPT !.retry_count = n[s]]]
<1>1. f \in [Slots -> SlotInfos]
  BY DEF Metadata, SlotInfos
<1>2. \A s \in Slots : f[s].priority = m.slot_info[s].priority /\ f[s].retry_count = n[s]
  BY DEF Metadata, SlotInfos
<1>3. FromRegToSmd(m, n) = [m EXCEPT !.slot_info = f]
  BY DEF FromRegToSmd
<1> HIDE DEF f
<1> QED
  BY <1>1, <1>2, <1>3 DEF Metadata

\* tegrabl_a_b_save_boot_slot_reg saves the slot and its retry counts.
LEMMA SaveRegister ==
    ASSUME NEW r \in BootSlotRegs, NEW m \in Metadata, NEW slot \in Slots
    PROVE  /\ tegrabl_a_b_save_boot_slot_reg(r, m, slot) \in BootSlotRegs
           /\ tegrabl_a_b_save_boot_slot_reg(r, m, slot).slot = slot
           /\ tegrabl_a_b_save_boot_slot_reg(r, m, slot).retry =
                 [s \in Slots |-> m.slot_info[s].retry_count]
<1>1. [s \in Slots |-> m.slot_info[s].retry_count] \in [Slots -> 0 .. 7]
  BY DEF Metadata, SlotInfos
<1> QED
  BY <1>1 DEF tegrabl_a_b_save_boot_slot_reg, FromSmdToReg, BootSlotRegs

\* tegrabl_a_b_check_and_update_retry_count takes at most one retry of the slot.
LEMMA TakeRetry ==
    ASSUME NEW m \in Metadata, NEW slot \in Bootable(m)
    PROVE  /\ tegrabl_a_b_check_and_update_retry_count(m, slot) \in Metadata
           /\ \A s \in Slots \ {slot} :
                 tegrabl_a_b_check_and_update_retry_count(m, slot).slot_info[s] = m.slot_info[s]
<1> DEFINE f == [m.slot_info EXCEPT ![slot].retry_count = @ - 1]
<1>1. f \in [Slots -> SlotInfos] /\ \A s \in Slots \ {slot} : f[s] = m.slot_info[s]
  BY DEF Metadata, SlotInfos, Bootable
<1>2. \/ tegrabl_a_b_check_and_update_retry_count(m, slot) = m
      \/ tegrabl_a_b_check_and_update_retry_count(m, slot) = [m EXCEPT !.slot_info = f]
  BY DEF tegrabl_a_b_check_and_update_retry_count, Metadata
<1> HIDE DEF f
<1> QED
  BY <1>1, <1>2 DEF Metadata

\* boot_chain_get_bootslot_from_smd selects a bootable slot that no bootable slot
\* has a higher priority than; slot A if both are equal.
LEMMA Bootslot ==
    ASSUME NEW m \in Metadata, Bootable(m) # {}
    PROVE  /\ boot_chain_get_bootslot_from_smd(m) \in Bootable(m)
           /\ \A t \in Bootable(m) :
                 m.slot_info[boot_chain_get_bootslot_from_smd(m)].priority
                     >= m.slot_info[t].priority
           /\ Bootable(m) = Slots =>
                 boot_chain_get_bootslot_from_smd(m) =
                     IF m.slot_info[1].priority > m.slot_info[0].priority THEN 1 ELSE 0
<1> DEFINE Best(s) ==
        \A t \in Bootable(m) :
            \/ m.slot_info[s].priority > m.slot_info[t].priority
            \/ m.slot_info[s].priority = m.slot_info[t].priority /\ s <= t
<1>1. Bootable(m) \subseteq {0, 1} /\ \A s \in {0, 1} : m.slot_info[s].priority \in Nat
  BY DEF Bootable, Slots, Metadata, SlotInfos, Counts
<1>2. \E s \in Bootable(m) : Best(s)
  BY <1>1
<1>3. boot_chain_get_bootslot_from_smd(m) = CHOOSE s \in Bootable(m) : Best(s)
  BY DEF boot_chain_get_bootslot_from_smd
<1>4. boot_chain_get_bootslot_from_smd(m) \in Bootable(m)
        /\ Best(boot_chain_get_bootslot_from_smd(m))
  BY <1>2, <1>3
<1> QED
  BY <1>1, <1>4 DEF Slots

\* MB1 initialises SR from the SMD only if it lost its magic.
LEMMA InitRegister ==
    ASSUME smd \in Metadata, reg \in BootSlotRegs
    PROVE  /\ tegrabl_a_b_init_boot_slot_reg(smd) \in BootSlotRegs
           /\ reg = NoMagic /\ Bootable(smd) # {} =>
                 tegrabl_a_b_init_boot_slot_reg(smd).retry =
                     [s \in Slots |-> smd.slot_info[s].retry_count]
           /\ reg = NoMagic /\ Bootable(smd) = {} =>
                 tegrabl_a_b_init_boot_slot_reg(smd).retry = [s \in Slots |-> 0]
<1>1. NoMagic \in BootSlotRegs
  BY DEF NoMagic, BootSlotRegs, Slots
<1>2. NoMagic.magic = FALSE
  BY DEF NoMagic
<1>3. CASE reg.magic
  BY <1>2, <1>3 DEF tegrabl_a_b_init_boot_slot_reg
<1>4. CASE ~reg.magic /\ Bootable(smd) = {}
  <2>1. tegrabl_a_b_init_boot_slot_reg(smd) = [NoMagic EXCEPT !.magic = TRUE]
    BY <1>4 DEF tegrabl_a_b_init_boot_slot_reg
  <2>2. NoMagic.retry = [s \in Slots |-> 0]
    BY DEF NoMagic
  <2>3. tegrabl_a_b_init_boot_slot_reg(smd) \in BootSlotRegs
    BY <1>1, <2>1 DEF BootSlotRegs
  <2>4. tegrabl_a_b_init_boot_slot_reg(smd).retry = NoMagic.retry
    BY <1>1, <2>1 DEF BootSlotRegs
  <2> QED
    BY <1>4, <2>2, <2>3, <2>4
<1>5. CASE ~reg.magic /\ Bootable(smd) # {}
  <2> DEFINE s == boot_chain_get_bootslot_from_smd(smd)
  <2>1. tegrabl_a_b_init_boot_slot_reg(smd) = tegrabl_a_b_save_boot_slot_reg(NoMagic, smd, s)
    BY <1>5 DEF tegrabl_a_b_init_boot_slot_reg
  <2>2. s \in Slots
    BY <1>5, Bootslot DEF Bootable
  <2> HIDE DEF s
  <2> QED
    BY <1>1, <1>5, <2>1, <2>2, SaveRegister
<1> QED
  BY <1>3, <1>4, <1>5

\* What a run of MB1 leaves in SR.
LEMMA Mb1Effect ==
    ASSUME smd \in Metadata, reg \in BootSlotRegs, Mb1
    PROVE  \/ pc' = "rcm" /\ reg' = reg
           \/ /\ pc' = "bl"
              /\ reg' \in BootSlotRegs
              /\ Preferred(smd)'
              /\ reg = NoMagic =>
                    /\ reg'.slot \in Bootable(smd)
                    /\ Bootable(smd) = Slots => reg'.slot = boot_chain_get_bootslot_from_smd(smd)
                    /\ reg'.retry[Other(reg'.slot)] = smd.slot_info[Other(reg'.slot)].retry_count
<1> DEFINE r == tegrabl_a_b_init_boot_slot_reg(smd)
           m == FromRegToSmd(smd, r.retry)
           slot == boot_chain_get_bootslot_from_smd(m)
           n == tegrabl_a_b_check_and_update_retry_count(m, slot)
<1>1. r \in BootSlotRegs
  BY InitRegister
<1>2. r.retry \in [Slots -> 0 .. 7]
  BY <1>1 DEF BootSlotRegs
<1>a. smd' = smd
  BY DEF Mb1
<1>3. /\ m \in Metadata
      /\ \A s \in Slots : /\ m.slot_info[s].priority = smd.slot_info[s].priority
                          /\ m.slot_info[s].retry_count = r.retry[s]
  BY <1>2, CopyRetries
<1>4. \/ Bootable(m) = {} /\ pc' = "rcm" /\ reg' = reg
      \/ /\ Bootable(m) # {} /\ pc' = "bl"
         /\ reg' = tegrabl_a_b_save_boot_slot_reg(r, n, slot)
  BY DEF Mb1
<1> HIDE DEF r, m, n
<1>5. SUFFICES ASSUME Bootable(m) # {}, pc' = "bl",
                      reg' = tegrabl_a_b_save_boot_slot_reg(r, n, slot)
               PROVE  /\ reg' \in BootSlotRegs
                      /\ Preferred(smd)'
                      /\ reg = NoMagic =>
                          /\ reg'.slot \in Bootable(smd)
                          /\ Bootable(smd) = Slots =>
                                reg'.slot = boot_chain_get_bootslot_from_smd(smd)
                          /\ reg'.retry[Other(reg'.slot)] =
                                smd.slot_info[Other(reg'.slot)].retry_count
  BY <1>4
<1>6. /\ slot \in Bootable(m)
      /\ \A t \in Bootable(m) : m.slot_info[slot].priority >= m.slot_info[t].priority
      /\ Bootable(m) = Slots =>
            slot = IF m.slot_info[1].priority > m.slot_info[0].priority THEN 1 ELSE 0
  BY <1>3, <1>5, Bootslot
<1> HIDE DEF slot
<1>7. slot \in Slots /\ Other(slot) \in Slots \ {slot}
  BY <1>6 DEF Bootable, Other, Slots
<1>8. n \in Metadata /\ \A s \in Slots \ {slot} : n.slot_info[s] = m.slot_info[s]
  <2>1. n = tegrabl_a_b_check_and_update_retry_count(m, slot)
    BY DEF n, slot
  <2> QED
    BY <2>1, <1>3, <1>6, TakeRetry
<1>9. /\ reg' \in BootSlotRegs /\ reg'.slot = slot
      /\ reg'.retry = [s \in Slots |-> n.slot_info[s].retry_count]
  BY <1>1, <1>5, <1>7, <1>8, SaveRegister
<1>10. reg'.retry[Other(slot)] = r.retry[Other(slot)]
  BY <1>3, <1>7, <1>8, <1>9
<1>11. Preferred(smd)'
  <2>1. SUFFICES ASSUME r.retry[Other(slot)] # 0,
                        \A s \in Slots : smd.slot_info[s].priority # 0
                 PROVE  smd.slot_info[slot].priority >= smd.slot_info[Other(slot)].priority
    BY <1>a, <1>9, <1>10 DEF Preferred
  <2>2. Other(slot) \in Bootable(m)
    BY <1>3, <1>7, <2>1 DEF Bootable
  <2> QED
    BY <2>2, <1>3, <1>6, <1>7
<1>12. ASSUME reg = NoMagic
       PROVE  /\ slot \in Bootable(smd)
              /\ Bootable(smd) = Slots => slot = boot_chain_get_bootslot_from_smd(smd)
              /\ r.retry[Other(slot)] = smd.slot_info[Other(slot)].retry_count
  <2>1. CASE Bootable(smd) = {}
    <3>1. r.retry = [s \in Slots |-> 0]
      BY <1>12, <2>1, InitRegister DEF r
    <3> QED
      BY <3>1, <1>3, <1>6 DEF Bootable
  <2>2. CASE Bootable(smd) # {}
    <3>1. r.retry = [s \in Slots |-> smd.slot_info[s].retry_count]
      BY <1>12, <2>2, InitRegister DEF r
    <3>2. Bootable(m) = Bootable(smd)
      BY <3>1, <1>3 DEF Bootable
    <3>3. Bootable(smd) = Slots => slot = boot_chain_get_bootslot_from_smd(smd)
      <4>1. HAVE Bootable(smd) = Slots
      <4>2. boot_chain_get_bootslot_from_smd(smd) =
               IF smd.slot_info[1].priority > smd.slot_info[0].priority THEN 1 ELSE 0
        BY <2>2, <4>1, Bootslot
      <4> QED
        BY <3>2, <4>1, <4>2, <1>3, <1>6 DEF Slots
    <3> QED
      BY <3>1, <3>2, <3>3, <1>6, <1>7
  <2> QED
    BY <2>1, <2>2
<1> QED
  BY <1>9, <1>10, <1>11, <1>12

\* The SMD buffer after tegrabl_a_b_select_active_rootfs: the slots are as they
\* were; the rootfs changes only when its retries are used up.
LEMMA SelectRootfs ==
    ASSUME NEW m \in Metadata, NEW rf \in RootfsRegs,
           NEW k, k = tegrabl_a_b_select_active_rootfs(m, rf)
    PROVE  /\ k \in Metadata
           /\ k.slot_info = m.slot_info
           /\ RootfsAlone /\ rf.retry = 0 =>
                 /\ k.retry = tegrabl_get_rootfs_max_retry_count
                 /\ k.active # m.active \/ k.active \notin Slots
                 /\ \A r \in Slots : k.status[r] # m.status[r] =>
                                        r = m.active /\ k.status[r] = "BOOT_FAILED"
           /\ ~(RootfsAlone /\ rf.retry = 0) => k = m
<1>1. CASE ~(RootfsAlone /\ rf.retry = 0)
  BY <1>1 DEF tegrabl_a_b_select_active_rootfs, RootfsAlone
<1>2. CASE RootfsAlone /\ rf.retry = 0
  <2> DEFINE f == IF m.active \in Slots
                  THEN [m EXCEPT !.status[m.active] = "BOOT_FAILED"] ELSE m
             next == Other(IF m.active = 0 THEN 0 ELSE 1)
  <2>1. k = tegrabl_a_b_set_active_rootfs(
                 f, IF f.status[next] = "NORMAL" THEN next ELSE ROOTFS_INVALID)
    BY <1>2 DEF tegrabl_a_b_select_active_rootfs, RootfsAlone
  <2>2. next \in Slots /\ (m.active \in Slots => next # m.active)
    BY DEF Slots, Other
  <2>3. /\ f \in Metadata /\ f.slot_info = m.slot_info
        /\ \A r \in Slots : f.status[r] # m.status[r] =>
                               r = m.active /\ f.status[r] = "BOOT_FAILED"
    BY DEF Metadata
  <2> HIDE DEF f, next
  <2> DEFINE a == IF f.status[next] = "NORMAL" THEN next ELSE ROOTFS_INVALID
  <2>4. /\ a \in Slots \cup {ROOTFS_INVALID}
        /\ a = next \/ a \notin Slots
    BY <2>2 DEF Slots, ROOTFS_INVALID
  <2>b. k = [f EXCEPT !.active = a, !.retry = tegrabl_get_rootfs_max_retry_count]
    BY <2>1 DEF tegrabl_a_b_set_active_rootfs
  <2> HIDE DEF a
  <2>5. /\ k \in Metadata /\ k.slot_info = f.slot_info /\ k.status = f.status
        /\ k.active = a /\ k.retry = tegrabl_get_rootfs_max_retry_count
    BY <2>3, <2>4, <2>b, Limits DEF Metadata
  <2>6. a # m.active \/ a \notin Slots
    BY <2>2, <2>4 DEF Metadata
  <2> QED
    BY <1>2, <2>3, <2>5, <2>6
<1> QED
  BY <1>1, <1>2

\* One retry of RF_SR is taken, of a fresh count after a switch.
LEMMA TakeRootfs ==
    ASSUME NEW m \in Metadata, NEW rf \in RootfsRegs,
           NEW q, q = TakeRootfsRetry(m, rf)
    PROVE  /\ q \in RootfsRegs
           /\ q.magic = rf.magic /\ q.rotate = rf.rotate
           /\ RootfsAlone /\ rf.retry # 0 => q.retry = rf.retry - 1
           /\ RootfsAlone /\ rf.retry = 0 /\ m.active \in Slots => q.retry = m.retry - 1
<1>1. ROOTFS_INVALID \notin Slots
  BY DEF ROOTFS_INVALID, Slots
<1> QED
  BY <1>1 DEF TakeRootfsRetry, RootfsAlone, RootfsRegs, Metadata

\* RF_SR is initialised once per power cycle.
LEMMA InitRootfsRegister ==
    ASSUME smd \in Metadata, rf_reg \in RootfsRegs,
           NEW rf, rf = tegrabl_a_b_init_rootfs_slot_reg(smd)
    PROVE  /\ rf \in RootfsRegs
           /\ rf_reg.magic => rf = rf_reg
           /\ ~rf_reg.magic /\ (Has("REDUNDANCY_USER") \/ Has("ROOTFS_AB")) =>
                 /\ rf.magic /\ rf.rotate = 0
                 /\ RootfsAlone => rf.retry = smd.retry
           /\ ~(Has("REDUNDANCY_USER") \/ Has("ROOTFS_AB")) => rf = rf_reg
  BY DEF tegrabl_a_b_init_rootfs_slot_reg, RootfsAlone, RootfsRegs, Metadata, Counts

\* The effect of tegrabl_a_b_update_smd on the SMD buffer and the registers when
\* it copies the retry counts.
LEMMA UpdateEffect ==
    ASSUME buf \in Metadata, reg \in BootSlotRegs, rf_reg \in RootfsRegs, UpdateSmd
    PROVE  /\ reg' \in BootSlotRegs /\ rf_reg' \in RootfsRegs /\ buf' \in Metadata
           /\ reg'.slot = reg.slot
           /\ reg'.retry[Other(reg.slot)] = reg.retry[Other(reg.slot)]
           /\ rf_reg'.magic = rf_reg.magic /\ rf_reg'.retry = rf_reg.retry
           /\ rf_reg'.rotate = IF Redundant /\ UserRedundancy
                               THEN (rf_reg.rotate + 1) % 16 ELSE rf_reg.rotate
           /\ buf'.active = buf.active /\ buf'.retry = buf.retry /\ buf'.status = buf.status
           /\ \A s \in Slots : buf'.slot_info[s].retry_count = reg'.retry[s]
           /\ \A s \in Slots : buf'.slot_info[s].priority =
                 IF Redundant /\ UserRedundancy /\ Rotates
                 THEN IF s = reg.slot THEN 14 ELSE 15
                 ELSE buf.slot_info[s].priority
           /\ pc' = IF buf' # backup THEN "flush" ELSE "hand_over"
<1> DEFINE r == IF Redundant THEN Restored(reg) ELSE reg
           m == IF Redundant /\ UserRedundancy THEN check_user_redundancy_status(buf) ELSE buf
<1>1. /\ reg' = r
      /\ rf_reg' = IF Redundant /\ UserRedundancy
                   THEN [rf_reg EXCEPT !.rotate = (@ + 1) % 16] ELSE rf_reg
      /\ buf' = FromRegToSmd(m, r.retry)
      /\ pc' = IF buf' # backup THEN "flush" ELSE "hand_over"
  BY DEF UpdateSmd
<1>2. reg.slot \in Slots /\ Other(reg.slot) \in Slots \ {reg.slot}
  BY DEF BootSlotRegs, Slots, Other
<1>3. /\ r \in BootSlotRegs /\ r.slot = reg.slot
      /\ r.retry[Other(reg.slot)] = reg.retry[Other(reg.slot)]
  BY <1>2, Limits DEF Restored, BootSlotRegs
<1>4. r.retry \in [Slots -> 0 .. 7]
  BY <1>3 DEF BootSlotRegs
<1>5. /\ rf_reg' \in RootfsRegs
      /\ rf_reg'.magic = rf_reg.magic /\ rf_reg'.retry = rf_reg.retry
      /\ rf_reg'.rotate = IF Redundant /\ UserRedundancy
                          THEN (rf_reg.rotate + 1) % 16 ELSE rf_reg.rotate
  BY <1>1 DEF RootfsRegs, Counts
<1>6. /\ m \in Metadata
      /\ m.active = buf.active /\ m.retry = buf.retry /\ m.status = buf.status
      /\ \A s \in Slots : m.slot_info[s].priority =
            IF Redundant /\ UserRedundancy /\ Rotates
            THEN IF s = reg.slot THEN 14 ELSE 15
            ELSE buf.slot_info[s].priority
  <2> DEFINE g == [buf.slot_info EXCEPT ![reg.slot].priority = 14,
                                        ![Other(reg.slot)].priority = 15]
  <2>1. /\ g \in [Slots -> SlotInfos]
        /\ \A s \in Slots : g[s].priority = IF s = reg.slot THEN 14 ELSE 15
    BY <1>2 DEF Metadata, SlotInfos, Counts, Slots
  <2>2. m = IF Redundant /\ UserRedundancy /\ Rotates
            THEN [buf EXCEPT !.slot_info = g] ELSE buf
    BY DEF check_user_redundancy_status, Metadata
  <2> HIDE DEF g, m
  <2> QED
    BY <2>1, <2>2 DEF Metadata
<1> HIDE DEF r, m
<1> QED
  BY <1>1, <1>3, <1>4, <1>5, <1>6, CopyRetries

\* User space restores the retry counts and marks its rootfs good.
LEMMA UeEffect ==
    ASSUME smd \in Metadata, booted.slot \in Slots, UeReached
    PROVE  /\ smd' \in Metadata
           /\ smd'.active = smd.active
           /\ smd'.retry = tegrabl_get_rootfs_max_retry_count
           /\ smd'.status = [smd.status EXCEPT ![booted.rootfs] = "NORMAL"]
<1> DEFINE f == [t \in Slots |->
                   IF t = booted.slot THEN SlotInfo(15, tegrabl_get_max_retry_count, TRUE)
                   ELSE [smd.slot_info[t] EXCEPT !.priority = IF @ = 0 THEN 0 ELSE 14]]
           g == [smd.status EXCEPT ![booted.rootfs] = "NORMAL"]
<1>1. f \in [Slots -> SlotInfos]
  BY Limits DEF SlotInfo, Metadata, SlotInfos, Counts
<1>2. g \in [Slots -> {"NORMAL", "IN_PROGRESS", "BOOT_FAILED"}]
  BY DEF Metadata
<1>3. smd' = [smd EXCEPT !.slot_info = f, !.retry = tegrabl_get_rootfs_max_retry_count,
                         !.status = g]
  BY DEF UeReached, Metadata
<1> HIDE DEF f, g
<1>4. smd' \in Metadata /\ smd'.active = smd.active /\ smd'.status = g
        /\ smd'.retry = tegrabl_get_rootfs_max_retry_count
  BY <1>1, <1>2, <1>3, Limits DEF Metadata
<1> QED
  BY <1>4 DEF g

\* An update selects the other slot and the other rootfs.
LEMMA RebootEffect ==
    ASSUME smd \in Metadata, booted.slot \in Slots, Reboot
    PROVE  /\ smd' \in Metadata
           /\ smd'.retry = smd.retry
           /\ \/ smd' = smd /\ rf_tries' = rf_tries
              \/ /\ smd'.active = Other(booted.rootfs)
                 /\ smd'.status = [smd.status EXCEPT ![Other(booted.rootfs)] = "NORMAL"]
                 /\ rf_tries' = [rf_tries EXCEPT ![Other(booted.rootfs)] = 0]
<1> DEFINE o == Other(booted.rootfs)
           k == tegrabl_a_b_set_active_slot(smd, Other(booted.slot))
<1>1. o \in Slots /\ Other(booted.slot) \in Slots
  BY DEF Other, Slots
<1>2. k \in Metadata /\ k.retry = smd.retry /\ k.status = smd.status
  BY <1>1, SetActiveSlot
<1>3. \/ smd' = smd /\ rf_tries' = rf_tries
      \/ /\ smd' = [k EXCEPT !.active = o, !.status[o] = "NORMAL"]
         /\ rf_tries' = [rf_tries EXCEPT ![o] = 0]
  BY DEF Reboot
<1> HIDE DEF o, k
<1>4. [k EXCEPT !.active = o, !.status[o] = "NORMAL"] =
          [k EXCEPT !.active = o, !.status = [k.status EXCEPT ![o] = "NORMAL"]]
  BY <1>2 DEF Metadata
<1>5. [k.status EXCEPT ![o] = "NORMAL"] \in [Slots -> {"NORMAL", "IN_PROGRESS", "BOOT_FAILED"}]
  BY <1>2 DEF Metadata
<1> DEFINE g == [k.status EXCEPT ![o] = "NORMAL"]
           j == [k EXCEPT !.active = o, !.status = g]
<1> HIDE DEF g
<1>6. j \in Metadata /\ j.active = o /\ j.retry = smd.retry /\ j.status = g
  BY <1>1, <1>2, <1>5 DEF Metadata, g
<1> QED
  BY <1>2, <1>3, <1>4, <1>6 DEF o, g

-----------------------------------------------------------------------------
(* Types.                                                                  *)

LEMMA TypeInit == Init => TypeOK
<1>1. SUFFICES ASSUME Init PROVE TypeOK
  OBVIOUS
<1>2. smd \in Metadata
  <2>1. PICK a \in Slots, b \in {SlotInfo(14, tegrabl_get_max_retry_count, TRUE),
                                 SlotInfo(0, 0, FALSE),
                                 SlotInfo(15, tegrabl_get_max_retry_count, FALSE)},
             st \in {"NORMAL", "IN_PROGRESS"} :
          smd = [slot_info |-> [s \in Slots |->
                     IF s = 1 THEN b
                     ELSE SlotInfo(IF b.priority = 15 THEN 14 ELSE 15,
                                   tegrabl_get_max_retry_count, TRUE)],
                 active |-> a, retry |-> tegrabl_get_rootfs_max_retry_count,
                 status |-> [r \in Slots |-> IF r = a THEN "NORMAL" ELSE st]]
    BY <1>1 DEF Init
  <2>2. \A p \in Counts, n \in 0 .. 7, ok \in BOOLEAN : SlotInfo(p, n, ok) \in SlotInfos
    BY DEF SlotInfo, SlotInfos
  <2>3. [s \in Slots |-> IF s = 1 THEN b
                         ELSE SlotInfo(IF b.priority = 15 THEN 14 ELSE 15,
                                       tegrabl_get_max_retry_count, TRUE)]
            \in [Slots -> SlotInfos]
    <3>1. \A ok \in BOOLEAN, p \in {14, 15} :
             SlotInfo(p, tegrabl_get_max_retry_count, ok) \in SlotInfos
      BY <2>2, Limits DEF Counts
    <3>2. SlotInfo(0, 0, FALSE) \in SlotInfos
      BY DEF SlotInfo, SlotInfos, Counts
    <3>3. b \in SlotInfos
      BY <3>1, <3>2
    <3>4. SlotInfo(IF b.priority = 15 THEN 14 ELSE 15,
                   tegrabl_get_max_retry_count, TRUE) \in SlotInfos
      BY <3>1
    <3> QED
      BY <3>3, <3>4
  <2>4. [r \in Slots |-> IF r = a THEN "NORMAL" ELSE st]
            \in [Slots -> {"NORMAL", "IN_PROGRESS", "BOOT_FAILED"}]
    OBVIOUS
  <2> QED
    BY <2>1, <2>3, <2>4, Limits DEF Metadata
<1>3. reg \in BootSlotRegs /\ rf_reg \in RootfsRegs
  BY <1>1 DEF Init, NoMagic, NoRfMagic, BootSlotRegs, RootfsRegs, Slots, Counts
<1>4. booted \in [slot : Slots, rootfs : Slots \cup {ROOTFS_INVALID}, recovery : BOOLEAN]
  BY <1>1 DEF Init, NoBoot, Slots
<1> QED
  BY <1>1, <1>2, <1>3, <1>4, CountsAssumption, Limits DEF Init, TypeOK, Loaded

\* What a restart of MB1 leaves.
LEMMA RestartTypes ==
    ASSUME Restart
    PROVE  /\ pc' = "mb1" /\ ~Loaded' /\ buf' = NoSmd /\ backup' = NoSmd
           /\ booted' \in [slot : Slots, rootfs : Slots \cup {ROOTFS_INVALID}, recovery : BOOLEAN]
  BY DEF Restart, NoBoot, Slots, Loaded

LEMMA TypeStep == TypeOK /\ RotateBound /\ [Next]_vars => TypeOK'
<1> SUFFICES ASSUME TypeOK, RotateBound, [Next]_vars PROVE TypeOK'
  OBVIOUS
<1>1. NoMagic \in BootSlotRegs /\ NoRfMagic \in RootfsRegs
  BY DEF NoMagic, NoRfMagic, BootSlotRegs, RootfsRegs, Slots, Counts
<1>2. reg.slot \in Slots /\ booted.slot \in Slots
  BY DEF TypeOK, BootSlotRegs
<1>3. CASE Mb1
  <2>1. smd \in Metadata /\ reg \in BootSlotRegs
    BY DEF TypeOK
  <2>2. pc' \in {"rcm", "bl"} /\ reg' \in BootSlotRegs
    BY <1>3, <2>1, Mb1Effect
  <2> QED
    BY <1>3, <2>2 DEF Mb1, TypeOK, Loaded, history
<1>4. CASE tegrabl_a_b_get_smd
  <2> DEFINE rf == tegrabl_a_b_init_rootfs_slot_reg(smd)
  <2>1. smd \in Metadata /\ rf \in RootfsRegs
    BY InitRootfsRegister DEF TypeOK
  <2>2. buf' = tegrabl_a_b_select_active_rootfs(smd, rf) /\ rf_reg' = TakeRootfsRetry(buf', rf)
    BY <1>4 DEF tegrabl_a_b_get_smd
  <2> HIDE DEF rf
  <2>3. buf' \in Metadata
    BY <2>1, <2>2, SelectRootfs
  <2>4. rf_reg' \in RootfsRegs
    BY <2>1, <2>2, <2>3, TakeRootfs
  <2>5. rf_tries' \in [Slots -> 0 .. tegrabl_get_rootfs_max_retry_count]
    BY <1>4, Limits DEF tegrabl_a_b_get_smd, TypeOK
  <2> QED
    BY <1>4, <2>3, <2>4, <2>5 DEF tegrabl_a_b_get_smd, TypeOK, Loaded
<1>5. CASE LoadKernel
  <2>1. buf \in Metadata
    BY <1>5 DEF LoadKernel, TypeOK, Loaded
  <2>2. tegrabl_a_b_get_current_rootfs_id \in Slots \cup {ROOTFS_INVALID}
    <3>1. Bootable(buf) # {} => boot_chain_get_bootslot_from_smd(buf) \in Slots
      BY <2>1, Bootslot DEF Bootable
    <3> QED
      BY <2>1, <3>1 DEF tegrabl_a_b_get_current_rootfs_id, Metadata, Slots
  <2>3. booted' \in [slot : Slots, rootfs : Slots \cup {ROOTFS_INVALID}, recovery : BOOLEAN]
    <3>1. 0 \in Slots
      BY DEF Slots
    <3>2. \/ booted' = [slot |-> reg.slot, rootfs |-> 0, recovery |-> TRUE]
          \/ booted' = [slot |-> reg.slot, rootfs |-> tegrabl_a_b_get_current_rootfs_id,
                        recovery |-> FALSE]
      BY <1>5 DEF LoadKernel
    <3>3. \A r \in Slots \cup {ROOTFS_INVALID}, b \in BOOLEAN :
             [slot |-> reg.slot, rootfs |-> r, recovery |-> b]
                 \in [slot : Slots, rootfs : Slots \cup {ROOTFS_INVALID}, recovery : BOOLEAN]
      BY <1>2
    <3> QED
      BY <2>2, <3>1, <3>2, <3>3, Zenon
  <2>4. rf_reg' \in RootfsRegs
    BY <1>5 DEF LoadKernel, RotationCleared, TypeOK, RootfsRegs, Counts
  <2> QED
    BY <1>5, <2>3, <2>4 DEF LoadKernel, TypeOK, Loaded, history
<1>6. CASE tegrabl_a_b_update_smd
  <2>1. buf \in Metadata /\ backup \in Metadata /\ reg \in BootSlotRegs /\ rf_reg \in RootfsRegs
    BY <1>6 DEF tegrabl_a_b_update_smd, TypeOK, Loaded
  <2>2. /\ reg' \in BootSlotRegs /\ rf_reg' \in RootfsRegs /\ buf' \in Metadata
        /\ pc' \in {"flush", "hand_over", "halted"}
    <3>1. CASE UpdateSmd
      BY <2>1, <3>1, UpdateEffect
    <3>2. CASE pc' \in {"halted", "hand_over"} /\ UNCHANGED <<reg, rf_reg, buf>>
      BY <2>1, <3>2
    <3> QED
      BY <1>6, <3>1, <3>2 DEF tegrabl_a_b_update_smd
  <2> QED
    BY <1>6, <2>1, <2>2 DEF tegrabl_a_b_update_smd, TypeOK, Loaded, history
<1>7. CASE tegrabl_a_b_flush_smd
  <2>1. undisturbed' \in BOOLEAN
    BY <1>7 DEF tegrabl_a_b_flush_smd, TypeOK
  <2>2. upsets' \in 0 .. MaxUpsets
    BY <1>7, CountsAssumption DEF tegrabl_a_b_flush_smd, TypeOK
  <2>3. smd' \in Metadata
    BY <1>7 DEF tegrabl_a_b_flush_smd, TypeOK, Loaded
  <2> QED
    BY <1>7, <2>1, <2>2, <2>3 DEF tegrabl_a_b_flush_smd, TypeOK, Loaded
<1>8. CASE HandOver
  <2>1. tries' \in [Slots -> 0 .. 4]
    <3>1. CASE booted.recovery
      BY <1>8, <3>1, Limits DEF HandOver, TypeOK, RotateBound, RootfsRegs, Counts
    <3>2. CASE ~booted.recovery
      BY <1>8, <3>2, <1>2 DEF HandOver, TypeOK
    <3> QED
      BY <3>1, <3>2
  <2> QED
    BY <1>1, <1>8, <2>1 DEF HandOver, TypeOK, Loaded
<1>9. CASE UeReached
  <2>1. smd' \in Metadata
    BY <1>2, <1>9, UeEffect DEF TypeOK
  <2>2. rf_tries' \in [Slots -> 0 .. tegrabl_get_rootfs_max_retry_count]
    <3>1. 0 \in 0 .. tegrabl_get_rootfs_max_retry_count
      BY Limits
    <3> QED
      BY <1>9, <3>1 DEF UeReached, TypeOK
  <2> QED
    BY <1>1, <1>9, <2>1, <2>2 DEF UeReached, TypeOK, Loaded
<1>10. CASE Reboot
  <2>1. smd' \in Metadata
    BY <1>2, <1>10, RebootEffect DEF TypeOK
  <2>2. rf_tries' \in [Slots -> 0 .. tegrabl_get_rootfs_max_retry_count]
    BY <1>10, Limits DEF Reboot, TypeOK
  <2> QED
    BY <1>10, <2>1, <2>2, RestartTypes DEF Reboot, TypeOK
<1>11. CASE KernelReset
  BY <1>11, RestartTypes DEF KernelReset, TypeOK, history
<1>12. CASE FastbootSetActive
  <2>1. buf' \in Metadata /\ smd' = buf'
    BY <1>12, SetActiveSlot DEF FastbootSetActive, TypeOK, Loaded
  <2>2. undisturbed' \in BOOLEAN
    BY <1>12 DEF FastbootSetActive
  <2>3. actives' \in 0 .. MaxSetActive
    BY <1>12, CountsAssumption DEF FastbootSetActive, TypeOK
  <2> QED
    BY <1>12, <2>1, <2>2, <2>3 DEF FastbootSetActive, TypeOK, Loaded
<1>13. CASE StageReset
  <2>1. undisturbed' \in BOOLEAN
    BY <1>13 DEF StageReset
  <2>2. upsets' \in 0 .. MaxUpsets
    BY <1>13, CountsAssumption DEF StageReset, TypeOK
  <2> QED
    BY <1>13, <2>1, <2>2, RestartTypes DEF StageReset, TypeOK
<1>14. CASE PowerLoss
  BY <1>1, <1>14, RestartTypes, CountsAssumption DEF PowerLoss, TypeOK
<1>15. CASE UNCHANGED vars
  BY <1>15 DEF vars, boot, history, TypeOK, Loaded
<1>16. CASE RemovableWithoutRecovery
  <2>1. rf_reg' \in RootfsRegs
    BY <1>16 DEF RemovableWithoutRecovery, RotationCleared, TypeOK, RootfsRegs, Counts
  <2>2. tries' \in [Slots -> 0 .. 4]
    BY <1>16 DEF RemovableWithoutRecovery, TypeOK
  <2> QED
    BY <1>16, <2>1, <2>2 DEF RemovableWithoutRecovery, TypeOK, Loaded
<1> QED
  BY <1>3, <1>4, <1>5, <1>6, <1>7, <1>8, <1>9, <1>10, <1>11, <1>12, <1>13, <1>14, <1>15, <1>16
     DEF Next, Boot

LEMMA RotateInit == Init => RotateBound
  BY Limits DEF Init, NoRfMagic, RotateBound

LEMMA RotateStep == TypeOK /\ RotateBound /\ [Next]_vars => RotateBound'
<1> SUFFICES ASSUME TypeOK, RotateBound, [Next]_vars PROVE RotateBound'
  OBVIOUS
<1> USE Limits
<1>1. rf_reg.rotate \in Nat
  BY DEF TypeOK, RootfsRegs, Counts
<1>2. NoRfMagic.rotate = 0
  BY DEF NoRfMagic
<1>3. CASE /\ features' = features
           /\ rf_reg' = rf_reg \/ rf_reg' = NoRfMagic
           /\ pc' # "update"
  BY <1>1, <1>2, <1>3 DEF RotateBound
<1>4. CASE tegrabl_a_b_get_smd
  <2> DEFINE rf == tegrabl_a_b_init_rootfs_slot_reg(smd)
  <2>1. smd \in Metadata /\ rf \in RootfsRegs
    BY InitRootfsRegister DEF TypeOK
  <2>2. rf.rotate \in {0, rf_reg.rotate}
    BY DEF tegrabl_a_b_init_rootfs_slot_reg
  <2>3. buf' = tegrabl_a_b_select_active_rootfs(smd, rf) /\ rf_reg' = TakeRootfsRetry(buf', rf)
    BY <1>4 DEF tegrabl_a_b_get_smd
  <2> HIDE DEF rf
  <2>4. buf' \in Metadata
    BY <2>1, <2>3, SelectRootfs
  <2>5. rf_reg'.rotate = rf.rotate
    BY <2>1, <2>3, <2>4, TakeRootfs
  <2> QED
    BY <1>1, <1>4, <2>2, <2>5 DEF tegrabl_a_b_get_smd, RotateBound
<1>5. CASE LoadKernel
  <2>1. UserRedundancy' = UserRedundancy
    BY <1>5 DEF LoadKernel, UserRedundancy, UnifiedEnabled, Has
  <2>2. CASE tegrabl_a_b_rootfs_is_all_unbootable
    <3>1. /\ booted'.recovery
          /\ rf_reg' = IF UserRedundancy THEN [rf_reg EXCEPT !.rotate = 0] ELSE rf_reg
      BY <1>5, <2>2 DEF LoadKernel, RotationCleared
    <3> QED
      BY <2>1, <3>1, <1>1 DEF RotateBound, TypeOK, RootfsRegs
  <2>3. CASE ~tegrabl_a_b_rootfs_is_all_unbootable
    <3>1. ~booted'.recovery /\ rf_reg' = rf_reg
      BY <1>5, <2>3 DEF LoadKernel
    <3>2. UserRedundancy => rf_reg.rotate < get_max_rotate_count
      BY <2>3, <1>1 DEF tegrabl_a_b_rootfs_is_all_unbootable
    <3> QED
      BY <2>1, <3>1, <3>2 DEF RotateBound
  <2> QED
    BY <2>2, <2>3
<1>6. CASE tegrabl_a_b_update_smd
  <2>1. pc = "update" /\ pc' # "update"
    BY <1>6 DEF tegrabl_a_b_update_smd, UpdateSmd
  <2>2. CASE UpdateSmd
    <3>1. rf_reg'.rotate = IF Redundant /\ UserRedundancy
                           THEN (rf_reg.rotate + 1) % 16 ELSE rf_reg.rotate
      BY <2>1, <2>2, UpdateEffect DEF TypeOK, Loaded
    <3>2. UserRedundancy => rf_reg.rotate < get_max_rotate_count
      BY <2>1 DEF RotateBound
    <3> QED
      BY <1>1, <2>1, <3>1, <3>2 DEF RotateBound
  <2>3. CASE rf_reg' = rf_reg
    BY <2>1, <2>3 DEF RotateBound
  <2> QED
    BY <1>6, <2>2, <2>3 DEF tegrabl_a_b_update_smd
<1>7. CASE UNCHANGED vars
  BY <1>7 DEF vars, boot, RotateBound, UserRedundancy, UnifiedEnabled, Has
<1>8. CASE RemovableWithoutRecovery
  <2>1. pc' # "update" /\ features' = features
    BY <1>8 DEF RemovableWithoutRecovery
  <2>2. rf_reg'.rotate \in {0, rf_reg.rotate}
    BY <1>8 DEF RemovableWithoutRecovery, RotationCleared, TypeOK, RootfsRegs
  <2> QED
    BY <1>1, <2>1, <2>2 DEF RotateBound
<1> QED
  BY <1>3, <1>4, <1>5, <1>6, <1>7, <1>8
     DEF Next, Boot, Mb1, tegrabl_a_b_flush_smd, HandOver, UeReached, Reboot, KernelReset,
         FastbootSetActive, StageReset, PowerLoss, Restart

\* Registers, metadata and counters keep the widths of their bit fields, whatever
\* the retry limits, the features and the number of resets: no count of RF_SR
\* exceeds its maximum.
THEOREM TypeCorrect == Spec => [](TypeOK /\ RotateBound)
  BY TypeInit, TypeStep, RotateInit, RotateStep, PTL DEF Spec

-----------------------------------------------------------------------------
(* No rootfs is given up early.                                            *)

LEMMA RootfsInit == Init => RootfsInv
<1> SUFFICES ASSUME Init PROVE RootfsInv
  OBVIOUS
<1>1. /\ smd.retry = tegrabl_get_rootfs_max_retry_count
      /\ \A r \in Slots : smd.status[r] # "BOOT_FAILED"
  BY DEF Init
<1>2. ~rf_reg.magic
  BY DEF Init, NoRfMagic
<1> QED
  BY <1>1, <1>2 DEF Init, RootfsInv, Accounted, Loaded

\* Metadata with the same rootfs fields is accounted for as before.
LEMMA SameRootfs ==
    ASSUME NEW m, NEW k, Accounted(m), features' = features, rf_tries' = rf_tries,
           \/ ~rf_reg'.magic
           \/ rf_reg'.magic = rf_reg.magic /\ rf_reg'.retry = rf_reg.retry,
           k.active = m.active, k.retry = m.retry, k.status = m.status
    PROVE  /\ k.retry = tegrabl_get_rootfs_max_retry_count
           /\ RootfsAlone' /\ rf_reg'.magic /\ k.active \in Slots =>
                 rf_tries'[k.active] + rf_reg'.retry >= tegrabl_get_rootfs_max_retry_count
           /\ \A r \in Slots : k.status[r] = "BOOT_FAILED" =>
                                  rf_tries'[r] = tegrabl_get_rootfs_max_retry_count
  BY DEF Accounted, RootfsAlone, UnifiedEnabled, Has

LEMMA RootfsStep == TypeOK /\ RootfsInv /\ [Next]_vars => RootfsInv'
<1> SUFFICES ASSUME TypeOK, RootfsInv, [Next]_vars PROVE RootfsInv'
  OBVIOUS
<1> USE Limits
<1>1. /\ Accounted(smd) /\ (Loaded => Accounted(buf))
      /\ pc = "ue" => rf_reg = NoRfMagic
  BY DEF RootfsInv
<1>2. ~NoRfMagic.magic
  BY DEF NoRfMagic
<1>3. CASE /\ features' = features /\ rf_tries' = rf_tries
           /\ \/ rf_reg' = NoRfMagic
              \/ rf_reg'.magic = rf_reg.magic /\ rf_reg'.retry = rf_reg.retry
           /\ smd' = smd \/ (Loaded /\ smd'.active = buf.active
                               /\ smd'.retry = buf.retry /\ smd'.status = buf.status)
           /\ Loaded' => Loaded /\ buf'.active = buf.active
                           /\ buf'.retry = buf.retry /\ buf'.status = buf.status
           /\ pc' # "ue"
  <2>1. Accounted(smd)'
    <3>1. CASE smd' = smd
      BY <1>1, <1>2, <1>3, <3>1, SameRootfs DEF Accounted
    <3>2. CASE smd' # smd
      BY <1>1, <1>2, <1>3, <3>2, SameRootfs DEF Accounted
    <3> QED
      BY <3>1, <3>2
  <2>2. Loaded' => Accounted(buf)'
    BY <1>1, <1>2, <1>3, SameRootfs DEF Accounted
  <2> QED
    BY <1>3, <2>1, <2>2 DEF RootfsInv
<1>4. CASE Mb1
  BY <1>3, <1>4 DEF Mb1, Loaded, history
<1>5. CASE tegrabl_a_b_get_smd
  <2> DEFINE rf == tegrabl_a_b_init_rootfs_slot_reg(smd)
             max == tegrabl_get_rootfs_max_retry_count
  <2>1. /\ smd \in Metadata /\ rf_reg \in RootfsRegs
        /\ rf_tries \in [Slots -> 0 .. max]
    BY DEF TypeOK
  <2>2. /\ rf \in RootfsRegs
        /\ rf_reg.magic => rf = rf_reg
        /\ ~rf_reg.magic /\ RootfsAlone => rf.magic /\ rf.retry = smd.retry
    BY <2>1, InitRootfsRegister DEF RootfsAlone
  <2>3. /\ buf' = tegrabl_a_b_select_active_rootfs(smd, rf)
        /\ rf_reg' = TakeRootfsRetry(buf', rf)
        /\ smd' = smd /\ features' = features /\ Loaded' /\ pc' # "ue"
        /\ rf_tries' = [r \in Slots |->
               IF r = buf'.active /\ rf_tries[r] < max THEN rf_tries[r] + 1 ELSE rf_tries[r]]
    BY <1>5 DEF tegrabl_a_b_get_smd, Loaded
  <2> HIDE DEF rf
  <2>4. /\ buf' \in Metadata
        /\ RootfsAlone /\ rf.retry = 0 =>
              /\ buf'.retry = max
              /\ buf'.active # smd.active \/ buf'.active \notin Slots
              /\ \A r \in Slots : buf'.status[r] # smd.status[r] =>
                                     r = smd.active /\ buf'.status[r] = "BOOT_FAILED"
        /\ ~(RootfsAlone /\ rf.retry = 0) => buf' = smd
    BY <2>1, <2>2, <2>3, SelectRootfs
  <2>5. /\ rf_reg' \in RootfsRegs /\ rf_reg'.magic = rf.magic
        /\ RootfsAlone /\ rf.retry # 0 => rf_reg'.retry = rf.retry - 1
        /\ RootfsAlone /\ rf.retry = 0 /\ buf'.active \in Slots => rf_reg'.retry = buf'.retry - 1
    BY <2>2, <2>3, <2>4, TakeRootfs
  <2>6. /\ smd.retry = max
        /\ RootfsAlone /\ smd.active \in Slots => rf_tries[smd.active] + rf.retry >= max
        /\ \A r \in Slots : smd.status[r] = "BOOT_FAILED" => rf_tries[r] = max
    BY <1>1, <2>1, <2>2 DEF Accounted, RootfsRegs, Metadata
  <2>7. RootfsAlone' = RootfsAlone
    BY <2>3 DEF RootfsAlone, UnifiedEnabled, Has
  <2>8. \A r \in Slots : /\ rf_tries[r] \in 0 .. max /\ rf_tries'[r] \in rf_tries[r] .. max
                         /\ r = buf'.active => rf_tries'[r] = max \/ rf_tries'[r] = rf_tries[r] + 1
    BY <2>1, <2>3
  <2> HIDE DEF max
  <2>m. max \in 1 .. 3
    BY DEF max
  <2>r. rf.retry \in 0 .. 3 /\ rf_reg'.retry \in 0 .. 3
    BY <2>2, <2>5 DEF RootfsRegs
  <2>9. \A r \in Slots : smd.status[r] = "BOOT_FAILED" => rf_tries'[r] = max
    BY <2>6, <2>8, <2>m
  <2>10. CASE ~RootfsAlone
    BY <2>3, <2>4, <2>6, <2>7, <2>9, <2>10 DEF RootfsInv, Accounted, max
  <2>11. CASE RootfsAlone /\ rf.retry # 0
    <3>1. buf' = smd /\ rf_reg'.retry = rf.retry - 1
      BY <2>4, <2>5, <2>11
    <3>2. smd.active \in Slots => rf_tries'[smd.active] + rf_reg'.retry >= max
      BY <3>1, <2>6, <2>8, <2>11, <2>m, <2>r
    <3> QED
      BY <2>3, <2>6, <2>9, <3>1, <3>2 DEF RootfsInv, Accounted, max
  <2>12. CASE RootfsAlone /\ rf.retry = 0
    <3>1. smd.active \in Slots => rf_tries[smd.active] = max /\ rf_tries'[smd.active] = max
      BY <2>6, <2>8, <2>12, <2>m, <2>r
    <3>2. smd.active \in Slots => rf_tries'[smd.active] + rf_reg'.retry >= max
      BY <3>1, <2>m, <2>r
    <3>3. buf'.active \in Slots => rf_tries'[buf'.active] + rf_reg'.retry >= max
      BY <2>4, <2>5, <2>8, <2>12, <2>m
    <3>4. \A r \in Slots : buf'.status[r] = "BOOT_FAILED" => rf_tries'[r] = max
      BY <2>4, <2>9, <2>12, <3>1
    <3> QED
      BY <2>3, <2>4, <2>6, <2>9, <2>12, <3>2, <3>3, <3>4 DEF RootfsInv, Accounted, max
  <2> QED
    BY <2>10, <2>11, <2>12
<1>6. CASE LoadKernel
  <2>1. rf_reg'.magic = rf_reg.magic /\ rf_reg'.retry = rf_reg.retry
    BY <1>6 DEF LoadKernel, RotationCleared, TypeOK, RootfsRegs
  <2> QED
    BY <1>3, <1>6, <2>1 DEF LoadKernel, Loaded, history
<1>7. CASE tegrabl_a_b_update_smd
  <2>1. /\ rf_reg'.magic = rf_reg.magic /\ rf_reg'.retry = rf_reg.retry
        /\ buf'.active = buf.active /\ buf'.retry = buf.retry /\ buf'.status = buf.status
        /\ pc' # "ue"
    <3>1. CASE UpdateSmd
      BY <1>7, <3>1, UpdateEffect DEF tegrabl_a_b_update_smd, TypeOK, Loaded
    <3> QED
      BY <1>7, <3>1 DEF tegrabl_a_b_update_smd
  <2> QED
    BY <1>3, <1>7, <2>1 DEF tegrabl_a_b_update_smd, Loaded, history
<1>8. CASE tegrabl_a_b_flush_smd
  BY <1>3, <1>8 DEF tegrabl_a_b_flush_smd, Loaded
<1>9. CASE HandOver
  BY <1>3, <1>9 DEF HandOver, Loaded
<1>10. CASE UeReached
  <2>1. /\ smd'.active = smd.active
        /\ smd'.retry = tegrabl_get_rootfs_max_retry_count
        /\ smd'.status = [smd.status EXCEPT ![booted.rootfs] = "NORMAL"]
    BY <1>10, UeEffect DEF TypeOK
  <2>2. \A r \in Slots : smd'.status[r] = "BOOT_FAILED" =>
                            rf_tries'[r] = tegrabl_get_rootfs_max_retry_count
    BY <1>1, <1>10, <2>1 DEF UeReached, Accounted, TypeOK, Metadata
  <2> QED
    BY <1>2, <1>10, <2>1, <2>2 DEF UeReached, RootfsInv, Accounted, Loaded
<1>11. CASE Reboot
  <2>1. pc = "ue" /\ pc' = "mb1" /\ rf_reg' = rf_reg /\ rf_reg = NoRfMagic
    BY <1>1, <1>11 DEF Reboot, Restart
  <2>2. /\ smd'.retry = smd.retry
        /\ \/ smd' = smd /\ rf_tries' = rf_tries
           \/ /\ smd'.status = [smd.status EXCEPT ![Other(booted.rootfs)] = "NORMAL"]
              /\ rf_tries' = [rf_tries EXCEPT ![Other(booted.rootfs)] = 0]
    BY <1>11, RebootEffect DEF TypeOK
  <2>3. \A r \in Slots : smd'.status[r] = "BOOT_FAILED" =>
                            rf_tries'[r] = tegrabl_get_rootfs_max_retry_count
    BY <1>1, <2>2 DEF Accounted, TypeOK, Metadata
  <2> QED
    BY <1>1, <1>2, <2>1, <2>2, <2>3 DEF RootfsInv, Accounted, Loaded
<1>12. CASE KernelReset
  BY <1>3, <1>12 DEF KernelReset, Restart, Loaded, history
<1>13. CASE FastbootSetActive
  <2>1. Loaded /\ Loaded' /\ smd' = buf' /\ rf_reg' = rf_reg
    BY <1>13 DEF FastbootSetActive, Loaded
  <2>2. buf'.active = buf.active /\ buf'.retry = buf.retry /\ buf'.status = buf.status
    BY <1>13, <2>1, SetActiveSlot, SMTT(60) DEF FastbootSetActive, TypeOK
  <2> QED
    BY <1>3, <1>13, <2>1, <2>2 DEF FastbootSetActive
<1>14. CASE StageReset
  BY <1>3, <1>14 DEF StageReset, Restart, Loaded
<1>15. CASE PowerLoss
  BY <1>3, <1>15 DEF PowerLoss, Restart, Loaded
<1>16. CASE UNCHANGED vars
  BY <1>16 DEF vars, boot, history, RootfsInv, Accounted, Loaded, RootfsAlone,
               UnifiedEnabled, Has
<1>17. CASE RemovableWithoutRecovery
  <2>1. rf_reg'.magic = rf_reg.magic /\ rf_reg'.retry = rf_reg.retry
    BY <1>17 DEF RemovableWithoutRecovery, RotationCleared, TypeOK, RootfsRegs
  <2> QED
    BY <1>3, <1>17, <2>1 DEF RemovableWithoutRecovery, Loaded
<1> QED
  BY <1>4, <1>5, <1>6, <1>7, <1>8, <1>9, <1>10, <1>11, <1>12, <1>13, <1>14, <1>15, <1>16, <1>17
     DEF Next, Boot

\* A rootfs is marked failed only after its full number of attempts, whatever
\* was reset, lost, flushed or not flushed between them: attempts made and
\* retries left in RF_SR add up to the maximum.
THEOREM RootfsTriedInFull == Spec => []RootfsTried
<1>1. TypeOK /\ RootfsInv => RootfsTried
  BY DEF TypeOK, RootfsInv, Accounted, RootfsTried
<1> QED
  BY <1>1, TypeCorrect, RootfsInit, RootfsStep, PTL DEF Spec

-----------------------------------------------------------------------------
(* The assertions of cboot.                                                *)

LEMMA SelectionInit == Init => SelectionInv
  BY DEF Init, SelectionInv

LEMMA SelectionStep == TypeOK /\ SelectionInv /\ [Next]_vars => SelectionInv'
<1> SUFFICES ASSUME TypeOK, SelectionInv, [Next]_vars PROVE SelectionInv'
  OBVIOUS
<1>1. CASE pc' \notin {"bl", "cboot", "update", "halted"}
  BY <1>1 DEF SelectionInv
<1>2. CASE Mb1
  <2>1. pc' = "rcm" \/ (pc' = "bl" /\ Preferred(smd)')
    BY <1>2, Mb1Effect DEF TypeOK
  <2> QED
    BY <2>1 DEF SelectionInv
<1>3. CASE tegrabl_a_b_get_smd
  <2> DEFINE rf == tegrabl_a_b_init_rootfs_slot_reg(smd)
  <2>1. smd \in Metadata /\ rf \in RootfsRegs
    BY InitRootfsRegister DEF TypeOK
  <2>2. UserRedundancy => Has("REDUNDANCY_USER") \/ Has("ROOTFS_AB")
    BY FeaturesAssumption DEF UserRedundancy, UnifiedEnabled, Has, TypeOK
  <2>3. UserRedundancy => rf.magic
    BY <2>1, <2>2, InitRootfsRegister DEF TypeOK
  <2>4. /\ buf' = tegrabl_a_b_select_active_rootfs(smd, rf)
        /\ rf_reg' = TakeRootfsRetry(buf', rf)
        /\ pc = "bl" /\ pc' = "cboot"
        /\ smd' = smd /\ reg' = reg /\ features' = features /\ actives' = actives
    BY <1>3 DEF tegrabl_a_b_get_smd
  <2> HIDE DEF rf
  <2>5. buf' \in Metadata /\ buf'.slot_info = smd.slot_info
    BY <2>1, <2>4, SelectRootfs
  <2>6. rf_reg'.magic = rf.magic
    BY <2>1, <2>4, <2>5, TakeRootfs
  <2>7. UserRedundancy' = UserRedundancy
    BY <2>4 DEF UserRedundancy, UnifiedEnabled, Has
  <2> QED
    BY <2>3, <2>4, <2>5, <2>6, <2>7 DEF SelectionInv, Preferred
<1>4. CASE LoadKernel
  <2>1. rf_reg'.magic = rf_reg.magic
    BY <1>4 DEF LoadKernel, RotationCleared, TypeOK, RootfsRegs
  <2>2. UserRedundancy' = UserRedundancy
    BY <1>4 DEF LoadKernel, UserRedundancy, UnifiedEnabled, Has
  <2> QED
    BY <1>4, <2>1, <2>2 DEF LoadKernel, SelectionInv, Preferred
<1>5. CASE tegrabl_a_b_update_smd
  <2>1. pc = "update"
    BY <1>5 DEF tegrabl_a_b_update_smd
  <2>2. CASE actives = 0
    <3>1. buf.slot_info = smd.slot_info /\ Preferred(smd)
      BY <2>1, <2>2 DEF SelectionInv
    <3>2. PriorityAsserted
      BY <3>1 DEF PriorityAsserted, Rotates, Preferred
    <3>3. pc' \in {"flush", "hand_over"}
      BY <1>5, <3>2 DEF tegrabl_a_b_update_smd, UpdateSmd
    <3> QED
      BY <1>1, <3>3
  <2>3. CASE actives # 0
    <3>1. pc' \in {"flush", "hand_over", "halted"} /\ actives' = actives
      BY <1>5 DEF tegrabl_a_b_update_smd, UpdateSmd
    <3> QED
      BY <1>1, <2>3, <3>1 DEF SelectionInv
  <2> QED
    BY <2>2, <2>3
<1>6. CASE FastbootSetActive
  <2>1. pc = "cboot" /\ pc' = "cboot" /\ actives' # 0 /\ rf_reg' = rf_reg /\ features' = features
    BY <1>6 DEF FastbootSetActive, TypeOK
  <2>2. UserRedundancy' = UserRedundancy
    BY <2>1 DEF UserRedundancy, UnifiedEnabled, Has
  <2> QED
    BY <2>1, <2>2 DEF SelectionInv
<1>7. CASE UNCHANGED vars
  BY <1>7 DEF vars, boot, SelectionInv, Preferred, UserRedundancy, UnifiedEnabled, Has
<1>8. CASE RemovableWithoutRecovery
  <2>1. rf_reg'.magic = rf_reg.magic
    BY <1>8 DEF RemovableWithoutRecovery, RotationCleared, TypeOK, RootfsRegs
  <2>2. UserRedundancy' = UserRedundancy
    BY <1>8 DEF RemovableWithoutRecovery, UserRedundancy, UnifiedEnabled, Has
  <2> QED
    BY <1>8, <2>1, <2>2 DEF RemovableWithoutRecovery, SelectionInv, Preferred
<1> QED
  BY <1>1, <1>2, <1>3, <1>4, <1>5, <1>6, <1>7, <1>8
     DEF Next, Boot, tegrabl_a_b_flush_smd, HandOver, UeReached, Reboot, KernelReset,
         StageReset, PowerLoss, Restart

\* No assertion of cboot fails unless somebody selected a slot over fastboot:
\* MB1 and cboot read the same priorities, so the slot that runs is preferred to
\* the one it is about to switch to, through stale retry counts and lost flushes.
THEOREM AssertionsWithoutFastboot == Spec => []AssertionsHoldWithoutFastboot
<1>1. SelectionInv => AssertionsHoldWithoutFastboot
  BY DEF SelectionInv, AssertionsHoldWithoutFastboot, AssertionsHold
<1> QED
  BY <1>1, TypeCorrect, SelectionInit, SelectionStep, PTL DEF Spec

-----------------------------------------------------------------------------
(* Both slots have their turns.                                            *)

\* At the start of a round nothing is asked of the slots.
LEMMA SharesAtStart ==
    ASSUME NEW m \in Metadata, Bootable(m) = Slots, NEW t \in [Slots -> 0 .. 4]
    PROVE  Shares(boot_chain_get_bootslot_from_smd(m), 0, t)
<1>1. boot_chain_get_bootslot_from_smd(m) \in Slots
  BY Bootslot DEF Slots
<1> QED
  BY <1>1, Limits DEF Shares

LEMMA RotationInit == Init => RotationInv
<1> SUFFICES ASSUME Init PROVE RotationInv
  OBVIOUS
<1>1. smd \in Metadata /\ tries \in [Slots -> 0 .. 4]
  BY TypeInit DEF TypeOK
<1>2. rf_reg.rotate = 0
  BY DEF Init, NoRfMagic
<1>3. Bootable(smd) = Slots => Shares(boot_chain_get_bootslot_from_smd(smd), 0, tries)
  BY <1>1, SharesAtStart
<1> QED
  BY <1>2, <1>3 DEF Init, RotationInv, Pending, Started

\* The slot is preferred by its priorities alone when both are bootable.
LEMMA SamePreference ==
    ASSUME NEW m \in Metadata, NEW k \in Metadata, Bootable(m) = Slots, Bootable(k) = Slots,
           \A s \in Slots : k.slot_info[s].priority = m.slot_info[s].priority
    PROVE  boot_chain_get_bootslot_from_smd(k) = boot_chain_get_bootslot_from_smd(m)
<1>1. Slots # {} /\ 0 \in Slots /\ 1 \in Slots
  BY DEF Slots
<1> QED
  BY <1>1, Bootslot

\* More starts never hurt.
LEMMA MoreStarts ==
    ASSUME NEW cur \in Slots, NEW n \in Nat, NEW t \in [Slots -> Nat], NEW u \in [Slots -> Nat],
           \A s \in Slots : u[s] >= t[s], Shares(cur, n, t)
    PROVE  Shares(cur, n, u)
<1>1. Other(cur) \in Slots
  BY DEF Slots, Other
<1> QED
  BY <1>1, Limits DEF Shares

\* One more rotation, counted for the slot that ran: the preferred slot changes
\* after each half of the round.
LEMMA NextShare ==
    ASSUME NEW cur \in Slots, NEW n \in Nat, n < get_max_rotate_count,
           NEW t \in [Slots -> Nat], NEW u \in [Slots -> Nat], Shares(cur, n, t),
           u[Other(cur)] >= t[Other(cur)],
           u[cur] >= t[cur] + 1 \/ u[cur] >= get_max_rotate_count
    PROVE  Shares(IF n + 1 = get_max_rotate_count \div 2 \/ n + 1 = get_max_rotate_count
                  THEN Other(cur) ELSE cur, n + 1, u)
<1>1. Other(cur) \in Slots /\ Other(Other(cur)) = cur
  BY DEF Slots, Other
<1> DEFINE half == get_max_rotate_count \div 2
<1>2. half \in {1, 2} /\ get_max_rotate_count = 2 * half
  BY Limits
<1>3. /\ n <= get_max_rotate_count
      /\ n < half => t[cur] >= n
      /\ n >= half => t[Other(cur)] >= half /\ t[cur] >= n - half
  BY DEF Shares
<1>4. /\ \A s \in Slots : t[s] \in Nat /\ u[s] \in Nat
      /\ t[cur] \in Nat /\ u[cur] \in Nat /\ t[Other(cur)] \in Nat /\ u[Other(cur)] \in Nat
  BY <1>1
<1>5. \A c \in Slots, k \in Nat :
         /\ k <= 2 * half
         /\ k < half => u[c] >= k
         /\ k >= half => u[Other(c)] >= half /\ u[c] >= k - half
         => Shares(c, k, u)
  BY <1>2 DEF Shares
<1> DEFINE next == IF n + 1 = half \/ n + 1 = 2 * half THEN Other(cur) ELSE cur
<1>6. SUFFICES Shares(next, n + 1, u)
  BY <1>2
<1> HIDE DEF half
<1>7. CASE n + 1 = half
  <2>1. next = Other(cur) /\ u[cur] >= half
    BY <1>2, <1>3, <1>4, <1>7, Limits
  <2> QED
    BY <1>1, <1>2, <1>4, <1>5, <1>7, <2>1
<1>8. CASE n + 1 = 2 * half
  <2>1. next = Other(cur) /\ u[cur] >= half /\ u[Other(cur)] >= half
    BY <1>2, <1>3, <1>4, <1>8, Limits
  <2> QED
    BY <1>1, <1>2, <1>4, <1>5, <1>8, <2>1
<1>9. CASE n + 1 # half /\ n + 1 # 2 * half
  <2>1. next = cur
    BY <1>9
  <2>2. n < half => u[cur] >= n + 1
    BY <1>2, <1>3, <1>4, <1>9
  <2>3. n >= half => u[Other(cur)] >= half /\ u[cur] >= n + 1 - half
    BY <1>2, <1>3, <1>4, <1>9
  <2> QED
    BY <1>1, <1>2, <1>4, <1>5, <1>9, <2>1, <2>2, <2>3
<1> QED
  BY <1>7, <1>8, <1>9

\* Starts are counted in their range.
LEMMA StartedType ==
    ASSUME NEW t \in [Slots -> 0 .. 4], NEW n \in 0 .. 4, NEW c \in Slots
    PROVE  /\ [s \in Slots |-> IF s = c THEN n ELSE 0] \in [Slots -> 0 .. 4]
           /\ [t EXCEPT ![c] = IF @ < 4 THEN @ + 1 ELSE @] \in [Slots -> 0 .. 4]
  OBVIOUS

\* An undisturbed update of the SMD counts the rotation for the slot that runs,
\* and prefers the other slot after each half of the round.
LEMMA UpdateRotation ==
    ASSUME TypeOK, RotateBound, RotationInv, TypeOK', RotateBound',
           tegrabl_a_b_update_smd, UpdateSmd, undisturbed, UserRedundancy,
           Bootable(buf)' = Slots
    PROVE  /\ Pending' = buf'
           /\ Shares(boot_chain_get_bootslot_from_smd(buf'), rf_reg'.rotate, Started')
<1> DEFINE c == reg.slot
           n == rf_reg.rotate
           u == Started'
           Sw == n + 1 = get_max_rotate_count \div 2 \/ n + 1 = get_max_rotate_count
<1>1. /\ pc = "update" /\ smd' = smd /\ backup' = backup /\ tries' = tries /\ booted' = booted
      /\ smd \in Metadata /\ buf \in Metadata /\ backup \in Metadata
      /\ reg \in BootSlotRegs /\ rf_reg \in RootfsRegs
  BY DEF tegrabl_a_b_update_smd, TypeOK, Loaded, history
<1>2. /\ buf' \in Metadata /\ reg'.slot = c
      /\ reg'.retry[Other(c)] = reg.retry[Other(c)]
      /\ rf_reg'.rotate = IF Redundant THEN (n + 1) % 16 ELSE n
      /\ \A s \in Slots : buf'.slot_info[s].retry_count = reg'.retry[s]
      /\ \A s \in Slots : buf'.slot_info[s].priority =
            IF Redundant /\ Rotates THEN IF s = c THEN 14 ELSE 15 ELSE buf.slot_info[s].priority
      /\ pc' = IF buf' # backup THEN "flush" ELSE "hand_over"
  BY <1>1, UpdateEffect
<1>3. /\ backup = smd /\ buf.slot_info = smd.slot_info
      /\ c \in Bootable(smd)
      /\ Bootable(smd) = Slots => c = boot_chain_get_bootslot_from_smd(smd)
      /\ reg.retry[Other(c)] = smd.slot_info[Other(c)].retry_count
  BY <1>1 DEF RotationInv
<1>4. Pending' = buf'
  BY <1>1, <1>2, <1>3 DEF Pending
<1>5. c \in Slots /\ Other(c) \in Slots /\ Other(c) # c /\ Slots = {c, Other(c)}
  BY <1>1 DEF BootSlotRegs, Slots, Other
<1>6. \A s \in Slots : buf'.slot_info[s].retry_count # 0 /\ buf'.slot_info[s].priority # 0
  BY DEF Bootable
<1>7. /\ reg.retry[Other(c)] # 0
      /\ \A s \in Slots : buf.slot_info[s].priority # 0
  BY <1>2, <1>5, <1>6 DEF Rotates
<1>8. Bootable(smd) = Slots
  BY <1>3, <1>5, <1>7 DEF Bootable
<1>9. c = boot_chain_get_bootslot_from_smd(smd)
  BY <1>3, <1>8
<1>10. Rotates <=> Sw
  BY <1>7 DEF Rotates
<1>11. n \in Nat /\ n <= 4 /\ (~booted.recovery => n < get_max_rotate_count)
         /\ (booted.recovery => n = 0)
  BY <1>1, Limits DEF RotateBound, RootfsRegs, Counts
<1>12. /\ u = IF booted.recovery THEN [s \in Slots |-> IF s = c THEN rf_reg'.rotate ELSE 0]
              ELSE [tries EXCEPT ![c] = IF @ < 4 THEN @ + 1 ELSE @]
       /\ u \in [Slots -> 0 .. 4] /\ tries \in [Slots -> 0 .. 4]
  <2>1. pc' \in {"flush", "hand_over"}
    BY <1>2
  <2>2. u = IF booted.recovery THEN [s \in Slots |-> IF s = c THEN rf_reg'.rotate ELSE 0]
            ELSE [tries EXCEPT ![c] = IF @ < 4 THEN @ + 1 ELSE @]
    BY <1>1, <1>2, <2>1 DEF Started
  <2>3. rf_reg'.rotate \in 0 .. 4 /\ tries \in [Slots -> 0 .. 4]
    BY Limits DEF TypeOK, RotateBound, RootfsRegs, Counts
  <2> HIDE DEF c, u
  <2>4. u \in [Slots -> 0 .. 4]
    BY <1>5, <2>2, <2>3, StartedType
  <2> QED
    BY <2>2, <2>3, <2>4
<1>13. ~booted.recovery => Shares(c, n, tries)
  <2>1. Bootable(Pending) = Slots /\ Pending = smd /\ Started = tries
    BY <1>1, <1>8 DEF Pending, Started
  <2> QED
    BY <1>1, <1>9, <2>1 DEF RotationInv
<1>14. u \in [Slots -> Nat] /\ tries \in [Slots -> Nat]
  BY <1>12
<1>15. Bootable(buf') = Slots
  OBVIOUS
<1> HIDE DEF c, n, u, Sw
<1>16. CASE ~Redundant
  <2>1. boot_chain_get_bootslot_from_smd(buf') = c /\ rf_reg'.rotate = n
    <3>1. \A s \in Slots : buf'.slot_info[s].priority = smd.slot_info[s].priority
      BY <1>2, <1>3, <1>16
    <3> QED
      BY <1>1, <1>2, <1>8, <1>9, <1>15, <1>16, <3>1, SamePreference
  <2>2. CASE booted.recovery
    <3>1. Shares(boot_chain_get_bootslot_from_smd(buf'), 0, u)
      BY <1>2, <1>12, <1>15, SharesAtStart
    <3> QED
      BY <1>4, <1>11, <2>1, <2>2, <3>1 DEF u
  <2>3. CASE ~booted.recovery
    <3>1. \A s \in Slots : u[s] >= tries[s]
      BY <1>5, <1>12, <2>3
    <3>2. Shares(c, n, u)
      BY <1>5, <1>11, <1>13, <1>14, <2>3, <3>1, MoreStarts
    <3> QED
      BY <1>4, <2>1, <3>2 DEF u
  <2> QED
    BY <2>2, <2>3
<1>17. CASE Redundant
  <2>1. n < get_max_rotate_count /\ rf_reg'.rotate = n + 1
    BY <1>2, <1>11, <1>17, Limits
  <2>2. boot_chain_get_bootslot_from_smd(buf') = IF Sw THEN Other(c) ELSE c
    <3>1. CASE Sw
      <4>1. buf'.slot_info[c].priority = 14 /\ buf'.slot_info[Other(c)].priority = 15
        BY <1>2, <1>5, <1>10, <1>17, <3>1
      <4>2. boot_chain_get_bootslot_from_smd(buf') =
               IF buf'.slot_info[1].priority > buf'.slot_info[0].priority THEN 1 ELSE 0
        BY <1>2, <1>15, <1>5, Bootslot
      <4> QED
        BY <3>1, <4>1, <4>2, <1>5 DEF Slots, Other
    <3>2. CASE ~Sw
      <4>1. \A s \in Slots : buf'.slot_info[s].priority = smd.slot_info[s].priority
        BY <1>2, <1>3, <1>10, <3>2
      <4> QED
        BY <1>1, <1>2, <1>8, <1>9, <1>15, <3>2, <4>1, SamePreference
    <3> QED
      BY <3>1, <3>2
  <2>3. Shares(IF Sw THEN Other(c) ELSE c, n + 1, u)
    <3>1. CASE booted.recovery
      <4> DEFINE z == [s \in Slots |-> 0]
      <4>1. z \in [Slots -> 0 .. 4] /\ z \in [Slots -> Nat]
        OBVIOUS
      <4>2. Shares(c, n, z)
        BY <1>1, <1>8, <1>9, <1>11, <3>1, <4>1, SharesAtStart
      <4>3. u[Other(c)] >= z[Other(c)] /\ u[c] >= z[c] + 1
        BY <1>5, <1>11, <1>12, <2>1, <3>1
      <4> HIDE DEF z
      <4> QED
        BY <1>5, <1>11, <1>14, <2>1, <4>1, <4>2, <4>3, NextShare DEF Sw
    <3>2. CASE ~booted.recovery
      <4>1. u[Other(c)] >= tries[Other(c)]
              /\ (u[c] >= tries[c] + 1 \/ u[c] >= get_max_rotate_count)
        BY <1>5, <1>12, <3>2, Limits
      <4> QED
        BY <1>5, <1>11, <1>13, <1>14, <2>1, <3>2, <4>1, NextShare DEF Sw
    <3> QED
      BY <3>1, <3>2
  <2> QED
    BY <1>4, <2>1, <2>2, <2>3 DEF u
<1> QED
  BY <1>16, <1>17

LEMMA RotationStep ==
    TypeOK /\ RotateBound /\ RootfsInv /\ RotationInv /\ [Next]_vars => RotationInv'
<1> SUFFICES ASSUME TypeOK, RotateBound, RootfsInv, RotationInv, [Next]_vars
             PROVE  RotationInv'
  OBVIOUS
<1> DEFINE Best(m) == boot_chain_get_bootslot_from_smd(m)
           Idle == {"mb1", "rcm", "bl", "cboot", "halted", "kernel", "recovery", "ue"}
<1>t. TypeOK' /\ RotateBound'
  BY TypeStep, RotateStep
<1>m. smd \in Metadata /\ smd' \in Metadata /\ tries' \in [Slots -> 0 .. 4]
  BY <1>t DEF TypeOK
<1>0. NoRfMagic.rotate = 0
  BY DEF NoRfMagic
<1>1. CASE UNCHANGED vars
  BY <1>1 DEF vars, boot, history, RotationInv, Pending, Started, Redundant,
              UserRedundancy, UnifiedEnabled, Has
<1>f. SUFFICES ASSUME Next PROVE RotationInv'
  BY <1>1
<1>2. features' = features /\ UserRedundancy' = UserRedundancy
  BY <1>f DEF Next, Boot, Mb1, tegrabl_a_b_get_smd, RemovableWithoutRecovery, LoadKernel,
     tegrabl_a_b_update_smd, tegrabl_a_b_flush_smd, HandOver, UeReached, Reboot, KernelReset, FastbootSetActive,
     StageReset, PowerLoss, UserRedundancy, UnifiedEnabled, Has
\* What is left to show when the round starts again, and when it just goes on.
<1>3. ASSUME pc' \in Idle, rf_reg'.rotate = 0, Bootable(smd') = Slots
      PROVE  /\ Pending' = smd' /\ Started' = tries'
             /\ Shares(Best(smd'), rf_reg'.rotate, Started')
  <2>1. Pending' = smd' /\ Started' = tries'
    BY <1>3 DEF Pending, Started
  <2> QED
    BY <1>3, <1>m, <2>1, SharesAtStart
<1>4. ASSUME pc \in Idle, pc' \in Idle, smd' = smd, tries' = tries,
             rf_reg'.rotate = rf_reg.rotate, undisturbed, UserRedundancy, Bootable(smd) = Slots
      PROVE  Shares(Best(smd'), rf_reg'.rotate, Started')
  <2>1. Pending = smd /\ Started = tries /\ pc # "update" /\ Started' = tries'
    BY <1>4 DEF Pending, Started
  <2>2. Shares(Best(smd), rf_reg.rotate, tries)
    BY <1>4, <2>1 DEF RotationInv
  <2> QED
    BY <1>4, <2>1, <2>2
<1>5. CASE Mb1
  <2>1. /\ pc = "mb1" /\ smd' = smd /\ rf_reg' = rf_reg /\ tries' = tries
        /\ undisturbed' = undisturbed
    BY <1>5 DEF Mb1, history
  <2>2. undisturbed => reg = NoMagic
    BY <2>1 DEF RotationInv
  <2>3. \/ pc' = "rcm" /\ reg' = reg
        \/ /\ pc' = "bl"
           /\ reg = NoMagic =>
                 /\ reg'.slot \in Bootable(smd)
                 /\ Bootable(smd) = Slots => reg'.slot = Best(smd)
                 /\ reg'.retry[Other(reg'.slot)] = smd.slot_info[Other(reg'.slot)].retry_count
    BY <1>5, Mb1Effect DEF TypeOK
  <2>4. Pending' = smd'
    BY <2>3 DEF Pending
  <2> HIDE DEF Best
  <2>5. undisturbed /\ UserRedundancy /\ Bootable(smd) = Slots =>
           Shares(Best(smd'), rf_reg'.rotate, Started')
    BY <1>4, <2>1, <2>3
  <2> QED
    BY <1>2, <2>1, <2>2, <2>3, <2>4, <2>5 DEF RotationInv, Best
<1>6. CASE tegrabl_a_b_get_smd
  <2> DEFINE rf == tegrabl_a_b_init_rootfs_slot_reg(smd)
  <2>1. smd \in Metadata /\ rf \in RootfsRegs
    BY InitRootfsRegister DEF TypeOK
  <2>2. rf.rotate \in {0, rf_reg.rotate}
    BY DEF tegrabl_a_b_init_rootfs_slot_reg
  <2>3. /\ buf' = tegrabl_a_b_select_active_rootfs(smd, rf) /\ rf_reg' = TakeRootfsRetry(buf', rf)
        /\ pc = "bl" /\ pc' = "cboot" /\ backup' = smd /\ smd' = smd /\ reg' = reg
        /\ tries' = tries /\ undisturbed' = undisturbed
    BY <1>6 DEF tegrabl_a_b_get_smd
  <2> HIDE DEF rf
  <2>4. buf' \in Metadata /\ buf'.slot_info = smd.slot_info
    BY <2>1, <2>3, SelectRootfs
  <2>5. rf_reg'.rotate = rf.rotate
    BY <2>1, <2>3, <2>4, TakeRootfs
  <2>6. Pending' = smd'
    BY <2>3 DEF Pending
  <2> HIDE DEF Best
  <2>7. undisturbed /\ UserRedundancy /\ Bootable(smd) = Slots =>
           Shares(Best(smd'), rf_reg'.rotate, Started')
    BY <1>3, <1>4, <2>2, <2>3, <2>5
  <2> QED
    BY <1>2, <2>3, <2>4, <2>6, <2>7 DEF RotationInv, Best
<1>7. CASE LoadKernel
  <2>1. /\ pc = "cboot" /\ pc' = "update" /\ smd' = smd /\ buf' = buf /\ backup' = backup
        /\ reg' = reg /\ tries' = tries /\ undisturbed' = undisturbed
    BY <1>7 DEF LoadKernel, history
  <2>2. Pending' = smd /\ Started' = tries /\ Pending = smd /\ Started = tries
    BY <2>1 DEF Pending, Started
  <2>3. ASSUME undisturbed, UserRedundancy, Bootable(smd) = Slots
        PROVE  IF booted'.recovery
               THEN \A s \in Slots : tries[s] >= get_max_rotate_count \div 2
               ELSE Shares(Best(smd), rf_reg'.rotate, tries)
    <3>1. Shares(Best(smd), rf_reg.rotate, tries)
      BY <2>1, <2>2, <2>3 DEF RotationInv
    <3>2. CASE tegrabl_a_b_rootfs_is_all_unbootable
      <4>1. booted'.recovery
        BY <1>7, <3>2 DEF LoadKernel
      <4>2. rf_reg.rotate = get_max_rotate_count
        BY <2>3, <3>2, Limits
           DEF tegrabl_a_b_rootfs_is_all_unbootable, RotateBound, TypeOK, RootfsRegs, Counts
      <4>3. Best(smd) \in Slots
        BY <1>m, <2>3, Bootslot DEF Slots
      <4>4. Slots = {Best(smd), Other(Best(smd))}
        BY <4>3 DEF Slots, Other
      <4> DEFINE half == get_max_rotate_count \div 2
      <4>5. half \in {1, 2} /\ get_max_rotate_count = 2 * half
        BY Limits
      <4>6. tries[Other(Best(smd))] >= half /\ tries[Best(smd)] >= 2 * half - half
        BY <3>1, <4>2, <4>5 DEF Shares
      <4> HIDE DEF half, Best
      <4>7. \A s \in Slots : tries[s] >= half
        BY <4>4, <4>5, <4>6
      <4> QED
        BY <4>1, <4>7 DEF half
    <3>3. CASE ~tegrabl_a_b_rootfs_is_all_unbootable
      BY <1>7, <3>1, <3>3 DEF LoadKernel
    <3> QED
      BY <3>2, <3>3
  <2> HIDE DEF Best
  <2> QED
    BY <1>2, <2>1, <2>2, <2>3 DEF RotationInv, Best
<1>8. CASE tegrabl_a_b_update_smd
  <2>1. /\ pc = "update" /\ pc' \in {"flush", "hand_over", "halted"}
        /\ smd' = smd /\ tries' = tries /\ booted' = booted /\ undisturbed' = undisturbed
    BY <1>8 DEF tegrabl_a_b_update_smd, UpdateSmd, history
  <2>2. ASSUME undisturbed, UserRedundancy, Bootable(Pending') = Slots
        PROVE  Shares(Best(Pending'), rf_reg'.rotate, Started')
    <3>1. CASE UpdateSmd
      <4>1. Pending' = buf'
        <5>1. backup = smd
          BY <2>1, <2>2 DEF RotationInv
        <5>2. pc' = IF buf' # backup THEN "flush" ELSE "hand_over"
          BY <3>1 DEF UpdateSmd
        <5> QED
          BY <2>1, <5>1, <5>2 DEF Pending
      <4>2. Bootable(buf)' = Slots
        BY <2>2, <4>1 DEF Bootable
      <4> QED
        BY <1>t, <1>8, <2>2, <3>1, <4>1, <4>2, UpdateRotation
    <3>2. CASE pc' \in {"halted", "hand_over"} /\ UNCHANGED <<reg, rf_reg, buf>>
      <4>1. Pending' = smd /\ Pending = smd /\ Started = tries
        BY <2>1, <3>2 DEF Pending, Started
      <4>2. /\ Started' \in [Slots -> 0 .. 4] /\ tries \in [Slots -> 0 .. 4]
            /\ ~booted.recovery => \A s \in Slots : Started'[s] >= tries[s]
        <5>1. tries \in [Slots -> 0 .. 4] /\ reg.slot \in Slots /\ rf_reg.rotate \in 0 .. 4
          BY Limits DEF TypeOK, BootSlotRegs, RotateBound, RootfsRegs, Counts
        <5>2. \/ Started' = tries
              \/ Started' = IF booted.recovery
                            THEN [s \in Slots |-> IF s = reg.slot THEN rf_reg.rotate ELSE 0]
                            ELSE [tries EXCEPT ![reg.slot] = IF @ < 4 THEN @ + 1 ELSE @]
          BY <2>1, <3>2 DEF Started
        <5>3. Started' \in [Slots -> 0 .. 4]
          BY <5>1, <5>2, StartedType
        <5>4. ~booted.recovery => \A s \in Slots : Started'[s] >= tries[s]
          BY <5>1, <5>2
        <5> QED
          BY <5>1, <5>3, <5>4
      <4>3. CASE booted.recovery
        <5>1. rf_reg'.rotate = 0
          BY <2>1, <2>2, <3>2, <4>3 DEF RotateBound
        <5> QED
          BY <1>m, <2>2, <4>1, <4>2, <5>1, SharesAtStart
      <4>4. CASE ~booted.recovery
        <5>1. Shares(Best(smd), rf_reg.rotate, tries)
          BY <2>1, <2>2, <4>1, <4>4 DEF RotationInv
        <5>2. Best(smd) \in Slots
          BY <1>m, <2>2, <4>1, Bootslot DEF Slots
        <5>3. /\ rf_reg.rotate \in Nat
              /\ tries \in [Slots -> Nat] /\ Started' \in [Slots -> Nat]
          BY <4>2 DEF TypeOK, RootfsRegs, Counts
        <5> HIDE DEF Best
        <5>4. Shares(Best(smd), rf_reg.rotate, Started')
          BY <4>2, <4>4, <5>1, <5>2, <5>3, MoreStarts
        <5> QED
          BY <3>2, <4>1, <5>4
      <4> QED
        BY <4>3, <4>4
    <3> QED
      BY <1>8, <3>1, <3>2 DEF tegrabl_a_b_update_smd
  <2> HIDE DEF Best
  <2>3. undisturbed' /\ UserRedundancy' /\ Bootable(Pending)' = Slots =>
           Shares(Best(Pending'), rf_reg'.rotate, Started')
    <3>1. Bootable(Pending)' = Bootable(Pending')
      BY DEF Bootable
    <3> QED
      BY <1>2, <2>1, <2>2, <3>1
  <2> QED
    BY <2>1, <2>3 DEF RotationInv, Best
<1>9. CASE tegrabl_a_b_flush_smd
  <2>1. pc = "flush" /\ pc' = "hand_over"
    BY <1>9 DEF tegrabl_a_b_flush_smd
  <2>2. CASE smd' = buf /\ undisturbed' = undisturbed
    <3>1. Pending = buf /\ Pending' = buf
      BY <2>1, <2>2 DEF Pending
    <3>2. Started' = Started /\ rf_reg' = rf_reg
      BY <1>9, <2>1 DEF tegrabl_a_b_flush_smd, Started
    <3>3. Bootable(Pending)' = Bootable(Pending) /\ Best(Pending)' = Best(Pending)
      BY <3>1 DEF Bootable, boot_chain_get_bootslot_from_smd
    <3> QED
      BY <1>2, <2>1, <2>2, <3>1, <3>2, <3>3 DEF RotationInv
  <2>3. CASE ~undisturbed'
    BY <2>1, <2>3 DEF RotationInv
  <2> QED
    BY <1>9, <2>2, <2>3 DEF tegrabl_a_b_flush_smd
<1>10. CASE HandOver
  <2>1. /\ pc = "hand_over" /\ pc' \in {"recovery", "kernel"} /\ reg' = NoMagic
        /\ smd' = smd /\ rf_reg' = rf_reg /\ undisturbed' = undisturbed
    BY <1>10 DEF HandOver
  <2>2. Pending = smd /\ Pending' = smd
    BY <2>1 DEF Pending
  <2>3. Started' = Started
    BY <1>10, <2>1 DEF HandOver, Started
  <2>4. undisturbed /\ UserRedundancy /\ Bootable(smd) = Slots =>
           Shares(Best(smd), rf_reg.rotate, Started)
    BY <2>1, <2>2 DEF RotationInv
  <2> HIDE DEF Best
  <2> QED
    BY <1>2, <2>1, <2>2, <2>3, <2>4 DEF RotationInv, Best
<1>11. CASE UeReached
  <2>1. pc = "kernel" /\ pc' = "ue" /\ reg' = reg /\ rf_reg' = NoRfMagic
    BY <1>11 DEF UeReached
  <2>2. Pending' = smd'
    BY <2>1 DEF Pending
  <2>3. reg' = NoMagic
    BY <2>1 DEF RotationInv
  <2>4. Bootable(smd') = Slots => Shares(Best(smd'), rf_reg'.rotate, Started')
    BY <1>0, <1>3, <2>1
  <2> HIDE DEF Best
  <2> QED
    BY <2>1, <2>2, <2>3, <2>4 DEF RotationInv, Best
<1>12. CASE Reboot
  <2>1. pc = "ue" /\ pc' = "mb1" /\ reg' = reg /\ rf_reg' = rf_reg /\ rf_reg = NoRfMagic
    BY <1>12 DEF Reboot, Restart, RootfsInv
  <2>2. Pending' = smd'
    BY <2>1 DEF Pending
  <2>3. reg' = NoMagic
    BY <2>1 DEF RotationInv
  <2>4. Bootable(smd') = Slots => Shares(Best(smd'), rf_reg'.rotate, Started')
    BY <1>0, <1>3, <2>1
  <2> HIDE DEF Best
  <2> QED
    BY <2>1, <2>2, <2>3, <2>4 DEF RotationInv, Best
<1>13. CASE KernelReset
  <2>1. /\ pc \in {"kernel", "recovery"} /\ pc' = "mb1" /\ reg' = reg /\ rf_reg' = rf_reg
        /\ smd' = smd /\ tries' = tries /\ undisturbed' = undisturbed
    BY <1>13 DEF KernelReset, Restart, history
  <2>2. Pending' = smd'
    BY <2>1 DEF Pending
  <2>3. reg' = NoMagic
    BY <2>1 DEF RotationInv
  <2> HIDE DEF Best
  <2>4. undisturbed /\ UserRedundancy /\ Bootable(smd) = Slots =>
           Shares(Best(smd'), rf_reg'.rotate, Started')
    BY <1>4, <2>1
  <2> QED
    BY <1>2, <2>1, <2>2, <2>3, <2>4 DEF RotationInv, Best
<1>14. CASE FastbootSetActive
  BY <1>14 DEF FastbootSetActive, RotationInv
<1>15. CASE StageReset
  BY <1>15 DEF StageReset, Restart, RotationInv
<1>16. CASE PowerLoss
  <2>1. pc' = "mb1" /\ reg' = NoMagic /\ rf_reg' = NoRfMagic
    BY <1>16 DEF PowerLoss, Restart
  <2>2. Pending' = smd'
    BY <2>1 DEF Pending
  <2>3. Bootable(smd') = Slots => Shares(Best(smd'), rf_reg'.rotate, Started')
    BY <1>0, <1>3, <2>1
  <2> HIDE DEF Best
  <2> QED
    BY <2>1, <2>2, <2>3 DEF RotationInv, Best
<1>17. CASE RemovableWithoutRecovery
  <2>1. /\ pc = "cboot" /\ pc' = "cboot" /\ smd' = smd /\ buf' = buf /\ backup' = backup
        /\ reg' = reg /\ undisturbed' = undisturbed
    BY <1>17 DEF RemovableWithoutRecovery
  <2>2. UserRedundancy => rf_reg'.rotate = 0
    BY <1>17 DEF RemovableWithoutRecovery, RotationCleared, TypeOK, RootfsRegs
  <2>3. Pending' = smd'
    BY <2>1 DEF Pending
  <2>4. UserRedundancy /\ Bootable(smd') = Slots => Shares(Best(smd'), rf_reg'.rotate, Started')
    BY <1>3, <2>1, <2>2
  <2> HIDE DEF Best
  <2> QED
    BY <1>2, <2>1, <2>3, <2>4 DEF RotationInv, Best
<1> QED
  BY <1>f, <1>5, <1>6, <1>7, <1>8, <1>9, <1>10, <1>11, <1>12, <1>13, <1>14, <1>15, <1>16, <1>17
     DEF Next, Boot

\* With two bootable slots, user redundancy boots the recovery kernel only after
\* each slot was started for its half of the rotation, as long as no stage was
\* reset and no flush failed on the way.
THEOREM BothSlotsGetTheirTurns == Spec => []BothSlotsTriedUndisturbed
<1>1. ASSUME TypeOK, RotationInv, undisturbed, pc = "update", booted.recovery, UserRedundancy,
             Bootable(FromRegToSmd(buf, reg.retry)) = Slots
      PROVE  \A s \in Slots : tries[s] >= get_max_rotate_count \div 2
  <2>1. buf \in Metadata /\ reg \in BootSlotRegs /\ reg.retry \in [Slots -> 0 .. 7]
    BY <1>1 DEF TypeOK, Loaded, BootSlotRegs
  <2>2. \A s \in Slots : buf.slot_info[s].priority # 0 /\ reg.retry[s] # 0
    BY <1>1, <2>1, CopyRetries DEF Bootable
  <2>3. /\ buf.slot_info = smd.slot_info /\ reg.slot \in Bootable(smd)
        /\ reg.retry[Other(reg.slot)] = smd.slot_info[Other(reg.slot)].retry_count
    BY <1>1 DEF RotationInv
  <2>4. reg.slot \in Slots /\ Slots = {reg.slot, Other(reg.slot)}
    BY <2>1 DEF BootSlotRegs, Slots, Other
  <2>5. Bootable(smd) = Slots
    BY <2>2, <2>3, <2>4 DEF Bootable
  <2>6. Pending = smd
    BY <1>1 DEF Pending
  <2> QED
    BY <1>1, <2>5, <2>6 DEF RotationInv
<1>2. TypeOK /\ RotationInv => BothSlotsTriedUndisturbed
  BY <1>1 DEF BothSlotsTriedUndisturbed, BothSlotsTried
<1> QED
  BY <1>2, TypeCorrect, RootfsInit, RootfsStep, RotationInit, RotationStep, PTL DEF Spec

\* All of it together: the inductive invariant of A/B boot control, for every
\* feature set, retry limit and number of resets, power losses and set_actives.
THEOREM AbInductive == Spec => []AbInv
  BY TypeCorrect, RootfsInit, RootfsStep, SelectionInit, SelectionStep,
     RotationInit, RotationStep, PTL DEF Spec, AbInv

=============================================================================
