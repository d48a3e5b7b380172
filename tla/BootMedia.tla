------------------------------ MODULE BootMedia ------------------------------
(***************************************************************************)
(* One search for a kernel (tegrabl_load_kernel_and_dtb of                 *)
(* lib/linuxboot/linux_load.c) over the boot devices, built with           *)
(* CONFIG_ENABLE_BOOT_DEVICE_SELECT, CONFIG_ENABLE_EXTLINUX_BOOT,          *)
(* CONFIG_ENABLE_USB_SD_BOOT, CONFIG_ENABLE_NVME_BOOT and                  *)
(* CONFIG_ENABLE_L4T_RECOVERY, without CONFIG_ENABLE_SECURE_BOOT, and what *)
(* it leaves behind in the block device list, the partition manager, the   *)
(* file systems, the extlinux parser and the table of device trees.        *)
(* fastboot may call it again when it has failed.                          *)
(*                                                                         *)
(* Everything is sequential; what varies is the media: every probe, read   *)
(* and check may come out either way, each time.  The heap suffices.       *)
(* The network and dtbo branches have no state of their own here and are   *)
(* left out.  Every device tree is loaded to the address of                *)
(* tegrabl_get_dtb_load_addr.                                              *)
(***************************************************************************)
EXTENDS Integers, Sequences, FiniteSets, SequencesExt

CONSTANTS
    Orders,     \* the boot orders: sequences over "sd", "usb", "nvme", "emmc"
    Ctrls,      \* the number of PCIe controllers a plain "nvme" probes
    MaxEntries, \* boot entries an extlinux.conf may have
    MaxCalls    \* calls of tegrabl_load_kernel_and_dtb

Kinds == {"sd", "usb", "nvme", "emmc"}

ASSUME OrdersAssumption == Orders \subseteq Seq(Kinds)
ASSUME BoundsAssumption == {Ctrls, MaxEntries, MaxCalls} \subseteq Nat

VARIABLES
    m,          \* block devices, published partitions, mounts: see Init
    conf,       \* the static extlinux_conf: the entries' memory and their number
    order,      \* the boot order
    recovery,   \* is the recovery kernel asked for: "no", "once" or "always"
    pc, i, ctrl,        \* where the call is, the boot device and the NVMe controller tried
    bdev, mounted,      \* of the attempt: the device, and fm_handle->mount_path # NULL
    got,        \* what the attempts of all calls have left in memory and in statics
    fdt,        \* fdt_handle_table[TEGRABL_DT_KERNEL]: the call that set it first, 0 for NULL
    calls

vars == <<m, conf, order, recovery, pc, i, ctrl, bdev, mounted, got, fdt, calls>>

NoDev == 0
Nowhere == <<"none", 0>>
Emmc == <<"emmc", 3>>
Prefix == [sd |-> <<"s", "d">>, usb |-> <<"u", "s", "b">>, nvme |-> <<"n", "v">>,
           emmc |-> <<"s", "d", "m", "m", "c">>]

NewDev(id) == [id |-> id, ref |-> 1, published |-> FALSE, live |-> TRUE, open |-> TRUE]

\* Emmc was registered and its partitions published when the board started.
Init ==
    /\ m = [devs    |-> << [NewDev(Emmc) EXCEPT !.published = TRUE] >>,
            bdevs   |-> <<1>>,
            storage |-> <<1>>,
            mounts  |-> <<>>,
            driver  |-> [k \in Kinds |-> k = "emmc"],
            stuck   |-> FALSE,
            fault   |-> {}]
    /\ conf = [section |-> [e \in 1..MaxEntries |-> "unset"], num |-> 0]
    /\ order \in Orders /\ recovery \in {"no", "once", "always"}
    /\ pc = "next" /\ i = 1 /\ ctrl = 0
    /\ bdev = NoDev /\ mounted = FALSE
    /\ got = [kernel |-> Nowhere, dtb |-> Nowhere, ramdisk |-> Nowhere,
              args |-> Nowhere, path |-> Nowhere, status |-> FALSE]
    /\ fdt = 0 /\ calls = 1

----------------------------------------------------------------------------
(* lib/blockdev *)

Touch(mm, o) == IF mm.devs[o].live THEN mm ELSE [mm EXCEPT !.fault = @ \cup {"device"}]

\* dev->close of the drivers; `ok` is whether the PCIe reset of an NVMe device works.
\* The one of an SD card is sdmmc_bdev_close, which does not clear the contexts of
\* tegrabl_sd_bdev.c: the card counts as registered ever after.
CloseHook(mm, o, ok) ==
    LET kind == mm.devs[o].id[1]
    IN  IF kind = "nvme"
        THEN IF ~mm.driver["nvme"] THEN mm
             ELSE [mm EXCEPT !.devs[o].open = FALSE, !.driver["nvme"] = ~ok, !.stuck = @ \/ ~ok]
        ELSE [mm EXCEPT !.devs[o].open = FALSE, !.driver[kind] = (kind = "sd")]

bdev_dec_ref(mm, o, ok) ==
    LET low == [mm EXCEPT !.devs[o].ref = IF @ > 0 THEN @ - 1 ELSE @]
    IN  IF mm.devs[o].ref = 1 /\ o \in Range(mm.bdevs)
        THEN [CloseHook([low EXCEPT !.bdevs = RemoveFirst(@, o)], o, ok)
                  EXCEPT !.devs[o].live = FALSE]
        ELSE low

tegrabl_blockdev_close(mm, o, ok) == bdev_dec_ref(Touch(mm, o), o, ok)

\* The first entry of the list that has no reference ends the search.
tegrabl_blockdev_open(mm, id) ==
    LET at == SelectInSeq(mm.bdevs, LAMBDA o : mm.devs[o].ref = 0 \/ mm.devs[o].id = id)
    IN  IF at = 0 \/ mm.devs[mm.bdevs[at]].ref = 0 THEN NoDev ELSE mm.bdevs[at]

tegrabl_blockdev_register_device(mm, id) ==
    LET new == [mm EXCEPT !.devs = Append(@, NewDev(id))]
        dup == \E o \in Range(mm.bdevs) : mm.devs[o].id = id
    IN  [m |-> IF dup THEN new ELSE [new EXCEPT !.bdevs = Append(@, Len(new.devs))], ok |-> ~dup]

(* tegrabl_nvme_bdev_open, tegrabl_usbmsd_bdev_open and sd_bdev_open: the   *)
(* first two do nothing once one of their devices is there, whichever it    *)
(* is; the last initialises the card again but registers it only once.      *)
DriverOpen(mm, id, works) ==
    LET kind == id[1]
        reg  == tegrabl_blockdev_register_device(mm, id)
    IN  IF mm.driver[kind] /\ kind \in {"usb", "nvme"} THEN [m |-> mm, ok |-> TRUE]
        ELSE IF ~works THEN [m |-> mm, ok |-> FALSE]
        ELSE IF mm.driver[kind] THEN [m |-> mm, ok |-> TRUE]
        ELSE [reg EXCEPT !.m.driver[kind] = reg.ok]

(* lib/partition_manager *)

tegrabl_partition_publish(mm, o, gpt) ==
    IF mm.devs[o].published THEN [m |-> mm, ok |-> TRUE]
    ELSE IF gpt THEN [m |-> [mm EXCEPT !.storage = <<o>> \o @, !.devs[o].published = TRUE], ok |-> TRUE]
    ELSE [m |-> mm, ok |-> FALSE]

tegrabl_partitions_unpublish(mm, o) ==
    LET t  == Touch(mm, o)
        at == SelectInSeq(t.storage, LAMBDA x : t.devs[x].id = t.devs[o].id)
    IN  IF ~t.devs[o].published THEN t
        ELSE [t EXCEPT !.storage = IF at = 0 THEN @ ELSE RemoveAt(@, at),
                       !.devs[o].published = FALSE]

(* lib/fs *)

\* A path is taken for a mount when it merely starts with the mount's path.
find_mount(mm, kind) == SelectInSeq(mm.mounts, LAMBDA x : IsPrefix(Prefix[x.kind], Prefix[kind]))

put_mount(mm, at, ok) ==
    IF mm.mounts[at].ref > 1 THEN [mm EXCEPT !.mounts[at].ref = @ - 1]
    ELSE tegrabl_blockdev_close([mm EXCEPT !.mounts = RemoveAt(@, at)], mm.mounts[at].dev, ok)

fs_mount(mm, kind, o, works, ok) ==
    IF find_mount(mm, kind) # 0 THEN [m |-> mm, ok |-> FALSE]
    ELSE IF ~works THEN [m |-> tegrabl_blockdev_close(mm, o, ok), ok |-> FALSE]
    ELSE [m |-> [mm EXCEPT !.mounts = <<[kind |-> kind, dev |-> o, ref |-> 1]>> \o @], ok |-> TRUE]

\* Mutant: only the reference of the search is given back.
UnmountOnce(mm, kind, ok) == mm

\* The reference of the search is given back, and the one of the mount.
fs_unmount(mm, kind, ok) ==
    LET at == find_mount(mm, kind)
    IN  IF at = 0 THEN mm ELSE put_mount(mm, at, ok)

(* lib/file_manager *)

\* The file system is looked for in the boot partition, or at sector 0 without a table.
tegrabl_fm_publish(mm, o, r) ==
    LET pub == tegrabl_partition_publish(mm, o, r.gpt)
        kind == mm.devs[o].id[1]
    IN  IF (pub.ok /\ ~r.boot) \/ ~r.fs THEN [m |-> pub.m, ok |-> FALSE]
        ELSE fs_mount(pub.m, kind, o, r.mount, r.reset)

tegrabl_fm_close(mm, kind, mnt, ok) == IF mnt THEN fs_unmount(mm, kind, ok) ELSE mm

----------------------------------------------------------------------------
(* lib/linuxboot: an attempt on a device *)

\* By tegrabl_load_binary in this call, or the kernel that fastboot downloaded for it.
Partition == <<"partition", calls>>
OrderAt(k) == IF k > Len(order) THEN "emmc" ELSE order[k]
DevId == CASE OrderAt(i) = "emmc" -> Emmc
           [] OrderAt(i) = "nvme" -> <<"nvme", ctrl>>
           [] OTHER -> <<OrderAt(i), 0>>

PublishResults == [gpt : BOOLEAN, boot : BOOLEAN, fs : BOOLEAN, mount : BOOLEAN, reset : BOOLEAN]
Publish(o, mm) ==
    \E r \in PublishResults :
        LET p == tegrabl_fm_publish(mm, o, r)
        IN  m' = p.m /\ mounted' = p.ok

\* The local boot_to_recovery: the mode of bootctrl and a rootfs without a slot ask
\* every time, a rotation count at its limit once, as
\* tegrabl_a_b_rootfs_is_all_unbootable clears it.
BootToRecovery == recovery # "no"
AskRecovery == recovery' = IF recovery = "once" THEN "no" ELSE recovery

\* init_storage_device, tegrabl_blockdev_open, tegrabl_fm_publish and the question
\* for recovery of removable_boot_load_kernel_and_dtb.
RemovableOpen ==
    /\ pc = "next" /\ OrderAt(i) # "emmc"
    /\ \E works \in BOOLEAN :
          LET d == DriverOpen(m, DevId, works)
              o == tegrabl_blockdev_open(d.m, DevId)
          IN  IF d.ok /\ o # NoDev
              THEN /\ Publish(o, [d.m EXCEPT !.devs[o].ref = @ + 1])
                   /\ AskRecovery
                   /\ bdev' = o /\ pc' = IF BootToRecovery THEN "recover" ELSE "load"
              ELSE /\ m' = d.m /\ pc' = "gave up"
                   /\ UNCHANGED <<recovery, bdev, mounted>>
    /\ UNCHANGED <<conf, order, i, ctrl, got, fdt, calls>>

\* fixed_boot_load_kernel_and_dtb; a recovery kernel that cannot be loaded resets the
\* board, and its device tree is loaded whether or not there is a handle.
FixedOpen ==
    /\ pc = "next" /\ OrderAt(i) = "emmc"
    /\ AskRecovery
    /\ IF BootToRecovery
       THEN /\ UNCHANGED <<m, bdev, mounted>>
            /\ \/ pc' = "loaded"
                  /\ got' = [got EXCEPT !.kernel = Partition, !.dtb = Partition]
               \/ pc' = "reset" /\ UNCHANGED got
       ELSE LET o == tegrabl_blockdev_open(m, Emmc)
            IN  /\ Publish(o, [m EXCEPT !.devs[o].ref = @ + 1])
                /\ bdev' = o /\ pc' = "load" /\ UNCHANGED got
    /\ UNCHANGED <<conf, order, i, ctrl, fdt, calls>>

\* load_from_partition: kernel, then device tree, by tegrabl_fm_read_partition.
LoadFromPartition ==
    /\ pc = "recover" \/ (pc = "load" /\ OrderAt(i) # "emmc" /\ ~mounted)
    /\ \/ /\ m.devs[bdev].published
          /\ got' = [got EXCEPT !.kernel = DevId, !.dtb = DevId]
          /\ pc' = "close ok"
       \/ /\ got' \in {got, [got EXCEPT !.kernel = DevId]}
          /\ pc' = "close"
    /\ UNCHANGED <<m, conf, order, recovery, i, ctrl, bdev, mounted, fdt, calls>>

----------------------------------------------------------------------------
(* lib/linuxboot/extlinux_boot.c *)

\* load_and_parse_conf_file: the entries of a good file replace those of an earlier one.
parse_conf_file(c, n) == [section |-> [e \in 1..MaxEntries |-> IF e <= n THEN "live" ELSE c.section[e]],
                          num |-> n]

free_sections(c) == [c EXCEPT !.section = [e \in 1..MaxEntries |-> IF e <= c.num THEN "freed" ELSE c.section[e]]]
FreedTwice(c) == \E e \in 1..c.num : c.section[e] # "live"

\* What an attempt finds: entries, whether the chosen one names a kernel and a
\* ramdisk, whether the files and the partitions read and check out.
Finds == [n : 0..MaxEntries, linux : BOOLEAN, initrd : BOOLEAN,
          file : BOOLEAN, part : BOOLEAN, dtb : {"file", "part", "none"}, ram : BOOLEAN]

\* Mutant: an entry without ramdisk leaves the path of an earlier one.
DetailsKeepingPath(id, f, g) == [g EXCEPT !.path = IF f.initrd THEN id ELSE @, !.args = id]

\* g_ramdisk_path and g_boot_args are set by every file that is parsed.
BootDetails(id, f, g) == [g EXCEPT !.path = IF f.initrd THEN id ELSE Nowhere, !.args = id]

(* extlinux_boot_load_kernel_and_dtb and extlinux_boot_load_ramdisk for     *)
(* the device id.  A kernel that is not in the file system comes from the   *)
(* partition; a ramdisk does not.  When there is a handle of a kernel's     *)
(* device tree, what it points to is taken and none is loaded.              *)
extlinux_boot_load_kernel_and_dtb(id, f, mnt, g, handle) ==
    LET parsed  == mnt /\ f.n > 0
        rootfs  == parsed /\ f.linux /\ f.file
        g1 == IF parsed THEN BootDetails(id, f, g) ELSE g
        g2 == [g1 EXCEPT !.kernel = IF rootfs THEN id
                                    ELSE IF f.part THEN Partition ELSE @]
        g3 == [g2 EXCEPT !.dtb = IF handle THEN @
                                 ELSE IF parsed /\ f.dtb = "file" THEN id ELSE Partition]
    IN  IF ~rootfs /\ ~f.part THEN [got |-> g2, ok |-> FALSE]
        ELSE IF ~handle /\ f.dtb = "none" THEN [got |-> g2, ok |-> FALSE]
        ELSE IF ~rootfs THEN [got |-> g3, ok |-> TRUE]
        ELSE IF g3.path = Nowhere THEN [got |-> [g3 EXCEPT !.status = TRUE], ok |-> TRUE]
        ELSE IF f.ram THEN [got |-> [g3 EXCEPT !.ramdisk = g3.path, !.status = TRUE], ok |-> TRUE]
        ELSE [got |-> g3, ok |-> FALSE]

ExtlinuxBoot ==
    /\ pc = "load"
    /\ OrderAt(i) = "emmc" \/ mounted
    /\ \E f \in Finds :
          LET c == IF mounted /\ f.n > 0 THEN parse_conf_file(conf, f.n) ELSE conf
              l == extlinux_boot_load_kernel_and_dtb(m.devs[bdev].id, f, mounted, got, fdt # 0)
          IN  /\ got' = l.got
              /\ conf' = free_sections(c)
              /\ m' = IF FreedTwice(c) THEN [m EXCEPT !.fault = @ \cup {"section"}] ELSE m
              /\ pc' = IF l.ok THEN "close ok" ELSE "close"
    /\ UNCHANGED <<order, recovery, i, ctrl, bdev, mounted, fdt, calls>>

----------------------------------------------------------------------------
(* The end of an attempt *)

\* Mutant: the device is left to its reference count.
NoForceClose(mm, o, ok) == mm

\* `bdev->close(bdev)` after tegrabl_blockdev_close.
ForceClose(mm, o, ok) ==
    CloseHook(IF mm.devs[o].live THEN mm ELSE [mm EXCEPT !.fault = @ \cup {"forced close"}], o, ok)

RemovableClose ==
    /\ pc \in {"close", "close ok"} /\ OrderAt(i) # "emmc"
    /\ \E ok \in BOOLEAN :
          LET kind == m.devs[bdev].id[1]
              un == tegrabl_partitions_unpublish(m, bdev)
              fm == tegrabl_fm_close(un, kind, mounted, ok)
              cl == tegrabl_blockdev_close(fm, bdev, ok)
          IN  m' = IF kind = "nvme" THEN ForceClose(cl, bdev, ok) ELSE cl
    /\ bdev' = NoDev /\ mounted' = FALSE
    /\ pc' = IF pc = "close ok" THEN "loaded" ELSE "gave up"
    /\ UNCHANGED <<conf, order, recovery, i, ctrl, got, fdt, calls>>

FixedClose ==
    /\ pc \in {"close", "close ok"} /\ OrderAt(i) = "emmc"
    /\ m' = tegrabl_fm_close(m, "emmc", mounted, TRUE)
    /\ bdev' = NoDev /\ mounted' = FALSE
    /\ pc' = IF pc = "close ok" THEN "loaded" ELSE "failed"
    /\ UNCHANGED <<conf, order, recovery, i, ctrl, got, fdt, calls>>

\* nvme_load_kernel_and_dtb goes through the controllers, the caller through the devices.
NextDevice ==
    /\ pc = "gave up"
    /\ pc' = "next"
    /\ IF OrderAt(i) = "nvme" /\ ctrl + 1 < Ctrls
       THEN ctrl' = ctrl + 1 /\ UNCHANGED i
       ELSE i' = i + 1 /\ ctrl' = 0
    /\ UNCHANGED <<m, conf, order, recovery, bdev, mounted, got, fdt, calls>>

\* From where the handle is set: it stays when an update of the device tree fails.
extract_kernel_dtb ==
    /\ fdt' = IF fdt = 0 THEN calls ELSE fdt
    /\ pc' \in {"booted", "failed"}

\* extract_kernel, extract_ramdisk and extract_kernel_dtb.  A boot image carries its
\* own ramdisk; the arguments of extlinux.conf are used if the status says so.
Extract ==
    /\ pc = "loaded"
    /\ \/ pc' = "failed" /\ UNCHANGED fdt
       \/ extract_kernel_dtb
    /\ UNCHANGED <<m, conf, order, recovery, i, ctrl, bdev, mounted, got, calls>>

\* cmd_boot of fastboot has answered OKAY before the call, says nothing when it fails,
\* and may be given again.
CallAgain ==
    /\ pc = "failed" /\ calls < MaxCalls
    /\ calls' = calls + 1
    /\ pc' = "next" /\ i' = 1 /\ ctrl' = 0
    /\ UNCHANGED <<m, conf, order, recovery, bdev, mounted, got, fdt>>

Next ==
    \/ RemovableOpen \/ FixedOpen
    \/ LoadFromPartition \/ ExtlinuxBoot
    \/ RemovableClose \/ FixedClose
    \/ NextDevice \/ Extract \/ CallAgain

Spec == Init /\ [][Next]_vars

----------------------------------------------------------------------------

(* The block device list, the published partitions and the mounts never    *)
(* hold a device whose memory was given back, and a listed device has a    *)
(* reference; between two attempts no file system is mounted, nothing but  *)
(* the fixed storage is published, and a removable device that is still    *)
(* listed has only the reference of the list.  That is what                *)
(* tegrabl_blockdev_open, fs_mount, put_mount and the two closing paths of *)
(* removable_boot.c have to agree on, since a mount takes no reference of  *)
(* its own but gives one back.                                             *)
ReferencesAgree ==
    /\ \A o \in Range(m.bdevs) : m.devs[o].live /\ m.devs[o].ref > 0
    /\ \A o \in Range(m.storage) : m.devs[o].live /\ m.devs[o].published
    /\ \A x \in Range(m.mounts) : m.devs[x.dev].live
    /\ "device" \notin m.fault
    /\ pc \in {"next", "gave up"} =>
         /\ m.mounts = <<>> /\ m.storage = <<1>>
         /\ \A o \in Range(m.bdevs) : m.devs[o].id # Emmc => m.devs[o].ref = 1

(* A call that boots has loaded the kernel in its last attempt, not in one  *)
(* given up, and the device tree too, unless an earlier call failed after   *)
(* it had set the handle: then extlinux_boot.c takes the device tree that   *)
(* is in memory, whoever loaded it.  And if the arguments of an             *)
(* extlinux.conf are used, in the first call, then the kernel, the          *)
(* arguments and the ramdisk are from one file system: the static           *)
(* variables of extlinux_boot.c never mix two devices, although each        *)
(* attempt leaves its values behind for the next.                           *)
LoadedTogether ==
    pc = "booted" =>
        /\ got.kernel \in {DevId, Partition}
        /\ got.dtb # Nowhere
        /\ fdt = calls => got.dtb \in {DevId, Partition}
        /\ got.status /\ calls = 1 =>
              /\ got.kernel = got.args
              /\ got.path # Nowhere => got.ramdisk = got.kernel

(* When an attempt starts, the NVMe driver holds no controller: one that    *)
(* it held would hide every other one, since tegrabl_nvme_bdev_open does    *)
(* nothing once it has a device.  That is what the forced close of          *)
(* removable_boot.c is for; only a PCIe reset that fails keeps the driver   *)
(* occupied.                                                                *)
ControllersReleased ==
    pc = "next" /\ ~m.stuck => ~m.driver["nvme"]

----------------------------------------------------------------------------
(* The inductive invariant behind these three, of BootMediaProofs. *)

Sources == (Kinds \cup {"none", "partition"}) \X Nat
Loads == [kernel : Sources, dtb : Sources, ramdisk : Sources,
          args : Sources, path : Sources, status : BOOLEAN]
Confs == [section : [1..MaxEntries -> {"unset", "live", "freed"}], num : 0..MaxEntries]
Devices == [id : Kinds \X Nat, ref : Nat, published : BOOLEAN, live : BOOLEAN, open : BOOLEAN]
Media == [devs : Seq(Devices), bdevs : Seq(Nat), storage : Seq(Nat),
          mounts : Seq([kind : Kinds, dev : Nat, ref : Nat]),
          driver : [Kinds -> BOOLEAN], stuck : BOOLEAN,
          fault : SUBSET {"device", "section", "forced close"}]

TypeOK ==
    /\ m \in Media
    /\ conf \in Confs
    /\ order \in Orders /\ recovery \in {"no", "once", "always"}
    /\ pc \in {"next", "recover", "load", "close", "close ok", "gave up", "loaded", "reset", "booted", "failed"}
    /\ i \in Nat \ {0} /\ ctrl \in Nat /\ bdev \in Nat /\ mounted \in BOOLEAN
    /\ got \in Loads /\ fdt \in Nat
    /\ calls \in Nat \ {0}

Trying == pc \in {"recover", "load", "close", "close ok"}

\* The device list: no entry twice, none freed, none without a reference; the fixed
\* storage comes first.
ListSound(mm) ==
    /\ Len(mm.bdevs) > 0 /\ mm.bdevs[1] = 1
    /\ \A j, k \in 1..Len(mm.bdevs) : j # k => mm.bdevs[j] # mm.bdevs[k]
    /\ \A j \in 1..Len(mm.bdevs) :
          /\ mm.bdevs[j] \in 1..Len(mm.devs)
          /\ mm.devs[mm.bdevs[j]].live /\ mm.devs[mm.bdevs[j]].ref > 0
    /\ mm.devs[1].id = Emmc /\ mm.devs[1].published
    /\ "device" \notin mm.fault

\* Devices other than o and the fixed storage are as an attempt leaves them.
OthersAtRest(mm, o) ==
    \A j \in 1..Len(mm.bdevs) : mm.bdevs[j] \notin {1, o} =>
        mm.devs[mm.bdevs[j]].ref = 1 /\ ~mm.devs[mm.bdevs[j]].published

\* An attempt on o holds a reference unless a mount that failed has given it back
\* already; a mount of its own is the only one.
Held(mm, o, id, mnt) ==
    /\ \E j \in 1..Len(mm.bdevs) : mm.bdevs[j] = o
    /\ mm.devs[o].id = id
    /\ o = 1 <=> id = Emmc
    /\ mm.mounts = IF mnt THEN << [kind |-> id[1], dev |-> o, ref |-> 1] >> ELSE <<>>
    /\ mnt => mm.devs[o].ref > 1
    /\ o # 1 => mm.devs[o].ref \in {1, 2}
    /\ mm.storage = IF o # 1 /\ mm.devs[o].published THEN <<o, 1>> ELSE <<1>>

Released(mm) == mm.mounts = <<>> /\ mm.storage = <<1>>

\* Only an attempt on an NVMe device occupies the driver.
DriverInv == m.driver["nvme"] /\ ~m.stuck => Trying /\ OrderAt(i) = "nvme"

\* The kernel of an attempt that succeeded, and what the first call says of extlinux.
LoadInv ==
    /\ pc \in {"close ok", "loaded", "booted"} => got.kernel \in {DevId, Partition}
    /\ calls = 1 /\ pc \in {"next", "recover", "load", "close", "gave up"} => ~got.status
    /\ calls = 1 /\ got.status =>
          /\ got.kernel = got.args
          /\ got.path # Nowhere => got.ramdisk = got.kernel

\* The device tree of an attempt that succeeded, and the handle: until the end of a
\* call, only an earlier one can have set it.
HandleInv ==
    /\ fdt # 0 => got.dtb # Nowhere
    /\ fdt <= calls /\ (pc \notin {"booted", "failed"} => fdt < calls)
    /\ pc \in {"close ok", "loaded", "booted"} =>
          got.dtb # Nowhere /\ (fdt \in {0, calls} => got.dtb \in {DevId, Partition})
    /\ pc = "booted" => fdt # 0

MediaInv ==
    /\ TypeOK
    /\ ListSound(m) /\ OthersAtRest(m, bdev)
    /\ Trying => Held(m, bdev, DevId, mounted)
    /\ ~Trying => Released(m) /\ bdev = NoDev /\ ~mounted
    /\ DriverInv
    /\ LoadInv

=============================================================================
