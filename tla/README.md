# Verification of the common part of cboot

TLA+ specifications of the parts of this repository (the common code of NVIDIA's
cboot and MB2 boot loaders for Tegra) that carry state from one step, one
call, one processor or one boot to the next, with TLC models and TLAPS proofs.

## 1. Inventory

The repository is a library: `lib/` holds the boot logic and its services,
`drivers/` the hardware drivers, `include/` the interfaces. The platform code
that calls it (main loop, board configuration) is elsewhere. The loader runs on
one core, without threads or preemption; concurrency comes from outside: the
BPMP firmware on the other end of shared memory, devices, and resets and power
losses at any instruction, which the state on storage and in scratch registers
has to survive.

| Part | State | Operations | What is hard | Correct when |
|---|---|---|---|---|
| IVC channel, `lib/ipc/tegra-ivc.c` | two rings of frames in shared memory with `w_count`, `r_count`, `state`; private `w_pos`, `r_pos` | read, write, peek, poke, advance, reset, notified | every access interleaves with the other processor; counters wrap; a reset may come in the middle of a call | bounded FIFO per direction, no data race, no lost wake-up, every reset completes |
| BPMP client, `lib/ipc/tegrabl_bpmp_fw_interface.c` | one channel, one request | `tegrabl_ipc_init`, `tegrabl_ccplex_bpmp_xfer` | time-out against a late answer; frames of the previous stage | each call returns; answers match their requests |
| Slot metadata store, `lib/a_b_boot` | two copies on storage, a buffer, `current_smd` | get, flush | reset or write error between the copies, read error of the newer one | the next boot finds the old or the new metadata, whole, and only the new after a flush that was done |
| A/B boot control, `lib/a_b_boot` | slot priorities, retry counts, rootfs status in the SMD; scratch registers SR and RF_SR; `smd_backup` | select slot, select rootfs, count, rotate, update, set active | three places hold the same counts; they differ in what they survive | slots and rootfs get all their tries, and failing boots end |
| Boot media search, `lib/linuxboot`, `lib/file_manager`, `lib/fs/fs.c` | list of block devices with reference counts, published partitions, mounts, drivers initialised, static parse result of `extlinux.conf`, handle of the kernel device tree | try each boot device in turn, publish, mount, parse, load, close, fall back | every step may fail; state is static and shared by the attempts; references pass through four layers | nothing freed is in use, kernel and ramdisk belong together, controllers are released |
| Fastboot, `lib/fastboot` | state of the loop, download buffer and its size, lock state | command loop | commands in any order, failing transfers, answers that are not sent | one answer each at most, flash only what was downloaded, nothing while locked |
| Sparse images, `lib/sparse` | state of a resumable parser | init, unsparse | input cut anywhere | output independent of the cuts |
| Heap, `lib/malloc` | free lists with boundary headers | alloc, align, free | coalescing at the edges | blocks disjoint, memory conserved |
| Block cache, `lib/bcache` | free and LRU lists, reference counts | get, put, read | error paths, eviction | each block on one list, content of the device |
| Ext2 and ext4, `lib/fs/ext2`, `lib/fs/ext4` | mount with its cache, root inode, open file | mount, walk, read, close, unmount | indirection, holes, extents, references held across reads | bytes of the file, no reference left |
| Bootloader update, `lib/bootloader_update` | payload-checked flag, list of updated partitions | check, walk dependencies, write | reset or failure between writes, a second update after a failed one | order of dependencies, complete on success, other slot kept |
| Block devices, partition manager, GPT | device list, published partitions, offsets of open ones | publish, open, read, write, erase, seek, close | unaligned ends, errors half way | each partition a file of its own |
| USB device, `drivers/usbf` | transfer and event rings with cycle bits, device and control state | enumerate, receive, transmit, poll; handlers of setup, port and transfer events | the controller runs beside the driver; the host gives up requests; events come in batches | rings in step, calls report their own transfer, requests answered |
| Other drivers | controller rings and registers | transfers | hardware | protocol of the device |
| Everything else (C library, device tree, graphics, board info, blobs, vendored code) | none or data | - | - | not a matter of control |

Interactions: the BPMP client calls the IVC channel and polls it; clock, reset
and I2C drivers call the client. A/B boot control and the bootloader update read
and write partitions through the partition manager, which goes through the block
devices; fastboot writes partitions itself or feeds the unsparse machine, and
gets its commands over the USB device driver; Linux boot opens drivers, publishes
partitions, mounts file systems through the file manager and falls back to the
partitions of the fixed storage; the file systems read through the block cache.
MB1 (outside) and cboot share the scratch registers and the SMD; user space
(outside) marks boots successful in the SMD.

## 2. Modules

| Module | Models | Checked or proved by |
|---|---|---|
| `IvcFifo` | abstract: what an IVC channel promises | refinement `IsFifo` of `TegraIvc`, proved; used by `BpmpXfer` |
| `TegraIvc` | `tegra-ivc.c` | `MCTegraIvc`, `TegraIvcProofs` |
| `BpmpXfer` | `tegrabl_bpmp_fw_interface.c` over `IvcFifo` | `MCBpmpXfer`, `BpmpXferProofs` |
| `SmdCell` | abstract: a regular cell | refinement `IsCell` of `SmdStore`, proved |
| `SmdStore` | load and flush of the two SMD copies | `MCSmdStore`, `SmdStoreProofs` |
| `AbBoot` | selection and counting, over one SMD | `MCAbBoot`, `AbBootProofs` |
| `HeapPool` | abstract: what an allocator promises | refinement `IsPool` of `Heap` |
| `Heap` | `lib/malloc/tegrabl_malloc.c` | `MCHeap` |
| `BlockCache` | `lib/bcache/bcache.c` and `list.h`, as operators | used by `ExtFs` |
| `ExtFs` | `lib/fs/ext2`, `lib/fs/ext4` over `BlockCache` | `MCExtFs` |
| `Unsparse` | `lib/sparse/tegrabl_unsparse.c`, as operators | used by `Fastboot` |
| `Fastboot` | `lib/fastboot` over `Unsparse` | `MCFastboot`, `FastbootProofs` |
| `BlUpdate` | `lib/bootloader_update` | `MCBlUpdate`, `BlUpdateProofs` |
| `BootMedia` | `lib/linuxboot`, `lib/file_manager`, `lib/fs/fs.c`, reference counts of `lib/blockdev` and of the partition manager | `MCBootMedia`, `BootMediaProofs` |
| `PartFiles` | abstract: partitions as files | refinement `IsPartFiles` of `Storage` |
| `Storage` | `lib/blockdev`, `lib/partition_manager`, `lib/gpt` | `MCStorage` |
| `Xusbf` | `drivers/usbf/xusbf`, calls of `drivers/usbf/class/transport` | `MCXusbf`, `XusbfProofs` |

The layers compose by their abstract specifications: `TegraIvc` implements
`IvcFifo`, on which `BpmpXfer` is built; `SmdStore` implements `SmdCell`, and
`AbBoot` treats the SMD as such a cell whose reads do not fail; `Storage` implements `PartFiles`, and the
partitions of `Fastboot` and `BlUpdate` are such files. `ExtFs` and `Fastboot` are
composed with the state machines below them directly, `BlockCache` and
`Unsparse`, as these are called step by step inside one action.

### TegraIvc

Each end is one thread; a library call is split at its accesses to shared
memory, `pc[e]` says where the end is. `WriteCheck`, `WriteCopy`,
`ivc_advance_tx`, `WriteNotify` are `tegra_ivc_write`; `tegra_ivc_write_poke`
stops after the copy and `tegra_ivc_write_advance` starts at the advance. The
read side is the same. `tegra_ivc_channel_notified` samples the peer's state and
chooses a branch, `ClearCounter`, `StoreState` and `Notify` carry it out. The
memory barriers order all these accesses, except the two counter stores of one
branch, which become visible in either order. A full or empty channel is an
error code in the code; its callers wait, so the model's end waits in
`wait_write` or `wait_read` until a notification. `tegra_ivc_channel_reset` may
strike in the middle of a call: it stands for a restarted or new owner of the
end, which calls `tegra_ivc_init` first. Left out: cache maintenance, frame
sizes and argument checks, `tegra_ivc_channel_sync` (no caller).

The refinement mapping for `IvcFifo` is `InFlight`: the frames between the two
counters of a ring, found from the writer's position, as long as the ring is in use;
nothing while a handshake is about to discard its content.

`ResetFrom` says in which pairs of states (own, peer) an end may reset.
`SafeResets` of `MCTegraIvc` lists those that the handshake survives: an end in
the sync state resets again, or the peer considers the channel established, or
both reset an established channel at once. `tegrabl_connect_bpmp` resets once
per boot stage and spins until the channel is established, so it is within
these as long as the firmware does not reset its own end meanwhile. Outside
these pairs the handshake does not keep its promise: with a second reset while
the peer is in the ack state, TLC finds an end that has sampled the ack state and
goes on to clear counters although the peer is established again, which the comment
at 579-581 excludes.

### BpmpXfer

The single-frame channel of `tegrabl_connect_bpmp` as an `IvcFifo`; requests and
responses are serial numbers (the real frames have none: the model's numbers are
only for the properties). `Init` lets the previous stage leave a frame in either
direction. The firmware (`BpmpUp`, `BpmpTake`, `BpmpReply`) is external: it
answers each request once, as late as it likes, or never.

### SmdStore and AbBoot

`SmdStore` keeps only whether a copy is good and which value it has. A copy is
bad from its erase until the last byte is written; that the CRC detects this is
an assumption, and holds for metadata of version 2 and later. A boot takes the
secondary copy when the primary is bad and also when it cannot be read (1057-1074,
1154); `reads` says which copies can. The two copies are therefore no atomic cell: after a
flush that was cut off, one boot may load the new metadata and the next one the
old. What they are is `SmdCell`, a regular cell: the set `vals` of what a boot may
load, of which what a boot has loaded (`base`) remains until what it flushes
(`pend`) is in, and which is the new metadata alone when the flush is done.
`AbBoot` has one SMD: it is exact as long as the primary copy can be read, or the last
flush was done; a read error after a cut flush, which gives a boot the older
counts once more, is not part of it.

`AbBoot` keeps the values: priorities, retry counts, rootfs status, and the scratch registers. The
boot stages follow each other as the comments of the code demand ("before leaving
Cboot", 1165-1167; "Clear SR before handing over to kernel", 1507); `tegrabl_a_b_update_smd` has
no caller in this repository. MB1 is external: it uses the functions of this
file in the order that their comments describe (116-117, 1283-1285). User space
is external: it marks slot and rootfs good and may update and select the other
slot. The `slot_set_active` operation behind fastboot's `set_active` is registered by
the platform; it is taken to be `tegrabl_a_b_set_active_slot` and a flush.
Assumed: `CONFIG_ENABLE_L4T_RECOVERY`; unified A/B only together with rootfs
A/B; scratch registers survive a reset but not a power loss.

Whether the recovery kernel is due is asked by each attempt on a removable medium
that has a file manager handle (`removable_boot.c:194`) and again for the fixed storage, and asking
clears an exhausted rotation count. `LoadKernel` is the attempt that succeeds, on whichever
device; `RemovableWithoutRecovery` is one that asked and found no recovery image.

`tries`, `rf_tries` and `undisturbed` are history variables for the properties.
`AssertionsHold` is about two assertions of `tegrabl_a_b_boot_control.c`: that the
slot switched away from is the preferred one (1390), whose failure is the state
`halted`, and that RF_SR has its magic when the rotation count is read (974).

### Heap

Each call is one action: the loader has one thread. `free` and `alloc` are the
headers in memory, the list is followed through its pointers (`Walk`, `First`),
and the pointer updates of splitting, aligning, linking and merging are those of the code,
so that a list that is not what the code takes it for shows. `hung` is
`tegrabl_hang` or a failed assertion. Sizes are in words of eight bytes, to which
the code rounds; the two header sizes are the real ones (four and three words).
Clients free each block once, on the heap type they asked for; all heaps of the
platform are set up first. `asked` and `align` are kept for the properties.
Left out: magic numbers (nothing in the model writes outside its block) and
sums near the top of `size_t`.

### BlockCache and ExtFs

`BlockCache` follows the `next` and `prev` pointers of `list.h`, so that a block
that ends up on two lists breaks them as it does in memory. `hung` is a null
pointer, a walk without end or a failed assertion. `ExtFs` puts the two file
systems on top: a volume is given by its decoded blocks (inode tables,
directories, pointer tables, extents, data), each call of the API is an action, and each
access to a block goes through the cache and may evict another. A read gives the
bytes that the code puts into the caller's buffer; what it leaves untouched is
`Junk`. The state of the lists after a failed read is followed too:
`CacheSound` and `ReadsExact` hold until then, `NoRefLeft` also afterwards. The text of a
symbolic link is taken to lie in its inode, where `ext2_read_link` needs no block for it.

### Unsparse and Fastboot

A byte of the code is half a header, half a fill value or half a block of the
model: enough for a cut inside each. `Unsparse` is the loop of
`tegrabl_sparse_unsparse` folded over the machine's state, one `Turn` for one
pass. `Fastboot` has one action per command; `Asked` and `Answer`
are the frame that `tegrabl_fastboot_command_handler` puts around the handler. The
USB link, the heap, the storage and the platform's handlers fail at will. `mode`
says what becomes of the loop, `overrun` that a download went past its buffer,
after which nothing is claimed. `sent` is kept for `FlashedIsDownloaded`.

`fastboot_ack` closes the command and then sends, and does not look at the result.
`answers` are the codes of a command handed to the link and `lost` those of them
that were not sent, any of them in any command; only the loss of DATA is noticed, by
`cmd_download`, and counts as a failure of its own. `OneAnswer` says what is left to the host:
the one final code, if it was sent, and otherwise none.

### BlUpdate

A call is cut at its device operations: `Check` is everything up to the loop over
the entries, `Walk` a level of `update_partition_recursive`, `Operate` one erase or
write of the partition's plan, `Updated` and `NextEntry` what follows, `Return` the
end of the call. `Reset` clears the static state and leaves a torn partition
where an operation was under way. `skipped` is what a call passed over because
the board specification could not be read.

### BootMedia

Sequential, and nondeterministic in what the media give. The block devices
are objects with a reference count and a flag `live`; a use of one that was freed
is recorded in `fault`. An attempt is `RemovableOpen` or `FixedOpen` (driver, open,
publish, mount), then `ExtlinuxBoot` or `LoadFromPartition`, then the close;
`NextDevice` moves along the boot order and `Extract` ends the call. `got` is where
each loaded binary came from, in memory and in statics that survive the attempts.

`fdt` is the handle of the kernel device tree, as the number of the call that set it first.
`extract_kernel_dtb` sets it before it updates the device tree, and nothing clears it when that fails:
in the next call `extlinux_boot.c:628` then loads no device tree and takes what
is in memory. `recovery` is whether the recovery kernel is asked for: `always` by the
boot mode or for want of a rootfs, `once` by the rotation count, which asking
clears. An SD card stays registered in `tegrabl_sd_bdev.c` after its close, as its
close is that of the other SDMMC file. The build is one without
`CONFIG_ENABLE_SECURE_BOOT`, in which `tegrabl_auth_complete` (`linux_load.c:571`) would overwrite
the error of a call that failed.

### Storage

A call is a list of operations on whole blocks (`Pieces`), and a failure cuts the
list anywhere. The block size of three bytes stands for the power of two of the
code. `IsPartFiles` maps a partition to the bytes between its first and last
sector and a handle to its position; a failed write may leave a first part,
and moves the position all the same, as 407 does. The checks of a GPT header and
table are a choice of which copies are good; both copies are taken to hold the same table.

### Xusbf

The driver's thread is cut where the controller can come in between: at each poll
and at each event. `Handle` takes one event of a batch; the batch ends at the
producer's position seen at the interrupt. Controller and host (`Setup`,
`ControlStage`, `Bulk`, `Port`, ...) are external. Four ghosts delimit what is claimed:
`full` (more TRBs queued than the ring has room for, which the code does not
check), `torn` (an endpoint reload that was not confirmed in time), `clean` (no
call given up, no port configuration error, no poll failed, no bulk call started during a
control data stage) and `last`, the transfer a result is compared with. Left out
of `tegrabl_handle_port_status`: the warm reset of a super speed link, and the
disconnection that the code says never happens (1535-1540). The chunking of
`tegrabl_transport_usbf.c` is not modelled: a call is one TRB.

## 3. Runs

| Run | Question | What it shows |
|---|---|---|
| `ivc_flow` | Is the channel a FIFO, whatever the interleaving and across counter wrap-around? | yes |
| `ivc_resets` | Does it stay one, do both ends agree and does everyone wake up, with resets in the middle of calls? | yes |
| `bpmp_timeouts` | What holds of answers despite time-outs; does every call return? | in order, never twice, matching until the first time-out |
| `smd_once` | Do resets, read and write errors leave whole metadata, and which? | yes, with no second flush after a failed one; old or new after a cut, new after a flush |
| `heap_calls` | Do list, sizes and blocks stay consistent, do clients get what they asked for? | yes; the DMA heap apart, no consistency check fails |
| `ab_boots` | Are slots and rootfs given up only when they should, do failing boots end? | yes, undisturbed, and unless removable media take the recovery that is due time and again |
| `fs_reads` | Is what is read the file, and is the cache whole afterwards? | yes while the device delivers; references are given back even when it does not |
| `fb_commands` | Is every command answered once, is what was flashed what was sent, does a cut of a sparse image matter? | never more than once, and once if the link sends; yes; only inside a fill value |
| `bup_cut` | What is on storage when an update is cut off or follows another? | dependencies before dependents, complete on success, other slot kept |
| `media_search` | Do devices, mounts and controllers survive a search full of failures, is what was loaded of one piece? | yes, on the first call; later ones may boot an older device tree |
| `storage_calls` | Is a partition a file, at every alignment and with failing transfers? | yes |
| `usb_events` | Do rings stay in step, are results and answers those of their calls and requests? | yes, in the circumstances of the ghosts |

### Where the code does less than one expects

The properties above are as strong as the code allows. What had to be excepted
is listed here, by circumstance; the definitions in brackets state the stronger
expectation and fail in TLC when they are put into a configuration.

- BPMP (`tegrabl_bpmp_fw_interface.c:414`): a response that arrives after its
  time-out is taken for the answer to the next request, and all later ones are
  one behind (`AnswerMatches`).
- SMD (`tegrabl_a_b_boot_control.c:1271`): a second flush after a failed one
  begins with the only good copy (`OneGoodCopy` with `RetryAfterError = TRUE`). A read
  error of the primary copy after a flush that was cut off brings the older metadata
  back (1154), until a flush is done.
- A/B: the assertion at 1390 fails after fastboot's `set_active` of the other slot
  (`AssertionsHold`); unified A/B (727) loads rootfs A in a boot of slot B after
  MB1 switched by the scratch register (`UnifiedSlotIsRootfs`); a reset between the
  store of the rotation count (1396) and the flush moves the count on without
  the switch (`BothSlotsTried`, hence `undisturbed`); the boot of the recovery kernel is
  counted as the first try of the next round. A removable medium without recovery
  image takes the recovery that is due (`removable_boot.c:194`): the rotation count is cleared
  by the question, the fixed storage is then told that recovery is not due and loads the normal
  kernel, and the rounds of failing boots start over. The comment at 975-977 says of
  an exhausted count that it is cleared "to boot to recovery kernel"
  (`ExhaustedBootsRecovery`, which fails with no reset or failed flush at all, and holds
  without `RemovableWithoutRecovery`). `FailingBootsEnd` is stated for devices where that ends.
- Heap: `tegrabl_dealloc` (545) chooses the heap by whether the DMA free list is empty
  and hangs with an exhausted DMA heap (`NeverHangs`); an aligned
  allocation loses a rest of up to a header's size (720, `AllReturned`).
- Block cache (`bcache.c:241`): a failed read leaves the block on the free list while
  still on the LRU list; later calls may walk for ever.
- File systems: `ext2_read_inode` ignores failed reads; `ext2_walk` looks up a link's
  target together with the rest of the path (`dir.c:164-180`); an index with several
  leaves reads only its first (`ext4.c:275-298`); holes of ext4 leave the buffer as it
  was; `lookup_linear_dir` sees one block.
- Fastboot: an answer whose send fails is not sent again (`protocol.c:84-91`), the host
  waits; a download larger than the first one runs past the buffer (445); a
  failed allocation is not tried again; erasing `x_b` erases slot A; the result
  of a raw write is ignored; an image of a CRC chunk loops for ever; a fill
  value cut between buffers swallows what follows it; an image that ends
  early is a success.
- Bootloader update: with a QSPI flash, the partition with the bare name, slot A, is
  erased while slot B is updated (394-409); a failed update leaves
  `is_new_bup_checked` set for the next payload (137); without a board
  specification, or with a blob of another type, nothing is written and the call succeeds.
- Boot media: the forced close of an NVMe device (`removable_boot.c:262`) uses a
  freed device if a file system was mounted on it, and leaves a closed one listed
  otherwise; `num_boot_entries` is never reset, so a second call frees sections twice; the
  success flag of extlinux survives into the next call, and so does the device tree
  handle of a call that failed in `extract_kernel_dtb` (`linux_load.c:294`,
  `extlinux_boot.c:628`): a kernel is booted with a device tree that an earlier call loaded; the mount point `/sd` is a prefix
  of `/sdmmc_user`; an NVMe controller whose PCIe reset fails stays marked initialised.
- Partition manager: a failed write moves the offset (407), a failed read does not; open
  handles survive `tegrabl_partitions_unpublish`.
- USB: an error of one event is overwritten by the next of its batch; a call in progress at a
  reset or a new configuration waits for ever; a call that failed leaves its TRB
  queued; SET_SEL gets its status in the wrong direction; a request to an unknown recipient is
  neither answered nor stalled.

### Bounds

- `ivc_flow`: two frames per ring, so that a ring is empty, partly full and
  full; counters modulo 3, the smallest range larger than the ring, so that
  every offset of counter to position occurs after a few frames; two values of
  a frame, enough to see one taken for another; one reset. No bound on the number
  of calls.
- `ivc_resets`: one frame, as `tegrabl_connect_bpmp` configures it, and two resets:
  enough for one each, at once, and for one that interrupts another.
- `bpmp_timeouts`: six calls, three time-outs, three polls per call; a channel
  holds one frame, so two late answers are the most that can be pending.
- `smd_once`: four values of the metadata under symmetry; unbounded boots.
- `heap_calls`: one heap of 24 words, room for six of the smallest blocks, so that
  blocks are freed between two free neighbours, at both ends and into an empty list;
  two heaps of 14 words each, so that one is exhausted by a few calls. Sizes 1 and 4
  (the smallest block and a larger one), alignment 8 words, which makes the words in front
  of a block both fewer and more than a header. Any number of calls.
- `ab_boots`: retry counts of two, which makes the rotation count four, the maximum
  the code allows; two upsets (reset, power loss, failed flush) and one
  `set_active`; any number of removable media. Boots are not bounded; the feature sets are those a device can be
  flashed with: none, redundancy alone, with user redundancy, with rootfs A/B,
  with unified A/B.
- `fs_reads`: blocks of two bytes, one direct pointer and two pointers per table, so
  that a file of sixteen bytes needs all four kinds of pointers; reads that start at
  a block, inside one and behind the end, and that cross several; a cache of four blocks,
  fewer than any path through a volume touches, so that nearly every access evicts; one
  failing read, of an inode table or a pointer table. Any number of calls.
- `fb_commands`: two partitions of three blocks; one sparse image of all chunk types, two
  malformed ones, a raw one, one above the limit; one failure, lost answers apart, of which
  there is no bound; two commands that write, so that
  one can spoil the other; any number of the others. `AnyCutSameImage` is asked of each image
  when its download has come in.
- `bup_cut`: the three partitions of the dependency chain and one always written to both
  slots; payloads in and out of order, with a misfit before its fitting entry, a ratchet
  update, an empty one and those that are refused; three updates with two failures or resets: a good one
  after a failed one after a good one.
- `media_search`: two orders that between them try every device; two controllers, the least that
  lets the second be spoilt by the first; two calls.
- `storage_calls`: eight blocks of three bytes, three adjacent partitions of one to three
  blocks: a transfer can begin and end inside, at and across blocks; three transfers
  or seeks, one failure.
- `usb_events`: rings of two TRBs and a link, three events: both wrap within three
  calls and two requests; one port change, failure or time-out.

### Fairness

- `TegraIvc`: a call goes on (no blocking inside it), and an end that has a
  notification pending calls `tegra_ivc_channel_notified` some time (strong
  fairness: it may be busy with calls meanwhile). `tegrabl_connect_bpmp` spins in
  exactly that call. Nothing is assumed of polling without a notification.
- `BpmpXfer`: the caller runs, the firmware comes up. It need not answer.
- `AbBoot`: boot stages go on. Resets, power losses and failed flushes are
  bounded, not fair. Kernels may fail for ever.
- The other modules have no liveness property; what must happen in the end is
  stated of the states in which nothing is left to do (`NoRequestForgotten`).

## 4. Proofs

A theorem holds for every value of the constants that satisfies the `ASSUME`s of its
module (TLC evaluates them in every run) and, where it says so, an assumption of
its own. The bounds on calls, resets, time-outs and failures are arbitrary naturals,
so none of the results depends on them.

| Module | Theorem | States | Beyond the `ASSUME`s |
|---|---|---|---|
| `TegraIvcProofs` | `TypeCorrect` | `TypeOK` | - |
| | `Inductive` | `IvcInv` | `ResetsAreSafe` |
| | `ChecksStayValid`, `EstablishedEndsAgree`, `NoRaceOnFrames`, `ClearsAreSafe` | `CheckStaysValid`, `EndsAgree`, `NoFrameRace`, `ClearsUnusedCounters` | `ResetsAreSafe` |
| | `WakeupsAreKept` | `NoLostWakeup` | `ResetsAreSafe` |
| | `ChannelIsFifo` | `IsFifo`, the refinement of `IvcFifo` | `ResetsAreSafe` |
| `BpmpXferProofs` | `XferInductive`, `ResponsesInOrder`, `OwnResponseUntilTimeout` | `XferInv`, `AnswersInOrder`, `InStepUntilTimeout` | - |
| `SmdStoreProofs` | `StoreInductive`, `NeverBothBad` | `StoreInv`, `OneGoodCopy` | no flush after a failed one |
| | `CopiesAreRegular` | `IsCell`, the refinement of `SmdCell` | no flush after a failed one |
| `AbBootProofs` | `TypeCorrect`, `AbInductive` | `TypeOK` and `RotateBound`, `AbInv` | - |
| | `RootfsTriedInFull`, `AssertionsWithoutFastboot`, `BothSlotsGetTheirTurns` | `RootfsTried`, `AssertionsHoldWithoutFastboot`, `BothSlotsTriedUndisturbed` | - |
| `BlUpdateProofs` | `UpdateInductive`, `CompleteUpdates`, `FreshRatchet` | `UpdateInv`, `SuccessIsComplete`, `RatchetFresh` | - |
| | `DependenciesFirst`, `KeepsOtherSlot` | the action properties `DependencyFirst`, `OtherSlotKept` | - |
| `FastbootProofs` | `OneFinalAnswer`, `LockHolds` | `OneAnswer`, `LockedUntouched` | - |
| | `FlashesWhatWasSent` | `RawFlashed`, a half of `FlashedIsDownloaded` | - |
| `BootMediaProofs` | `MediaInductive` | `MediaInv` and `HandleInv` | - |
| | `ReferencesAreKept`, `OneSourceBoots`, `DriverIsFree` | `ReferencesAgree`, `LoadedTogether`, `ControllersReleased` | - |
| `XusbfProofs` | `UsbInductive` | `UsbInv` | - |
| | `RingsStayInStep`, `CallsReportTheirTransfer`, `RequestsAreAnswered` | `RingsAgree`, `TransferExact`, `NoRequestForgotten` | - |

Almost none of these properties is inductive. The invariants that carry the proofs
are defined in the component's module, each as a conjunction of named parts.
`IvcInv` and `StoreInv` are listed in a run; `XferInv`, `AbInv`, `UpdateInv`, `MediaInv`,
`HandleInv` and `UsbInv` hold in TLC too when they are added to the configuration of their run.

**IVC channel.** `CheckStaysValid` is not inductive: an advance is safe only because
the counters are at most `NFrames` apart (`RingsInUse`), which a reset preserves only
because an end clears its counters at a time when its peer is not established
(`SampleStaysValid`), which in turn needs to know what has already been cleared
(`ClearedSoFar`) and that an end in a call is established (`CallsAreEstablished`).
`SubLemma` carries the arithmetic of the wrapping difference. `NoLostWakeup` needs
`WakeupOwed`: not just any call of the peer under way owes a notification, but the
one that made the ring non-empty or non-full, and the count still shows it. For the
refinement, the frames between the counters (`InFlight`) are read off the ring from
the writer's position, and every step is shown to append one, to remove the first,
to discard all or to change nothing; that a ring is empty when the peer of an end in
the ack state establishes it is `AckUnread`. `ResetsAreSafe` is the set of resets under
which the code's handshake works at all (section 2); without it TLC has counterexamples.

**BPMP client.** `AnswersInOrder` is about answers given; the invariant is about those
to come: a response in the channel is older than the request the firmware works on,
that is older than the one waiting, and all are younger than every answer given
(`FlightInOrder`); until a time-out there is but one (`OneInFlight`). Frames of the previous
stage are excluded by the reset in `connect`, which `CallsInOrder` records.

**Metadata store.** `StoreInv` adds to `OneGoodCopy` which copy is good at which point
of a flush, and what the buffer has in common with the copy it was loaded from: the
copy that is written first is never the one the boot goes by, whether it was loaded
because the other was bad or because it could not be read.

**A/B boot control.** Three independent arguments. A rootfs: the tries made and the
retries left in RF_SR add up to the maximum, in the SMD and in its buffer, and a lost
register is refilled from an SMD that always has the full count (`Accounted`).
The assertion on priorities: what MB1 selected is preferred as long as the other slot has retries
left, and cboot's buffer has the slots of the SMD (`SelectionInv`). The rotation: `n`
rotations into a round, the preferred slot has had `n` starts, or the other one its half
and the preferred one the rest (`Shares`), over the metadata the next boot will find
(`Pending`) and the starts as they will be counted (`Started`), because the switch, the count and
the flush are in different steps.

**Bootloader update.** `LoopInv`: what lies before the entry at hand is in the list of
updated partitions; `ListInv`: what is in the list is complete on storage; `PlanInv`:
the rest of a plan writes again whatever it erases, stays in its partition and
slot, and its dependency is in the list. With these, success, order and the other
slot follow from any place where an update is cut off. `CheckedInv` is the condition
under which `is_new_bup_checked` does not carry over.

**Fastboot.** A handler leaves its command open (no final code yet) or closed, and
`fastboot_ack` closes it once; each command is shown to close it. `BufferInv` says what the download
buffer holds in terms of what was sent. Which codes are lost is free, so nothing is proved of
that beyond what `OneAnswer` says. The unsparse machine stays folded.

**Boot media.** `MediaInv`: the device list has no entry twice, none freed and none
without a reference (`ListSound`); devices that are not part of the attempt have the
list's reference only (`OthersAtRest`); the attempt has its mount and
its published partitions and no others (`Held`), and leaves none (`Released`).
That the NVMe driver is free (`DriverInv`) depends on it: the close reaches the
controller only if `tegrabl_blockdev_open` found the device just registered and not
an older entry of the list. `LoadInv` is about the kernel and the static results of
`extlinux_boot.c`; `HandleInv` about the device tree: a handle that is set during a call is of an
earlier one, and whenever there is a handle some device tree is in memory.

**USB device.** `UsbInv` has a part for each pair that shares something. Driver and
controller: a ring has no count, so `RingInv` (and `EventInv` for the event ring) ties every
cycle bit to the producer's place and lap, and that lap to the consumer's; it survives
a step of the producer only if the ring does not become full, which `full` records. On
ep0 that cannot happen: `ControlInv` says that at most one TRB is out, either with the
controller or in exactly one pending event, as `tegrabl_issue_data_trb` and the
status for an IN transfer queue nothing while the driver's place is behind, and the status
that follows a data stage is queued when the event of that stage has been taken. Host and driver:
setup packets are pending in the order they were sent, and an answer the controller
accepted is handled before the packets sent later (`SetupInv`); the TRB that is out belongs to
the request handled last or is older and will be refused with a sequence number error, on which
the request is handled again (`TrbInv`, `DoneInv`); hence a request that was handled is stalled or has
something out (`AnswerInv`), and nothing is out when the driver can only wait. Call and
transfer: while `clean` holds, what is out on a bulk endpoint is the TRB of the
call in progress (`BulkInv`), so that the bytes counted are its own. `clean` ends
with the first time-out or failed register poll, and where the code itself drops the
connection between call and transfer (section 2); without it TLC has
counterexamples. One operator call changes a few of the 31 fields of the context,
so the lemmas say what is changed (`Frame`) and each part is shown to depend on few
fields only. The assumptions are that a transfer ring has two TRBs and its link and that the
event ring has two slots (`XusbfAssumption`; the code has 16 and 32), and that a request is of
a kind that `tegrabl_handle_setuppkt` tells apart (`RequestsAssumption`).

Only model-checked:

- liveness (`ResetCompletes`, `XferReturns`, `FailingBootsEnd`), which is out of the prover's reach;
- what is computed along a list, a file or an image: `HeapSound`, `NeverHangsWithoutDma` and
  `IsPool` (the free list is followed through its pointers), the lists of the block cache,
  walks and reads of `ExtFs`, `AnyCutSameImage` and the sparse half of `FlashedIsDownloaded`. They need
  induction over data, which the prover cannot apply;
- `Storage`, whose properties rest on division and remainder by a variable block size:
  not attempted.

## 5. Not modelled

The parts listed as `not_modelled` in `PROJECT.json`, with reasons. Most of
the repository's lines are in drivers (UFS, SD/MMC, QSPI, xHCI, display,
Ethernet), each a long fixed sequence of register accesses against hardware the
repository does not describe: a model would have to invent the hardware, and what it
then showed would be about the invention. Parsers and renderers are data without
control; mbedtls, zlib, lz4, libfdt and the like are vendored.

Of the modelled parts, code without a caller: `tegra_ivc_channel_sync`, which
recomputes a position as `count % nframes` and is wrong once a counter has wrapped
and `nframes` does not divide 2^32; marking dirty, zeroing and flushing of the block
cache; `tegrabl_sparse.c`; asynchronous transfers (`tegrabl_blockdev_async_write`, and
the start/complete variants of the USB driver).

## 6. Plan

Done: all modules of section 2; the proofs of section 4. Next:

1. Proofs: `OutsideKept` of `Storage`, if the bounds of `Pieces` can be stated without
   division.
2. Modules: the write-counter exchange of RPMB (`drivers/ufs/tegrabl_ufs_rpmb.c`) if the
   device's part of it can be taken from the code.
