------------------------------ MODULE Fastboot ------------------------------
(***************************************************************************)
(* The command loop of lib/fastboot/tegrabl_fastboot_protocol.c: answers,  *)
(* lock state, the download buffer that one command leaves to the next,    *)
(* and flashing of raw and sparse images to the partitions of two slots.   *)
(*                                                                         *)
(* A name is [base, suffix].  An image is a sequence of units, as Unsparse *)
(* has them.  Answers are their codes, the value of a getvar included; the *)
(* texts are left out.  The host may send any command at any time, the USB *)
(* link, the heap and the storage may fail, and the handlers behind        *)
(* set_active, "bootloader" and boot succeed or fail.                      *)
(***************************************************************************)
EXTENDS Integers, Sequences, SequencesExt

CONSTANTS
    Images,             \* what the host may download
    Sparse,             \* Sparse[s]: the chunks that a well-formed sparse stream s stands for
    Names,              \* the names that the host may use
    Table,              \* fastboot_partition_map_table: base -> [a, b] names, "NULL" for none
    Private,            \* tegrabl_nv_private_partition_list, names that are not exposed
    Partitions,         \* the partitions on storage with their size in units
    MAX_DOWNLOAD_SIZE,
    MaxFaults,          \* bound on failures of the link, the heap and the storage, lost answers apart
    MaxChanges          \* bound on the commands that write to a partition

ASSUME ImagesAssumption == \A image \in Images : image \in Seq(ToSet(image))

INSTANCE Unsparse

VARIABLES
    fastboot_state,
    download,    \* the buffer: [allocated, capacity, content, size]
    unlocked,    \* state of the device
    parts,       \* content of the partitions
    command,     \* the command handled last
    answers,     \* the codes handed to the link for it
    lost,        \* which of them the link failed to send
    mode,        \* where the processor is
    sent,        \* the image of the last download that succeeded, none after a later attempt
    faults,
    changes      \* commands so far that wrote to a partition

vars == <<fastboot_state, download, unlocked, parts, command, answers, lost, mode, sent,
          faults, changes>>

Modes == {"loop", "left", "reset", "booted", "offline", "hung", "overrun"}
Blank == <<"blank", 0, 0>>
Erased == <<"erased", 0, 0>>
NoBuffer == [allocated |-> FALSE, capacity |-> 0, content |-> <<>>, size |-> 0]
NoCommand == [is |-> "none"]
FullName(n) == n.base \o n.suffix

Started ==
    /\ fastboot_state' = "OFFLINE"
    /\ download' = NoBuffer
    /\ sent' = <<>>
    /\ command' = NoCommand /\ answers' = <<>> /\ lost' = {}
    /\ mode' = "loop"

Init ==
    /\ fastboot_state = "OFFLINE"
    /\ download = NoBuffer
    /\ unlocked \in BOOLEAN
    /\ parts = [p \in DOMAIN Partitions |-> [k \in 1 .. Partitions[p] |-> Blank]]
    /\ command = NoCommand /\ answers = <<>> /\ lost = {}
    /\ mode = "loop"
    /\ sent = <<>>
    /\ faults = 0 /\ changes = 0

-----------------------------------------------------------------------------
(* Names of partitions.                                                    *)

\* match_partition_name: <partition>_a and <partition> are the same.
Opens(name) ==
    LET hits == {p \in DOMAIN Partitions : name \in {p, p \o "_a"}} IN
    IF hits = {} THEN "NULL" ELSE CHOOSE p \in hits : TRUE

\* tegrabl_a_b_get_part_suffix
tegrabl_a_b_get_part_suffix(n) == IF n.suffix = "_b" THEN "_b" ELSE "_a"

\* tegrabl_fastboot_get_partinfo: a name that is not in the table stands for itself.
tegrabl_fastboot_get_partinfo(n) ==
    IF n.base \in DOMAIN Table THEN Table[n.base]
    ELSE IF n.base \in Private THEN [a |-> "NULL", b |-> "NULL", none |-> TRUE]
    ELSE [a |-> FullName(n), b |-> FullName(n), none |-> FALSE]

tegrabl_fastboot_get_tegra_part_name(suffix, info) == IF suffix = "_b" THEN info.b ELSE info.a

-----------------------------------------------------------------------------
(* Answers.  s is the state of the protocol and the answers so far.        *)

\* Mutant: the command is not marked as answered.
AckOpen(s, code) ==
    IF s.state # "COMMAND" THEN s ELSE [s EXCEPT !.answers = Append(@, code)]

\* The state changes before the code is sent.
fastboot_ack(s, code) ==
    IF s.state # "COMMAND" THEN s
    ELSE [state |-> IF code # "INFO" THEN "COMPLETE" ELSE "COMMAND",
          answers |-> Append(s.answers, code)]

Asked == [state |-> "COMMAND", answers |-> <<>>]

\* What became of the codes handed to the link.  fastboot_ack does not look at the
\* result of the send, and nothing that follows depends on it, so that which sends
\* failed is chosen here.  DATA is sent by cmd_download, which does look.
Sent(codes) ==
    /\ answers' = codes
    /\ lost' \in SUBSET {i \in DOMAIN codes : codes[i] # "DATA"}

\* The end of tegrabl_fastboot_command_handler's loop: a handler that returned
\* without an answer is answered for.
Answer(s) ==
    LET t == IF s.state = "COMMAND" THEN fastboot_ack(s, "FAIL") ELSE s IN
    fastboot_state' = t.state /\ Sent(t.answers)

Reply(code) == Answer(fastboot_ack(Asked, code))

Fault(n) == faults + n <= MaxFaults /\ faults' = faults + n

Changes == changes < MaxChanges /\ changes' = changes + 1

Handles(c) == mode = "loop" /\ fastboot_state # "ERROR" /\ command' = c

-----------------------------------------------------------------------------
(* The handlers, one action each.                                          *)

cmd_reboot(kind) ==
    /\ Handles([is |-> kind])
    /\ IF kind = "reboot-fastboot" THEN Reply("FAIL") /\ UNCHANGED mode
       ELSE Reply("OKAY") /\ mode' = "reset"
    /\ UNCHANGED <<download, unlocked, parts, sent, faults, changes>>

\* cmd_set_active_slot; ok is the result of the registered operation.
cmd_set_active_slot(ok) ==
    /\ Handles([is |-> "set_active"])
    /\ Reply(IF unlocked /\ ok THEN "OKAY" ELSE "FAIL")
    /\ UNCHANGED <<download, unlocked, parts, mode, sent, faults, changes>>

\* fastboot_getvar of the variables that depend on this state
fastboot_getvar(var, n) ==
    LET info == tegrabl_fastboot_get_partinfo(n)
        size == IF Opens(info.a) = "NULL" THEN 0 ELSE Partitions[Opens(info.a)]
    IN CASE var = "unlocked" -> IF unlocked THEN "Yes" ELSE "No"
         [] var = "partition-size:" -> IF size = 0 THEN "" ELSE "size"
         [] var = "has-slot:" -> IF info.none \/ Opens(info.a) = "NULL" THEN "absent"
                                 ELSE IF Opens(info.b) = "NULL" THEN "no" ELSE "yes"

\* cmd_getvar of one variable, and of all of them: without the number of slots
\* the list ends without an answer.
cmd_getvar(var, n) ==
    /\ Handles([is |-> "getvar", value |-> fastboot_getvar(var, n)])
    /\ Reply("OKAY")
    /\ UNCHANGED <<download, unlocked, parts, mode, sent, faults, changes>>

cmd_getvar_all(slots) ==
    LET s == fastboot_ack(Asked, "INFO") IN
    /\ Handles([is |-> "getvar"])
    /\ Answer(IF slots THEN fastboot_ack(fastboot_ack(s, "INFO"), "OKAY") ELSE s)
    /\ UNCHANGED <<download, unlocked, parts, mode, sent, faults, changes>>

\* Mutant: the lock is not looked at.
EraseLocked(n) ==
    LET info == tegrabl_fastboot_get_partinfo(n)
        p == Opens(info.a)
    IN /\ Handles([is |-> "erase", name |-> n])
       /\ p # "NULL"
       /\ Changes
       /\ parts' = [parts EXCEPT ![p] = [k \in DOMAIN @ |-> Erased]]
       /\ Reply("OKAY")
       /\ UNCHANGED <<download, unlocked, mode, sent, faults>>

\* The partition of slot A is erased, whatever the suffix says.
cmd_erase(n) ==
    LET info == tegrabl_fastboot_get_partinfo(n)
        p == Opens(info.a)
    IN /\ Handles([is |-> "erase", name |-> n])
       /\ \/ /\ ~unlocked \/ info.none \/ p = "NULL"
             /\ Reply("FAIL") /\ UNCHANGED <<parts, faults, changes>>
          \/ /\ unlocked /\ ~info.none /\ p # "NULL" /\ Changes
             /\ \E fails \in {0, 1} :
                   /\ Fault(fails)
                   /\ parts' = [parts EXCEPT ![p] = [k \in DOMAIN @ |-> IF fails = 1 THEN Torn ELSE Erased]]
                   /\ Reply(IF fails = 1 THEN "FAIL" ELSE "OKAY")
       /\ UNCHANGED <<download, unlocked, mode, sent>>

\* Mutant: the size of the last download is kept until the next has come in.
DownloadKeepingSize(image, how) ==
    /\ Handles([is |-> "download"])
    /\ unlocked /\ Len(image) <= MAX_DOWNLOAD_SIZE
    /\ how \in {"received", "broken"}
    /\ ~download.allocated \/ Len(image) <= download.capacity
    /\ Fault(IF how = "broken" THEN 1 ELSE 0)
    /\ download' = IF how = "broken" THEN download
                   ELSE [allocated |-> TRUE,
                         capacity |-> IF download.allocated THEN download.capacity ELSE Len(image),
                         content |-> image, size |-> Len(image)]
    /\ sent' = IF how = "broken" THEN <<>> ELSE image
    /\ Reply(IF how = "broken" THEN "FAIL" ELSE "OKAY")
    /\ UNCHANGED <<unlocked, parts, mode, changes>>

\* The buffer is allocated once, with the size of the first download; a later
\* one that is larger runs over its end.  how is what the link and the heap do.
cmd_download(image, how) ==
    LET len == Len(image)
        cleared == [download EXCEPT !.size = 0]
        buffer == [cleared EXCEPT !.allocated = TRUE,
                      !.capacity = IF download.allocated THEN @ ELSE IF how = "nomem" THEN 0 ELSE len]
        asked == [Asked EXCEPT !.answers = <<"DATA">>]
    IN /\ Handles([is |-> "download"])
       /\ \/ /\ ~unlocked /\ how = "received"
             /\ Reply("FAIL")
             /\ UNCHANGED <<download, sent, mode, faults>>
          \/ /\ unlocked /\ len > MAX_DOWNLOAD_SIZE /\ how = "received"
             /\ Reply("FAIL")
             /\ download' = cleared /\ sent' = <<>> /\ UNCHANGED <<mode, faults>>
          \/ /\ unlocked /\ len <= MAX_DOWNLOAD_SIZE /\ how = "nodata"
             /\ Fault(1) /\ Answer(Asked)
             /\ download' = cleared /\ sent' = <<>> /\ UNCHANGED mode
          \/ /\ unlocked /\ len <= MAX_DOWNLOAD_SIZE /\ how = "nomem"
             /\ buffer.capacity = 0
             /\ Fault(IF download.allocated THEN 0 ELSE 1)
             /\ Answer(fastboot_ack(asked, "FAIL"))
             /\ download' = buffer /\ sent' = <<>> /\ UNCHANGED mode
          \/ /\ unlocked /\ len <= MAX_DOWNLOAD_SIZE /\ how = "broken"
             /\ buffer.capacity # 0
             /\ Fault(1)
             /\ Sent(fastboot_ack(asked, "FAIL").answers) /\ fastboot_state' = "ERROR"
             /\ download' = [buffer EXCEPT !.content = <<Torn>>]
             /\ sent' = <<>> /\ UNCHANGED mode
          \/ /\ unlocked /\ len <= MAX_DOWNLOAD_SIZE /\ how = "received"
             /\ buffer.capacity # 0
             /\ Answer(fastboot_ack(asked, "OKAY"))
             /\ download' = [buffer EXCEPT !.content = image, !.size = len]
             /\ sent' = image
             /\ mode' = IF len > buffer.capacity THEN "overrun" ELSE "loop"
             /\ UNCHANGED faults
       /\ UNCHANGED <<unlocked, parts, changes>>

\* OKAY goes out before the kernel is loaded; ok is whether that succeeds.
cmd_boot(ok) ==
    /\ Handles([is |-> "boot"])
    /\ Reply(IF unlocked THEN "OKAY" ELSE "FAIL")
    /\ mode' = IF unlocked /\ ok THEN "booted" ELSE "loop"
    /\ UNCHANGED <<download, unlocked, parts, sent, faults, changes>>

\* What is written to a partition that was opened: the image through the
\* unsparse machine, or as it is, the result of which is not looked at.
Flashed(data, image, failAt) ==
    LET p == Opened(data, failAt)
        u == tegrabl_sparse_unsparse(tegrabl_sparse_init_unsparse_state(p), image)
        raw == tegrabl_fastboot_partition_write(p, image)
    IN IF tegrabl_sparse_image_check(image)
       THEN [data |-> u.part.data, err |-> u.err, hung |-> u.hung, writes |-> u.part.writes]
       ELSE [data |-> raw.data, err |-> FALSE, hung |-> FALSE, writes |-> raw.writes]

cmd_flash(n, failAt) ==
    LET info == tegrabl_fastboot_get_partinfo(n)
        p == Opens(tegrabl_fastboot_get_tegra_part_name(tegrabl_a_b_get_part_suffix(n), info))
        ready == download.capacity # 0 /\ download.size # 0
        done == Flashed(parts[p], SubSeq(download.content, 1, download.size), failAt)
    IN /\ Handles([is |-> "flash", name |-> n])
       /\ \/ /\ ~unlocked \/ info.none \/ p = "NULL" \/ ~ready
             /\ n.base # "bootloader" /\ failAt = 0
             /\ Answer(IF unlocked /\ ~ready THEN Asked ELSE fastboot_ack(Asked, "FAIL"))
             /\ UNCHANGED <<parts, mode, faults, changes>>
          \/ /\ n.base = "bootloader"
             /\ Reply(IF unlocked /\ ready /\ failAt = 0 THEN "OKAY" ELSE "FAIL")
             /\ UNCHANGED <<parts, mode, faults, changes>>
          \/ /\ unlocked /\ ready /\ ~info.none /\ p # "NULL" /\ n.base # "bootloader"
             /\ failAt <= done.writes /\ Changes
             /\ Fault(IF failAt = 0 THEN 0 ELSE 1)
             /\ parts' = [parts EXCEPT ![p] = done.data]
             /\ mode' = IF done.hung THEN "hung" ELSE "loop"
             /\ IF done.hung THEN fastboot_state' = "COMMAND" /\ Sent(<<>>)
                ELSE Reply(IF done.err THEN "FAIL" ELSE "OKAY")
       /\ UNCHANGED <<download, unlocked, sent>>

\* cmd_flashing, and cmd_oem with the same arguments: only the latter has the
\* failure to change the state of the device reported.
cmd_flashing(lock, fails) ==
    /\ Handles([is |-> "flashing"])
    /\ Fault(fails)
    /\ unlocked' = IF fails = 1 THEN unlocked ELSE ~lock
    /\ Reply("OKAY")
    /\ UNCHANGED <<download, parts, mode, sent, changes>>

cmd_oem(arg, fails) ==
    /\ Handles([is |-> "oem"])
    /\ Fault(fails)
    /\ \/ /\ arg \in {"lock", "unlock"}
          /\ unlocked' = IF fails = 1 THEN unlocked ELSE arg = "unlock"
          /\ Answer(IF fails = 1 THEN Asked ELSE fastboot_ack(Asked, "OKAY")) /\ UNCHANGED mode
       \/ /\ arg \in {"dtbname", "ecid"}
          /\ Answer(IF fails = 1 THEN fastboot_ack(Asked, "FAIL")
                    ELSE fastboot_ack(fastboot_ack(Asked, "INFO"), "OKAY"))
          /\ UNCHANGED <<unlocked, mode>>
       \/ /\ arg = "force-recovery" /\ fails = 0
          /\ Reply("OKAY") /\ mode' = "reset" /\ UNCHANGED unlocked
    /\ UNCHANGED <<download, parts, sent, changes>>

cmd_continue ==
    /\ Handles([is |-> "continue"])
    /\ Reply("OKAY") /\ mode' = "left"
    /\ UNCHANGED <<download, unlocked, parts, sent, faults, changes>>

UnknownCommand ==
    /\ Handles([is |-> "unknown"])
    /\ Reply("FAIL")
    /\ UNCHANGED <<download, unlocked, parts, mode, sent, faults, changes>>

\* The loop ends: the link breaks, or a download broke off.
LoopEnds ==
    /\ mode = "loop"
    /\ fastboot_state # "ERROR" => faults < MaxFaults
    /\ faults' = IF fastboot_state = "ERROR" THEN faults ELSE faults + 1
    /\ fastboot_state' = "OFFLINE" /\ mode' = "offline"
    /\ UNCHANGED <<download, unlocked, parts, command, answers, lost, sent, changes>>

\* The handler is called again in the same boot.
Reenter ==
    /\ mode = "offline"
    /\ mode' = "loop" /\ command' = NoCommand /\ answers' = <<>> /\ lost' = {}
    /\ UNCHANGED <<fastboot_state, download, unlocked, parts, sent, faults, changes>>

\* A later boot comes to fastboot again.
Restart ==
    /\ mode # "loop"
    /\ Started
    /\ UNCHANGED <<unlocked, parts, faults, changes>>

Next ==
    \/ \E kind \in {"reboot", "reboot-bootloader", "reboot-fastboot", "reboot-recovery"} : cmd_reboot(kind)
    \/ \E ok \in BOOLEAN : cmd_set_active_slot(ok) \/ cmd_getvar_all(ok) \/ cmd_boot(ok)
    \/ \E var \in {"unlocked", "partition-size:", "has-slot:"}, n \in Names : cmd_getvar(var, n)
    \/ \E n \in Names : cmd_erase(n)
    \/ \E image \in Images, how \in {"nodata", "nomem", "broken", "received"} : cmd_download(image, how)
    \/ \E n \in Names, failAt \in 0 .. 3 : cmd_flash(n, failAt)
    \/ \E lock \in BOOLEAN, fails \in {0, 1} : cmd_flashing(lock, fails)
    \/ \E arg \in {"lock", "unlock", "dtbname", "ecid", "force-recovery"}, fails \in {0, 1} : cmd_oem(arg, fails)
    \/ cmd_continue
    \/ UnknownCommand
    \/ LoopEnds
    \/ Reenter
    \/ Restart

Spec == Init /\ [][Next]_vars

-----------------------------------------------------------------------------
(* Properties.                                                             *)

\* The places of the final answers among the codes handed to the link, and of
\* those that the host gets.
Finals(codes) == {i \in DOMAIN codes : codes[i] \in {"OKAY", "FAIL"}}
Heard == Finals(answers) \ lost

\* For every command one OKAY or FAIL is handed to the link, after everything else,
\* whichever way its handler ends: early returns without an answer, a failure after
\* the OKAY, a broken download.  So the host gets exactly one and nothing after it,
\* unless the link fails on that very code: the command counts as answered by then
\* and the host gets no other (fastboot_ack, which ignores the result of the send,
\* the handlers, and the end of the loop).
OneAnswer ==
    command # NoCommand /\ mode # "hung" =>
        /\ Finals(answers) = {Len(answers)}
        /\ Heard = {Len(answers)} \/ (Heard = {} /\ Len(answers) \in lost)

\* The partition that a name stands for.
Named(n) ==
    IF n.base \in DOMAIN Table THEN Opens(IF n.suffix = "_b" THEN Table[n.base].b ELSE Table[n.base].a)
    ELSE Opens(FullName(n))

FlashedOkay ==
    /\ command'.is = "flash" /\ command'.name.base # "bootloader" /\ command' # command
    /\ "OKAY" \in ToSet(answers') /\ faults' = faults

\* Only what was downloaded is flashed: if a flash is answered with OKAY while the
\* storage works, the last attempt to download succeeded, no partition but the one
\* named is written, and a raw image that fits is written as it is (cmd_download,
\* cmd_flash, tegrabl_fastboot_partition_write).
RawFlashed ==
    FlashedOkay =>
        LET p == Named(command'.name) IN
        /\ sent # <<>>
        /\ \A q \in DOMAIN parts \ {p} : parts'[q] = parts[q]
        /\ ~tegrabl_sparse_image_check(sent) /\ Len(sent) <= Len(parts[p])
              => parts'[p] = Overlay(parts[p], 0, sent)

\* And a sparse image has each chunk in its place (tegrabl_sparse_unsparse).
FlashedIsDownloaded ==
    [][/\ RawFlashed
       /\ FlashedOkay /\ sent \in DOMAIN Sparse =>
             LET p == Named(command'.name) IN
             parts'[p] = ImageMeans(Sparse[sent], parts[p])]_vars

\* While the device is locked no command of the host changes a partition or the
\* download buffer (the lock checks of cmd_erase, cmd_download, cmd_flash).
LockedUntouched ==
    [][~unlocked => parts' = parts /\ (mode = "loop" => download' = download)]_vars

\* A cut between the two halves of a fill value.
FillCut(s, cut) ==
    cut > 2 /\ cut < Len(s) /\ s[cut][1] = "fill" /\ s[cut + 1][1] = "fill" /\ s[cut][2] = 1

\* Wherever the stream of a sparse image is cut into two buffers, except inside a
\* fill value, the machine ends in the same state with the same partition as for
\* one buffer (the state that tegrabl_sparse_unsparse carries between calls).  It is
\* asked of every image when it has come in.
AnyCutSameImage ==
    command.is = "download" /\ tegrabl_sparse_image_check(download.content) =>
        LET s == download.content
            start == tegrabl_sparse_init_unsparse_state(Opened([k \in 1 .. 6 |-> Blank], 0))
            whole == tegrabl_sparse_unsparse(start, s)
        IN \A cut \in 1 .. Len(s) - 1 :
              LET first == tegrabl_sparse_unsparse(start, SubSeq(s, 1, cut))
                  second == tegrabl_sparse_unsparse(first, SubSeq(s, cut + 1, Len(s)))
              IN \/ FillCut(s, cut)
                 \/ first.err \/ first.hung
                 \/ [second EXCEPT !.part.writes = whole.part.writes] = whole

-----------------------------------------------------------------------------
(* Why these hold: what the proofs use.                                    *)

Codes == {"INFO", "DATA", "OKAY", "FAIL"}

\* The buffer holds what the last download brought, and nothing after an attempt
\* that failed.
BufferInv ==
    /\ download.size = Len(sent)
    /\ sent # <<>> => download.content = sent
=============================================================================
