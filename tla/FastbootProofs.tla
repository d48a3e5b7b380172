--------------------------- MODULE FastbootProofs ---------------------------
(***************************************************************************)
(* Proofs about Fastboot.  What the unsparse machine writes is not needed  *)
(* here: its definition stays folded.                                      *)
(***************************************************************************)
EXTENDS Fastboot, SequenceTheorems, TLAPS

-----------------------------------------------------------------------------
(* Answers.                                                                *)

FinalCodes == {"OKAY", "FAIL"}

\* A command that was not answered yet: at most INFO and DATA went out.
Open(s) ==
    /\ s.state = "COMMAND"
    /\ s.answers \in Seq(Codes)
    /\ \A k \in DOMAIN s.answers : s.answers[k] \notin FinalCodes

\* One that was: one final code, at the end.
Closed(a) == a \in Seq(Codes) /\ Finals(a) = {Len(a)}

LEMMA AskedOpen == Open(Asked) /\ Open([Asked EXCEPT !.answers = <<"DATA">>])
<1>1. <<>> \in Seq(Codes) /\ <<"DATA">> \in Seq(Codes)
  BY DEF Codes
<1> QED
  BY <1>1 DEF Open, Asked, FinalCodes

\* fastboot_ack with INFO leaves the command open.
LEMMA AckInfo ==
    ASSUME NEW s, Open(s)
    PROVE  Open(fastboot_ack(s, "INFO"))
<1>1. fastboot_ack(s, "INFO") = [state |-> "COMMAND", answers |-> Append(s.answers, "INFO")]
  BY DEF fastboot_ack, Open
<1>2. Append(s.answers, "INFO") \in Seq(Codes)
  BY AppendProperties DEF Open, Codes
<1>3. \A k \in DOMAIN Append(s.answers, "INFO") : Append(s.answers, "INFO")[k] \notin FinalCodes
  BY AppendProperties DEF Open, FinalCodes, Codes
<1> QED
  BY <1>1, <1>2, <1>3, SMTT(60) DEF Open

\* fastboot_ack with a final code closes it.
LEMMA AckFinal ==
    ASSUME NEW s, Open(s), NEW code \in FinalCodes
    PROVE  fastboot_ack(s, code).state = "COMPLETE" /\ Closed(fastboot_ack(s, code).answers)
<1> DEFINE a == Append(s.answers, code)
           n == Len(s.answers) + 1
<1>1. fastboot_ack(s, code) = [state |-> "COMPLETE", answers |-> a]
  BY DEF fastboot_ack, Open, FinalCodes
<1>2. s.answers \in Seq(Codes) /\ code \in Codes
  BY DEF Open, FinalCodes, Codes
<1>3. /\ a \in Seq(Codes) /\ Len(a) = n /\ n \in Nat /\ DOMAIN a = 1 .. n /\ n >= 1
      /\ a[n] = code /\ \A k \in 1 .. Len(s.answers) : a[k] = s.answers[k]
  BY <1>2, AppendProperties
<1>4. \A k \in 1 .. n - 1 : a[k] \notin FinalCodes
  BY <1>2, <1>3 DEF Open
<1> HIDE DEF a, n
<1>5. {k \in DOMAIN a : a[k] \in {"OKAY", "FAIL"}} = {n}
  BY <1>3, <1>4 DEF FinalCodes
<1>6. Finals(a) = {Len(a)}
  BY <1>3, <1>5 DEF Finals
<1> QED
  BY <1>1, <1>3, <1>6 DEF Closed

\* Whatever the handler left, the end of the loop sees to one final code.
LEMMA AnswerCloses ==
    ASSUME NEW s, Open(s) \/ (s.state = "COMPLETE" /\ Closed(s.answers)), Answer(s)
    PROVE  Closed(answers)' /\ fastboot_state' = "COMPLETE"
<1>1. CASE Open(s)
  <2>1. s.state = "COMMAND"
    BY <1>1 DEF Open
  <2>2. fastboot_ack(s, "FAIL").state = "COMPLETE" /\ Closed(fastboot_ack(s, "FAIL").answers)
    BY <1>1, AckFinal DEF FinalCodes
  <2>3. /\ fastboot_state' = fastboot_ack(s, "FAIL").state
        /\ answers' = fastboot_ack(s, "FAIL").answers
    BY <2>1 DEF Answer, Sent
  <2> QED
    BY <2>2, <2>3 DEF Closed
<1>2. CASE s.state = "COMPLETE" /\ Closed(s.answers)
  <2>1. fastboot_state' = s.state /\ answers' = s.answers
    BY <1>2 DEF Answer, Sent
  <2> QED
    BY <1>2, <2>1 DEF Closed
<1> QED
  BY <1>1, <1>2

LEMMA ReplyCloses ==
    ASSUME NEW code \in FinalCodes, Reply(code)
    PROVE  Closed(answers)' /\ fastboot_state' = "COMPLETE"
  BY AskedOpen, AckFinal, AnswerCloses DEF Reply

\* Each handler sends one final answer, unless the unsparse loop never returns.
LEMMA HandlersAnswer ==
    ASSUME Next, command' # NoCommand, command' # command \/ answers' # answers
    PROVE  mode' = "hung" \/ Closed(answers)'
<1> USE DEF FinalCodes
<1>1. ASSUME NEW kind \in {"reboot", "reboot-bootloader", "reboot-fastboot", "reboot-recovery"},
             cmd_reboot(kind)
      PROVE  Closed(answers)'
  BY <1>1, ReplyCloses DEF cmd_reboot
<1>2. ASSUME NEW ok \in BOOLEAN, cmd_set_active_slot(ok) \/ cmd_boot(ok)
      PROVE  Closed(answers)'
  BY <1>2, ReplyCloses DEF cmd_set_active_slot, cmd_boot
<1>3. ASSUME NEW ok \in BOOLEAN, cmd_getvar_all(ok)
      PROVE  Closed(answers)'
  <2> DEFINE s == fastboot_ack(Asked, "INFO")
             z == fastboot_ack(fastboot_ack(s, "INFO"), "OKAY")
  <2>1. Open(s) /\ Open(fastboot_ack(s, "INFO"))
    BY AskedOpen, AckInfo
  <2>2. z.state = "COMPLETE" /\ Closed(z.answers)
    BY <2>1, AckFinal
  <2>3. Answer(IF ok THEN z ELSE s)
    BY <1>3 DEF cmd_getvar_all
  <2> HIDE DEF s, z
  <2> QED
    BY <2>1, <2>2, <2>3, AnswerCloses
<1>4. ASSUME NEW var, NEW n \in Names, cmd_getvar(var, n)
      PROVE  Closed(answers)'
  BY <1>4, ReplyCloses DEF cmd_getvar
<1>5. ASSUME NEW n \in Names, cmd_erase(n)
      PROVE  Closed(answers)'
  BY <1>5, ReplyCloses DEF cmd_erase
<1>6. ASSUME NEW image \in Images, NEW how \in {"nodata", "nomem", "broken", "received"},
             cmd_download(image, how)
      PROVE  Closed(answers)'
  <2> DEFINE asked == [Asked EXCEPT !.answers = <<"DATA">>]
  <2>1. \A code \in FinalCodes : fastboot_ack(asked, code).state = "COMPLETE"
                                   /\ Closed(fastboot_ack(asked, code).answers)
    BY AskedOpen, AckFinal
  <2>2. \/ Reply("FAIL") \/ Answer(Asked)
        \/ Answer(fastboot_ack(asked, "FAIL")) \/ Answer(fastboot_ack(asked, "OKAY"))
        \/ answers' = fastboot_ack(asked, "FAIL").answers
    BY <1>6 DEF cmd_download, Sent
  <2> HIDE DEF asked
  <2>3. CASE Reply("FAIL")
    BY <2>3, ReplyCloses
  <2>4. CASE Answer(Asked)
    BY <2>4, AskedOpen, AnswerCloses
  <2>5. CASE Answer(fastboot_ack(asked, "FAIL")) \/ Answer(fastboot_ack(asked, "OKAY"))
    BY <2>1, <2>5, AnswerCloses
  <2>6. CASE answers' = fastboot_ack(asked, "FAIL").answers
    BY <2>1, <2>6 DEF Closed
  <2> QED
    BY <2>2, <2>3, <2>4, <2>5, <2>6
<1>7. ASSUME NEW n \in Names, NEW failAt \in 0 .. 3, cmd_flash(n, failAt)
      PROVE  mode' = "hung" \/ Closed(answers)'
  <2>1. \/ Answer(Asked) \/ Answer(fastboot_ack(Asked, "FAIL"))
        \/ Reply("OKAY") \/ Reply("FAIL") \/ mode' = "hung"
    BY <1>7 DEF cmd_flash
  <2> QED
    BY <2>1, ReplyCloses, AskedOpen, AnswerCloses DEF Reply
<1>8. ASSUME NEW lock \in BOOLEAN, NEW fails \in {0, 1}, cmd_flashing(lock, fails)
      PROVE  Closed(answers)'
  BY <1>8, ReplyCloses DEF cmd_flashing
<1>9. ASSUME NEW arg, NEW fails \in {0, 1}, cmd_oem(arg, fails)
      PROVE  Closed(answers)'
  <2> DEFINE z == fastboot_ack(fastboot_ack(Asked, "INFO"), "OKAY")
  <2>1. z.state = "COMPLETE" /\ Closed(z.answers)
    BY AskedOpen, AckInfo, AckFinal
  <2>2. \/ Answer(Asked) \/ Answer(fastboot_ack(Asked, "FAIL"))
        \/ Reply("OKAY") \/ Answer(z)
    BY <1>9 DEF cmd_oem, Reply
  <2> HIDE DEF z
  <2> QED
    BY <2>1, <2>2, ReplyCloses, AskedOpen, AnswerCloses DEF Reply
<1>10. CASE cmd_continue \/ UnknownCommand
  BY <1>10, ReplyCloses DEF cmd_continue, UnknownCommand
<1>11. CASE LoopEnds \/ Reenter \/ Restart
  BY <1>11 DEF LoopEnds, Reenter, Restart, Started
<1> QED
  BY <1>1, <1>2, <1>3, <1>4, <1>5, <1>6, <1>7, <1>8, <1>9, <1>10, <1>11 DEF Next

\* For every command one OKAY or FAIL is handed to the link, last, for every set of
\* images, names and partitions and any number of faults, except for a sparse image
\* that hangs the unsparse loop.  The host gets it, or gets no final answer at all
\* because the link failed on it; it never gets two.
THEOREM OneFinalAnswer == Spec => []OneAnswer
<1> DEFINE Done == command # NoCommand /\ mode # "hung" => Closed(answers)
<1>1. Init => Done
  BY DEF Init
<1>2. ASSUME Done, [Next]_vars PROVE Done'
  <2>1. CASE UNCHANGED vars
    BY <1>2, <2>1 DEF vars, Closed
  <2>2. CASE Next /\ (command' # command \/ answers' # answers)
    BY <2>2, HandlersAnswer
  <2>3. CASE Next /\ command' = command /\ answers' = answers
    <3>1. mode' = "hung" \/ mode # "hung" \/ command' = NoCommand
      BY <2>3 DEF Next, cmd_reboot, cmd_set_active_slot, cmd_getvar_all, cmd_boot, cmd_getvar,
         cmd_erase, cmd_download, cmd_flash, cmd_flashing, cmd_oem, cmd_continue,
         UnknownCommand, LoopEnds, Reenter, Restart, Started, Handles
    <3> QED
      BY <1>2, <2>3, <3>1 DEF Closed
  <2> QED
    BY <1>2, <2>1, <2>2, <2>3
<1>3. Done => OneAnswer
  BY DEF OneAnswer, Heard, Closed
<1> HIDE DEF Done
<1> QED
  BY <1>1, <1>2, <1>3, PTL DEF Spec

-----------------------------------------------------------------------------
(* The lock.                                                               *)

\* On a locked device no command changes a partition or the download buffer.
THEOREM LockHolds == Spec => LockedUntouched
<1>1. ASSUME [Next]_vars
      PROVE  ~unlocked => parts' = parts /\ (mode = "loop" => download' = download)
  BY <1>1 DEF Next, vars, cmd_reboot, cmd_set_active_slot, cmd_getvar_all, cmd_boot, cmd_getvar,
     cmd_erase, cmd_download, cmd_flash, cmd_flashing, cmd_oem, cmd_continue,
     UnknownCommand, LoopEnds, Reenter, Restart
<1> QED
  BY <1>1, PTL DEF Spec, LockedUntouched

-----------------------------------------------------------------------------
(* What is flashed is what was downloaded.                                 *)

\* The part of the type that this needs.
BufferOK ==
    /\ download \in [allocated : BOOLEAN, capacity : Nat,
                     content : Images \cup {<<>>, <<Torn>>}, size : Nat]
    /\ DOMAIN parts = DOMAIN Partitions
    /\ sent \in Images \cup {<<>>}
    /\ faults \in Nat
    /\ BufferInv

LEMMA ImageLength == \A image \in Images : image \in Seq(ToSet(image)) /\ Len(image) \in Nat
  BY ImagesAssumption, LenProperties

\* What one attempt to download leaves: the image, or nothing.
LEMMA DownloadEffect ==
    ASSUME BufferOK, NEW image \in Images, NEW how, cmd_download(image, how)
    PROVE  /\ download' \in [allocated : BOOLEAN, capacity : Nat,
                             content : Images \cup {<<>>, <<Torn>>}, size : Nat]
           /\ sent' \in Images \cup {<<>>}
           /\ BufferInv'
           /\ faults' \in Nat
<1> DEFINE D == [allocated : BOOLEAN, capacity : Nat,
                 content : Images \cup {<<>>, <<Torn>>}, size : Nat]
           len == Len(image)
           cleared == [download EXCEPT !.size = 0]
           buffer == [cleared EXCEPT !.allocated = TRUE,
                         !.capacity = IF download.allocated THEN @
                                      ELSE IF how = "nomem" THEN 0 ELSE len]
<1>1. len \in Nat /\ Len(<<>>) = 0
  BY ImageLength
<1>2. cleared \in D /\ cleared.size = 0
  BY DEF BufferOK
<1>3. buffer \in D /\ buffer.size = 0
  BY <1>1 DEF BufferOK
<1>4. [buffer EXCEPT !.content = <<Torn>>] \in D /\ [buffer EXCEPT !.content = <<Torn>>].size = 0
  BY <1>3
<1>5. /\ [buffer EXCEPT !.content = image, !.size = len] \in D
      /\ [buffer EXCEPT !.content = image, !.size = len].size = len
      /\ [buffer EXCEPT !.content = image, !.size = len].content = image
  BY <1>1, <1>3
<1>6. \/ download' = download /\ sent' = sent
      \/ download' = cleared /\ sent' = <<>>
      \/ download' = buffer /\ sent' = <<>>
      \/ download' = [buffer EXCEPT !.content = <<Torn>>] /\ sent' = <<>>
      \/ download' = [buffer EXCEPT !.content = image, !.size = len] /\ sent' = image
  BY DEF cmd_download
<1>7. faults' \in Nat
  BY DEF cmd_download, Fault, BufferOK
<1> HIDE DEF cleared, buffer, len
<1>8. download' \in D /\ sent' \in Images \cup {<<>>}
  BY <1>2, <1>3, <1>4, <1>5, <1>6 DEF BufferOK
<1>9. BufferInv'
  BY <1>1, <1>2, <1>3, <1>4, <1>5, <1>6 DEF BufferOK, BufferInv, len
<1> QED
  BY <1>7, <1>8, <1>9

LEMMA BufferStep == BufferOK /\ [Next]_vars => BufferOK'
<1> SUFFICES ASSUME BufferOK, [Next]_vars PROVE BufferOK'
  OBVIOUS
<1>1. CASE UNCHANGED <<download, sent>> /\ faults' \in Nat /\ DOMAIN parts' = DOMAIN parts
  BY <1>1 DEF BufferOK, BufferInv
<1>2. ASSUME NEW image \in Images, NEW how, cmd_download(image, how) PROVE BufferOK'
  BY <1>2, DownloadEffect DEF BufferOK, cmd_download
<1>3. ASSUME NEW n \in Names, cmd_erase(n) PROVE BufferOK'
  BY <1>1, <1>3 DEF cmd_erase, Fault, BufferOK
<1>4. ASSUME NEW n \in Names, NEW failAt \in 0 .. 3, cmd_flash(n, failAt) PROVE BufferOK'
  <2>1. faults' \in Nat
    BY <1>4 DEF cmd_flash, Fault, BufferOK
  <2>2. DOMAIN parts' = DOMAIN parts /\ UNCHANGED <<download, sent>>
    BY <1>4 DEF cmd_flash
  <2> QED
    BY <1>1, <2>1, <2>2
<1>5. ASSUME NEW lock, NEW arg, NEW fails \in {0, 1},
             cmd_flashing(lock, fails) \/ cmd_oem(arg, fails)
      PROVE  BufferOK'
  BY <1>1, <1>5 DEF cmd_flashing, cmd_oem, Fault, BufferOK
<1>6. CASE LoopEnds \/ Reenter
  BY <1>1, <1>6 DEF LoopEnds, Reenter, BufferOK
<1>7. CASE Restart
  <2>1. /\ download' = NoBuffer /\ sent' = <<>> /\ faults' = faults /\ parts' = parts
    BY <1>7 DEF Restart, Started
  <2> QED
    BY <2>1 DEF BufferOK, BufferInv, NoBuffer
<1>8. CASE UNCHANGED vars
  BY <1>1, <1>8 DEF vars, BufferOK
<1>9. CASE UNCHANGED <<download, sent, faults, parts>>
  BY <1>1, <1>9 DEF BufferOK
<1> QED
  BY <1>2, <1>3, <1>4, <1>5, <1>6, <1>7, <1>8, <1>9
     DEF Next, cmd_reboot, cmd_set_active_slot, cmd_getvar_all, cmd_boot, cmd_getvar,
         cmd_continue, UnknownCommand

LEMMA BufferInit == Init => BufferOK
  BY DEF Init, BufferOK, BufferInv, NoBuffer

\* An answer that only says FAIL.
LEMMA FailOnly ==
    ASSUME Answer(Asked) \/ Answer(fastboot_ack(Asked, "FAIL"))
    PROVE  "OKAY" \notin ToSet(answers')
<1>1. fastboot_ack(Asked, "FAIL") = [state |-> "COMPLETE", answers |-> <<"FAIL">>]
  BY DEF fastboot_ack, Asked
<1>2. answers' = <<"FAIL">>
  BY <1>1 DEF Answer, Sent, Asked
<1> QED
  BY <1>2 DEF ToSet

\* The name a flash uses is the partition the name stands for.
LEMMA FlashTarget ==
    ASSUME NEW n, ~tegrabl_fastboot_get_partinfo(n).none
    PROVE  Opens(tegrabl_fastboot_get_tegra_part_name(
                     tegrabl_a_b_get_part_suffix(n), tegrabl_fastboot_get_partinfo(n))) = Named(n)
  BY DEF tegrabl_fastboot_get_partinfo, tegrabl_fastboot_get_tegra_part_name,
         tegrabl_a_b_get_part_suffix, Named

\* A raw image that fits is written as it is when the storage works.
LEMMA RawWrite ==
    ASSUME NEW data, NEW image, image # <<>>, ~tegrabl_sparse_image_check(image),
           Len(image) \in Nat, Len(image) <= Len(data)
    PROVE  Flashed(data, image, 0).data = Overlay(data, 0, image)
<1>1. tegrabl_fastboot_partition_write(Opened(data, 0), image).data = Overlay(data, 0, image)
  BY DEF tegrabl_fastboot_partition_write, Opened
<1> QED
  BY <1>1 DEF Flashed

LEMMA FlashStep ==
    ASSUME BufferOK, NEW n \in Names, NEW failAt \in 0 .. 3, cmd_flash(n, failAt),
           n.base # "bootloader", "OKAY" \in ToSet(answers'), faults' = faults
    PROVE  /\ sent # <<>>
           /\ \A q \in DOMAIN parts \ {Named(n)} : parts'[q] = parts[q]
           /\ ~tegrabl_sparse_image_check(sent) /\ Len(sent) <= Len(parts[Named(n)])
                 => parts'[Named(n)] = Overlay(parts[Named(n)], 0, sent)
<1> DEFINE info == tegrabl_fastboot_get_partinfo(n)
           p == Opens(tegrabl_fastboot_get_tegra_part_name(tegrabl_a_b_get_part_suffix(n), info))
           image == SubSeq(download.content, 1, download.size)
           done == Flashed(parts[p], image, failAt)
<1>1. /\ download.size # 0 /\ ~info.none /\ p # "NULL"
      /\ Fault(IF failAt = 0 THEN 0 ELSE 1)
      /\ parts' = [parts EXCEPT ![p] = done.data]
  <2>1. ~(Answer(Asked) \/ Answer(fastboot_ack(Asked, "FAIL")))
    BY FailOnly
  <2> QED
    BY <2>1 DEF cmd_flash, Reply
<1>2. failAt = 0
  BY <1>1 DEF Fault, BufferOK
<1>3. p = Named(n)
  BY <1>1, FlashTarget
<1>4. p \in DOMAIN parts
  <2>1. p \in DOMAIN Partitions
    BY <1>1 DEF Opens
  <2> QED
    BY <2>1 DEF BufferOK
<1>5. sent # <<>>
  BY <1>1 DEF BufferOK, BufferInv
<1>6. image = sent /\ Len(sent) \in Nat
  <2>1. /\ download.content = sent /\ download.size = Len(sent)
        /\ sent \in Seq(ToSet(sent)) /\ Len(sent) \in Nat
    BY <1>5, ImageLength DEF BufferOK, BufferInv
  <2>2. SubSeq(sent, 1, Len(sent)) = sent
    BY <2>1
  <2> QED
    BY <2>1, <2>2
<1> HIDE DEF p, image, done
<1>7. parts'[p] = done.data /\ \A q \in DOMAIN parts \ {p} : parts'[q] = parts[q]
  BY <1>1, <1>4
<1>8. done = Flashed(parts[p], sent, 0)
  BY <1>2, <1>6 DEF done
<1> QED
  BY <1>3, <1>5, <1>6, <1>7, <1>8, RawWrite

\* A flash that is answered with OKAY while the storage works follows a download
\* that succeeded, writes to the named partition only, and writes a raw image as
\* it was sent, whatever failed, was locked or was downloaded before.
THEOREM FlashesWhatWasSent == Spec => [][RawFlashed]_vars
<1>1. ASSUME BufferOK, [Next]_vars PROVE [RawFlashed]_vars
  <2>1. SUFFICES ASSUME Next, FlashedOkay
                 PROVE  LET p == Named(command'.name) IN
                        /\ sent # <<>>
                        /\ \A q \in DOMAIN parts \ {p} : parts'[q] = parts[q]
                        /\ ~tegrabl_sparse_image_check(sent) /\ Len(sent) <= Len(parts[p])
                              => parts'[p] = Overlay(parts[p], 0, sent)
    BY <1>1 DEF RawFlashed, vars
  <2>2. command'.is = "flash" /\ command' # command
    BY <2>1 DEF FlashedOkay
  <2>3. \E n \in Names, failAt \in 0 .. 3 : cmd_flash(n, failAt)
    <3>1. \A kind : cmd_reboot(kind) => command'.is = kind
      BY DEF cmd_reboot, Handles
    <3>2. \A ok : ~cmd_set_active_slot(ok) /\ ~cmd_getvar_all(ok) /\ ~cmd_boot(ok)
      BY <2>2 DEF cmd_set_active_slot, cmd_getvar_all, cmd_boot, Handles
    <3>3. \A var, n : ~cmd_getvar(var, n) /\ ~cmd_erase(n)
      BY <2>2 DEF cmd_getvar, cmd_erase, Handles
    <3>4. \A image, how : ~cmd_download(image, how)
      BY <2>2 DEF cmd_download, Handles
    <3>5. \A x, fails : ~cmd_flashing(x, fails) /\ ~cmd_oem(x, fails)
      BY <2>2 DEF cmd_flashing, cmd_oem, Handles
    <3>6. ~cmd_continue /\ ~UnknownCommand /\ ~LoopEnds /\ ~Reenter /\ ~Restart
      BY <2>2 DEF cmd_continue, UnknownCommand, Handles, LoopEnds, Reenter, Restart, Started,
                  NoCommand
    <3> QED
      BY <2>1, <2>2, <3>1, <3>2, <3>3, <3>4, <3>5, <3>6 DEF Next
  <2>4. PICK n \in Names, failAt \in 0 .. 3 : cmd_flash(n, failAt)
    BY <2>3
  <2>5. command' = [is |-> "flash", name |-> n]
    BY <2>4 DEF cmd_flash, Handles
  <2> QED
    BY <1>1, <2>1, <2>4, <2>5, FlashStep DEF FlashedOkay
<1> QED
  BY <1>1, BufferInit, BufferStep, PTL DEF Spec

=============================================================================
