------------------------------ MODULE SmdStore ------------------------------
(***************************************************************************)
(* The slot metadata (SMD) on storage: two copies, the partitions SMD and  *)
(* SMD_b, loaded by tegrabl_a_b_get_smd and written back one after the     *)
(* other by tegrabl_a_b_flush_smd (lib/a_b_boot/tegrabl_a_b_boot_control.c)*)
(* with resets, power losses, read and write errors in between.  What the  *)
(* metadata says is left to AbBoot; a copy that is erased or half written  *)
(* holds Bad, which the CRCs of SMD version 2 and later reject.            *)
(***************************************************************************)
CONSTANTS
    Metas,          \* the metadata a copy can hold
    Bad,            \* what fails the CRC check
    NoMeta,         \* no SMD buffer: smd_loadaddress is NULL
    RetryAfterError \* whether a boot may flush again after a flush that failed

ASSUME MetasAssumption ==
    Metas # {} /\ Bad \notin Metas /\ NoMeta \notin Metas /\ Bad # NoMeta
ASSUME RetryAssumption == RetryAfterError \in BOOLEAN

Copies == {"PRIMARY", "SECONDARY"}
Other(c) == IF c = "PRIMARY" THEN "SECONDARY" ELSE "PRIMARY"

VARIABLES
    copy,           \* copy[c]: what the partition of copy c holds
    current_smd,    \* the copy the SMD buffer was loaded from
    smd,            \* the SMD buffer
    pc,             \* "off", or where cboot is
    at,             \* the copy that flush_smd_bin_copy is writing
    failed          \* a flush of this boot has failed

vars == <<copy, current_smd, smd, pc, at, failed>>

TypeOK ==
    /\ copy \in [Copies -> Metas \cup {Bad}]
    /\ current_smd \in Copies
    /\ smd \in Metas \cup {NoMeta}
    /\ pc \in {"off", "loaded", "open", "erased"}
    /\ at \in Copies
    /\ failed \in BOOLEAN

\* Flashing writes the same metadata to both copies.
Init ==
    /\ \E m \in Metas : copy = [c \in Copies |-> m]
    /\ current_smd = "PRIMARY" /\ at = "PRIMARY"
    /\ smd = NoMeta
    /\ pc = "off"
    /\ failed = FALSE

-----------------------------------------------------------------------------
\* Mutant: the CRCs are not checked.
LoadUnchecked(c, reads) ==
    /\ reads[c]
    /\ current_smd' = c
    /\ smd' = copy[c]
    /\ pc' = "loaded"

\* load_smd_bin_copy: read the copy, which may fail, and check its CRCs.
load_smd_bin_copy(c, reads) ==
    /\ reads[c] /\ copy[c] # Bad
    /\ current_smd' = c
    /\ smd' = copy[c]
    /\ pc' = "loaded"

\* The primary copy; or the secondary one when the primary cannot be read or is
\* bad.  With neither, cboot has no SMD, and a later call tries again.
tegrabl_a_b_get_smd ==
    /\ pc = "off"
    /\ \E reads \in [Copies -> BOOLEAN] :
          \/ load_smd_bin_copy("PRIMARY", reads)
          \/ /\ ~reads["PRIMARY"] \/ copy["PRIMARY"] = Bad
             /\ load_smd_bin_copy("SECONDARY", reads)
    /\ UNCHANGED <<copy, at, failed>>

\* Mutant: the primary copy is written first, whichever is the current one.
FlushPrimaryFirst ==
    /\ pc = "loaded"
    /\ failed => RetryAfterError
    /\ smd' \in Metas
    /\ at' = "PRIMARY"
    /\ pc' = "open" /\ failed' = FALSE
    /\ UNCHANGED <<copy, current_smd>>

\* The buffer is changed in place and flushed: start with the copy that is not
\* the current one.
tegrabl_a_b_flush_smd ==
    /\ pc = "loaded"
    /\ failed => RetryAfterError
    /\ smd' \in Metas
    /\ at' = Other(current_smd)
    /\ pc' = "open" /\ failed' = FALSE
    /\ UNCHANGED <<copy, current_smd>>

\* flush_smd_bin_copy: from the erase (or the first byte written) on, the copy
\* is bad ...
EraseCopy ==
    /\ pc = "open"
    /\ copy' = [copy EXCEPT ![at] = Bad]
    /\ pc' = "erased"
    /\ UNCHANGED <<current_smd, smd, at, failed>>

\* Mutant: the flush is done when one copy is written.
WriteOneCopy ==
    /\ pc = "erased"
    /\ copy' = [copy EXCEPT ![at] = smd]
    /\ pc' = "loaded"
    /\ UNCHANGED <<current_smd, smd, at, failed>>

\* ... until the last byte is written; then go on with the current copy.
WriteCopy ==
    /\ pc = "erased"
    /\ copy' = [copy EXCEPT ![at] = smd]
    /\ IF at = current_smd
       THEN pc' = "loaded" /\ UNCHANGED at
       ELSE pc' = "open" /\ at' = current_smd
    /\ UNCHANGED <<current_smd, smd, failed>>

\* An error of the partition manager ends the flush.
FlushError ==
    /\ pc \in {"open", "erased"}
    /\ pc' = "loaded" /\ failed' = TRUE
    /\ UNCHANGED <<copy, current_smd, smd, at>>

\* A reset or a power loss, at any time.
Reset ==
    /\ pc # "off"
    /\ pc' = "off" /\ failed' = FALSE /\ smd' = NoMeta
    /\ UNCHANGED <<copy, current_smd, at>>

Next ==
    \/ tegrabl_a_b_get_smd \/ tegrabl_a_b_flush_smd
    \/ EraseCopy \/ WriteCopy \/ FlushError \/ Reset

Spec == Init /\ [][Next]_vars

-----------------------------------------------------------------------------
\* "must start with the non-current copy to prevent both copies from corrupted":
\* wherever the boot is cut off, the next one finds a copy that passes the checks.
OneGoodCopy == \E c \in Copies : copy[c] # Bad

Flushing == pc \in {"open", "erased"}

\* The metadata that the next boot may load: that of any copy that is good, since a
\* read error of the primary makes tegrabl_a_b_get_smd take the secondary.
Loadable == {copy[c] : c \in Copies} \ {Bad}

\* What this boot goes by: the copy it loaded, until the first copy of a flush is
\* written; nothing after a flush that failed.
Base ==
    IF pc = "off" \/ failed THEN NoMeta
    ELSE IF Flushing /\ at = current_smd THEN smd
    ELSE copy[current_smd]

Cell == INSTANCE SmdCell WITH
    vals <- Loadable, base <- Base, pend <- IF Flushing THEN smd ELSE NoMeta

\* However flushes are cut off and whichever copy the next boots can read, the two
\* copies are a regular cell: what a boot loaded stays loadable until the metadata
\* it flushes is stored whole, and a flush that is done leaves nothing older.
IsCell == Cell!Spec

\* The inductive invariant.  Outside a flush and without a failed one the buffer
\* is what the current copy holds; during a flush the copy not being written is
\* good, and once the first one is written it holds the new metadata.
StoreInv ==
    /\ TypeOK
    /\ pc = "off" <=> smd = NoMeta
    /\ pc = "off" \/ Flushing => ~failed
    /\ OneGoodCopy
    /\ pc = "loaded" /\ ~failed => copy[current_smd] = smd
    /\ Flushing /\ at # current_smd => copy[current_smd] # Bad
    /\ pc = "erased" => copy[at] = Bad /\ copy[Other(at)] # Bad
    /\ Flushing /\ at = current_smd => copy[Other(at)] = smd
=============================================================================
