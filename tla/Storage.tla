------------------------------- MODULE Storage -------------------------------
(***************************************************************************)
(* Partitions on a block device: the GPT reader (lib/gpt), the partition   *)
(* manager (lib/partition_manager) and the byte access of lib/blockdev on  *)
(* top of whole blocks.  A call is a step, and the device may fail at any  *)
(* of the block operations of a call, after part of it.                    *)
(*                                                                         *)
(* A byte holds the number of the write that put it there.  The copies of  *)
(* the GPT lie outside the partitions; a copy checks out, header and       *)
(* table, or not.  Memory suffices.                                        *)
(***************************************************************************)
EXTENDS Integers, Sequences, FiniteSets, SequencesExt

CONSTANTS
    BlockSize, Blocks,  \* of the device
    Table,      \* the entries of the GPT: name, first_lba, last_lba
    Handles,
    MaxCalls, MaxFaults \* bounds on the transfers and seeks, and on the failing operations

ASSUME StorageAssumption ==
    /\ BlockSize \in Nat \ {0} /\ Blocks \in Nat \ {0}
    /\ \A e \in Range(Table) : e.first_lba \in Nat /\ e.last_lba \in 0..Blocks - 1

VARIABLES
    media,      \* the bytes of the device
    parts,      \* the partitions published, in the order of the table
    handle,     \* struct tegrabl_partition of each client
    out,        \* what the last call on a handle gave
    calls, faults

vars == <<media, parts, handle, out, calls, faults>>

Bytes == 0..(BlockSize * Blocks - 1)
Closed == [name |-> "none", offset |-> 0]
Copies == {"primary", "secondary"}

Init ==
    /\ media = [b \in Bytes |-> 0]
    /\ parts = <<>>
    /\ handle = [h \in Handles |-> Closed]
    /\ out = [ok |-> TRUE, bytes |-> <<>>]
    /\ calls = 0 /\ faults = 0

----------------------------------------------------------------------------
(* lib/blockdev: a list of operations on whole blocks, and what is left of   *)
(* it when the device fails                                                  *)

Mod(x) == x % BlockSize
Div(x) == x \div BlockSize
BlockOf(md, b) == [k \in 0..BlockSize - 1 |-> md[b * BlockSize + k]]

\* The device after the blocks from `block` on were written with `data`.
WriteBlocks(md, block, count, data) ==
    [x \in DOMAIN md |-> IF Div(x) \in block..(block + count - 1) THEN data[x] ELSE md[x]]

\* Mutant: the last block is not read before it is written.
PiecesBlind(offset, len) ==
    LET first == IF Mod(offset) = 0 THEN 0
                 ELSE IF BlockSize - Mod(offset) < len THEN BlockSize - Mod(offset) ELSE len
        next  == offset + first
        count == Div(len - first) + (IF Mod(len - first) > 0 THEN 1 ELSE 0)
    IN  (IF first > 0 THEN <<[from |-> offset, n |-> first, block |-> Div(offset), count |-> 1]>> ELSE <<>>)
        \o (IF count > 0 THEN <<[from |-> next, n |-> count * BlockSize, block |-> Div(next), count |-> count]>>
            ELSE <<>>)

(* The pieces of a transfer: a partial first block, whole blocks, a partial *)
(* last block.  Partial blocks go through a buffer of one block.            *)
Pieces(offset, len) ==
    LET first  == IF Mod(offset) = 0 THEN 0
                  ELSE IF BlockSize - Mod(offset) < len THEN BlockSize - Mod(offset) ELSE len
        next   == offset + first
        count  == Div(len - first)
        rest   == Mod(len - first)
        last   == next + count * BlockSize
    IN  (IF first > 0 THEN <<[from |-> offset, n |-> first, block |-> Div(offset), count |-> 1]>> ELSE <<>>)
        \o (IF count > 0 THEN <<[from |-> next, n |-> count * BlockSize, block |-> Div(next), count |-> count]>>
            ELSE <<>>)
        \o (IF rest > 0 THEN <<[from |-> last, n |-> rest, block |-> Div(last), count |-> 1]>> ELSE <<>>)

\* One piece of a write, of which the device does the first `done` blocks: the
\* rest of the block of a partial piece is what was read from it.
WritePiece(md, p, v, done) ==
    WriteBlocks(md, p.block, done,
                [x \in DOMAIN md |-> IF x \in p.from..(p.from + p.n - 1) THEN v ELSE md[x]])

\* The pieces up to the one that fails, which is done for `done` blocks.
tegrabl_blockdev_default_write(md, offset, len, v, fail, done) ==
    LET ps == Pieces(offset, len)
        upto[k \in 0..Len(ps)] ==
            IF k = 0 THEN md
            ELSE IF fail # 0 /\ k > fail THEN upto[k - 1]
            ELSE WritePiece(upto[k - 1], ps[k], v, IF k = fail THEN done ELSE ps[k].count)
    IN  upto[Len(ps)]

tegrabl_blockdev_default_read(md, offset, len) ==
    LET piece(p) == [k \in 1..p.n |-> md[p.from + k - 1]]
        ps == Pieces(offset, len)
        upto[k \in 0..Len(ps)] == IF k = 0 THEN <<>> ELSE upto[k - 1] \o piece(ps[k])
    IN  upto[Len(ps)]

InDevice(offset, len) == len > 0 /\ offset + len <= BlockSize * Blocks

----------------------------------------------------------------------------
(* lib/gpt *)

\* The copy that is used; `good` are those that can be read and check out, header and table.
tegrabl_gpt_read(good) ==
    CASE "primary" \in good -> "primary"
      [] good = {"secondary"} -> "secondary"
      [] OTHER -> "none"

\* An entry that does not end behind its first block counts as empty.
tegrabl_gpt_publish ==
    LET used == SelectSeq(Table, LAMBDA e : e.last_lba > e.first_lba)
    IN  [k \in 1..Len(used) |->
            [name |-> used[k].name, start |-> used[k].first_lba,
             sectors |-> used[k].last_lba - used[k].first_lba + 1]]

Info(name) == LET at == SelectInSeq(parts, LAMBDA p : p.name = name) IN parts[at]
Size(p) == p.sectors * BlockSize

----------------------------------------------------------------------------
(* lib/partition_manager *)

Ok(bytes) == out' = [ok |-> TRUE, bytes |-> bytes]
Fails == out' = [ok |-> FALSE, bytes |-> <<>>]
Call == calls < MaxCalls /\ calls' = calls + 1
Works == UNCHANGED faults
Fault == faults < MaxFaults /\ faults' = faults + 1
IsOpen(h) == handle[h] # Closed
Refuse == Fails /\ UNCHANGED <<media, handle>>

\* Nothing is published, and it may be tried again, when neither copy is good.
tegrabl_partition_publish ==
    /\ parts = <<>>
    /\ \E good \in SUBSET Copies :
          parts' = IF tegrabl_gpt_read(good) # "none" THEN tegrabl_gpt_publish ELSE <<>>
    /\ UNCHANGED <<media, handle, out, calls, faults>>

tegrabl_partitions_unpublish ==
    /\ parts # <<>> /\ \A h \in Handles : ~IsOpen(h)
    /\ parts' = <<>>
    /\ UNCHANGED <<media, handle, out, calls, faults>>

tegrabl_partition_open(h, name) ==
    /\ ~IsOpen(h) /\ UNCHANGED calls /\ Works
    /\ IF \E k \in 1..Len(parts) : parts[k].name = name
       THEN handle' = [handle EXCEPT ![h] = [name |-> name, offset |-> 0]] /\ Ok(<<>>)
       ELSE handle' = [handle EXCEPT ![h] = Closed] /\ Fails
    /\ UNCHANGED <<media, parts>>

tegrabl_partition_close(h) ==
    /\ IsOpen(h) /\ UNCHANGED calls /\ Works
    /\ handle' = [handle EXCEPT ![h] = Closed] /\ Ok(<<>>)
    /\ UNCHANGED <<media, parts>>

\* From the start, the position or the end.
tegrabl_partition_seek(h, offset, origin) ==
    LET size == Size(Info(handle[h].name))
        to == offset + (CASE origin = "set" -> 0
                          [] origin = "cur" -> handle[h].offset
                          [] origin = "end" -> size)
    IN  /\ IsOpen(h) /\ Call /\ Works
        /\ IF to < 0 \/ size < to THEN Refuse
           ELSE handle' = [handle EXCEPT ![h].offset = to] /\ Ok(<<>>) /\ UNCHANGED media
        /\ UNCHANGED parts

\* Mutant: the position is not counted.
FitsFromStart(h, n) == Size(Info(handle[h].name)) >= n
Fits(h, n) == Size(Info(handle[h].name)) >= n + handle[h].offset
At(h) == handle[h].offset + Info(handle[h].name).start * BlockSize

\* The position is moved whether or not the device has failed or the block
\* device has refused the range.
tegrabl_partition_write(h, n) ==
    /\ IsOpen(h) /\ Call
    /\ IF ~Fits(h, n) THEN Refuse /\ Works
       ELSE LET ps == Pieces(At(h), n)
                inside == InDevice(At(h), n)
            IN  /\ handle' = [handle EXCEPT ![h].offset = @ + n]
                /\ \/ /\ media' = IF inside THEN tegrabl_blockdev_default_write(media, At(h), n, calls', 0, 0)
                                ELSE media
                      /\ out' = [ok |-> inside, bytes |-> <<>>] /\ Works
                   \/ /\ inside
                      /\ \E fail \in 1..Len(ps) : \E done \in 0..ps[fail].count - 1 :
                            media' = tegrabl_blockdev_default_write(media, At(h), n, calls', fail, done)
                      /\ Fails /\ Fault
    /\ UNCHANGED parts

tegrabl_partition_read(h, n) ==
    /\ IsOpen(h) /\ Call
    /\ IF ~Fits(h, n) \/ ~InDevice(At(h), n) THEN Refuse /\ Works
       ELSE \/ /\ handle' = [handle EXCEPT ![h].offset = @ + n]
               /\ Ok(tegrabl_blockdev_default_read(media, At(h), n)) /\ Works
               /\ UNCHANGED media
            \/ Refuse /\ Fault
    /\ UNCHANGED parts

\* The blocks of the partition, by the driver's own erase.
tegrabl_partition_erase(h) ==
    LET p == Info(handle[h].name)
    IN  /\ IsOpen(h) /\ Call
        /\ \E done \in 0..p.sectors :
              /\ media' = WriteBlocks(media, p.start, done, [x \in Bytes |-> 0])
              /\ \/ done = p.sectors /\ Ok(<<>>) /\ Works
                 \/ done < p.sectors /\ Fails /\ Fault
        /\ UNCHANGED <<parts, handle>>

Names == {e.name : e \in Range(Table)}
LongestPart == Max({Size(parts[k]) : k \in 1..Len(parts)} \cup {0})
Next ==
    \/ tegrabl_partition_publish \/ tegrabl_partitions_unpublish
    \/ \E h \in Handles :
          \/ \E name \in Names : tegrabl_partition_open(h, name)
          \/ tegrabl_partition_close(h)
          \/ \E to \in (-LongestPart)..(LongestPart + 1), origin \in {"set", "cur", "end"} : tegrabl_partition_seek(h, to, origin)
          \/ \E n \in 1..(LongestPart + 1) : tegrabl_partition_write(h, n) \/ tegrabl_partition_read(h, n)
          \/ tegrabl_partition_erase(h)

Spec == Init /\ [][Next]_vars

----------------------------------------------------------------------------

(* Reads, writes and erasures of any length at any position, of which the   *)
(* device may do only a part, are those of a file per partition: the       *)
(* read-modify-write of partial blocks changes no byte that was not meant. *)
EntryOf(name) == LET at == SelectInSeq(Table, LAMBDA e : e.name = name) IN Table[at]
SizeOfName(name) == (EntryOf(name).last_lba - EntryOf(name).first_lba + 1) * BlockSize
Abs == INSTANCE PartFiles WITH
    SizeOf <- SizeOfName, Values <- 1..MaxCalls, Blank <- 0,
    files <- [n \in Names |-> [k \in 0..SizeOfName(n) - 1 |-> media[EntryOf(n).first_lba * BlockSize + k]]],
    pos <- handle
IsPartFiles == Abs!Spec

(* No call changes a byte that lies outside the partitions, where the       *)
(* copies of the partition table are.                                       *)
OutsideKept ==
    [][\A x \in Bytes :
          (\A e \in Range(Table) : Div(x) \notin e.first_lba..e.last_lba) => media'[x] = media[x]]_vars
=============================================================================
