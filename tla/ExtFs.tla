-------------------------------- MODULE ExtFs --------------------------------
(***************************************************************************)
(* The read-only ext2 and ext4 file system of lib/fs/ext2 and lib/fs/ext4  *)
(* on top of the block cache: mount, path walk, reading through block      *)
(* pointers and through extents, unmount.                                  *)
(*                                                                         *)
(* A volume is a record of its format and of the decoded content of each   *)
(* block: a table of inodes, directory entries, block pointers, a leaf of  *)
(* extents, the root of a hashed directory, or data.  Data has BLOCK_SIZE  *)
(* bytes, byte k of block b being <<b, k>>.  A path is a sequence of names.*)
(* The heap is taken to be large enough; reads of the device may fail.     *)
(***************************************************************************)
EXTENDS Integers, Sequences, FiniteSets, SequencesExt

CONSTANTS
    Volumes,        \* the volumes that may be on the device
    Paths,          \* the paths that clients ask for
    LinkPaths,      \* those of them that lead through a symbolic link
    Offsets,        \* the offsets and lengths of their reads
    Lengths,
    Count,          \* blocks of the cache
    BLOCK_SIZE,     \* bytes of a block
    NDIR_BLOCKS,    \* EXT2_NDIR_BLOCKS, direct pointers of an inode
    ADDR_PER_BLOCK, \* pointers in a block
    BadBlocks,      \* the blocks that the device may fail to deliver
    MaxFailures     \* bound on the reads of the device that fail

INSTANCE BlockCache

VARIABLES
    volume,    \* what is on the device
    mounted,   \* whether ext2_mount or ext4_mount has succeeded
    cache,     \* ext2->cache
    root,      \* ext2->root_inode
    file,      \* the open file: the path asked for and the inode, or none
    last,      \* the last read: [path, offset, bytes]
    failures   \* reads of the device that have failed

vars == <<volume, mounted, cache, root, file, last, failures>>

EXT2_ROOTINO == 2
Zero == <<0, 0>>
Junk == <<-1, 0>>           \* a byte that the code leaves as it was
NoInode == [mode |-> "NONE"]
NoFile == [path |-> <<>>, inode |-> NoInode]
NoRead == [path |-> <<>>, offset |-> 0, bytes |-> <<>>]

Disk(b) == volume.disk[b]

Init ==
    /\ volume \in Volumes
    /\ mounted = FALSE
    /\ cache = bcache_create
    /\ root = NoInode
    /\ file = NoFile
    /\ last = NoRead
    /\ failures = 0

-----------------------------------------------------------------------------
(* Inodes and block pointers: ext2.c, io.c.                                *)

\* The block of the inode table that holds an inode, and its place there.
get_inode_addr(num) ==
    LET group == (num - 1) \div volume.ipg
        index == (num - 1) % volume.ipg
    IN [block |-> volume.tables[group] + index \div volume.inodes_per_block,
        place |-> index % volume.inodes_per_block]

\* Mutant: the reference to the block is kept.
LoadInodeUnput(c, num, bad) ==
    LET addr == get_inode_addr(num)
        Inode(got) == [c |-> got.c, err |-> got.err,
                       inode |-> IF got.err THEN NoInode ELSE Disk(addr.block).at[addr.place]]
    IN Inode(bcache_get_block(c, addr.block, bad))

\* Content that is read as a table of inodes although it is none gives an inode
\* of no known mode.
ext2_load_inode(c, num, bad) ==
    LET addr == get_inode_addr(num)
        Inode(got) ==
            IF got.err THEN [c |-> got.c, err |-> TRUE, inode |-> NoInode]
            ELSE [c |-> bcache_put_block(got.c, addr.block),
                  err |-> FALSE,
                  inode |-> IF got.data # Unread /\ Disk(got.data).kind = "inodes"
                            THEN Disk(got.data).at[addr.place] ELSE NoInode]
    IN Inode(bcache_get_block(c, addr.block, bad))

\* Mutant: the first block behind the first table is looked up in that table.
PointerPosUnsplit(fileblock) ==
    LET P == ADDR_PER_BLOCK
        i == fileblock - NDIR_BLOCKS
    IN IF fileblock < NDIR_BLOCKS THEN <<fileblock>>
       ELSE IF i <= P THEN <<NDIR_BLOCKS, i % P>>
       ELSE <<NDIR_BLOCKS + 1, (i - P) \div P, (i - P) % P>>

\* The pointers to follow: in the inode, then in each indirect block.
ext2_calculate_block_pointer_pos(fileblock) ==
    LET P == ADDR_PER_BLOCK
        i == fileblock - NDIR_BLOCKS
        ii == i - P
        iii == ii - P * P
    IN IF fileblock < NDIR_BLOCKS THEN <<fileblock>>
       ELSE IF i < P THEN <<NDIR_BLOCKS, i>>
       ELSE IF ii < P * P THEN <<NDIR_BLOCKS + 1, ii \div P, ii % P>>
       ELSE <<NDIR_BLOCKS + 2, iii \div (P * P), (iii % (P * P)) \div P, (iii % (P * P)) % P>>

Pointer(tag, k) ==
    IF tag # Unread /\ Disk(tag).kind = "pointers" THEN Disk(tag).at[k] ELSE 0

\* Block 0 stands for a hole, and for an indirect block that cannot be read.
\* A table is referenced while its pointer is taken.
file_block_to_fs_block(c, inode, fileblock, bad) ==
    LET pos == ext2_calculate_block_pointer_pos(fileblock)
        Entry(got, block, k) ==
            IF got.err THEN [c |-> got.c, block |-> 0]
            ELSE [c |-> bcache_put_block(got.c, block), block |-> Pointer(got.data, k)]
        Follow(acc, k) ==
            IF acc.block = 0 THEN acc
            ELSE Entry(bcache_get_block(acc.c, acc.block, bad), acc.block, k)
    IN FoldLeft(Follow, [c |-> c, block |-> inode.blocks[Head(pos)]], Tail(pos))

\* The parts of blocks that a read of len bytes at offset consists of: a partial
\* first block, whole blocks, a partial last one.
Pieces(offset, len) ==
    LET first == offset \div BLOCK_SIZE
        final == (offset + len - 1) \div BLOCK_SIZE
        From(b) == IF b = first THEN offset % BLOCK_SIZE ELSE 0
        To(b) == IF b = final THEN (offset + len - 1) % BLOCK_SIZE ELSE BLOCK_SIZE - 1
    IN [i \in 1 .. final - first + 1 |->
           [fileblock |-> first + i - 1, from |-> From(first + i - 1), to |-> To(first + i - 1)]]

BytesOf(tag, from, to) == [k \in 1 .. to - from + 1 |-> <<tag, from + k - 1>>]
Fill(byte, from, to) == [k \in 1 .. to - from + 1 |-> byte]

\* The length that is left when the read is trimmed to the file.
Trimmed(inode, offset, len) ==
    IF offset > inode.size THEN 0
    ELSE IF offset + len >= inode.size THEN inode.size - offset ELSE len

\* A block that cannot be read leaves junk in the buffer and is not reported.
ext2_read_inode(c, inode, offset, len, bad) ==
    LET Copy(got, before, p) ==
            [c |-> got.c,
             bytes |-> before \o IF got.err THEN Fill(Junk, p.from, p.to)
                                 ELSE BytesOf(got.data, p.from, p.to)]
        Read(map, before, p) ==
            IF map.block = 0 THEN [c |-> map.c, bytes |-> before \o Fill(Zero, p.from, p.to)]
            ELSE Copy(bcache_read_block(map.c, map.block, bad), before, p)
        Take(acc, p) == Read(file_block_to_fs_block(acc.c, inode, p.fileblock, bad), acc.bytes, p)
        n == Trimmed(inode, offset, len)
    IN IF n <= 0 THEN [c |-> c, bytes |-> <<>>]
       ELSE FoldLeft(Take, [c |-> c, bytes |-> <<>>], Pieces(offset, n))

-----------------------------------------------------------------------------
(* Reading a file with extents: the buffer is a function from the blocks of *)
(* the file to what was read there.                                         *)

ReadFails(b, bad) == b \in bad

\* ext4_read_extent: one leaf into the buffer from block base on; bytes_read is
\* the end of the last extent, or what it was when the device fails.
ext4_read_extent(buf, extents, base, before, bad) ==
    LET Load(acc, e) ==
            IF acc.err THEN acc
            ELSE IF \E k \in 0 .. e.len - 1 : ReadFails(e.start + k, bad) THEN [acc EXCEPT !.err = TRUE]
            ELSE [acc EXCEPT
                    !.buf = [n \in DOMAIN @ \cup {base + e.block_no + k : k \in 0 .. e.len - 1} |->
                               IF n \in base + e.block_no .. base + e.block_no + e.len - 1
                               THEN e.start + n - base - e.block_no ELSE @[n]],
                    !.end = e.block_no + e.len]
        r == FoldLeft(Load, [buf |-> buf, end |-> 0, err |-> FALSE], extents)
    IN [r EXCEPT !.end = IF r.err THEN before ELSE @]

\* ext4_read_data_from_extent: every index entry reads the first leaf again, and
\* an error of a leaf is replaced by the result of the next one.
ext4_read_data_from_extent(inode, len, bad) ==
    LET limit == (len + BLOCK_SIZE - 1) \div BLOCK_SIZE
        TooMany(total) == len # 0 /\ total > limit
        Leaf(acc, i) ==
            LET leaf == inode.index[1]
                r == ext4_read_extent(acc.buf, Disk(leaf).extents, acc.total, acc.read, bad)
                total == acc.total + r.end
            IN IF acc.fail THEN acc
               ELSE IF ReadFails(leaf, bad) THEN [acc EXCEPT !.fail = TRUE, !.err = TRUE]
               ELSE [buf |-> r.buf, read |-> r.end, total |-> total,
                     err |-> r.err \/ TooMany(total), fail |-> TooMany(total)]
        one == ext4_read_extent(<<>>, inode.extents, 0, 0, bad)
    IN IF inode.depth > 0
       THEN FoldLeft(Leaf, [buf |-> <<>>, read |-> 0, total |-> 0, err |-> FALSE, fail |-> FALSE],
                     [i \in 1 .. Len(inode.index) |-> i])
       ELSE [buf |-> one.buf, total |-> one.end, err |-> one.err \/ TooMany(one.end)]

\* The bytes in the client's buffer after a read of an ext4 file.
BufferBytes(buf, n) ==
    [k \in 1 .. n |-> LET b == (k - 1) \div BLOCK_SIZE IN
        IF b \in DOMAIN buf THEN <<buf[b], (k - 1) % BLOCK_SIZE>> ELSE Junk]

-----------------------------------------------------------------------------
(* Directories and paths: dir.c, ext4.c.                                    *)

\* extents_blk_lookup: the first extent that ends behind the block is taken;
\* without one the block is block 0 of the volume.
extents_blk_lookup(extents, num) ==
    LET ends == {i \in DOMAIN extents : extents[i].block_no + extents[i].len > num}
        i == CHOOSE j \in ends : \A k \in ends : j <= k
    IN IF ends = {} THEN 0 ELSE extents[i].start + num - extents[i].block_no

\* get_extents_blk: only the first index entry is followed; the result is the
\* tag of the block, Unread when the device could not deliver it.  Only the
\* failure to read the index is an error.
get_extents_blk(inode, num, bad) ==
    LET leaf == inode.index[1]
        b == extents_blk_lookup(IF inode.depth > 0 THEN Disk(leaf).extents ELSE inode.extents, num)
    IN IF inode.depth > 0 /\ ReadFails(leaf, bad) THEN [err |-> TRUE, tag |-> Unread]
       ELSE [err |-> FALSE, tag |-> IF ReadFails(b, bad) THEN Unread ELSE b]

Entries(tag) ==
    IF tag # Unread /\ Disk(tag).kind = "dir" THEN Disk(tag).entries ELSE <<>>

\* The inode of a name in a list of entries, 0 if there is none.
InodeOf(entries, name) ==
    LET at == {i \in DOMAIN entries : entries[i].name = name}
    IN IF at = {} THEN 0 ELSE entries[CHOOSE i \in at : \A j \in at : i <= j].inum

FirstFound(inums) == IF \E i \in DOMAIN inums : inums[i] # 0
                     THEN inums[CHOOSE i \in DOMAIN inums : inums[i] # 0 /\ \A j \in 1 .. i - 1 : inums[j] = 0]
                     ELSE 0

\* Each block of the directory is read through the cache until the name is found.
ext2_dir_lookup(c, inode, name, bad) ==
    LET Search(r) ==
            LET tag == IF r.bytes = <<>> \/ Head(r.bytes) \in {Junk, Zero} THEN Unread ELSE Head(r.bytes)[1]
            IN [c |-> r.c, inum |-> InodeOf(Entries(tag), name)]
        Look(acc, p) ==
            IF acc.inum # 0 THEN acc
            ELSE Search(ext2_read_inode(acc.c, inode, (p - 1) * BLOCK_SIZE, BLOCK_SIZE, bad))
    IN IF inode.mode # "DIR" THEN [c |-> c, inum |-> 0]
       ELSE FoldLeft(Look, [c |-> c, inum |-> 0],
                     [p \in 1 .. inode.size \div BLOCK_SIZE |-> p])

\* A hashed directory: its root, then every block the root names, in order.
lookup_hashed_dir(inode, name, bad) ==
    LET top == get_extents_blk(inode, 0, bad)
        blocks == IF top.tag # Unread /\ Disk(top.tag).kind = "dx" THEN Disk(top.tag).blocks ELSE <<>>
        got == [i \in DOMAIN blocks |-> get_extents_blk(inode, blocks[i], bad)]
        found == FirstFound([i \in DOMAIN blocks |-> InodeOf(Entries(got[i].tag), name)])
    IN IF top.err \/ \E i \in DOMAIN got : got[i].err THEN 0 ELSE found

\* A linear directory: all of it is read, its first block is searched.
lookup_linear_dir(inode, name, bad) ==
    LET r == ext4_read_data_from_extent(inode, 0, bad) IN
    IF r.err \/ r.total = 0 THEN 0 ELSE InodeOf(Entries(r.buf[0]), name)

ext4_dir_lookup(inode, name, bad) ==
    IF inode.mode # "DIR" THEN 0
    ELSE IF inode.hashed THEN lookup_hashed_dir(inode, name, bad)
    ELSE lookup_linear_dir(inode, name, bad)

\* ext2_walk along the names of a path.  A link is not followed: the walk goes on
\* with the rest of the path from the root or from the directory of the link.
\* At a link that ends the path the code reads through a null pointer.  The text
\* of a link is taken to lie in the inode (ext2_read_link, up to 60 bytes), so
\* that no block is read for it; a longer or an empty one is left out.
ext2_walk(c, path, bad) ==
    LET Enter(acc, loaded, i) ==
            LET on == [acc EXCEPT !.c = loaded.c]
            IN IF loaded.err THEN [on EXCEPT !.err = TRUE]
               ELSE IF loaded.inode.mode = "LNK"
                    THEN IF i = Len(path) THEN [on EXCEPT !.err = TRUE, !.c.hung = TRUE]
                         ELSE [on EXCEPT !.recurse = @ + 1,
                                         !.dir = IF loaded.inode.absolute THEN root ELSE @]
               ELSE IF loaded.inode.mode = "DIR" THEN [on EXCEPT !.dir = loaded.inode]
               ELSE [on EXCEPT !.err = i < Len(path)]
        Load(acc, looked, i) ==
            IF looked.inum = 0 THEN [acc EXCEPT !.c = looked.c, !.err = TRUE]
            ELSE Enter([acc EXCEPT !.inum = looked.inum], ext2_load_inode(looked.c, looked.inum, bad), i)
        Step(acc, i) ==
            IF acc.err THEN acc
            ELSE IF acc.recurse > 4 THEN [acc EXCEPT !.err = TRUE]
            ELSE Load(acc, IF acc.dir.uses_extents
                           THEN [c |-> acc.c, inum |-> ext4_dir_lookup(acc.dir, path[i], bad)]
                           ELSE ext2_dir_lookup(acc.c, acc.dir, path[i], bad), i)
    IN FoldLeft(Step, [c |-> c, dir |-> root, inum |-> 0, recurse |-> 1, err |-> FALSE],
                [i \in 1 .. Len(path) |-> i])

-----------------------------------------------------------------------------
(* The calls of the file system, one action each.  bad is the set of blocks *)
(* that the device does not deliver during the call.                        *)

Faults(bad) ==
    /\ failures + Cardinality(bad) <= MaxFailures
    /\ failures' = failures + Cardinality(bad)

BadSets == {{}} \cup {{b} : b \in BadBlocks}

\* ext2_mount, ext4_mount: block 0 holds the superblock and the descriptors.
Mount(bad) ==
    LET Loaded(r) ==
            \/ (0 \in bad \/ r.err) /\ UNCHANGED <<mounted, cache, root>>
            \/ /\ 0 \notin bad /\ ~r.err
               /\ mounted' = TRUE /\ cache' = r.c /\ root' = r.inode
    IN /\ ~mounted /\ ~cache.hung
       /\ Faults(bad)
       /\ Loaded(ext2_load_inode(bcache_create, EXT2_ROOTINO, bad))
       /\ UNCHANGED <<volume, file, last>>

\* ext2_open_file, ext4_open_file
Open(path, bad) ==
    LET Loaded(r) == /\ cache' = r.c
                     /\ file' = IF r.err THEN NoFile ELSE [path |-> path, inode |-> r.inode]
        Walked(w) == \/ w.err /\ cache' = w.c /\ UNCHANGED file
                     \/ ~w.err /\ Loaded(ext2_load_inode(w.c, w.inum, bad))
    IN /\ mounted /\ ~cache.hung /\ file = NoFile
       /\ Faults(bad)
       /\ Walked(ext2_walk(cache, path, bad))
       /\ UNCHANGED <<volume, mounted, root, last>>

\* ext2_read_file
Ext2Read(offset, len, bad) ==
    LET r == ext2_read_inode(cache, file.inode, offset, len, bad) IN
    /\ volume.type = "ext2" /\ ~cache.hung
    /\ len # 0 /\ file.inode.mode = "REG"
    /\ Faults(bad)
    /\ cache' = r.c
    /\ last' = IF r.c.hung THEN last ELSE [path |-> file.path, offset |-> offset, bytes |-> r.bytes]
    /\ UNCHANGED <<volume, mounted, root, file>>

\* ext4_read_file, whose offset must be 0
Ext4Read(len, bad) ==
    LET r == ext4_read_data_from_extent(file.inode, len, bad) IN
    /\ volume.type = "ext4" /\ ~cache.hung
    /\ len # 0 /\ file.inode.mode = "REG" /\ file.inode.uses_extents
    /\ Faults(bad)
    /\ last' = IF r.err THEN NoRead
               ELSE [path |-> file.path, offset |-> 0, bytes |-> BufferBytes(r.buf, r.total * BLOCK_SIZE)]
    /\ UNCHANGED <<volume, mounted, cache, root, file>>

\* ext2_close_file
Close ==
    /\ file # NoFile /\ ~cache.hung
    /\ file' = NoFile /\ last' = NoRead
    /\ UNCHANGED <<volume, mounted, cache, root, failures>>

\* ext2_unmount with the assertion of bcache_destroy
Unmount ==
    /\ mounted /\ file = NoFile /\ ~cache.hung
    /\ IF DestroyAllowed(cache)
       THEN mounted' = FALSE /\ cache' = bcache_create /\ root' = NoInode
       ELSE cache' = [cache EXCEPT !.hung = TRUE] /\ UNCHANGED <<mounted, root>>
    /\ UNCHANGED <<volume, file, last, failures>>

Next ==
    \/ \E bad \in BadSets :
        \/ Mount(bad)
        \/ \E path \in Paths : Open(path, bad)
        \/ \E offset \in Offsets, len \in Lengths : Ext2Read(offset, len, bad)
        \/ \E len \in Lengths : Ext4Read(len, bad)
    \/ Close
    \/ Unmount

Spec == Init /\ [][Next]_vars

-----------------------------------------------------------------------------
(* What the formats say, without the code's arithmetic.                    *)

PointersOf(b) == IF b = 0 THEN [k \in 1 .. ADDR_PER_BLOCK |-> 0]
                 ELSE [k \in 1 .. ADDR_PER_BLOCK |-> Disk(b).at[k - 1]]
Expand(blocks) == FlattenSeq([i \in DOMAIN blocks |-> PointersOf(blocks[i])])
MappedBlocks(inode) ==
    [k \in 1 .. NDIR_BLOCKS |-> inode.blocks[k - 1]]
        \o Expand(<<inode.blocks[NDIR_BLOCKS]>>)
        \o Expand(Expand(<<inode.blocks[NDIR_BLOCKS + 1]>>))
        \o Expand(Expand(Expand(<<inode.blocks[NDIR_BLOCKS + 2]>>)))

ExtentsOf(inode) ==
    IF inode.depth = 0 THEN Range(inode.extents)
    ELSE UNION {Range(Disk(inode.index[i]).extents) : i \in DOMAIN inode.index}

BlockOf(inode, n) ==
    IF ~inode.uses_extents THEN MappedBlocks(inode)[n + 1]
    ELSE LET has == {e \in ExtentsOf(inode) : n \in e.block_no .. e.block_no + e.len - 1}
         IN IF has = {} THEN 0 ELSE LET e == CHOOSE x \in has : TRUE IN e.start + n - e.block_no

ByteOf(inode, k) ==
    LET b == BlockOf(inode, k \div BLOCK_SIZE) IN IF b = 0 THEN Zero ELSE <<b, k % BLOCK_SIZE>>

\* The inode that a path without links names.
InodeNamed(path) ==
    LET At(num) == Disk(get_inode_addr(num).block).at[get_inode_addr(num).place]
        In(dir, name) ==
            LET all == UNION {Range(Entries(BlockOf(dir, n))) : n \in 0 .. (dir.size \div BLOCK_SIZE) - 1}
            IN (CHOOSE e \in all : e.name = name).inum
    IN FoldLeft(LAMBDA dir, name : At(In(dir, name)), At(EXT2_ROOTINO), path)

-----------------------------------------------------------------------------
(* Properties.                                                             *)

\* As long as the device delivers what it is asked for, the cache of a mounted
\* volume is sound between two calls: its blocks are in one list each, linked
\* both ways, hold what the device holds and no block is cached twice
\* (find_block, alloc_block, find_or_fill_block).
CacheSound == failures = 0 => Sound(cache)

\* Whatever fails, no call of the file system keeps a reference to a block, so
\* that each can be reused and the assertion of bcache_destroy holds
\* (bcache_get_block, bcache_put_block and their callers).
NoRefLeft == ~cache.hung => DestroyAllowed(cache)

\* As long as the device delivers what it is asked for, a read returns bytes of
\* the file that the path names, from the place asked for on: through direct
\* and indirect pointers, holes, extents and evictions from the cache.  Paths
\* with a link in them are left out, as the walk does not follow links
\* (ext2_walk, ext2_read_inode, ext4_read_data_from_extent).
ReadsExact ==
    failures = 0 /\ last # NoRead /\ last.path \notin LinkPaths =>
        LET inode == InodeNamed(last.path) IN
        \A k \in DOMAIN last.bytes :
            last.offset + k <= inode.size => last.bytes[k] = ByteOf(inode, last.offset + k - 1)
=============================================================================
