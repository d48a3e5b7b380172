------------------------------ MODULE MCExtFs ------------------------------
(***************************************************************************)
(* Two small volumes for ExtFs: one with block pointers up to the third    *)
(* indirect block, one with extents and a hashed directory.                *)
(***************************************************************************)
EXTENDS ExtFs

Node(mode, size, blocks) ==
    [mode |-> mode, size |-> size, blocks |-> blocks, uses_extents |-> FALSE, absolute |-> FALSE]
Extents(mode, size, depth, extents, index, hashed) ==
    [mode |-> mode, size |-> size, uses_extents |-> TRUE, absolute |-> FALSE, hashed |-> hashed,
     depth |-> depth, extents |-> extents, index |-> index]
Ptr(direct, ind, dind, tind) == (0 :> direct) @@ (1 :> ind) @@ (2 :> dind) @@ (3 :> tind)
Inodes(a, b) == [kind |-> "inodes", at |-> (0 :> a) @@ (1 :> b)]
Table(a, b) == [kind |-> "pointers", at |-> (0 :> a) @@ (1 :> b)]
Dir(entries) == [kind |-> "dir", entries |-> entries]
Entry(name, inum) == [name |-> name, inum |-> inum]
Data == [kind |-> "data"]
Extent(block_no, len, start) == [block_no |-> block_no, len |-> len, start |-> start]

\* Inodes 1-4 in blocks 1 and 2, 5-8 in blocks 3 and 4.  image has a hole in its
\* first indirect block, sparse only a block behind three tables.
Ext2Volume ==
    [type |-> "ext2", ipg |-> 4, inodes_per_block |-> 2, tables |-> (0 :> 1) @@ (1 :> 3),
     disk |-> (0 :> Data)
        @@ (1 :> Inodes(NoInode, Node("DIR", 4, Ptr(5, 6, 0, 0))))
        @@ (2 :> Inodes(Node("DIR", 2, Ptr(8, 0, 0, 0)), Node("REG", 9, Ptr(9, 10, 12, 0))))
        @@ (3 :> Inodes(Node("REG", 2, Ptr(16, 0, 0, 0)), Node("REG", 16, Ptr(0, 0, 0, 17))))
        @@ (4 :> Inodes(Node("LNK", 1, Ptr(0, 0, 0, 0)), NoInode))
        @@ (5 :> Dir(<<Entry("boot", 3)>>)) @@ (6 :> Table(7, 0))
        @@ (7 :> Dir(<<Entry("conf", 5), Entry("link", 7), Entry("sparse", 6)>>))
        @@ (8 :> Dir(<<Entry("image", 4), Entry("conf", 5)>>))
        @@ (9 :> Data) @@ (10 :> Table(11, 0)) @@ (11 :> Data)
        @@ (12 :> Table(13, 0)) @@ (13 :> Table(14, 15)) @@ (14 :> Data) @@ (15 :> Data)
        @@ (16 :> Data) @@ (17 :> Table(18, 0)) @@ (18 :> Table(19, 0)) @@ (19 :> Table(20, 0))
        @@ (20 :> Data)]

\* The root is a hashed directory of three blocks; image has an index with one
\* leaf.
Ext4Volume ==
    [type |-> "ext4", ipg |-> 4, inodes_per_block |-> 2, tables |-> (0 :> 1) @@ (1 :> 3),
     disk |-> (0 :> Data)
        @@ (1 :> Inodes(NoInode, Extents("DIR", 6, 0, <<Extent(0, 1, 5), Extent(1, 2, 6)>>, <<>>, TRUE)))
        @@ (2 :> Inodes(Extents("DIR", 2, 0, <<Extent(0, 1, 8)>>, <<>>, FALSE),
                        Extents("REG", 7, 1, <<>>, <<9>>, FALSE)))
        @@ (3 :> Inodes(Extents("REG", 2, 0, <<Extent(0, 1, 12)>>, <<>>, FALSE), NoInode))
        @@ (5 :> [kind |-> "dx", blocks |-> <<2, 1>>])
        @@ (6 :> Dir(<<Entry("boot", 3)>>)) @@ (7 :> Dir(<<Entry("conf", 5)>>))
        @@ (8 :> Dir(<<Entry("image", 4)>>))
        @@ (9 :> [kind |-> "leaf", extents |-> <<Extent(0, 3, 13), Extent(3, 1, 10)>>])
        @@ (10 :> Data) @@ (12 :> Data) @@ (13 :> Data) @@ (14 :> Data) @@ (15 :> Data)]

MCVolumes == {Ext2Volume, Ext4Volume}
MCLinkPaths == {<<"link", "conf">>}
MCPaths == {<<"conf">>, <<"boot", "image">>, <<"sparse">>, <<"boot", "none">>} \cup MCLinkPaths
=============================================================================
