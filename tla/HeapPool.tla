------------------------------ MODULE HeapPool ------------------------------
(***************************************************************************)
(* What tegrabl_malloc.h promises: blocks of at least the requested size   *)
(* and of the requested alignment, inside the memory reserved for a heap,  *)
(* none overlapping another that is in use.                                *)
(***************************************************************************)
EXTENDS Naturals

VARIABLES
    words,       \* the words of memory reserved for heaps
    live         \* the blocks in use: their address, size and alignment

Area(b) == b.ptr .. b.ptr + b.size - 1

Init == live = {}

Alloc ==
    \E b \in live' :
        /\ live' = live \cup {b} /\ b \notin live
        /\ b.ptr % b.align = 0
        /\ Area(b) \subseteq words
        /\ \A c \in live : Area(b) \cap Area(c) = {}

Free == \E b \in live : live' = live \ {b}

Next == (Alloc \/ Free) /\ UNCHANGED words

Spec == Init /\ [][Next]_<<words, live>>
=============================================================================
