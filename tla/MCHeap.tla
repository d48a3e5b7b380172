------------------------------- MODULE MCHeap -------------------------------
(* Heap with small heaps, in words of eight bytes. *)
EXTENDS Heap

OneHeap == [DEFAULT |-> [start |-> 8, size |-> 24]]
TwoHeaps == [DEFAULT |-> [start |-> 8, size |-> 14], DMA |-> [start |-> 24, size |-> 14]]
MCPlatforms == {OneHeap, TwoHeaps}
=============================================================================
