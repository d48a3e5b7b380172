-------------------------------- MODULE Heap --------------------------------
(***************************************************************************)
(* The heap of lib/malloc/tegrabl_malloc.c: per heap a doubly linked list  *)
(* of free blocks in order of address, first fit, splitting, alignment     *)
(* that gives the words in front of a block back, and coalescing on free.  *)
(*                                                                         *)
(* Addresses and sizes are in words of sizeof(uintptr_t) bytes, to which   *)
(* the code rounds sizes up; a call is atomic, as the loader has one       *)
(* thread.  free[b] and alloc[h] are the headers in memory; an address is  *)
(* that of the header.                                                     *)
(***************************************************************************)
EXTENDS Integers, FiniteSets, FiniteSetsExt

CONSTANTS
    Platforms,   \* the heaps that a platform may set up: type -> [start, size]
    Sizes,       \* the sizes that clients ask for
    Alignments,  \* the alignments that they ask for
    MIN_SIZE,    \* sizeof(tegrabl_heap_free_block_t)
    ALLOC_SIZE   \* sizeof(tegrabl_heap_alloc_block_t)

NULL == 0
Types == {"DEFAULT", "DMA"}

ASSUME PlatformsAssumption ==
    \A r \in Platforms :
        /\ DOMAIN r \subseteq Types
        /\ \A t \in DOMAIN r : r[t].start > NULL /\ r[t].size >= MIN_SIZE
ASSUME SizesAssumption ==
    /\ Sizes \subseteq Nat \ {0} /\ Alignments \subseteq Nat \ {0}
    /\ ALLOC_SIZE \in Nat \ {0} /\ MIN_SIZE \in Nat /\ ALLOC_SIZE <= MIN_SIZE

VARIABLES
    regions,     \* the platform at hand
    heap_info,   \* per type: max_size, free_size, start, end, free_list
    free,        \* the headers of the free blocks: size, prev, next
    alloc,       \* the headers of the blocks in use: start, size; and what was
                 \* asked for: the heap type, the size and the alignment
    hung         \* tegrabl_hang or a failed assertion

vars == <<regions, heap_info, free, alloc, hung>>

\* The static heap_info is zero.
Init ==
    /\ regions \in Platforms
    /\ heap_info = [t \in Types |->
           [max_size |-> 0, free_size |-> 0, start |-> 0, end |-> 0, free_list |-> NULL]]
    /\ free = <<>>
    /\ alloc = <<>>
    /\ hung = FALSE

-----------------------------------------------------------------------------
(* Headers in memory and the list.                                         *)

Put(F, b, header) == [c \in DOMAIN F \cup {b} |-> IF c = b THEN header ELSE F[c]]
Drop(F, b) == [c \in DOMAIN F \ {b} |-> F[c]]
SetPrev(F, b, p) == IF b = NULL THEN F ELSE [F EXCEPT ![b].prev = p]
SetNext(F, b, n) == IF b = NULL THEN F ELSE [F EXCEPT ![b].next = n]

\* The blocks met by following next from the head: NULL after the last.
Walk(head) ==
    LET at[i \in 0 .. Cardinality(DOMAIN free)] ==
            IF i = 0 THEN head
            ELSE IF at[i - 1] = NULL THEN NULL ELSE free[at[i - 1]].next
    IN  at

\* The first block of the list for which Wanted holds, or NULL.
First(t, Wanted(_)) ==
    LET at == Walk(heap_info[t].free_list)
        found == {i \in DOMAIN at : at[i] # NULL /\ Wanted(at[i])}
    IN  IF found = {} THEN NULL ELSE at[Min(found)]

check_link(t, b) ==
    /\ b >= heap_info[t].start /\ b + free[b].size <= heap_info[t].end
    /\ free[b].prev # NULL => free[free[b].prev].next = b
    /\ free[b].next # NULL => free[free[b].next].prev = b

update_free_list_head(head, b) == IF head = NULL \/ head > b THEN b ELSE head

\* The heap that a call works on: the default heap if the DMA heap has no free
\* block, be it because there is no DMA heap or because it is exhausted.
TypeUsed(type) == IF heap_info["DMA"].free_list = NULL THEN "DEFAULT" ELSE type

Hang == hung' = TRUE /\ UNCHANGED <<heap_info, free, alloc>>

-----------------------------------------------------------------------------
\* Called once for each heap.
tegrabl_heap_init(t) ==
    /\ ~hung
    /\ t \in DOMAIN regions /\ heap_info[t].max_size = 0
    /\ LET r == regions[t]
       IN  /\ free' = Put(free, r.start, [size |-> r.size, prev |-> NULL, next |-> NULL])
           /\ heap_info' = [heap_info EXCEPT ![t] =
                  [max_size |-> r.size, free_size |-> r.size, start |-> r.start,
                   end |-> r.start + r.size, free_list |-> r.start]]
    /\ UNCHANGED <<alloc, hung>>

\* What is left does not exceed a header.
TooSmall(rest) == rest <= MIN_SIZE

\* Block b leaves the list and what is left of it takes its place, unless that is
\* too small: then the block keeps it.
tegrabl_heap_split_block(t, b, size) ==
    LET prev == free[b].prev
        next == free[b].next
        head == heap_info[t].free_list
        rest == free[b].size - size
        new == b + size
    IN  IF TooSmall(rest)
        THEN [size |-> free[b].size,
              head |-> IF b = head THEN next ELSE head,
              free |-> SetPrev(SetNext(Drop(free, b), prev, next), next, prev)]
        ELSE [size |-> size,
              head |-> IF b = head THEN new ELSE head,
              free |-> Put(SetPrev(SetNext(Drop(free, b), prev, new), next, new),
                           new, [size |-> rest, prev |-> prev, next |-> next])]

\* What the split checks; otherwise it hangs.
SplitValid(t, b, size) ==
    /\ check_link(t, b)
    /\ TooSmall(free[b].size - size) \/ size <= heap_info[t].free_size

\* With the header, and never less than a free block will need.
AllocSize(size) == Max({size + ALLOC_SIZE, MIN_SIZE})

\* tegrabl_malloc, tegrabl_calloc and tegrabl_alloc; a call that returns NULL changes nothing.
tegrabl_generic_malloc(type, size) ==
    LET t == TypeUsed(type)
        b == First(t, LAMBDA c : free[c].size > AllocSize(size))
        split == tegrabl_heap_split_block(t, b, AllocSize(size))
    IN  /\ ~hung
        /\ size <= heap_info[t].free_size
        /\ b # NULL
        /\ IF SplitValid(t, b, AllocSize(size))
           THEN /\ free' = split.free
                /\ heap_info' = [heap_info EXCEPT
                       ![t].free_list = split.head, ![t].free_size = @ - split.size]
                /\ alloc' = Put(alloc, b, [start |-> b, size |-> split.size,
                                           type |-> type, asked |-> size, align |-> 1])
                /\ UNCHANGED hung
           ELSE Hang

-----------------------------------------------------------------------------
\* Mutant: the header is aligned, not what follows it.
AlignSizeOfBlock(b, alignment) == alignment - (b % alignment)

\* The words in front of the header: a whole alignment if there need be none.
AlignSize(b, alignment) == alignment - ((b + ALLOC_SIZE) % alignment)

get_free_block(t, alignment, size) ==
    First(t, LAMBDA c : AlignSize(c, alignment) + size <= free[c].size)

is_size_alignment_valid(t, alignment, size) == size + alignment <= heap_info[t].max_size

\* The block after the split one, in the list that the split has left.
NextAfterSplit(split, prev, next) ==
    IF prev = NULL /\ next = NULL THEN split.head
    ELSE IF next = NULL THEN split.free[prev].next
    ELSE IF split.free[next].prev # prev THEN split.free[next].prev
    ELSE next

\* tegrabl_memalign and tegrabl_alloc_align: if there is room for a free block
\* in front of the aligned one, it goes back to the list.
tegrabl_memalign_generic(type, alignment, size) ==
    LET t == TypeUsed(type)
        n == AllocSize(size)
        b == get_free_block(t, alignment, n)
        front == AlignSize(b, alignment)
        split == tegrabl_heap_split_block(t, b, n + front)
        prev == free[b].prev
        next == NextAfterSplit(split, prev, free[b].next)
        header(start, sz) == [start |-> start, size |-> sz,
                              type |-> type, asked |-> size, align |-> alignment]
    IN  /\ ~hung
        /\ is_size_alignment_valid(t, alignment, size)
        /\ b # NULL
        /\ IF /\ SplitValid(t, b, n + front)
              /\ front >= MIN_SIZE =>
                    /\ next # NULL => split.free[next].prev = prev
                    /\ prev # NULL => split.free[prev].next = next
           THEN /\ \/ /\ front < MIN_SIZE
                      /\ free' = split.free
                      /\ heap_info' = [heap_info EXCEPT
                             ![t].free_list = split.head, ![t].free_size = @ - split.size]
                      /\ alloc' = Put(alloc, b + front, header(b, split.size))
                   \/ /\ front >= MIN_SIZE
                      /\ free' = Put(SetNext(SetPrev(split.free, next, b), prev, b), b,
                                     [size |-> front, prev |-> prev, next |-> next])
                      /\ heap_info' = [heap_info EXCEPT
                             ![t].free_list = update_free_list_head(split.head, b),
                             ![t].free_size = (@ - split.size) + front]
                      /\ alloc' = Put(alloc, b + front, header(b + front, n))
                /\ UNCHANGED hung
           ELSE Hang

-----------------------------------------------------------------------------
validate_allocated_block(t, h) ==
    /\ alloc[h].start <= h /\ h <= alloc[h].start + alloc[h].size
    /\ alloc[h].start >= heap_info[t].start
    /\ alloc[h].start + alloc[h].size <= heap_info[t].end
    /\ alloc[h].size + heap_info[t].free_size <= heap_info[t].max_size

\* Mutant: the next block leaves the list, but its size is forgotten.
MergeForgettingSize(F, b) ==
    LET n == F[b].next
    IN  IF n # NULL /\ b + F[b].size = n
        THEN SetPrev(Drop([F EXCEPT ![b].next = F[n].next], n), F[n].next, b)
        ELSE F

tegrabl_heap_merge_with_next(F, b) ==
    LET n == F[b].next
    IN  IF n # NULL /\ b + F[b].size = n
        THEN SetPrev(Drop([F EXCEPT ![b].size = @ + F[n].size, ![b].next = F[n].next], n),
                     F[n].next, b)
        ELSE F

Overlapping(F, b) == F[b].next # NULL /\ b + F[b].size > F[b].next

\* Merge a block with the next and the previous one, and go on from the latter,
\* merged or not, up to the head of the list.
tegrabl_heap_merge_blocks(m) ==
    LET F == tegrabl_heap_merge_with_next(m.free, m.at)
        prev == F[m.at].prev
    IN  [free |-> IF prev = NULL THEN F ELSE tegrabl_heap_merge_with_next(F, prev),
         at |-> IF prev = NULL THEN m.at ELSE prev,
         done |-> prev = NULL,
         bad |-> m.bad \/ Overlapping(m.free, m.at) \/ (prev # NULL /\ Overlapping(F, prev))]

MergeAll(F, b) ==
    LET m[i \in 0 .. Cardinality(DOMAIN F)] ==
            IF i = 0 THEN [free |-> F, at |-> b, done |-> FALSE, bad |-> FALSE]
            ELSE IF m[i - 1].done THEN m[i - 1]
            ELSE tegrabl_heap_merge_blocks(m[i - 1])
    IN  m[Cardinality(DOMAIN F)]

\* Mutant: the block goes to the front of the list.
LinkAtHead(t, h) ==
    LET next == heap_info[t].free_list
    IN  Put(SetPrev(free, next, alloc[h].start), alloc[h].start,
            [size |-> alloc[h].size, prev |-> NULL, next |-> next])

\* The block enters the list between the last block before the pointer and the
\* first one after it.
Link(t, h) ==
    LET next == First(t, LAMBDA c : c >= h + ALLOC_SIZE)
        last == First(t, LAMBDA c : free[c].next = next)
        prev == IF next = heap_info[t].free_list THEN NULL ELSE last
    IN  Put(SetPrev(SetNext(free, prev, alloc[h].start), next, alloc[h].start),
            alloc[h].start, [size |-> alloc[h].size, prev |-> prev, next |-> next])

\* tegrabl_free and tegrabl_dealloc, for the heap type the block was asked of.
tegrabl_dealloc(h) ==
    LET t == TypeUsed(alloc[h].type)
        m == MergeAll(Link(t, h), alloc[h].start)
    IN  /\ ~hung
        /\ IF validate_allocated_block(t, h) /\ ~m.bad
           THEN /\ free' = m.free
                /\ alloc' = Drop(alloc, h)
                /\ heap_info' = [heap_info EXCEPT
                       ![t].free_list = update_free_list_head(@, m.at),
                       ![t].free_size = @ + alloc[h].size]
                /\ UNCHANGED hung
           ELSE Hang

Initialised == {t \in DOMAIN regions : heap_info[t].max_size # 0}

\* The heaps are set up before they are used.
Call ==
    /\ Initialised = DOMAIN regions
    /\ \/ \E t \in Types, size \in Sizes :
            \/ tegrabl_generic_malloc(t, size)
            \/ \E a \in Alignments : tegrabl_memalign_generic(t, a, size)
       \/ \E h \in DOMAIN alloc : tegrabl_dealloc(h)

Next == ((\E t \in Types : tegrabl_heap_init(t)) \/ Call) /\ UNCHANGED regions

Spec == Init /\ [][Next]_vars

-----------------------------------------------------------------------------
(* Properties.                                                             *)

RegionOf(t) == regions[t].start .. regions[t].start + regions[t].size - 1
FreeWords(b) == b .. b + free[b].size - 1
AllocWords(h) == alloc[h].start .. alloc[h].start + alloc[h].size - 1
FreeOf(t) == {b \in DOMAIN free : b \in RegionOf(t)}
TypeOK ==
    /\ \A t \in Types : heap_info[t].free_size \in 0 .. heap_info[t].max_size
    /\ \A t \in Initialised : heap_info[t].free_list \in FreeOf(t) \cup {NULL}
    /\ \A b \in DOMAIN free :
        /\ free[b].size >= MIN_SIZE
        /\ {free[b].prev, free[b].next} \subseteq DOMAIN free \cup {NULL}
    /\ \A h \in DOMAIN alloc : alloc[h].size >= MIN_SIZE /\ alloc[h].start <= h
    /\ hung \in BOOLEAN

\* "List is sorted in ascending order of memory address": the list of a heap
\* meets each of its free blocks once, in order, linked both ways, and no two of
\* them touch: what was freed has been merged.
ListInOrder ==
    \A t \in Initialised :
        LET at == Walk(heap_info[t].free_list)
            listed == {i \in DOMAIN at : at[i] # NULL}
        IN  /\ {at[i] : i \in listed} = FreeOf(t)
            /\ \A i \in listed : free[at[i]].prev = IF i = 0 THEN NULL ELSE at[i - 1]
            /\ \A i, j \in listed : i < j => at[i] + free[at[i]].size < at[j]

\* free_size, by which requests and frees are checked, is the size of the free
\* blocks.
FreeSizeExact ==
    \A t \in Initialised :
        heap_info[t].free_size = MapThenSumSet(LAMBDA b : free[b].size, FreeOf(t))

\* A client that frees what it was given, on the heap it asked, never runs into
\* "Heap corrupted" or a failed assertion.
NeverHangs == ~hung

\* With a single heap.
NeverHangsWithoutDma == "DMA" \notin DOMAIN regions => NeverHangs

\* "This memory can be returned back to pool using tegrabl_free": with nothing in
\* use, all of a heap is free.
AllReturned ==
    \A t \in Initialised :
        (\A h \in DOMAIN alloc : alloc[h].start \notin RegionOf(t)) =>
            heap_info[t].free_size = heap_info[t].max_size

Pool == INSTANCE HeapPool WITH
    words <- UNION {RegionOf(t) : t \in DOMAIN regions},
    live <- {[ptr |-> h + ALLOC_SIZE, size |-> alloc[h].asked, align |-> alloc[h].align] :
                h \in DOMAIN alloc}

\* Blocks in use are aligned, as large as asked for, and disjoint.
IsPool == Pool!Spec

\* The blocks, in use or free, never overlap, headers included.
BlocksDisjoint ==
    /\ \A b, c \in DOMAIN free : b # c => FreeWords(b) \cap FreeWords(c) = {}
    /\ \A g, h \in DOMAIN alloc : g # h => AllocWords(g) \cap AllocWords(h) = {}
    /\ \A b \in DOMAIN free, h \in DOMAIN alloc : FreeWords(b) \cap AllocWords(h) = {}

\* What every call of the allocator finds and leaves: sizes no smaller than a
\* header, a list that is sorted, linked both ways and merged, a free_size that is
\* the sum of its blocks, and no word that belongs to two blocks.
HeapSound == TypeOK /\ ListInOrder /\ FreeSizeExact /\ BlocksDisjoint
=============================================================================
