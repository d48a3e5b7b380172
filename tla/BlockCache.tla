----------------------------- MODULE BlockCache -----------------------------
(***************************************************************************)
(* The block cache of lib/bcache/bcache.c, as operators on a cache: blocks *)
(* with a number and a reference count, linked into a free list and a list *)
(* in order of use by the pointers of include/lib/list.h.                  *)
(*                                                                         *)
(* A node is a block (1 .. Count) or the head of a list.  The content of a *)
(* block is the number of the block on the device that it was read from.   *)
(* A call that follows a null pointer, runs around a list for ever or      *)
(* fails an assertion leaves the cache hung.  No block is ever dirty: the  *)
(* calls that make one so have no caller, and the write-back is left out.  *)
(***************************************************************************)
LOCAL INSTANCE Integers
LOCAL INSTANCE FiniteSetsExt

CONSTANT Count               \* the number of blocks of a cache

NULL == 0
FREE == -1
LRU == -2
LOST == -3                   \* a walk along the list that does not end
BlockIds == 1 .. Count
Nodes == BlockIds \cup {FREE, LRU}
Unread == 0                  \* the content of a block that was never filled

-----------------------------------------------------------------------------
(* include/lib/list.h                                                      *)

list_add_head(c, l, i) ==
    LET first == c.next[l] IN
    [c EXCEPT !.next = [@ EXCEPT ![i] = first, ![l] = i],
              !.prev = [@ EXCEPT ![i] = l, ![first] = i]]

list_add_tail(c, l, i) ==
    LET last == c.prev[l] IN
    [c EXCEPT !.prev = [@ EXCEPT ![i] = last, ![l] = i],
              !.next = [@ EXCEPT ![i] = l, ![last] = i]]

list_delete(c, i) ==
    LET n == c.next[i]
        p == c.prev[i]
    IN IF NULL \in {n, p}
       THEN [c EXCEPT !.hung = TRUE]
       ELSE [c EXCEPT !.prev = [@ EXCEPT ![n] = p, ![i] = NULL],
                      !.next = [@ EXCEPT ![p] = n, ![i] = NULL]]

\* The first node of S on the way along the list in order of use; NULL if the
\* way ends at the head without one.  The head of the other list is taken for
\* a block like any other, whose number matches none.
FirstInLru(c, S) ==
    LET next == [i \in Nodes \cup {NULL} |-> IF i = NULL THEN NULL ELSE c.next[i]]
        at[k \in 0 .. Count + 2] == IF k = 0 THEN next[LRU] ELSE next[at[k - 1]]
        hits == {k \in DOMAIN at : /\ at[k] \in S
                                   /\ \A j \in 0 .. k - 1 : at[j] # LRU}
    IN IF hits # {} THEN at[Min(hits)]
       ELSE IF \E k \in DOMAIN at : at[k] = LRU THEN NULL ELSE LOST

-----------------------------------------------------------------------------
(* lib/bcache/bcache.c; the result of a call is the cache and the block.   *)

bcache_create ==
    [next |-> [i \in Nodes |-> IF i = LRU THEN LRU
                               ELSE IF i = FREE THEN Count
                               ELSE IF i = 1 THEN FREE ELSE i - 1],
     prev |-> [i \in Nodes |-> IF i = LRU THEN LRU
                               ELSE IF i = FREE THEN 1
                               ELSE IF i = Count THEN FREE ELSE i + 1],
     blk  |-> [i \in BlockIds |-> [blocknum |-> Unread, ref_count |-> 0, data |-> Unread]],
     hung |-> FALSE]

Hung(c) == [c |-> [c EXCEPT !.hung = TRUE], b |-> NULL]

\* What the walk along the list has found becomes the block used last.
UsedLast(c, b) ==
    IF b \in {LOST, FREE} THEN Hung(c)
    ELSE IF b = NULL THEN [c |-> c, b |-> NULL]
    ELSE [c |-> list_add_tail(list_delete(c, b), LRU, b), b |-> b]

find_block(c, blocknum) ==
    UsedLast(c, FirstInLru(c, {i \in BlockIds : c.blk[i].blocknum = blocknum}))

\* Mutant: the head of the free list is taken but not removed from it.
AllocKeepingHead(c) ==
    LET b == IF c.next[FREE] # FREE THEN c.next[FREE] ELSE FirstInLru(c, BlockIds)
    IN [c |-> list_add_tail(c, LRU, b), b |-> b]

alloc_block(c) ==
    IF c.next[FREE] # FREE
    THEN LET b == c.next[FREE]
             d == list_delete(c, b)
         IN IF b \notin BlockIds THEN Hung(c)
            ELSE [c |-> list_add_tail([d EXCEPT !.blk[b].ref_count = 0], LRU, b), b |-> b]
    ELSE UsedLast(c, FirstInLru(c, {i \in BlockIds : c.blk[i].ref_count = 0} \cup {FREE}))

\* bad is the set of blocks that the device cannot deliver.  A failed read
\* leaves the content of the block as it was.
find_or_fill_block(c, blocknum, bad) ==
    LET Fill(new) ==
            LET numbered == [new.c EXCEPT !.blk[new.b].blocknum = blocknum]
            IN IF new.c.hung \/ new.b = NULL THEN Hung(new.c)
               ELSE IF blocknum \in bad
                    THEN [c |-> list_add_tail(numbered, FREE, new.b), b |-> NULL]
                    ELSE [c |-> [numbered EXCEPT !.blk[new.b].data = blocknum], b |-> new.b]
        Use(found) == IF found.c.hung \/ found.b # NULL THEN found ELSE Fill(alloc_block(found.c))
    IN Use(find_block(c, blocknum))

\* The result has the content, data, in place of the pointer.
bcache_read_block(c, blocknum, bad) ==
    LET Read(r) == IF r.b = NULL THEN [c |-> r.c, err |-> TRUE, data |-> Unread]
                   ELSE [c |-> r.c, err |-> FALSE, data |-> r.c.blk[r.b].data]
    IN Read(find_or_fill_block(c, blocknum, bad))

bcache_get_block(c, blocknum, bad) ==
    LET Get(r) == IF r.b = NULL THEN [c |-> r.c, err |-> TRUE, data |-> Unread]
                  ELSE [c |-> [r.c EXCEPT !.blk[r.b].ref_count = @ + 1],
                        err |-> FALSE, data |-> r.c.blk[r.b].data]
    IN Get(find_or_fill_block(c, blocknum, bad))

bcache_put_block(c, blocknum) ==
    LET Put(r) == IF r.c.hung \/ r.b = NULL THEN [r.c EXCEPT !.hung = TRUE]
                  ELSE IF r.c.blk[r.b].ref_count = 0 THEN [r.c EXCEPT !.hung = TRUE]
                  ELSE [r.c EXCEPT !.blk[r.b].ref_count = @ - 1]
    IN Put(find_block(c, blocknum))

\* bcache_destroy: the assertion on the reference counts.
DestroyAllowed(c) == \A i \in BlockIds : c.blk[i].ref_count = 0

-----------------------------------------------------------------------------
(* What a sound cache looks like between two calls: each block is in one   *)
(* of the lists, the lists are linked both ways, and a block in use holds  *)
(* what the device holds, no two of them the same block.                   *)

Linked(c) ==
    \A i \in Nodes : c.next[i] \in Nodes /\ c.prev[i] \in Nodes
                     /\ c.prev[c.next[i]] = i /\ c.next[c.prev[i]] = i

InUse(c) == {i \in BlockIds : FirstInLru(c, {i}) = i}

Sound(c) ==
    /\ ~c.hung
    /\ Linked(c)
    /\ \A i \in InUse(c) : c.blk[i].data = c.blk[i].blocknum /\ c.blk[i].blocknum # Unread
    /\ \A i, j \in InUse(c) : c.blk[i].blocknum = c.blk[j].blocknum => i = j
=============================================================================
