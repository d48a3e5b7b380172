------------------------------ MODULE IvcFifo ------------------------------
(***************************************************************************)
(* What an IVC channel promises its two ends: one bounded first-in,        *)
(* first-out queue of frames per direction.  A reset of the channel may    *)
(* discard the frames in flight, all of them at once, and never reorders,  *)
(* duplicates, alters or invents one.                                      *)
(***************************************************************************)
EXTENDS Naturals, Sequences

CONSTANTS Ends, Data, NFrames

VARIABLE q   \* q[e]: the frames that e has published and its peer not yet freed

Init == q = [e \in Ends |-> <<>>]

Publish(e, d) ==
    /\ Len(q[e]) < NFrames
    /\ q' = [q EXCEPT ![e] = Append(@, d)]

Free(e) ==
    /\ q[e] # <<>>
    /\ q' = [q EXCEPT ![e] = Tail(@)]

\* A reset empties one direction or both.
Discard(S) == q' = [e \in Ends |-> IF e \in S THEN <<>> ELSE q[e]]

Next ==
    \/ \E S \in SUBSET Ends : Discard(S)
    \/ \E e \in Ends : (\E d \in Data : Publish(e, d)) \/ Free(e)

Spec == Init /\ [][Next]_q
=============================================================================
