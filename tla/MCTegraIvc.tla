---------------------------- MODULE MCTegraIvc ----------------------------
(* TegraIvc with small constants. *)
EXTENDS TegraIvc, TLC

CONSTANTS ccplex, bpmp

(* Resets the handshake survives: an end resets again before it has left the *)
(* sync state, or resets a channel that its peer considers established, or   *)
(* both ends reset an established channel at the same time.                  *)
SafeResets ==
    {r \in States \X States : r[1] = "sync" \/ r[2] = "established"}
        \cup {<<"established", "sync">>}

MCEnds == {ccplex, bpmp}
Symmetry == Permutations(MCEnds) \cup Permutations(Data)
=============================================================================
