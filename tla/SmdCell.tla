------------------------------ MODULE SmdCell ------------------------------
(***************************************************************************)
(* What the two copies of the slot metadata promise together: a regular    *)
(* cell.  While nobody replaces its value every boot loads that value; a   *)
(* replacement that was cut off leaves the old value and the new, and a    *)
(* boot may load either, one after the other; one that is done leaves only *)
(* the new.  A value is never mixed, and never lost to one not yet stored. *)
(***************************************************************************)
CONSTANTS Metas, NoMeta

VARIABLES
    vals,     \* the metadata that a boot may load
    base,     \* the metadata this boot goes by, or NoMeta
    pend      \* the metadata of the flush in progress, or NoMeta

vars == <<vals, base, pend>>

Init == (\E m \in Metas : vals = {m}) /\ base = NoMeta /\ pend = NoMeta

Load == base = NoMeta /\ base' \in vals /\ UNCHANGED <<vals, pend>>

Begin == base # NoMeta /\ pend = NoMeta /\ pend' \in Metas /\ UNCHANGED <<vals, base>>

\* What a cut-off flush of an earlier boot left goes first, ...
Discard == pend # NoMeta /\ vals' = {base} /\ UNCHANGED <<base, pend>>

\* ... then the new metadata is stored beside the old, and then replaces it.
Store ==
    /\ pend # NoMeta /\ vals = {base}
    /\ vals' = {base, pend} /\ base' = pend
    /\ UNCHANGED pend

Commit == pend # NoMeta /\ vals = {pend} /\ base = pend /\ pend' = NoMeta /\ UNCHANGED <<vals, base>>

\* The flush fails, or the boot ends.
Cut == base' = NoMeta /\ pend' = NoMeta /\ UNCHANGED vals

Next == Load \/ Begin \/ Discard \/ Store \/ Commit \/ Cut

Spec == Init /\ [][Next]_vars
=============================================================================
