-------------------------- MODULE SmdStoreProofs --------------------------
(***************************************************************************)
(* For any metadata: if no boot flushes again after a flush that failed,   *)
(* the two copies of the SMD are never bad at once, and together they are  *)
(* a regular cell, whichever of them the boots can read.                   *)
(***************************************************************************)
EXTENDS SmdStore, TLAPS

\* The initial states satisfy the invariant: flashing writes both copies.
LEMMA StoreInit == Init => StoreInv
  BY MetasAssumption DEF Init, StoreInv, TypeOK, Copies, OneGoodCopy, Flushing, Other

\* Every step of load, flush, error and reset preserves the invariant, unless a
\* boot flushes again after a failed flush.
LEMMA StoreStep ==
  ASSUME RetryAfterError = FALSE, StoreInv, [Next]_vars
  PROVE  StoreInv'
<1> USE MetasAssumption DEF Copies, Other, Flushing, OneGoodCopy, StoreInv, TypeOK
<1>1. CASE tegrabl_a_b_get_smd
  BY <1>1 DEF tegrabl_a_b_get_smd, load_smd_bin_copy
<1>2. CASE tegrabl_a_b_flush_smd
  BY <1>2 DEF tegrabl_a_b_flush_smd
<1>3. CASE EraseCopy
  BY <1>3 DEF EraseCopy
<1>4. CASE WriteCopy
  BY <1>4 DEF WriteCopy
<1>5. CASE FlushError
  BY <1>5 DEF FlushError
<1>6. CASE Reset
  BY <1>6 DEF Reset
<1>7. CASE UNCHANGED vars
  BY <1>7 DEF vars
<1>. QED  BY <1>1, <1>2, <1>3, <1>4, <1>5, <1>6, <1>7 DEF Next

\* The inductive invariant of the two copies.
THEOREM StoreInductive ==
  ASSUME RetryAfterError = FALSE
  PROVE  Spec => []StoreInv
BY StoreInit, StoreStep, PTL DEF Spec

\* However tegrabl_a_b_flush_smd is interrupted, one copy passes the checks.
THEOREM NeverBothBad ==
  ASSUME RetryAfterError = FALSE
  PROVE  Spec => []OneGoodCopy
<1>1. StoreInv => OneGoodCopy
  BY DEF StoreInv
<1>. QED  BY <1>1, StoreInductive, PTL

\* An initial state of the two copies is one of the cell.
LEMMA CellInit == Init => Cell!Init
  BY MetasAssumption DEF Init, Cell!Init, Loadable, Base, Flushing, Copies

\* Each step of the two copies is a step of the cell, or leaves it alone.
LEMMA CellStep ==
  ASSUME RetryAfterError = FALSE, StoreInv, [Next]_vars
  PROVE  [Cell!Next]_<<Loadable, Base, IF Flushing THEN smd ELSE NoMeta>>
<1> USE MetasAssumption
    DEF Copies, Other, Flushing, OneGoodCopy, StoreInv, TypeOK, Loadable, Base,
        Cell!Next, Cell!Load, Cell!Begin, Cell!Discard, Cell!Store, Cell!Commit, Cell!Cut
<1>1. CASE tegrabl_a_b_get_smd
  BY <1>1 DEF tegrabl_a_b_get_smd, load_smd_bin_copy
<1>2. CASE tegrabl_a_b_flush_smd
  BY <1>2 DEF tegrabl_a_b_flush_smd
<1>3. CASE EraseCopy
  BY <1>3 DEF EraseCopy
<1>4. CASE WriteCopy
  BY <1>4 DEF WriteCopy
<1>5. CASE FlushError
  BY <1>5 DEF FlushError
<1>6. CASE Reset
  BY <1>6 DEF Reset
<1>7. CASE UNCHANGED vars
  BY <1>7 DEF vars
<1>. QED  BY <1>1, <1>2, <1>3, <1>4, <1>5, <1>6, <1>7 DEF Next

\* The two copies implement the regular cell: no cut and no read error loses what a
\* boot loaded before its flush is stored, or brings back what a flush replaced.
THEOREM CopiesAreRegular ==
  ASSUME RetryAfterError = FALSE
  PROVE  Spec => IsCell
BY CellInit, CellStep, StoreInductive, PTL DEF Spec, IsCell, Cell!Spec, Cell!vars
=============================================================================
