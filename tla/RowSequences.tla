---------------------------- MODULE RowSequences ----------------------------
(***************************************************************************)
(* Rows kept in order, some of them dropped.  This is SelectSeq with the   *)
(* dropped rows given as a set and the recursion in the open, so that      *)
(* proofs can use it.                                                      *)
(***************************************************************************)
EXTENDS Naturals, Sequences

Without(rows, gone) ==
  LET kept[n \in 0..Len(rows)] ==
        IF n = 0 THEN <<>>
        ELSE IF rows[n] \in gone THEN kept[n - 1] ELSE Append(kept[n - 1], rows[n])
  IN  kept[Len(rows)]
=============================================================================
