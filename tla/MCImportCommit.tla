--------------------------- MODULE MCImportCommit ---------------------------
(* Small instances of ImportCommit: three requests at once, one or two     *)
(* imports of one file with a row that occurs twice.                       *)
EXTENDS ImportCommit, TLC

CONSTANTS r1, r2, p1, p2, p3, k1, k2

OneRow == r1 :> 1

TwoRows == (r1 :> 1) @@ (r2 :> 2)

=============================================================================
