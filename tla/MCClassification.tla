--------------------------- MODULE MCClassification -----------------------------
(* Two parts, a worker and a shell, two months of two units of time. Only   *)
(* the first part is also classified for a branch, so that one part has all *)
(* interleavings and the other is what a pass may leave out.                *)
EXTENDS Classification

OnePartHasBranchRows == \A p \in Parts \ {1} : branchRows[p] = <<>>
================================================================================
