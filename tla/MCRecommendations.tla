--------------------------- MODULE MCRecommendations ---------------------------
(***************************************************************************)
(* Small instances of Recommendations for TLC: branch b1 under coordinator *)
(* c1 and branch b2 under coordinator c2, so that a transfer between them  *)
(* crosses coordinators; g is a gerente, m manages both branches.          *)
(***************************************************************************)
EXTENDS RecommendationsRefinement, TLC

CONSTANTS b1, b2, g, m, c1, c2

MCBranches == {b1, b2}
MCGerentes == {g}
MCScope == [u \in Users |-> {}]
MCManager == [b \in MCBranches |-> m]
MCCoordinator == (b1 :> c1) @@ (b2 :> c2)

CONSTANT MaxAudit

(* Bounds: histories of at most MaxAudit audit entries; the callers hold   *)
(* two instances together, of one row or of two; b2 only as a source.      *)
Bound ==
  /\ Cardinality(audit) <= MaxAudit
  /\ Cardinality({ur \in Users \X RecIds : held[ur[1]][ur[2]] # NoRec}) <= 2
  /\ \A r \in RecIds : Stored(r) => recs[r].branch = b1

(* Primary keys carry no meaning, so they may be given out in order. *)
KeysInOrder == \A r \in issued, q \in RecIds : q < r => q \in issued
================================================================================
