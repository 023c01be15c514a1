--------------------------- MODULE MCReplenishmentRun ---------------------------
(***************************************************************************)
(* Small instances of ReplenishmentRun for TLC: one branch, managed by the *)
(* only reviewer, replenished from the supplier.                           *)
(***************************************************************************)
EXTENDS ReplenishmentRun, TLC

CONSTANTS b1, m, MaxAudit

MCBranches == {b1}
MCScope == [u \in Users |-> {}]
MCManager == [b \in MCBranches |-> m]
MCCoordinator == [b \in MCBranches |-> NoUser]

(* Primary keys carry no meaning, so they may be given out in order. *)
KeysInOrder == \A r \in issued, q \in RecIds : q < r => q \in issued

(* Bounds: at most MaxAudit audit entries; the reviewer opens one row at a time. *)
Bound ==
  /\ Cardinality(audit) <= MaxAudit
  /\ \A u \in Users : Cardinality({r \in RecIds : held[u][r] # NoRec}) <= 1
================================================================================
