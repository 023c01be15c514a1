-------------------------------- MODULE MCSourcing --------------------------------
(***************************************************************************)
(* A small instance of Sourcing for TLC: the center dc and two branches    *)
(* that depend on it, all selling the part.                                *)
(***************************************************************************)
EXTENDS Sourcing, TLC

CONSTANTS dc, a, b

MCBranches == {dc, a, b}
MCCenters == {dc}
MCParent == (dc :> NoBranch) @@ (a :> dc) @@ (b :> dc)
MCVelocity == (dc :> 10) @@ (a :> 10) @@ (b :> 40)

(* Thirtieths: an oversold, a middling and a well-stocked figure. *)
MCQuantities == {-30, 90, 150}

================================================================================
