------------------------------- MODULE MCOverrides -------------------------------
(***************************************************************************)
(* A small instance of Overrides for TLC: two managers and two workers are *)
(* interchangeable.                                                        *)
(***************************************************************************)
EXTENDS Overrides

CONSTANTS m1, m2, w1, w2, b1

MCManagers == {m1, m2}
MCWorkers == {w1, w2}
MCBranches == {b1}
================================================================================
