------------------------------- MODULE FiniteSums -------------------------------
(***************************************************************************)
(* Sums over finite sets, as Sourcing adds up allocations and SalesHistory *)
(* adds up sales.                                                          *)
(***************************************************************************)
EXTENDS FiniteSetsExt

SumOver(S, f) == MapThenSumSet(LAMBDA x : f[x], S)
================================================================================
