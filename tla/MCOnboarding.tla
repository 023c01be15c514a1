------------------------------ MODULE MCOnboarding -------------------------------
(* Onboarding with two callers, two branches, and one adapter of two.       *)
EXTENDS Onboarding

CONSTANTS u1, u2, b1, b2, mock, autologica

MCUsers == {u1, u2}
MCBranches == {b1, b2}
MCAdapters == {mock, autologica}
MCImplemented == {mock}
================================================================================
