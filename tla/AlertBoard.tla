------------------------------- MODULE AlertBoard -------------------------------
(***************************************************************************)
(* What the approval workflow promises (REQ-AW-001 as the code has it): a  *)
(* board with one place per branch and part.  A place shows at most one    *)
(* alert; an alert is settled once into an outcome, an approved one may    *)
(* still be ordered or handled, an ordered one is final, and a rejected or *)
(* handled one may come back only to its own, empty place.                 *)
(***************************************************************************)
CONSTANTS Places, Alerts, Nobody

VARIABLES
  shown,    \* shown[p]: the alert at place p, or Nobody
  outcome,  \* outcome[a]: how alert a was settled, or "open" while it is not
  home      \* home[a]: the place alert a was raised for, or Nobody

boardVars == <<shown, outcome, home>>

Outcomes == {"approved", "rejected", "handled", "ordered"}

BoardInit ==
  /\ shown = [p \in Places |-> Nobody]
  /\ outcome = [a \in Alerts |-> "open"]
  /\ home = [a \in Alerts |-> Nobody]

Raise(p, a) ==
  /\ shown[p] = Nobody /\ home[a] = Nobody
  /\ shown' = [shown EXCEPT ![p] = a]
  /\ home' = [home EXCEPT ![a] = p]
  /\ UNCHANGED outcome

(* The outcomes alert a can still take. *)
Remaining(a) ==
  IF home[a] # Nobody /\ shown[home[a]] = a
  THEN {"approved", "rejected", "handled"}
  ELSE IF outcome[a] = "approved" THEN {"ordered", "handled"} ELSE {}

(* Some alerts are settled together, all with the same outcome. *)
Settle(A, o) ==
  /\ A # {}
  /\ \A a \in A : o \in Remaining(a)
  /\ outcome' = [a \in Alerts |-> IF a \in A THEN o ELSE outcome[a]]
  /\ shown' = [p \in Places |-> IF shown[p] \in A THEN Nobody ELSE shown[p]]
  /\ UNCHANGED home

BringBack(a) ==
  /\ outcome[a] \in {"rejected", "handled"}
  /\ shown[home[a]] = Nobody
  /\ shown' = [shown EXCEPT ![home[a]] = a]
  /\ outcome' = [outcome EXCEPT ![a] = "open"]
  /\ UNCHANGED home

BoardNext ==
  \/ \E p \in Places, a \in Alerts : Raise(p, a)
  \/ \E A \in SUBSET Alerts, o \in Outcomes : Settle(A, o)
  \/ \E a \in Alerts : BringBack(a)

BoardSpec == BoardInit /\ [][BoardNext]_boardVars
================================================================================
