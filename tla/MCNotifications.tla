----------------------------- MODULE MCNotifications -----------------------------
(***************************************************************************)
(* A small instance of Notifications for TLC: two events of one user and   *)
(* type inside transactions, and an event outside a transaction for a user *)
(* whose address always fails.                                             *)
(***************************************************************************)
EXTENDS Notifications, TLC

CONSTANTS first, second, override

MCEvents == {first, second, override}
MCAtomic == {first, second}
MCKey == (first :> "new") @@ (second :> "new") @@ (override :> "override")
================================================================================
