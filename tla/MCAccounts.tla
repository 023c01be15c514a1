------------------------------- MODULE MCAccounts --------------------------------
(* Accounts with one address that two tenants invite.                       *)
EXTENDS Accounts

CONSTANTS e1, a, b, manager, coordinator, i1, i2, MaxTokens, MaxLate

MCInvitations == {i1, i2}
MCEmailOf == [i \in MCInvitations |-> e1]
MCTenantOf == [i \in MCInvitations |-> IF i = i1 THEN a ELSE b]
MCRolesOf == [i \in MCInvitations |-> IF i = i1 THEN {manager} ELSE {coordinator}]

Issued == {i \in Invitations : Exists(invitation[i])} \cup {t \in Resets : Exists(reset[t])}
          \cup {v \in Verifications : Exists(verification[v])}

Late == {i \in Invitations : Exists(invitation[i]) /\ invitation[i].late}
        \cup {t \in Resets : Exists(reset[t]) /\ reset[t].late}
        \cup {v \in Verifications : Exists(verification[v]) /\ verification[v].late}

(* Bounds: tokens issued, and tokens past their expiry at one time. *)
Bound == Cardinality(Issued) <= MaxTokens /\ Cardinality(Late) <= MaxLate
================================================================================
