--------------------------------- MODULE Accounts ---------------------------------
(***************************************************************************)
(* Invitations, password resets and e-mail verifications, redeemed by      *)
(* concurrent web requests.  A service is one database transaction under   *)
(* READ COMMITTED: it reads the token without a lock, its UPDATEs lock the *)
(* rows they write until it ends, and what it wrote is seen when it        *)
(* commits.  So a request is the list of statements that may have to wait  *)
(* for a lock; all it writes happens in its last step.                     *)
(***************************************************************************)
EXTENDS Naturals, FiniteSets

CONSTANTS
  Procs,          \* web processes
  Emails,         \* addresses; a user is the row of his address
  Tenants,
  Registered,     \* tenants an administrator registered users of by hand
  Roles,
  Invitations, Resets, Verifications,   \* tokens
  EmailOf, TenantOf, RolesOf,           \* whom an invitation is for, by which tenant, as what
  NoProc,
  Absent,         \* a row that was not inserted yet
  Deleted         \* a verification that was deleted again

Tokens == Invitations \cup Resets \cup Verifications
Rows == Emails \cup Invitations \cup Verifications

ASSUME AccountsAssumption ==
  /\ EmailOf \in [Invitations -> Emails]
  /\ TenantOf \in [Invitations -> Tenants]
  /\ RolesOf \in [Invitations -> SUBSET Roles]
  /\ Registered \subseteq Tenants
  /\ NoProc \notin Procs
  /\ Emails \cap (Invitations \cup Verifications) = {}
  /\ Invitations \cap Resets = {} /\ Invitations \cap Verifications = {}
  /\ Resets \cap Verifications = {}

Statuses == {"pending", "accepted", "expired", "revoked"}

User == [tenant : Tenants, verified : BOOLEAN, roles : SUBSET Roles]

(* late: expires_at has passed; accepted: accepted_at is set.               *)
Invitation == [status : Statuses, late : BOOLEAN, accepted : BOOLEAN,
               roles : SUBSET Roles, mailed : BOOLEAN]
Reset == [email : Emails, used : BOOLEAN, late : BOOLEAN]
Verification == [email : Emails, verified : BOOLEAN, late : BOOLEAN]

(* The statements of a request that may wait, in the order of the code.     *)
AcceptStages == {"getUser", "savePassword", "saveInvitation", "verifyEmails"}
RedeemStages == AcceptStages \cup {"saveReset", "saveVerification", "saveVerified"}
Stages == RedeemStages \cup {"markExpired", "setRoles", "saveExpiry"}

NoRequest == [at |-> "none"]
Request == [at : Stages, token : Tokens]

ASSUME RowAssumption ==
  /\ Absent # Deleted
  /\ {Absent, Deleted} \cap (User \cup Invitation \cup Reset \cup Verification) = {}

VARIABLES
  user, invitation, reset, verification,   \* the committed rows
  request,    \* request[p]: the statement p is at and the token it redeems
  lock,       \* lock[row]: the process whose open transaction wrote the row
  uses,       \* history: how often a token was redeemed
  raced,      \* history: the tokens two requests were redeeming at one time
  early       \* history: the invitations mailed before they had their roles

history == <<uses, raced, early>>
vars == <<user, invitation, reset, verification, request, lock, history>>

rows == <<user, invitation, reset, verification>>

Exists(row) == row \notin {Absent, Deleted}

(* A user an administrator registered has no roles yet.                     *)
Init ==
  /\ user \in [Emails -> {Absent} \cup
       [tenant : Registered, verified : {FALSE}, roles : {{}}]]
  /\ invitation = [i \in Invitations |-> Absent]
  /\ reset = [t \in Resets |-> Absent]
  /\ verification = [v \in Verifications |-> Absent]
  /\ request = [p \in Procs |-> NoRequest]
  /\ lock = [row \in Rows |-> NoProc]
  /\ uses = [t \in Tokens |-> 0]
  /\ raced = {}
  /\ early = {}

--------------------------------------------------------------------------------
(* Transactions. *)

At(p, stage) == request[p].at = stage
Token(p) == request[p].token

Redeems(p, t) == request[p].at \in RedeemStages /\ Token(p) = t

Begin(p, stage, t) ==
  /\ request[p] = NoRequest
  /\ request' = [request EXCEPT ![p] = [at |-> stage, token |-> t]]

(* A request found the token valid; somebody else may have too.             *)
Redeem(p, stage, t) ==
  /\ Begin(p, stage, t)
  /\ raced' = IF \E q \in Procs : Redeems(q, t) THEN raced \cup {t} ELSE raced
  /\ UNCHANGED <<rows, lock, uses, early>>

OpenVerifications(e) ==
  {v \in Verifications : /\ Exists(verification[v])
                         /\ verification[v].email = e /\ ~verification[v].verified}

(* The user a request is about. *)
EmailAt(p) ==
  IF request[p].at \in AcceptStages THEN EmailOf[Token(p)]
  ELSE IF request[p].at = "saveReset" THEN reset[Token(p)].email
  ELSE verification[Token(p)].email

(* The rows the next statement writes, and has to lock.  An existing user  *)
(* is only read by get_or_create.                                           *)
Needs(p) ==
  {row \in Rows :
     \/ At(p, "getUser") /\ row = EmailAt(p) /\ ~Exists(user[row])
     \/ request[p].at \in {"savePassword", "saveReset", "saveVerified"} /\ row = EmailAt(p)
     \/ At(p, "verifyEmails") /\ row \in OpenVerifications(EmailAt(p))
     \/ /\ request[p].at \in {"saveInvitation", "markExpired", "saveExpiry",
                               "saveVerification"}
        /\ row = Token(p)}

Granted(p) == \A row \in Needs(p) : lock[row] \in {NoProc, p}

(* The statement is done, its rows stay locked; the next one is at stage.   *)
Proceed(p, stage) ==
  /\ Granted(p)
  /\ lock' = [row \in Rows |-> IF row \in Needs(p) THEN p ELSE lock[row]]
  /\ request' = [request EXCEPT ![p].at = stage]
  /\ UNCHANGED <<rows, history>>

(* mutant of End: the transaction is left open. *)
EndUnreleased(p) ==
  /\ lock' = lock
  /\ request' = [request EXCEPT ![p] = NoRequest]

End(p) ==
  /\ lock' = [row \in Rows |-> IF lock[row] = p THEN NoProc ELSE lock[row]]
  /\ request' = [request EXCEPT ![p] = NoRequest]

Rollback(p) == End(p) /\ UNCHANGED <<rows, history>>

Commit(p) == Granted(p) /\ End(p)

Redeemed(p) ==
  /\ uses' = [uses EXCEPT ![Token(p)] = @ + 1]
  /\ UNCHANGED <<raced, early>>

Idle(row) == lock[row] = NoProc

WaitsFor(p, q) == \E row \in Needs(p) : lock[row] = q

(* PostgreSQL ends one of two transactions that wait for each other.        *)
AbortDeadlocked(p) ==
  /\ \E q \in Procs \ {p} : WaitsFor(p, q) /\ WaitsFor(q, p)
  /\ Rollback(p)

(* The process is lost, and with it its transaction. *)
Crash(p) == request[p] # NoRequest /\ Rollback(p)

--------------------------------------------------------------------------------
(* Invitations. *)

(* create_invitation is no transaction: the row first, its roles later.     *)
Invite(p, i) ==
  /\ invitation[i] = Absent
  /\ Begin(p, "setRoles", i)
  /\ invitation' = [invitation EXCEPT ![i] =
       [status |-> "pending", late |-> FALSE, accepted |-> FALSE, roles |-> {},
        mailed |-> FALSE]]
  /\ UNCHANGED <<user, reset, verification, lock, history>>

SetRolesAndMail(p) ==
  /\ At(p, "setRoles")
  /\ Commit(p)
  /\ invitation' = [invitation EXCEPT ![Token(p)].roles = RolesOf[Token(p)],
                                      ![Token(p)].mailed = TRUE]
  /\ UNCHANGED <<user, reset, verification, history>>

(* mutant of Pending: only the expiry is looked at. *)
PendingAnyStatus(i) == Exists(invitation[i])

Pending(i) == Exists(invitation[i]) /\ invitation[i].status = "pending"

(* The view opens the link of an expired invitation: get_valid_invitation  *)
(* read it, and mark_expired will save the status of that instance.  Inside *)
(* accept_invitation the same save is rolled back by the exception.         *)
OpenExpired(p, i) ==
  /\ Pending(i) /\ invitation[i].mailed /\ invitation[i].late
  /\ Begin(p, "markExpired", i)
  /\ UNCHANGED <<rows, lock, history>>

MarkExpired(p) ==
  /\ At(p, "markExpired")
  /\ Commit(p)
  /\ invitation' = [invitation EXCEPT ![Token(p)].status = "expired"]
  /\ UNCHANGED <<user, reset, verification, history>>

(* accept_invitation has read the invitation and found it valid.            *)
StartAccept(p, i) ==
  /\ Pending(i) /\ invitation[i].mailed /\ ~invitation[i].late
  /\ Redeem(p, "getUser", i)

(* mutant of Acceptable: whoever has the address is taken for the invited. *)
AcceptableAnyTenant(e, tenant) == Exists(user[e])

Acceptable(e, tenant) == Exists(user[e]) /\ user[e].tenant = tenant

(* mutant of GetUser: the insert leaves no lock behind. *)
GetUserUnlocked(p) ==
  /\ At(p, "getUser")
  /\ Granted(p)
  /\ request' = [request EXCEPT ![p].at =
       IF Exists(user[EmailAt(p)]) THEN "savePassword" ELSE "saveInvitation"]
  /\ UNCHANGED <<rows, lock, history>>

(* get_or_create.  An insert waits while another transaction has inserted   *)
(* the same address, and returns that row if it was committed.  A user of   *)
(* another tenant raises TokenError.  The password of a row inserted here   *)
(* is saved without waiting.                                                *)
GetUser(p) ==
  LET e == EmailAt(p) IN
  /\ At(p, "getUser")
  /\ \/ Acceptable(e, TenantOf[Token(p)]) /\ Proceed(p, "savePassword")
     \/ Exists(user[e]) /\ ~Acceptable(e, TenantOf[Token(p)]) /\ Rollback(p)
     \/ ~Exists(user[e]) /\ Proceed(p, "saveInvitation")

SavePassword(p) == At(p, "savePassword") /\ Proceed(p, "saveInvitation")

SaveInvitation(p) == At(p, "saveInvitation") /\ Proceed(p, "verifyEmails")

(* mutant of WithRoles: only a new user is given the roles. *)
WithRolesIfNew(e, roles) == IF Exists(user[e]) THEN user[e].roles ELSE roles

(* UserRole.get_or_create for every role of the invitation. *)
WithRoles(e, roles) == IF Exists(user[e]) THEN user[e].roles \cup roles ELSE roles

(* The open verifications are closed, and everything is committed.          *)
FinishAccept(p) ==
  LET i == Token(p)
      e == EmailAt(p)
  IN /\ At(p, "verifyEmails")
     /\ Commit(p) /\ Redeemed(p)
     /\ user' = [user EXCEPT ![e] =
          [tenant |-> IF Exists(user[e]) THEN user[e].tenant ELSE TenantOf[i],
           verified |-> TRUE, roles |-> WithRoles(e, invitation[i].roles)]]
     /\ invitation' = [invitation EXCEPT ![i].status = "accepted", ![i].accepted = TRUE]
     /\ verification' = [v \in Verifications |->
          IF v \in OpenVerifications(e) THEN [verification[v] EXCEPT !.verified = TRUE]
                                        ELSE verification[v]]
     /\ UNCHANGED reset

(* revoke_invitation saves the status whatever it is. *)
Revoke(i) ==
  /\ Exists(invitation[i]) /\ Idle(i)
  /\ invitation' = [invitation EXCEPT ![i].status = "revoked"]
  /\ UNCHANGED <<user, reset, verification, request, lock, history>>

(* resend_invitation looks at the status of the instance the view loaded,   *)
(* and saves expires_at.                                                    *)
StartResend(p, i) ==
  /\ Pending(i)
  /\ Begin(p, "saveExpiry", i)
  /\ UNCHANGED <<rows, lock, history>>

SaveExpiry(p) ==
  /\ At(p, "saveExpiry")
  /\ Commit(p)
  /\ invitation' = [invitation EXCEPT ![Token(p)].late = FALSE, ![Token(p)].mailed = TRUE]
  /\ early' = IF invitation[Token(p)].roles # RolesOf[Token(p)]
              THEN early \cup {Token(p)} ELSE early
  /\ UNCHANGED <<user, reset, verification, uses, raced>>

InvitationExpires(i) ==
  /\ Exists(invitation[i]) /\ ~invitation[i].late
  /\ invitation' = [invitation EXCEPT ![i].late = TRUE]
  /\ UNCHANGED <<user, reset, verification, request, lock, history>>

--------------------------------------------------------------------------------
(* Password resets. *)

CreateReset(t, e) ==
  /\ reset[t] = Absent /\ Exists(user[e])
  /\ reset' = [reset EXCEPT ![t] = [email |-> e, used |-> FALSE, late |-> FALSE]]
  /\ UNCHANGED <<user, invitation, verification, request, lock, history>>

(* mutant of ValidReset: used_at is not looked at. *)
ValidResetUsed(t) == Exists(reset[t]) /\ ~reset[t].late

ValidReset(t) == Exists(reset[t]) /\ ~reset[t].used /\ ~reset[t].late

StartReset(p, t) == ValidReset(t) /\ Redeem(p, "saveReset", t)

(* The user row is locked to the end, so used_at is saved without waiting.  *)
FinishReset(p) ==
  /\ At(p, "saveReset")
  /\ Commit(p) /\ Redeemed(p)
  /\ reset' = [reset EXCEPT ![Token(p)].used = TRUE]
  /\ UNCHANGED <<user, invitation, verification>>

ResetExpires(t) ==
  /\ Exists(reset[t]) /\ ~reset[t].late
  /\ reset' = [reset EXCEPT ![t].late = TRUE]
  /\ UNCHANGED <<user, invitation, verification, request, lock, history>>

--------------------------------------------------------------------------------
(* E-mail verifications. *)

(* create_email_verification deletes the open ones of the user. *)
CreateVerification(v, e) ==
  /\ verification[v] = Absent /\ Exists(user[e])
  /\ \A w \in OpenVerifications(e) : Idle(w)
  /\ verification' = [w \in Verifications |->
       IF w = v THEN [email |-> e, verified |-> FALSE, late |-> FALSE]
       ELSE IF w \in OpenVerifications(e) THEN Deleted ELSE verification[w]]
  /\ UNCHANGED <<user, invitation, reset, request, lock, history>>

StartVerify(p, v) ==
  /\ Exists(verification[v]) /\ ~verification[v].verified /\ ~verification[v].late
  /\ Redeem(p, "saveVerification", v)

(* An UPDATE of a row that was deleted meanwhile raises.                    *)
SaveVerification(p) ==
  /\ At(p, "saveVerification")
  /\ IF verification[Token(p)] = Deleted THEN Rollback(p) ELSE Proceed(p, "saveVerified")

FinishVerify(p) ==
  LET e == EmailAt(p) IN
  /\ At(p, "saveVerified")
  /\ Commit(p) /\ Redeemed(p)
  /\ verification' = [verification EXCEPT ![Token(p)].verified = TRUE]
  /\ user' = [user EXCEPT ![e].verified = TRUE]
  /\ UNCHANGED <<invitation, reset>>

VerificationExpires(v) ==
  /\ Exists(verification[v]) /\ ~verification[v].late
  /\ verification' = [verification EXCEPT ![v].late = TRUE]
  /\ UNCHANGED <<user, invitation, reset, request, lock, history>>

--------------------------------------------------------------------------------
Start(p) ==
  \/ \E i \in Invitations :
       Invite(p, i) \/ OpenExpired(p, i) \/ StartAccept(p, i) \/ StartResend(p, i)
  \/ \E t \in Resets : StartReset(p, t)
  \/ \E v \in Verifications : StartVerify(p, v)

Continue(p) ==
  \/ SetRolesAndMail(p) \/ MarkExpired(p) \/ SaveExpiry(p)
  \/ GetUser(p) \/ SavePassword(p) \/ SaveInvitation(p) \/ FinishAccept(p)
  \/ FinishReset(p)
  \/ SaveVerification(p) \/ FinishVerify(p)
  \/ AbortDeadlocked(p)

Others ==
  \/ \E i \in Invitations : Revoke(i) \/ InvitationExpires(i)
  \/ \E t \in Resets : ResetExpires(t) \/ \E e \in Emails : CreateReset(t, e)
  \/ \E v \in Verifications : VerificationExpires(v) \/ \E e \in Emails : CreateVerification(v, e)

Next == Others \/ \E p \in Procs : Start(p) \/ Continue(p) \/ Crash(p)

Spec == Init /\ [][Next]_vars

(* A request goes on as long as it lives: locks are granted in the order in *)
(* which they are waited for, so no transaction is overtaken for ever.      *)
FairSpec == Spec /\ \A p \in Procs : SF_vars(Continue(p))

--------------------------------------------------------------------------------
(* The rows a request must have locked before it comes to a statement.      *)
Holds(p) ==
  {row \in Rows :
     \/ request[p].at \in {"saveInvitation", "verifyEmails"} /\ row = EmailAt(p)
     \/ request[p].at \in {"verifyEmails", "saveVerified"} /\ row = Token(p)}

(* Every row, request and token is well formed, and a row is locked by     *)
(* exactly the request that wrote it.                                       *)
AccountsTypeOK ==
  /\ user \in [Emails -> User \cup {Absent}]
  /\ invitation \in [Invitations -> Invitation \cup {Absent}]
  /\ reset \in [Resets -> Reset \cup {Absent}]
  /\ verification \in [Verifications -> Verification \cup {Absent, Deleted}]
  /\ request \in [Procs -> Request \cup {NoRequest}]
  /\ lock \in [Rows -> Procs \cup {NoProc}]
  /\ uses \in [Tokens -> Nat]
  /\ raced \subseteq Tokens /\ early \subseteq Invitations
  /\ \A p \in Procs, row \in Rows : lock[row] = p <=> row \in Holds(p)

Accepted(i) == Exists(invitation[i]) /\ invitation[i].accepted

(* An invitation that was accepted, also one revoked later, has left its   *)
(* user complete: in its tenant, verified, and, unless it was resent        *)
(* before create_invitation came to setting its roles, with every role      *)
(* named at the invitation.                                                 *)
AcceptedIsComplete ==
  \A i \in Invitations :
    Accepted(i) =>
      LET u == user[EmailOf[i]] IN
      /\ Exists(u) /\ u.tenant = TenantOf[i]
      /\ u.verified
      /\ i \notin early => RolesOf[i] \subseteq u.roles

(* A user has a role only from an accepted invitation of his own tenant,   *)
(* also when two tenants invite one new address and both invitations are    *)
(* opened at once ("This email is already associated with another tenant"). *)
RolesWereInvited ==
  \A e \in Emails : Exists(user[e]) =>
    \A role \in user[e].roles : \E i \in Invitations :
      /\ Accepted(i)
      /\ EmailOf[i] = e /\ TenantOf[i] = user[e].tenant
      /\ role \in RolesOf[i]

(* A token is redeemed once, unless two requests were redeeming it at one  *)
(* time: both read it before either committed (the tests of used tokens).   *)
SingleUse == \A t \in Tokens : uses[t] > 1 => t \in raced

(* An invitation that was revoked or has expired before it was accepted    *)
(* never gives anybody an account, unless a request that had found it valid *)
(* was still under way ("already been used or revoked").                    *)
UnderWay(i) == \E p \in Procs : request[p] # NoRequest /\ Token(p) = i
Refused(i) == /\ Exists(invitation[i]) /\ ~invitation[i].accepted
              /\ invitation[i].status \in {"revoked", "expired"}

RefusedGivesNothing ==
  \A i \in Invitations : [](Refused(i) /\ ~UnderWay(i) => []~Accepted(i))

(* An invitation is marked expired when it is, not when it was just resent. *)
ExpiredWasDue ==
  [][\A i \in Invitations :
       Exists(invitation[i]) /\ invitation[i].status # "expired"
       /\ invitation'[i].status = "expired" => invitation[i].late]_vars

(* No request waits for ever, although accept_invitation and verify_email  *)
(* lock the user and his verification in opposite orders.                   *)
RequestEnds == \A p \in Procs : request[p] # NoRequest ~> request[p] = NoRequest
================================================================================
