------------------------------- MODULE AccountsProofs -------------------------------
(***************************************************************************)
(* Proofs about Accounts, for any number of processes, addresses, tenants, *)
(* roles and tokens: rows are locked by the requests that wrote them, an   *)
(* accepted invitation is complete, roles come from invitations, a token   *)
(* nobody raced for is redeemed once, a refused one never.                 *)
(***************************************************************************)
EXTENDS Accounts, TLAPS

(* The types alone. *)
Shape ==
  /\ user \in [Emails -> User \cup {Absent}]
  /\ invitation \in [Invitations -> Invitation \cup {Absent}]
  /\ reset \in [Resets -> Reset \cup {Absent}]
  /\ verification \in [Verifications -> Verification \cup {Absent, Deleted}]
  /\ request \in [Procs -> Request \cup {NoRequest}]
  /\ lock \in [Rows -> Procs \cup {NoProc}]
  /\ uses \in [Tokens -> Nat]
  /\ raced \subseteq Tokens /\ early \subseteq Invitations

Locks == \A p \in Procs, row \in Rows : lock[row] = p <=> row \in Holds(p)

InvitationStages == AcceptStages \cup {"markExpired", "setRoles", "saveExpiry"}

(* A request holds a token of its kind, and has tested the tenant of the   *)
(* user it will write.                                                      *)
RequestOK(p) ==
  /\ request[p].at \in InvitationStages =>
       Token(p) \in Invitations /\ Exists(invitation[Token(p)])
  /\ At(p, "saveReset") => Token(p) \in Resets /\ Exists(reset[Token(p)])
  /\ At(p, "saveVerification") =>
       Token(p) \in Verifications /\ verification[Token(p)] # Absent
  /\ At(p, "saveVerified") => Token(p) \in Verifications /\ Exists(verification[Token(p)])
  /\ At(p, "savePassword") => Exists(user[EmailOf[Token(p)]])
  /\ /\ request[p].at \in {"savePassword", "saveInvitation", "verifyEmails"}
     /\ Exists(user[EmailOf[Token(p)]])
     => user[EmailOf[Token(p)]].tenant = TenantOf[Token(p)]

VerifiesUsers ==
  \A v \in Verifications : Exists(verification[v]) => Exists(user[verification[v].email])

Base == Shape /\ Locks /\ VerifiesUsers /\ \A p \in Procs : RequestOK(p)

(* What every step leaves of the rows: only an unlocked verification goes. *)
RowsKept ==
  /\ \A e \in Emails : Exists(user[e]) =>
       Exists(user'[e]) /\ user'[e].tenant = user[e].tenant
  /\ \A i \in Invitations : Exists(invitation[i]) => Exists(invitation'[i])
  /\ \A t \in Resets : Exists(reset[t]) =>
       Exists(reset'[t]) /\ reset'[t].email = reset[t].email
  /\ \A v \in Verifications :
       /\ verification[v] # Absent => verification'[v] # Absent
       /\ Exists(verification[v]) =>
            \/ Exists(verification'[v]) /\ verification'[v].email = verification[v].email
            \/ Idle(v)

LEMMA RequestType ==
  ASSUME Shape, NEW p \in Procs
  PROVE  /\ request[p] # NoRequest => Token(p) \in Tokens /\ request[p].at \in Stages
         /\ request[p] = NoRequest <=> request[p].at = "none"
BY DEF Shape, Request, NoRequest, Token, Stages, RedeemStages, AcceptStages

LEMMA RowTypes ==
  ASSUME Shape
  PROVE  /\ \A e \in Emails : Exists(user[e]) => user[e] \in User
         /\ \A i \in Invitations : Exists(invitation[i]) => invitation[i] \in Invitation
         /\ \A t \in Resets : Exists(reset[t]) => reset[t] \in Reset
         /\ \A v \in Verifications : Exists(verification[v]) => verification[v] \in Verification
BY DEF Shape, Exists

LEMMA RowsExist ==
  ASSUME NEW row \in User \cup Invitation \cup Reset \cup Verification
  PROVE  Exists(row)
BY RowAssumption DEF Exists

(* The requests a step does not move stay right and keep their locks, when *)
(* a user is only inserted by one that moves and has the address locked.   *)
LEMMA OthersOK ==
  ASSUME Base, RowsKept, NEW P \in SUBSET Procs,
         \A q \in Procs \ P : request'[q] = request[q],
         \A e \in Emails : ~Exists(user[e]) /\ Exists(user'[e]) => lock[e] \in P
  PROVE  \A q \in Procs \ P : RequestOK(q)' /\ Holds(q)' = Holds(q)
<1> TAKE q \in Procs \ P
<1>1. request'[q] = request[q] /\ RequestOK(q)
  BY DEF Base
<1>2. CASE request[q].at \in AcceptStages
  <2> DEFINE e == EmailOf[Token(q)]
  <2>1. /\ Token(q) \in Invitations /\ e \in Emails
        /\ Exists(invitation[Token(q)]) /\ Exists(invitation'[Token(q)])
    BY <1>1, <1>2, AccountsAssumption DEF RequestOK, InvitationStages, RowsKept
  <2>2. /\ EmailAt(q) = e /\ EmailAt(q)' = e /\ Token(q)' = Token(q)
    BY <1>1, <1>2 DEF EmailAt, Token
  <2>3. Holds(q)' = Holds(q)
    BY <1>1, <2>2 DEF Holds
  <2>4. request[q].at \in {"saveInvitation", "verifyEmails"} => lock[e] = q
    BY <2>1, <2>2 DEF Base, Locks, Holds, Rows
  <2>5. RequestOK(q)'
    BY <1>1, <1>2, <2>1, <2>2, <2>4
    DEF RequestOK, RowsKept, InvitationStages, AcceptStages, At
  <2> QED
    BY <2>3, <2>5
<1>3. CASE At(q, "saveVerified")
  <2>1. /\ Token(q) \in Verifications /\ Exists(verification[Token(q)])
        /\ EmailAt(q) = verification[Token(q)].email
        /\ Token(q)' = Token(q)
    BY <1>1, <1>3 DEF RequestOK, EmailAt, At, AcceptStages, Token
  <2>2. lock[Token(q)] = q
    BY <1>3, <2>1 DEF Base, Locks, Holds, Rows, At
  <2>3. Exists(verification'[Token(q)])
    BY <2>1, <2>2, AccountsAssumption DEF RowsKept, Idle
  <2>4. RequestOK(q)'
    BY <1>1, <1>3, <2>1, <2>3 DEF RequestOK, At, InvitationStages, AcceptStages
  <2>5. Holds(q)' = Holds(q)
    BY <1>1, <1>3, <2>1 DEF Holds, At
  <2> QED
    BY <2>4, <2>5
<1>4. CASE request[q].at \notin AcceptStages /\ ~At(q, "saveVerified")
  <2>1. RequestOK(q)'
    BY <1>1, <1>4 DEF RequestOK, RowsKept, At, Token, InvitationStages, AcceptStages
  <2>2. Holds(q)' = Holds(q)
    BY <1>1, <1>4 DEF Holds, At, AcceptStages
  <2> QED
    BY <2>1, <2>2
<1> QED
  BY <1>2, <1>3, <1>4

(* The ways in which a step of p can leave the locks. *)
LEMMA LocksKept ==
  ASSUME Locks, NEW P \in SUBSET Procs, lock' = lock,
         \A q \in Procs \ P : Holds(q)' = Holds(q),
         \A p \in P : Holds(p) = {} /\ Holds(p)' = {}
  PROVE  Locks'
BY DEF Locks

LEMMA LocksReleased ==
  ASSUME Locks, NEW p \in Procs, End(p), Holds(p)' = {},
         \A q \in Procs \ {p} : Holds(q)' = Holds(q)
  PROVE  Locks'
BY AccountsAssumption DEF Locks, End

LEMMA LocksTaken ==
  ASSUME Locks, NEW p \in Procs, NEW stage, Proceed(p, stage),
         Holds(p)' = Holds(p) \cup Needs(p),
         \A q \in Procs \ {p} : Holds(q)' = Holds(q)
  PROVE  Locks'
<1> SUFFICES ASSUME NEW q \in Procs, NEW row \in Rows
             PROVE  lock'[row] = q <=> row \in Holds(q)'
  BY DEF Locks
<1>1. lock'[row] = IF row \in Needs(p) THEN p ELSE lock[row]
  BY DEF Proceed
<1>2. row \in Needs(p) => lock[row] \in {NoProc, p}
  BY DEF Proceed, Granted
<1>3. CASE q = p
  BY <1>1, <1>3 DEF Locks
<1>4. CASE q # p
  BY <1>1, <1>2, <1>4, AccountsAssumption DEF Locks
<1> QED
  BY <1>3, <1>4

--------------------------------------------------------------------------------
LEMMA InitBase == Init => Base
<1> SUFFICES ASSUME Init PROVE Base
  OBVIOUS
<1>1. Shape
  BY AccountsAssumption DEF Init, Shape, User
<1>2. \A p \in Procs : request[p].at = "none"
  BY DEF Init, NoRequest
<1>3. Locks
  BY <1>2, AccountsAssumption DEF Init, Locks, Holds
<1>4. \A p \in Procs : RequestOK(p)
  BY <1>2 DEF RequestOK, At, InvitationStages, AcceptStages
<1>5. VerifiesUsers
  BY DEF Init, VerifiesUsers, Exists
<1> QED
  BY <1>1, <1>3, <1>4, <1>5 DEF Base

(* A request starts: nothing but its own entry changes. *)
LEMMA BeginBase ==
  ASSUME Base, NEW p \in Procs, NEW stage \in Stages, NEW t \in Tokens, Begin(p, stage, t),
         Shape', RowsKept, user' = user, verification' = verification, lock' = lock,
         stage \in {"setRoles", "saveExpiry", "markExpired", "getUser"} =>
           t \in Invitations /\ Exists(invitation'[t]),
         stage = "saveReset" => t \in Resets /\ Exists(reset'[t]),
         stage = "saveVerification" => t \in Verifications /\ verification[t] # Absent,
         stage \notin {"savePassword", "saveInvitation", "verifyEmails", "saveVerified"}
  PROVE  Base'
<1>1. /\ request[p].at = "none"
      /\ request' = [request EXCEPT ![p] = [at |-> stage, token |-> t]]
  BY DEF Begin, NoRequest
<1>2. request'[p] = [at |-> stage, token |-> t] /\ \A q \in Procs \ {p} : request'[q] = request[q]
  BY <1>1 DEF Base, Shape
<1>3. \A q \in Procs \ {p} : RequestOK(q)' /\ Holds(q)' = Holds(q)
  BY <1>2, OthersOK
<1>4. request'[p].at = stage /\ Token(p)' = t
  BY <1>2 DEF Token
<1>5. RequestOK(p)'
  BY <1>4 DEF RequestOK, At, InvitationStages, AcceptStages, Stages, RedeemStages
<1>6. Holds(p) = {} /\ Holds(p)' = {}
  BY <1>1, <1>4 DEF Holds
<1>7. Locks'
  BY <1>3, <1>6, LocksKept DEF Base
<1>8. VerifiesUsers'
  BY DEF Base, VerifiesUsers
<1> QED
  BY <1>3, <1>5, <1>7, <1>8 DEF Base

(* A request ends, with its writes or without. *)
LEMMA EndBase ==
  ASSUME Base, NEW p \in Procs, End(p), Shape', RowsKept, VerifiesUsers',
         \A e \in Emails : ~Exists(user[e]) /\ Exists(user'[e]) => lock[e] = p
  PROVE  Base'
<1>1. request'[p].at = "none" /\ \A q \in Procs \ {p} : request'[q] = request[q]
  BY DEF End, Base, Shape, NoRequest
<1>2. \A q \in Procs \ {p} : RequestOK(q)' /\ Holds(q)' = Holds(q)
  BY <1>1, OthersOK
<1>3. RequestOK(p)' /\ Holds(p)' = {}
  BY <1>1 DEF RequestOK, Holds, At, InvitationStages, AcceptStages
<1> QED
  BY <1>2, <1>3, LocksReleased DEF Base

LEMMA EndShape ==
  ASSUME Base, NEW p \in Procs, End(p)
  PROVE  /\ request' \in [Procs -> Request \cup {NoRequest}]
         /\ lock' \in [Rows -> Procs \cup {NoProc}]
BY DEF Base, Shape, End

LEMMA RollbackBase ==
  ASSUME Base, NEW p \in Procs, Rollback(p)
  PROVE  Base'
<1>1. Shape'
  BY EndShape DEF Base, Shape, Rollback, rows, history
<1>2. RowsKept /\ VerifiesUsers'
  BY DEF Rollback, rows, RowsKept, Base, VerifiesUsers
<1> QED
  BY <1>1, <1>2, EndBase DEF Rollback, rows

LEMMA ProceedMoves ==
  ASSUME Base, NEW p \in Procs, NEW stage \in Stages, Proceed(p, stage), request[p] # NoRequest
  PROVE  request'[p].at = stage /\ Token(p)' = Token(p) /\ rows' = rows
<1>1. request[p] \in Request
  BY DEF Base, Shape
<1>2. request'[p] = [request[p] EXCEPT !.at = stage]
  BY DEF Proceed, Base, Shape
<1>3. request'[p].at = stage /\ request'[p].token = request[p].token
  BY <1>1, <1>2 DEF Request
<1> QED
  BY <1>3 DEF Token, Proceed

LEMMA ProceedBase ==
  ASSUME Base, NEW p \in Procs, NEW stage \in Stages, Proceed(p, stage),
         request[p] # NoRequest,
         RequestOK(p)', Holds(p)' = Holds(p) \cup Needs(p)
  PROVE  Base'
<1>1. request[p] \in Request
  BY DEF Base, Shape
<1>2. /\ request' = [request EXCEPT ![p].at = stage]
      /\ \A q \in Procs \ {p} : request'[q] = request[q]
  BY DEF Proceed, Base, Shape
<1>3. Shape'
  BY <1>1, <1>2 DEF Proceed, Base, Shape, Request, rows, history
<1>4. RowsKept /\ VerifiesUsers' /\ user' = user
  BY DEF Proceed, rows, RowsKept, Base, VerifiesUsers
<1>5. \A q \in Procs \ {p} : RequestOK(q)' /\ Holds(q)' = Holds(q)
  BY <1>2, <1>4, OthersOK
<1> QED
  BY <1>3, <1>4, <1>5, LocksTaken DEF Base

LEMMA TokenKinds ==
  ASSUME Base, NEW p \in Procs, request[p] # NoRequest
  PROVE  /\ Token(p) \in Tokens /\ request[p].at \in Stages
         /\ request[p].at \in InvitationStages =>
              /\ Token(p) \in Invitations /\ EmailOf[Token(p)] \in Emails
              /\ invitation[Token(p)] \in Invitation
         /\ At(p, "saveReset") => Token(p) \in Resets /\ reset[Token(p)] \in Reset
         /\ At(p, "saveVerification") => Token(p) \in Verifications
         /\ At(p, "saveVerified") => /\ Token(p) \in Verifications
                                    /\ verification[Token(p)] \in Verification
<1>1. RequestOK(p) /\ Shape
  BY DEF Base
<1> QED
  BY <1>1, RequestType, RowTypes, AccountsAssumption DEF RequestOK

LEMMA AtRequest ==
  ASSUME Base, NEW p \in Procs, NEW stage \in Stages, At(p, stage)
  PROVE  request[p] # NoRequest
BY RequestType DEF Base, At, Stages, RedeemStages, AcceptStages, NoRequest

--------------------------------------------------------------------------------
(* Invitations. *)

LEMMA InviteBase ==
  ASSUME Base, NEW p \in Procs, NEW i \in Invitations, Invite(p, i)
  PROVE  Base'
<1> DEFINE new == [status |-> "pending", late |-> FALSE, accepted |-> FALSE, roles |-> {},
                   mailed |-> FALSE]
<1>1. new \in Invitation /\ invitation' = [invitation EXCEPT ![i] = new]
  BY DEF Invitation, Statuses, Invite
<1>2. "setRoles" \in Stages /\ i \in Tokens
  BY DEF Stages, Tokens
<1>3. [at |-> "setRoles", token |-> i] \in Request
  BY <1>2 DEF Request
<1>4. Shape'
  BY <1>1, <1>3 DEF Base, Shape, Invite, Begin, history
<1>5. Exists(invitation'[i])
  BY <1>1, RowsExist DEF Base, Shape
<1>6. RowsKept
  BY <1>1, <1>5 DEF RowsKept, Invite, Base, Shape
<1> QED
  BY <1>2, <1>4, <1>5, <1>6, BeginBase DEF Invite

LEMMA RequestStart ==
  ASSUME Base, NEW p \in Procs, NEW stage \in Stages, NEW t \in Tokens, Begin(p, stage, t),
         UNCHANGED <<rows, lock>>, uses' = uses, raced' \subseteq Tokens, early' = early
  PROVE  Shape' /\ RowsKept
<1>1. [at |-> stage, token |-> t] \in Request
  BY DEF Request
<1> QED
  BY <1>1 DEF Base, Shape, Begin, rows, RowsKept

LEMMA OpenExpiredBase ==
  ASSUME Base, NEW p \in Procs, NEW i \in Invitations, OpenExpired(p, i)
  PROVE  Base'
<1>1. "markExpired" \in Stages /\ i \in Tokens
  BY DEF Stages, Tokens
<1>2. Shape' /\ RowsKept
  BY <1>1, RequestStart DEF OpenExpired, history, Base, Shape
<1> QED
  BY <1>1, <1>2, BeginBase DEF OpenExpired, Pending, rows

LEMMA StartResendBase ==
  ASSUME Base, NEW p \in Procs, NEW i \in Invitations, StartResend(p, i)
  PROVE  Base'
<1>1. "saveExpiry" \in Stages /\ i \in Tokens
  BY DEF Stages, Tokens
<1>2. Shape' /\ RowsKept
  BY <1>1, RequestStart DEF StartResend, history, Base, Shape
<1> QED
  BY <1>1, <1>2, BeginBase DEF StartResend, Pending, rows

LEMMA RedeemStart ==
  ASSUME Base, NEW p \in Procs, NEW stage \in Stages, NEW t \in Tokens, Redeem(p, stage, t)
  PROVE  Shape' /\ RowsKept
BY RequestStart DEF Redeem, Base, Shape

LEMMA StartAcceptBase ==
  ASSUME Base, NEW p \in Procs, NEW i \in Invitations, StartAccept(p, i)
  PROVE  Base'
<1>1. "getUser" \in Stages /\ i \in Tokens
  BY DEF Stages, RedeemStages, AcceptStages, Tokens
<1>2. Shape' /\ RowsKept
  BY <1>1, RedeemStart DEF StartAccept
<1> QED
  BY <1>1, <1>2, BeginBase DEF StartAccept, Redeem, Pending, rows

(* A request that ends by changing its invitation. *)
LEMMA EndWithInvitation ==
  ASSUME Base, NEW p \in Procs, request[p].at \in InvitationStages, End(p),
         NEW new \in Invitation, invitation' = [invitation EXCEPT ![Token(p)] = new],
         UNCHANGED <<user, reset, verification, uses, raced>>, early' \subseteq Invitations
  PROVE  Base'
<1>1. Token(p) \in Invitations
  BY DEF Base, RequestOK
<1>2. Shape'
  BY EndShape DEF Base, Shape
<1>3. RowsKept
  BY <1>1, RowsExist DEF RowsKept, Base, Shape
<1>4. VerifiesUsers'
  BY DEF Base, VerifiesUsers
<1> QED
  BY <1>2, <1>3, <1>4, EndBase

LEMMA SetRolesAndMailBase ==
  ASSUME Base, NEW p \in Procs, SetRolesAndMail(p)
  PROVE  Base'
<1> DEFINE i == Token(p)
           new == [invitation[i] EXCEPT !.roles = RolesOf[i], !.mailed = TRUE]
<1>1. request[p].at \in InvitationStages /\ i \in Invitations /\ Exists(invitation[i])
  BY DEF SetRolesAndMail, At, InvitationStages, Base, RequestOK
<1>2. invitation[i] \in Invitation
  BY <1>1, RowTypes DEF Base
<1>3. new \in Invitation
  BY <1>1, <1>2, AccountsAssumption DEF Invitation
<1>4. invitation' = [invitation EXCEPT ![i] = new]
  BY <1>1 DEF SetRolesAndMail, Base, Shape
<1> QED
  BY <1>1, <1>3, <1>4, EndWithInvitation DEF SetRolesAndMail, Commit, history, Base, Shape

LEMMA MarkExpiredBase ==
  ASSUME Base, NEW p \in Procs, MarkExpired(p)
  PROVE  Base'
<1> DEFINE i == Token(p)
           new == [invitation[i] EXCEPT !.status = "expired"]
<1>1. request[p].at \in InvitationStages /\ i \in Invitations /\ Exists(invitation[i])
  BY DEF MarkExpired, At, InvitationStages, Base, RequestOK
<1>2. invitation[i] \in Invitation
  BY <1>1, RowTypes DEF Base
<1>3. new \in Invitation
  BY <1>1, <1>2 DEF Invitation, Statuses
<1>4. invitation' = [invitation EXCEPT ![i] = new]
  BY <1>1 DEF MarkExpired, Base, Shape
<1> QED
  BY <1>1, <1>3, <1>4, EndWithInvitation DEF MarkExpired, Commit, history, Base, Shape

LEMMA SaveExpiryBase ==
  ASSUME Base, NEW p \in Procs, SaveExpiry(p)
  PROVE  Base'
<1> DEFINE i == Token(p)
           new == [invitation[i] EXCEPT !.late = FALSE, !.mailed = TRUE]
<1>1. request[p].at \in InvitationStages /\ i \in Invitations /\ Exists(invitation[i])
  BY DEF SaveExpiry, At, InvitationStages, Base, RequestOK
<1>2. invitation[i] \in Invitation
  BY <1>1, RowTypes DEF Base
<1>3. new \in Invitation
  BY <1>1, <1>2 DEF Invitation
<1>4. invitation' = [invitation EXCEPT ![i] = new]
  BY <1>1 DEF SaveExpiry, Base, Shape
<1>5. early' \subseteq Invitations
  BY <1>1 DEF SaveExpiry, Base, Shape
<1> QED
  BY <1>1, <1>3, <1>4, <1>5, EndWithInvitation DEF SaveExpiry, Commit

LEMMA GetUserBase ==
  ASSUME Base, NEW p \in Procs, GetUser(p)
  PROVE  Base'
<1> DEFINE i == Token(p)
           e == EmailOf[i]
<1>1. At(p, "getUser") /\ EmailAt(p) = e
  BY DEF GetUser, EmailAt, At, AcceptStages
<1>2. i \in Invitations /\ e \in Emails /\ Exists(invitation[i])
  BY <1>1, AccountsAssumption DEF At, InvitationStages, AcceptStages, Base, RequestOK
<1>3. request[p] # NoRequest
  BY <1>1 DEF At, NoRequest
<1>4. Holds(p) = {}
  BY <1>1 DEF Holds, At
<1>5. ASSUME NEW stage \in Stages, Proceed(p, stage)
      PROVE  request'[p].at = stage /\ Token(p)' = i /\ rows' = rows
  BY <1>3, <1>5, ProceedMoves
<1>6. CASE Acceptable(e, TenantOf[i]) /\ Proceed(p, "savePassword")
  <2>1. "savePassword" \in Stages
    BY DEF Stages, RedeemStages, AcceptStages
  <2>2. RequestOK(p)'
    BY <1>2, <1>5, <1>6, <2>1 DEF RequestOK, At, InvitationStages, AcceptStages, Acceptable, rows
  <2>3. Holds(p)' = {} /\ Needs(p) = {}
    BY <1>1, <1>5, <1>6, <2>1 DEF Holds, Needs, At, Acceptable
  <2> QED
    BY <1>3, <1>4, <1>6, <2>1, <2>2, <2>3, ProceedBase
<1>7. CASE ~Exists(user[e]) /\ Proceed(p, "saveInvitation")
  <2>1. "saveInvitation" \in Stages
    BY DEF Stages, RedeemStages, AcceptStages
  <2>2. RequestOK(p)'
    BY <1>2, <1>5, <1>7, <2>1 DEF RequestOK, At, InvitationStages, AcceptStages, rows
  <2>3. EmailAt(p)' = e
    BY <1>5, <1>7, <2>1 DEF EmailAt, AcceptStages
  <2>4. Holds(p)' = Needs(p)
    BY <1>1, <1>5, <1>7, <2>1, <2>3 DEF Holds, Needs, At
  <2> QED
    BY <1>3, <1>4, <1>7, <2>1, <2>2, <2>4, ProceedBase
<1>8. CASE Rollback(p)
  BY <1>8, RollbackBase
<1> QED
  BY <1>1, <1>6, <1>7, <1>8 DEF GetUser

LEMMA SavePasswordBase ==
  ASSUME Base, NEW p \in Procs, SavePassword(p)
  PROVE  Base'
<1> DEFINE i == Token(p)
           e == EmailOf[i]
<1>1. At(p, "savePassword") /\ EmailAt(p) = e /\ Proceed(p, "saveInvitation")
  BY DEF SavePassword, EmailAt, At, AcceptStages
<1>2. i \in Invitations /\ e \in Emails /\ Exists(invitation[i]) /\ RequestOK(p)
  BY <1>1, AccountsAssumption DEF At, InvitationStages, AcceptStages, Base, RequestOK
<1>3. request[p] # NoRequest
  BY <1>1 DEF At, NoRequest
<1>4. "saveInvitation" \in Stages
  BY DEF Stages, RedeemStages, AcceptStages
<1>5. request'[p].at = "saveInvitation" /\ Token(p)' = i /\ rows' = rows
  BY <1>1, <1>3, <1>4, ProceedMoves
<1>6. RequestOK(p)'
  BY <1>1, <1>2, <1>5 DEF RequestOK, At, InvitationStages, AcceptStages, rows
<1>7. EmailAt(p)' = e
  BY <1>5 DEF EmailAt, AcceptStages
<1>8. Holds(p) = {} /\ Holds(p)' = Needs(p)
  BY <1>1, <1>5, <1>7 DEF Holds, Needs, At
<1> QED
  BY <1>1, <1>3, <1>4, <1>6, <1>8, ProceedBase

LEMMA SaveInvitationBase ==
  ASSUME Base, NEW p \in Procs, SaveInvitation(p)
  PROVE  Base'
<1> DEFINE i == Token(p)
           e == EmailOf[i]
<1>1. At(p, "saveInvitation") /\ EmailAt(p) = e /\ Proceed(p, "verifyEmails")
  BY DEF SaveInvitation, EmailAt, At, AcceptStages
<1>2. i \in Invitations /\ e \in Emails /\ Exists(invitation[i]) /\ RequestOK(p)
  BY <1>1, AccountsAssumption DEF At, InvitationStages, AcceptStages, Base, RequestOK
<1>3. request[p] # NoRequest
  BY <1>1 DEF At, NoRequest
<1>4. "verifyEmails" \in Stages
  BY DEF Stages, RedeemStages, AcceptStages
<1>5. request'[p].at = "verifyEmails" /\ Token(p)' = i /\ rows' = rows
  BY <1>1, <1>3, <1>4, ProceedMoves
<1>6. RequestOK(p)'
  BY <1>1, <1>2, <1>5 DEF RequestOK, At, InvitationStages, AcceptStages, rows
<1>7. EmailAt(p)' = e
  BY <1>5 DEF EmailAt, AcceptStages
<1>8. Holds(p)' = Holds(p) \cup Needs(p)
  BY <1>1, <1>5, <1>7 DEF Holds, Needs, At
<1> QED
  BY <1>1, <1>3, <1>4, <1>6, <1>8, ProceedBase

LEMMA FinishAcceptBase ==
  ASSUME Base, NEW p \in Procs, FinishAccept(p)
  PROVE  Base'
<1> DEFINE i == Token(p)
           e == EmailOf[i]
           new == [tenant |-> IF Exists(user[e]) THEN user[e].tenant ELSE TenantOf[i],
                   verified |-> TRUE, roles |-> WithRoles(e, invitation[i].roles)]
           saved == [invitation[i] EXCEPT !.status = "accepted", !.accepted = TRUE]
<1>1. At(p, "verifyEmails") /\ EmailAt(p) = e
  BY DEF FinishAccept, EmailAt, At, AcceptStages
<1>2. /\ i \in Invitations /\ e \in Emails /\ Exists(invitation[i])
      /\ TenantOf[i] \in Tenants /\ i \in Tokens
  BY <1>1, AccountsAssumption DEF At, InvitationStages, AcceptStages, Base, RequestOK, Tokens
<1>3. invitation[i] \in Invitation /\ (Exists(user[e]) => user[e] \in User)
  BY <1>2, RowTypes DEF Base
<1>4. saved \in Invitation
  BY <1>3 DEF Invitation, Statuses
<1>5. WithRoles(e, invitation[i].roles) \subseteq Roles
  BY <1>3 DEF WithRoles, User, Invitation
<1>6. new \in User
  BY <1>2, <1>3, <1>5 DEF User
<1>7. /\ user' = [user EXCEPT ![e] = new]
      /\ invitation' = [invitation EXCEPT ![i] = saved]
      /\ reset' = reset
      /\ verification' = [v \in Verifications |->
           IF v \in OpenVerifications(e) THEN [verification[v] EXCEPT !.verified = TRUE]
                                         ELSE verification[v]]
  BY <1>1, <1>2 DEF FinishAccept, Base, Shape
<1>8. ASSUME NEW v \in Verifications
      PROVE  /\ verification'[v] \in Verification \cup {Absent, Deleted}
             /\ verification[v] # Absent => verification'[v] # Absent
             /\ Exists(verification[v]) <=> Exists(verification'[v])
             /\ Exists(verification[v]) => verification'[v].email = verification[v].email
  <2>1. CASE v \in OpenVerifications(e)
    <3>1. verification[v] \in Verification /\ Exists(verification[v])
      BY <2>1, RowTypes DEF OpenVerifications, Base
    <3>2. verification'[v] = [verification[v] EXCEPT !.verified = TRUE]
      BY <1>7, <2>1
    <3>3. verification'[v] \in Verification /\ verification'[v].email = verification[v].email
      BY <3>1, <3>2 DEF Verification
    <3> QED
      BY <3>1, <3>3, RowsExist DEF Exists
  <2>2. CASE v \notin OpenVerifications(e)
    BY <1>7, <2>2 DEF Base, Shape
  <2> QED
    BY <2>1, <2>2
<1>9. /\ user' \in [Emails -> User \cup {Absent}]
      /\ \A f \in Emails : user'[f] = IF f = e THEN new ELSE user[f]
  BY <1>2, <1>6, <1>7 DEF Base, Shape
<1>10. /\ invitation' \in [Invitations -> Invitation \cup {Absent}]
       /\ \A j \in Invitations : invitation'[j] = IF j = i THEN saved ELSE invitation[j]
  BY <1>2, <1>4, <1>7 DEF Base, Shape
<1>11. uses' \in [Tokens -> Nat] /\ raced' = raced /\ early' = early
  <2>1. \A n \in Nat : n + 1 \in Nat
    OBVIOUS
  <2>2. uses[i] \in Nat /\ uses' = [uses EXCEPT ![i] = uses[i] + 1]
    BY <1>2 DEF FinishAccept, Redeemed, Base, Shape
  <2> QED
    BY <2>1, <2>2 DEF FinishAccept, Redeemed, Base, Shape
<1>12. /\ End(p)
       /\ verification' \in [Verifications -> Verification \cup {Absent, Deleted}]
  BY <1>7, <1>8 DEF FinishAccept, Commit
<1>13. Shape'
  BY <1>7, <1>9, <1>10, <1>11, <1>12, EndShape DEF Base, Shape
<1>14. Exists(user'[e]) /\ Exists(invitation'[i])
  BY <1>2, <1>4, <1>6, <1>9, <1>10, RowsExist
<1>15. RowsKept
  BY <1>7, <1>8, <1>9, <1>10, <1>14 DEF RowsKept
<1>16. VerifiesUsers'
  BY <1>8, <1>9, <1>14, <1>15, <1>12 DEF VerifiesUsers, Base, RowsKept, Verification, Shape, Exists
<1>17. ~Exists(user[e]) => lock[e] = p
  BY <1>1, <1>2 DEF Base, Locks, Holds, At, Rows
<1> QED
  BY <1>9, <1>12, <1>13, <1>15, <1>16, <1>17, EndBase

(* A step of nobody's request that leaves the users alone. *)
LEMMA OthersBase ==
  ASSUME Base, Shape', RowsKept, VerifiesUsers', user' = user, request' = request, lock' = lock
  PROVE  Base'
<1>1. \A q \in Procs : RequestOK(q)' /\ Holds(q)' = Holds(q)
  <2>1. \A q \in Procs \ {} : RequestOK(q)' /\ Holds(q)' = Holds(q)
    BY OthersOK
  <2> QED
    BY <2>1
<1>2. Locks'
  BY <1>1 DEF Base, Locks
<1> QED
  BY <1>1, <1>2 DEF Base

LEMMA OthersInvitation ==
  ASSUME Base, NEW i \in Invitations, NEW new \in Invitation,
         invitation' = [invitation EXCEPT ![i] = new],
         UNCHANGED <<user, reset, verification, request, lock, history>>
  PROVE  Base'
<1>1. Shape'
  BY DEF Base, Shape, history
<1>2. RowsKept
  BY RowsExist DEF RowsKept, Base, Shape
<1>3. VerifiesUsers'
  BY DEF Base, VerifiesUsers
<1> QED
  BY <1>1, <1>2, <1>3, OthersBase

LEMMA RevokeBase ==
  ASSUME Base, NEW i \in Invitations, Revoke(i)
  PROVE  Base'
<1> DEFINE new == [invitation[i] EXCEPT !.status = "revoked"]
<1>1. invitation[i] \in Invitation
  BY RowTypes DEF Base, Revoke
<1>2. new \in Invitation
  BY <1>1 DEF Invitation, Statuses
<1>3. invitation' = [invitation EXCEPT ![i] = new]
  BY DEF Revoke, Base, Shape
<1> QED
  BY <1>2, <1>3, OthersInvitation DEF Revoke

LEMMA InvitationExpiresBase ==
  ASSUME Base, NEW i \in Invitations, InvitationExpires(i)
  PROVE  Base'
<1> DEFINE new == [invitation[i] EXCEPT !.late = TRUE]
<1>1. invitation[i] \in Invitation
  BY RowTypes DEF Base, InvitationExpires
<1>2. new \in Invitation
  BY <1>1 DEF Invitation
<1>3. invitation' = [invitation EXCEPT ![i] = new]
  BY DEF InvitationExpires, Base, Shape
<1> QED
  BY <1>2, <1>3, OthersInvitation DEF InvitationExpires

--------------------------------------------------------------------------------
(* Password resets and e-mail verifications. *)

LEMMA CreateResetBase ==
  ASSUME Base, NEW t \in Resets, NEW e \in Emails, CreateReset(t, e)
  PROVE  Base'
<1> DEFINE new == [email |-> e, used |-> FALSE, late |-> FALSE]
<1>1. new \in Reset /\ reset' = [reset EXCEPT ![t] = new]
  BY DEF Reset, CreateReset
<1>2. Shape'
  BY <1>1 DEF Base, Shape, CreateReset, history
<1>3. RowsKept
  BY <1>1 DEF CreateReset, RowsKept, Base, Shape, Exists
<1>4. VerifiesUsers'
  BY DEF CreateReset, Base, VerifiesUsers
<1> QED
  BY <1>2, <1>3, <1>4, OthersBase DEF CreateReset

LEMMA ResetExpiresBase ==
  ASSUME Base, NEW t \in Resets, ResetExpires(t)
  PROVE  Base'
<1> DEFINE new == [reset[t] EXCEPT !.late = TRUE]
<1>1. reset[t] \in Reset
  BY RowTypes DEF Base, ResetExpires
<1>2. new \in Reset /\ new.email = reset[t].email
  BY <1>1 DEF Reset
<1>3. reset' = [reset EXCEPT ![t] = new]
  BY DEF ResetExpires, Base, Shape
<1>4. Shape'
  BY <1>2, <1>3 DEF Base, Shape, ResetExpires, history
<1>5. RowsKept
  BY <1>2, <1>3, RowsExist DEF ResetExpires, RowsKept, Base, Shape
<1>6. VerifiesUsers'
  BY DEF ResetExpires, Base, VerifiesUsers
<1> QED
  BY <1>4, <1>5, <1>6, OthersBase DEF ResetExpires

LEMMA StartResetBase ==
  ASSUME Base, NEW p \in Procs, NEW t \in Resets, StartReset(p, t)
  PROVE  Base'
<1>1. "saveReset" \in Stages /\ t \in Tokens
  BY DEF Stages, RedeemStages, AcceptStages, Tokens
<1>2. Shape' /\ RowsKept
  BY <1>1, RedeemStart DEF StartReset
<1> QED
  BY <1>1, <1>2, BeginBase DEF StartReset, Redeem, ValidReset, rows

LEMMA Counted ==
  ASSUME Base, NEW p \in Procs, Token(p) \in Tokens, Redeemed(p)
  PROVE  uses' \in [Tokens -> Nat] /\ raced' = raced /\ early' = early
<1>1. \A n \in Nat : n + 1 \in Nat
  OBVIOUS
<1>2. uses[Token(p)] \in Nat /\ uses' = [uses EXCEPT ![Token(p)] = uses[Token(p)] + 1]
  BY DEF Redeemed, Base, Shape
<1> QED
  BY <1>1, <1>2 DEF Redeemed, Base, Shape

LEMMA FinishResetBase ==
  ASSUME Base, NEW p \in Procs, FinishReset(p)
  PROVE  Base'
<1> DEFINE t == Token(p)
           new == [reset[t] EXCEPT !.used = TRUE]
<1>1. t \in Resets /\ Exists(reset[t]) /\ t \in Tokens
  BY DEF FinishReset, Base, RequestOK, Tokens
<1>2. reset[t] \in Reset
  BY <1>1, RowTypes DEF Base
<1>3. new \in Reset /\ new.email = reset[t].email
  BY <1>2 DEF Reset
<1>4. reset' = [reset EXCEPT ![t] = new]
  BY <1>1 DEF FinishReset, Base, Shape
<1>5. End(p) /\ uses' \in [Tokens -> Nat] /\ raced' = raced /\ early' = early
  BY <1>1, Counted DEF FinishReset, Commit
<1>6. Shape'
  BY <1>3, <1>4, <1>5, EndShape DEF Base, Shape, FinishReset
<1>7. RowsKept
  BY <1>1, <1>3, <1>4, RowsExist DEF FinishReset, RowsKept, Base, Shape
<1>8. VerifiesUsers'
  BY DEF FinishReset, Base, VerifiesUsers
<1> QED
  BY <1>5, <1>6, <1>7, <1>8, EndBase DEF FinishReset

LEMMA CreateVerificationBase ==
  ASSUME Base, NEW v \in Verifications, NEW e \in Emails, CreateVerification(v, e)
  PROVE  Base'
<1> DEFINE new == [email |-> e, verified |-> FALSE, late |-> FALSE]
<1>1. new \in Verification
  BY DEF Verification
<1>2. \A w \in Verifications :
        verification'[w] = IF w = v THEN new
                           ELSE IF w \in OpenVerifications(e) THEN Deleted
                           ELSE verification[w]
  BY DEF CreateVerification
<1>3. /\ DOMAIN verification' = Verifications
      /\ verification' \in [Verifications -> Verification \cup {Absent, Deleted}]
  BY <1>1 DEF CreateVerification, Base, Shape
<1>4. Shape'
  BY <1>3 DEF Base, Shape, CreateVerification, history
<1>5. ASSUME NEW w \in Verifications, w # v
      PROVE  /\ verification[w] # Absent => verification'[w] # Absent
             /\ Exists(verification[w]) =>
                  \/ Exists(verification'[w]) /\ verification'[w].email = verification[w].email
                  \/ Idle(w)
  <2>1. CASE w \in OpenVerifications(e)
    BY <1>2, <1>5, <2>1, RowAssumption DEF CreateVerification
  <2>2. CASE w \notin OpenVerifications(e)
    BY <1>2, <1>5, <2>2
  <2> QED
    BY <2>1, <2>2
<1>6. verification[v] = Absent /\ verification'[v] = new /\ Exists(new)
  BY <1>1, <1>2, RowsExist DEF CreateVerification
<1>7. RowsKept
  BY <1>5, <1>6 DEF RowsKept, CreateVerification, Exists
<1>8. VerifiesUsers'
  BY <1>2, <1>6 DEF VerifiesUsers, Base, CreateVerification, Exists
<1> QED
  BY <1>4, <1>7, <1>8, OthersBase DEF CreateVerification

LEMMA VerificationExpiresBase ==
  ASSUME Base, NEW v \in Verifications, VerificationExpires(v)
  PROVE  Base'
<1> DEFINE new == [verification[v] EXCEPT !.late = TRUE]
<1>1. verification[v] \in Verification
  BY RowTypes DEF Base, VerificationExpires
<1>2. new \in Verification /\ new.email = verification[v].email
  BY <1>1 DEF Verification
<1>3. verification' = [verification EXCEPT ![v] = new]
  BY DEF VerificationExpires, Base, Shape
<1>4. Exists(new)
  BY <1>2, RowsExist
<1>5. Shape'
  BY <1>2, <1>3 DEF Base, Shape, VerificationExpires, history
<1>6. RowsKept
  BY <1>2, <1>3, <1>4 DEF VerificationExpires, RowsKept, Base, Shape, Exists
<1>7. VerifiesUsers'
  BY <1>2, <1>3 DEF VerificationExpires, Base, VerifiesUsers, Shape
<1> QED
  BY <1>5, <1>6, <1>7, OthersBase DEF VerificationExpires

LEMMA StartVerifyBase ==
  ASSUME Base, NEW p \in Procs, NEW v \in Verifications, StartVerify(p, v)
  PROVE  Base'
<1>1. "saveVerification" \in Stages /\ v \in Tokens
  BY DEF Stages, RedeemStages, AcceptStages, Tokens
<1>2. Shape' /\ RowsKept
  BY <1>1, RedeemStart DEF StartVerify
<1> QED
  BY <1>1, <1>2, BeginBase DEF StartVerify, Redeem, Exists, rows

LEMMA SaveVerificationBase ==
  ASSUME Base, NEW p \in Procs, SaveVerification(p)
  PROVE  Base'
<1> DEFINE v == Token(p)
<1>1. CASE verification[v] = Deleted
  BY <1>1, RollbackBase DEF SaveVerification
<1>2. CASE verification[v] # Deleted
  <2>1. At(p, "saveVerification") /\ Proceed(p, "saveVerified")
    BY <1>2 DEF SaveVerification
  <2>2. v \in Verifications /\ Exists(verification[v])
    BY <1>2, <2>1 DEF Base, RequestOK, Exists
  <2>3. request[p] # NoRequest /\ "saveVerified" \in Stages
    BY <2>1 DEF At, NoRequest, Stages, RedeemStages
  <2>4. request'[p].at = "saveVerified" /\ Token(p)' = v /\ rows' = rows
    BY <2>1, <2>3, ProceedMoves
  <2>5. RequestOK(p)'
    BY <2>2, <2>4 DEF RequestOK, At, InvitationStages, AcceptStages, rows
  <2>6. Holds(p) = {} /\ Needs(p) = {row \in Rows : row = v}
    BY <2>1 DEF Holds, Needs, At
  <2>7. Holds(p)' = {row \in Rows : row = v}
    BY <2>4 DEF Holds
  <2> QED
    BY <2>1, <2>3, <2>5, <2>6, <2>7, ProceedBase
<1> QED
  BY <1>1, <1>2

LEMMA FinishVerifyBase ==
  ASSUME Base, NEW p \in Procs, FinishVerify(p)
  PROVE  Base'
<1> DEFINE v == Token(p)
           e == verification[v].email
           new == [verification[v] EXCEPT !.verified = TRUE]
           saved == [user[e] EXCEPT !.verified = TRUE]
<1>1. At(p, "saveVerified") /\ EmailAt(p) = e
  BY DEF FinishVerify, EmailAt, At, AcceptStages
<1>2. v \in Verifications /\ Exists(verification[v]) /\ v \in Tokens
  BY <1>1 DEF Base, RequestOK, Tokens
<1>3. verification[v] \in Verification /\ e \in Emails
  BY <1>2, RowTypes DEF Base, Verification
<1>4. user[e] \in User /\ Exists(user[e])
  BY <1>2, <1>3, RowTypes DEF Base, VerifiesUsers
<1>5. /\ new \in Verification /\ new.email = e
      /\ saved \in User /\ saved.tenant = user[e].tenant
  <2>1. new \in Verification /\ new.email = e
    BY <1>3 DEF Verification
  <2>2. saved \in User /\ saved.tenant = user[e].tenant
    BY <1>4 DEF User
  <2> QED
    BY <2>1, <2>2
<1>6. verification' = [verification EXCEPT ![v] = new] /\ user' = [user EXCEPT ![e] = saved]
  <2>1. verification' = [verification EXCEPT ![v].verified = TRUE]
    BY DEF FinishVerify
  <2>2. user' = [user EXCEPT ![e].verified = TRUE]
    BY <1>1 DEF FinishVerify
  <2> QED
    BY <2>1, <2>2 DEF Base, Shape
<1>7. Exists(new) /\ Exists(saved)
  BY <1>5, RowsExist
<1>8. /\ \A w \in Verifications : verification'[w] = IF w = v THEN new ELSE verification[w]
      /\ \A f \in Emails : user'[f] = IF f = e THEN saved ELSE user[f]
      /\ verification' \in [Verifications -> Verification \cup {Absent, Deleted}]
      /\ user' \in [Emails -> User \cup {Absent}]
  BY <1>2, <1>3, <1>5, <1>6 DEF Base, Shape
<1>9. End(p) /\ uses' \in [Tokens -> Nat] /\ raced' = raced /\ early' = early
  BY <1>2, Counted DEF FinishVerify, Commit
<1>10. Shape'
  BY <1>8, <1>9, EndShape DEF Base, Shape, FinishVerify
<1>11. RowsKept
  BY <1>5, <1>7, <1>8 DEF FinishVerify, RowsKept, Exists
<1>12. VerifiesUsers'
  <2> SUFFICES ASSUME NEW w \in Verifications, Exists(verification'[w])
               PROVE  Exists(user'[verification'[w].email])
    BY DEF VerifiesUsers
  <2>1. verification'[w].email = verification[w].email /\ Exists(verification[w])
    BY <1>2, <1>5, <1>8
  <2>2. verification[w].email \in Emails /\ Exists(user[verification[w].email])
    BY <2>1, RowTypes DEF Base, VerifiesUsers, Verification
  <2> QED
    BY <1>11, <2>1, <2>2 DEF RowsKept
<1> QED
  BY <1>4, <1>8, <1>9, <1>10, <1>11, <1>12, EndBase

--------------------------------------------------------------------------------
LEMMA StartBase ==
  ASSUME Base, NEW p \in Procs, Start(p)
  PROVE  Base'
BY InviteBase, OpenExpiredBase, StartAcceptBase, StartResendBase, StartResetBase,
   StartVerifyBase DEF Start

LEMMA ContinueBase ==
  ASSUME Base, NEW p \in Procs, Continue(p)
  PROVE  Base'
BY SetRolesAndMailBase, MarkExpiredBase, SaveExpiryBase, GetUserBase, SavePasswordBase,
   SaveInvitationBase, FinishAcceptBase, FinishResetBase, SaveVerificationBase,
   FinishVerifyBase, RollbackBase DEF Continue, AbortDeadlocked

LEMMA NextBase == Base /\ [Next]_vars => Base'
<1> SUFFICES ASSUME Base, [Next]_vars PROVE Base'
  OBVIOUS
<1>1. CASE Others
  BY <1>1, RevokeBase, InvitationExpiresBase, ResetExpiresBase, CreateResetBase,
     VerificationExpiresBase, CreateVerificationBase DEF Others
<1>2. CASE \E p \in Procs : Start(p) \/ Continue(p) \/ Crash(p)
  BY <1>2, StartBase, ContinueBase, RollbackBase DEF Crash
<1>3. CASE UNCHANGED vars
  <2>1. Shape' /\ RowsKept /\ VerifiesUsers'
    BY <1>3 DEF vars, history, Base, Shape, RowsKept, VerifiesUsers
  <2> QED
    BY <1>3, <2>1, OthersBase DEF vars
<1> QED
  BY <1>1, <1>2, <1>3 DEF Next

(* Rows, requests and tokens are well formed, and a row is locked by       *)
(* exactly the request that wrote it.                                       *)
THEOREM AccountsTypeCorrect == Spec => []AccountsTypeOK
<1>1. Base => AccountsTypeOK
  BY DEF Base, Shape, Locks, AccountsTypeOK
<1> QED
  BY <1>1, InitBase, NextBase, PTL DEF Spec

--------------------------------------------------------------------------------
(* What a step can do, whichever action it is of. *)

Settled(t) ==
  IF t \in Invitations THEN Exists(invitation[t]) /\ invitation[t].status # "pending"
  ELSE IF t \in Resets THEN Exists(reset[t]) /\ reset[t].used
  ELSE verification[t] = Deleted \/ (Exists(verification[t]) /\ verification[t].verified)

SettledStays == \A t \in Tokens : Settled(t) => Settled(t)'

(* What all but an acceptance do to an invitation. *)
InvitationStep(i) ==
  \/ invitation'[i] = invitation[i]
  \/ /\ ~Exists(invitation[i])
     /\ ~invitation'[i].accepted /\ ~invitation'[i].mailed /\ invitation'[i].roles = {}
  \/ /\ Exists(invitation[i]) /\ Exists(invitation'[i])
     /\ invitation'[i].accepted = invitation[i].accepted
     /\ invitation'[i].status \in {invitation[i].status, "expired", "revoked"}
     /\ invitation'[i].roles \in {invitation[i].roles, RolesOf[i]}
     /\ invitation[i].mailed => invitation'[i].mailed
     /\ invitation'[i].mailed =>
          \/ invitation[i].mailed
          \/ i \in early' \/ invitation'[i].roles = RolesOf[i]

(* What all but an acceptance do to a user. *)
UserStep(e) ==
  \/ user'[e] = user[e]
  \/ /\ Exists(user[e]) /\ Exists(user'[e])
     /\ user'[e].tenant = user[e].tenant /\ user'[e].roles = user[e].roles
     /\ user'[e].verified

QuietStep ==
  /\ \A e \in Emails : UserStep(e)
  /\ \A i \in Invitations : InvitationStep(i)
  /\ early \subseteq early'

NoNewRedeemer ==
  /\ \A q \in Procs, t \in Tokens : Redeems(q, t)' => Redeems(q, t)
  /\ uses' = uses /\ raced' = raced

RedeemBegins ==
  \E p \in Procs, stage \in Stages, t \in Tokens :
    /\ ~Settled(t)
    /\ t \in Invitations => Exists(invitation[t]) /\ invitation[t].mailed
    /\ Redeem(p, stage, t)

RedeemEnds ==
  \E p \in Procs, t \in Tokens :
    /\ Redeems(p, t) /\ Redeemed(p) /\ End(p)
    /\ Settled(t)'

Effect ==
  /\ QuietStep \/ \E p \in Procs : FinishAccept(p)
  /\ NoNewRedeemer \/ RedeemBegins \/ RedeemEnds
  /\ SettledStays

LEMMA Disjoint ==
  ASSUME NEW t \in Resets \cup Verifications
  PROVE  t \notin Invitations /\ (t \in Verifications => t \notin Resets)
BY AccountsAssumption

LEMMA RowsSame ==
  ASSUME UNCHANGED rows, early \subseteq early'
  PROVE  QuietStep /\ SettledStays
BY DEF rows, QuietStep, UserStep, InvitationStep, SettledStays, Settled

LEMMA EndRequests ==
  ASSUME Base, NEW p \in Procs, End(p), uses' = uses, raced' = raced
  PROVE  NoNewRedeemer
<1>1. \A q \in Procs : request'[q] = IF q = p THEN NoRequest ELSE request[q]
  BY DEF End, Base, Shape
<1>2. NoRequest.at \notin RedeemStages
  BY DEF NoRequest, RedeemStages, AcceptStages
<1> QED
  BY <1>1, <1>2 DEF NoNewRedeemer, Redeems, Token

LEMMA BeginRequests ==
  ASSUME Base, NEW p \in Procs, NEW stage \in Stages, NEW t \in Tokens, Begin(p, stage, t),
         stage \notin RedeemStages, uses' = uses, raced' = raced
  PROVE  NoNewRedeemer
<1>1. \A q \in Procs : request'[q] = IF q = p THEN [at |-> stage, token |-> t] ELSE request[q]
  BY DEF Begin, Base, Shape
<1> QED
  BY <1>1 DEF NoNewRedeemer, Redeems, Token

LEMMA ProceedEffect ==
  ASSUME Base, NEW p \in Procs, NEW stage \in Stages, Proceed(p, stage),
         request[p].at \in RedeemStages, request[p] # NoRequest
  PROVE  Effect
<1>1. \A q \in Procs : q # p => request'[q] = request[q]
  BY DEF Proceed, Base, Shape
<1>2. Token(p)' = Token(p)
  BY ProceedMoves
<1>3. NoNewRedeemer
  BY <1>1, <1>2 DEF NoNewRedeemer, Redeems, Token, Proceed, history
<1> QED
  BY <1>3, RowsSame DEF Effect, Proceed, history

LEMMA RollbackEffect ==
  ASSUME Base, NEW p \in Procs, Rollback(p)
  PROVE  Effect
BY EndRequests, RowsSame DEF Rollback, Effect, history

(* The steps that only write one invitation. *)
LEMMA InvitationEffect ==
  ASSUME Base, NEW i \in Invitations, InvitationStep(i), early \subseteq early',
         \A j \in Invitations \ {i} : invitation'[j] = invitation[j],
         UNCHANGED <<user, reset, verification>>, NoNewRedeemer
  PROVE  Effect
<1>1. QuietStep
  BY DEF QuietStep, UserStep, InvitationStep
<1>2. SettledStays
  BY Disjoint DEF SettledStays, Settled, InvitationStep
<1> QED
  BY <1>1, <1>2 DEF Effect

LEMMA InviteEffect ==
  ASSUME Base, NEW p \in Procs, NEW i \in Invitations, Invite(p, i)
  PROVE  Effect
<1>1. "setRoles" \in Stages \ RedeemStages /\ i \in Tokens
  BY DEF Stages, RedeemStages, AcceptStages, Tokens
<1>2. NoNewRedeemer
  BY <1>1, BeginRequests DEF Invite, history
<1>3. /\ \A j \in Invitations \ {i} : invitation'[j] = invitation[j]
      /\ InvitationStep(i)
  BY DEF Invite, InvitationStep, Exists, Base, Shape
<1> QED
  BY <1>2, <1>3, InvitationEffect DEF Invite, history

LEMMA BeginEffect ==
  ASSUME Base, NEW p \in Procs, NEW i \in Invitations,
         OpenExpired(p, i) \/ StartResend(p, i)
  PROVE  Effect
<1>1. {"markExpired", "saveExpiry"} \subseteq Stages \ RedeemStages /\ i \in Tokens
  BY DEF Stages, RedeemStages, AcceptStages, Tokens
<1>2. NoNewRedeemer
  BY <1>1, BeginRequests DEF OpenExpired, StartResend, history
<1> QED
  BY <1>2, RowsSame DEF Effect, OpenExpired, StartResend, history

LEMMA SetRolesAndMailEffect ==
  ASSUME Base, NEW p \in Procs, SetRolesAndMail(p)
  PROVE  Effect
<1> DEFINE i == Token(p)
<1>1. i \in Invitations /\ Exists(invitation[i])
  BY DEF SetRolesAndMail, At, InvitationStages, Base, RequestOK
<1>2. invitation[i] \in Invitation
  BY <1>1, RowTypes DEF Base
<1>3. invitation'[i] = [invitation[i] EXCEPT !.roles = RolesOf[i], !.mailed = TRUE]
  BY <1>1 DEF SetRolesAndMail, Base, Shape
<1>4. /\ invitation'[i].accepted = invitation[i].accepted
      /\ invitation'[i].status = invitation[i].status
      /\ invitation'[i].roles = RolesOf[i] /\ invitation'[i].mailed
      /\ Exists(invitation'[i])
  <2>1. invitation'[i] \in Invitation
    BY <1>1, <1>2, <1>3, AccountsAssumption DEF Invitation
  <2> QED
    BY <1>2, <1>3, <2>1, RowsExist DEF Invitation
<1>5. InvitationStep(i)
  BY <1>1, <1>4 DEF InvitationStep
<1>6. NoNewRedeemer
  BY EndRequests DEF SetRolesAndMail, Commit, history
<1>7. \A j \in Invitations \ {i} : invitation'[j] = invitation[j]
  BY DEF SetRolesAndMail, Base, Shape
<1> QED
  BY <1>1, <1>5, <1>6, <1>7, InvitationEffect DEF SetRolesAndMail, history

LEMMA MarkExpiredEffect ==
  ASSUME Base, NEW p \in Procs, MarkExpired(p)
  PROVE  Effect
<1> DEFINE i == Token(p)
<1>1. i \in Invitations /\ Exists(invitation[i])
  BY DEF MarkExpired, At, InvitationStages, Base, RequestOK
<1>2. invitation[i] \in Invitation
  BY <1>1, RowTypes DEF Base
<1>3. invitation'[i] = [invitation[i] EXCEPT !.status = "expired"]
  BY <1>1 DEF MarkExpired, Base, Shape
<1>4. invitation'[i] \in Invitation
  BY <1>2, <1>3 DEF Invitation, Statuses
<1>5. InvitationStep(i)
  BY <1>1, <1>2, <1>3, <1>4, RowsExist DEF InvitationStep, Invitation
<1>6. NoNewRedeemer
  BY EndRequests DEF MarkExpired, Commit, history
<1>7. \A j \in Invitations \ {i} : invitation'[j] = invitation[j]
  BY DEF MarkExpired, Base, Shape
<1> QED
  BY <1>1, <1>5, <1>6, <1>7, InvitationEffect DEF MarkExpired, history

LEMMA SaveExpiryEffect ==
  ASSUME Base, NEW p \in Procs, SaveExpiry(p)
  PROVE  Effect
<1> DEFINE i == Token(p)
<1>1. i \in Invitations /\ Exists(invitation[i])
  BY DEF SaveExpiry, At, InvitationStages, Base, RequestOK
<1>2. invitation[i] \in Invitation
  BY <1>1, RowTypes DEF Base
<1>3. invitation'[i] = [invitation[i] EXCEPT !.late = FALSE, !.mailed = TRUE]
  BY <1>1 DEF SaveExpiry, Base, Shape
<1>4. invitation'[i] \in Invitation
  BY <1>2, <1>3 DEF Invitation
<1>5. invitation'[i].roles = invitation[i].roles
  BY <1>2, <1>3 DEF Invitation
<1>6. early \subseteq early' /\ (i \in early' \/ invitation'[i].roles = RolesOf[i])
  BY <1>5 DEF SaveExpiry
<1>7. InvitationStep(i)
  BY <1>1, <1>2, <1>3, <1>4, <1>6, RowsExist DEF InvitationStep, Invitation
<1>8. NoNewRedeemer
  BY EndRequests DEF SaveExpiry, Commit
<1>9. \A j \in Invitations \ {i} : invitation'[j] = invitation[j]
  BY DEF SaveExpiry, Base, Shape
<1> QED
  BY <1>1, <1>6, <1>7, <1>8, <1>9, InvitationEffect DEF SaveExpiry

LEMMA RedeemBeginsEffect ==
  ASSUME Base, NEW p \in Procs, NEW stage \in Stages, NEW t \in Tokens, ~Settled(t),
         t \in Invitations => Exists(invitation[t]) /\ invitation[t].mailed,
         Redeem(p, stage, t)
  PROVE  Effect
BY RowsSame DEF RedeemBegins, Effect, Redeem

LEMMA StartRedeemEffect ==
  ASSUME Base, NEW p \in Procs,
         \/ \E i \in Invitations : StartAccept(p, i)
         \/ \E t \in Resets : StartReset(p, t)
         \/ \E v \in Verifications : StartVerify(p, v)
  PROVE  Effect
<1>1. {"getUser", "saveReset", "saveVerification"} \subseteq Stages
  BY DEF Stages, RedeemStages, AcceptStages
<1>2. ASSUME NEW i \in Invitations, StartAccept(p, i) PROVE Effect
  BY <1>1, <1>2, RedeemBeginsEffect DEF StartAccept, Pending, Settled, Tokens
<1>3. ASSUME NEW t \in Resets, StartReset(p, t) PROVE Effect
  BY <1>1, <1>3, RedeemBeginsEffect, Disjoint DEF StartReset, ValidReset, Settled, Tokens
<1>4. ASSUME NEW v \in Verifications, StartVerify(p, v) PROVE Effect
  BY <1>1, <1>4, RedeemBeginsEffect, Disjoint DEF StartVerify, Exists, Settled, Tokens
<1> QED
  BY <1>2, <1>3, <1>4

LEMMA GetUserEffect ==
  ASSUME Base, NEW p \in Procs, GetUser(p)
  PROVE  Effect
<1>1. request[p].at \in RedeemStages /\ request[p] # NoRequest
  BY DEF GetUser, At, RedeemStages, AcceptStages, NoRequest
<1>2. {"savePassword", "saveInvitation"} \subseteq Stages
  BY DEF Stages, RedeemStages, AcceptStages
<1> QED
  BY <1>1, <1>2, ProceedEffect, RollbackEffect DEF GetUser

LEMMA SaveEffect ==
  ASSUME Base, NEW p \in Procs, SavePassword(p) \/ SaveInvitation(p) \/ SaveVerification(p)
  PROVE  Effect
<1>1. request[p].at \in RedeemStages /\ request[p] # NoRequest
  BY DEF SavePassword, SaveInvitation, SaveVerification, At, RedeemStages, AcceptStages, NoRequest
<1>2. {"saveInvitation", "verifyEmails", "saveVerified"} \subseteq Stages
  BY DEF Stages, RedeemStages, AcceptStages
<1> QED
  BY <1>1, <1>2, ProceedEffect, RollbackEffect DEF SavePassword, SaveInvitation, SaveVerification

LEMMA FinishAcceptEffect ==
  ASSUME Base, NEW p \in Procs, FinishAccept(p)
  PROVE  Effect
<1> PICK i : i = Token(p)
  OBVIOUS
<1>1. /\ i \in Invitations /\ Exists(invitation[i]) /\ i \in Tokens
      /\ Redeems(p, i)
  BY DEF FinishAccept, At, InvitationStages, AcceptStages, RedeemStages, Base, RequestOK,
         Tokens, Redeems
<1>2. invitation[i] \in Invitation
  BY <1>1, RowTypes DEF Base
<1>3. /\ invitation'[i] = [invitation[i] EXCEPT !.status = "accepted", !.accepted = TRUE]
      /\ \A j \in Invitations \ {i} : invitation'[j] = invitation[j]
  BY <1>1 DEF FinishAccept, Base, Shape
<1>4. invitation'[i] \in Invitation /\ invitation'[i].status = "accepted"
  BY <1>2, <1>3 DEF Invitation, Statuses
<1>5. Settled(i)'
  BY <1>1, <1>4, RowsExist DEF Settled
<1>6. RedeemEnds
  BY <1>1, <1>5 DEF RedeemEnds, FinishAccept, Commit
<1>7. ASSUME NEW v \in Verifications, Settled(v) PROVE Settled(v)'
  <2>1. v \notin Invitations /\ v \notin Resets
    BY Disjoint
  <2>2. v \notin OpenVerifications(EmailAt(p))
    BY <1>7, <2>1 DEF Settled, OpenVerifications, Exists
  <2>3. verification'[v] = verification[v]
    BY <2>2 DEF FinishAccept
  <2> QED
    BY <1>7, <2>1, <2>3 DEF Settled
<1>8. ASSUME NEW t \in Resets, Settled(t) PROVE Settled(t)'
  BY <1>8, Disjoint DEF Settled, FinishAccept
<1>9. SettledStays
  BY <1>3, <1>5, <1>7, <1>8 DEF SettledStays, Tokens, Settled
<1> QED
  BY <1>6, <1>9 DEF Effect

LEMMA FinishResetEffect ==
  ASSUME Base, NEW p \in Procs, FinishReset(p)
  PROVE  Effect
<1> PICK t : t = Token(p)
  OBVIOUS
<1>1. t \in Resets /\ Exists(reset[t]) /\ t \in Tokens /\ Redeems(p, t)
  BY DEF FinishReset, At, RedeemStages, Base, RequestOK, Tokens, Redeems
<1>2. reset[t] \in Reset
  BY <1>1, RowTypes DEF Base
<1>3. /\ reset'[t] = [reset[t] EXCEPT !.used = TRUE]
      /\ \A s \in Resets \ {t} : reset'[s] = reset[s]
  BY <1>1 DEF FinishReset, Base, Shape
<1>4. reset'[t] \in Reset /\ reset'[t].used
  BY <1>2, <1>3 DEF Reset
<1>5. Settled(t)'
  BY <1>1, <1>4, RowsExist, Disjoint DEF Settled
<1>6. RedeemEnds
  BY <1>1, <1>5 DEF RedeemEnds, FinishReset, Commit
<1>7. SettledStays
  BY <1>3, <1>5, Disjoint DEF SettledStays, Settled, FinishReset
<1>8. QuietStep
  BY DEF QuietStep, UserStep, InvitationStep, FinishReset, Redeemed
<1> QED
  BY <1>6, <1>7, <1>8 DEF Effect

LEMMA FinishVerifyEffect ==
  ASSUME Base, NEW p \in Procs, FinishVerify(p)
  PROVE  Effect
<1> PICK v, e : v = Token(p) /\ e = verification[v].email
  OBVIOUS
<1>1. At(p, "saveVerified") /\ EmailAt(p) = e
  BY DEF FinishVerify, EmailAt, At, AcceptStages
<1>2. v \in Verifications /\ Exists(verification[v]) /\ v \in Tokens /\ Redeems(p, v)
  BY <1>1 DEF At, RedeemStages, Base, RequestOK, Tokens, Redeems
<1>3. verification[v] \in Verification /\ e \in Emails
  BY <1>2, RowTypes DEF Base, Verification
<1>4. user[e] \in User /\ Exists(user[e])
  BY <1>2, <1>3, RowTypes DEF Base, VerifiesUsers
<1>5. /\ verification'[v] = [verification[v] EXCEPT !.verified = TRUE]
      /\ \A w \in Verifications \ {v} : verification'[w] = verification[w]
  BY <1>2 DEF FinishVerify, Base, Shape
<1>6. verification'[v] \in Verification /\ verification'[v].verified
  BY <1>3, <1>5 DEF Verification
<1>7. Settled(v)'
  BY <1>2, <1>6, RowsExist, Disjoint DEF Settled
<1>8. RedeemEnds
  BY <1>2, <1>7 DEF RedeemEnds, FinishVerify, Commit
<1>9. SettledStays
  BY <1>5, <1>7, Disjoint DEF SettledStays, Settled, FinishVerify
<1>10. /\ user'[e] = [user[e] EXCEPT !.verified = TRUE]
       /\ \A f \in Emails \ {e} : user'[f] = user[f]
  <2>1. user' = [user EXCEPT ![e].verified = TRUE]
    BY <1>1 DEF FinishVerify
  <2> QED
    BY <1>3, <2>1 DEF Base, Shape
<1>11. /\ user'[e] \in User /\ user'[e].verified
       /\ user'[e].tenant = user[e].tenant /\ user'[e].roles = user[e].roles
  BY <1>4, <1>10 DEF User
<1>12. QuietStep
  BY <1>4, <1>10, <1>11, RowsExist DEF QuietStep, UserStep, InvitationStep, FinishVerify, Redeemed
<1> QED
  BY <1>8, <1>9, <1>12 DEF Effect

LEMMA NoRequestMoves ==
  ASSUME UNCHANGED <<request, history>>
  PROVE  NoNewRedeemer
BY DEF NoNewRedeemer, Redeems, Token, history

LEMMA OthersInvitationEffect ==
  ASSUME Base, NEW i \in Invitations, Revoke(i) \/ InvitationExpires(i)
  PROVE  Effect
<1>1. invitation[i] \in Invitation /\ Exists(invitation[i])
  BY RowTypes DEF Base, Revoke, InvitationExpires
<1>2. \/ invitation' = [invitation EXCEPT ![i] = [invitation[i] EXCEPT !.status = "revoked"]]
      \/ invitation' = [invitation EXCEPT ![i] = [invitation[i] EXCEPT !.late = TRUE]]
  BY DEF Revoke, InvitationExpires, Base, Shape
<1>3. \A j \in Invitations \ {i} : invitation'[j] = invitation[j]
  BY <1>2 DEF Base, Shape
<1>4. /\ invitation'[i] \in Invitation
      /\ invitation'[i].accepted = invitation[i].accepted
      /\ invitation'[i].status \in {invitation[i].status, "revoked"}
      /\ invitation'[i].roles = invitation[i].roles
      /\ invitation'[i].mailed = invitation[i].mailed
  <2>1. \/ invitation'[i] = [invitation[i] EXCEPT !.status = "revoked"]
        \/ invitation'[i] = [invitation[i] EXCEPT !.late = TRUE]
    BY <1>2 DEF Base, Shape
  <2> QED
    BY <1>1, <2>1 DEF Invitation, Statuses
<1>5. InvitationStep(i)
  BY <1>1, <1>4, RowsExist DEF InvitationStep
<1>6. /\ UNCHANGED <<user, reset, verification>> /\ early \subseteq early'
      /\ NoNewRedeemer
  BY NoRequestMoves DEF Revoke, InvitationExpires, history
<1> QED
  BY <1>3, <1>5, <1>6, InvitationEffect

LEMMA OthersResetEffect ==
  ASSUME Base, NEW t \in Resets, ResetExpires(t) \/ \E e \in Emails : CreateReset(t, e)
  PROVE  Effect
<1>1. /\ UNCHANGED <<user, invitation, verification, request, history>>
      /\ \A s \in Resets \ {t} : reset'[s] = reset[s]
  BY DEF ResetExpires, CreateReset, Base, Shape
<1>2. Settled(t) => Settled(t)'
  <2>1. ASSUME Settled(t) PROVE Settled(t)'
    <3>1. Exists(reset[t]) /\ reset[t].used /\ reset[t] \in Reset
      BY <2>1, Disjoint, RowTypes DEF Settled, Base
    <3>2. reset'[t] = [reset[t] EXCEPT !.late = TRUE]
      BY <3>1 DEF ResetExpires, CreateReset, Exists, Base, Shape
    <3>3. reset'[t] \in Reset /\ reset'[t].used
      BY <3>1, <3>2 DEF Reset
    <3> QED
      BY <3>3, Disjoint, RowsExist DEF Settled
  <2> QED
    BY <2>1
<1>3. SettledStays
  BY <1>1, <1>2, Disjoint DEF SettledStays, Settled
<1>4. QuietStep
  BY <1>1 DEF QuietStep, UserStep, InvitationStep, history
<1> QED
  BY <1>1, <1>3, <1>4, NoRequestMoves DEF Effect

LEMMA OthersVerificationEffect ==
  ASSUME Base, NEW v \in Verifications,
         VerificationExpires(v) \/ \E e \in Emails : CreateVerification(v, e)
  PROVE  Effect
<1>1. UNCHANGED <<user, invitation, reset, request, history>>
  BY DEF VerificationExpires, CreateVerification
<1>2. ASSUME NEW w \in Verifications, Settled(w) PROVE Settled(w)'
  <2>1. /\ w \notin Invitations /\ w \notin Resets
        /\ verification[w] = Deleted \/ (Exists(verification[w]) /\ verification[w].verified)
    BY <1>2, Disjoint DEF Settled
  <2>2. ASSUME NEW e \in Emails, CreateVerification(v, e) PROVE Settled(w)'
    <3>1. w \notin OpenVerifications(e) /\ w # v
      BY <2>1, <2>2, RowAssumption DEF OpenVerifications, CreateVerification, Exists
    <3>2. verification'[w] = verification[w]
      BY <2>2, <3>1 DEF CreateVerification
    <3> QED
      BY <2>1, <3>2 DEF Settled
  <2>3. CASE VerificationExpires(v)
    <3>1. CASE w = v
      <4>1. verification[w] \in Verification /\ verification[w].verified
        BY <2>1, <2>3, <3>1, RowTypes DEF VerificationExpires, Base, Exists
      <4>2. verification'[w] = [verification[w] EXCEPT !.late = TRUE]
        BY <2>3, <3>1 DEF VerificationExpires, Base, Shape
      <4>3. verification'[w] \in Verification /\ verification'[w].verified
        BY <4>1, <4>2 DEF Verification
      <4> QED
        BY <2>1, <4>3, RowsExist DEF Settled
    <3>2. CASE w # v
      <4>1. verification'[w] = verification[w]
        BY <2>3, <3>2 DEF VerificationExpires, Base, Shape
      <4> QED
        BY <2>1, <4>1 DEF Settled
    <3> QED
      BY <3>1, <3>2
  <2> QED
    BY <2>2, <2>3
<1>3. SettledStays
  BY <1>1, <1>2, Disjoint DEF SettledStays, Settled, Tokens
<1>4. QuietStep
  BY <1>1 DEF QuietStep, UserStep, InvitationStep, history
<1> QED
  BY <1>1, <1>3, <1>4, NoRequestMoves DEF Effect

LEMMA NextEffect == Base /\ [Next]_vars => Effect
<1> SUFFICES ASSUME Base, [Next]_vars PROVE Effect
  OBVIOUS
<1>1. CASE Others
  BY <1>1, OthersInvitationEffect, OthersResetEffect, OthersVerificationEffect DEF Others
<1>2. ASSUME NEW p \in Procs, Start(p) PROVE Effect
  BY <1>2, InviteEffect, BeginEffect, StartRedeemEffect DEF Start
<1>3. ASSUME NEW p \in Procs, Continue(p) PROVE Effect
  BY <1>3, SetRolesAndMailEffect, MarkExpiredEffect, SaveExpiryEffect, GetUserEffect, SaveEffect,
     FinishAcceptEffect, FinishResetEffect, FinishVerifyEffect, RollbackEffect
  DEF Continue, AbortDeadlocked
<1>4. CASE \E p \in Procs : Crash(p)
  BY <1>4, RollbackEffect DEF Crash
<1>5. CASE UNCHANGED vars
  BY <1>5, RowsSame, NoRequestMoves DEF vars, history, rows, Effect
<1> QED
  BY <1>1, <1>2, <1>3, <1>4, <1>5 DEF Next

LEMMA Redeemers ==
  ASSUME Base, Effect, NEW q \in Procs, NEW t \in Tokens, Redeems(q, t)'
  PROVE  \/ Redeems(q, t)
         \/ /\ ~Settled(t)
            /\ t \in Invitations => Exists(invitation[t]) /\ invitation[t].mailed
<1>1. CASE NoNewRedeemer
  BY <1>1 DEF NoNewRedeemer
<1>2. CASE RedeemBegins
  <2> PICK p \in Procs, stage \in Stages, s \in Tokens :
        /\ ~Settled(s)
        /\ s \in Invitations => Exists(invitation[s]) /\ invitation[s].mailed
        /\ Redeem(p, stage, s)
    BY <1>2 DEF RedeemBegins
  <2>1. request'[q] = IF q = p THEN [at |-> stage, token |-> s] ELSE request[q]
    BY DEF Redeem, Begin, Base, Shape
  <2> QED
    BY <2>1 DEF Redeems, Token
<1>3. CASE RedeemEnds
  <2> PICK p \in Procs : End(p)
    BY <1>3 DEF RedeemEnds
  <2>1. request'[q] = IF q = p THEN NoRequest ELSE request[q]
    BY DEF End, Base, Shape
  <2> QED
    BY <2>1 DEF Redeems, Token, NoRequest, RedeemStages, AcceptStages
<1> QED
  BY <1>1, <1>2, <1>3 DEF Effect

--------------------------------------------------------------------------------
(* A token is redeemed by one request at a time and then is settled, as    *)
(* long as no two requests found it valid at one time.                      *)
Once ==
  \A t \in Tokens : t \notin raced =>
    /\ uses[t] \in {0, 1}
    /\ \A p, q \in Procs : Redeems(p, t) /\ Redeems(q, t) => p = q
    /\ (\E p \in Procs : Redeems(p, t)) \/ ~Settled(t) => uses[t] = 0

LEMMA InitOnce == Init => Once
BY DEF Init, Once, Redeems, NoRequest, RedeemStages, AcceptStages

LEMMA OnceStays ==
  ASSUME Base, Effect, Once
  PROVE  Once'
<1> SUFFICES ASSUME NEW t \in Tokens, t \notin raced'
             PROVE  /\ uses'[t] \in {0, 1}
                    /\ \A p, q \in Procs : Redeems(p, t)' /\ Redeems(q, t)' => p = q
                    /\ (\E p \in Procs : Redeems(p, t)') \/ ~Settled(t)' => uses'[t] = 0
  BY DEF Once
<1>1. Settled(t) => Settled(t)'
  BY DEF Effect, SettledStays
<1>2. CASE NoNewRedeemer
  BY <1>1, <1>2 DEF NoNewRedeemer, Once
<1>3. CASE RedeemBegins
  <2> PICK p \in Procs, stage \in Stages, s \in Tokens : ~Settled(s) /\ Redeem(p, stage, s)
    BY <1>3 DEF RedeemBegins
  <2>1. /\ \A q \in Procs :
             request'[q] = IF q = p THEN [at |-> stage, token |-> s] ELSE request[q]
        /\ uses' = uses
        /\ t \notin raced
        /\ t = s => \A q \in Procs : ~Redeems(q, s)
    BY DEF Redeem, Begin, Base, Shape
  <2>2. CASE t = s
    <3>1. \A q \in Procs : Redeems(q, t)' => q = p
      BY <2>1, <2>2 DEF Redeems, Token
    <3> QED
      BY <2>1, <2>2, <3>1 DEF Once
  <2>3. CASE t # s
    <3>1. \A q \in Procs : Redeems(q, t)' => Redeems(q, t)
      BY <2>1, <2>3 DEF Redeems, Token
    <3> QED
      BY <1>1, <2>1, <3>1 DEF Once
  <2> QED
    BY <2>2, <2>3
<1>4. CASE RedeemEnds
  <2> PICK p \in Procs, s \in Tokens :
        Redeems(p, s) /\ Redeemed(p) /\ End(p) /\ Settled(s)'
    BY <1>4 DEF RedeemEnds
  <2>1. /\ \A q \in Procs : request'[q] = IF q = p THEN NoRequest ELSE request[q]
        /\ t \notin raced
        /\ uses' = [uses EXCEPT ![s] = uses[s] + 1]
    BY DEF End, Redeemed, Redeems, Base, Shape
  <2>2. \A q \in Procs : Redeems(q, t)' => Redeems(q, t) /\ q # p
    BY <2>1 DEF Redeems, Token, NoRequest, RedeemStages, AcceptStages
  <2>3. CASE t = s
    <3>1. uses[t] = 0
      BY <2>1, <2>3 DEF Once
    <3>2. uses'[t] = 1
      <4>1. uses'[t] = uses[t] + 1
        BY <2>1, <2>3 DEF Base, Shape
      <4> QED
        BY <3>1, <4>1
    <3>3. \A q \in Procs : ~Redeems(q, t)'
      BY <2>1, <2>2, <2>3 DEF Once
    <3> QED
      BY <2>3, <3>2, <3>3
  <2>4. CASE t # s
    <3>1. uses'[t] = uses[t]
      BY <2>1, <2>4 DEF Base, Shape
    <3> QED
      BY <1>1, <2>1, <2>2, <3>1 DEF Once
  <2> QED
    BY <2>3, <2>4
<1> QED
  BY <1>2, <1>3, <1>4 DEF Effect

(* A token is redeemed once unless two requests had read it while it was   *)
(* valid (tokens.py, accept_invitation, reset_password, verify_email).      *)
THEOREM RedeemedOnce == Spec => []SingleUse
<1>1. Init => Base /\ Once
  BY InitBase, InitOnce
<1>2. Base /\ Once /\ [Next]_vars => Base' /\ Once'
  BY NextBase, NextEffect, OnceStays
<1>3. Once => SingleUse
  BY DEF Once, SingleUse
<1> QED
  BY <1>1, <1>2, <1>3, PTL DEF Spec

--------------------------------------------------------------------------------
(* The roles of an invitation are the ones it was made with, all of them   *)
(* once it was mailed; only a mailed one is redeemed.                       *)
RolesSet ==
  /\ \A i \in Invitations : Exists(invitation[i]) =>
       /\ invitation[i].roles \subseteq RolesOf[i]
       /\ invitation[i].mailed => i \in early \/ invitation[i].roles = RolesOf[i]
  /\ \A p \in Procs, i \in Invitations :
       Redeems(p, i) => Exists(invitation[i]) /\ invitation[i].mailed

Complete == RolesSet /\ AcceptedIsComplete /\ RolesWereInvited

LEMMA InitComplete == Init => Complete
<1> SUFFICES ASSUME Init PROVE Complete
  OBVIOUS
<1>1. RolesSet
  BY DEF Init, RolesSet, Exists, Redeems, NoRequest, RedeemStages, AcceptStages
<1>2. AcceptedIsComplete
  BY DEF Init, AcceptedIsComplete, Accepted, Exists
<1>3. RolesWereInvited
  BY DEF Init, RolesWereInvited, Exists
<1> QED
  BY <1>1, <1>2, <1>3 DEF Complete

LEMMA QuietComplete ==
  ASSUME Base, Base', Effect, QuietStep, Complete
  PROVE  Complete'
<1>1. \A i \in Invitations : Accepted(i)' => Accepted(i)
  BY DEF QuietStep, InvitationStep, Accepted
<1>2. \A i \in Invitations : Accepted(i) => Accepted(i)'
  BY DEF QuietStep, InvitationStep, Accepted
<1>3. RolesSet'
  <2>1. ASSUME NEW i \in Invitations, Exists(invitation'[i])
        PROVE  /\ invitation'[i].roles \subseteq RolesOf[i]
               /\ invitation'[i].mailed => i \in early' \/ invitation'[i].roles = RolesOf[i]
    BY <2>1 DEF QuietStep, InvitationStep, Complete, RolesSet
  <2>2. ASSUME NEW p \in Procs, NEW i \in Invitations, Redeems(p, i)'
        PROVE  Exists(invitation'[i]) /\ invitation'[i].mailed
    <3>1. Exists(invitation[i]) /\ invitation[i].mailed
      BY <2>2, Redeemers DEF Complete, RolesSet, Tokens
    <3> QED
      BY <3>1 DEF QuietStep, InvitationStep
  <2> QED
    BY <2>1, <2>2 DEF RolesSet
<1>4. AcceptedIsComplete'
  BY <1>1, AccountsAssumption
  DEF QuietStep, UserStep, Complete, AcceptedIsComplete
<1>5. RolesWereInvited'
  BY <1>2 DEF QuietStep, UserStep, Complete, RolesWereInvited
<1> QED
  BY <1>3, <1>4, <1>5 DEF Complete

LEMMA AcceptComplete ==
  ASSUME Base, Base', Effect, NEW p \in Procs, FinishAccept(p), Complete
  PROVE  Complete'
<1> PICK i, e : i = Token(p) /\ e = EmailOf[i]
  OBVIOUS
<1>1. At(p, "verifyEmails") /\ EmailAt(p) = e
  BY DEF FinishAccept, EmailAt, At, AcceptStages
<1>2. /\ i \in Invitations /\ e \in Emails /\ Exists(invitation[i]) /\ Redeems(p, i)
      /\ Exists(user[e]) => user[e].tenant = TenantOf[i]
  BY <1>1, AccountsAssumption
  DEF At, InvitationStages, AcceptStages, RedeemStages, Base, RequestOK, Redeems
<1>3. invitation[i] \in Invitation
  BY <1>2, RowTypes DEF Base
<1>4. /\ invitation[i].mailed
      /\ invitation[i].roles \subseteq RolesOf[i]
      /\ i \in early \/ invitation[i].roles = RolesOf[i]
  BY <1>2 DEF Complete, RolesSet
<1>5. /\ invitation'[i] = [invitation[i] EXCEPT !.status = "accepted", !.accepted = TRUE]
      /\ \A j \in Invitations \ {i} : invitation'[j] = invitation[j]
      /\ early' = early
  BY <1>2 DEF FinishAccept, Redeemed, Base, Shape
<1>6. /\ invitation'[i] \in Invitation
      /\ invitation'[i].accepted /\ invitation'[i].mailed
      /\ invitation'[i].roles = invitation[i].roles
  BY <1>3, <1>4, <1>5 DEF Invitation, Statuses
<1>7. /\ Exists(invitation'[i])
      /\ \A j \in Invitations : Accepted(j)' <=> Accepted(j) \/ j = i
  BY <1>2, <1>5, <1>6, RowsExist DEF Accepted
<1>8. RolesSet'
  <2>1. ASSUME NEW j \in Invitations, Exists(invitation'[j])
        PROVE  /\ invitation'[j].roles \subseteq RolesOf[j]
               /\ invitation'[j].mailed => j \in early' \/ invitation'[j].roles = RolesOf[j]
    BY <1>4, <1>5, <1>6, <2>1 DEF Complete, RolesSet
  <2>2. ASSUME NEW q \in Procs, NEW j \in Invitations, Redeems(q, j)'
        PROVE  Exists(invitation'[j]) /\ invitation'[j].mailed
    <3>1. Exists(invitation[j]) /\ invitation[j].mailed
      BY <2>2, Redeemers DEF Complete, RolesSet, Tokens
    <3> QED
      BY <1>5, <1>6, <1>7, <3>1
  <2> QED
    BY <2>1, <2>2 DEF RolesSet
<1>9. /\ Exists(user'[e]) /\ user'[e].tenant = TenantOf[i] /\ user'[e].verified
      /\ user'[e].roles = (IF Exists(user[e]) THEN user[e].roles ELSE {}) \cup invitation[i].roles
      /\ \A f \in Emails \ {e} : user'[f] = user[f]
  <2> DEFINE new == [tenant |-> IF Exists(user[e]) THEN user[e].tenant ELSE TenantOf[i],
                     verified |-> TRUE, roles |-> WithRoles(e, invitation[i].roles)]
  <2>1. user' = [user EXCEPT ![e] = new]
    BY <1>1 DEF FinishAccept
  <2>2. user'[e] = new /\ \A f \in Emails \ {e} : user'[f] = user[f]
    BY <1>2, <2>1 DEF Base, Shape
  <2>3. new \in User
    <3>1. Exists(user[e]) => user[e] \in User
      BY <1>2, RowTypes DEF Base
    <3>2. TenantOf[i] \in Tenants /\ invitation[i].roles \subseteq Roles
      BY <1>2, <1>3, AccountsAssumption DEF Invitation
    <3> QED
      BY <3>1, <3>2 DEF User, WithRoles
  <2> QED
    BY <1>2, <2>2, <2>3, RowsExist DEF WithRoles
<1>10. AcceptedIsComplete'
  <2> SUFFICES ASSUME NEW j \in Invitations, Accepted(j)'
               PROVE  /\ Exists(user'[EmailOf[j]]) /\ user'[EmailOf[j]].tenant = TenantOf[j]
                      /\ user'[EmailOf[j]].verified
                      /\ j \notin early' => RolesOf[j] \subseteq user'[EmailOf[j]].roles
    BY DEF AcceptedIsComplete
  <2>1. CASE j = i
    BY <1>4, <1>5, <1>9, <2>1
  <2>2. CASE j # i
    <3>1. /\ EmailOf[j] \in Emails
          /\ Exists(user[EmailOf[j]]) /\ user[EmailOf[j]].tenant = TenantOf[j]
          /\ user[EmailOf[j]].verified
          /\ j \notin early => RolesOf[j] \subseteq user[EmailOf[j]].roles
      BY <1>7, <2>2, AccountsAssumption DEF Complete, AcceptedIsComplete
    <3>2. CASE EmailOf[j] = e
      BY <1>2, <1>5, <1>9, <3>1, <3>2
    <3>3. CASE EmailOf[j] # e
      BY <1>5, <1>9, <3>1, <3>3
    <3> QED
      BY <3>2, <3>3
  <2> QED
    BY <2>1, <2>2
<1>11. RolesWereInvited'
  <2> SUFFICES ASSUME NEW f \in Emails, Exists(user'[f]), NEW role \in user'[f].roles
               PROVE  \E j \in Invitations :
                        /\ Accepted(j)'
                        /\ EmailOf[j] = f /\ TenantOf[j] = user'[f].tenant
                        /\ role \in RolesOf[j]
    BY DEF RolesWereInvited
  <2>1. CASE f = e /\ role \in invitation[i].roles
    BY <1>2, <1>4, <1>7, <1>9, <2>1
  <2>2. CASE ~(f = e /\ role \in invitation[i].roles)
    <3>1. Exists(user[f]) /\ role \in user[f].roles /\ user'[f].tenant = user[f].tenant
      BY <1>2, <1>9, <2>2
    <3> QED
      BY <1>7, <3>1 DEF Complete, RolesWereInvited
  <2> QED
    BY <2>1, <2>2
<1> QED
  BY <1>8, <1>10, <1>11 DEF Complete

LEMMA CompleteInvariant == Spec => [](Base /\ Complete)
<1>1. Init => Base /\ Complete
  BY InitBase, InitComplete
<1>2. Base /\ Complete /\ [Next]_vars => Base' /\ Complete'
  BY NextBase, NextEffect, QuietComplete, AcceptComplete DEF Effect
<1> QED
  BY <1>1, <1>2, PTL DEF Spec

(* The user of an accepted invitation is of its tenant, verified, and has  *)
(* its roles unless it was resent too early (accept_invitation,             *)
(* create_invitation).                                                      *)
THEOREM AcceptanceIsComplete == Spec => []AcceptedIsComplete
BY CompleteInvariant, PTL DEF Complete

(* Roles come only from accepted invitations of the user's own tenant      *)
(* (accept_invitation).                                                     *)
THEOREM OnlyInvitedRoles == Spec => []RolesWereInvited
BY CompleteInvariant, PTL DEF Complete

--------------------------------------------------------------------------------
(* A refused invitation that no request is redeeming stays so. *)
Dead(i) == Refused(i) /\ \A q \in Procs : ~Redeems(q, i)

LEMMA DeadStays ==
  ASSUME Base, Effect, NEW i \in Invitations, Dead(i)
  PROVE  Dead(i)'
<1>1. Settled(i) /\ Exists(invitation[i]) /\ ~invitation[i].accepted /\ i \in Tokens
  BY DEF Dead, Refused, Settled, Tokens
<1>2. \A q \in Procs : ~Redeems(q, i)'
  BY <1>1, Redeemers DEF Dead
<1>3. CASE QuietStep
  BY <1>1, <1>2, <1>3 DEF QuietStep, InvitationStep, Dead, Refused
<1>4. ASSUME NEW p \in Procs, FinishAccept(p) PROVE Refused(i)'
  <2>1. Token(p) # i
    BY <1>4 DEF FinishAccept, At, Dead, Redeems, RedeemStages, AcceptStages
  <2>2. invitation'[i] = invitation[i]
    BY <1>4, <2>1 DEF FinishAccept, Base, Shape
  <2> QED
    BY <2>2 DEF Dead, Refused
<1> QED
  BY <1>2, <1>3, <1>4 DEF Effect, Dead

(* Nobody gets an account from an invitation that was revoked or expired   *)
(* when no request was at it (get_valid_invitation, revoke_invitation).     *)
THEOREM RefusalIsFinal == Spec => RefusedGivesNothing
<1>1. ASSUME NEW i \in Invitations
      PROVE  Spec => [](Refused(i) /\ ~UnderWay(i) => []~Accepted(i))
  <2>1. Base /\ Refused(i) /\ ~UnderWay(i) => Dead(i)
    BY RequestType DEF Base, Dead, UnderWay, Redeems, RedeemStages, AcceptStages
  <2>2. Dead(i) => ~Accepted(i)
    BY DEF Dead, Refused, Accepted
  <2>3. Base /\ Dead(i) /\ [Next]_vars => Dead(i)'
    BY NextEffect, DeadStays
  <2> QED
    BY <2>1, <2>2, <2>3, InitBase, NextBase, PTL DEF Spec
<1> QED
  BY <1>1 DEF RefusedGivesNothing
================================================================================
