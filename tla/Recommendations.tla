---------------------------- MODULE Recommendations ----------------------------
(***************************************************************************)
(* The recommendation table of StockAdvice and everything that writes it:  *)
(* creation by the generator, the decisions of ApprovalService (single and *)
(* bulk), transition_recommendation, recalculate_recommendation and the    *)
(* escalation service.                                                     *)
(*                                                                         *)
(* A caller works on an instance it loaded earlier.  A decision re-reads   *)
(* the row under SELECT ... FOR UPDATE; recalculation and escalation write *)
(* every column of the loaded instance back (Model.save()).  `held' is     *)
(* what each caller has in memory, `recs' is what the database has.        *)
(***************************************************************************)
EXTENDS Naturals, FiniteSets

CONSTANTS
  Branches,     \* branches of the tenant
  NumParts,     \* active parts are 1 .. NumParts, in the order_by("id") order
  Dates,        \* run dates
  RecIds,       \* primary keys; their number bounds how many rows are created
  Users,        \* callers: each user has one request or task at a time
  Gerentes,     \* the users with the gerente role
  Scope,        \* Scope[u]: branches in the coordinator scope of user u
  Manager,      \* Manager[b]: the manager of branch b
  Coordinator,  \* Coordinator[b]: the coordinator of branch b, or NoUser
  Supplier,     \* "external_supplier": no source branch
  NoUser,       \* a null user column
  NoRec         \* no row, or no instance

ASSUME PartsAssumption == NumParts \in Nat
ASSUME NullAssumption ==
  /\ NoUser \notin Users
  /\ Supplier \notin Branches

Parts == 1 .. NumParts

States == {"pending", "approved", "rejected", "handled", "ordered"}
Levels == {"none", "coordinator", "gerente"}

(* One row, reduced to the columns that the control depends on. *)
Recommendation ==
  [branch : Branches, part : Parts, runDate : Dates, state : States,
   source : Branches \cup {Supplier}, level : Levels,
   escalatedBy : Users \cup {NoUser}, decidedBy : Users \cup {NoUser}]

ASSUME NoRecAssumption == NoRec \notin Recommendation /\ NoRec \notin RecIds

VARIABLES
  recs,    \* recs[r]: the row stored under primary key r, or NoRec
  issued,  \* primary keys ever given out: a deleted key is not reused
  held,    \* held[u][r]: the instance of r that caller u loaded, or NoRec
  step,    \* where caller u is in a handler of several transactions
  target,  \* the recommendation that handler works on
  audit    \* AuditLog rows about recommendations

vars == <<recs, issued, held, step, target, audit>>

--------------------------------------------------------------------------------
(* Helpers of the models and of the permission module. *)

Stored(r) == recs[r] # NoRec

SameSlot(x, y) == x.branch = y.branch /\ x.part = y.part

(* mutant of ValidTransitions: ordering needs no approval. *)
ValidTransitionsSkippingApproval ==
  {<<"pending", "approved">>, <<"pending", "rejected">>, <<"pending", "handled">>,
   <<"approved", "ordered">>, <<"approved", "handled">>,
   <<"rejected", "pending">>, <<"handled", "pending">>, <<"pending", "ordered">>}

(* Recommendation.can_transition_to, as the set of allowed pairs. *)
ValidTransitions ==
  {<<"pending", "approved">>, <<"pending", "rejected">>, <<"pending", "handled">>,
   <<"approved", "ordered">>, <<"approved", "handled">>,
   <<"rejected", "pending">>, <<"handled", "pending">>}

(* mutant of IndexAllows: the table has no partial unique index. *)
IndexAbsent(r, row) == TRUE

(* unique_pending_recommendation_per_part: would the partial unique index   *)
(* accept `row' stored under r?                                             *)
IndexAllows(r, row) ==
  row.state = "pending" =>
    \A q \in RecIds \ {r} :
      Stored(q) /\ SameSlot(recs[q], row) => recs[q].state # "pending"

PendingAt(b, p) ==
  \E r \in RecIds : /\ Stored(r)
                    /\ recs[r].branch = b
                    /\ recs[r].part = p
                    /\ recs[r].state = "pending"

(* Only the primary source branch is looked at. *)
IsCrossCoordinator(rec) ==
  /\ rec.source # Supplier
  /\ Coordinator[rec.branch] # NoUser
  /\ Coordinator[rec.source] # NoUser
  /\ Coordinator[rec.branch] # Coordinator[rec.source]

(* mutant of CanApprove: the cross-coordinator rule is forgotten. *)
CanApproveAnySource(u, rec) ==
  u \in Gerentes \/ rec.branch \in Scope[u] \/ Manager[rec.branch] = u

CanApprove(u, rec) ==
  \/ u \in Gerentes
  \/ /\ ~IsCrossCoordinator(rec)
     /\ rec.branch \in Scope[u] \/ Manager[rec.branch] = u

(* What resolve_sources may pick as primary source of a recommendation. *)
SourcesFor(b) == (Branches \ {b}) \cup {Supplier}

(* The state each ApprovalService action leads to. *)
ActionState == [approve |-> "approved", reject |-> "rejected",
                handle |-> "handled", mark_ordered |-> "ordered"]
ApprovalActions == DOMAIN ActionState
BulkActions == {"approve", "reject", "handle"}

Entry(r, action, user, before, after) ==
  [rec |-> r, action |-> action, user |-> user, before |-> before, after |-> after]

AuditRow ==
  [rec : RecIds, action : ApprovalActions \cup {"escalate", "cross_coordinator_notified"},
   user : Users \cup {NoUser}, before : States \cup Levels, after : States \cup Levels]

Idle(u) == step[u] = "idle"

--------------------------------------------------------------------------------
Init ==
  /\ recs = [r \in RecIds |-> NoRec]
  /\ issued = {}
  /\ held = [u \in Users |-> [r \in RecIds |-> NoRec]]
  /\ step = [u \in Users |-> "idle"]
  /\ target = [u \in Users |-> NoRec]
  /\ audit = {}

(* A row as the generator stores it; check_and_escalate raises a row above *)
(* the thresholds to coordinator level at once.                            *)
NewRow(b, p, d, src, exceeded) ==
  [branch |-> b, part |-> p, runDate |-> d, state |-> "pending", source |-> src,
   level |-> IF exceeded THEN "coordinator" ELSE "none",
   escalatedBy |-> NoUser, decidedBy |-> NoUser]

(* RecommendationGenerator._create_recommendation, one transaction: the     *)
(* pending check, the insert, resolve_sources and check_and_escalate.  When *)
(* a pending row exists the code raises and nothing is stored.              *)
CreateRecommendation(b, p, d) ==
  /\ ~PendingAt(b, p)
  /\ \E r \in RecIds \ issued, src \in SourcesFor(b), exceeded \in BOOLEAN :
       /\ issued' = issued \cup {r}
       /\ recs' = [recs EXCEPT ![r] = NewRow(b, p, d, src, exceeded)]
       /\ audit' = IF exceeded
                   THEN audit \cup {Entry(r, "escalate", NoUser, "none", "coordinator")}
                   ELSE audit
  /\ UNCHANGED <<held, step, target>>

(* A queryset is evaluated: the caller holds a snapshot of some rows. *)
Load(u, S) ==
  /\ Idle(u)
  /\ S # {} /\ \A r \in S : Stored(r)
  /\ held' = [held EXCEPT ![u] = [r \in RecIds |-> IF r \in S THEN recs[r] ELSE NoRec]]
  /\ UNCHANGED <<recs, issued, step, target, audit>>

(* mutant of MayTransition: the row is locked but its state not looked at. *)
MayTransitionUnchecked(r, new) == Stored(r)

(* transition_recommendation + transition_to on the locked row. *)
MayTransition(r, new) ==
  Stored(r) /\ <<recs[r].state, new>> \in ValidTransitions

Decided(r, new, u) == [recs[r] EXCEPT !.state = new, !.decidedBy = u]

(* mutant of TransitionAndLog: after_state is taken from the held instance. *)
TransitionLoggedStale(u, r, action) ==
  /\ held[u][r] # NoRec
  /\ CanApprove(u, held[u][r])
  /\ MayTransition(r, ActionState[action])
  /\ recs' = [recs EXCEPT ![r] = Decided(r, ActionState[action], u)]
  /\ audit' = audit \cup {Entry(r, action, u, held[u][r].state, held[u][r].state)}
  /\ UNCHANGED <<issued, held>>

(* ApprovalService._transition_and_log: permission on the held instance,   *)
(* transition on the locked row, before_state from the held instance.      *)
(* The cross-coordinator test that approve_recommendation adds rejects     *)
(* nobody that CanApprove accepts.                                         *)
TransitionAndLog(u, r, action) ==
  /\ held[u][r] # NoRec
  /\ CanApprove(u, held[u][r])
  /\ MayTransition(r, ActionState[action])
  /\ recs' = [recs EXCEPT ![r] = Decided(r, ActionState[action], u)]
  /\ audit' = audit \cup
                {Entry(r, action, u, held[u][r].state, ActionState[action])}
  /\ UNCHANGED <<issued, held>>

DecideOne(u, r, action) ==
  /\ Idle(u)
  /\ TransitionAndLog(u, r, action)
  /\ UNCHANGED <<step, target>>

(* approve_cross_coordinator_transfer: the approval commits first, the     *)
(* "cross_coordinator_notified" entry is a statement of its own.           *)
ApproveCrossTransfer(u, r) ==
  /\ Idle(u)
  /\ u \in Gerentes
  /\ TransitionAndLog(u, r, "approve")
  /\ step' = [step EXCEPT ![u] = "notify"]
  /\ target' = [target EXCEPT ![u] = r]

CrossTransferNotified(u) ==
  /\ step[u] = "notify"
  /\ audit' = audit \cup {Entry(target[u], "cross_coordinator_notified", u,
                                "approved", "approved")}
  /\ step' = [step EXCEPT ![u] = "idle"]
  /\ target' = [target EXCEPT ![u] = NoRec]
  /\ UNCHANGED <<recs, issued, held>>

(* _bulk_transition picks by the held state and skips what is not permitted. *)
BulkSelection(u) ==
  {r \in RecIds : /\ held[u][r] # NoRec
                  /\ held[u][r].state = "pending"
                  /\ CanApprove(u, held[u][r])}

(* approve_bulk, reject_bulk, handle_bulk: one transaction.  A row that    *)
(* cannot make the transition raises and rolls the whole batch back.       *)
DecideBulk(u, action) ==
  LET S == BulkSelection(u)
      new == ActionState[action]
  IN /\ Idle(u)
     /\ S # {}
     /\ \A r \in S : MayTransition(r, new)
     /\ recs' = [r \in RecIds |-> IF r \in S THEN Decided(r, new, u) ELSE recs[r]]
     /\ audit' = audit \cup {Entry(r, action, u, held[u][r].state, new) : r \in S}
     /\ UNCHANGED <<issued, held, step, target>>

(* transition_recommendation(rec, PENDING, user) called directly: the only *)
(* way back to pending; no permission check and no audit entry.            *)
Reopen(u, r) ==
  /\ Idle(u)
  /\ MayTransition(r, "pending")
  /\ IndexAllows(r, Decided(r, "pending", u))
  /\ recs' = [recs EXCEPT ![r] = Decided(r, "pending", u)]
  /\ UNCHANGED <<issued, held, step, target, audit>>

--------------------------------------------------------------------------------
(* Writers that save the loaded instance as a whole.  On a row that was    *)
(* deleted meanwhile Model.save() inserts it again under the same key.     *)

SaveHeld(u, r, row) ==
  /\ IndexAllows(r, row)
  /\ recs' = [recs EXCEPT ![r] = row]
  /\ held' = [held EXCEPT ![u][r] = row]

(* mutant of HeldPending: any instance may be recalculated. *)
HeldAnyState(u, r) == held[u][r] # NoRec

HeldPending(u, r) == held[u][r] # NoRec /\ held[u][r].state = "pending"

(* recalculate_recommendation, the part is no longer triggered: delete(). *)
RecalculateDelete(u, r) ==
  /\ Idle(u)
  /\ HeldPending(u, r)
  /\ recs' = [recs EXCEPT ![r] = NoRec]
  /\ held' = [held EXCEPT ![u][r] = NoRec]
  /\ UNCHANGED <<issued, step, target, audit>>

(* ... still triggered: the fresh figures are saved, then resolve_sources  *)
(* and check_and_escalate save again, each in a transaction of its own.    *)
RecalculateSave(u, r) ==
  /\ Idle(u)
  /\ HeldPending(u, r)
  /\ SaveHeld(u, r, held[u][r])
  /\ step' = [step EXCEPT ![u] = "resolve"]
  /\ target' = [target EXCEPT ![u] = r]
  /\ UNCHANGED <<issued, audit>>

RecalculateResolve(u) ==
  /\ step[u] = "resolve"
  /\ LET r == target[u] IN
       \E src \in SourcesFor(held[u][r].branch) :
         SaveHeld(u, r, [held[u][r] EXCEPT !.source = src])
  /\ step' = [step EXCEPT ![u] = "escalate"]
  /\ UNCHANGED <<issued, target, audit>>

(* _escalate_to_level: save, then an audit entry naming escalated_by. *)
EscalateToLevel(u, r, row, level) ==
  /\ SaveHeld(u, r, [row EXCEPT !.level = level])
  /\ audit' = audit \cup {Entry(r, "escalate", row.escalatedBy, row.level, level)}

NextLevel(level) == IF level = "none" THEN "coordinator" ELSE "gerente"

RecalculateEscalate(u) ==
  LET r == target[u] IN
  /\ step[u] = "escalate"
  /\ \/ /\ held[u][r].level # "gerente"
        /\ EscalateToLevel(u, r, held[u][r], NextLevel(held[u][r].level))
     \/ UNCHANGED <<recs, held, audit>>     \* below the thresholds, or at the top
  /\ step' = [step EXCEPT ![u] = "idle"]
  /\ target' = [target EXCEPT ![u] = NoRec]
  /\ UNCHANGED issued

(* escalate_to_coordinator, escalate_to_gerente: manual, any held state. *)
EscalateManually(u, r, level) ==
  /\ Idle(u)
  /\ held[u][r] # NoRec
  /\ EscalateToLevel(u, r, [held[u][r] EXCEPT !.escalatedBy = u], level)
  /\ UNCHANGED <<issued, step, target>>

(* mutant of Abandon: the instance is dropped, the handler goes on. *)
AbandonHalfway(u) ==
  /\ ~Idle(u)
  /\ held' = [held EXCEPT ![u] = [r \in RecIds |-> NoRec]]
  /\ UNCHANGED <<recs, issued, step, target, audit>>

(* The handler dies between two of its transactions: the process is lost,  *)
(* or the index refuses a save and the exception leaves the handler.       *)
Abandon(u) ==
  /\ ~Idle(u)
  /\ held' = [held EXCEPT ![u] = [r \in RecIds |-> NoRec]]
  /\ step' = [step EXCEPT ![u] = "idle"]
  /\ target' = [target EXCEPT ![u] = NoRec]
  /\ UNCHANGED <<recs, issued, audit>>

--------------------------------------------------------------------------------
Decisions(u) ==
  \/ \E S \in SUBSET RecIds : Load(u, S)
  \/ \E r \in RecIds, action \in ApprovalActions : DecideOne(u, r, action)
  \/ \E r \in RecIds : ApproveCrossTransfer(u, r)
  \/ CrossTransferNotified(u)
  \/ \E action \in BulkActions : DecideBulk(u, action)
  \/ \E r \in RecIds : Reopen(u, r)
  \/ Abandon(u)

WholeRowWrites(u) ==
  \/ \E r \in RecIds : RecalculateDelete(u, r) \/ RecalculateSave(u, r)
  \/ RecalculateResolve(u)
  \/ RecalculateEscalate(u)
  \/ \E r \in RecIds, level \in {"coordinator", "gerente"} : EscalateManually(u, r, level)

Create == \E b \in Branches, p \in Parts, d \in Dates : CreateRecommendation(b, p, d)

(* Everything that holds the row lock while it decides. *)
DecisionNext == Create \/ \E u \in Users : Decisions(u)

Next == DecisionNext \/ \E u \in Users : WholeRowWrites(u)

DecisionSpec == Init /\ [][DecisionNext]_vars
Spec == Init /\ [][Next]_vars

--------------------------------------------------------------------------------
Instances == Recommendation \cup {NoRec}

(* The types of the variables; a caller in the middle of a recalculation   *)
(* holds the instance it works on.                                         *)
TypeOK ==
  /\ recs \in [RecIds -> Instances]
  /\ issued \in SUBSET RecIds
  /\ held \in [Users -> [RecIds -> Instances]]
  /\ step \in [Users -> {"idle", "notify", "resolve", "escalate"}]
  /\ target \in [Users -> RecIds \cup {NoRec}]
  /\ audit \in SUBSET AuditRow
  /\ \A u \in Users : ~Idle(u) => target[u] \in RecIds
  /\ \A u \in Users : step[u] \in {"resolve", "escalate"} => held[u][target[u]] # NoRec

(* At most one pending recommendation per branch and part, whatever stale  *)
(* instance is written back (the docstring of RecommendationGenerator).    *)
UniquePending ==
  \A r, q \in RecIds :
    /\ Stored(r) /\ Stored(q)
    /\ recs[r].state = "pending" /\ recs[q].state = "pending"
    /\ SameSlot(recs[r], recs[q])
    => r = q

(* A decided row always has the audit entry of the decision it shows, by   *)
(* the user it shows (REQ-AW-006), even when a stale instance of it was    *)
(* written back or a deleted row came back.                                *)
DecisionAudited ==
  \A r \in RecIds :
    Stored(r) /\ recs[r].state # "pending" =>
      \E e \in audit : /\ e.rec = r
                       /\ e.after = recs[r].state
                       /\ e.user = recs[r].decidedBy

(* Nothing is ordered that nobody approved: the audit log of an ordered    *)
(* recommendation holds an approval.                                       *)
OrderedWasApproved ==
  \A r \in RecIds :
    Stored(r) /\ recs[r].state = "ordered" =>
      \E e \in audit : e.rec = r /\ e.action = "approve"

(* REQ-AW-004: a cross-coordinator transfer that shows as approved was      *)
(* approved by a gerente.                                                  *)
CrossApprovedByGerente ==
  \A r \in RecIds :
    /\ Stored(r)
    /\ recs[r].state = "approved"
    /\ IsCrossCoordinator(recs[r])
    => recs[r].decidedBy \in Gerentes

(* An ordered row changes its state, or goes away. *)
OrderLost(r) ==
  /\ Stored(r) /\ recs[r].state = "ordered"
  /\ recs'[r] = NoRec \/ recs'[r].state # "ordered"

HeldStale(r) == \E u \in Users : held[u][r] # NoRec /\ held[u][r].state # "ordered"

(* What an order can be lost to: somebody writes over the row, or deletes   *)
(* it, with an instance that was loaded before the order.  No decision, no  *)
(* recalculation of what is seen to be ordered, no bulk batch and no        *)
(* reopening does it.                                                       *)
OrderedLostOnlyToStale ==
  [][\A r \in RecIds : OrderLost(r) => HeldStale(r)]_vars

(* "Ordered recommendations are terminal and cannot be changed"            *)
(* (transitions.py): an ordered row keeps its state and is not deleted.    *)
OrderedIsFinal ==
  [][\A r \in RecIds :
       Stored(r) /\ recs[r].state = "ordered" =>
         recs'[r] # NoRec /\ recs'[r].state = "ordered"]_vars
================================================================================
