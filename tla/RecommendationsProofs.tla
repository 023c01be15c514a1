------------------------- MODULE RecommendationsProofs -------------------------
(***************************************************************************)
(* Proofs about Recommendations and ReplenishmentRun, for any number of    *)
(* branches, parts, rows, callers, processes, dates and redeliveries.      *)
(* First the table: its type, one pending row per branch and part, the     *)
(* audit history of decided and ordered rows, the refinement of the alert  *)
(* board.  Then the scheduled runs: their steps are creations and          *)
(* decisions of the table, a recorded run is complete, and no run gives a  *)
(* part two recommendations.                                               *)
(***************************************************************************)
EXTENDS ReplenishmentRun, RecommendationsRefinement, TLAPS

(* What the actions of ApprovalService lead to is never "pending". *)
LEMMA ActionStateType ==
  ASSUME NEW action \in ApprovalActions
  PROVE  /\ ActionState[action] \in States \ {"pending"}
         /\ ActionState[action] \in {"approved", "ordered"} =>
              action \in {"approve", "mark_ordered"}
         /\ ActionState[action] = "approved" => action = "approve"
BY DEF ApprovalActions, ActionState, States

LEMMA BulkAreApprovalActions == BulkActions \subseteq ApprovalActions
BY DEF BulkActions, ApprovalActions, ActionState

LEMMA StoredType ==
  ASSUME TypeOK, NEW r \in RecIds, Stored(r)
  PROVE  recs[r] \in Recommendation
BY DEF TypeOK, Instances, Stored

LEMMA HeldType ==
  ASSUME TypeOK, NEW u \in Users, NEW r \in RecIds, held[u][r] # NoRec
  PROVE  held[u][r] \in Recommendation
BY DEF TypeOK, Instances

LEMMA DecidedType ==
  ASSUME TypeOK, NEW r \in RecIds, Stored(r), NEW u \in Users, NEW new \in States
  PROVE  /\ Decided(r, new, u) \in Recommendation
         /\ Decided(r, new, u) # NoRec
         /\ Decided(r, new, u).state = new
         /\ Decided(r, new, u).decidedBy = u
         /\ Decided(r, new, u).source = recs[r].source
         /\ SameSlot(Decided(r, new, u), recs[r])
BY StoredType, NoRecAssumption DEF Decided, Recommendation, SameSlot

LEMMA NewRowType ==
  ASSUME NEW b \in Branches, NEW p \in Parts, NEW d \in Dates,
         NEW src \in SourcesFor(b), NEW exceeded \in BOOLEAN
  PROVE  /\ NewRow(b, p, d, src, exceeded) \in Recommendation
         /\ NewRow(b, p, d, src, exceeded) # NoRec
         /\ NewRow(b, p, d, src, exceeded).branch = b
         /\ NewRow(b, p, d, src, exceeded).part = p
         /\ NewRow(b, p, d, src, exceeded).runDate = d
         /\ NewRow(b, p, d, src, exceeded).state = "pending"
BY NoRecAssumption DEF NewRow, Recommendation, SourcesFor, States, Levels

(* Entries have the type of an AuditLog row. *)
LEMMA EntryType ==
  ASSUME NEW r \in RecIds,
         NEW action \in ApprovalActions \cup {"escalate", "cross_coordinator_notified"},
         NEW user \in Users \cup {NoUser},
         NEW before \in States \cup Levels, NEW after \in States \cup Levels
  PROVE  /\ Entry(r, action, user, before, after) \in AuditRow
         /\ Entry(r, action, user, before, after).rec = r
         /\ Entry(r, action, user, before, after).action = action
         /\ Entry(r, action, user, before, after).user = user
         /\ Entry(r, action, user, before, after).after = after
BY DEF Entry, AuditRow

(* Saving a whole instance keeps the table and the caller's memory typed. *)
LEMMA SaveHeldType ==
  ASSUME TypeOK, NEW u \in Users, NEW r \in RecIds, NEW row \in Recommendation,
         SaveHeld(u, r, row)
  PROVE  /\ recs' \in [RecIds -> Instances]
         /\ held' \in [Users -> [RecIds -> Instances]]
         /\ held'[u][r] = row /\ row # NoRec
         /\ \A v \in Users : v # u => held'[v] = held[v]
         /\ \A q \in RecIds : q # r => held'[u][q] = held[u][q]
BY NoRecAssumption DEF TypeOK, SaveHeld, Instances

--------------------------------------------------------------------------------
(* Type correctness, one step per action. *)

LEMMA CreateType ==
  ASSUME TypeOK, NEW b \in Branches, NEW p \in Parts, NEW d \in Dates,
         CreateRecommendation(b, p, d)
  PROVE  TypeOK'
<1>1. PICK r \in RecIds \ issued, src \in SourcesFor(b), exceeded \in BOOLEAN :
        /\ issued' = issued \cup {r}
        /\ recs' = [recs EXCEPT ![r] = NewRow(b, p, d, src, exceeded)]
        /\ audit' = IF exceeded
                    THEN audit \cup {Entry(r, "escalate", NoUser, "none", "coordinator")}
                    ELSE audit
  BY DEF CreateRecommendation
<1>2. recs' \in [RecIds -> Instances]
  BY <1>1, NewRowType DEF TypeOK, Instances
<1>3. Entry(r, "escalate", NoUser, "none", "coordinator") \in AuditRow
  BY EntryType DEF Levels
<1>4. audit' \in SUBSET AuditRow
  BY <1>1, <1>3 DEF TypeOK
<1> QED
  BY <1>1, <1>2, <1>4 DEF TypeOK, CreateRecommendation, Idle

LEMMA TransitionType ==
  ASSUME TypeOK, NEW u \in Users, NEW r \in RecIds, NEW action \in ApprovalActions,
         TransitionAndLog(u, r, action)
  PROVE  /\ recs' \in [RecIds -> Instances]
         /\ audit' \in SUBSET AuditRow
<1>1. Stored(r) /\ held[u][r] # NoRec
  BY DEF TransitionAndLog, MayTransition
<1>2. held[u][r] \in Recommendation
  BY <1>1, HeldType
<1>3. Decided(r, ActionState[action], u) \in Recommendation
  BY <1>1, DecidedType, ActionStateType
<1>4. Entry(r, action, u, held[u][r].state, ActionState[action]) \in AuditRow
  BY <1>2, EntryType, ActionStateType DEF Recommendation
<1> QED
  BY <1>3, <1>4 DEF TransitionAndLog, TypeOK, Instances

LEMMA BulkType ==
  ASSUME TypeOK, NEW u \in Users, NEW action \in BulkActions, DecideBulk(u, action)
  PROVE  TypeOK'
<1> DEFINE S == BulkSelection(u)
           new == ActionState[action]
<1>1. action \in ApprovalActions /\ new \in States
  BY BulkAreApprovalActions, ActionStateType
<1>2. \A r \in S : /\ r \in RecIds /\ Stored(r)
                   /\ held[u][r] \in Recommendation
                   /\ Decided(r, new, u) \in Recommendation
  BY <1>1, HeldType, DecidedType DEF DecideBulk, BulkSelection, MayTransition
<1>3. recs' \in [RecIds -> Instances]
  BY <1>2 DEF DecideBulk, TypeOK, Instances
<1>4. \A r \in S : Entry(r, action, u, held[u][r].state, new) \in AuditRow
  BY <1>1, <1>2, EntryType DEF Recommendation
<1>5. audit' \in SUBSET AuditRow
  BY <1>4 DEF DecideBulk, TypeOK
<1> QED
  BY <1>3, <1>5 DEF DecideBulk, TypeOK, Idle

LEMMA EscalateType ==
  ASSUME TypeOK, NEW u \in Users, NEW r \in RecIds, NEW row \in Recommendation,
         NEW level \in Levels, EscalateToLevel(u, r, row, level)
  PROVE  /\ recs' \in [RecIds -> Instances]
         /\ held' \in [Users -> [RecIds -> Instances]]
         /\ \A v \in Users : v # u => held'[v] = held[v]
         /\ audit' \in SUBSET AuditRow
<1>1. [row EXCEPT !.level = level] \in Recommendation
  BY DEF Recommendation
<1>2. SaveHeld(u, r, [row EXCEPT !.level = level])
  BY DEF EscalateToLevel
<1>3. Entry(r, "escalate", row.escalatedBy, row.level, level) \in AuditRow
  BY EntryType DEF Recommendation
<1> QED
  BY <1>1, <1>2, <1>3, SaveHeldType DEF EscalateToLevel, TypeOK

LEMMA InitType == Init => TypeOK
BY DEF Init, TypeOK, Instances, Idle

LEMMA DecisionsType ==
  ASSUME TypeOK, NEW u \in Users, Decisions(u)
  PROVE  TypeOK'
<1>1. ASSUME NEW T \in SUBSET RecIds, Load(u, T) PROVE TypeOK'
  BY <1>1, StoredType DEF Load, TypeOK, Instances, Idle
<1>2. ASSUME NEW r \in RecIds, NEW action \in ApprovalActions, DecideOne(u, r, action)
      PROVE  TypeOK'
  BY <1>2, TransitionType DEF DecideOne, TransitionAndLog, TypeOK, Idle
<1>3. ASSUME NEW r \in RecIds, ApproveCrossTransfer(u, r) PROVE TypeOK'
  <2>1. "approve" \in ApprovalActions
    BY DEF ApprovalActions, ActionState
  <2> QED
    BY <1>3, <2>1, TransitionType
    DEF ApproveCrossTransfer, TransitionAndLog, TypeOK, Idle
<1>4. CASE CrossTransferNotified(u)
  <2>1. target[u] \in RecIds
    BY <1>4 DEF CrossTransferNotified, TypeOK, Idle
  <2>2. Entry(target[u], "cross_coordinator_notified", u, "approved", "approved") \in AuditRow
    BY <2>1, EntryType DEF States
  <2> QED
    BY <1>4, <2>2 DEF CrossTransferNotified, TypeOK, Idle
<1>5. ASSUME NEW action \in BulkActions, DecideBulk(u, action) PROVE TypeOK'
  BY <1>5, BulkType
<1>6. ASSUME NEW r \in RecIds, Reopen(u, r) PROVE TypeOK'
  <2>1. Decided(r, "pending", u) \in Recommendation
    BY <1>6, DecidedType DEF Reopen, MayTransition, States
  <2> QED
    BY <1>6, <2>1 DEF Reopen, TypeOK, Instances, Idle
<1>7. CASE Abandon(u)
  BY <1>7 DEF Abandon, TypeOK, Instances, Idle
<1> QED
  BY <1>1, <1>2, <1>3, <1>4, <1>5, <1>6, <1>7 DEF Decisions

LEMMA WholeRowWritesType ==
  ASSUME TypeOK, NEW u \in Users, WholeRowWrites(u)
  PROVE  TypeOK'
<1>1. ASSUME NEW r \in RecIds, RecalculateDelete(u, r) PROVE TypeOK'
  BY <1>1 DEF RecalculateDelete, TypeOK, Instances, Idle
<1>2. ASSUME NEW r \in RecIds, RecalculateSave(u, r) PROVE TypeOK'
  <2>1. held[u][r] \in Recommendation
    BY <1>2, HeldType DEF RecalculateSave, HeldPending
  <2> QED
    BY <1>2, <2>1, SaveHeldType DEF RecalculateSave, TypeOK, Idle
<1>3. CASE RecalculateResolve(u)
  <2>1. target[u] \in RecIds /\ held[u][target[u]] # NoRec
    BY <1>3 DEF RecalculateResolve, TypeOK, Idle
  <2>2. held[u][target[u]] \in Recommendation
    BY <2>1, HeldType
  <2>3. PICK src \in SourcesFor(held[u][target[u]].branch) :
          SaveHeld(u, target[u], [held[u][target[u]] EXCEPT !.source = src])
    BY <1>3 DEF RecalculateResolve
  <2>4. [held[u][target[u]] EXCEPT !.source = src] \in Recommendation
    BY <2>2 DEF Recommendation, SourcesFor
  <2> QED
    BY <1>3, <2>1, <2>3, <2>4, SaveHeldType DEF RecalculateResolve, TypeOK, Idle
<1>4. CASE RecalculateEscalate(u)
  <2>1. target[u] \in RecIds /\ held[u][target[u]] # NoRec
    BY <1>4 DEF RecalculateEscalate, TypeOK, Idle
  <2>2. held[u][target[u]] \in Recommendation
    BY <2>1, HeldType
  <2>3. NextLevel(held[u][target[u]].level) \in Levels
    BY DEF NextLevel, Levels
  <2>4. CASE EscalateToLevel(u, target[u], held[u][target[u]],
                             NextLevel(held[u][target[u]].level))
    BY <1>4, <2>1, <2>2, <2>3, <2>4, EscalateType DEF RecalculateEscalate, TypeOK, Idle
  <2>5. CASE UNCHANGED <<recs, held, audit>>
    BY <1>4, <2>5 DEF RecalculateEscalate, TypeOK, Idle
  <2> QED
    BY <1>4, <2>4, <2>5 DEF RecalculateEscalate
<1>5. ASSUME NEW r \in RecIds, NEW level \in {"coordinator", "gerente"},
             EscalateManually(u, r, level)
      PROVE  TypeOK'
  <2>1. held[u][r] \in Recommendation
    BY <1>5, HeldType DEF EscalateManually
  <2>2. [held[u][r] EXCEPT !.escalatedBy = u] \in Recommendation
    BY <2>1 DEF Recommendation
  <2>3. level \in Levels
    BY DEF Levels
  <2> QED
    BY <1>5, <2>2, <2>3, EscalateType DEF EscalateManually, TypeOK, Idle
<1> QED
  BY <1>1, <1>2, <1>3, <1>4, <1>5 DEF WholeRowWrites

LEMMA NextType == TypeOK /\ [Next]_vars => TypeOK'
<1> SUFFICES ASSUME TypeOK, [Next]_vars PROVE TypeOK'
  OBVIOUS
<1>1. CASE Create
  BY <1>1, CreateType DEF Create
<1>2. CASE \E u \in Users : Decisions(u)
  BY <1>2, DecisionsType
<1>3. CASE \E u \in Users : WholeRowWrites(u)
  BY <1>3, WholeRowWritesType
<1>4. CASE UNCHANGED vars
  BY <1>4 DEF vars, TypeOK, Idle
<1> QED
  BY <1>1, <1>2, <1>3, <1>4 DEF Next, DecisionNext

(* The variables always have their types, and a caller in the middle of a  *)
(* recalculation holds the instance it works on, whatever the interleaving *)
(* of creations, decisions, recalculations, escalations and failures.      *)
THEOREM TypeCorrect == Spec => []TypeOK
BY InitType, NextType, PTL DEF Spec

--------------------------------------------------------------------------------
(* One pending row per branch and part. *)

(* A write that the partial unique index accepts keeps pending rows unique. *)
LEMMA WriteUnique ==
  ASSUME TypeOK, UniquePending, NEW r \in RecIds, NEW row,
         IndexAllows(r, row), recs' = [recs EXCEPT ![r] = row]
  PROVE  UniquePending'
<1> SUFFICES ASSUME NEW x \in RecIds, NEW y \in RecIds,
                    Stored(x)', Stored(y)',
                    recs'[x].state = "pending", recs'[y].state = "pending",
                    SameSlot(recs'[x], recs'[y])
             PROVE  x = y
  BY DEF UniquePending
<1>1. recs'[r] = row /\ \A q \in RecIds : q # r => recs'[q] = recs[q]
  BY DEF TypeOK
<1>2. CASE x # r /\ y # r
  BY <1>1, <1>2 DEF UniquePending, Stored
<1>3. CASE x = r /\ y # r
  BY <1>1, <1>3 DEF IndexAllows, SameSlot, Stored
<1>4. CASE x # r /\ y = r
  BY <1>1, <1>4 DEF IndexAllows, SameSlot, Stored
<1> QED
  BY <1>2, <1>3, <1>4

(* Deleting rows, or taking rows out of "pending", keeps them unique. *)
LEMMA FewerPendingUnique ==
  ASSUME UniquePending,
         \A r \in RecIds : Stored(r)' /\ recs'[r].state = "pending" => recs'[r] = recs[r]
  PROVE  UniquePending'
BY DEF UniquePending, Stored

LEMMA CreateUnique ==
  ASSUME TypeOK, UniquePending, NEW b \in Branches, NEW p \in Parts, NEW d \in Dates,
         CreateRecommendation(b, p, d)
  PROVE  UniquePending'
<1>1. PICK r \in RecIds, src \in SourcesFor(b), exceeded \in BOOLEAN :
        recs' = [recs EXCEPT ![r] = NewRow(b, p, d, src, exceeded)]
  BY DEF CreateRecommendation
<1>2. IndexAllows(r, NewRow(b, p, d, src, exceeded))
  BY NewRowType DEF CreateRecommendation, PendingAt, IndexAllows, SameSlot
<1> QED
  BY <1>1, <1>2, WriteUnique

LEMMA DecisionUnique ==
  ASSUME TypeOK, UniquePending, NEW u \in Users, NEW r \in RecIds,
         NEW action \in ApprovalActions, TransitionAndLog(u, r, action)
  PROVE  UniquePending'
<1>1. Decided(r, ActionState[action], u).state # "pending"
  BY ActionStateType, DecidedType DEF TransitionAndLog, MayTransition
<1>2. IndexAllows(r, Decided(r, ActionState[action], u))
  BY <1>1 DEF IndexAllows
<1> QED
  BY <1>2, WriteUnique DEF TransitionAndLog

LEMMA DecisionsUnique ==
  ASSUME TypeOK, UniquePending, NEW u \in Users, Decisions(u)
  PROVE  UniquePending'
<1>1. ASSUME UNCHANGED recs PROVE UniquePending'
  BY <1>1 DEF UniquePending, Stored
<1>2. ASSUME NEW r \in RecIds, NEW action \in ApprovalActions, DecideOne(u, r, action)
      PROVE  UniquePending'
  BY <1>2, DecisionUnique DEF DecideOne
<1>3. ASSUME NEW r \in RecIds, ApproveCrossTransfer(u, r) PROVE UniquePending'
  BY <1>3, DecisionUnique DEF ApproveCrossTransfer, ApprovalActions, ActionState
<1>4. ASSUME NEW action \in BulkActions, DecideBulk(u, action) PROVE UniquePending'
  <2>1. ActionState[action] \in States \ {"pending"}
    BY BulkAreApprovalActions, ActionStateType
  <2>2. \A r \in BulkSelection(u) : Decided(r, ActionState[action], u).state # "pending"
    BY <1>4, <2>1, DecidedType DEF DecideBulk, BulkSelection, MayTransition
  <2>3. \A r \in RecIds : Stored(r)' /\ recs'[r].state = "pending" => recs'[r] = recs[r]
    BY <1>4, <2>2 DEF DecideBulk
  <2> QED
    BY <2>3, FewerPendingUnique
<1>5. ASSUME NEW r \in RecIds, Reopen(u, r) PROVE UniquePending'
  BY <1>5, WriteUnique DEF Reopen
<1> QED
  BY <1>1, <1>2, <1>3, <1>4, <1>5
  DEF Decisions, Load, CrossTransferNotified, Abandon

LEMMA WholeRowWritesUnique ==
  ASSUME TypeOK, UniquePending, NEW u \in Users, WholeRowWrites(u)
  PROVE  UniquePending'
<1>1. ASSUME NEW r \in RecIds, NEW row, SaveHeld(u, r, row) PROVE UniquePending'
  BY <1>1, WriteUnique DEF SaveHeld
<1>2. ASSUME NEW r \in RecIds, RecalculateDelete(u, r) PROVE UniquePending'
  <2>1. \A q \in RecIds : Stored(q)' => recs'[q] = recs[q]
    BY <1>2 DEF RecalculateDelete, Stored, TypeOK
  <2> QED
    BY <2>1, FewerPendingUnique
<1>3. ASSUME NEW r \in RecIds, RecalculateSave(u, r) PROVE UniquePending'
  BY <1>1, <1>3 DEF RecalculateSave
<1>4. CASE RecalculateResolve(u)
  BY <1>1, <1>4 DEF RecalculateResolve, TypeOK, Idle
<1>5. CASE RecalculateEscalate(u)
  <2>1. target[u] \in RecIds
    BY <1>5 DEF RecalculateEscalate, TypeOK, Idle
  <2>2. CASE UNCHANGED <<recs, held, audit>>
    BY <2>2 DEF UniquePending, Stored
  <2> QED
    BY <1>1, <1>5, <2>1, <2>2 DEF RecalculateEscalate, EscalateToLevel
<1>6. ASSUME NEW r \in RecIds, NEW level \in {"coordinator", "gerente"},
             EscalateManually(u, r, level)
      PROVE  UniquePending'
  BY <1>1, <1>6 DEF EscalateManually, EscalateToLevel
<1> QED
  BY <1>2, <1>3, <1>4, <1>5, <1>6 DEF WholeRowWrites

LEMMA NextUnique == TypeOK /\ UniquePending /\ [Next]_vars => UniquePending'
<1> SUFFICES ASSUME TypeOK, UniquePending, [Next]_vars PROVE UniquePending'
  OBVIOUS
<1>1. CASE Create
  BY <1>1, CreateUnique DEF Create
<1>2. CASE \E u \in Users : Decisions(u)
  BY <1>2, DecisionsUnique
<1>3. CASE \E u \in Users : WholeRowWrites(u)
  BY <1>3, WholeRowWritesUnique
<1>4. CASE UNCHANGED vars
  BY <1>4 DEF vars, UniquePending, Stored
<1> QED
  BY <1>1, <1>2, <1>3, <1>4 DEF Next, DecisionNext

(* A branch and part never have two pending recommendations: the partial   *)
(* unique index and the locked transitions hold against every stale        *)
(* instance that recalculation and escalation write back.                  *)
THEOREM OnePendingPerSlot == Spec => []UniquePending
<1>1. Init => UniquePending
  BY DEF Init, UniquePending, Stored
<1> QED
  BY <1>1, TypeCorrect, NextUnique, PTL DEF Spec

--------------------------------------------------------------------------------
(* The audit history behind decided rows.  An instance in memory may be    *)
(* written back at any time, so it needs the same history as a stored row: *)
(* this is what makes the two properties inductive.                        *)

Backed(log, r, row) ==
  /\ row.state # "pending" =>
       \E e \in log : e.rec = r /\ e.after = row.state /\ e.user = row.decidedBy
  /\ row.state \in {"approved", "ordered"} =>
       \E e \in log : e.rec = r /\ e.action = "approve"

HistoryInv ==
  \A r \in RecIds :
    /\ Stored(r) => Backed(audit, r, recs[r])
    /\ \A u \in Users : held[u][r] # NoRec => Backed(audit, r, held[u][r])

LEMMA BackedGrows ==
  ASSUME NEW log, NEW more, log \subseteq more, NEW r, NEW row, Backed(log, r, row)
  PROVE  Backed(more, r, row)
BY DEF Backed

(* The columns Backed looks at. *)
LEMMA BackedSame ==
  ASSUME NEW log, NEW r, NEW row, NEW other, Backed(log, r, row),
         other.state = row.state, other.decidedBy = row.decidedBy
  PROVE  Backed(log, r, other)
BY DEF Backed

(* A decision on the locked row leaves the entry it needs. *)
LEMMA DecidedBacked ==
  ASSUME TypeOK, HistoryInv, NEW u \in Users, NEW r \in RecIds,
         NEW action \in ApprovalActions, NEW before \in States,
         MayTransition(r, ActionState[action]), NEW log,
         audit \subseteq log, Entry(r, action, u, before, ActionState[action]) \in log
  PROVE  Backed(log, r, Decided(r, ActionState[action], u))
<1> DEFINE new == ActionState[action]
           row == Decided(r, new, u)
           e == Entry(r, action, u, before, new)
<1>1. new \in States \ {"pending"} /\ Stored(r)
  BY ActionStateType DEF MayTransition
<1>2. row.state = new /\ row.decidedBy = u
  BY <1>1, DecidedType
<1>3. e \in log /\ e.rec = r /\ e.action = action /\ e.user = u /\ e.after = new
  BY <1>1, EntryType
<1>4. CASE new = "approved"
  BY <1>2, <1>3, <1>4, ActionStateType DEF Backed
<1>5. CASE new = "ordered"
  <2>1. recs[r].state = "approved"
    BY <1>5 DEF MayTransition, ValidTransitions
  <2>2. \E a \in log : a.rec = r /\ a.action = "approve"
    BY <1>1, <2>1 DEF HistoryInv, Backed
  <2> QED
    BY <1>2, <1>3, <1>5, <2>2 DEF Backed
<1>6. CASE new \notin {"approved", "ordered"}
  BY <1>2, <1>3, <1>6 DEF Backed
<1> QED
  BY <1>4, <1>5, <1>6

LEMMA CreateHistory ==
  ASSUME TypeOK, HistoryInv, NEW b \in Branches, NEW p \in Parts, NEW d \in Dates,
         CreateRecommendation(b, p, d)
  PROVE  HistoryInv'
<1>1. PICK r \in RecIds, src \in SourcesFor(b), exceeded \in BOOLEAN :
        recs' = [recs EXCEPT ![r] = NewRow(b, p, d, src, exceeded)]
  BY DEF CreateRecommendation
<1>2. Backed(audit', r, recs'[r])
  BY <1>1, NewRowType DEF Backed, TypeOK
<1>3. audit \subseteq audit' /\ held' = held
  BY DEF CreateRecommendation
<1>4. \A q \in RecIds : q # r => recs'[q] = recs[q]
  BY <1>1 DEF TypeOK
<1> QED
  BY <1>2, <1>3, <1>4, BackedGrows DEF HistoryInv, Stored

LEMMA DecisionHistory ==
  ASSUME TypeOK, HistoryInv, NEW u \in Users, NEW r \in RecIds,
         NEW action \in ApprovalActions, TransitionAndLog(u, r, action)
  PROVE  HistoryInv'
<1>1. held[u][r].state \in States
  BY HeldType DEF TransitionAndLog, Recommendation
<1>2. /\ audit \subseteq audit' /\ held' = held
      /\ Entry(r, action, u, held[u][r].state, ActionState[action]) \in audit'
  BY DEF TransitionAndLog
<1>3. Backed(audit', r, Decided(r, ActionState[action], u))
  BY <1>1, <1>2, DecidedBacked DEF TransitionAndLog
<1>4. recs'[r] = Decided(r, ActionState[action], u) /\ \A q \in RecIds : q # r => recs'[q] = recs[q]
  BY DEF TransitionAndLog, TypeOK
<1> QED
  BY <1>2, <1>3, <1>4, BackedGrows DEF HistoryInv, Stored

LEMMA DecisionsHistory ==
  ASSUME TypeOK, HistoryInv, NEW u \in Users, Decisions(u)
  PROVE  HistoryInv'
<1>1. ASSUME NEW T \in SUBSET RecIds, Load(u, T) PROVE HistoryInv'
  <2>1. \A v \in Users, r \in RecIds :
          held'[v][r] = IF v = u THEN (IF r \in T THEN recs[r] ELSE NoRec) ELSE held[v][r]
    BY <1>1 DEF Load, TypeOK
  <2>2. recs' = recs /\ audit' = audit
    BY <1>1 DEF Load
  <2> QED
    BY <2>1, <2>2 DEF HistoryInv, Stored
<1>2. ASSUME NEW r \in RecIds, NEW action \in ApprovalActions, DecideOne(u, r, action)
      PROVE  HistoryInv'
  BY <1>2, DecisionHistory DEF DecideOne
<1>3. ASSUME NEW r \in RecIds, ApproveCrossTransfer(u, r) PROVE HistoryInv'
  BY <1>3, DecisionHistory DEF ApproveCrossTransfer, ApprovalActions, ActionState
<1>4. CASE CrossTransferNotified(u)
  BY <1>4, BackedGrows DEF CrossTransferNotified, HistoryInv, Stored
<1>5. ASSUME NEW action \in BulkActions, DecideBulk(u, action) PROVE HistoryInv'
  <2> DEFINE S == BulkSelection(u)
             new == ActionState[action]
  <2>1. /\ audit' = audit \cup {Entry(r, action, u, held[u][r].state, new) : r \in S}
        /\ held' = held
        /\ recs' = [r \in RecIds |-> IF r \in S THEN Decided(r, new, u) ELSE recs[r]]
    BY <1>5 DEF DecideBulk
  <2>2. action \in ApprovalActions
    BY BulkAreApprovalActions
  <2>3. ASSUME NEW r \in S PROVE Backed(audit', r, Decided(r, new, u))
    <3>1. r \in RecIds /\ MayTransition(r, new) /\ held[u][r].state \in States
      BY <1>5, HeldType DEF DecideBulk, BulkSelection, Recommendation
    <3>2. Entry(r, action, u, held[u][r].state, new) \in audit'
      BY <2>1
    <3> QED
      BY <2>1, <2>2, <3>1, <3>2, DecidedBacked
  <2>4. ASSUME NEW r \in RecIds, Stored(r)' PROVE Backed(audit', r, recs'[r])
    <3>1. CASE r \in S
      BY <2>1, <2>3, <3>1
    <3>2. CASE r \notin S
      <4>1. recs'[r] = recs[r] /\ audit \subseteq audit'
        BY <2>1, <3>2
      <4> QED
        BY <2>4, <4>1, BackedGrows DEF HistoryInv, Stored
    <3> QED
      BY <3>1, <3>2
  <2>5. \A v \in Users, r \in RecIds : held'[v][r] # NoRec => Backed(audit', r, held'[v][r])
    BY <2>1, BackedGrows DEF HistoryInv
  <2> QED
    BY <2>4, <2>5 DEF HistoryInv
<1>6. ASSUME NEW r \in RecIds, Reopen(u, r) PROVE HistoryInv'
  <2>1. Decided(r, "pending", u).state = "pending"
    BY <1>6, DecidedType DEF Reopen, MayTransition, States
  <2>2. recs'[r] = Decided(r, "pending", u) /\ \A q \in RecIds : q # r => recs'[q] = recs[q]
    BY <1>6 DEF Reopen, TypeOK
  <2> QED
    BY <1>6, <2>1, <2>2 DEF Reopen, HistoryInv, Stored, Backed
<1>7. CASE Abandon(u)
  <2>1. \A v \in Users, r \in RecIds : held'[v][r] # NoRec => held'[v][r] = held[v][r]
    BY <1>7 DEF Abandon, TypeOK
  <2> QED
    BY <1>7, <2>1 DEF Abandon, HistoryInv, Stored
<1> QED
  BY <1>1, <1>2, <1>3, <1>4, <1>5, <1>6, <1>7 DEF Decisions

(* Writing an instance back moves its history along with it. *)
LEMMA SaveHeldHistory ==
  ASSUME TypeOK, HistoryInv, NEW u \in Users, NEW r \in RecIds, NEW row \in Recommendation,
         SaveHeld(u, r, row), Backed(audit, r, row), audit \subseteq audit'
  PROVE  HistoryInv'
<1>1. recs'[r] = row /\ \A q \in RecIds : q # r => recs'[q] = recs[q]
  BY DEF SaveHeld, TypeOK
<1>2. \A v \in Users, q \in RecIds :
        held'[v][q] = IF v = u /\ q = r THEN row ELSE held[v][q]
  BY DEF SaveHeld, TypeOK
<1> QED
  BY <1>1, <1>2, BackedGrows DEF HistoryInv, Stored

LEMMA EscalateHistory ==
  ASSUME TypeOK, HistoryInv, NEW u \in Users, NEW r \in RecIds, NEW row \in Recommendation,
         NEW level \in Levels, held[u][r] # NoRec,
         row.state = held[u][r].state, row.decidedBy = held[u][r].decidedBy,
         EscalateToLevel(u, r, row, level)
  PROVE  HistoryInv'
<1> DEFINE saved == [row EXCEPT !.level = level]
<1>1. /\ saved \in Recommendation
      /\ saved.state = held[u][r].state /\ saved.decidedBy = held[u][r].decidedBy
  BY DEF Recommendation
<1>2. Backed(audit, r, held[u][r])
  BY DEF HistoryInv
<1>3. Backed(audit, r, saved)
  BY <1>1, <1>2, BackedSame
<1> QED
  BY <1>1, <1>3, SaveHeldHistory DEF EscalateToLevel

LEMMA WholeRowWritesHistory ==
  ASSUME TypeOK, HistoryInv, NEW u \in Users, WholeRowWrites(u)
  PROVE  HistoryInv'
<1>1. ASSUME NEW r \in RecIds, RecalculateDelete(u, r) PROVE HistoryInv'
  <2>1. /\ \A q \in RecIds : recs'[q] = IF q = r THEN NoRec ELSE recs[q]
        /\ \A v \in Users, q \in RecIds : held'[v][q] # NoRec => held'[v][q] = held[v][q]
    BY <1>1 DEF RecalculateDelete, TypeOK
  <2> QED
    BY <1>1, <2>1 DEF RecalculateDelete, HistoryInv, Stored
<1>2. ASSUME NEW r \in RecIds, RecalculateSave(u, r) PROVE HistoryInv'
  <2>1. held[u][r] # NoRec /\ Backed(audit, r, held[u][r])
    BY <1>2 DEF RecalculateSave, HeldPending, HistoryInv
  <2> QED
    BY <1>2, <2>1, HeldType, SaveHeldHistory DEF RecalculateSave
<1>3. CASE RecalculateResolve(u)
  <2> DEFINE r == target[u]
  <2>1. r \in RecIds /\ held[u][r] # NoRec
    BY <1>3 DEF RecalculateResolve, TypeOK, Idle
  <2>2. PICK src \in SourcesFor(held[u][r].branch) :
          SaveHeld(u, r, [held[u][r] EXCEPT !.source = src])
    BY <1>3 DEF RecalculateResolve
  <2>3. /\ [held[u][r] EXCEPT !.source = src] \in Recommendation
        /\ [held[u][r] EXCEPT !.source = src].state = held[u][r].state
        /\ [held[u][r] EXCEPT !.source = src].decidedBy = held[u][r].decidedBy
    BY <2>1, HeldType DEF Recommendation, SourcesFor
  <2>4. Backed(audit, r, [held[u][r] EXCEPT !.source = src])
    BY <2>1, <2>3, BackedSame DEF HistoryInv
  <2>5. audit \subseteq audit'
    BY <1>3 DEF RecalculateResolve
  <2> QED
    BY <2>1, <2>2, <2>3, <2>4, <2>5, SaveHeldHistory
<1>4. CASE RecalculateEscalate(u)
  <2> DEFINE r == target[u]
  <2>1. r \in RecIds /\ held[u][r] # NoRec /\ held[u][r] \in Recommendation
    BY <1>4, HeldType DEF RecalculateEscalate, TypeOK, Idle
  <2>2. NextLevel(held[u][r].level) \in Levels
    BY DEF NextLevel, Levels
  <2>3. CASE EscalateToLevel(u, r, held[u][r], NextLevel(held[u][r].level))
    BY <2>1, <2>2, <2>3, EscalateHistory
  <2>4. CASE UNCHANGED <<recs, held, audit>>
    BY <2>4 DEF HistoryInv, Stored
  <2> QED
    BY <1>4, <2>3, <2>4 DEF RecalculateEscalate
<1>5. ASSUME NEW r \in RecIds, NEW level \in {"coordinator", "gerente"},
             EscalateManually(u, r, level)
      PROVE  HistoryInv'
  <2> DEFINE row == [held[u][r] EXCEPT !.escalatedBy = u]
  <2>1. held[u][r] # NoRec /\ held[u][r] \in Recommendation
    BY <1>5, HeldType DEF EscalateManually
  <2>2. /\ row \in Recommendation
        /\ row.state = held[u][r].state /\ row.decidedBy = held[u][r].decidedBy
    BY <2>1 DEF Recommendation
  <2>3. level \in Levels
    BY DEF Levels
  <2>4. EscalateToLevel(u, r, row, level)
    BY <1>5 DEF EscalateManually
  <2> HIDE DEF row
  <2> QED
    BY <2>1, <2>2, <2>3, <2>4, EscalateHistory
<1> QED
  BY <1>1, <1>2, <1>3, <1>4, <1>5 DEF WholeRowWrites

LEMMA NextHistory == TypeOK /\ HistoryInv /\ [Next]_vars => HistoryInv'
<1> SUFFICES ASSUME TypeOK, HistoryInv, [Next]_vars PROVE HistoryInv'
  OBVIOUS
<1>1. CASE Create
  BY <1>1, CreateHistory DEF Create
<1>2. CASE \E u \in Users : Decisions(u)
  BY <1>2, DecisionsHistory
<1>3. CASE \E u \in Users : WholeRowWrites(u)
  BY <1>3, WholeRowWritesHistory
<1>4. CASE UNCHANGED vars
  BY <1>4 DEF vars, HistoryInv, Stored
<1> QED
  BY <1>1, <1>2, <1>3, <1>4 DEF Next, DecisionNext

LEMMA HistoryKept == Spec => []HistoryInv
<1>1. Init => HistoryInv
  BY DEF Init, HistoryInv, Stored
<1> QED
  BY <1>1, TypeCorrect, NextHistory, PTL DEF Spec

(* A row that shows a decision has the audit entry of that decision, by    *)
(* the user it shows, for any number of callers with stale instances and   *)
(* also after a recalculation wrote a decided row over or brought it back. *)
THEOREM DecisionsAreAudited == Spec => []DecisionAudited
<1>1. HistoryInv => DecisionAudited
  BY DEF HistoryInv, Backed, DecisionAudited
<1> QED
  BY <1>1, HistoryKept, PTL

(* Nothing is ordered that nobody approved, whoever interleaves with whom. *)
THEOREM OrderedRowsWereApproved == Spec => []OrderedWasApproved
<1>1. HistoryInv => OrderedWasApproved
  BY DEF HistoryInv, Backed, OrderedWasApproved
<1> QED
  BY <1>1, HistoryKept, PTL

--------------------------------------------------------------------------------
(* What an order can be lost to.  A new row never takes the place of an     *)
(* ordered one: whatever is stored or held has a key that was given out.    *)

KeysKnown ==
  /\ \A r \in RecIds : Stored(r) => r \in issued
  /\ \A u \in Users, r \in RecIds : held[u][r] # NoRec => r \in issued

LEMMA SaveHeldKnown ==
  ASSUME TypeOK, KeysKnown, NEW u \in Users, NEW r \in RecIds, NEW row,
         held[u][r] # NoRec, SaveHeld(u, r, row), UNCHANGED issued
  PROVE  KeysKnown'
BY DEF TypeOK, KeysKnown, SaveHeld, Stored

LEMMA NextKnown == TypeOK /\ KeysKnown /\ [Next]_vars => KeysKnown'
<1> SUFFICES ASSUME TypeOK, KeysKnown, [Next]_vars PROVE KeysKnown'
  OBVIOUS
<1>1. CASE Create
  BY <1>1 DEF Create, CreateRecommendation, TypeOK, KeysKnown, Stored
<1>2. ASSUME NEW u \in Users, Decisions(u) PROVE KeysKnown'
  <2>1. ASSUME NEW S \in SUBSET RecIds, Load(u, S) PROVE KeysKnown'
    BY <2>1 DEF Load, TypeOK, KeysKnown, Stored
  <2>2. ASSUME NEW r \in RecIds, NEW action, TransitionAndLog(u, r, action) PROVE KeysKnown'
    BY <2>2 DEF TransitionAndLog, MayTransition, TypeOK, KeysKnown, Stored
  <2>3. ASSUME NEW action \in BulkActions, DecideBulk(u, action) PROVE KeysKnown'
    BY <2>3 DEF DecideBulk, MayTransition, TypeOK, KeysKnown, Stored
  <2>4. ASSUME NEW r \in RecIds, Reopen(u, r) PROVE KeysKnown'
    BY <2>4 DEF Reopen, MayTransition, TypeOK, KeysKnown, Stored
  <2>5. CASE CrossTransferNotified(u)
    BY <2>5 DEF CrossTransferNotified, KeysKnown, Stored
  <2>6. CASE Abandon(u)
    BY <2>6 DEF Abandon, TypeOK, KeysKnown, Stored
  <2> QED
    BY <1>2, <2>1, <2>2, <2>3, <2>4, <2>5, <2>6
    DEF Decisions, DecideOne, ApproveCrossTransfer
<1>3. ASSUME NEW u \in Users, WholeRowWrites(u) PROVE KeysKnown'
  <2>1. ASSUME NEW r \in RecIds, RecalculateDelete(u, r) PROVE KeysKnown'
    BY <2>1 DEF RecalculateDelete, TypeOK, KeysKnown, Stored
  <2>2. ASSUME NEW r \in RecIds, RecalculateSave(u, r) PROVE KeysKnown'
    BY <2>2, SaveHeldKnown DEF RecalculateSave, HeldPending
  <2>3. CASE RecalculateResolve(u)
    BY <2>3, SaveHeldKnown DEF RecalculateResolve, TypeOK, Idle
  <2>4. CASE RecalculateEscalate(u)
    <3>1. target[u] \in RecIds /\ held[u][target[u]] # NoRec
      BY <2>4 DEF RecalculateEscalate, TypeOK, Idle
    <3>2. CASE UNCHANGED <<recs, held, audit>>
      BY <2>4, <3>2 DEF RecalculateEscalate, KeysKnown, Stored
    <3> QED
      BY <2>4, <3>1, <3>2, SaveHeldKnown DEF RecalculateEscalate, EscalateToLevel
  <2>5. ASSUME NEW r \in RecIds, NEW level, EscalateManually(u, r, level) PROVE KeysKnown'
    BY <2>5, SaveHeldKnown DEF EscalateManually, EscalateToLevel
  <2> QED
    BY <1>3, <2>1, <2>2, <2>3, <2>4, <2>5 DEF WholeRowWrites
<1>4. CASE UNCHANGED vars
  BY <1>4 DEF vars, KeysKnown, Stored
<1> QED
  BY <1>1, <1>2, <1>3, <1>4 DEF Next, DecisionNext

(* A whole-row write keeps the state of the instance it writes.             *)
LEMMA SaveHeldLoses ==
  ASSUME TypeOK, NEW u \in Users, NEW r \in RecIds, NEW row \in Recommendation,
         held[u][r] # NoRec, row.state = held[u][r].state, SaveHeld(u, r, row),
         NEW q \in RecIds, OrderLost(q)
  PROVE  HeldStale(q)
<1>1. recs'[r] = row /\ \A x \in RecIds : x # r => recs'[x] = recs[x]
  BY DEF SaveHeld, TypeOK
<1>2. q = r
  BY <1>1 DEF OrderLost, Stored
<1> QED
  BY <1>1, <1>2, NoRecAssumption DEF OrderLost, HeldStale

LEMMA DecisionsLoseNoOrder ==
  ASSUME TypeOK, NEW u \in Users, Decisions(u), NEW q \in RecIds
  PROVE  ~OrderLost(q)
<1>1. \A r \in RecIds, new \in States :
        MayTransition(r, new) => Stored(r) /\ recs[r].state # "ordered"
  BY DEF MayTransition, ValidTransitions
<1>2. ASSUME NEW r \in RecIds, NEW action \in ApprovalActions, TransitionAndLog(u, r, action)
      PROVE  ~OrderLost(q)
  <2>1. recs[r].state # "ordered"
    BY <1>1, <1>2, ActionStateType DEF TransitionAndLog
  <2> QED
    BY <1>2, <2>1 DEF TransitionAndLog, OrderLost, Stored, TypeOK
<1>3. ASSUME NEW action \in BulkActions, DecideBulk(u, action) PROVE ~OrderLost(q)
  <2>1. \A r \in BulkSelection(u) : recs[r].state # "ordered"
    BY <1>1, <1>3, BulkAreApprovalActions, ActionStateType DEF DecideBulk, BulkSelection
  <2> QED
    BY <1>3, <2>1 DEF DecideBulk, OrderLost, Stored
<1>4. ASSUME NEW r \in RecIds, Reopen(u, r) PROVE ~OrderLost(q)
  <2>1. recs[r].state # "ordered"
    BY <1>1, <1>4 DEF Reopen, States
  <2> QED
    BY <1>4, <2>1 DEF Reopen, OrderLost, Stored, TypeOK
<1>5. ASSUME UNCHANGED recs PROVE ~OrderLost(q)
  BY <1>5 DEF OrderLost, Stored
<1> QED
  BY <1>2, <1>3, <1>4, <1>5
  DEF Decisions, DecideOne, ApproveCrossTransfer, ApprovalActions, ActionState,
      Load, CrossTransferNotified, Abandon

LEMMA WholeRowWritesLose ==
  ASSUME TypeOK, NEW u \in Users, WholeRowWrites(u), NEW q \in RecIds, OrderLost(q)
  PROVE  HeldStale(q)
<1>1. ASSUME NEW r \in RecIds, RecalculateDelete(u, r) PROVE HeldStale(q)
  <2>1. q = r
    BY <1>1 DEF RecalculateDelete, OrderLost, Stored, TypeOK
  <2> QED
    BY <1>1, <2>1 DEF RecalculateDelete, HeldPending, HeldStale
<1>2. ASSUME NEW r \in RecIds, RecalculateSave(u, r) PROVE HeldStale(q)
  <2>1. held[u][r] \in Recommendation
    BY <1>2, HeldType DEF RecalculateSave, HeldPending
  <2> QED
    BY <1>2, <2>1, SaveHeldLoses DEF RecalculateSave, HeldPending
<1>3. CASE RecalculateResolve(u)
  <2>1. target[u] \in RecIds /\ held[u][target[u]] # NoRec
    BY <1>3 DEF RecalculateResolve, TypeOK, Idle
  <2>2. held[u][target[u]] \in Recommendation
    BY <2>1, HeldType
  <2>3. PICK src \in SourcesFor(held[u][target[u]].branch) :
          SaveHeld(u, target[u], [held[u][target[u]] EXCEPT !.source = src])
    BY <1>3 DEF RecalculateResolve
  <2>4. /\ [held[u][target[u]] EXCEPT !.source = src] \in Recommendation
        /\ [held[u][target[u]] EXCEPT !.source = src].state = held[u][target[u]].state
    BY <2>2 DEF Recommendation, SourcesFor
  <2> QED
    BY <2>1, <2>3, <2>4, SaveHeldLoses
<1>4. ASSUME NEW r \in RecIds, NEW row \in Recommendation, NEW level \in Levels,
             held[u][r] # NoRec, row.state = held[u][r].state, EscalateToLevel(u, r, row, level)
      PROVE  HeldStale(q)
  <2>1. /\ [row EXCEPT !.level = level] \in Recommendation
        /\ [row EXCEPT !.level = level].state = held[u][r].state
    BY <1>4 DEF Recommendation
  <2> QED
    BY <1>4, <2>1, SaveHeldLoses DEF EscalateToLevel
<1>5. CASE RecalculateEscalate(u)
  <2>1. target[u] \in RecIds /\ held[u][target[u]] # NoRec
    BY <1>5 DEF RecalculateEscalate, TypeOK, Idle
  <2>2. held[u][target[u]] \in Recommendation
    BY <2>1, HeldType
  <2>3. NextLevel(held[u][target[u]].level) \in Levels
    BY DEF NextLevel, Levels
  <2>4. recs' # recs
    BY DEF OrderLost, Stored
  <2> QED
    BY <1>4, <1>5, <2>1, <2>2, <2>3, <2>4 DEF RecalculateEscalate
<1>6. ASSUME NEW r \in RecIds, NEW level \in {"coordinator", "gerente"},
             EscalateManually(u, r, level)
      PROVE  HeldStale(q)
  <2>1. held[u][r] # NoRec /\ held[u][r] \in Recommendation
    BY <1>6, HeldType DEF EscalateManually
  <2>2. /\ [held[u][r] EXCEPT !.escalatedBy = u] \in Recommendation
        /\ [held[u][r] EXCEPT !.escalatedBy = u].state = held[u][r].state
    BY <2>1 DEF Recommendation
  <2> QED
    BY <1>4, <1>6, <2>1, <2>2 DEF EscalateManually, Levels
<1> QED
  BY <1>1, <1>2, <1>3, <1>5, <1>6 DEF WholeRowWrites

(* An order is lost only to a whole-row write of an instance loaded before  *)
(* it, for any number of callers, rows and stale instances.                 *)
THEOREM OrdersLostOnlyToStale == Spec => OrderedLostOnlyToStale
<1>1. TypeOK /\ KeysKnown /\ [Next]_vars => [\A r \in RecIds : OrderLost(r) => HeldStale(r)]_vars
  <2> SUFFICES ASSUME TypeOK, KeysKnown, Next, NEW q \in RecIds, OrderLost(q)
               PROVE  HeldStale(q)
    OBVIOUS
  <2>1. ASSUME NEW r \in RecIds \ issued, NEW row, recs' = [recs EXCEPT ![r] = row]
        PROVE  FALSE
    <3>1. q # r
      BY <2>1 DEF OrderLost, KeysKnown
    <3>2. recs'[q] = recs[q]
      BY <2>1, <3>1 DEF TypeOK
    <3> QED
      BY <3>2 DEF OrderLost, Stored
  <2>2. CASE Create
    BY <2>1, <2>2 DEF Create, CreateRecommendation
  <2> QED
    BY <2>2, DecisionsLoseNoOrder, WholeRowWritesLose DEF Next, DecisionNext
<1>2. Init => KeysKnown
  BY DEF Init, KeysKnown, Stored
<1> QED
  BY <1>1, <1>2, NextKnown, TypeCorrect, PTL DEF Spec, OrderedLostOnlyToStale

--------------------------------------------------------------------------------
(* Creation and decisions only: rows are never deleted and keep the columns *)
(* that say what they are about, so what a caller loaded earlier still      *)
(* tells whether the row is a cross-coordinator transfer.                   *)

SameSubject(x, y) ==
  /\ x.branch = y.branch /\ x.part = y.part
  /\ x.runDate = y.runDate /\ x.source = y.source

LEMMA DecidedSubject ==
  ASSUME TypeOK, NEW r \in RecIds, Stored(r), NEW u \in Users, NEW new \in States
  PROVE  SameSubject(Decided(r, new, u), recs[r])
BY StoredType DEF Decided, Recommendation, SameSubject

IssuedInv == \A r \in RecIds : Stored(r) => r \in issued

LEMMA DecisionNextKeepsRows ==
  ASSUME TypeOK, IssuedInv, DecisionNext, NEW r \in RecIds, Stored(r)
  PROVE  recs'[r] # NoRec /\ SameSubject(recs'[r], recs[r])
<1>1. ASSUME recs'[r] = recs[r] PROVE recs'[r] # NoRec /\ SameSubject(recs'[r], recs[r])
  BY <1>1 DEF Stored, SameSubject
<1>2. CASE Create
  BY <1>1, <1>2 DEF Create, CreateRecommendation, IssuedInv, TypeOK
<1>3. ASSUME NEW u \in Users, Decisions(u)
      PROVE  recs'[r] # NoRec /\ SameSubject(recs'[r], recs[r])
  <2>1. ASSUME NEW new \in States, recs'[r] = Decided(r, new, u)
        PROVE  recs'[r] # NoRec /\ SameSubject(recs'[r], recs[r])
    BY <2>1, DecidedType, DecidedSubject
  <2>2. ASSUME NEW q \in RecIds, NEW action \in ApprovalActions, TransitionAndLog(u, q, action)
        PROVE  recs'[r] # NoRec /\ SameSubject(recs'[r], recs[r])
    <3>1. ActionState[action] \in States
      BY ActionStateType
    <3>2. recs'[r] = recs[r] \/ recs'[r] = Decided(r, ActionState[action], u)
      BY <2>2 DEF TransitionAndLog, TypeOK
    <3> QED
      BY <1>1, <2>1, <3>1, <3>2
  <2>3. ASSUME NEW action \in BulkActions, DecideBulk(u, action)
        PROVE  recs'[r] # NoRec /\ SameSubject(recs'[r], recs[r])
    <3>1. ActionState[action] \in States
      BY BulkAreApprovalActions, ActionStateType
    <3>2. recs'[r] = recs[r] \/ recs'[r] = Decided(r, ActionState[action], u)
      BY <2>3 DEF DecideBulk
    <3> QED
      BY <1>1, <2>1, <3>1, <3>2
  <2>4. ASSUME NEW q \in RecIds, Reopen(u, q)
        PROVE  recs'[r] # NoRec /\ SameSubject(recs'[r], recs[r])
    <3>1. recs'[r] = recs[r] \/ recs'[r] = Decided(r, "pending", u)
      BY <2>4 DEF Reopen, TypeOK
    <3>2. "pending" \in States
      BY DEF States
    <3> QED
      BY <1>1, <2>1, <3>1, <3>2
  <2>5. ASSUME UNCHANGED recs PROVE recs'[r] # NoRec /\ SameSubject(recs'[r], recs[r])
    BY <1>1, <2>5
  <2>6. "approve" \in ApprovalActions
    BY DEF ApprovalActions, ActionState
  <2> QED
    BY <1>3, <2>2, <2>3, <2>4, <2>5, <2>6
    DEF Decisions, DecideOne, ApproveCrossTransfer, Load, CrossTransferNotified, Abandon
<1> QED
  BY <1>2, <1>3 DEF DecisionNext

LEMMA NextIssued == TypeOK /\ IssuedInv /\ [DecisionNext]_vars => IssuedInv'
<1> SUFFICES ASSUME TypeOK, IssuedInv, [DecisionNext]_vars PROVE IssuedInv'
  OBVIOUS
<1>1. CASE Create
  BY <1>1 DEF Create, CreateRecommendation, IssuedInv, Stored, TypeOK
<1>2. ASSUME NEW u \in Users, Decisions(u) PROVE IssuedInv'
  <2>1. issued' = issued
    BY <1>2 DEF Decisions, Load, DecideOne, ApproveCrossTransfer, TransitionAndLog,
                CrossTransferNotified, DecideBulk, Reopen, Abandon
  <2>2. ASSUME NEW r \in RecIds, ~Stored(r) PROVE recs'[r] = NoRec
    BY <1>2, <2>2
    DEF Decisions, Load, DecideOne, ApproveCrossTransfer, TransitionAndLog, MayTransition,
        CrossTransferNotified, DecideBulk, Reopen, Abandon, Stored, TypeOK
  <2> QED
    BY <2>1, <2>2 DEF IssuedInv, Stored
<1>3. CASE UNCHANGED vars
  BY <1>3 DEF vars, IssuedInv, Stored
<1> QED
  BY <1>1, <1>2, <1>3 DEF DecisionNext

(* A loaded instance is about what the stored row is about. *)
HeldInv ==
  \A u \in Users, r \in RecIds :
    held[u][r] # NoRec => Stored(r) /\ SameSubject(held[u][r], recs[r])

LEMMA NextHeld == TypeOK /\ IssuedInv /\ HeldInv /\ [DecisionNext]_vars => HeldInv'
<1> SUFFICES ASSUME TypeOK, IssuedInv, HeldInv, [DecisionNext]_vars PROVE HeldInv'
  OBVIOUS
<1>1. CASE UNCHANGED vars
  BY <1>1 DEF vars, HeldInv, Stored
<1>2. CASE DecisionNext
  <2>1. \A r \in RecIds : Stored(r) => recs'[r] # NoRec /\ SameSubject(recs'[r], recs[r])
    BY <1>2, DecisionNextKeepsRows
  <2>2. ASSUME \A u \in Users, r \in RecIds : held'[u][r] # NoRec => held'[u][r] = held[u][r]
        PROVE  HeldInv'
    BY <2>1, <2>2 DEF HeldInv, Stored, SameSubject
  <2>3. ASSUME NEW u \in Users, NEW T \in SUBSET RecIds, Load(u, T) PROVE HeldInv'
    <3>1. \A v \in Users, r \in RecIds :
            held'[v][r] = IF v = u THEN (IF r \in T THEN recs[r] ELSE NoRec) ELSE held[v][r]
      BY <2>3 DEF Load, TypeOK
    <3> QED
      BY <2>3, <3>1 DEF Load, HeldInv, Stored, SameSubject
  <2>4. ASSUME NEW u \in Users, Abandon(u) PROVE HeldInv'
    <3>1. \A v \in Users, r \in RecIds : held'[v][r] # NoRec => held'[v][r] = held[v][r]
      BY <2>4 DEF Abandon, TypeOK
    <3> QED
      BY <2>2, <3>1
  <2>5. CASE held' = held
    BY <2>2, <2>5
  <2> QED
    BY <1>2, <2>3, <2>4, <2>5
    DEF DecisionNext, Create, CreateRecommendation, Decisions, DecideOne,
        ApproveCrossTransfer, TransitionAndLog, CrossTransferNotified, DecideBulk, Reopen
<1> QED
  BY <1>1, <1>2

LEMMA SubjectDecidesCrossing ==
  ASSUME NEW x, NEW y, SameSubject(x, y)
  PROVE  IsCrossCoordinator(x) <=> IsCrossCoordinator(y)
BY DEF SameSubject, IsCrossCoordinator

(* Who may approve the loaded instance of a crossing transfer is a gerente. *)
LEMMA CrossDecisionByGerente ==
  ASSUME TypeOK, HeldInv, NEW u \in Users, NEW r \in RecIds, held[u][r] # NoRec,
         CanApprove(u, held[u][r]), NEW new \in States,
         IsCrossCoordinator(Decided(r, new, u))
  PROVE  u \in Gerentes /\ Decided(r, new, u).decidedBy = u
<1>1. Stored(r) /\ SameSubject(held[u][r], recs[r])
  BY DEF HeldInv
<1>2. /\ SameSubject(Decided(r, new, u), recs[r])
      /\ Decided(r, new, u).decidedBy = u
  BY <1>1, DecidedSubject, DecidedType
<1>3. IsCrossCoordinator(held[u][r])
  BY <1>1, <1>2, SubjectDecidesCrossing
<1> QED
  BY <1>2, <1>3 DEF CanApprove

LEMMA NextCross ==
  TypeOK /\ IssuedInv /\ HeldInv /\ CrossApprovedByGerente /\ [DecisionNext]_vars
    => CrossApprovedByGerente'
<1> SUFFICES ASSUME TypeOK, HeldInv, CrossApprovedByGerente, [DecisionNext]_vars,
                    NEW r \in RecIds, recs'[r] # NoRec, recs'[r].state = "approved",
                    IsCrossCoordinator(recs'[r])
             PROVE  recs'[r].decidedBy \in Gerentes
  BY DEF CrossApprovedByGerente, Stored, IsCrossCoordinator
<1>1. CASE recs'[r] = recs[r]
  BY <1>1 DEF CrossApprovedByGerente, Stored, IsCrossCoordinator
<1>2. CASE Create
  <2>1. PICK b \in Branches, p \in Parts, d \in Dates : CreateRecommendation(b, p, d)
    BY <1>2 DEF Create
  <2>2. PICK q \in RecIds, src \in SourcesFor(b), exceeded \in BOOLEAN :
          recs' = [recs EXCEPT ![q] = NewRow(b, p, d, src, exceeded)]
    BY <2>1 DEF CreateRecommendation
  <2>3. recs'[r] = recs[r]
    BY <2>2, NewRowType DEF TypeOK
  <2> QED
    BY <1>1, <2>3
<1>3. ASSUME NEW u \in Users, Decisions(u) PROVE recs'[r].decidedBy \in Gerentes
  <2>1. ASSUME NEW q \in RecIds, NEW action \in ApprovalActions, TransitionAndLog(u, q, action)
        PROVE  recs'[r].decidedBy \in Gerentes
    <3>1. ActionState[action] \in States
      BY ActionStateType
    <3>2. recs'[r] = recs[r] \/ (q = r /\ recs'[r] = Decided(r, ActionState[action], u))
      BY <2>1 DEF TransitionAndLog, TypeOK
    <3> QED
      BY <1>1, <2>1, <3>1, <3>2, CrossDecisionByGerente DEF TransitionAndLog
  <2>2. ASSUME NEW action \in BulkActions, DecideBulk(u, action)
        PROVE  recs'[r].decidedBy \in Gerentes
    <3>1. ActionState[action] \in States
      BY BulkAreApprovalActions, ActionStateType
    <3>2. \/ recs'[r] = recs[r]
          \/ r \in BulkSelection(u) /\ recs'[r] = Decided(r, ActionState[action], u)
      BY <2>2 DEF DecideBulk
    <3> QED
      BY <1>1, <3>1, <3>2, CrossDecisionByGerente DEF BulkSelection
  <2>3. ASSUME NEW q \in RecIds, Reopen(u, q) PROVE recs'[r].decidedBy \in Gerentes
    <3>1. recs'[r] = recs[r] \/ (q = r /\ recs'[r] = Decided(r, "pending", u))
      BY <2>3 DEF Reopen, TypeOK
    <3>2. q = r => Decided(r, "pending", u).state = "pending"
      BY <2>3, DecidedType DEF Reopen, MayTransition, States
    <3> QED
      BY <1>1, <3>1, <3>2
  <2>4. "approve" \in ApprovalActions
    BY DEF ApprovalActions, ActionState
  <2> QED
    BY <1>1, <1>3, <2>1, <2>2, <2>3, <2>4
    DEF Decisions, DecideOne, ApproveCrossTransfer, Load, CrossTransferNotified, Abandon
<1>4. CASE UNCHANGED vars
  BY <1>1, <1>4 DEF vars
<1> QED
  BY <1>2, <1>3, <1>4 DEF DecisionNext

(* Decisions are part of everything that can happen to the table. *)
LEMMA DecisionSpecIsSpec == DecisionSpec => Spec
<1>1. [DecisionNext]_vars => [Next]_vars
  BY DEF Next
<1> QED
  BY <1>1, PTL DEF DecisionSpec, Spec

LEMMA DecisionSpecInv == DecisionSpec => [](TypeOK /\ IssuedInv /\ HeldInv)
<1>1. Init => IssuedInv /\ HeldInv
  BY DEF Init, IssuedInv, HeldInv, Stored
<1> QED
  BY <1>1, DecisionSpecIsSpec, TypeCorrect, NextIssued, NextHeld, PTL DEF DecisionSpec

(* As long as nobody writes whole rows back, every approved transfer that  *)
(* crosses coordinators was approved by a gerente, although permissions    *)
(* are checked on instances loaded long before.                            *)
THEOREM CrossTransfersByGerente == DecisionSpec => []CrossApprovedByGerente
<1>1. Init => CrossApprovedByGerente
  BY DEF Init, CrossApprovedByGerente, Stored
<1> QED
  BY <1>1, DecisionSpecInv, NextCross, PTL DEF DecisionSpec

--------------------------------------------------------------------------------
(* The refinement of the alert board.  What a place shows is the pending    *)
(* row of its branch and part: there is one at most.                        *)

ShownFaithful ==
  \A s \in Slots :
    \/ Shown[s] = NoRec /\ ShownAt(s) = {}
    \/ \E r \in RecIds : Shown[s] = r /\ ShownAt(s) = {r}

LEMMA ShownIsPending == TypeOK /\ UniquePending => ShownFaithful
<1> SUFFICES ASSUME TypeOK, UniquePending, NEW s \in Slots
             PROVE  \/ Shown[s] = NoRec /\ ShownAt(s) = {}
                    \/ \E r \in RecIds : Shown[s] = r /\ ShownAt(s) = {r}
  BY DEF ShownFaithful
<1>1. CASE ShownAt(s) = {}
  BY <1>1 DEF Shown
<1>2. CASE ShownAt(s) # {}
  <2>1. PICK r : r \in ShownAt(s)
    BY <1>2
  <2>2. r \in RecIds /\ \A q \in ShownAt(s) : q = r
    BY <2>1 DEF ShownAt, SlotOf, SameSlot, UniquePending
  <2>3. ShownAt(s) = {r}
    BY <2>1, <2>2
  <2>4. Shown[s] = r
    BY <2>3 DEF Shown
  <2> QED
    BY <2>2, <2>3, <2>4
<1> QED
  BY <1>1, <1>2

LEMMA StoredSlot ==
  ASSUME TypeOK, NEW r \in RecIds, Stored(r)
  PROVE  /\ SlotOf(recs[r]) \in Slots /\ Home[r] = SlotOf(recs[r]) /\ Home[r] # NoRec
<1>1. SlotOf(recs[r]) \in Slots
  BY StoredType DEF SlotOf, Slots, Recommendation
<1> QED
  BY <1>1, NoRecIsNoSlot DEF Home

LEMMA BoardStarts == Init => Board!BoardInit
<1> SUFFICES ASSUME Init PROVE Board!BoardInit
  OBVIOUS
<1>1. \A r \in RecIds : ~Stored(r)
  BY DEF Init, Stored
<1>2. \A s \in Slots : ShownAt(s) = {}
  BY <1>1 DEF ShownAt
<1> QED
  BY <1>1, <1>2 DEF Board!BoardInit, Shown, Outcome, Home

(* Only rows make the board. *)
LEMMA BoardStutters == UNCHANGED recs => UNCHANGED <<Shown, Outcome, Home>>
BY DEF Shown, ShownAt, Stored, Outcome, Home

(* A created row is raised at its place, which was empty. *)
LEMMA CreateRaises ==
  ASSUME TypeOK, IssuedInv, ShownFaithful, ShownFaithful', Create
  PROVE  Board!BoardNext
<1>1. PICK b \in Branches, p \in Parts, d \in Dates : CreateRecommendation(b, p, d)
  BY DEF Create
<1>2. PICK r \in RecIds \ issued, src \in SourcesFor(b), exceeded \in BOOLEAN :
        recs' = [recs EXCEPT ![r] = NewRow(b, p, d, src, exceeded)]
  BY <1>1 DEF CreateRecommendation
<1>3. PICK row : row = NewRow(b, p, d, src, exceeded)
  OBVIOUS
<1>4. /\ row # NoRec /\ row.branch = b /\ row.part = p /\ row.state = "pending"
  BY <1>3, NewRowType DEF NewRow
<1>5. ~Stored(r)
  BY <1>2 DEF IssuedInv
<1>6. recs'[r] = row /\ \A q \in RecIds : q # r => recs'[q] = recs[q]
  BY <1>2, <1>3 DEF TypeOK
<1>7. PICK s : s = <<b, p>>
  OBVIOUS
<1>8. s \in Slots
  BY <1>7 DEF Slots
<1>9. ShownAt(s) = {} /\ Shown[s] = NoRec
  <2>1. ShownAt(s) = {}
    BY <1>1, <1>7 DEF CreateRecommendation, PendingAt, ShownAt, SlotOf
  <2> QED
    BY <1>8, <2>1 DEF Shown
<1>10. ASSUME NEW t \in Slots
       PROVE  Shown'[t] = IF t = s THEN r ELSE Shown[t]
  <2>1. CASE t = s
    <3>1. r \in (ShownAt(t))'
      BY <1>2, <1>4, <1>6, <1>7, <2>1 DEF ShownAt, SlotOf, Stored
    <3> QED
      BY <2>1, <3>1 DEF ShownFaithful
  <2>2. CASE t # s
    <3>1. (ShownAt(t))' = ShownAt(t)
      BY <1>4, <1>5, <1>6, <1>7, <2>2 DEF ShownAt, SlotOf, Stored
    <3> QED
      BY <2>2, <3>1 DEF ShownFaithful
  <2> QED
    BY <2>1, <2>2
<1>11. Home[r] = NoRec /\ Home' = [Home EXCEPT ![r] = s]
  BY <1>4, <1>5, <1>6, <1>7 DEF Home, Stored, SlotOf
<1>12. Outcome' = Outcome
  BY <1>4, <1>5, <1>6 DEF Outcome, Stored
<1>13. Shown' = [Shown EXCEPT ![s] = r]
  BY <1>10 DEF Shown
<1>14. Board!Raise(s, r)
  BY <1>9, <1>11, <1>12, <1>13 DEF Board!Raise
<1> QED
  BY <1>8, <1>14 DEF Board!BoardNext

(* Rows that are decided together are settled together. *)
LEMMA DecidedSettles ==
  ASSUME TypeOK, ShownFaithful, ShownFaithful', NEW S \in SUBSET RecIds, S # {},
         NEW u \in Users, NEW new \in States \ {"pending"},
         \A r \in S : MayTransition(r, new),
         recs' = [r \in RecIds |-> IF r \in S THEN Decided(r, new, u) ELSE recs[r]]
  PROVE  Board!BoardNext
<1>1. \A r \in S : Stored(r) /\ <<recs[r].state, new>> \in ValidTransitions
  BY DEF MayTransition
<1>2. ASSUME NEW r \in S
      PROVE  /\ recs'[r] # NoRec /\ recs'[r].state = new /\ SlotOf(recs'[r]) = SlotOf(recs[r])
             /\ Home[r] = SlotOf(recs[r]) /\ Home[r] \in Slots /\ Home[r] # NoRec
  BY <1>1, StoredSlot, DecidedType DEF SlotOf, SameSlot
<1>3. \A r \in RecIds : r \notin S => recs'[r] = recs[r]
  OBVIOUS
<1>4. ASSUME NEW a \in S PROVE new \in Board!Remaining(a)
  <2>1. CASE recs[a].state = "pending"
    <3>1. a \in ShownAt(Home[a])
      BY <1>1, <1>2, <2>1 DEF ShownAt
    <3>2. Shown[Home[a]] = a
      BY <1>2, <3>1 DEF ShownFaithful
    <3> QED
      BY <1>1, <1>2, <2>1, <3>2 DEF Board!Remaining, ValidTransitions
  <2>2. CASE recs[a].state # "pending"
    <3>1. Shown[Home[a]] # a
      BY <1>2, <2>2, NoRecAssumption DEF ShownFaithful, ShownAt
    <3>2. Outcome[a] = recs[a].state
      BY <1>1, <2>2 DEF Outcome
    <3> QED
      BY <1>1, <2>2, <3>1, <3>2 DEF Board!Remaining, ValidTransitions, States
  <2> QED
    BY <2>1, <2>2
<1>5. Outcome' = [a \in RecIds |-> IF a \in S THEN new ELSE Outcome[a]]
  BY <1>2, <1>3 DEF Outcome, Stored
<1>6. Home' = Home
  BY <1>1, <1>2, <1>3 DEF Home, Stored
<1>7. ASSUME NEW s \in Slots
      PROVE  Shown'[s] = IF Shown[s] \in S THEN NoRec ELSE Shown[s]
  <2>1. (ShownAt(s))' = ShownAt(s) \ S
    BY <1>2, <1>3 DEF ShownAt, Stored
  <2>2. CASE Shown[s] = NoRec /\ ShownAt(s) = {}
    BY <2>1, <2>2, NoRecAssumption DEF ShownFaithful
  <2>3. ASSUME NEW r \in RecIds, Shown[s] = r, ShownAt(s) = {r}
        PROVE  Shown'[s] = IF r \in S THEN NoRec ELSE r
    <3>1. CASE r \in S
      BY <2>1, <2>3, <3>1 DEF ShownFaithful
    <3>2. CASE r \notin S
      BY <2>1, <2>3, <3>2 DEF ShownFaithful
    <3> QED
      BY <3>1, <3>2
  <2> QED
    BY <2>2, <2>3 DEF ShownFaithful
<1>8. Shown' = [s \in Slots |-> IF Shown[s] \in S THEN NoRec ELSE Shown[s]]
  BY <1>7 DEF Shown
<1>9. Board!Settle(S, new)
  BY <1>4, <1>5, <1>6, <1>8 DEF Board!Settle
<1>10. new \in Board!Outcomes
  BY DEF Board!Outcomes, States
<1> QED
  BY <1>9, <1>10 DEF Board!BoardNext

(* A row that is reopened is brought back to its place. *)
LEMMA ReopenBringsBack ==
  ASSUME TypeOK, ShownFaithful, ShownFaithful', NEW u \in Users, NEW r \in RecIds, Reopen(u, r)
  PROVE  Board!BoardNext
<1>1. /\ Stored(r) /\ recs[r].state \in {"rejected", "handled"}
      /\ IndexAllows(r, Decided(r, "pending", u))
      /\ recs' = [recs EXCEPT ![r] = Decided(r, "pending", u)]
  BY DEF Reopen, MayTransition, ValidTransitions
<1>2. PICK s, row : s = Home[r] /\ row = Decided(r, "pending", u)
  OBVIOUS
<1>3. "pending" \in States
  BY DEF States
<1>4. row # NoRec /\ row.state = "pending" /\ SameSlot(row, recs[r])
  BY <1>1, <1>2, <1>3, DecidedType
<1>5. s \in Slots /\ s = SlotOf(recs[r]) /\ SlotOf(row) = s
  BY <1>1, <1>2, <1>4, StoredSlot DEF SlotOf, SameSlot
<1>6. recs'[r] = row /\ \A q \in RecIds : q # r => recs'[q] = recs[q]
  BY <1>1, <1>2 DEF TypeOK
<1>7. ShownAt(s) = {}
  BY <1>1, <1>2, <1>4, <1>5 DEF ShownAt, IndexAllows, SlotOf, SameSlot
<1>8. Shown[s] = NoRec
  BY <1>5, <1>7 DEF Shown
<1>9. ASSUME NEW t \in Slots PROVE Shown'[t] = IF t = s THEN r ELSE Shown[t]
  <2>1. CASE t = s
    <3>1. r \in (ShownAt(t))'
      BY <1>4, <1>5, <1>6, <2>1 DEF ShownAt, Stored
    <3> QED
      BY <2>1, <3>1 DEF ShownFaithful
  <2>2. CASE t # s
    <3>1. (ShownAt(t))' = ShownAt(t)
      BY <1>1, <1>5, <1>6, <2>2 DEF ShownAt, Stored
    <3> QED
      BY <2>2, <3>1 DEF ShownFaithful
  <2> QED
    BY <2>1, <2>2
<1>10. Shown' = [Shown EXCEPT ![s] = r]
  BY <1>9 DEF Shown
<1>11. Outcome[r] = recs[r].state /\ Outcome' = [Outcome EXCEPT ![r] = "open"]
  <2>1. Outcome[r] = recs[r].state
    BY <1>1 DEF Outcome
  <2>2. \A q \in RecIds : Outcome'[q] = IF q = r THEN "open" ELSE Outcome[q]
    BY <1>4, <1>6 DEF Outcome, Stored
  <2> QED
    BY <2>1, <2>2 DEF Outcome
<1>12. Home' = Home
  BY <1>1, <1>4, <1>5, <1>6 DEF Home, Stored
<1>13. Board!BringBack(r)
  BY <1>1, <1>2, <1>8, <1>10, <1>11, <1>12 DEF Board!BringBack
<1> QED
  BY <1>13 DEF Board!BoardNext

LEMMA BoardSteps ==
  TypeOK /\ IssuedInv /\ ShownFaithful /\ ShownFaithful' /\ [DecisionNext]_vars
    => [Board!BoardNext]_<<Shown, Outcome, Home>>
<1> SUFFICES ASSUME TypeOK, IssuedInv, ShownFaithful, ShownFaithful', [DecisionNext]_vars
             PROVE  [Board!BoardNext]_<<Shown, Outcome, Home>>
  OBVIOUS
<1>1. CASE UNCHANGED recs
  BY <1>1, BoardStutters
<1>2. ASSUME NEW u \in Users, Decisions(u)
      PROVE  [Board!BoardNext]_<<Shown, Outcome, Home>>
  <2>1. ASSUME NEW r \in RecIds, NEW action \in ApprovalActions, TransitionAndLog(u, r, action)
        PROVE  Board!BoardNext
    <3>1. ActionState[action] \in States \ {"pending"}
      BY ActionStateType
    <3>2. recs' = [q \in RecIds |-> IF q \in {r} THEN Decided(q, ActionState[action], u)
                                   ELSE recs[q]]
      BY <2>1 DEF TransitionAndLog, TypeOK
    <3>3. \A q \in {r} : MayTransition(q, ActionState[action])
      BY <2>1 DEF TransitionAndLog
    <3> QED
      BY <3>1, <3>2, <3>3, DecidedSettles
  <2>2. ASSUME NEW action \in BulkActions, DecideBulk(u, action) PROVE Board!BoardNext
    <3>1. ActionState[action] \in States \ {"pending"}
      BY BulkAreApprovalActions, ActionStateType
    <3>2. BulkSelection(u) \subseteq RecIds
      BY DEF BulkSelection
    <3> QED
      BY <2>2, <3>1, <3>2, DecidedSettles DEF DecideBulk
  <2>3. ASSUME NEW r \in RecIds, Reopen(u, r) PROVE Board!BoardNext
    BY <2>3, ReopenBringsBack
  <2>4. "approve" \in ApprovalActions
    BY DEF ApprovalActions, ActionState
  <2> QED
    BY <1>1, <1>2, <2>1, <2>2, <2>3, <2>4
    DEF Decisions, DecideOne, ApproveCrossTransfer, Load, CrossTransferNotified, Abandon
<1>3. CASE UNCHANGED vars
  BY <1>1, <1>3 DEF vars
<1> QED
  BY <1>2, <1>3, CreateRaises DEF DecisionNext

(* Creation and decisions implement the alert board: for any branches,      *)
(* parts, rows and callers who decide on instances they loaded long ago.    *)
THEOREM DecisionsImplementBoard == DecisionSpec => BoardImplemented
<1>1. DecisionSpec => [](TypeOK /\ IssuedInv /\ UniquePending)
  BY DecisionSpecInv, DecisionSpecIsSpec, OnePendingPerSlot, PTL
<1> QED
  BY <1>1, ShownIsPending, BoardStarts, BoardSteps, PTL
  DEF DecisionSpec, BoardImplemented, Board!BoardSpec, Board!boardVars

--------------------------------------------------------------------------------
(* The scheduled runs. *)


(* What the types alone do not say: a queued task has attempts left, and a *)
(* generator about to create is at a part.                                 *)
RunBase ==
  /\ RunTypeOK
  /\ \A b \in Branches : task[b].state = "queued" => task[b].tries < MaxAttempts
  /\ \A w \in Procs : job[w] # NoJob /\ job[w].creating => job[w].part \in Parts

LEMMA JobType ==
  ASSUME RunTypeOK, NEW w \in Procs, job[w] # NoJob
  PROVE  job[w] \in Job
BY DEF RunTypeOK

LEMMA NewJobType ==
  ASSUME NEW b \in Branches, NEW d \in Dates
  PROVE  NewJob(b, d) \in Job /\ ~NewJob(b, d).creating /\ NewJob(b, d).part = 1
BY PartsAssumption DEF NewJob, Job

LEMMA NextPartType ==
  ASSUME RunTypeOK, NEW w \in Procs, job[w] # NoJob, job[w].part \in Parts
  PROVE  /\ NextPart(w) \in [Procs -> Job \cup {NoJob}]
         /\ NextPart(w)[w] \in Job /\ ~NextPart(w)[w].creating
         /\ NextPart(w)[w].branch = job[w].branch /\ NextPart(w)[w].date = job[w].date
         /\ NextPart(w)[w].part = job[w].part + 1
         /\ \A v \in Procs : v # w => NextPart(w)[v] = job[v]
<1> DEFINE next == [job[w] EXCEPT !.part = @ + 1, !.creating = FALSE]
<1>1. job[w].part + 1 \in 1 .. NumParts + 1
  BY PartsAssumption DEF Parts
<1>2. job[w] \in Job
  BY JobType
<1>3. /\ next \in Job /\ next.creating = FALSE
      /\ next.branch = job[w].branch /\ next.date = job[w].date
      /\ next.part = job[w].part + 1
  BY <1>1, <1>2 DEF Job
<1>4. NextPart(w) = [job EXCEPT ![w] = next]
  BY DEF NextPart, RunTypeOK
<1> HIDE DEF next
<1> QED
  BY <1>3, <1>4 DEF RunTypeOK

(* Counting the recommendation just made. *)
LEMMA MadeType ==
  ASSUME NEW j \in Job
  PROVE  /\ [j EXCEPT !.made = @ + 1] \in Job
         /\ [j EXCEPT !.made = @ + 1].creating = j.creating
         /\ [j EXCEPT !.made = @ + 1].part = j.part
         /\ [j EXCEPT !.made = @ + 1].branch = j.branch
         /\ [j EXCEPT !.made = @ + 1].date = j.date
BY DEF Job

LEMMA InitBase == RunInit => RunBase
BY RunAssumption DEF RunInit, RunBase, RunTypeOK, NoTask

LEMMA AttemptLostBase ==
  ASSUME RunBase, NEW w \in Procs, job[w] # NoJob, AttemptLost(w)
  PROVE  RunBase'
<1>1. job[w].branch \in Branches /\ job[w].date \in Dates
  BY JobType DEF Job, RunBase
<1>2. /\ job' \in [Procs -> Job \cup {NoJob}]
      /\ \A v \in Procs : job'[v] = IF v = w THEN NoJob ELSE job[v]
  BY DEF AttemptLost, RunBase, RunTypeOK
<1>3. /\ task' \in [Branches -> [state : {"none", "queued", "running"}, tries : 0 .. MaxAttempts]]
      /\ \A b \in Branches : task'[b].state = "queued" => task'[b].tries < MaxAttempts
      /\ settled' \in SUBSET (Branches \X Dates)
  BY <1>1, RunAssumption DEF AttemptLost, RunBase, RunTypeOK, NoTask
<1> QED
  BY <1>2, <1>3 DEF AttemptLost, RunBase, RunTypeOK

(* A step that leaves the variables of the run's bookkeeping typed. *)
LEMMA ProcStepBase ==
  ASSUME RunBase, NEW w \in Procs, ProcStep(w)
  PROVE  RunBase'
<1>1. CASE Examine(w)
  <2>1. job[w] # NoJob /\ job[w].part \in Parts
    BY <1>1 DEF Examine
  <2>2. CASE job' = NextPart(w)
    <3>1. /\ job' \in [Procs -> Job \cup {NoJob}]
          /\ ~job'[w].creating
          /\ \A v \in Procs : v # w => job'[v] = job[v]
      BY <2>1, <2>2, NextPartType DEF RunBase
    <3> QED
      BY <1>1, <3>1 DEF Examine, RunBase, RunTypeOK
  <2>3. CASE job' = [job EXCEPT ![w].creating = TRUE]
    <3>1. [job[w] EXCEPT !.creating = TRUE] \in Job
      BY <2>1, JobType DEF Job, RunBase
    <3>2. \A v \in Procs : job'[v] = IF v = w THEN [job[w] EXCEPT !.creating = TRUE] ELSE job[v]
      BY <2>3 DEF RunBase, RunTypeOK
    <3>3. job'[w].part \in Parts
      BY <2>1, <3>2, JobType DEF RunBase, Job
    <3>4. job' \in [Procs -> Job \cup {NoJob}]
      BY <2>3, <3>1 DEF RunBase, RunTypeOK
    <3> QED
      BY <1>1, <3>2, <3>3, <3>4 DEF Examine, RunBase, RunTypeOK
  <2> QED
    BY <1>1, <2>2, <2>3 DEF Examine
<1>2. CASE Generate(w)
  <2>1. job[w] # NoJob /\ job[w].part \in Parts
    BY <1>2 DEF Generate, RunBase
  <2> DEFINE next == NextPart(w)[w]
  <2>2. /\ NextPart(w) \in [Procs -> Job \cup {NoJob}]
        /\ next \in Job /\ ~next.creating
        /\ \A v \in Procs : v # w => NextPart(w)[v] = job[v]
    BY <2>1, NextPartType DEF RunBase
  <2>3. job' = [NextPart(w) EXCEPT ![w] = [next EXCEPT !.made = @ + 1]]
    BY <1>2, <2>2 DEF Generate
  <2>4. [next EXCEPT !.made = @ + 1] \in Job /\ ~[next EXCEPT !.made = @ + 1].creating
    BY <2>2, MadeType
  <2> HIDE DEF next
  <2>5. /\ job' \in [Procs -> Job \cup {NoJob}]
        /\ ~job'[w].creating
        /\ \A v \in Procs : v # w => job'[v] = job[v]
    BY <2>2, <2>3, <2>4
  <2> QED
    BY <1>2, <2>5 DEF Generate, RunBase, RunTypeOK
<1>3. CASE GenerateRefused(w)
  BY <1>3, AttemptLostBase DEF GenerateRefused
<1>4. CASE FinishRun(w)
  <2>1. job[w] # NoJob /\ job[w] \in Job
    BY <1>4, JobType DEF FinishRun, RunBase
  <2>2. CASE AttemptLost(w)
    BY <2>1, <2>2, AttemptLostBase
  <2>3. CASE ~AttemptLost(w)
    <3>1. \A v \in Procs : job'[v] = IF v = w THEN NoJob ELSE job[v]
      BY <1>4, <2>3 DEF FinishRun, RunBase, RunTypeOK
    <3>2. job' \in [Procs -> Job \cup {NoJob}]
      BY <1>4, <2>3 DEF FinishRun, RunBase, RunTypeOK
    <3>3. /\ task' \in [Branches -> [state : {"none", "queued", "running"}, tries : 0 .. MaxAttempts]]
          /\ \A b \in Branches : task'[b].state = "queued" => task'[b].tries < MaxAttempts
      BY <1>4, <2>3, RunAssumption DEF FinishRun, RunBase, RunTypeOK, NoTask
    <3>4. /\ runs' \in SUBSET [branch : Branches, date : Dates, count : Nat]
          /\ settled' \in SUBSET (Branches \X Dates)
      BY <1>4, <2>1, <2>3 DEF FinishRun, RunBase, RunTypeOK, Job
    <3>5. UNCHANGED <<today, due, fired, overlapped>>
      BY <1>4, <2>3 DEF FinishRun
    <3> QED
      BY <3>1, <3>2, <3>3, <3>4, <3>5 DEF RunBase, RunTypeOK
  <2> QED
    BY <2>2, <2>3
<1> QED
  BY <1>1, <1>2, <1>3, <1>4 DEF ProcStep

LEMMA WithJobType ==
  ASSUME RunBase, NEW b \in Branches
  PROVE  WithJob(b) \in SUBSET Branches
BY DEF WithJob, RunBase, RunTypeOK

LEMMA NextBase == RunBase /\ [RunNext]_allVars => RunBase'
<1> SUFFICES ASSUME RunBase, [RunNext]_allVars PROVE RunBase'
  OBVIOUS
<1>1. CASE NextDay
  BY <1>1 DEF NextDay, RunBase, RunTypeOK
<1>2. ASSUME NEW b \in Branches, ScheduleFires(b) PROVE RunBase'
  BY <1>2, RunAssumption DEF ScheduleFires, RunBase, RunTypeOK
<1>3. ASSUME NEW w \in Workers, NEW b \in Branches, StartTask(w, b) PROVE RunBase'
  <2>1. w \in Procs /\ today \in Dates
    BY DEF Procs, RunBase, RunTypeOK
  <2>2. CASE Recorded(b, today)
    BY <1>3, <2>1, <2>2, RunAssumption DEF StartTask, RunBase, RunTypeOK, NoTask
  <2>3. CASE ~Recorded(b, today)
    <3>1. /\ task' = [task EXCEPT ![b] = [state |-> "running", tries |-> task[b].tries + 1]]
          /\ job' = [job EXCEPT ![w] = NewJob(b, today)]
          /\ UNCHANGED <<today, due, fired, runs, settled>>
          /\ overlapped' \in SUBSET Branches
      BY <1>3, <2>3, WithJobType DEF StartTask
    <3>2. task[b].tries + 1 \in 0 .. MaxAttempts
      BY <1>3, RunAssumption DEF StartTask, RunBase, RunTypeOK
    <3>3. /\ task' \in [Branches -> [state : {"none", "queued", "running"}, tries : 0 .. MaxAttempts]]
          /\ \A c \in Branches : task'[c].state = "queued" => task'[c].tries < MaxAttempts
      BY <3>1, <3>2 DEF RunBase, RunTypeOK
    <3>4. /\ job' \in [Procs -> Job \cup {NoJob}]
          /\ \A v \in Procs : job'[v] = IF v = w THEN NewJob(b, today) ELSE job[v]
      BY <2>1, <3>1, NewJobType DEF RunBase, RunTypeOK
    <3> QED
      BY <2>1, <3>1, <3>3, <3>4, NewJobType DEF RunBase, RunTypeOK
  <2> QED
    BY <2>2, <2>3
<1>4. ASSUME NEW w \in WebProcs, NEW b \in Branches, StartTestRun(w, b) PROVE RunBase'
  <2>1. w \in Procs /\ today \in Dates
    BY DEF Procs, RunBase, RunTypeOK
  <2>2. /\ job' \in [Procs -> Job \cup {NoJob}]
        /\ \A v \in Procs : job'[v] = IF v = w THEN NewJob(b, today) ELSE job[v]
        /\ overlapped' \in SUBSET Branches
    BY <1>4, <2>1, NewJobType, WithJobType DEF StartTestRun, RunBase, RunTypeOK
  <2> QED
    BY <1>4, <2>1, <2>2, NewJobType DEF StartTestRun, RunBase, RunTypeOK
<1>5. ASSUME NEW w \in Procs, ProcStep(w) PROVE RunBase'
  BY <1>5, ProcStepBase
<1>6. ASSUME NEW w \in Procs, Crash(w) PROVE RunBase'
  BY <1>6, AttemptLostBase DEF Crash
<1>7. CASE UNCHANGED runVars
  BY <1>7 DEF runVars, RunBase, RunTypeOK
<1> QED
  BY <1>1, <1>2, <1>3, <1>4, <1>5, <1>6, <1>7 DEF RunNext, CalmNext, allVars

LEMMA RunBaseKept == RunSpec => []RunBase
BY InitBase, NextBase, PTL DEF RunSpec

(* The bookkeeping of the run keeps its types: no task is attempted more   *)
(* than max_attempts times and every generator is at a part of its branch. *)
THEOREM RunTypeCorrect == RunSpec => []RunTypeOK
<1>1. RunBase => RunTypeOK
  BY DEF RunBase
<1> QED
  BY <1>1, RunBaseKept, PTL

--------------------------------------------------------------------------------
(* The run touches the table only by creating. *)

LEMMA StepIsDecision == RunBase /\ [RunNext]_allVars => [DecisionNext]_vars
<1> SUFFICES ASSUME RunBase, [RunNext]_allVars PROVE [DecisionNext]_vars
  OBVIOUS
<1>1. ASSUME NEW w \in Procs, Generate(w) PROVE DecisionNext
  <2>1. job[w].branch \in Branches /\ job[w].date \in Dates /\ job[w].part \in Parts
    BY <1>1, JobType DEF Generate, RunBase, Job
  <2> QED
    BY <1>1, <2>1 DEF Generate, DecisionNext, Create
<1>2. CASE UNCHANGED vars
  BY <1>2
<1>3. ASSUME NEW w \in Procs, AttemptLost(w) PROVE UNCHANGED vars
  BY <1>3 DEF AttemptLost
<1>4. ASSUME NEW w \in Procs, FinishRun(w) PROVE UNCHANGED vars
  BY <1>3, <1>4 DEF FinishRun
<1> QED
  BY <1>1, <1>2, <1>3, <1>4
  DEF RunNext, CalmNext, allVars, NextDay, ScheduleFires, StartTask, StartTestRun,
      ProcStep, Examine, GenerateRefused, Crash, DecisionNext

(* The replenishment run, with its redeliveries and crashes, behaves on    *)
(* the table as creations and decisions do: it never deletes or rewrites.  *)
THEOREM RunRefinesDecisions == RunSpec => DecisionSpec
<1>1. RunInit => Init
  BY DEF RunInit
<1> QED
  BY <1>1, RunBaseKept, StepIsDecision, PTL DEF RunSpec, DecisionSpec

LEMMA TableKept == RunSpec => [](TypeOK /\ IssuedInv)
BY RunRefinesDecisions, DecisionSpecInv, PTL

(* ExistsForRun with the table as a parameter, to speak of two moments. *)
ServedBy(table, b, p, d) ==
  \E r \in RecIds : /\ table[r] # NoRec
                    /\ table[r].branch = b /\ table[r].part = p /\ table[r].runDate = d

(* A recommendation of a run stays one of that run, whatever is decided. *)
LEMMA ServedKept ==
  ASSUME TypeOK, IssuedInv, [DecisionNext]_vars, NEW b, NEW p, NEW d, ServedBy(recs, b, p, d)
  PROVE  ServedBy(recs', b, p, d)
<1>1. PICK r \in RecIds : /\ Stored(r)
                         /\ recs[r].branch = b /\ recs[r].part = p /\ recs[r].runDate = d
  BY DEF ServedBy, Stored
<1>2. CASE DecisionNext
  BY <1>1, <1>2, DecisionNextKeepsRows DEF ServedBy, SameSubject
<1>3. CASE UNCHANGED vars
  BY <1>1, <1>3 DEF vars, ServedBy, Stored
<1> QED
  BY <1>2, <1>3

(* A generator has served every due part before the one it is at, in this  *)
(* attempt or in an earlier one: that is why a finished run is complete.   *)
PartsServed ==
  \A w \in Procs, p \in Parts :
    /\ job[w] # NoJob
    /\ p < job[w].part
    /\ <<job[w].branch, p>> \in due
    => ServedBy(recs, job[w].branch, p, job[w].date)

RunsServed ==
  \A run \in runs, p \in Parts :
    <<run.branch, p>> \in due => ServedBy(recs, run.branch, p, run.date)

(* The generator's next part, once the one it is at is served. *)
LEMMA NextPartServed ==
  ASSUME PartsServed, due' = due, NEW w \in Procs, job[w] # NoJob, job[w] \in Job,
         job[w].part \in Parts,
         \A b, p, d : ServedBy(recs, b, p, d) => ServedBy(recs', b, p, d),
         \A v \in Procs : v # w => job'[v] = job[v],
         job'[w].branch = job[w].branch, job'[w].date = job[w].date,
         job'[w].part = job[w].part + 1,
         <<job[w].branch, job[w].part>> \in due =>
           ServedBy(recs', job[w].branch, job[w].part, job[w].date)
  PROVE  PartsServed'
<1> SUFFICES ASSUME NEW v \in Procs, NEW p \in Parts,
                    job'[v] # NoJob, p < job'[v].part,
                    <<job'[v].branch, p>> \in due
             PROVE  ServedBy(recs', job'[v].branch, p, job'[v].date)
  BY DEF PartsServed
<1>1. CASE v # w
  BY <1>1 DEF PartsServed
<1>2. CASE v = w /\ p = job[w].part
  BY <1>2
<1>3. CASE v = w /\ p # job[w].part
  <2>1. p < job[w].part
    BY <1>3, PartsAssumption DEF Parts
  <2> QED
    BY <1>3, <2>1 DEF PartsServed
<1> QED
  BY <1>1, <1>2, <1>3

LEMMA ExamineServed ==
  ASSUME RunBase, PartsServed, NEW w \in Procs, Examine(w)
  PROVE  PartsServed'
<1>1. /\ job[w] # NoJob /\ job[w] \in Job /\ job[w].part \in Parts
      /\ recs' = recs /\ due' = due
  BY JobType DEF Examine, RunBase, vars
<1>2. CASE job' = NextPart(w)
  <2>1. <<job[w].branch, job[w].part>> \in due =>
          ServedBy(recs, job[w].branch, job[w].part, job[w].date)
    <3>1. CASE ExistsForRun(job[w].branch, job[w].part, job[w].date)
      BY <3>1 DEF ExistsForRun, ServedBy, Stored
    <3>2. CASE <<job[w].branch, job[w].part>> \notin due
      BY <3>2
    <3>3. CASE job' = [job EXCEPT ![w].creating = TRUE]
      BY <1>1, <1>2, <3>3, NextPartType DEF RunBase, RunTypeOK, Job
    <3> QED
      BY <3>1, <3>2, <3>3 DEF Examine
  <2> QED
    BY <1>1, <1>2, <2>1, NextPartType, NextPartServed DEF RunBase
<1>3. CASE job' = [job EXCEPT ![w].creating = TRUE]
  <2>1. \A v \in Procs : /\ job'[v] # NoJob => job[v] # NoJob
                          /\ job'[v].part = job[v].part
                          /\ job'[v].branch = job[v].branch
                          /\ job'[v].date = job[v].date
    BY <1>1, <1>3 DEF RunBase, RunTypeOK, Job
  <2> QED
    BY <1>1, <2>1 DEF PartsServed
<1> QED
  BY <1>2, <1>3 DEF Examine

LEMMA GenerateServed ==
  ASSUME TypeOK, IssuedInv, RunBase, PartsServed, [DecisionNext]_vars,
         NEW w \in Procs, Generate(w)
  PROVE  PartsServed'
<1> DEFINE b == job[w].branch
           p == job[w].part
           d == job[w].date
           next == NextPart(w)[w]
<1>1. /\ job[w] # NoJob /\ job[w] \in Job /\ p \in Parts
      /\ b \in Branches /\ d \in Dates /\ due' = due
  BY JobType DEF Generate, RunBase, Job
<1>2. CreateRecommendation(b, p, d)
  BY DEF Generate
<1>3. ServedBy(recs', b, p, d)
  <2> HIDE DEF b, p, d
  <2>1. PICK r \in RecIds, src \in SourcesFor(b), exceeded \in BOOLEAN :
          recs' = [recs EXCEPT ![r] = NewRow(b, p, d, src, exceeded)]
    BY <1>2 DEF CreateRecommendation
  <2>2. recs'[r] = NewRow(b, p, d, src, exceeded)
    BY <2>1 DEF TypeOK
  <2>3. /\ recs'[r] # NoRec /\ recs'[r].branch = b
        /\ recs'[r].part = p /\ recs'[r].runDate = d
    BY <1>1, <2>2, NewRowType
  <2> QED
    BY <2>3 DEF ServedBy
<1>4. \A c, q, e : ServedBy(recs, c, q, e) => ServedBy(recs', c, q, e)
  BY ServedKept
<1>5. /\ next \in Job /\ next.branch = b /\ next.date = d /\ next.part = p + 1
      /\ \A v \in Procs : v # w => NextPart(w)[v] = job[v]
      /\ NextPart(w) \in [Procs -> Job \cup {NoJob}]
  BY <1>1, NextPartType DEF RunBase
<1>6. job' = [NextPart(w) EXCEPT ![w] = [next EXCEPT !.made = @ + 1]]
  BY <1>5 DEF Generate
<1>7. /\ [next EXCEPT !.made = @ + 1].branch = b
      /\ [next EXCEPT !.made = @ + 1].date = d
      /\ [next EXCEPT !.made = @ + 1].part = p + 1
  BY <1>5, MadeType
<1> HIDE DEF next
<1>8. /\ \A v \in Procs : v # w => job'[v] = job[v]
      /\ job'[w].branch = b /\ job'[w].date = d /\ job'[w].part = p + 1
  BY <1>5, <1>6, <1>7
<1> QED
  BY <1>1, <1>3, <1>4, <1>8, NextPartServed

(* A process that stops, or starts at its first part, owes nothing. *)
LEMMA OthersServed ==
  ASSUME PartsServed, due' = due,
         \A b, p, d : ServedBy(recs, b, p, d) => ServedBy(recs', b, p, d),
         \A w \in Procs : job'[w] = job[w] \/ job'[w] = NoJob \/ job'[w].part = 1
  PROVE  PartsServed'
<1> SUFFICES ASSUME NEW v \in Procs, NEW p \in Parts,
                    job'[v] # NoJob, p < job'[v].part,
                    <<job'[v].branch, p>> \in due
             PROVE  ServedBy(recs', job'[v].branch, p, job'[v].date)
  BY DEF PartsServed
<1>1. job'[v].part # 1
  BY PartsAssumption DEF Parts
<1>2. job'[v] = job[v]
  BY <1>1
<1> QED
  BY <1>2 DEF PartsServed

LEMMA NextServed ==
  TypeOK /\ IssuedInv /\ RunBase /\ PartsServed /\ [RunNext]_allVars => PartsServed'
<1> SUFFICES ASSUME TypeOK, IssuedInv, RunBase, PartsServed, [RunNext]_allVars
             PROVE  PartsServed'
  OBVIOUS
<1>1. [DecisionNext]_vars
  BY StepIsDecision
<1>2. \A b, p, d : ServedBy(recs, b, p, d) => ServedBy(recs', b, p, d)
  BY <1>1, ServedKept
<1>3. ASSUME NEW w \in Procs, AttemptLost(w) PROVE PartsServed'
  <2>1. due' = due /\ \A v \in Procs : job'[v] = job[v] \/ job'[v] = NoJob
    BY <1>3 DEF AttemptLost, RunBase, RunTypeOK
  <2> QED
    BY <1>2, <2>1, OthersServed
<1>4. ASSUME NEW w \in Workers, NEW b \in Branches, StartTask(w, b) PROVE PartsServed'
  <2>1. w \in Procs /\ today \in Dates
    BY DEF Procs, RunBase, RunTypeOK
  <2>2. \A v \in Procs : job'[v] = job[v] \/ job'[v].part = 1
    BY <1>4, <2>1, NewJobType DEF StartTask, RunBase, RunTypeOK
  <2> QED
    BY <1>2, <1>4, <2>2, OthersServed DEF StartTask
<1>5. ASSUME NEW w \in WebProcs, NEW b \in Branches, StartTestRun(w, b) PROVE PartsServed'
  <2>1. w \in Procs /\ today \in Dates
    BY DEF Procs, RunBase, RunTypeOK
  <2>2. \A v \in Procs : job'[v] = job[v] \/ job'[v].part = 1
    BY <1>5, <2>1, NewJobType DEF StartTestRun, RunBase, RunTypeOK
  <2> QED
    BY <1>2, <1>5, <2>2, OthersServed DEF StartTestRun
<1>6. ASSUME NEW w \in Procs, FinishRun(w) PROVE PartsServed'
  <2>1. due' = due /\ \A v \in Procs : job'[v] = job[v] \/ job'[v] = NoJob
    BY <1>6 DEF FinishRun, AttemptLost, RunBase, RunTypeOK
  <2> QED
    BY <1>2, <2>1, OthersServed
<1>7. ASSUME UNCHANGED <<due, job>> PROVE PartsServed'
  BY <1>2, <1>7, OthersServed
<1>8. ASSUME NEW w \in Procs, ProcStep(w) PROVE PartsServed'
  BY <1>1, <1>3, <1>6, <1>8, ExamineServed, GenerateServed DEF ProcStep, GenerateRefused
<1> QED
  BY <1>3, <1>4, <1>5, <1>7, <1>8
  DEF RunNext, CalmNext, allVars, runVars, NextDay, ScheduleFires, Crash

LEMMA NextRunsServed ==
  TypeOK /\ IssuedInv /\ RunBase /\ PartsServed /\ RunsServed /\ [RunNext]_allVars
    => RunsServed'
<1> SUFFICES ASSUME TypeOK, IssuedInv, RunBase, PartsServed, RunsServed, [RunNext]_allVars
             PROVE  RunsServed'
  OBVIOUS
<1>1. \A b, p, d : ServedBy(recs, b, p, d) => ServedBy(recs', b, p, d)
  BY StepIsDecision, ServedKept
<1>2. CASE runs' = runs /\ due' = due
  BY <1>1, <1>2 DEF RunsServed
<1>3. ASSUME NEW w \in Procs, FinishRun(w), ~(runs' = runs /\ due' = due) PROVE RunsServed'
  <2> DEFINE new == [branch |-> job[w].branch, date |-> job[w].date, count |-> job[w].made]
  <2>1. /\ runs' = runs \cup {new} /\ due' = due
        /\ job[w] # NoJob /\ job[w].part = NumParts + 1
    BY <1>3 DEF FinishRun, AttemptLost, AllPartsDone
  <2>2. \A p \in Parts : <<new.branch, p>> \in due => ServedBy(recs, new.branch, p, new.date)
    <3>1. \A p \in Parts : p < NumParts + 1
      BY PartsAssumption DEF Parts
    <3> QED
      BY <2>1, <3>1 DEF PartsServed
  <2> HIDE DEF new
  <2> QED
    BY <1>1, <2>1, <2>2 DEF RunsServed
<1> QED
  BY <1>2, <1>3
  DEF RunNext, CalmNext, allVars, runVars, NextDay, ScheduleFires, StartTask, StartTestRun,
      ProcStep, Examine, Generate, GenerateRefused, Crash, AttemptLost

(* A ScheduledRun row is written only for a complete run: every due part   *)
(* of the branch has a recommendation of that date, even when the attempts *)
(* before it crashed anywhere, another process generated at the same time, *)
(* and the recommendations were decided in between.                        *)
THEOREM RecordedRunsAreComplete == RunSpec => []RecordedRunIsComplete
<1>1. RunInit => PartsServed /\ RunsServed
  BY DEF RunInit, PartsServed, RunsServed
<1>2. RunSpec => [](PartsServed /\ RunsServed)
  BY <1>1, RunBaseKept, TableKept, NextServed, NextRunsServed, PTL DEF RunSpec
<1>3. RunsServed => RecordedRunIsComplete
  BY DEF RunsServed, RecordedRunIsComplete, ServedBy, ExistsForRun, Stored
<1> QED
  BY <1>2, <1>3, PTL

--------------------------------------------------------------------------------
(* One recommendation per run: two processes that generate for one branch  *)
(* are recorded as overlapping, and a generator about to create for a      *)
(* branch nobody else generates for has seen that the part has none.       *)
OneJobPerBranch ==
  \A v, w \in Procs :
    /\ job[v] # NoJob /\ job[w] # NoJob
    /\ job[v].branch = job[w].branch
    /\ job[v].branch \notin overlapped
    => v = w

UnservedBefore ==
  \A w \in Procs :
    /\ job[w] # NoJob /\ job[w].creating
    /\ job[w].branch \notin overlapped
    => ~ServedBy(recs, job[w].branch, job[w].part, job[w].date)

UniqueInv == OneJobPerBranch /\ UnservedBefore /\ OneRecommendationPerRun

(* A decision leaves the table with the recommendations it has. *)
LEMMA DecisionsAddNoRow ==
  ASSUME TypeOK, NEW u \in Users, Decisions(u), NEW r \in RecIds, ~Stored(r)
  PROVE  recs'[r] = NoRec
BY DEF Decisions, Load, DecideOne, ApproveCrossTransfer, TransitionAndLog, MayTransition,
       CrossTransferNotified, DecideBulk, Reopen, Abandon, Stored, TypeOK

(* The steps that create nothing, and no generator becomes about to create. *)
LEMMA QuietUnique ==
  ASSUME UniqueInv,
         \A r \in RecIds : recs'[r] # NoRec => Stored(r) /\ SameSubject(recs'[r], recs[r]),
         overlapped \subseteq overlapped',
         \A w \in Procs : \/ job'[w] = job[w] \/ job'[w] = NoJob
                          \/ /\ ~job'[w].creating
                             /\ job'[w].branch = job[w].branch /\ job[w] # NoJob
  PROVE  UniqueInv'
<1>1. OneJobPerBranch'
  BY DEF UniqueInv, OneJobPerBranch
<1>2. \A b, p, d : ServedBy(recs', b, p, d) => ServedBy(recs, b, p, d)
  BY DEF ServedBy, Stored, SameSubject
<1>3. UnservedBefore'
  BY <1>2 DEF UniqueInv, UnservedBefore
<1>4. OneRecommendationPerRun'
  BY DEF UniqueInv, OneRecommendationPerRun, Stored, SameSlot, SameSubject
<1> QED
  BY <1>1, <1>3, <1>4 DEF UniqueInv

(* A generator that starts is alone, or its branch is overlapped. *)
LEMMA StartUnique ==
  ASSUME RunBase, UniqueInv, UNCHANGED recs, NEW w \in Procs, NEW b \in Branches,
         job[w] = NoJob, today \in Dates,
         job' = [job EXCEPT ![w] = NewJob(b, today)], overlapped' = WithJob(b)
  PROVE  UniqueInv'
<1>1. \A v \in Procs : job'[v] = IF v = w THEN NewJob(b, today) ELSE job[v]
  BY DEF RunBase, RunTypeOK
<1>2. overlapped \subseteq overlapped'
  BY DEF WithJob
<1>3. \A v \in Procs : job[v] # NoJob /\ job[v].branch = b => b \in overlapped'
  BY DEF WithJob
<1>4. NewJob(b, today).branch = b /\ ~NewJob(b, today).creating
  BY DEF NewJob
<1>5. OneJobPerBranch'
  BY <1>1, <1>2, <1>3, <1>4 DEF UniqueInv, OneJobPerBranch
<1>6. UnservedBefore'
  BY <1>1, <1>2, <1>4 DEF UniqueInv, UnservedBefore
<1>7. OneRecommendationPerRun'
  BY <1>2 DEF UniqueInv, OneRecommendationPerRun, Stored
<1> QED
  BY <1>5, <1>6, <1>7 DEF UniqueInv

LEMMA ExamineUnique ==
  ASSUME RunBase, UniqueInv, NEW w \in Procs, Examine(w)
  PROVE  UniqueInv'
<1>1. /\ job[w] # NoJob /\ job[w] \in Job /\ job[w].part \in Parts
      /\ recs' = recs /\ overlapped' = overlapped
  BY JobType DEF Examine, RunBase, vars
<1>2. CASE job' = NextPart(w)
  BY <1>1, <1>2, NextPartType, QuietUnique DEF RunBase, Stored, SameSubject
<1>3. CASE /\ job' = [job EXCEPT ![w].creating = TRUE]
           /\ ~ExistsForRun(job[w].branch, job[w].part, job[w].date)
  <2>1. \A v \in Procs : /\ job'[v] # NoJob => job[v] # NoJob
                         /\ job'[v].part = job[v].part
                         /\ job'[v].branch = job[v].branch
                         /\ job'[v].date = job[v].date
                         /\ v # w => job'[v] = job[v]
    BY <1>1, <1>3 DEF RunBase, RunTypeOK, Job
  <2>2. ~ServedBy(recs, job[w].branch, job[w].part, job[w].date)
    BY <1>3 DEF ExistsForRun, ServedBy, Stored
  <2>3. OneJobPerBranch'
    BY <1>1, <2>1 DEF UniqueInv, OneJobPerBranch
  <2>4. UnservedBefore'
    BY <1>1, <2>1, <2>2 DEF UniqueInv, UnservedBefore
  <2>5. OneRecommendationPerRun'
    BY <1>1 DEF UniqueInv, OneRecommendationPerRun, Stored
  <2> QED
    BY <2>3, <2>4, <2>5 DEF UniqueInv
<1> QED
  BY <1>2, <1>3 DEF Examine

LEMMA GenerateUnique ==
  ASSUME TypeOK, IssuedInv, RunBase, UniqueInv, NEW w \in Procs, Generate(w)
  PROVE  UniqueInv'
<1> DEFINE b == job[w].branch
           p == job[w].part
           d == job[w].date
           next == NextPart(w)[w]
<1>1. /\ job[w] # NoJob /\ job[w].creating /\ job[w] \in Job /\ p \in Parts
      /\ b \in Branches /\ d \in Dates /\ overlapped' = overlapped
  BY JobType DEF Generate, RunBase, Job
<1>2. CreateRecommendation(b, p, d)
  BY DEF Generate
<1>3. /\ next \in Job /\ ~next.creating /\ next.branch = b
      /\ \A v \in Procs : v # w => NextPart(w)[v] = job[v]
      /\ NextPart(w) \in [Procs -> Job \cup {NoJob}]
  BY <1>1, NextPartType DEF RunBase
<1>4. job' = [NextPart(w) EXCEPT ![w] = [next EXCEPT !.made = @ + 1]]
  BY <1>3 DEF Generate
<1>5. [next EXCEPT !.made = @ + 1].branch = b /\ ~[next EXCEPT !.made = @ + 1].creating
  BY <1>3, MadeType
<1> HIDE DEF next
<1>6. /\ \A v \in Procs : v # w => job'[v] = job[v]
      /\ job'[w].branch = b /\ ~job'[w].creating
  BY <1>3, <1>4, <1>5
<1> HIDE DEF b, p, d
<1>7. PICK r \in RecIds \ issued, src \in SourcesFor(b), exceeded \in BOOLEAN :
        recs' = [recs EXCEPT ![r] = NewRow(b, p, d, src, exceeded)]
  BY <1>2 DEF CreateRecommendation
<1>8. /\ recs'[r].branch = b /\ recs'[r].part = p /\ recs'[r].runDate = d
      /\ ~Stored(r)
      /\ \A q \in RecIds : q # r => recs'[q] = recs[q]
  BY <1>1, <1>7, NewRowType DEF TypeOK, IssuedInv
<1>9. OneJobPerBranch'
  BY <1>1, <1>6 DEF UniqueInv, OneJobPerBranch, b
<1>10. UnservedBefore'
  <2> SUFFICES ASSUME NEW v \in Procs, job'[v] # NoJob, job'[v].creating,
                      job'[v].branch \notin overlapped
               PROVE  ~ServedBy(recs', job'[v].branch, job'[v].part, job'[v].date)
    BY <1>1 DEF UnservedBefore
  <2>1. v # w /\ job'[v] = job[v]
    BY <1>6
  <2>2. job[v].branch # b
    BY <1>1, <2>1 DEF UniqueInv, OneJobPerBranch, b
  <2>3. ~ServedBy(recs, job[v].branch, job[v].part, job[v].date)
    BY <2>1 DEF UniqueInv, UnservedBefore
  <2> QED
    BY <1>8, <2>1, <2>2, <2>3 DEF ServedBy
<1>11. OneRecommendationPerRun'
  <2> SUFFICES ASSUME NEW x \in RecIds, NEW y \in RecIds,
                      recs'[x] # NoRec, recs'[y] # NoRec,
                      recs'[x].branch \notin overlapped,
                      recs'[x].branch = recs'[y].branch, recs'[x].part = recs'[y].part,
                      recs'[x].runDate = recs'[y].runDate, x # y
               PROVE  FALSE
    BY <1>1 DEF OneRecommendationPerRun, Stored, SameSlot
  <2>1. b \notin overlapped => ~ServedBy(recs, b, p, d)
    BY <1>1 DEF UniqueInv, UnservedBefore, b, p, d
  <2>2. CASE x = r
    BY <1>8, <2>1, <2>2 DEF ServedBy
  <2>3. CASE y = r
    BY <1>8, <2>1, <2>3 DEF ServedBy
  <2>4. CASE x # r /\ y # r
    BY <1>8, <2>4 DEF UniqueInv, OneRecommendationPerRun, Stored, SameSlot
  <2> QED
    BY <2>2, <2>3, <2>4
<1> QED
  BY <1>9, <1>10, <1>11 DEF UniqueInv

LEMMA NextUniqueRun ==
  TypeOK /\ IssuedInv /\ RunBase /\ UniqueInv /\ [RunNext]_allVars => UniqueInv'
<1> SUFFICES ASSUME TypeOK, IssuedInv, RunBase, UniqueInv, [RunNext]_allVars
             PROVE  UniqueInv'
  OBVIOUS
<1>1. ASSUME UNCHANGED <<recs, overlapped>>,
             \A w \in Procs : job'[w] = job[w] \/ job'[w] = NoJob
      PROVE  UniqueInv'
  BY <1>1, QuietUnique DEF Stored, SameSubject
<1>2. ASSUME NEW w \in Procs, AttemptLost(w) PROVE UniqueInv'
  BY <1>1, <1>2 DEF AttemptLost, RunBase, RunTypeOK, vars
<1>3. ASSUME NEW w \in Workers, NEW b \in Branches, StartTask(w, b) PROVE UniqueInv'
  <2>1. w \in Procs /\ today \in Dates
    BY DEF Procs, RunBase, RunTypeOK
  <2>2. CASE Recorded(b, today)
    BY <1>1, <1>3, <2>2 DEF StartTask, vars
  <2>3. CASE ~Recorded(b, today)
    BY <1>3, <2>1, <2>3, StartUnique DEF StartTask, vars
  <2> QED
    BY <2>2, <2>3
<1>4. ASSUME NEW w \in WebProcs, NEW b \in Branches, StartTestRun(w, b) PROVE UniqueInv'
  <2>1. w \in Procs /\ today \in Dates
    BY DEF Procs, RunBase, RunTypeOK
  <2> QED
    BY <1>4, <2>1, StartUnique DEF StartTestRun, vars
<1>5. ASSUME NEW w \in Procs, FinishRun(w) PROVE UniqueInv'
  <2>1. CASE AttemptLost(w)
    BY <1>2, <2>1
  <2>2. CASE ~AttemptLost(w)
    BY <1>1, <1>5, <2>2 DEF FinishRun, RunBase, RunTypeOK, vars
  <2> QED
    BY <2>1, <2>2
<1>6. ASSUME NEW w \in Procs, ProcStep(w) PROVE UniqueInv'
  BY <1>2, <1>5, <1>6, ExamineUnique, GenerateUnique DEF ProcStep, GenerateRefused
<1>7. ASSUME NEW u \in Users, Decisions(u), UNCHANGED runVars PROVE UniqueInv'
  <2>1. \A r \in RecIds : Stored(r) => SameSubject(recs'[r], recs[r])
    BY <1>7, DecisionNextKeepsRows DEF DecisionNext
  <2>2. \A r \in RecIds : recs'[r] # NoRec => Stored(r)
    BY <1>7, DecisionsAddNoRow
  <2> QED
    BY <1>7, <2>1, <2>2, QuietUnique DEF runVars
<1>8. CASE UNCHANGED allVars
  BY <1>1, <1>8 DEF allVars, runVars, vars
<1>9. CASE NextDay \/ \E b \in Branches : ScheduleFires(b)
  BY <1>1, <1>9 DEF NextDay, ScheduleFires, vars
<1> QED
  BY <1>2, <1>3, <1>4, <1>6, <1>7, <1>8, <1>9 DEF RunNext, CalmNext, Crash

(* Redeliveries, crashes, decisions and test runs never give a part two    *)
(* recommendations of one run, as long as no two processes generated for   *)
(* the branch at one time.                                                  *)
THEOREM AtMostOnePerRun == RunSpec => []OneRecommendationPerRun
<1>1. RunInit => UniqueInv
  BY DEF RunInit, Init, UniqueInv, OneJobPerBranch, UnservedBefore, OneRecommendationPerRun,
         Stored
<1>2. UniqueInv => OneRecommendationPerRun
  BY DEF UniqueInv
<1> QED
  BY <1>1, <1>2, RunBaseKept, TableKept, NextUniqueRun, PTL DEF RunSpec

(* Also during runs, no branch and part has two pending recommendations. *)
THEOREM RunsKeepPendingUnique == RunSpec => []UniquePending
BY RunRefinesDecisions, DecisionSpecIsSpec, OnePendingPerSlot, PTL

(* The runs, with their crashes and redeliveries, implement the alert board. *)
THEOREM RunsImplementBoard == RunSpec => BoardImplemented
BY RunRefinesDecisions, DecisionsImplementBoard, PTL
================================================================================
