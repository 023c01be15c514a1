-------------------------------- MODULE Overrides --------------------------------
(***************************************************************************)
(* Demand overrides of one part: managers create them, the planner looks   *)
(* the active one up, and a daily job of the task queue notifies and       *)
(* deletes those that have expired.                                        *)
(***************************************************************************)
EXTENDS Naturals, FiniteSets

CONSTANTS
  Managers,     \* requests that run create_override
  Workers,      \* queue workers that run scheduled_override_cleanup
  Branches,     \* branches an override is for
  TenantWide,   \* the scope of an override whose branch is NULL
  Run,          \* a run identifier a per-run override is for
  NoRun,        \* no run identifier
  MaxDay,       \* bound on the calendar
  MaxRequests,  \* bound on create_override calls
  MaxFailures   \* bound on lost cleanups

Scopes == Branches \cup {TenantWide}
Days == 0 .. MaxDay
Requests == 1 .. MaxRequests

ASSUME OverridesAssumption ==
  /\ MaxDay \in Nat /\ MaxRequests \in Nat /\ MaxFailures \in Nat
  /\ TenantWide \notin Branches
  /\ Run # NoRun

(* A DemandOverride row: the request that inserted it, the request whose    *)
(* value it has, the day it was inserted, and its created_at as a stamp.    *)
Types == {"persistent", "per_run", "with_expiry"}

Row == [id : Requests, type : Types, scope : Scopes, value : Requests,
        expires : Days, run : {Run, NoRun}, born : Days, stamp : Nat]

VARIABLES
  overrides,  \* the table
  request,    \* request[m]: what manager m's create_override is doing
  cleanup,    \* cleanup[w]: what worker w's cleanup is doing
  notified,   \* ids of rows whose expiry was notified
  deleted,    \* rows that were deleted
  accepted,   \* accepted[s]: the last persistent override saved for scope s, or 0
  asked,      \* requests so far
  stamps,     \* saves so far: the clock of created_at
  today, failures

table == <<overrides, accepted, stamps>>
job == <<cleanup, notified, deleted, failures>>
vars == <<table, request, job, asked, today>>

NoRequest == [phase |-> "idle"]
Request ==
  {NoRequest}
  \cup [phase : {"create"}, scope : Scopes, value : Requests]
  \cup [phase : {"save"}, row : Row, value : Requests]

Cleanup == [phase : {"idle", "fetch", "notify"}, day : Days, todo : SUBSET Row]
NoCleanup == [phase |-> "idle", day |-> 0, todo |-> {}]

Init ==
  /\ overrides = {}
  /\ request = [m \in Managers |-> NoRequest]
  /\ cleanup = [w \in Workers |-> NoCleanup]
  /\ notified = {} /\ deleted = {}
  /\ accepted = [s \in Scopes |-> 0]
  /\ asked = 0 /\ stamps = 0 /\ today = 0 /\ failures = 0

NextDay ==
  /\ today < MaxDay
  /\ today' = today + 1
  /\ UNCHANGED <<table, request, job, asked>>

--------------------------------------------------------------------------------
(* Looking an override up. *)

(* Meta.ordering is by -created_at: first() is the newest. *)
Newest(R) == {r \in R : \A q \in R : q.stamp <= r.stamp}

Persistent(s) == {r \in overrides : r.scope = s /\ r.type = "persistent"}

Valid(s, day) ==
  {r \in overrides : r.scope = s /\ r.type = "with_expiry" /\ r.expires >= day}

PerRun(s, run) ==
  {r \in overrides : r.scope = s /\ r.type = "per_run" /\ r.run = run /\ run # NoRun}

(* get_active_override; at most one row. *)
ActiveOverride(s, day, run) ==
  Newest(IF Valid(s, day) # {} THEN Valid(s, day)
         ELSE IF Persistent(s) # {} THEN Persistent(s)
         ELSE PerRun(s, run))

(* The generator and the recalculation plan for today, and pass no run_id:  *)
(* what they use instead of the calculated velocity. They ask for branches. *)
PlannedWith(s) == ActiveOverride(s, today, NoRun)

--------------------------------------------------------------------------------
(* create_override. *)

(* mutant of ConstraintAllows: no unique constraint. *)
ConstraintAbsent(s) == TRUE

(* The partial unique constraint does not bind when branch is NULL. *)
ConstraintAllows(s) == s = TenantWide \/ Persistent(s) = {}

Insert(type, s, value, expires, run) ==
  /\ stamps' = stamps + 1
  /\ overrides' = overrides \cup
       {[id |-> value, type |-> type, scope |-> s, value |-> value, expires |-> expires,
         run |-> run, born |-> today, stamp |-> stamps + 1]}

Asks(m) ==
  /\ request[m] = NoRequest
  /\ asked < MaxRequests
  /\ asked' = asked + 1
  /\ UNCHANGED <<job, today>>

(* Nothing in the code keeps expires_at from being in the past. *)
CreateWithExpiry(m) ==
  /\ Asks(m)
  /\ \E s \in Scopes, expires \in Days : Insert("with_expiry", s, asked', expires, NoRun)
  /\ UNCHANGED <<request, accepted>>

CreatePerRun(m) ==
  /\ Asks(m)
  /\ \E s \in Scopes : Insert("per_run", s, asked', 0, Run)
  /\ UNCHANGED <<request, accepted>>

(* A persistent override: first the existing one is looked for ... *)
FindExisting(m) ==
  /\ Asks(m)
  /\ \E s \in Scopes :
       \/ /\ Persistent(s) = {}
          /\ request' = [request EXCEPT ![m] =
                           [phase |-> "create", scope |-> s, value |-> asked']]
       \/ \E r \in Newest(Persistent(s)) :
            request' = [request EXCEPT ![m] = [phase |-> "save", row |-> r, value |-> asked']]
  /\ UNCHANGED table

(* mutant of Saved: the value is changed, created_at is not. *)
SavedUndated(r, value) == [r EXCEPT !.value = value]

Saved(r, value) == [r EXCEPT !.value = value, !.stamp = stamps + 1]

(* ... then it is changed and saved, every column of it, ... *)
SaveExisting(m) ==
  /\ request[m].phase = "save"
  /\ LET r == request[m].row IN
     /\ overrides' = {q \in overrides : q.id # r.id} \cup {Saved(r, request[m].value)}
     /\ accepted' = [accepted EXCEPT ![r.scope] = request[m].value]
  /\ stamps' = stamps + 1
  /\ request' = [request EXCEPT ![m] = NoRequest]
  /\ UNCHANGED <<job, asked, today>>

(* ... or a row is inserted, or the insert raises IntegrityError. *)
CreatePersistent(m) ==
  /\ request[m].phase = "create"
  /\ LET s == request[m].scope IN
     \/ /\ ConstraintAllows(s)
        /\ Insert("persistent", s, request[m].value, 0, NoRun)
        /\ accepted' = [accepted EXCEPT ![s] = request[m].value]
     \/ ~ConstraintAllows(s) /\ UNCHANGED table
  /\ request' = [request EXCEPT ![m] = NoRequest]
  /\ UNCHANGED <<job, asked, today>>

--------------------------------------------------------------------------------
(* cleanup_expired_overrides; its date is read once. *)

(* mutant of Expired: the last day counts as expired. *)
ExpiredToday(day) ==
  {r \in overrides : r.type = "with_expiry" /\ r.expires <= day}

Expired(day) == {r \in overrides : r.type = "with_expiry" /\ r.expires < day}

StartCleanup(w) ==
  /\ cleanup[w].phase = "idle"
  /\ cleanup' = [cleanup EXCEPT ![w] = [NoCleanup EXCEPT !.phase = "fetch", !.day = today]]
  /\ UNCHANGED <<table, request, notified, deleted, failures, asked, today>>

(* The loop's query is evaluated once. *)
FetchExpired(w) ==
  /\ cleanup[w].phase = "fetch"
  /\ cleanup' = [cleanup EXCEPT ![w].phase = "notify", ![w].todo = Expired(cleanup[w].day)]
  /\ UNCHANGED <<table, request, notified, deleted, failures, asked, today>>

NotifyExpired(w) ==
  /\ cleanup[w].phase = "notify"
  /\ \E r \in cleanup[w].todo :
       /\ cleanup' = [cleanup EXCEPT ![w].todo = @ \ {r}]
       /\ notified' = notified \cup {r.id}
  /\ UNCHANGED <<table, request, deleted, failures, asked, today>>

(* mutant of ToDelete: the query is built anew, for the current date. *)
ToDeleteNow(w) == Expired(today)

(* mutant of ToDelete: what the loop took its rows from, now used up. *)
ToDeleteLeft(w) == cleanup[w].todo

(* expired.delete() runs the query again, for the same date. *)
ToDelete(w) == Expired(cleanup[w].day)

DeleteExpired(w) ==
  /\ cleanup[w].phase = "notify" /\ cleanup[w].todo = {}
  /\ overrides' = overrides \ ToDelete(w)
  /\ deleted' = deleted \cup ToDelete(w)
  /\ cleanup' = [cleanup EXCEPT ![w] = NoCleanup]
  /\ UNCHANGED <<accepted, stamps, request, notified, failures, asked, today>>

CleanupLost(w) ==
  /\ cleanup[w].phase # "idle"
  /\ failures < MaxFailures
  /\ failures' = failures + 1
  /\ cleanup' = [cleanup EXCEPT ![w] = NoCleanup]
  /\ UNCHANGED <<table, request, notified, deleted, asked, today>>

CleanupStep(w) == FetchExpired(w) \/ NotifyExpired(w) \/ DeleteExpired(w)

Next ==
  \/ NextDay
  \/ \E m \in Managers :
       CreateWithExpiry(m) \/ CreatePerRun(m) \/ FindExisting(m)
       \/ SaveExisting(m) \/ CreatePersistent(m)
  \/ \E w \in Workers : StartCleanup(w) \/ CleanupStep(w) \/ CleanupLost(w)

Spec == Init /\ [][Next]_vars

(* The schedule "override-cleanup" fires daily without end, and the queue   *)
(* goes on with what it started.                                            *)
FairSpec ==
  /\ Spec
  /\ WF_vars(\E w \in Workers : StartCleanup(w))
  /\ \A w \in Workers : WF_vars(CleanupStep(w))

--------------------------------------------------------------------------------
(* Types; row ids and stamps are unique, and a row is in the table or       *)
(* deleted, never both.                                                     *)
OverridesTypeOK ==
  /\ overrides \subseteq Row
  /\ request \in [Managers -> Request]
  /\ cleanup \in [Workers -> Cleanup]
  /\ \A r, q \in overrides : r.id = q.id \/ r.stamp = q.stamp => r = q
  /\ overrides \cap deleted = {}

(* create_override promises one persistent override per scope: for a branch *)
(* it holds although two managers may both find none.                       *)
OnePersistentPerBranch == \A b \in Branches : Cardinality(Persistent(b)) <= 1

(* A persistent override whose creation was confirmed is what planning uses *)
(* when no temporary one is valid, until a later one is confirmed; also for *)
(* the scope that can have two rows.                                        *)
AcceptedIsUsed ==
  \A s \in Scopes : accepted[s] # 0 /\ Valid(s, today) = {} =>
    \E r \in PlannedWith(s) : r.value = accepted[s]

(* An override that was in effect is not deleted without a notice, although *)
(* the job queries three times, overlaps with another worker's and may be   *)
(* lost anywhere; one created for a past date may be.                       *)
DeletedWasNotified ==
  \A r \in deleted : r.expires >= r.born => r.id \in notified

(* What cleanup deletes was no longer in effect: no plan changes by it,     *)
(* whichever day it runs on and however late.                               *)
CleanupIsInvisible ==
  [][today' = today /\ deleted' # deleted
       => \A s \in Scopes, run \in {Run, NoRun} :
            ActiveOverride(s, today, run)' = ActiveOverride(s, today, run)]_vars

(* An expired override is removed in the end, although cleanups are lost.   *)
ExpiredIsRemoved ==
  \A i \in Requests :
    (\E r \in Expired(today) : r.id = i) ~> (\A r \in overrides : r.id # i)
================================================================================
