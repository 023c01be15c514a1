------------------------------- MODULE Onboarding --------------------------------
(***************************************************************************)
(* The onboarding of one tenant: five requests of OnboardingService, each  *)
(* of which loads the tenant's OnboardingState once and saves every column *)
(* of it, and the calls of the dealer system (DMS) they make, retried by   *)
(* with_retry.  Requests overlap, and a request may end at any point.      *)
(***************************************************************************)
EXTENDS Naturals, FiniteSets

CONSTANTS
  Users,         \* who may have a request under way
  Branches,      \* the tenant's active branches
  Adapters,      \* adapter types that may be configured
  Implemented,   \* those the factory can make an adapter of
  MaxAttempts,   \* attempts of with_retry; 3 by default, 1 when retries are disabled
  MaxRequests    \* bound on requests

ASSUME OnboardingAssumption ==
  /\ Implemented \subseteq Adapters
  /\ MaxAttempts \in Nat \ {0} /\ MaxRequests \in Nat
  /\ Branches # {}

Ops == {"start", "test", "backfill", "assign", "run"}
Statuses == {"not_started", "dms_connecting", "dms_connected", "sales_backfilling",
             "backfill_complete", "manager_assigning", "test_running", "live", "failed"}
TestResults == {"", "ok", "failed", "failed: transient", "failed: permanent"}
Ticks == {"connected", "backfilled", "assigned", "tested"}

(* ticks stands for the columns dms_connected_at, sales_backfilled_until,   *)
(* manager_assigned, and test_run_completed_at with go_live_at: those that  *)
(* are set.                                                                 *)
States == [status : Statuses, adapter : Adapters, dmsTest : TestResults, ticks : SUBSET Ticks]

VARIABLES
  state,      \* the OnboardingState row
  request,    \* request[u]: what u's request does, and the instance it holds
  manager,    \* manager[b]: "none", "fallback" or "named"
  imported,   \* branches whose sales were imported
  generated,  \* branches recommendations were generated for
  answered,   \* the DMS answered a connection test with yes
  refused,    \* transient refusals of the DMS, MaxAttempts standing for more
  requests    \* requests so far

vars == <<state, request, manager, imported, generated, answered, refused, requests>>

(* at: where the request is; todo: the branches its loop has left; attempt:  *)
(* that of the DMS call under way; retry: whether it waits for the next one;  *)
(* unmanaged: branches the loop of the test run read without a manager.      *)
None == [op |-> "none"]
Requests == [op : Ops, at : {"loaded", "looping"}, inst : States, todo : SUBSET Branches,
             attempt : 1 .. MaxAttempts, retry : {"calling", "asleep"}, unmanaged : SUBSET Branches]

(* get_or_create makes the row when it is first asked for.                  *)
Init ==
  /\ \E a \in Adapters :
       state = [status |-> "not_started", adapter |-> a, dmsTest |-> "", ticks |-> {}]
  /\ request = [u \in Users |-> None]
  /\ manager = [b \in Branches |-> "none"]
  /\ imported = {} /\ generated = {} /\ answered = FALSE
  /\ refused = 0 /\ requests = 0

At(u, op, at) == request[u].op = op /\ request[u].at = at

(* get_state at the head of every operation.                                *)
Begin(u, op) ==
  /\ request[u] = None /\ requests < MaxRequests
  /\ requests' = requests + 1
  /\ request' = [request EXCEPT ![u] =
       [op |-> op, at |-> "loaded", inst |-> state, todo |-> Branches, attempt |-> 1,
        retry |-> "calling", unmanaged |-> {}]]
  /\ UNCHANGED <<state, manager, imported, generated, answered, refused>>

End(u) == request' = [request EXCEPT ![u] = None]

(* state.save() in the middle of a request, which then enters its loop.     *)
SaveAndLoop(u, new, unmanaged) ==
  /\ state' = new
  /\ request' = [request EXCEPT ![u].inst = new, ![u].at = "looping", ![u].unmanaged = unmanaged]

--------------------------------------------------------------------------------
(* start_onboarding. *)
StartOnboarding(u) ==
  /\ At(u, "start", "loaded")
  /\ \E a \in Adapters :
       state' = [request[u].inst EXCEPT !.adapter = a, !.status = "dms_connecting"]
  /\ End(u)
  /\ UNCHANGED <<manager, imported, generated, answered, refused, requests>>

--------------------------------------------------------------------------------
(* The adapter: a DMS call under way, and how with_retry answers failures.  *)

HasAdapter(u) == request[u].inst.adapter \in Implemented

Calling(u) ==
  /\ \/ At(u, "test", "loaded")
     \/ At(u, "backfill", "looping") /\ request[u].todo # {}
  /\ HasAdapter(u) /\ request[u].retry = "calling"

(* The handler of test_dms_connection saves the text of the exception, as   *)
(* far as the column of 20 characters takes it: otherwise that save raises. *)
(* The other requests have no handler.                                      *)
Raise(u, cause, fits) ==
  /\ state' = IF request[u].op = "test" /\ fits
              THEN [request[u].inst EXCEPT !.dmsTest = cause, !.status = "failed"]
              ELSE state
  /\ End(u)

Counted(n) == IF n < MaxAttempts THEN n + 1 ELSE n

(* mutant of Again: the attempt is not counted. *)
AgainUncounted(attempt) == attempt

Again(attempt) == attempt + 1

IsLast(attempt) == attempt = MaxAttempts

(* A retryable exception before the last attempt: sleep ...                 *)
Retry(u) ==
  /\ Calling(u) /\ ~IsLast(request[u].attempt)
  /\ request' = [request EXCEPT ![u].retry = "asleep"]
  /\ refused' = Counted(refused)
  /\ UNCHANGED <<state, manager, imported, generated, answered, requests>>

(* ... and call again.                                                      *)
CallAgain(u) ==
  /\ request[u] # None /\ request[u].retry = "asleep"
  /\ request' = [request EXCEPT ![u].retry = "calling", ![u].attempt = Again(@)]
  /\ UNCHANGED <<state, manager, imported, generated, answered, refused, requests>>

(* A retryable exception at the last attempt.                               *)
GiveUp(u) ==
  /\ Calling(u) /\ IsLast(request[u].attempt)
  /\ refused' = Counted(refused)
  /\ \E fits \in BOOLEAN : Raise(u, "failed: transient", fits)
  /\ UNCHANGED <<manager, imported, generated, answered, requests>>

(* Any other exception of the DMS is not retried.                           *)
Reject(u) ==
  /\ Calling(u)
  /\ \E fits \in BOOLEAN : Raise(u, "failed: permanent", fits)
  /\ UNCHANGED <<manager, imported, generated, answered, refused, requests>>

(* The factory raises, with a text that never fits the column.              *)
NoAdapter(u) ==
  /\ At(u, "test", "loaded") \/ At(u, "backfill", "looping")
  /\ ~HasAdapter(u)
  /\ Raise(u, "failed: permanent", FALSE)
  /\ UNCHANGED <<manager, imported, generated, answered, refused, requests>>

--------------------------------------------------------------------------------
(* test_dms_connection, when the DMS answers. *)

(* mutant of Answered: the status moves on whatever the answer is. *)
AnsweredAlways(inst, ok) ==
  [inst EXCEPT !.dmsTest = IF ok THEN "ok" ELSE "failed", !.status = "dms_connected",
               !.ticks = IF ok THEN @ \cup {"connected"} ELSE @]

Answered(inst, ok) ==
  IF ok THEN [inst EXCEPT !.dmsTest = "ok", !.status = "dms_connected",
                          !.ticks = @ \cup {"connected"}]
        ELSE [inst EXCEPT !.dmsTest = "failed"]

TestAnswered(u) ==
  /\ request[u].op = "test" /\ Calling(u)
  /\ \E ok \in BOOLEAN :
       /\ state' = Answered(request[u].inst, ok)
       /\ answered' = (answered \/ ok)
  /\ End(u)
  /\ UNCHANGED <<manager, imported, generated, refused, requests>>

--------------------------------------------------------------------------------
(* backfill_sales. *)

BackfillBegins(u) ==
  /\ At(u, "backfill", "loaded")
  /\ SaveAndLoop(u, [request[u].inst EXCEPT !.status = "sales_backfilling"], {})
  /\ UNCHANGED <<manager, imported, generated, answered, refused, requests>>

ReadSales(u) ==
  /\ request[u].op = "backfill" /\ Calling(u)
  /\ \E b \in request[u].todo :
       /\ request' = [request EXCEPT ![u].todo = @ \ {b}, ![u].attempt = 1]
       /\ imported' = imported \cup {b}
  /\ UNCHANGED <<state, manager, generated, answered, refused, requests>>

(* mutant of IsThrough: one branch without an answer is let pass. *)
IsThroughButOne(u) == request[u].at = "looping" /\ Cardinality(request[u].todo) <= 1

IsThrough(u) == request[u].at = "looping" /\ request[u].todo = {}

BackfillEnds(u) ==
  /\ request[u].op = "backfill" /\ HasAdapter(u)
  /\ IsThrough(u)
  /\ state' = [request[u].inst EXCEPT !.status = "backfill_complete",
                                      !.ticks = @ \cup {"backfilled"}]
  /\ End(u)
  /\ UNCHANGED <<manager, imported, generated, answered, refused, requests>>

--------------------------------------------------------------------------------
(* assign_branch_manager: the branch first, then the state. *)

SaveManager(u) ==
  /\ At(u, "assign", "loaded")
  /\ \E b \in Branches : manager' = [manager EXCEPT ![b] = "named"]
  /\ request' = IF "assigned" \in request[u].inst.ticks
                THEN [request EXCEPT ![u] = None]
                ELSE [request EXCEPT ![u].at = "looping"]
  /\ UNCHANGED <<state, imported, generated, answered, refused, requests>>

ManagerAssigned(u) ==
  /\ At(u, "assign", "looping")
  /\ state' = [request[u].inst EXCEPT !.status = "manager_assigning",
                                      !.ticks = @ \cup {"assigned"}]
  /\ End(u)
  /\ UNCHANGED <<manager, imported, generated, answered, refused, requests>>

--------------------------------------------------------------------------------
(* run_test_recommendation. *)

(* The loop reads the branches when it begins.                              *)
RunBegins(u) ==
  /\ At(u, "run", "loaded")
  /\ SaveAndLoop(u, [request[u].inst EXCEPT !.status = "test_running"],
                 {b \in Branches : manager[b] = "none"})
  /\ UNCHANGED <<manager, imported, generated, answered, refused, requests>>

(* A branch that was read without a manager gets the first active user, and *)
(* its recommendations are generated.  The tenant is taken to have an active *)
(* user: from a command, for a tenant without any, the branch gets none.    *)
RunBranch(u) ==
  /\ At(u, "run", "looping")
  /\ \E b \in request[u].todo :
       /\ manager' = IF b \in request[u].unmanaged
                     THEN [manager EXCEPT ![b] = "fallback"] ELSE manager
       /\ generated' = generated \cup {b}
       /\ request' = [request EXCEPT ![u].todo = @ \ {b}]
  /\ UNCHANGED <<state, imported, answered, refused, requests>>

RunEnds(u) ==
  /\ request[u].op = "run"
  /\ IsThrough(u)
  /\ state' = [request[u].inst EXCEPT !.status = "live", !.ticks = @ \cup {"tested"}]
  /\ End(u)
  /\ UNCHANGED <<manager, imported, generated, answered, refused, requests>>

--------------------------------------------------------------------------------
(* The process ends, or the generator or an import raises.                  *)
Lose(u) ==
  /\ request[u] # None
  /\ End(u)
  /\ UNCHANGED <<state, manager, imported, generated, answered, refused, requests>>

RequestStep(u) ==
  \/ StartOnboarding(u)
  \/ Retry(u) \/ CallAgain(u) \/ GiveUp(u) \/ Reject(u) \/ NoAdapter(u)
  \/ TestAnswered(u)
  \/ BackfillBegins(u) \/ ReadSales(u) \/ BackfillEnds(u)
  \/ SaveManager(u) \/ ManagerAssigned(u)
  \/ RunBegins(u) \/ RunBranch(u) \/ RunEnds(u)

Next ==
  \E u \in Users : (\E op \in Ops : Begin(u, op)) \/ RequestStep(u) \/ Lose(u)

Spec == Init /\ [][Next]_vars

(* A request that is under way goes on; nothing obliges anyone to make one,  *)
(* nor the DMS ever to answer.                                              *)
FairSpec == Spec /\ \A u \in Users : WF_vars(RequestStep(u))

--------------------------------------------------------------------------------
(* Types. *)
OnboardingTypeOK ==
  /\ state \in States
  /\ request \in [Users -> Requests \cup {None}]
  /\ manager \in [Branches -> {"none", "fallback", "named"}]
  /\ imported \subseteq Branches /\ generated \subseteq Branches
  /\ answered \in BOOLEAN
  /\ refused \in 0 .. MaxAttempts /\ requests \in 0 .. MaxRequests

(* What a date or flag of the state row says was done.                      *)
Done(tick) ==
  CASE tick = "connected" -> answered
    [] tick = "backfilled" -> imported = Branches
    [] tick = "assigned" -> \E b \in Branches : manager[b] # "none"
    [] tick = "tested" -> generated = Branches /\ \A b \in Branches : manager[b] # "none"

(* REQ-OB-005: what the row says was completed, and the checklist repeats,  *)
(* was completed for every branch, whatever requests overlapped, failed half *)
(* way and were saved over each other.  The checklist's first line is not   *)
(* among these: it goes by the status, not by dms_connected_at, and is shown *)
(* as done when a backfill was begun without any connection test.           *)
TickedIsDone == \A tick \in state.ticks : Done(tick)

(* The status shown is backed by what stands beside it, and a row saved     *)
(* over another never mixes two stories: a reached step has its checkmark,  *)
(* "failed" has a failed test, and a transient failure means that with_retry *)
(* made every attempt it may and the DMS refused them all.                  *)
StatusIsBacked ==
  /\ state.status = "dms_connected" => "connected" \in state.ticks
  /\ state.status = "backfill_complete" => "backfilled" \in state.ticks
  /\ state.status = "manager_assigning" => "assigned" \in state.ticks
  /\ state.status = "live" => "tested" \in state.ticks
  /\ state.status = "failed" => state.dmsTest \notin {"", "ok"}
  /\ state.dmsTest = "failed: transient" => refused = MaxAttempts

(* Every request ends, also if the DMS refuses for ever.                    *)
RequestEnds == \A u \in Users : request[u] # None ~> request[u] = None
================================================================================
