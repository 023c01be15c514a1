---------------------------- MODULE ReplenishmentRun ----------------------------
(***************************************************************************)
(* The replenishment run of a branch over the recommendation table: the    *)
(* weekly schedule, the Django-Q2 task with its redeliveries, the job      *)
(* scheduled_replenishment_run with its ScheduledRun row, and              *)
(* RecommendationGenerator.generate_for_branch, part by part.  Reviewers   *)
(* decide in between.  The onboarding test run calls the same generator    *)
(* from a web request, with no ScheduledRun row.                           *)
(***************************************************************************)
EXTENDS Recommendations

CONSTANTS
  Workers,      \* worker processes of the Django-Q2 cluster
  WebProcs,     \* web processes that serve onboarding requests
  MaxAttempts,  \* Q_CLUSTER["max_attempts"]
  NoJob         \* a process that runs no generator

ASSUME RunAssumption ==
  /\ Dates \subseteq Nat
  /\ MaxAttempts \in Nat \ {0}

Procs == Workers \cup WebProcs

(* One call of generate_for_branch: the part it is at, how many rows it    *)
(* made, whether that part passed all tests and is about to be created.    *)
Job == [branch : Branches, date : Dates, part : 1 .. NumParts + 1,
        made : Nat, creating : BOOLEAN]

ASSUME NoJobAssumption == NoJob \notin Job

VARIABLES
  today,      \* timezone.now().date()
  due,        \* the <<branch, part>> that planning triggers and that are not excluded
  fired,      \* <<branch, date>> for which the weekly schedule has fired
  task,       \* task[b]: the replenishment task of branch b at the broker
  job,        \* job[w]: what process w is generating
  runs,       \* ScheduledRun rows of type "replenishment"
  settled,    \* <<branch, date>> whose task ended, completed or given up
  overlapped  \* history: the branches two processes generated for at one time

runVars == <<today, due, fired, task, job, runs, settled, overlapped>>
allVars == <<vars, runVars>>

NoTask == [state |-> "none", tries |-> 0]

RunInit ==
  /\ Init
  /\ today \in Dates /\ \A d \in Dates : today <= d
  /\ due \in SUBSET (Branches \X Parts)
  /\ fired = {}
  /\ task = [b \in Branches |-> NoTask]
  /\ job = [w \in Procs |-> NoJob]
  /\ runs = {}
  /\ settled = {}
  /\ overlapped = {}

NextDay ==
  /\ today + 1 \in Dates
  /\ today' = today + 1
  /\ UNCHANGED <<vars, due, fired, task, job, runs, settled, overlapped>>

(* The schedule "replenishment-<branch>" enqueues a task; it has no date. *)
ScheduleFires(b) ==
  /\ <<b, today>> \notin fired
  /\ task[b] = NoTask
  /\ fired' = fired \cup {<<b, today>>}
  /\ task' = [task EXCEPT ![b] = [state |-> "queued", tries |-> 0]]
  /\ UNCHANGED <<vars, today, due, job, runs, settled, overlapped>>

Recorded(b, d) == \E run \in runs : run.branch = b /\ run.date = d

(* What overlapped becomes when one more process starts to generate for b. *)
WithJob(b) ==
  IF \E v \in Procs : job[v] # NoJob /\ job[v].branch = b
  THEN overlapped \cup {b} ELSE overlapped

NewJob(b, d) == [branch |-> b, date |-> d, part |-> 1, made |-> 0, creating |-> FALSE]

(* A worker takes the task; the job dates its run now.  When a run of that *)
(* date is recorded it returns at once.                                    *)
StartTask(w, b) ==
  /\ job[w] = NoJob
  /\ task[b].state = "queued"
  /\ IF Recorded(b, today)
     THEN /\ task' = [task EXCEPT ![b] = NoTask]
          /\ settled' = settled \cup {<<b, today>>}
          /\ UNCHANGED <<job, overlapped>>
     ELSE /\ task' = [task EXCEPT ![b] = [state |-> "running", tries |-> @.tries + 1]]
          /\ job' = [job EXCEPT ![w] = NewJob(b, today)]
          /\ overlapped' = WithJob(b)
          /\ UNCHANGED settled
  /\ UNCHANGED <<vars, today, due, fired, runs>>

(* OnboardingService.run_test_recommendations reaches branch b. *)
StartTestRun(w, b) ==
  /\ job[w] = NoJob
  /\ job' = [job EXCEPT ![w] = NewJob(b, today)]
  /\ overlapped' = WithJob(b)
  /\ UNCHANGED <<vars, today, due, fired, task, runs, settled>>

(* mutant of ExistsForRun: a decided recommendation does not count. *)
ExistsPendingForRun(b, p, d) ==
  \E r \in RecIds : /\ Stored(r)
                    /\ recs[r].branch = b /\ recs[r].part = p /\ recs[r].runDate = d
                    /\ recs[r].state = "pending"

(* _recommendation_exists_for_run: in any state, also rejected ones. *)
ExistsForRun(b, p, d) ==
  \E r \in RecIds : /\ Stored(r)
                    /\ recs[r].branch = b /\ recs[r].part = p /\ recs[r].runDate = d

NextPart(w) == [job EXCEPT ![w].part = @ + 1, ![w].creating = FALSE]

(* _maybe_generate_for_part up to _create_recommendation. *)
Examine(w) ==
  /\ job[w] # NoJob
  /\ job[w].part \in Parts
  /\ ~job[w].creating
  /\ IF \/ ExistsForRun(job[w].branch, job[w].part, job[w].date)
        \/ <<job[w].branch, job[w].part>> \notin due
     THEN job' = NextPart(w)
     ELSE job' = [job EXCEPT ![w].creating = TRUE]
  /\ UNCHANGED <<vars, today, due, fired, task, runs, settled, overlapped>>

Generate(w) ==
  /\ job[w] # NoJob
  /\ job[w].creating
  /\ CreateRecommendation(job[w].branch, job[w].part, job[w].date)
  /\ job' = [NextPart(w) EXCEPT ![w].made = @ + 1]
  /\ UNCHANGED <<today, due, fired, task, runs, settled, overlapped>>

(* mutant of AttemptLost: a redelivered task starts counting anew. *)
AttemptLostUncounted(w) ==
  LET b == job[w].branch IN
  /\ job' = [job EXCEPT ![w] = NoJob]
  /\ task' = IF w \in Workers THEN [task EXCEPT ![b] = [state |-> "queued", tries |-> 0]]
                              ELSE task
  /\ UNCHANGED <<vars, today, due, fired, runs, settled, overlapped>>

(* The attempt of process w ends without a result.  The broker redelivers  *)
(* a task until it was attempted MaxAttempts times.                        *)
AttemptLost(w) ==
  LET b == job[w].branch IN
  /\ job' = [job EXCEPT ![w] = NoJob]
  /\ IF w \notin Workers
     THEN UNCHANGED <<task, settled>>
     ELSE IF task[b].tries < MaxAttempts
          THEN /\ task' = [task EXCEPT ![b].state = "queued"]
               /\ UNCHANGED settled
          ELSE /\ task' = [task EXCEPT ![b] = NoTask]
               /\ settled' = settled \cup {<<b, job[w].date>>}
  /\ UNCHANGED <<vars, today, due, fired, runs, overlapped>>

(* "Pending recommendation already exists": nobody catches it. *)
GenerateRefused(w) ==
  /\ job[w] # NoJob
  /\ job[w].creating
  /\ PendingAt(job[w].branch, job[w].part)
  /\ AttemptLost(w)

(* mutant of AllPartsDone: the last part is left out. *)
AllPartsButLastDone(w) == job[w].part >= NumParts

AllPartsDone(w) == job[w].part = NumParts + 1

(* All parts are done.  The job records the run; unique_scheduled_run       *)
(* refuses a second row.  A web request just answers.                       *)
FinishRun(w) ==
  /\ job[w] # NoJob
  /\ AllPartsDone(w)
  /\ LET b == job[w].branch
         d == job[w].date
     IN IF w \notin Workers
        THEN /\ job' = [job EXCEPT ![w] = NoJob]
             /\ UNCHANGED <<vars, today, due, fired, task, runs, settled, overlapped>>
        ELSE IF Recorded(b, d)
        THEN AttemptLost(w)
        ELSE /\ runs' = runs \cup {[branch |-> b, date |-> d, count |-> job[w].made]}
             /\ task' = [task EXCEPT ![b] = NoTask]
             /\ settled' = settled \cup {<<b, d>>}
             /\ job' = [job EXCEPT ![w] = NoJob]
             /\ UNCHANGED <<vars, today, due, fired, overlapped>>

(* The process is killed, or times out, anywhere in the run. *)
Crash(w) ==
  /\ job[w] # NoJob
  /\ AttemptLost(w)

ProcStep(w) == Examine(w) \/ Generate(w) \/ GenerateRefused(w) \/ FinishRun(w)

CalmNext ==
  \/ NextDay
  \/ \E b \in Branches : ScheduleFires(b)
  \/ \E w \in Workers, b \in Branches : StartTask(w, b)
  \/ \E w \in WebProcs, b \in Branches : StartTestRun(w, b)
  \/ \E w \in Procs : ProcStep(w)
  \/ \E u \in Users : Decisions(u) /\ UNCHANGED runVars

RunNext == CalmNext \/ \E w \in Procs : Crash(w)

CalmSpec == RunInit /\ [][CalmNext]_allVars
RunSpec == RunInit /\ [][RunNext]_allVars

(* Workers keep pulling tasks and keep computing; nobody has to decide. *)
FairRunSpec ==
  /\ RunSpec
  /\ \A w \in Workers : WF_allVars(ProcStep(w))
  /\ \A b \in Branches : WF_allVars(\E w \in Workers : StartTask(w, b))

--------------------------------------------------------------------------------
(* Types; a task is attempted at most MaxAttempts times.                    *)
RunTypeOK ==
  /\ today \in Dates
  /\ due \in SUBSET (Branches \X Parts)
  /\ fired \in SUBSET (Branches \X Dates)
  /\ task \in [Branches -> [state : {"none", "queued", "running"}, tries : 0 .. MaxAttempts]]
  /\ job \in [Procs -> Job \cup {NoJob}]
  /\ runs \in SUBSET [branch : Branches, date : Dates, count : Nat]
  /\ settled \in SUBSET (Branches \X Dates)
  /\ overlapped \in SUBSET Branches

(* A part gets at most one recommendation per branch and run date, however *)
(* often the run is attempted, also when the first one was decided in      *)
(* between (docstring of _recommendation_exists_for_run) and also when a   *)
(* test run follows: unless two processes generated for the branch at one  *)
(* time, for the test of existence and the insertion are two steps.        *)
OneRecommendationPerRun ==
  \A r, q \in RecIds :
    /\ Stored(r) /\ Stored(q)
    /\ recs[r].branch \notin overlapped
    /\ SameSlot(recs[r], recs[q])
    /\ recs[r].runDate = recs[q].runDate
    => r = q

(* A ScheduledRun row means the run was complete: every due part of the    *)
(* branch has its recommendation of that date.                             *)
RecordedRunIsComplete ==
  \A run \in runs, p \in Parts :
    <<run.branch, p>> \in due => ExistsForRun(run.branch, p, run.date)

(* REQ-RE-001: when the task of a branch has ended, every due part of it   *)
(* has a recommendation, of this run or still pending.                     *)
EveryDuePartServed ==
  \A bd \in settled, p \in Parts :
    <<bd[1], p>> \in due => ExistsForRun(bd[1], p, bd[2]) \/ PendingAt(bd[1], p)

(* A task does not stay with the broker for ever: it is completed or, after *)
(* max_attempts, given up.                                                  *)
TaskEnds ==
  \A b \in Branches : task[b] # NoTask ~> task[b] = NoTask
================================================================================
