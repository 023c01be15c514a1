----------------------------- MODULE Classification -----------------------------
(***************************************************************************)
(* The tenant-wide classification of parts: the monthly task               *)
(* scheduled_classification_pass with its redeliveries, the management     *)
(* command classify_parts, run by hand, and classify_part, which writes    *)
(* one ClassificationResult in three steps that commit on their own.  The  *)
(* tenant-wide rows have no branch, and in a unique constraint NULL equals *)
(* nothing: nothing stops a second row for a part.                         *)
(***************************************************************************)
EXTENDS Naturals, Sequences, FiniteSetsExt

CONSTANTS
  NumParts,      \* active parts, in the order of their ids
  Branches,      \* branches that the replenishment classifies for
  Workers,       \* worker processes of the Django-Q2 cluster
  Shells,        \* processes in which somebody runs classify_parts
  MaxAttempts,   \* Q_CLUSTER["max_attempts"]
  MaxTime,       \* bound on the time
  MonthLength, Recent,   \* a month and the 24 hours of the command, in that unit
  NoJob          \* a process that classifies nothing

Parts == 1 .. NumParts
Times == 0 .. MaxTime
Procs == Workers \cup Shells

MonthOf(t) == t \div MonthLength
Months == {MonthOf(t) : t \in Times}

ASSUME ClassificationAssumption ==
  /\ NumParts \in Nat /\ MaxTime \in Nat /\ Recent \in Nat
  /\ MonthLength \in Nat \ {0} /\ MaxAttempts \in Nat \ {0}
  /\ Workers \cap Shells = {}

(* What a process still has to classify, least first; at: the time it     *)
(* computed the result it is about to save.                                *)
Job == [month : Nat, todo : SUBSET Parts, stage : {"compute", "look", "insert"}, at : Nat]

ASSUME NoClassificationAssumption == NoJob \notin Job

VARIABLES
  now,
  rows,        \* rows[p]: classified_at of each tenant-wide result of part p
  branchRows,  \* branchRows[p]: classified_at of its results for branches
  fired,       \* months whose schedule has fired
  task,        \* the task at the broker
  job,         \* job[w]: what process w is classifying
  runs,        \* months with a ScheduledRun row of type "classification"
  overlapped   \* history: the parts two processes classified at one time

vars == <<now, rows, branchRows, fired, task, job, runs, overlapped>>

NoTask == [state |-> "none", tries |-> 0]

Init ==
  /\ now = 0
  /\ rows = [p \in Parts |-> <<>>]
  /\ branchRows = [p \in Parts |-> [b \in {} |-> 0]]
  /\ fired = {}
  /\ task = NoTask
  /\ job = [w \in Procs |-> NoJob]
  /\ runs = {}
  /\ overlapped = {}

Tick ==
  /\ now < MaxTime
  /\ now' = now + 1
  /\ UNCHANGED <<rows, branchRows, fired, task, job, runs, overlapped>>

(* A branch's own result, from the generator: its unique constraint binds, *)
(* so update_or_create leaves one row whatever happens.                    *)
BranchClassified(p, b) ==
  /\ branchRows' = [branchRows EXCEPT
       ![p] = [c \in DOMAIN @ \cup {b} |-> IF c = b THEN now ELSE @[c]]]
  /\ UNCHANGED <<now, rows, fired, task, job, runs, overlapped>>

--------------------------------------------------------------------------------
(* classify_part(part, branch=None). *)

NewJob(month, todo) == [month |-> month, todo |-> todo, stage |-> "compute", at |-> now]

Busy(w) == job[w] # NoJob /\ job[w].todo # {}

Part(w) == Min(job[w].todo)

At(w, stage) == Busy(w) /\ job[w].stage = stage

Saving(w, p) == Busy(w) /\ job[w].stage # "compute" /\ Part(w) = p

(* The movements are read; the result is dated now. *)
Compute(w) ==
  /\ At(w, "compute")
  /\ job' = [job EXCEPT ![w].stage = "look", ![w].at = now]
  /\ overlapped' = IF \E v \in Procs : Saving(v, Part(w))
                   THEN overlapped \cup {Part(w)} ELSE overlapped
  /\ UNCHANGED <<now, rows, branchRows, fired, task, runs>>

Saved(w, p, all) ==
  /\ rows' = [rows EXCEPT ![p] = all]
  /\ job' = [job EXCEPT ![w].todo = @ \ {p}, ![w].stage = "compute"]
  /\ UNCHANGED <<now, branchRows, fired, task, runs, overlapped>>

(* mutant of Found: upserts by (part_id, classified_at_month).              *)
FoundThisMonth(p) == SelectSeq(rows[p], LAMBDA at : MonthOf(at) = MonthOf(now))

(* The rows that update_or_create looks up: part, no branch, "1.0". *)
Found(p) == rows[p]

(* update_or_create with one row: it is locked and saved. *)
Update(w) ==
  /\ At(w, "look")
  /\ Len(Found(Part(w))) = 1
  /\ Saved(w, Part(w), <<job[w].at>>)

(* ... with none: another may insert one before this process does. *)
Missing(w) ==
  /\ At(w, "look")
  /\ Found(Part(w)) = <<>>
  /\ job' = [job EXCEPT ![w].stage = "insert"]
  /\ UNCHANGED <<now, rows, branchRows, fired, task, runs, overlapped>>

Insert(w) ==
  /\ At(w, "insert")
  /\ Saved(w, Part(w), Append(rows[Part(w)], job[w].at))

(* The broker redelivers a task until it was attempted MaxAttempts times;  *)
(* a command is gone.                                                      *)
AttemptLost(w) ==
  /\ job' = [job EXCEPT ![w] = NoJob]
  /\ task' = IF w \in Shells THEN task
             ELSE IF task.tries < MaxAttempts THEN [task EXCEPT !.state = "queued"]
             ELSE NoTask
  /\ UNCHANGED <<now, rows, branchRows, fired, runs, overlapped>>

(* ... with more: MultipleObjectsReturned, which nobody catches. *)
Ambiguous(w) ==
  /\ At(w, "look")
  /\ Len(Found(Part(w))) > 1
  /\ AttemptLost(w)

(* The process is killed, or times out. *)
Crash(w) == job[w] # NoJob /\ AttemptLost(w)

--------------------------------------------------------------------------------
(* The monthly pass. Bound: the broker holds one task of it at a time. *)

ScheduleFires ==
  /\ MonthOf(now) \notin fired
  /\ task = NoTask
  /\ fired' = fired \cup {MonthOf(now)}
  /\ task' = [state |-> "queued", tries |-> 0]
  /\ UNCHANGED <<now, rows, branchRows, job, runs, overlapped>>

PreviousResults(p) ==
  {rows[p][k] : k \in DOMAIN rows[p]} \cup {branchRows[p][b] : b \in DOMAIN branchRows[p]}

(* _previous_result looks at the results of all branches, too. *)
IsRecent(p) ==
  /\ PreviousResults(p) # {}
  /\ Max(PreviousResults(p)) + Recent >= now

(* mutant of PassParts: the pass leaves out what is recent, like the command. *)
PassPartsNotRecent == {p \in Parts : ~IsRecent(p)}

(* classify_tenant. *)
PassParts == Parts

(* The job takes its month key now; a recorded month returns at once.      *)
StartPass(w) ==
  /\ job[w] = NoJob
  /\ task.state = "queued"
  /\ IF MonthOf(now) \in runs
     THEN task' = NoTask /\ UNCHANGED job
     ELSE /\ task' = [state |-> "running", tries |-> task.tries + 1]
          /\ job' = [job EXCEPT ![w] = NewJob(MonthOf(now), PassParts)]
  /\ UNCHANGED <<now, rows, branchRows, fired, runs, overlapped>>

(* The ScheduledRun row is created after the last part. *)
FinishPass(w) ==
  /\ w \in Workers /\ job[w] # NoJob /\ job[w].todo = {}
  /\ runs' = runs \cup {job[w].month}
  /\ task' = NoTask
  /\ job' = [job EXCEPT ![w] = NoJob]
  /\ UNCHANGED <<now, rows, branchRows, fired, overlapped>>

--------------------------------------------------------------------------------
(* The command: of all parts, or of one, first selects what is not recent  *)
(* or, with --force, everything, and then classifies what it selected.     *)
StartCommand(s, asked, force) ==
  /\ job[s] = NoJob
  /\ job' = [job EXCEPT ![s] = NewJob(MonthOf(now), {p \in asked : force \/ ~IsRecent(p)})]
  /\ UNCHANGED <<now, rows, branchRows, fired, task, runs, overlapped>>

FinishCommand(s) ==
  /\ s \in Shells /\ job[s] # NoJob /\ job[s].todo = {}
  /\ job' = [job EXCEPT ![s] = NoJob]
  /\ UNCHANGED <<now, rows, branchRows, fired, task, runs, overlapped>>

--------------------------------------------------------------------------------
ProcStep(w) ==
  \/ Compute(w) \/ Update(w) \/ Missing(w) \/ Insert(w) \/ Ambiguous(w)
  \/ FinishPass(w) \/ FinishCommand(w)

Next ==
  \/ Tick
  \/ ScheduleFires
  \/ \E p \in Parts, b \in Branches : BranchClassified(p, b)
  \/ \E w \in Workers : StartPass(w)
  \/ \E s \in Shells, asked \in {Parts} \cup {{p} : p \in Parts}, force \in BOOLEAN :
       StartCommand(s, asked, force)
  \/ \E w \in Procs : ProcStep(w) \/ Crash(w)

Spec == Init /\ [][Next]_vars

--------------------------------------------------------------------------------
(* A part has one tenant-wide result ("the row is upserted on every pass"), *)
(* however passes and commands follow each other, are lost or repeated:     *)
(* unless two processes classified the part at one time.                    *)
OneResultPerPart == \A p \in Parts : p \notin overlapped => Len(rows[p]) <= 1

(* A recorded pass was complete: every part has a tenant-wide result of     *)
(* that month or later, and no command that was selecting or saving before  *)
(* takes it back, unless two processes classified the part at one time.     *)
RecordedPassIsComplete ==
  \A month \in runs, p \in Parts : p \notin overlapped =>
    \E k \in DOMAIN rows[p] : MonthOf(rows[p][k]) >= month

(* Every part that the command takes for recent has a recent tenant-wide    *)
(* result. Not kept: its _previous_result also sees results for branches.   *)
SkippedIsRecent ==
  \A p \in Parts : IsRecent(p) => \E k \in DOMAIN rows[p] : rows[p][k] + Recent >= now
================================================================================
