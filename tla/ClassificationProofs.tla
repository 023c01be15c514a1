-------------------------- MODULE ClassificationProofs --------------------------
(***************************************************************************)
(* Proofs about Classification: one tenant-wide result per part, and       *)
(* complete recorded passes, for any number of parts, processes, attempts  *)
(* and months.  The argument: unless two processes have computed a part at *)
(* one time, whoever saves it is alone with it from its computation to its *)
(* save, so that it finds the table as it was, and saves a later time.     *)
(***************************************************************************)
EXTENDS Classification, SequenceTheorems, WellFoundedInduction, TLAPS

--------------------------------------------------------------------------------
(* Facts about numbers. *)

(* A nonempty set of natural numbers has a least one. *)
LEMMA LeastNumber ==
  ASSUME NEW K \in SUBSET Nat, K # {}
  PROVE  \E k \in K : \A j \in K : k <= j
<1> DEFINE R == OpToRel(<, Nat)
<1>1. IsWellFoundedOn(R, Nat)
  BY NatLessThanWellFounded
<1>2. \E k \in K : \A j \in K : ~ (<<j, k>> \in R)
  <2> HIDE DEF R
  <2> QED BY <1>1, WFMin
<1>3. R = {ss \in Nat \X Nat : ss[1] < ss[2]}
  BY DEF OpToRel
<1> HIDE DEF R
<1>4. PICK k \in K : \A j \in K : ~ (<<j, k>> \in R)
  BY <1>2
<1>5. ASSUME NEW j \in K PROVE k <= j
  <2>1. j \in Nat /\ k \in Nat
    OBVIOUS
  <2>2. ~ (<<j, k>> \in R)
    BY <1>4
  <2>3. ~ (j < k)
    <3>1. <<j, k>> \in Nat \X Nat
      BY <2>1
    <3>2. <<j, k>>[1] = j /\ <<j, k>>[2] = k
      OBVIOUS
    <3> QED BY <1>3, <2>2, <3>1, <3>2
  <2> QED BY <2>1, <2>3
<1> QED BY <1>5

(* Months follow each other as times do. *)
LEMMA MonthsInOrder ==
  ASSUME NEW s \in Nat, NEW t \in Nat, s <= t
  PROVE  MonthOf(s) \in Nat /\ MonthOf(t) \in Nat /\ MonthOf(s) <= MonthOf(t)
<1> DEFINE L == MonthLength
           x == s \div L
           y == t \div L
<1>1. L \in Nat /\ L > 0
  BY ClassificationAssumption
<1>2. /\ x \in Nat /\ y \in Nat
      /\ L * x <= s
      /\ t < L * (y + 1)
  <2> HIDE DEF L
  <2> QED BY <1>1
<1>3. x <= y
  <2> SUFFICES ASSUME y + 1 <= x PROVE FALSE
    BY <1>2
  <2>1. L * (y + 1) <= L * x
    <3> HIDE DEF x, y, L
    <3>1. PICK d \in Nat : x = y + 1 + d
      BY <1>2
    <3>2. L * x = L * (y + 1) + L * d /\ L * d \in Nat
      BY <1>1, <1>2, <3>1
    <3>3. L * (y + 1) \in Nat
      BY <1>1, <1>2
    <3> QED BY <3>2, <3>3
  <2>2. L * (y + 1) \in Nat /\ L * x \in Nat
    <3> HIDE DEF x, y, L
    <3> QED BY <1>1, <1>2
  <2> HIDE DEF x, y, L
  <2> QED BY <1>2, <2>1, <2>2
<1> QED BY <1>2, <1>3 DEF MonthOf

(* What a list of times holds are times. *)
LEMMA TimesInSeq ==
  ASSUME NEW seq \in Seq(Times), NEW k \in DOMAIN seq
  PROVE  seq[k] \in Times /\ seq[k] \in Nat
<1>1. Len(seq) \in Nat /\ DOMAIN seq = 1 .. Len(seq)
  BY LenProperties
<1>2. seq[k] \in Times
  BY <1>1, ElementOfSeq
<1> QED BY <1>2 DEF Times

(* A busy process is at one of the parts it still has to do. *)
LEMMA PartIsTodo ==
  ASSUME NEW w, Busy(w), job[w].todo \subseteq Parts
  PROVE  Part(w) \in job[w].todo
<1> DEFINE S == job[w].todo
<1>1. S # {} /\ S \subseteq Nat
  BY DEF Busy, Parts
<1> HIDE DEF S
<1>2. \E k \in S : \A j \in S : k <= j
  BY <1>1, LeastNumber
<1>3. Min(S) \in S
  BY <1>2 DEF Min
<1> QED BY <1>3 DEF Part, S

--------------------------------------------------------------------------------
(* Rows, jobs and the task are well formed, and a queued task has attempts  *)
(* left.                                                                    *)
ClassificationTypeOK ==
  /\ now \in Times
  /\ rows \in [Parts -> Seq(Times)]
  /\ \A p \in Parts : branchRows[p] \in [DOMAIN branchRows[p] -> Times]
                      /\ DOMAIN branchRows[p] \subseteq Branches
  /\ DOMAIN branchRows = Parts
  /\ fired \subseteq Months /\ runs \subseteq Months
  /\ task \in [state : {"none", "queued", "running"}, tries : 0 .. MaxAttempts]
  /\ task.state = "queued" => task.tries < MaxAttempts
  /\ job \in [Procs -> Job \cup {NoJob}]
  /\ \A w \in Procs : job[w] # NoJob => job[w].at \in Times /\ job[w].month \in Months
  /\ overlapped \subseteq Parts

(* Nothing is dated later than now, and a pass computes its results in its  *)
(* month or later.                                                          *)
NothingIsNewer ==
  /\ \A p \in Parts : \A k \in DOMAIN rows[p] : rows[p][k] <= now
  /\ \A w \in Procs : job[w] # NoJob =>
       job[w].at <= now /\ job[w].month <= MonthOf(job[w].at)

(* Of a part nobody else was computing, at most one process has a result. *)
OneSaver ==
  \A p \in Parts \ overlapped, v, w \in Procs : Saving(v, p) /\ Saving(w, p) => v = w

(* ... and it inserts only where there is no row, *)
InsertsIntoNone ==
  \A w \in Procs : At(w, "insert") /\ Part(w) \notin overlapped => rows[Part(w)] = <<>>

(* ... and saves nothing older than what is there. *)
SavesForward ==
  \A w \in Procs, p \in Parts \ overlapped : Saving(w, p) =>
    \A k \in DOMAIN rows[p] : rows[p][k] <= job[w].at

ResultSince(results, month) == \E k \in DOMAIN results : MonthOf(results[k]) >= month

(* What a pass is through with has a result of its month or later. *)
PassSoFar ==
  \A w \in Workers : job[w] # NoJob =>
    \A p \in Parts \ (job[w].todo \cup overlapped) : ResultSince(rows[p], job[w].month)

ClassificationInv ==
  /\ ClassificationTypeOK
  /\ NothingIsNewer
  /\ OneSaver
  /\ InsertsIntoNone
  /\ SavesForward
  /\ PassSoFar
  /\ OneResultPerPart
  /\ RecordedPassIsComplete
--------------------------------------------------------------------------------
LEMMA ClassificationInit ==
  Init => ClassificationInv
<1> SUFFICES ASSUME Init PROVE ClassificationInv
  OBVIOUS
<1>1. 0 \in Times /\ 0 < MaxAttempts
  BY ClassificationAssumption DEF Times
<1>2. ClassificationTypeOK
  <2>1. NoTask \in [state : {"none", "queued", "running"}, tries : 0 .. MaxAttempts]
    BY ClassificationAssumption DEF NoTask
  <2>2. \A p \in Parts : branchRows[p] \in [DOMAIN branchRows[p] -> Times]
                         /\ DOMAIN branchRows[p] \subseteq Branches
    BY DEF Init
  <2>3. rows \in [Parts -> Seq(Times)]
    BY DEF Init
  <2> QED BY <1>1, <2>1, <2>2, <2>3 DEF Init, ClassificationTypeOK, NoTask
<1>3. NothingIsNewer /\ OneResultPerPart
  BY DEF Init, NothingIsNewer, OneResultPerPart
<1>4. OneSaver /\ InsertsIntoNone /\ SavesForward /\ PassSoFar
  BY ClassificationAssumption
     DEF Init, OneSaver, InsertsIntoNone, SavesForward, PassSoFar, Saving, At, Busy, Procs
<1>5. RecordedPassIsComplete
  BY DEF Init, RecordedPassIsComplete
<1> QED BY <1>2, <1>3, <1>4, <1>5 DEF ClassificationInv

(* What a process is doing is read from its own job. *)
LEMMA OthersGoOn ==
  ASSUME NEW v \in Procs, job'[v] = job[v]
  PROVE  /\ Busy(v)' = Busy(v) /\ Part(v)' = Part(v)
         /\ \A p \in Parts : Saving(v, p)' = Saving(v, p)
         /\ At(v, "insert")' = At(v, "insert")
BY DEF Busy, Part, Saving, At

(* A process that is not about to look or insert saves nothing. *)
LEMMA ComputingSavesNothing ==
  ASSUME NEW v \in Procs, job[v] = NoJob \/ job[v].stage = "compute"
  PROVE  \A p \in Parts : ~Saving(v, p)
BY DEF Saving, Busy

(* A part that was saved: where nobody else was computing it, it now has    *)
(* one result, the one computed, which is as new as any it had.             *)
LEMMA SaveStep ==
  ASSUME ClassificationInv, NEW w \in Procs, NEW p \in Parts, NEW all \in Seq(Times),
         Saving(w, p), Saved(w, p, all),
         p \notin overlapped => all = <<job[w].at>>,
         \A k \in DOMAIN all : all[k] = job[w].at \/ \E i \in DOMAIN rows[p] : all[k] = rows[p][i]
  PROVE  ClassificationInv'
<1> USE DEF ClassificationInv
<1> DEFINE new == [job[w] EXCEPT !.todo = @ \ {p}, !.stage = "compute"]
<1>1. /\ rows' = [rows EXCEPT ![p] = all]
      /\ job' = [job EXCEPT ![w] = new]
      /\ UNCHANGED <<now, branchRows, fired, task, runs, overlapped>>
  BY DEF Saved
<1>2. job[w] # NoJob /\ job[w] \in Job
  BY DEF Saving, Busy, ClassificationTypeOK
<1>3. /\ new \in Job /\ new # NoJob /\ new.stage = "compute"
      /\ new.todo = job[w].todo \ {p} /\ new.at = job[w].at /\ new.month = job[w].month
  BY <1>2, NoClassificationAssumption DEF Job
<1>4. job'[w] = new /\ \A v \in Procs : v # w => job'[v] = job[v]
  BY <1>1 DEF ClassificationTypeOK
<1>5. rows'[p] = all /\ \A q \in Parts : q # p => rows'[q] = rows[q]
  BY <1>1 DEF ClassificationTypeOK
<1> HIDE DEF new
<1>6. ClassificationTypeOK'
  <2>1. job' \in [Procs -> Job \cup {NoJob}]
    BY <1>1, <1>3 DEF ClassificationTypeOK
  <2>2. rows' \in [Parts -> Seq(Times)]
    BY <1>1 DEF ClassificationTypeOK
  <2>3. \A v \in Procs : job'[v] # NoJob => job'[v].at \in Times /\ job'[v].month \in Months
    BY <1>2, <1>3, <1>4 DEF ClassificationTypeOK
  <2> QED BY <1>1, <2>1, <2>2, <2>3 DEF ClassificationTypeOK
<1>7. NothingIsNewer'
  <2>1. job[w].at <= now
    BY <1>2 DEF NothingIsNewer
  <2>2. \A q \in Parts : \A k \in DOMAIN rows'[q] : rows'[q][k] <= now
    BY <2>1, <1>5 DEF NothingIsNewer
  <2>3. \A v \in Procs : job'[v] # NoJob =>
          job'[v].at <= now /\ job'[v].month <= MonthOf(job'[v].at)
    BY <1>2, <1>3, <1>4 DEF NothingIsNewer
  <2> QED BY <1>1, <2>2, <2>3 DEF NothingIsNewer, MonthOf
<1>8. \A q \in Parts : ~Saving(w, q)'
  BY <1>3, <1>4 DEF Saving, Busy
<1>9. \A v \in Procs, q \in Parts : Saving(v, q)' => v # w /\ Saving(v, q)
  BY <1>4, <1>8, OthersGoOn
<1>10. \A v \in Procs, q \in Parts \ overlapped : Saving(v, q)' => q # p
  BY <1>9 DEF OneSaver
<1>11. OneSaver'
  BY <1>1, <1>9 DEF OneSaver
<1>12. InsertsIntoNone'
  <2> SUFFICES ASSUME NEW v \in Procs, At(v, "insert")', Part(v)' \notin overlapped'
               PROVE  rows'[Part(v)'] = <<>>
    BY DEF InsertsIntoNone
  <2>1. v # w
    BY <1>3, <1>4 DEF At
  <2>2. At(v, "insert") /\ Part(v)' = Part(v)
    BY <1>4, <2>1, OthersGoOn
  <2>3. Part(v) \in Parts
    <3>1. job[v].todo \subseteq Parts /\ Busy(v)
      BY <2>2 DEF At, Busy, Job, ClassificationTypeOK
    <3> QED BY <3>1, PartIsTodo
  <2>4. Saving(v, Part(v))
    BY <2>2 DEF At, Saving
  <2>5. Part(v) # p
    BY <1>1, <2>1, <2>2, <2>4 DEF OneSaver
  <2> QED BY <1>1, <1>5, <2>2, <2>3, <2>5 DEF InsertsIntoNone
<1>13. SavesForward'
  BY <1>1, <1>4, <1>5, <1>9, <1>10 DEF SavesForward
<1>14. p \notin overlapped =>
         \A month \in Nat : ResultSince(rows[p], month) \/ month <= MonthOf(job[w].at)
           => ResultSince(rows'[p], month)
  <2> SUFFICES ASSUME p \notin overlapped, NEW month \in Nat,
                      ResultSince(rows[p], month) \/ month <= MonthOf(job[w].at)
               PROVE  ResultSince(rows'[p], month)
    OBVIOUS
  <2>1. job[w].at \in Nat
    BY <1>2 DEF ClassificationTypeOK, Times
  <2>2. MonthOf(job[w].at) \in Nat /\ month <= MonthOf(job[w].at)
    <3>1. CASE month <= MonthOf(job[w].at)
      BY <2>1, <3>1, MonthsInOrder
    <3>2. CASE ResultSince(rows[p], month)
      <4>1. PICK k \in DOMAIN rows[p] : MonthOf(rows[p][k]) >= month
        BY <3>2 DEF ResultSince
      <4>2. rows[p][k] \in Nat
        <5>1. rows[p] \in Seq(Times)
          BY DEF ClassificationTypeOK
        <5> QED BY <5>1, TimesInSeq
      <4>3. rows[p][k] <= job[w].at
        BY DEF SavesForward
      <4>4. /\ MonthOf(rows[p][k]) \in Nat /\ MonthOf(job[w].at) \in Nat
            /\ MonthOf(rows[p][k]) <= MonthOf(job[w].at)
        BY <2>1, <4>2, <4>3, MonthsInOrder
      <4> QED BY <4>1, <4>4
    <3> QED BY <3>1, <3>2
  <2>3. rows'[p] = <<job[w].at>>
    BY <1>5
  <2>4. 1 \in DOMAIN rows'[p] /\ rows'[p][1] = job[w].at
    BY <2>3
  <2>5. MonthOf(rows'[p][1]) >= month
    BY <2>2, <2>4
  <2> QED BY <2>4, <2>5 DEF ResultSince, MonthOf
<1>15. \A q \in Parts \ overlapped : \A month \in Nat :
         ResultSince(rows[q], month) => ResultSince(rows'[q], month)
  BY <1>5, <1>14 DEF ResultSince, MonthOf
<1>16. \A month \in Months : month \in Nat
  BY MonthsInOrder DEF Months, Times
<1>17. PassSoFar'
  <2> SUFFICES ASSUME NEW v \in Workers, job'[v] # NoJob,
                      NEW q \in Parts \ (job'[v].todo \cup overlapped)
               PROVE  ResultSince(rows'[q], job'[v].month)
    BY <1>1 DEF PassSoFar
  <2>1. v \in Procs /\ job[v] # NoJob /\ job'[v].month = job[v].month
    BY <1>2, <1>3, <1>4 DEF Procs
  <2>2. job[v].month \in Nat
    BY <1>16, <2>1 DEF ClassificationTypeOK
  <2>3. CASE q \notin job[v].todo
    BY <1>15, <2>1, <2>2, <2>3 DEF PassSoFar
  <2>4. CASE q \in job[v].todo
    <3>1. v = w /\ q = p
      BY <1>3, <1>4, <2>1, <2>4
    <3>2. job[w].month <= MonthOf(job[w].at)
      BY <1>2 DEF NothingIsNewer
    <3> QED BY <1>14, <2>1, <2>2, <3>1, <3>2
  <2> QED BY <2>3, <2>4
<1>18. OneResultPerPart'
  <2>1. p \notin overlapped => Len(rows'[p]) <= 1
    <3>1. p \notin overlapped => rows'[p] = <<job[w].at>>
      BY <1>5
    <3>2. Len(<<job[w].at>>) = 1
      OBVIOUS
    <3>3. 1 <= 1
      OBVIOUS
    <3> QED BY <3>1, <3>2, <3>3, Zenon
  <2> QED BY <1>1, <1>5, <2>1 DEF OneResultPerPart
<1>19. RecordedPassIsComplete'
  <2> SUFFICES ASSUME NEW month \in runs, NEW q \in Parts, q \notin overlapped
               PROVE  ResultSince(rows'[q], month)
    BY <1>1 DEF RecordedPassIsComplete, ResultSince
  <2>1. ResultSince(rows[q], month)
    BY DEF RecordedPassIsComplete, ResultSince
  <2>2. month \in Nat
    BY <1>16 DEF ClassificationTypeOK
  <2> QED BY <1>15, <2>1, <2>2
<1> QED BY <1>6, <1>7, <1>11, <1>12, <1>13, <1>17, <1>18, <1>19

(* update_or_create that finds one row, and that finds none. *)
LEMMA UpdateStep ==
  ASSUME ClassificationInv, NEW w \in Procs, Update(w)
  PROVE  ClassificationInv'
<1> DEFINE p == Part(w)
<1>1. Busy(w) /\ job[w].stage = "look" /\ Saved(w, p, <<job[w].at>>)
  BY DEF Update, At
<1>2. job[w].todo \subseteq Parts /\ job[w].at \in Times
  BY <1>1 DEF Busy, ClassificationInv, ClassificationTypeOK, Job
<1>3. p \in Parts /\ Saving(w, p)
  BY <1>1, <1>2, PartIsTodo DEF Saving
<1>4. <<job[w].at>> \in Seq(Times) /\ \A k \in DOMAIN <<job[w].at>> : <<job[w].at>>[k] = job[w].at
  BY <1>2
<1> HIDE DEF p
<1> QED BY <1>1, <1>3, <1>4, SaveStep

LEMMA InsertStep ==
  ASSUME ClassificationInv, NEW w \in Procs, Insert(w)
  PROVE  ClassificationInv'
<1> DEFINE p == Part(w)
           all == Append(rows[p], job[w].at)
<1>1. Busy(w) /\ job[w].stage = "insert" /\ Saved(w, p, all) /\ At(w, "insert")
  BY DEF Insert, At
<1>2. job[w].todo \subseteq Parts /\ job[w].at \in Times
  BY <1>1 DEF Busy, ClassificationInv, ClassificationTypeOK, Job
<1>3. p \in Parts /\ Saving(w, p)
  BY <1>1, <1>2, PartIsTodo DEF Saving
<1>4. rows[p] \in Seq(Times)
  BY <1>3 DEF ClassificationInv, ClassificationTypeOK
<1>5. p \notin overlapped => all = <<job[w].at>>
  <2>1. p \notin overlapped => rows[p] = <<>>
    BY <1>1 DEF ClassificationInv, InsertsIntoNone
  <2>2. Append(<<>>, job[w].at) = <<job[w].at>>
    OBVIOUS
  <2> QED BY <2>1, <2>2
<1>6. /\ all \in Seq(Times)
      /\ \A k \in DOMAIN all : all[k] = job[w].at \/ \E i \in DOMAIN rows[p] : all[k] = rows[p][i]
  <2> HIDE DEF p
  <2> QED BY <1>2, <1>4
<1> HIDE DEF p, all
<1> QED BY <1>1, <1>3, <1>5, <1>6, SaveStep

(* A process that takes up or leaves its work: the results stay, and it     *)
(* saves nothing yet, or no more.                                           *)
LEMMA TurnStep ==
  ASSUME ClassificationInv, NEW w \in Procs, ClassificationTypeOK',
         UNCHANGED <<now, rows, overlapped>>,
         \A v \in Procs : v # w => job'[v] = job[v],
         job'[w] # NoJob => /\ job'[w].stage = "compute"
                            /\ job'[w].at = now /\ job'[w].month = MonthOf(now)
                            /\ w \in Workers => job'[w].todo = Parts,
         \A month \in runs' \ runs, p \in Parts \ overlapped : ResultSince(rows[p], month)
  PROVE  ClassificationInv'
<1> USE DEF ClassificationInv
<1>1. \A p \in Parts : ~Saving(w, p)'
  BY DEF Saving, Busy
<1>2. \A v \in Procs, p \in Parts : Saving(v, p)' => v # w /\ Saving(v, p)
  BY <1>1, OthersGoOn
<1>3. NothingIsNewer'
  <2>1. \A p \in Parts : \A k \in DOMAIN rows'[p] : rows'[p][k] <= now'
    BY DEF NothingIsNewer
  <2>2. job'[w] # NoJob => job'[w].at <= now' /\ job'[w].month <= MonthOf(job'[w].at)
    <3>1. now \in Nat
      BY DEF ClassificationTypeOK, Times
    <3> QED BY <3>1, MonthsInOrder
  <2>3. \A v \in Procs : job'[v] # NoJob =>
          job'[v].at <= now' /\ job'[v].month <= MonthOf(job'[v].at)
    BY <2>2 DEF NothingIsNewer
  <2> QED BY <2>1, <2>3 DEF NothingIsNewer, MonthOf
<1>4. OneSaver'
  BY <1>2 DEF OneSaver
<1>5. InsertsIntoNone'
  <2> SUFFICES ASSUME NEW v \in Procs, At(v, "insert")', Part(v)' \notin overlapped'
               PROVE  rows'[Part(v)'] = <<>>
    BY DEF InsertsIntoNone
  <2>1. v # w
    BY DEF At, Busy
  <2>2. At(v, "insert") /\ Part(v)' = Part(v)
    BY <2>1, OthersGoOn
  <2> QED BY <2>2 DEF InsertsIntoNone
<1>6. SavesForward'
  BY <1>2 DEF SavesForward
<1>7. PassSoFar'
  <2> SUFFICES ASSUME NEW v \in Workers, job'[v] # NoJob,
                      NEW p \in Parts \ (job'[v].todo \cup overlapped)
               PROVE  ResultSince(rows'[p], job'[v].month)
    BY DEF PassSoFar
  <2>1. v # w /\ v \in Procs
    BY DEF Procs
  <2>2. ResultSince(rows[p], job[v].month)
    BY <2>1 DEF PassSoFar
  <2> QED BY <2>1, <2>2 DEF ResultSince, MonthOf
<1>8. OneResultPerPart'
  BY DEF OneResultPerPart
<1>9. RecordedPassIsComplete'
  BY DEF RecordedPassIsComplete, ResultSince, MonthOf
<1> QED BY <1>3, <1>4, <1>5, <1>6, <1>7, <1>8, <1>9

LEMMA LostStep ==
  ASSUME ClassificationInv, NEW w \in Procs, AttemptLost(w)
  PROVE  ClassificationInv'
<1> USE DEF ClassificationInv
<1>1. /\ job' = [job EXCEPT ![w] = NoJob]
      /\ UNCHANGED <<now, rows, branchRows, fired, runs, overlapped>>
  BY DEF AttemptLost
<1>2. job'[w] = NoJob /\ \A v \in Procs : v # w => job'[v] = job[v]
  BY <1>1 DEF ClassificationTypeOK
<1>3. /\ task' \in [state : {"none", "queued", "running"}, tries : 0 .. MaxAttempts]
      /\ task'.state = "queued" => task'.tries < MaxAttempts
  <2>1. CASE task' = task
    BY <2>1 DEF ClassificationTypeOK
  <2>2. CASE task.tries < MaxAttempts /\ task' = [task EXCEPT !.state = "queued"]
    BY <2>2 DEF ClassificationTypeOK
  <2>3. CASE task' = NoTask
    BY <2>3, ClassificationAssumption DEF NoTask
  <2> QED BY <2>1, <2>2, <2>3 DEF AttemptLost
<1>4. ClassificationTypeOK'
  <2>1. job' \in [Procs -> Job \cup {NoJob}]
    BY <1>1 DEF ClassificationTypeOK
  <2>2. \A v \in Procs : job'[v] # NoJob => job'[v].at \in Times /\ job'[v].month \in Months
    BY <1>2 DEF ClassificationTypeOK
  <2> QED BY <1>1, <1>3, <2>1, <2>2 DEF ClassificationTypeOK
<1> QED BY <1>1, <1>2, <1>4, TurnStep

(* A job that is taken up now. *)
LEMMA NewJobIsFresh ==
  ASSUME ClassificationTypeOK, NEW todo \in SUBSET Parts
  PROVE  LET new == NewJob(MonthOf(now), todo)
         IN  /\ new \in Job /\ new # NoJob /\ new.at \in Times /\ new.month \in Months
             /\ new.stage = "compute" /\ new.at = now /\ new.month = MonthOf(now)
             /\ new.todo = todo
<1>1. now \in Times /\ now \in Nat /\ MonthOf(now) \in Months
  BY DEF ClassificationTypeOK, Times, Months
<1>2. MonthOf(now) \in Nat
  BY <1>1, MonthsInOrder
<1> HIDE DEF MonthOf
<1> QED BY <1>1, <1>2, NoClassificationAssumption DEF NewJob, Job

LEMMA StartStep ==
  ASSUME ClassificationInv, NEW w \in Procs, NEW todo \in SUBSET Parts,
         w \in Workers => todo = Parts,
         job' = [job EXCEPT ![w] = NewJob(MonthOf(now), todo)],
         task' = task \/ (task.state = "queued" /\ task' = [state |-> "running", tries |-> task.tries + 1]),
         UNCHANGED <<now, rows, branchRows, fired, runs, overlapped>>
  PROVE  ClassificationInv'
<1> USE DEF ClassificationInv
<1> DEFINE new == NewJob(MonthOf(now), todo)
<1>1. job'[w] = new /\ \A v \in Procs : v # w => job'[v] = job[v]
  BY DEF ClassificationTypeOK
<1>2. /\ new \in Job /\ new # NoJob /\ new.at \in Times /\ new.month \in Months
      /\ new.stage = "compute" /\ new.at = now /\ new.month = MonthOf(now)
      /\ new.todo = todo
  BY NewJobIsFresh
<1>3. /\ task' \in [state : {"none", "queued", "running"}, tries : 0 .. MaxAttempts]
      /\ task'.state = "queued" => task'.tries < MaxAttempts
  BY ClassificationAssumption DEF ClassificationTypeOK
<1>4. job' = [job EXCEPT ![w] = new]
  OBVIOUS
<1> HIDE DEF new
<1>5. ClassificationTypeOK'
  <2>1. job' \in [Procs -> Job \cup {NoJob}]
    BY <1>2, <1>4 DEF ClassificationTypeOK
  <2>2. \A v \in Procs : job'[v] # NoJob => job'[v].at \in Times /\ job'[v].month \in Months
    BY <1>1, <1>2 DEF ClassificationTypeOK
  <2> QED BY <1>3, <2>1, <2>2 DEF ClassificationTypeOK
<1> QED BY <1>1, <1>2, <1>5, TurnStep

(* The ScheduledRun row of a pass that is through with every part. *)
LEMMA FinishStep ==
  ASSUME ClassificationInv, NEW w \in Procs, FinishPass(w) \/ FinishCommand(w)
  PROVE  ClassificationInv'
<1> USE DEF ClassificationInv
<1>1. /\ job' = [job EXCEPT ![w] = NoJob] /\ job[w] # NoJob
      /\ UNCHANGED <<now, rows, branchRows, fired, overlapped>>
      /\ task' = task \/ task' = NoTask
      /\ runs' = runs \/ (w \in Workers /\ job[w].todo = {} /\ runs' = runs \cup {job[w].month})
  BY DEF FinishPass, FinishCommand
<1>2. job'[w] = NoJob /\ \A v \in Procs : v # w => job'[v] = job[v]
  BY <1>1 DEF ClassificationTypeOK
<1>3. /\ task' \in [state : {"none", "queued", "running"}, tries : 0 .. MaxAttempts]
      /\ task'.state = "queued" => task'.tries < MaxAttempts
  BY <1>1, ClassificationAssumption DEF ClassificationTypeOK, NoTask
<1>4. ClassificationTypeOK'
  <2>1. job' \in [Procs -> Job \cup {NoJob}]
    BY <1>1 DEF ClassificationTypeOK
  <2>2. \A v \in Procs : job'[v] # NoJob => job'[v].at \in Times /\ job'[v].month \in Months
    BY <1>2 DEF ClassificationTypeOK
  <2>3. runs' \subseteq Months
    BY <1>1 DEF ClassificationTypeOK
  <2> QED BY <1>1, <1>3, <2>1, <2>2, <2>3 DEF ClassificationTypeOK
<1>5. \A month \in runs' \ runs, p \in Parts \ overlapped : ResultSince(rows[p], month)
  BY <1>1 DEF PassSoFar
<1> QED BY <1>1, <1>2, <1>4, <1>5, TurnStep

(* A part is computed: its result is dated now, which nothing is newer than, *)
(* and if somebody else has a result of it, it counts as overlapped.         *)
LEMMA ComputeStep ==
  ASSUME ClassificationInv, NEW w \in Procs, Compute(w)
  PROVE  ClassificationInv'
<1> USE DEF ClassificationInv
<1> DEFINE new == [job[w] EXCEPT !.stage = "look", !.at = now]
           p == Part(w)
<1>1. /\ job' = [job EXCEPT ![w] = new]
      /\ UNCHANGED <<now, rows, branchRows, fired, task, runs>>
      /\ overlapped \subseteq overlapped' /\ overlapped' \subseteq overlapped \cup {p}
      /\ (\E v \in Procs : Saving(v, p)) => p \in overlapped'
      /\ Busy(w) /\ job[w].stage = "compute"
  BY DEF Compute, At
<1>2. job[w] # NoJob /\ job[w] \in Job /\ job[w].todo \subseteq Parts
  BY <1>1 DEF Busy, ClassificationTypeOK, Job
<1>3. p \in Parts
  BY <1>1, <1>2, PartIsTodo
<1>4. now \in Times /\ now \in Nat
  BY DEF ClassificationTypeOK, Times
<1>5. /\ new \in Job /\ new # NoJob /\ new.stage = "look" /\ new.at = now
      /\ new.todo = job[w].todo /\ new.month = job[w].month
  BY <1>2, <1>4, NoClassificationAssumption DEF Job
<1>6. job'[w] = new /\ \A v \in Procs : v # w => job'[v] = job[v]
  BY <1>1 DEF ClassificationTypeOK
<1>7. Part(w)' = p
  BY <1>5, <1>6 DEF Part
<1> HIDE DEF new, p
<1>8. ClassificationTypeOK'
  <2>1. job' \in [Procs -> Job \cup {NoJob}]
    BY <1>1, <1>5 DEF ClassificationTypeOK
  <2>2. \A v \in Procs : job'[v] # NoJob => job'[v].at \in Times /\ job'[v].month \in Months
    BY <1>2, <1>4, <1>5, <1>6 DEF ClassificationTypeOK
  <2>3. overlapped' \subseteq Parts
    BY <1>1, <1>3 DEF ClassificationTypeOK
  <2> QED BY <1>1, <2>1, <2>2, <2>3 DEF ClassificationTypeOK
<1>9. NothingIsNewer'
  <2>1. job[w].at \in Nat /\ job[w].at <= now /\ job[w].month <= MonthOf(job[w].at)
        /\ job[w].month \in Nat
    BY <1>2 DEF NothingIsNewer, ClassificationTypeOK, Times, Job
  <2>2. job[w].month <= MonthOf(now)
    BY <1>4, <2>1, MonthsInOrder
  <2>3. \A v \in Procs : job'[v] # NoJob =>
          job'[v].at <= now /\ job'[v].month <= MonthOf(job'[v].at)
    BY <1>4, <1>5, <1>6, <2>2 DEF NothingIsNewer
  <2> QED BY <1>1, <2>3 DEF NothingIsNewer, MonthOf
<1>10. \A v \in Procs, q \in Parts : Saving(v, q)' => Saving(v, q) \/ (v = w /\ q = p)
  <2> SUFFICES ASSUME NEW v \in Procs, NEW q \in Parts, Saving(v, q)'
               PROVE  Saving(v, q) \/ (v = w /\ q = p)
    OBVIOUS
  <2>1. CASE v # w
    BY <1>6, <2>1, OthersGoOn
  <2>2. CASE v = w
    BY <1>7, <2>2 DEF Saving
  <2> QED BY <2>1, <2>2
<1>11. OneSaver'
  <2> SUFFICES ASSUME NEW q \in Parts \ overlapped', NEW u \in Procs, NEW v \in Procs,
                      Saving(u, q)', Saving(v, q)'
               PROVE  u = v
    BY DEF OneSaver
  <2>1. q \notin overlapped
    BY <1>1
  <2>2. CASE q = p
    BY <1>1, <1>10, <2>2
  <2>3. CASE q # p
    BY <1>10, <2>1, <2>3 DEF OneSaver
  <2> QED BY <2>2, <2>3
<1>12. InsertsIntoNone'
  <2> SUFFICES ASSUME NEW v \in Procs, At(v, "insert")', Part(v)' \notin overlapped'
               PROVE  rows'[Part(v)'] = <<>>
    BY DEF InsertsIntoNone
  <2>1. v # w
    BY <1>5, <1>6 DEF At
  <2>2. At(v, "insert") /\ Part(v)' = Part(v)
    BY <1>6, <2>1, OthersGoOn
  <2> QED BY <1>1, <2>2 DEF InsertsIntoNone
<1>13. SavesForward'
  <2> SUFFICES ASSUME NEW v \in Procs, NEW q \in Parts \ overlapped', Saving(v, q)',
                      NEW k \in DOMAIN rows[q]
               PROVE  rows[q][k] <= job'[v].at
    BY <1>1 DEF SavesForward
  <2>1. CASE v = w
    BY <1>5, <1>6, <2>1 DEF NothingIsNewer
  <2>2. CASE v # w
    BY <1>1, <1>6, <1>10, <2>2 DEF SavesForward
  <2> QED BY <2>1, <2>2
<1>14. PassSoFar'
  <2> SUFFICES ASSUME NEW v \in Workers, job'[v] # NoJob,
                      NEW q \in Parts \ (job'[v].todo \cup overlapped')
               PROVE  ResultSince(rows'[q], job'[v].month)
    BY DEF PassSoFar
  <2>1. v \in Procs /\ job[v] # NoJob /\ job'[v].month = job[v].month
        /\ job'[v].todo = job[v].todo
    BY <1>2, <1>5, <1>6 DEF Procs
  <2>2. ResultSince(rows[q], job[v].month)
    BY <1>1, <2>1 DEF PassSoFar
  <2> QED BY <1>1, <2>1, <2>2 DEF ResultSince, MonthOf
<1>15. OneResultPerPart'
  BY <1>1 DEF OneResultPerPart
<1>16. RecordedPassIsComplete'
  BY <1>1 DEF RecordedPassIsComplete, MonthOf
<1> QED BY <1>8, <1>9, <1>11, <1>12, <1>13, <1>14, <1>15, <1>16

(* The look-up finds nothing: the process is to insert. *)
LEMMA MissingStep ==
  ASSUME ClassificationInv, NEW w \in Procs, Missing(w)
  PROVE  ClassificationInv'
<1> USE DEF ClassificationInv
<1> DEFINE new == [job[w] EXCEPT !.stage = "insert"]
<1>1. /\ job' = [job EXCEPT ![w] = new]
      /\ UNCHANGED <<now, rows, branchRows, fired, task, runs, overlapped>>
      /\ Busy(w) /\ job[w].stage = "look" /\ rows[Part(w)] = <<>>
  BY DEF Missing, At, Found
<1>2. job[w] # NoJob /\ job[w] \in Job
  BY <1>1 DEF Busy, ClassificationTypeOK
<1>3. /\ new \in Job /\ new # NoJob /\ new.stage = "insert" /\ new.at = job[w].at
      /\ new.todo = job[w].todo /\ new.month = job[w].month
  BY <1>2, NoClassificationAssumption DEF Job
<1>4. job'[w] = new /\ \A v \in Procs : v # w => job'[v] = job[v]
  BY <1>1 DEF ClassificationTypeOK
<1> HIDE DEF new
<1>5. \A v \in Procs : /\ Part(v)' = Part(v)
                       /\ (job'[v] = NoJob) = (job[v] = NoJob)
                       /\ job'[v] # NoJob => /\ job'[v].at = job[v].at
                                             /\ job'[v].month = job[v].month
                                             /\ job'[v].todo = job[v].todo
  BY <1>2, <1>3, <1>4 DEF Part
<1>6. \A v \in Procs, p \in Parts : Saving(v, p)' => Saving(v, p)
  BY <1>1, <1>4, <1>5 DEF Saving, Busy
<1>7. ClassificationTypeOK'
  <2>1. job' \in [Procs -> Job \cup {NoJob}]
    BY <1>1, <1>3 DEF ClassificationTypeOK
  <2>2. \A v \in Procs : job'[v] # NoJob => job'[v].at \in Times /\ job'[v].month \in Months
    BY <1>5 DEF ClassificationTypeOK
  <2> QED BY <1>1, <2>1, <2>2 DEF ClassificationTypeOK
<1>8. NothingIsNewer'
  BY <1>1, <1>5 DEF NothingIsNewer, MonthOf
<1>9. OneSaver'
  BY <1>1, <1>6 DEF OneSaver
<1>10. InsertsIntoNone'
  <2> SUFFICES ASSUME NEW v \in Procs, At(v, "insert")', Part(v)' \notin overlapped'
               PROVE  rows'[Part(v)'] = <<>>
    BY DEF InsertsIntoNone
  <2>1. CASE v = w
    BY <1>1, <1>5, <2>1
  <2>2. CASE v # w
    <3>1. At(v, "insert")
      BY <1>4, <2>2, OthersGoOn
    <3> QED BY <1>1, <1>5, <3>1 DEF InsertsIntoNone
  <2> QED BY <2>1, <2>2
<1>11. SavesForward'
  <2> SUFFICES ASSUME NEW v \in Procs, NEW p \in Parts \ overlapped, Saving(v, p)',
                      NEW k \in DOMAIN rows[p]
               PROVE  rows[p][k] <= job'[v].at
    BY <1>1 DEF SavesForward
  <2>1. job[v] # NoJob
    BY <1>6 DEF Saving, Busy
  <2> QED BY <1>5, <1>6, <2>1 DEF SavesForward
<1>12. PassSoFar'
  <2> SUFFICES ASSUME NEW v \in Workers, job'[v] # NoJob,
                      NEW p \in Parts \ (job'[v].todo \cup overlapped)
               PROVE  ResultSince(rows'[p], job'[v].month)
    BY <1>1 DEF PassSoFar
  <2>1. ResultSince(rows[p], job[v].month)
    BY <1>5 DEF PassSoFar, Procs
  <2> QED BY <1>1, <1>5, <2>1 DEF ResultSince, MonthOf, Procs
<1>13. OneResultPerPart'
  BY <1>1 DEF OneResultPerPart
<1>14. RecordedPassIsComplete'
  BY <1>1 DEF RecordedPassIsComplete, MonthOf
<1> QED BY <1>7, <1>8, <1>9, <1>10, <1>11, <1>12, <1>13, <1>14

(* Time, the schedule and the results of branches disturb nothing. *)
LEMMA AroundStep ==
  ASSUME ClassificationInv, ClassificationTypeOK', now <= now',
         UNCHANGED <<rows, job, runs, overlapped>>
  PROVE  ClassificationInv'
<1> USE DEF ClassificationInv
<1>1. now \in Nat /\ now' \in Nat
  BY DEF ClassificationTypeOK, Times
<1>2. NothingIsNewer'
  <2>1. \A p \in Parts : \A k \in DOMAIN rows[p] : rows[p][k] <= now'
    <3> SUFFICES ASSUME NEW p \in Parts, NEW k \in DOMAIN rows[p] PROVE rows[p][k] <= now'
      OBVIOUS
    <3>1. rows[p] \in Seq(Times)
      BY DEF ClassificationTypeOK
    <3>2. rows[p][k] \in Nat
      BY <3>1, TimesInSeq
    <3> QED BY <1>1, <3>2 DEF NothingIsNewer
  <2>2. \A w \in Procs : job[w] # NoJob => job[w].at <= now'
    <3> SUFFICES ASSUME NEW w \in Procs, job[w] # NoJob PROVE job[w].at <= now'
      OBVIOUS
    <3>1. job[w].at \in Nat
      BY DEF ClassificationTypeOK, Times
    <3> QED BY <1>1, <3>1 DEF NothingIsNewer
  <2> QED BY <2>1, <2>2 DEF NothingIsNewer, MonthOf
<1>3. /\ OneSaver' /\ InsertsIntoNone' /\ SavesForward'
      /\ \A v \in Procs, p \in Parts : Saving(v, p)' = Saving(v, p)
  BY DEF OneSaver, InsertsIntoNone, SavesForward, Saving, Busy, Part, At
<1>4. PassSoFar' /\ OneResultPerPart' /\ RecordedPassIsComplete'
  BY DEF PassSoFar, OneResultPerPart, RecordedPassIsComplete, ResultSince, MonthOf
<1> QED BY <1>2, <1>3, <1>4

LEMMA ClassificationStep ==
  ClassificationInv /\ [Next]_vars => ClassificationInv'
<1> SUFFICES ASSUME ClassificationInv, [Next]_vars PROVE ClassificationInv'
  OBVIOUS
<1>0. ClassificationTypeOK
  BY DEF ClassificationInv
<1>1. CASE Tick
  <2>1. now' \in Times /\ now <= now'
    BY <1>0, <1>1, ClassificationAssumption DEF Tick, ClassificationTypeOK, Times
  <2>2. ClassificationTypeOK'
    BY <1>0, <1>1, <2>1 DEF Tick, ClassificationTypeOK
  <2> QED BY <1>1, <2>1, <2>2, AroundStep DEF Tick
<1>2. CASE ScheduleFires
  <2>1. now \in Nat /\ MonthOf(now) \in Months
    BY <1>0 DEF ClassificationTypeOK, Times, Months
  <2>2. [state |-> "queued", tries |-> 0] \in
          [state : {"none", "queued", "running"}, tries : 0 .. MaxAttempts]
        /\ 0 < MaxAttempts
    BY ClassificationAssumption
  <2>3. ClassificationTypeOK'
    BY <1>0, <1>2, <2>1, <2>2 DEF ScheduleFires, ClassificationTypeOK
  <2>4. now <= now'
    BY <1>2, <2>1 DEF ScheduleFires
  <2> QED BY <1>2, <2>3, <2>4, AroundStep DEF ScheduleFires
<1>3. ASSUME NEW p \in Parts, NEW b \in Branches, BranchClassified(p, b)
      PROVE  ClassificationInv'
  <2>1. now \in Nat /\ now <= now' /\ now \in Times
    BY <1>0, <1>3 DEF BranchClassified, ClassificationTypeOK, Times
  <2>2. /\ DOMAIN branchRows' = Parts
        /\ \A q \in Parts : /\ branchRows'[q] \in [DOMAIN branchRows'[q] -> Times]
                            /\ DOMAIN branchRows'[q] \subseteq Branches
    <3> DEFINE new == [c \in DOMAIN branchRows[p] \cup {b} |->
                         IF c = b THEN now ELSE branchRows[p][c]]
    <3>1. branchRows' = [branchRows EXCEPT ![p] = new]
      BY <1>3 DEF BranchClassified
    <3>2. new \in [DOMAIN new -> Times] /\ DOMAIN new \subseteq Branches
      BY <1>0, <2>1 DEF ClassificationTypeOK
    <3> HIDE DEF new
    <3>3. DOMAIN branchRows' = Parts /\ \A q \in Parts :
            branchRows'[q] = IF q = p THEN new ELSE branchRows[q]
      BY <1>0, <3>1 DEF ClassificationTypeOK
    <3> QED BY <1>0, <3>2, <3>3 DEF ClassificationTypeOK
  <2>3. ClassificationTypeOK'
    BY <1>0, <1>3, <2>2 DEF BranchClassified, ClassificationTypeOK
  <2> QED BY <1>3, <2>1, <2>3, AroundStep DEF BranchClassified
<1>4. ASSUME NEW w \in Workers, StartPass(w)
      PROVE  ClassificationInv'
  <2>1. w \in Procs
    BY DEF Procs
  <2>2. CASE MonthOf(now) \in runs
    <3>1. NoTask \in [state : {"none", "queued", "running"}, tries : 0 .. MaxAttempts]
      BY ClassificationAssumption DEF NoTask
    <3>2. ClassificationTypeOK'
      BY <1>0, <1>4, <2>2, <3>1 DEF StartPass, ClassificationTypeOK, NoTask
    <3>3. now <= now'
      BY <1>0, <1>4 DEF StartPass, ClassificationTypeOK, Times
    <3> QED BY <1>4, <2>2, <3>2, <3>3, AroundStep DEF StartPass
  <2>3. CASE MonthOf(now) \notin runs
    BY <1>4, <2>1, <2>3, StartStep DEF StartPass, PassParts
  <2> QED BY <2>2, <2>3
<1>5. ASSUME NEW s \in Shells, NEW asked \in {Parts} \cup {{p} : p \in Parts},
             NEW force \in BOOLEAN, StartCommand(s, asked, force)
      PROVE  ClassificationInv'
  <2> DEFINE todo == {p \in asked : force \/ ~IsRecent(p)}
  <2>1. todo \in SUBSET Parts /\ s \in Procs /\ s \notin Workers
    BY ClassificationAssumption DEF Procs
  <2>2. /\ job' = [job EXCEPT ![s] = NewJob(MonthOf(now), todo)]
        /\ UNCHANGED <<now, rows, branchRows, fired, task, runs, overlapped>>
    BY <1>5 DEF StartCommand
  <2> HIDE DEF todo
  <2> QED BY <2>1, <2>2, StartStep
<1>6. ASSUME NEW w \in Procs, ProcStep(w) \/ Crash(w)
      PROVE  ClassificationInv'
  <2>1. CASE Compute(w)
    BY <2>1, ComputeStep
  <2>2. CASE Update(w)
    BY <2>2, UpdateStep
  <2>3. CASE Missing(w)
    BY <2>3, MissingStep
  <2>4. CASE Insert(w)
    BY <2>4, InsertStep
  <2>5. CASE Ambiguous(w) \/ Crash(w)
    BY <2>5, LostStep DEF Ambiguous, Crash
  <2>6. CASE FinishPass(w) \/ FinishCommand(w)
    BY <2>6, FinishStep
  <2> QED BY <1>6, <2>1, <2>2, <2>3, <2>4, <2>5, <2>6 DEF ProcStep
<1>7. CASE UNCHANGED vars
  <2>1. UNCHANGED <<now, rows, branchRows, fired, task, job, runs, overlapped>>
    BY <1>7 DEF vars
  <2>2. ClassificationTypeOK' /\ now <= now'
    BY <1>0, <2>1 DEF ClassificationTypeOK, Times
  <2> QED BY <2>1, <2>2, AroundStep
<1> QED BY <1>1, <1>2, <1>3, <1>4, <1>5, <1>6, <1>7 DEF Next

--------------------------------------------------------------------------------
(* Rows, jobs and the task of the monthly pass stay well formed; the broker *)
(* never delivers a task more than MaxAttempts times.                       *)
THEOREM ClassificationTypeCorrect == Spec => []ClassificationTypeOK
<1>1. ClassificationInv => ClassificationTypeOK
  BY DEF ClassificationInv
<1> QED BY ClassificationInit, ClassificationStep, <1>1, PTL DEF Spec

(* However passes and commands follow each other, are lost or repeated, a   *)
(* part has at most one tenant-wide result, unless two processes classified *)
(* it at one time.                                                          *)
THEOREM ResultIsSingle == Spec => []OneResultPerPart
<1>1. ClassificationInv => OneResultPerPart
  BY DEF ClassificationInv
<1> QED BY ClassificationInit, ClassificationStep, <1>1, PTL DEF Spec

(* A month is recorded only when every part has a result of it, and nothing *)
(* takes that back, unless two processes classified the part at one time.   *)
THEOREM RecordedPassesAreComplete == Spec => []RecordedPassIsComplete
<1>1. ClassificationInv => RecordedPassIsComplete
  BY DEF ClassificationInv
<1> QED BY ClassificationInit, ClassificationStep, <1>1, PTL DEF Spec
================================================================================
