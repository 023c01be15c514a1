---------------------------- MODULE OnboardingProofs -----------------------------
(***************************************************************************)
(* Proofs about Onboarding, for any users, branches, adapters, attempts    *)
(* and number of requests.                                                 *)
(***************************************************************************)
EXTENDS Onboarding, TLAPS

(* A request sleeps only between two attempts.                              *)
AsleepInv ==
  \A u \in Users : request[u] # None /\ request[u].retry = "asleep" =>
    request[u].attempt \in 1 .. MaxAttempts - 1

TypeInv == OnboardingTypeOK /\ AsleepInv

LEMMA NoneIsApart == None \notin Requests /\ None.op = "none"
<1>1. None.op = "none"
  BY DEF None
<1>2. \A r \in Requests : r.op # "none"
  BY DEF Requests, Ops
<1> QED
  BY <1>1, <1>2

LEMMA FirstAttempt == \A q \in Requests : [q EXCEPT !.attempt = 1] \in Requests
BY OnboardingAssumption DEF Requests

LEMMA UnderWay ==
  ASSUME TypeInv, NEW u \in Users, request[u].op \in Ops
  PROVE  request[u] \in Requests
<1>1. request[u] # None
  BY NoneIsApart DEF Ops
<1> QED
  BY <1>1 DEF TypeInv, OnboardingTypeOK

(* What a step that replaces one request owes.                              *)
LEMMA Writing ==
  ASSUME TypeInv, NEW u \in Users, NEW r \in Requests \cup {None},
         r # None /\ r.retry = "asleep" => r.attempt \in 1 .. MaxAttempts - 1,
         request' = [request EXCEPT ![u] = r]
  PROVE  request' \in [Users -> Requests \cup {None}] /\ AsleepInv'
<1>1. request' \in [Users -> Requests \cup {None}]
  BY DEF TypeInv, OnboardingTypeOK
<1>2. ASSUME NEW v \in Users, request'[v] # None, request'[v].retry = "asleep"
      PROVE  request'[v].attempt \in 1 .. MaxAttempts - 1
  <2>1. CASE v = u
    <3>1. request'[v] = r
      BY <2>1 DEF TypeInv, OnboardingTypeOK
    <3> QED
      BY <1>2, <3>1
  <2>2. CASE v # u
    <3>1. request'[v] = request[v]
      BY <2>2 DEF TypeInv, OnboardingTypeOK
    <3> QED
      BY <1>2, <3>1 DEF TypeInv, AsleepInv
  <2> QED
    BY <2>1, <2>2
<1> QED
  BY <1>1, <1>2 DEF AsleepInv

LEMMA Ending ==
  ASSUME TypeInv, NEW u \in Users, End(u)
  PROVE  request' \in [Users -> Requests \cup {None}] /\ AsleepInv'
<1>1. request' = [request EXCEPT ![u] = None]
  BY DEF End
<1> QED
  BY <1>1, Writing

LEMMA InitType == Init => TypeInv
<1>1. SUFFICES ASSUME Init PROVE TypeInv
  OBVIOUS
<1>2. PICK a \in Adapters :
        state = [status |-> "not_started", adapter |-> a, dmsTest |-> "", ticks |-> {}]
  BY <1>1 DEF Init
<1>3. state \in States
  BY <1>2 DEF States, Statuses, TestResults
<1>4. request \in [Users -> Requests \cup {None}] /\ \A u \in Users : request[u] = None
  BY <1>1 DEF Init
<1>5. 0 \in 0 .. MaxAttempts /\ 0 \in 0 .. MaxRequests
  BY OnboardingAssumption
<1>6. manager \in [Branches -> {"none", "fallback", "named"}]
  BY <1>1 DEF Init
<1>7. refused = 0 /\ requests = 0 /\ answered = FALSE /\ imported = {} /\ generated = {}
  BY <1>1 DEF Init
<1> QED
  BY <1>3, <1>4, <1>5, <1>6, <1>7 DEF TypeInv, OnboardingTypeOK, AsleepInv

(* One step per action for what it writes.                                  *)
LEMMA StepType ==
  ASSUME TypeInv, [Next]_vars PROVE TypeInv'
<1> USE OnboardingAssumption
<1> DEFINE Request == request' \in [Users -> Requests \cup {None}] /\ AsleepInv'
<1>1. CASE UNCHANGED vars
  BY <1>1 DEF TypeInv, OnboardingTypeOK, AsleepInv, vars
<1>2. ASSUME NEW u \in Users, NEW op \in Ops, Begin(u, op) PROVE TypeInv'
  <2> DEFINE r == [op |-> op, at |-> "loaded", inst |-> state, todo |-> Branches, attempt |-> 1,
                   retry |-> "calling", unmanaged |-> {}]
  <2>1. r \in Requests /\ r.retry = "calling"
    BY DEF Requests, TypeInv, OnboardingTypeOK
  <2>2. request' = [request EXCEPT ![u] = r]
    BY <1>2 DEF Begin
  <2>3. Request
    BY <2>1, <2>2, Writing
  <2>4. requests' \in 0 .. MaxRequests
    BY <1>2 DEF Begin, TypeInv, OnboardingTypeOK
  <2> QED
    BY <1>2, <2>3, <2>4 DEF Begin, TypeInv, OnboardingTypeOK
<1>3. ASSUME NEW u \in Users, StartOnboarding(u) PROVE TypeInv'
  <2>1. request[u] \in Requests
    BY <1>3, UnderWay DEF StartOnboarding, At, Ops
  <2>2. state' \in States
    BY <1>3, <2>1 DEF StartOnboarding, Requests, States, Statuses
  <2>3. Request
    BY <1>3, Ending DEF StartOnboarding
  <2> QED
    BY <1>3, <2>2, <2>3 DEF StartOnboarding, TypeInv, OnboardingTypeOK
<1>4. Counted(refused) \in 0 .. MaxAttempts
  BY DEF Counted, TypeInv, OnboardingTypeOK
<1>5. ASSUME NEW u \in Users, Retry(u) PROVE TypeInv'
  <2> DEFINE r == [request[u] EXCEPT !.retry = "asleep"]
  <2>1. request[u] \in Requests
    BY <1>5, UnderWay DEF Retry, Calling, At, Ops
  <2>2. r \in Requests
    BY <2>1 DEF Requests
  <2>5. r.attempt \in 1 .. MaxAttempts - 1
    BY <1>5, <2>1 DEF Retry, IsLast, Requests
  <2>3. request' = [request EXCEPT ![u] = r]
    BY <1>5 DEF Retry
  <2>4. Request
    BY <2>2, <2>3, <2>5, Writing
  <2> QED
    BY <1>4, <1>5, <2>4 DEF Retry, TypeInv, OnboardingTypeOK
<1>6. ASSUME NEW u \in Users, CallAgain(u) PROVE TypeInv'
  <2> DEFINE r == [request[u] EXCEPT !.retry = "calling", !.attempt = @ + 1]
  <2>1. request[u] \in Requests /\ request[u].attempt \in 1 .. MaxAttempts - 1
    BY <1>6 DEF CallAgain, TypeInv, OnboardingTypeOK, AsleepInv
  <2> DEFINE q == [request[u] EXCEPT !.retry = "calling"]
  <2>6. q \in Requests
    BY <2>1 DEF Requests
  <2>7. q.attempt + 1 \in 1 .. MaxAttempts
    BY <2>1 DEF Requests
  <2>8. [q EXCEPT !.attempt = q.attempt + 1] \in Requests
    BY <2>6, <2>7 DEF Requests
  <2>9. q.attempt = request[u].attempt
    BY <2>1 DEF Requests
  <2>2. r \in Requests
    BY <2>8, <2>9
  <2>5. r.retry = "calling"
    BY <2>1 DEF Requests
  <2>3. request' = [request EXCEPT ![u] = r]
    BY <1>6 DEF CallAgain, Again
  <2>4. Request
    BY <2>2, <2>3, <2>5, Writing
  <2> QED
    BY <1>6, <2>4 DEF CallAgain, TypeInv, OnboardingTypeOK
<1>7. ASSUME NEW u \in Users, NEW cause \in TestResults, NEW fits \in BOOLEAN,
             request[u].op \in Ops, Raise(u, cause, fits)
      PROVE  state' \in States /\ Request
  <2>1. request[u] \in Requests
    BY <1>7, UnderWay
  <2>2. state' \in States
    BY <1>7, <2>1 DEF Raise, Requests, States, Statuses, TypeInv, OnboardingTypeOK
  <2> QED
    BY <1>7, <2>2, Ending DEF Raise
<1>8. ASSUME NEW u \in Users, GiveUp(u) PROVE TypeInv'
  <2>1. state' \in States /\ Request
    BY <1>7, <1>8 DEF GiveUp, Calling, At, Ops, TestResults
  <2> QED
    BY <1>4, <1>8, <2>1 DEF GiveUp, TypeInv, OnboardingTypeOK
<1>9. ASSUME NEW u \in Users, Reject(u) PROVE TypeInv'
  <2>1. state' \in States /\ Request
    BY <1>7, <1>9 DEF Reject, Calling, At, Ops, TestResults
  <2> QED
    BY <1>9, <2>1 DEF Reject, TypeInv, OnboardingTypeOK
<1>10. ASSUME NEW u \in Users, NoAdapter(u) PROVE TypeInv'
  <2>1. state' \in States /\ Request
    BY <1>7, <1>10 DEF NoAdapter, At, Ops, TestResults
  <2> QED
    BY <1>10, <2>1 DEF NoAdapter, TypeInv, OnboardingTypeOK
<1>11. ASSUME NEW u \in Users, TestAnswered(u) PROVE TypeInv'
  <2>1. request[u] \in Requests
    BY <1>11, UnderWay DEF TestAnswered, Ops
  <2>5. request[u].inst \in States
    BY <2>1 DEF Requests
  <2>6. Answered(request[u].inst, TRUE) \in States
    BY <2>5 DEF Answered, States, Statuses, TestResults, Ticks
  <2>7. Answered(request[u].inst, FALSE) \in States
    BY <2>5 DEF Answered, States, TestResults
  <2>2. state' \in States
    BY <1>11, <2>6, <2>7 DEF TestAnswered
  <2>3. answered' \in BOOLEAN
    BY <1>11 DEF TestAnswered, TypeInv, OnboardingTypeOK
  <2>4. Request
    BY <1>11, Ending DEF TestAnswered
  <2> QED
    BY <1>11, <2>2, <2>3, <2>4 DEF TestAnswered, TypeInv, OnboardingTypeOK
<1>12. ASSUME NEW u \in Users, NEW new, NEW unmanaged \in SUBSET Branches,
              request[u] \in Requests, new \in States, SaveAndLoop(u, new, unmanaged)
       PROVE  state' \in States /\ Request
  <2> DEFINE r == [request[u] EXCEPT !.inst = new, !.at = "looping", !.unmanaged = unmanaged]
  <2>1. r \in Requests /\ (r.retry = "asleep" => r.attempt \in 1 .. MaxAttempts - 1)
    BY <1>12, NoneIsApart DEF Requests, TypeInv, AsleepInv
  <2>2. request' = [request EXCEPT ![u] = r]
    BY <1>12 DEF SaveAndLoop
  <2>3. Request
    BY <2>1, <2>2, Writing
  <2> QED
    BY <1>12, <2>3 DEF SaveAndLoop
<1>13. ASSUME NEW u \in Users, BackfillBegins(u) PROVE TypeInv'
  <2>1. request[u] \in Requests
    BY <1>13, UnderWay DEF BackfillBegins, At, Ops
  <2>2. [request[u].inst EXCEPT !.status = "sales_backfilling"] \in States
    BY <2>1 DEF Requests, States, Statuses
  <2>3. state' \in States /\ Request
    BY <1>12, <1>13, <2>1, <2>2 DEF BackfillBegins
  <2> QED
    BY <1>13, <2>3 DEF BackfillBegins, TypeInv, OnboardingTypeOK
<1>14. ASSUME NEW u \in Users, ReadSales(u) PROVE TypeInv'
  <2>1. request[u] \in Requests /\ request[u].retry = "calling"
    BY <1>14, UnderWay DEF ReadSales, Calling, Ops
  <2>2. PICK b \in request[u].todo :
          /\ request' = [request EXCEPT ![u].todo = @ \ {b}, ![u].attempt = 1]
          /\ imported' = imported \cup {b}
    BY <1>14 DEF ReadSales
  <2> DEFINE r == [request[u] EXCEPT !.todo = @ \ {b}, !.attempt = 1]
  <2> DEFINE q == [request[u] EXCEPT !.todo = @ \ {b}]
  <2>8. q \in Requests
    BY <2>1 DEF Requests
  <2>9. [q EXCEPT !.attempt = 1] \in Requests
    BY <2>8, FirstAttempt
  <2>3. r \in Requests
    BY <2>9
  <2>7. r.retry = "calling"
    BY <2>1 DEF Requests
  <2>4. request' = [request EXCEPT ![u] = r]
    BY <2>2
  <2>5. Request
    BY <2>1, <2>3, <2>4, <2>7, Writing
  <2>6. imported' \subseteq Branches
    BY <2>1, <2>2 DEF Requests, TypeInv, OnboardingTypeOK
  <2> QED
    BY <1>14, <2>5, <2>6 DEF ReadSales, TypeInv, OnboardingTypeOK
<1>15. ASSUME NEW u \in Users, BackfillEnds(u) PROVE TypeInv'
  <2>1. request[u] \in Requests
    BY <1>15, UnderWay DEF BackfillEnds, Ops
  <2>2. state' \in States
    BY <1>15, <2>1 DEF BackfillEnds, Requests, States, Statuses, Ticks
  <2>3. Request
    BY <1>15, Ending DEF BackfillEnds
  <2> QED
    BY <1>15, <2>2, <2>3 DEF BackfillEnds, TypeInv, OnboardingTypeOK
<1>16. ASSUME NEW u \in Users, SaveManager(u) PROVE TypeInv'
  <2> DEFINE r == [request[u] EXCEPT !.at = "looping"]
  <2>1. request[u] \in Requests
    BY <1>16, UnderWay DEF SaveManager, At, Ops
  <2>2. r \in Requests /\ (r.retry = "asleep" => r.attempt \in 1 .. MaxAttempts - 1)
    BY <2>1, NoneIsApart DEF Requests, TypeInv, AsleepInv
  <2>3. request' = [request EXCEPT ![u] = None] \/ request' = [request EXCEPT ![u] = r]
    BY <1>16 DEF SaveManager
  <2>4. Request
    BY <2>2, <2>3, Writing
  <2>5. manager' \in [Branches -> {"none", "fallback", "named"}]
    BY <1>16 DEF SaveManager, TypeInv, OnboardingTypeOK
  <2> QED
    BY <1>16, <2>4, <2>5 DEF SaveManager, TypeInv, OnboardingTypeOK
<1>17. ASSUME NEW u \in Users, ManagerAssigned(u) PROVE TypeInv'
  <2>1. request[u] \in Requests
    BY <1>17, UnderWay DEF ManagerAssigned, At, Ops
  <2>2. state' \in States
    BY <1>17, <2>1 DEF ManagerAssigned, Requests, States, Statuses, Ticks
  <2>3. Request
    BY <1>17, Ending DEF ManagerAssigned
  <2> QED
    BY <1>17, <2>2, <2>3 DEF ManagerAssigned, TypeInv, OnboardingTypeOK
<1>18. ASSUME NEW u \in Users, RunBegins(u) PROVE TypeInv'
  <2>1. request[u] \in Requests
    BY <1>18, UnderWay DEF RunBegins, At, Ops
  <2>2. [request[u].inst EXCEPT !.status = "test_running"] \in States
    BY <2>1 DEF Requests, States, Statuses
  <2>3. state' \in States /\ Request
    BY <1>12, <1>18, <2>1, <2>2 DEF RunBegins
  <2> QED
    BY <1>18, <2>3 DEF RunBegins, TypeInv, OnboardingTypeOK
<1>19. ASSUME NEW u \in Users, RunBranch(u) PROVE TypeInv'
  <2>1. request[u] \in Requests
    BY <1>19, UnderWay DEF RunBranch, At, Ops
  <2>2. PICK b \in request[u].todo :
          /\ manager' = IF b \in request[u].unmanaged
                        THEN [manager EXCEPT ![b] = "fallback"] ELSE manager
          /\ generated' = generated \cup {b}
          /\ request' = [request EXCEPT ![u].todo = @ \ {b}]
    BY <1>19 DEF RunBranch
  <2> DEFINE r == [request[u] EXCEPT !.todo = @ \ {b}]
  <2>3. r \in Requests /\ (r.retry = "asleep" => r.attempt \in 1 .. MaxAttempts - 1)
    BY <2>1, NoneIsApart DEF Requests, TypeInv, AsleepInv
  <2>4. request' = [request EXCEPT ![u] = r]
    BY <2>2
  <2>5. Request
    BY <2>3, <2>4, Writing
  <2>6. generated' \subseteq Branches /\ manager' \in [Branches -> {"none", "fallback", "named"}]
    BY <2>1, <2>2 DEF Requests, TypeInv, OnboardingTypeOK
  <2> QED
    BY <1>19, <2>5, <2>6 DEF RunBranch, TypeInv, OnboardingTypeOK
<1>20. ASSUME NEW u \in Users, RunEnds(u) PROVE TypeInv'
  <2>1. request[u] \in Requests
    BY <1>20, UnderWay DEF RunEnds, Ops
  <2>2. state' \in States
    BY <1>20, <2>1 DEF RunEnds, Requests, States, Statuses, Ticks
  <2>3. Request
    BY <1>20, Ending DEF RunEnds
  <2> QED
    BY <1>20, <2>2, <2>3 DEF RunEnds, TypeInv, OnboardingTypeOK
<1>21. ASSUME NEW u \in Users, Lose(u) PROVE TypeInv'
  BY <1>21, Ending DEF Lose, TypeInv, OnboardingTypeOK
<1> QED
  BY <1>1, <1>2, <1>3, <1>5, <1>6, <1>8, <1>9, <1>10, <1>11, <1>13, <1>14, <1>15, <1>16, <1>17,
     <1>18, <1>19, <1>20, <1>21 DEF Next, RequestStep

LEMMA TypeInvariant == Spec => []TypeInv
<1> QED
  BY InitType, StepType, PTL DEF Spec

(* The state row, every request and what they count stay well formed,       *)
(* whatever requests overlap; an attempt never exceeds max_attempts.        *)
THEOREM OnboardingTypeCorrect == Spec => []OnboardingTypeOK
<1> QED
  BY TypeInvariant, PTL DEF TypeInv
--------------------------------------------------------------------------------
(* What is done stays done, so it is enough to look at what an instance     *)
(* claims, and at how far its request has come, when they are written.  Both *)
(* are stated of values rather than of the variables, to be read before and *)
(* after a step alike.                                                      *)

Claims(s, im, ge, ma, an, re) ==
  /\ "connected" \in s.ticks => an
  /\ "backfilled" \in s.ticks => im = Branches
  /\ "assigned" \in s.ticks => \E b \in Branches : ma[b] # "none"
  /\ "tested" \in s.ticks => ge = Branches /\ \A b \in Branches : ma[b] # "none"
  /\ s.status = "dms_connected" => "connected" \in s.ticks
  /\ s.status = "backfill_complete" => "backfilled" \in s.ticks
  /\ s.status = "manager_assigning" => "assigned" \in s.ticks
  /\ s.status = "live" => "tested" \in s.ticks
  /\ s.status = "failed" => s.dmsTest \notin {"", "ok"}
  /\ s.dmsTest = "failed: transient" => re = MaxAttempts

Progress(r, im, ge, ma, re) ==
  /\ r.at = "loaded" => r.todo = Branches
  /\ r.op = "backfill" /\ r.at = "looping" => Branches \ r.todo \subseteq im
  /\ r.op = "run" /\ r.at = "looping" =>
       /\ Branches \ r.todo \subseteq ge
       /\ \A b \in Branches : b \notin r.todo \/ b \notin r.unmanaged => ma[b] # "none"
  /\ r.op = "assign" /\ r.at = "looping" => \E b \in Branches : ma[b] # "none"
  /\ r.retry = "calling" => r.attempt <= re + 1
  /\ r.retry = "asleep" => r.attempt <= re

IInv ==
  /\ TypeInv
  /\ Claims(state, imported, generated, manager, answered, refused)
  /\ \A u \in Users : request[u] \in Requests =>
       /\ Claims(request[u].inst, imported, generated, manager, answered, refused)
       /\ Progress(request[u], imported, generated, manager, refused)

(* Nothing that was done is undone.                                         *)
Grown ==
  /\ imported \subseteq imported' /\ generated \subseteq generated'
  /\ \A b \in Branches : manager[b] # "none" => manager'[b] # "none"
  /\ answered => answered'
  /\ refused <= refused'

LEMMA NextGrows == ASSUME TypeInv, TypeInv', Next PROVE Grown
<1>1. PICK u \in Users : (\E op \in Ops : Begin(u, op)) \/ RequestStep(u) \/ Lose(u)
  BY DEF Next
<1>2. imported \subseteq imported' /\ generated \subseteq generated'
  BY <1>1 DEF Begin, RequestStep, Lose, StartOnboarding, Retry, CallAgain, GiveUp, Reject, NoAdapter,
     TestAnswered, BackfillBegins, ReadSales, BackfillEnds, SaveManager, ManagerAssigned, RunBegins,
     RunBranch, RunEnds
<1>3. \A b \in Branches : manager[b] # "none" => manager'[b] # "none"
  <2>1. CASE SaveManager(u)
    BY <2>1 DEF SaveManager, TypeInv, OnboardingTypeOK
  <2>2. CASE RunBranch(u)
    BY <2>2 DEF RunBranch, TypeInv, OnboardingTypeOK
  <2>3. CASE manager' = manager
    BY <2>3
  <2> QED
    BY <1>1, <2>1, <2>2, <2>3 DEF Begin, RequestStep, Lose, StartOnboarding, Retry, CallAgain, GiveUp,
       Reject, NoAdapter, TestAnswered, BackfillBegins, ReadSales, BackfillEnds, ManagerAssigned,
       RunBegins, RunEnds
<1>4. answered => answered'
  <2>1. CASE TestAnswered(u)
    BY <2>1 DEF TestAnswered
  <2>2. CASE answered' = answered
    BY <2>2
  <2> QED
    BY <1>1, <2>1, <2>2 DEF Begin, RequestStep, Lose, StartOnboarding, Retry, CallAgain, GiveUp,
       Reject, NoAdapter, BackfillBegins, ReadSales, BackfillEnds, SaveManager, ManagerAssigned,
       RunBegins, RunBranch, RunEnds
<1>5. refused <= refused'
  <2>1. CASE refused' = Counted(refused)
    BY <2>1, OnboardingAssumption DEF Counted, TypeInv, OnboardingTypeOK
  <2>2. CASE refused' = refused
    BY <2>2, OnboardingAssumption DEF TypeInv, OnboardingTypeOK
  <2> QED
    BY <1>1, <2>1, <2>2 DEF Begin, RequestStep, Lose, StartOnboarding, Retry, CallAgain, GiveUp,
       Reject, NoAdapter, TestAnswered, BackfillBegins, ReadSales, BackfillEnds, SaveManager,
       ManagerAssigned, RunBegins, RunBranch, RunEnds
<1> QED
  BY <1>2, <1>3, <1>4, <1>5 DEF Grown

LEMMA ClaimsStay ==
  ASSUME TypeInv, TypeInv', Grown, NEW s,
         Claims(s, imported, generated, manager, answered, refused)
  PROVE  Claims(s, imported', generated', manager', answered', refused')
<1>1. imported = Branches => imported' = Branches
  BY DEF Grown, TypeInv, OnboardingTypeOK
<1>2. generated = Branches => generated' = Branches
  BY DEF Grown, TypeInv, OnboardingTypeOK
<1>3. refused = MaxAttempts => refused' = MaxAttempts
  BY OnboardingAssumption DEF Grown, TypeInv, OnboardingTypeOK
<1>4. answered => answered'
  BY DEF Grown
<1>5. \A b \in Branches : manager[b] # "none" => manager'[b] # "none"
  BY DEF Grown
<1> QED
  BY <1>1, <1>2, <1>3, <1>4, <1>5 DEF Claims

LEMMA ProgressStays ==
  ASSUME TypeInv, TypeInv', Grown, NEW r \in Requests,
         Progress(r, imported, generated, manager, refused)
  PROVE  Progress(r, imported', generated', manager', refused')
<1>1. imported \subseteq imported' /\ generated \subseteq generated'
  BY DEF Grown
<1>2. \A b \in Branches : manager[b] # "none" => manager'[b] # "none"
  BY DEF Grown
<1>3. (r.retry = "calling" => r.attempt <= refused' + 1) /\ (r.retry = "asleep" => r.attempt <= refused')
  BY OnboardingAssumption DEF Progress, Requests, Grown, TypeInv, OnboardingTypeOK
<1> QED
  BY <1>1, <1>2, <1>3 DEF Progress

(* What a step owes that writes one request and, perhaps, the state row.    *)
LEMMA Owed ==
  ASSUME IInv, TypeInv', Grown, NEW u \in Users, NEW r,
         request' = [request EXCEPT ![u] = r],
         r \in Requests =>
           /\ Claims(r.inst, imported', generated', manager', answered', refused')
           /\ Progress(r, imported', generated', manager', refused'),
         Claims(state', imported', generated', manager', answered', refused')
  PROVE  IInv'
<1>1. ASSUME NEW v \in Users, request'[v] \in Requests
      PROVE  /\ Claims(request'[v].inst, imported', generated', manager', answered', refused')
             /\ Progress(request'[v], imported', generated', manager', refused')
  <2>1. CASE v = u
    <3>1. request'[v] = r
      BY <2>1 DEF IInv, TypeInv, OnboardingTypeOK
    <3> QED
      BY <1>1, <3>1
  <2>2. CASE v # u
    <3>1. request'[v] = request[v]
      BY <2>2 DEF IInv, TypeInv, OnboardingTypeOK
    <3>2. /\ Claims(request[v].inst, imported, generated, manager, answered, refused)
          /\ Progress(request[v], imported, generated, manager, refused)
      BY <1>1, <3>1 DEF IInv
    <3>3. Claims(request[v].inst, imported', generated', manager', answered', refused')
      BY <3>2, ClaimsStay DEF IInv
    <3>4. Progress(request[v], imported', generated', manager', refused')
      BY <1>1, <3>1, <3>2, ProgressStays DEF IInv
    <3> QED
      BY <3>1, <3>3, <3>4
  <2> QED
    BY <2>1, <2>2
<1> QED
  BY <1>1 DEF IInv

(* A request that ends leaves only the state row to account for.            *)
LEMMA OwedAtEnd ==
  ASSUME IInv, TypeInv', Grown, NEW u \in Users, End(u),
         Claims(state', imported', generated', manager', answered', refused')
  PROVE  IInv'
<1>1. request' = [request EXCEPT ![u] = None]
  BY DEF End
<1> QED
  BY <1>1, NoneIsApart, Owed

LEMMA InitIInv == Init => IInv
<1>1. SUFFICES ASSUME Init PROVE IInv
  OBVIOUS
<1>2. TypeInv
  BY <1>1, InitType
<1>3. \A u \in Users : request[u] \notin Requests
  BY <1>1, NoneIsApart DEF Init
<1>4. PICK a \in Adapters :
        state = [status |-> "not_started", adapter |-> a, dmsTest |-> "", ticks |-> {}]
  BY <1>1 DEF Init
<1>5. Claims(state, imported, generated, manager, answered, refused)
  BY <1>4 DEF Claims
<1> QED
  BY <1>2, <1>3, <1>5 DEF IInv

LEMMA StepIInv ==
  ASSUME IInv, [Next]_vars PROVE IInv'
<1> USE OnboardingAssumption
<1>1. CASE UNCHANGED vars
  BY <1>1 DEF IInv, TypeInv, OnboardingTypeOK, AsleepInv, vars
<1>2. CASE Next
  <2>1. TypeInv /\ TypeInv'
    BY StepType DEF IInv
  <2>2. Grown
    BY <1>2, <2>1, NextGrows
  <2>3. Claims(state, imported', generated', manager', answered', refused')
    BY <2>1, <2>2, ClaimsStay DEF IInv
  <2> DEFINE Held(u) ==
        /\ Claims(request[u].inst, imported', generated', manager', answered', refused')
        /\ Progress(request[u], imported, generated, manager, refused)
        /\ Progress(request[u], imported', generated', manager', refused')
  <2>4. ASSUME NEW u \in Users, request[u] \in Requests PROVE Held(u)
    <3>1. /\ Claims(request[u].inst, imported, generated, manager, answered, refused)
          /\ Progress(request[u], imported, generated, manager, refused)
      BY <2>4 DEF IInv
    <3>2. Claims(request[u].inst, imported', generated', manager', answered', refused')
      BY <2>1, <2>2, <3>1, ClaimsStay
    <3>3. Progress(request[u], imported', generated', manager', refused')
      BY <2>1, <2>2, <2>4, <3>1, ProgressStays
    <3> QED
      BY <3>1, <3>2, <3>3
  <2>5. ASSUME NEW u \in Users, request[u].op \in Ops PROVE request[u] \in Requests /\ Held(u)
    BY <2>1, <2>4, <2>5, UnderWay
  <2> HIDE DEF Held
  <2>6. ASSUME NEW u \in Users, NEW op \in Ops, Begin(u, op) PROVE IInv'
    <3> DEFINE r == [op |-> op, at |-> "loaded", inst |-> state, todo |-> Branches, attempt |-> 1,
                     retry |-> "calling", unmanaged |-> {}]
    <3>1. Progress(r, imported', generated', manager', refused')
      <4>1. refused' \in Nat
        BY <2>1 DEF TypeInv, OnboardingTypeOK
      <4>2. r.at # "looping" /\ r.todo = Branches /\ r.retry # "asleep"
        OBVIOUS
      <4>3. r.attempt <= refused' + 1
        <5>1. \A n \in Nat : 1 <= n + 1
          OBVIOUS
        <5>2. r.attempt = 1
          OBVIOUS
        <5> HIDE DEF r
        <5> QED
          BY <4>1, <5>1, <5>2, Zenon
      <4> HIDE DEF r
      <4> QED
        BY <4>2, <4>3, Zenon DEF Progress
    <3>2. request' = [request EXCEPT ![u] = r] /\ state' = state
      BY <2>6 DEF Begin
    <3>3. Claims(r.inst, imported', generated', manager', answered', refused')
      BY <2>3
    <3> QED
      BY <2>1, <2>2, <2>3, <3>1, <3>2, <3>3, Owed
  <2>7. ASSUME NEW u \in Users, StartOnboarding(u) PROVE IInv'
    <3>1. request[u] \in Requests /\ Held(u)
      BY <2>5, <2>7 DEF StartOnboarding, At, Ops
    <3>2. Claims(state', imported', generated', manager', answered', refused')
      BY <2>7, <3>1 DEF StartOnboarding, Held, Claims, Requests, States
    <3> QED
      BY <2>1, <2>2, <2>7, <3>2, OwedAtEnd DEF StartOnboarding
  <2>8. ASSUME NEW u \in Users, Retry(u) PROVE IInv'
    <3> DEFINE r == [request[u] EXCEPT !.retry = "asleep"]
    <3>1. request[u] \in Requests /\ Held(u)
      BY <2>5, <2>8 DEF Retry, Calling, At, Ops
    <3>2. r.inst = request[u].inst /\ r.attempt = request[u].attempt /\ r.retry = "asleep"
          /\ r.op = request[u].op /\ r.at = request[u].at
      BY <3>1 DEF Requests
    <3>3. request[u].attempt <= refused'
      <4>1. request[u].attempt <= refused + 1 /\ request[u].attempt \in 1 .. MaxAttempts - 1
        BY <2>8, <3>1 DEF Retry, Calling, IsLast, Held, Progress, Requests
      <4>2. refused' = Counted(refused) /\ refused \in 0 .. MaxAttempts
        BY <2>1, <2>8 DEF Retry, TypeInv, OnboardingTypeOK
      <4> QED
        BY <4>1, <4>2 DEF Counted
    <3>4. request[u].at = "loaded" \/ request[u].op = "backfill"
      BY <2>8 DEF Retry, Calling, At
    <3>5. r.todo = request[u].todo
      BY <3>1 DEF Requests
    <3>6. Progress(r, imported', generated', manager', refused')
      BY <3>1, <3>2, <3>3, <3>5, <3>4 DEF Progress, Held
    <3>7. Claims(r.inst, imported', generated', manager', answered', refused')
      BY <3>1, <3>2 DEF Held
    <3>8. request' = [request EXCEPT ![u] = r] /\ state' = state
      BY <2>8 DEF Retry
    <3> QED
      BY <2>1, <2>2, <2>3, <3>6, <3>7, <3>8, Owed
  <2>9. ASSUME NEW u \in Users, CallAgain(u) PROVE IInv'
    <3> DEFINE r == [request[u] EXCEPT !.retry = "calling", !.attempt = @ + 1]
    <3>1. request[u] \in Requests /\ Held(u)
      BY <2>1, <2>4, <2>9 DEF CallAgain, TypeInv, OnboardingTypeOK
    <3>2. r.inst = request[u].inst /\ r.attempt = request[u].attempt + 1 /\ r.retry = "calling"
          /\ r.op = request[u].op /\ r.at = request[u].at
      BY <3>1 DEF Requests
    <3>3. r.todo = request[u].todo /\ r.unmanaged = request[u].unmanaged
      BY <3>1 DEF Requests
    <3>4. request[u].attempt <= refused'
      BY <2>9, <3>1 DEF CallAgain, Held, Progress
    <3>5. r.attempt <= refused' + 1
      <4>1. refused' \in Nat /\ request[u].attempt \in Nat
        BY <2>1, <3>1 DEF TypeInv, OnboardingTypeOK, Requests
      <4> QED
        BY <3>2, <3>4, <4>1
    <3>6. Progress(r, imported', generated', manager', refused')
      BY <3>1, <3>2, <3>3, <3>5 DEF Progress, Held
    <3>7. Claims(r.inst, imported', generated', manager', answered', refused')
      BY <3>1, <3>2 DEF Held
    <3>8. request' = [request EXCEPT ![u] = r] /\ state' = state
      BY <2>9 DEF CallAgain, Again
    <3> QED
      BY <2>1, <2>2, <2>3, <3>6, <3>7, <3>8, Owed
  <2>10. ASSUME NEW u \in Users, NEW cause \in {"failed: transient", "failed: permanent"},
                NEW fits \in BOOLEAN, request[u].op \in Ops, Raise(u, cause, fits),
                cause = "failed: transient" => refused' = MaxAttempts
         PROVE  IInv'
    <3>1. request[u] \in Requests /\ Held(u)
      BY <2>5, <2>10
    <3>2. CASE state' = state
      BY <2>1, <2>2, <2>3, <2>10, <3>2, OwedAtEnd DEF Raise
    <3>3. CASE state' = [request[u].inst EXCEPT !.dmsTest = cause, !.status = "failed"]
      <4>1. /\ state'.ticks = request[u].inst.ticks
            /\ state'.dmsTest = cause /\ state'.status = "failed"
        BY <3>1, <3>3 DEF Requests, States
      <4>2. Claims(state', imported', generated', manager', answered', refused')
        BY <2>10, <3>1, <4>1 DEF Held, Claims
      <4> QED
        BY <2>1, <2>2, <2>10, <4>2, OwedAtEnd DEF Raise
    <3> QED
      BY <2>10, <3>2, <3>3 DEF Raise
  <2>11. ASSUME NEW u \in Users, GiveUp(u) PROVE IInv'
    <3>1. request[u] \in Requests /\ Held(u)
      BY <2>5, <2>11 DEF GiveUp, Calling, At, Ops
    <3>2. request[u].attempt = MaxAttempts /\ request[u].attempt <= refused + 1
      BY <2>11, <3>1 DEF GiveUp, Calling, IsLast, Held, Progress
    <3>3. refused' = MaxAttempts
      <4>1. refused' = Counted(refused) /\ refused \in 0 .. MaxAttempts
        BY <2>1, <2>11 DEF GiveUp, TypeInv, OnboardingTypeOK
      <4> QED
        BY <3>2, <4>1 DEF Counted
    <3> QED
      BY <2>10, <2>11, <3>3 DEF GiveUp, Calling, At, Ops
  <2>12. ASSUME NEW u \in Users, Reject(u) PROVE IInv'
    BY <2>10, <2>12 DEF Reject, Calling, At, Ops
  <2>13. ASSUME NEW u \in Users, NoAdapter(u) PROVE IInv'
    BY <2>10, <2>13 DEF NoAdapter, At, Ops
  <2>14. ASSUME NEW u \in Users, TestAnswered(u) PROVE IInv'
    <3>1. request[u] \in Requests /\ Held(u)
      BY <2>5, <2>14 DEF TestAnswered, Ops
    <3>2. PICK ok \in BOOLEAN : state' = Answered(request[u].inst, ok) /\ (ok => answered')
      BY <2>14 DEF TestAnswered
    <3>3. CASE ok
      <4>1. /\ state'.ticks = request[u].inst.ticks \cup {"connected"}
            /\ state'.dmsTest = "ok" /\ state'.status = "dms_connected"
        BY <3>1, <3>2, <3>3 DEF Answered, Requests, States
      <4>2. Claims(state', imported', generated', manager', answered', refused')
        BY <3>1, <3>2, <3>3, <4>1 DEF Held, Claims
      <4> QED
        BY <2>1, <2>2, <2>14, <4>2, OwedAtEnd DEF TestAnswered
    <3>4. CASE ~ok
      <4>1. /\ state'.ticks = request[u].inst.ticks
            /\ state'.dmsTest = "failed" /\ state'.status = request[u].inst.status
        BY <3>1, <3>2, <3>4 DEF Answered, Requests, States
      <4>2. Claims(state', imported', generated', manager', answered', refused')
        BY <3>1, <4>1 DEF Held, Claims
      <4> QED
        BY <2>1, <2>2, <2>14, <4>2, OwedAtEnd DEF TestAnswered
    <3> QED
      BY <3>3, <3>4
  <2>15. ASSUME NEW u \in Users, NEW status \in {"sales_backfilling", "test_running"},
                NEW unmanaged, request[u] \in Requests, Held(u),
                SaveAndLoop(u, [request[u].inst EXCEPT !.status = status], unmanaged),
                request[u].todo = Branches,
                request[u].op \in {"backfill", "run"},
                request[u].op = "run" =>
                  \A b \in Branches : b \notin unmanaged => manager'[b] # "none"
         PROVE  IInv'
    <3> DEFINE new == [request[u].inst EXCEPT !.status = status]
               r == [request[u] EXCEPT !.inst = new, !.at = "looping", !.unmanaged = unmanaged]
    <3>1. new.ticks = request[u].inst.ticks /\ new.dmsTest = request[u].inst.dmsTest
          /\ new.status = status
      BY <2>15 DEF Requests, States
    <3>2. Claims(new, imported', generated', manager', answered', refused')
      BY <2>15, <3>1 DEF Held, Claims
    <3>3. r.inst = new /\ r.op = request[u].op /\ r.todo = Branches /\ r.unmanaged = unmanaged
          /\ r.attempt = request[u].attempt /\ r.retry = request[u].retry
      BY <2>15 DEF Requests
    <3>4. Progress(r, imported', generated', manager', refused')
      BY <2>15, <3>3 DEF Progress, Held
    <3>5. request' = [request EXCEPT ![u] = r] /\ state' = new
      BY <2>15 DEF SaveAndLoop
    <3> HIDE DEF new, r
    <3> QED
      BY <2>1, <2>2, <3>2, <3>3, <3>4, <3>5, Owed
  <2>16. ASSUME NEW u \in Users, BackfillBegins(u) PROVE IInv'
    <3>1. request[u] \in Requests /\ Held(u)
      BY <2>5, <2>16 DEF BackfillBegins, At, Ops
    <3>2. request[u].todo = Branches /\ request[u].op = "backfill"
      BY <2>16, <3>1 DEF BackfillBegins, At, Held, Progress
    <3>3. SaveAndLoop(u, [request[u].inst EXCEPT !.status = "sales_backfilling"], {})
      BY <2>16 DEF BackfillBegins
    <3> QED
      BY <2>15, <3>1, <3>2, <3>3
  <2>17. ASSUME NEW u \in Users, RunBegins(u) PROVE IInv'
    <3> DEFINE unmanaged == {b \in Branches : manager[b] = "none"}
    <3>1. request[u] \in Requests /\ Held(u)
      BY <2>5, <2>17 DEF RunBegins, At, Ops
    <3>2. request[u].todo = Branches /\ request[u].op = "run"
      BY <2>17, <3>1 DEF RunBegins, At, Held, Progress
    <3>3. SaveAndLoop(u, [request[u].inst EXCEPT !.status = "test_running"], unmanaged)
      BY <2>17 DEF RunBegins
    <3>4. \A b \in Branches : b \notin unmanaged => manager'[b] # "none"
      BY <2>17 DEF RunBegins
    <3> QED
      BY <2>15, <3>1, <3>2, <3>3, <3>4
  <2>18. ASSUME NEW u \in Users, ReadSales(u) PROVE IInv'
    <3>1. request[u] \in Requests /\ Held(u)
      BY <2>5, <2>18 DEF ReadSales, Calling, Ops
    <3>2. PICK b \in request[u].todo :
            /\ request' = [request EXCEPT ![u].todo = @ \ {b}, ![u].attempt = 1]
            /\ imported' = imported \cup {b}
      BY <2>18 DEF ReadSales
    <3> DEFINE r == [request[u] EXCEPT !.todo = @ \ {b}, !.attempt = 1]
    <3>3. r.inst = request[u].inst /\ r.op = "backfill" /\ r.at = "looping"
          /\ r.todo = request[u].todo \ {b} /\ r.attempt = 1 /\ r.retry = "calling"
      BY <2>18, <3>1 DEF ReadSales, Calling, At, Requests
    <3>4. Branches \ request[u].todo \subseteq imported
      BY <3>1, <3>3 DEF Held, Progress, Requests
    <3>5. refused' \in Nat
      BY <2>1 DEF TypeInv, OnboardingTypeOK
    <3>6. request' = [request EXCEPT ![u] = r] /\ state' = state
      BY <2>18, <3>2 DEF ReadSales
    <3> HIDE DEF r
    <3>7. Progress(r, imported', generated', manager', refused')
      BY <3>2, <3>3, <3>4, <3>5 DEF Progress
    <3>8. Claims(r.inst, imported', generated', manager', answered', refused')
      BY <3>1, <3>3 DEF Held
    <3> QED
      BY <2>1, <2>2, <2>3, <3>6, <3>7, <3>8, Owed
  <2>19. ASSUME NEW u \in Users, BackfillEnds(u) PROVE IInv'
    <3>1. request[u] \in Requests /\ Held(u)
      BY <2>5, <2>19 DEF BackfillEnds, Ops
    <3>2. imported' = Branches
      BY <2>1, <2>19, <3>1 DEF BackfillEnds, IsThrough, Held, Progress, TypeInv, OnboardingTypeOK
    <3>3. /\ state'.ticks = request[u].inst.ticks \cup {"backfilled"}
          /\ state'.dmsTest = request[u].inst.dmsTest /\ state'.status = "backfill_complete"
      BY <2>19, <3>1 DEF BackfillEnds, Requests, States
    <3>4. Claims(state', imported', generated', manager', answered', refused')
      BY <3>1, <3>2, <3>3 DEF Held, Claims
    <3> QED
      BY <2>1, <2>2, <2>19, <3>4, OwedAtEnd DEF BackfillEnds
  <2>20. ASSUME NEW u \in Users, SaveManager(u) PROVE IInv'
    <3> DEFINE r == [request[u] EXCEPT !.at = "looping"]
    <3>1. request[u] \in Requests /\ Held(u)
      BY <2>5, <2>20 DEF SaveManager, At, Ops
    <3>2. state' = state /\ \E b \in Branches : manager'[b] # "none"
      BY <2>1, <2>20 DEF SaveManager, TypeInv, OnboardingTypeOK
    <3>3. CASE request' = [request EXCEPT ![u] = None]
      BY <2>1, <2>2, <2>3, <3>2, <3>3, OwedAtEnd DEF End
    <3>4. CASE request' = [request EXCEPT ![u] = r]
      <4>1. r.inst = request[u].inst /\ r.op = "assign" /\ r.at = "looping"
            /\ r.attempt = request[u].attempt /\ r.retry = request[u].retry
        BY <2>20, <3>1 DEF SaveManager, At, Requests
      <4> HIDE DEF r
      <4>2. Progress(r, imported', generated', manager', refused')
        BY <3>1, <3>2, <4>1 DEF Progress, Held
      <4>3. Claims(r.inst, imported', generated', manager', answered', refused')
        BY <3>1, <4>1 DEF Held
      <4> QED
        BY <2>1, <2>2, <2>3, <3>2, <3>4, <4>2, <4>3, Owed
    <3> QED
      BY <2>20, <3>3, <3>4 DEF SaveManager
  <2>21. ASSUME NEW u \in Users, ManagerAssigned(u) PROVE IInv'
    <3>1. request[u] \in Requests /\ Held(u)
      BY <2>5, <2>21 DEF ManagerAssigned, At, Ops
    <3>2. \E b \in Branches : manager'[b] # "none"
      BY <2>21, <3>1 DEF ManagerAssigned, At, Held, Progress
    <3>3. /\ state'.ticks = request[u].inst.ticks \cup {"assigned"}
          /\ state'.dmsTest = request[u].inst.dmsTest /\ state'.status = "manager_assigning"
      BY <2>21, <3>1 DEF ManagerAssigned, Requests, States
    <3>4. Claims(state', imported', generated', manager', answered', refused')
      BY <3>1, <3>2, <3>3 DEF Held, Claims
    <3> QED
      BY <2>1, <2>2, <2>21, <3>4, OwedAtEnd DEF ManagerAssigned
  <2>22. ASSUME NEW u \in Users, RunBranch(u) PROVE IInv'
    <3>1. request[u] \in Requests /\ Held(u)
      BY <2>5, <2>22 DEF RunBranch, At, Ops
    <3>2. PICK b \in request[u].todo :
            /\ manager' = IF b \in request[u].unmanaged
                          THEN [manager EXCEPT ![b] = "fallback"] ELSE manager
            /\ generated' = generated \cup {b}
            /\ request' = [request EXCEPT ![u].todo = @ \ {b}]
      BY <2>22 DEF RunBranch
    <3> DEFINE r == [request[u] EXCEPT !.todo = @ \ {b}]
    <3>3. r.inst = request[u].inst /\ r.op = "run" /\ r.at = "looping"
          /\ r.todo = request[u].todo \ {b} /\ r.unmanaged = request[u].unmanaged
          /\ r.attempt = request[u].attempt /\ r.retry = request[u].retry
      BY <2>22, <3>1 DEF RunBranch, At, Requests
    <3>4. request' = [request EXCEPT ![u] = r] /\ state' = state
      BY <2>22, <3>2 DEF RunBranch
    <3>5. request[u].op = "run" /\ request[u].at = "looping"
      BY <2>22 DEF RunBranch, At
    <3> HIDE DEF r
    <3>6. Branches \ r.todo \subseteq generated'
      BY <3>1, <3>2, <3>3, <3>5 DEF Held, Progress
    <3>7. ASSUME NEW c \in Branches, c \notin r.todo \/ c \notin r.unmanaged
          PROVE  manager'[c] # "none"
      <4>1. c \notin request[u].todo \/ c \notin request[u].unmanaged => manager'[c] # "none"
        BY <3>1, <3>5 DEF Held, Progress
      <4>2. c = b /\ c \in request[u].unmanaged => manager'[c] = "fallback"
        BY <2>1, <3>2 DEF TypeInv, OnboardingTypeOK
      <4> QED
        BY <3>3, <3>7, <4>1, <4>2
    <3>8. Progress(r, imported', generated', manager', refused')
      BY <3>1, <3>3, <3>6, <3>7 DEF Progress, Held
    <3>9. Claims(r.inst, imported', generated', manager', answered', refused')
      BY <3>1, <3>3 DEF Held
    <3> QED
      BY <2>1, <2>2, <2>3, <3>4, <3>8, <3>9, Owed
  <2>23. ASSUME NEW u \in Users, RunEnds(u) PROVE IInv'
    <3>1. request[u] \in Requests /\ Held(u)
      BY <2>5, <2>23 DEF RunEnds, Ops
    <3>2. generated' = Branches /\ \A b \in Branches : manager'[b] # "none"
      BY <2>1, <2>23, <3>1 DEF RunEnds, IsThrough, Held, Progress, TypeInv, OnboardingTypeOK
    <3>3. /\ state'.ticks = request[u].inst.ticks \cup {"tested"}
          /\ state'.dmsTest = request[u].inst.dmsTest /\ state'.status = "live"
      BY <2>23, <3>1 DEF RunEnds, Requests, States
    <3>4. Claims(state', imported', generated', manager', answered', refused')
      BY <3>1, <3>2, <3>3 DEF Held, Claims
    <3> QED
      BY <2>1, <2>2, <2>23, <3>4, OwedAtEnd DEF RunEnds
  <2>24. ASSUME NEW u \in Users, Lose(u) PROVE IInv'
    BY <2>1, <2>2, <2>3, <2>24, OwedAtEnd DEF Lose
  <2> QED
    BY <1>2, <2>6, <2>7, <2>8, <2>9, <2>11, <2>12, <2>13, <2>14, <2>16, <2>17, <2>18, <2>19, <2>20,
       <2>21, <2>22, <2>23, <2>24 DEF Next, RequestStep
<1> QED
  BY <1>1, <1>2

LEMMA Invariant == Spec => []IInv
<1> QED
  BY InitIInv, StepIInv, PTL DEF Spec

(* What the onboarding row says was completed was completed for every       *)
(* branch: requests that overlap, die half way and save instances of any    *)
(* age over each other only ever repeat claims that are true.               *)
THEOREM TicksAreDone == Spec => []TickedIsDone
<1>1. IInv => TickedIsDone
  <2>1. SUFFICES ASSUME IInv, NEW tick \in state.ticks PROVE Done(tick)
    BY DEF TickedIsDone
  <2>2. tick \in Ticks
    BY <2>1 DEF IInv, TypeInv, OnboardingTypeOK, States
  <2> QED
    BY <2>1, <2>2 DEF IInv, Claims, Done, Ticks
<1> QED
  BY <1>1, Invariant, PTL

(* The status never contradicts the columns beside it, and a transient      *)
(* error is reported only after max_attempts refusals.                      *)
THEOREM StatusesAreBacked == Spec => []StatusIsBacked
<1>1. IInv => StatusIsBacked
  BY DEF IInv, Claims, StatusIsBacked
<1> QED
  BY <1>1, Invariant, PTL
================================================================================
