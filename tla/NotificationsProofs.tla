----------------------------- MODULE NotificationsProofs -----------------------------
(***************************************************************************)
(* Proofs about Notifications, for any finite number of events, and any    *)
(* dispatches, hours, refusals and failures.  What sent_at says is true:   *)
(* an acceptance that is not yet saved is in a call's stage or in a        *)
(* dispatch's answer.  Mail inside a transaction goes out once and is      *)
(* throttled: a row is taken by a dispatch only when its call has          *)
(* committed it unsent, hence refused.                                     *)
(***************************************************************************)
EXTENDS Notifications, FiniteSetTheorems, TLAPS

--------------------------------------------------------------------------------
(* Created_at orders the rows, the rows of calls under way are there, a     *)
(* transaction that is lost rolls back, and nothing was sent after now.     *)
OlderIsOrder ==
  /\ \A e \in Events : e \notin older[e]
  /\ \A e, f \in created : f \in older[e] => older[f] \subseteq older[e]
  /\ \A e, f \in created : e # f => e \in older[f] \/ f \in older[e]

InsertedHaveRows ==
  /\ \A e \in Events : pc[e] \in {"created", "accepted", "refused"} => e \in created
  /\ \A e \in Atomic : pc[e] # "lost"

NothingSentLater == \A e \in Events : row[e].sentAt # NotSent => row[e].sentAt <= now

NotifyBase ==
  /\ NotifyTypeOK
  /\ delivered \in [Events -> Nat] /\ now \in 0 .. MaxHours /\ failures \in Nat
  /\ overlapped \in BOOLEAN /\ raced \in BOOLEAN
  /\ OlderIsOrder
  /\ InsertedHaveRows
  /\ NothingSentLater

(* Whoever is about to save sent_at knows of a delivery. *)
CallsKnow == \A e \in Events : pc[e] = "accepted" => delivered[e] > 0

DispatchesKnow ==
  \A d \in Dispatchers, e \in Events :
    answer[d] = "accepted" /\ AtRow(d, e) => delivered[e] > 0

MailInv == CallsKnow /\ DispatchesKnow /\ SentWasMailed

(* Without failures and overlaps: one dispatch at a time; what the call has *)
(* not mailed, and what a dispatch has yet to mail, was not delivered; what *)
(* was delivered is saved, or is about to be by the dispatch that is at it. *)
OneDispatch == \A c, d \in Dispatchers : todo[c] # {} /\ todo[d] # {} => c = d

Saving(d, e) == answer[d] = "accepted" /\ AtRow(d, e)

OnceFor(e) ==
  /\ delivered[e] <= 1
  /\ pc[e] \in {"idle", "unthrottled", "created", "refused"} => delivered[e] = 0
  /\ pc[e] = "tried" /\ delivered[e] > 0 => row[e].sentAt # NotSent
  /\ Visible(e) /\ delivered[e] > 0 =>
       row[e].sentAt # NotSent \/ \E d \in Dispatchers : Saving(d, e)
  /\ \A d \in Dispatchers : e \in todo[d] /\ ~Saving(d, e) => delivered[e] = 0

OnceInv == failures = 0 /\ ~overlapped => OneDispatch /\ \A e \in Atomic : OnceFor(e)

(* Without failures: a row inside a transaction that a dispatch takes was   *)
(* refused before, and a row that was not refused was sent by its call.     *)
RowFor(e) ==
  /\ \A d \in Dispatchers : e \in todo[d] => row[e].error
  /\ pc[e] \in {"created", "accepted", "refused"} => row[e] = NewRow
  /\ e \in created /\ pc[e] \in {"tried", "done"} /\ row[e].sentAt = NotSent => row[e].error

(* ... and without races: calls of one key follow each other, and a call    *)
(* that was not throttled finds no mail of this hour, whenever it looks.    *)
Active(e) == pc[e] \notin {"idle", "done", "lost"}

Mailing(e) == pc[e] \in {"unthrottled", "created", "accepted", "refused"}

OneOfKey(e, f) ==
  /\ ~(Active(e) /\ Active(f))
  /\ Mailing(e) => row[f].sentAt # now \/ row[f].error
  /\ row[e].sentAt = row[f].sentAt /\ row[e].sentAt # NotSent => row[e].error \/ row[f].error

ThrottleInv ==
  failures = 0 =>
    /\ \A e \in Atomic : RowFor(e)
    /\ ~raced => \A e \in Atomic : \A f \in Atomic \ {e} : Key[e] = Key[f] => OneOfKey(e, f)

NotifyInv == NotifyBase /\ MailInv /\ OnceInv /\ ThrottleInv

--------------------------------------------------------------------------------
(* What the stages, the mail server and saving a row do. *)

LEMMA NewRowType ==
  NewRow \in Row /\ NewRow.sentAt = NotSent /\ NewRow.error = FALSE
BY DEF NewRow, Row

(* Saving a row keeps its shape; sent_at changes only after an acceptance,  *)
(* and an error is never taken back.                                        *)
LEMMA SavedRow ==
  ASSUME now \in 0 .. MaxHours, NEW r \in Row, NEW result
  PROVE  /\ Saved(r, result) \in Row
         /\ result = "accepted" => Saved(r, result).sentAt = now /\ Saved(r, result).error = r.error
         /\ result # "accepted" => Saved(r, result).sentAt = r.sentAt /\ Saved(r, result).error
BY DEF Saved, Row

(* The mail server only ever adds to what it accepted. *)
LEMMA MailToAdds ==
  ASSUME delivered \in [Events -> Nat], NEW e \in Events, NEW outcome, MailTo(e, outcome)
  PROVE  /\ delivered' \in [Events -> Nat]
         /\ \A f \in Events : f # e => delivered'[f] = delivered[f]
         /\ outcome = "accepted" => delivered'[e] = delivered[e] + 1
         /\ outcome # "accepted" => delivered'[e] = delivered[e]
<1>1. CASE outcome = "accepted" /\ delivered' = [delivered EXCEPT ![e] = @ + 1]
  BY <1>1
<1>2. CASE outcome = "refused" /\ UNCHANGED delivered
  BY <1>2
<1> QED BY <1>1, <1>2 DEF MailTo

--------------------------------------------------------------------------------
(* The order of the rows. *)

(* A dispatch is at one row. *)
LEMMA OneAtRow ==
  ASSUME NotifyBase, NEW d \in Dispatchers, NEW e \in Events, NEW f \in Events,
         AtRow(d, e), AtRow(d, f)
  PROVE  e = f
BY DEF NotifyBase, NotifyTypeOK, OlderIsOrder, AtRow, Visible

(* The first rows of any set are at most a batch. *)
LEMMA BatchBound ==
  ASSUME OlderIsOrder, older \in [Events -> SUBSET created], NEW S \in SUBSET created,
         created \subseteq Events
  PROVE  Cardinality(FirstRows(S)) <= Batch
<1> DEFINE F == FirstRows(S)
           rank == [e \in F |-> Cardinality(older[e] \cap S)]
<1>1. IsFiniteSet(S) /\ F \subseteq S
  BY NotificationAssumption, FS_Subset DEF FirstRows
<1>2. ASSUME NEW e \in S
      PROVE  IsFiniteSet(older[e] \cap S) /\ Cardinality(older[e] \cap S) \in Nat
  BY <1>1, FS_Intersection, FS_CardinalityType
<1>3. ASSUME NEW e \in S, NEW f \in S, e \in older[f]
      PROVE  Cardinality(older[e] \cap S) < Cardinality(older[f] \cap S)
  <2> DEFINE A == older[e] \cap S
             B == older[f] \cap S
  <2>1. A \cup {e} \subseteq B /\ e \notin A
    BY <1>3 DEF OlderIsOrder
  <2>2. IsFiniteSet(A) /\ IsFiniteSet(B) /\ Cardinality(A) \in Nat /\ Cardinality(B) \in Nat
    BY <1>2
  <2> HIDE DEF A, B
  <2>3. Cardinality(A \cup {e}) = Cardinality(A) + 1
    BY <2>1, <2>2, FS_AddElement
  <2>4. Cardinality(A \cup {e}) <= Cardinality(B)
    BY <2>1, <2>2, FS_Subset
  <2>5. Cardinality(A) < Cardinality(B)
    BY <2>2, <2>3, <2>4
  <2> QED BY <2>5 DEF A, B
<1>4. rank \in Injection(F, 0 .. Batch - 1)
  <2> DEFINE n(e) == Cardinality(older[e] \cap S)
  <2>1. /\ \A e \in F : n(e) < Batch
        /\ F \subseteq S
    BY DEF FirstRows
  <2>2. \A e \in S : n(e) \in Nat
    BY <1>2
  <2>3. \A e, f \in S : e \in older[f] => n(e) < n(f)
    BY <1>3
  <2>4. \A e, f \in S : e # f => e \in older[f] \/ f \in older[e]
    BY DEF OlderIsOrder
  <2>5. rank = [e \in F |-> n(e)]
    OBVIOUS
  <2> HIDE DEF F, rank, n
  <2>6. \A e \in F : n(e) \in 0 .. Batch - 1
    BY <2>1, <2>2, NotificationAssumption
  <2>7. \A e, f \in F : n(e) = n(f) => e = f
    BY <2>1, <2>2, <2>3, <2>4
  <2>8. rank \in [F -> 0 .. Batch - 1] /\ \A e, f \in F : rank[e] = rank[f] => e = f
    BY <2>5, <2>6, <2>7
  <2> QED BY <2>8 DEF Injection, IsInjective
<1>5. IsFiniteSet(0 .. Batch - 1) /\ Cardinality(0 .. Batch - 1) = Batch
  BY FS_Interval, NotificationAssumption
<1> HIDE DEF F, rank
<1>6. Cardinality(F) <= Cardinality(0 .. Batch - 1)
  BY <1>4, <1>5, FS_Injection
<1> QED BY <1>5, <1>6 DEF F

--------------------------------------------------------------------------------
LEMMA NotifyInit ==
  Init => NotifyInv
<1> SUFFICES ASSUME Init PROVE NotifyInv
  OBVIOUS
<1> USE NewRowType, NotificationAssumption DEF Init
<1>1. NotifyTypeOK
  <2>1. Cardinality({}) = 0
    BY FS_EmptySet
  <2> QED BY <2>1 DEF NotifyTypeOK, Stages
<1>2. NotifyBase
  <2>1. OlderIsOrder /\ InsertedHaveRows
    BY DEF OlderIsOrder, InsertedHaveRows
  <2>2. NothingSentLater
    BY DEF NothingSentLater
  <2>3. now \in 0 .. MaxHours /\ failures \in Nat
    OBVIOUS
  <2>5. overlapped \in BOOLEAN /\ raced \in BOOLEAN
    OBVIOUS
  <2>4. delivered \in [Events -> Nat]
    OBVIOUS
  <2> QED BY <1>1, <2>1, <2>2, <2>3, <2>4, <2>5 DEF NotifyBase
<1>3. MailInv
  BY DEF MailInv, CallsKnow, DispatchesKnow, SentWasMailed
<1>4. OnceInv
  BY DEF OnceInv, OneDispatch, OnceFor, Visible, Saving
<1>5. ThrottleInv
  BY DEF ThrottleInv, RowFor, OneOfKey, Active, Mailing
<1> QED BY <1>2, <1>3, <1>4, <1>5 DEF NotifyInv

(* A call that is not throttled found no mail of its key in this hour. *)
LEMMA SendNotificationStep ==
  ASSUME NotifyInv, NEW e \in Events, SendNotification(e)
  PROVE  NotifyInv'
<1> USE NotificationAssumption DEF NotifyInv
<1>1. /\ pc[e] = "idle"
      /\ UNCHANGED <<row, created, older, delivered, todo, answer, now, failures, overlapped>>
      /\ pc' \in [Events -> Stages]
      /\ pc'[e] = IF ShouldSendEmailNow(e) THEN "unthrottled" ELSE "tried"
      /\ \A f \in Events : f # e => pc'[f] = pc[f]
      /\ raced' = (raced \/ \E f \in Events \ {e} :
                              Key[f] = Key[e] /\ pc[f] \notin {"idle", "done", "lost"})
  BY DEF SendNotification, NotifyBase, NotifyTypeOK, Stages
<1>2. e \notin created
  BY <1>1 DEF NotifyBase, NotifyTypeOK
<1>3. \A f \in Events : Visible(f)' = Visible(f)
  BY <1>1, <1>2 DEF Visible
<1>4. \A d \in Dispatchers, f \in Events : AtRow(d, f)' = AtRow(d, f) /\ Saving(d, f)' = Saving(d, f)
  BY <1>1 DEF AtRow, Saving
<1>5. NotifyBase'
  <2>1. NotifyTypeOK'
    BY <1>1, <1>2, <1>3 DEF NotifyBase, NotifyTypeOK
  <2>2. raced' \in BOOLEAN
    BY <1>1 DEF NotifyBase
  <2> QED BY <1>1, <2>1, <2>2 DEF NotifyBase, OlderIsOrder, InsertedHaveRows, NothingSentLater
<1>6. MailInv'
  BY <1>1, <1>4 DEF MailInv, CallsKnow, DispatchesKnow, SentWasMailed
<1>7. OnceInv'
  <2> SUFFICES ASSUME failures = 0, ~overlapped, NEW f \in Atomic PROVE OnceFor(f)'
    BY <1>1 DEF OnceInv, OneDispatch
  <2>1. OnceFor(f)
    BY DEF OnceInv
  <2> QED BY <1>1, <1>2, <1>3, <1>4, <2>1 DEF OnceFor
<1>8. ThrottleInv'
  <2> SUFFICES ASSUME failures = 0 PROVE ThrottleInv'
    BY <1>1 DEF ThrottleInv
  <2>1. \A f \in Atomic : RowFor(f)'
    <3> SUFFICES ASSUME NEW f \in Atomic PROVE RowFor(f)'
      OBVIOUS
    <3>1. RowFor(f)
      BY DEF ThrottleInv
    <3> QED BY <1>1, <1>2, <3>1 DEF RowFor
  <2>2. ASSUME ~raced', NEW f \in Atomic, NEW g \in Atomic \ {f}, Key[f] = Key[g]
        PROVE  OneOfKey(f, g)'
    <3>1. ~raced /\ OneOfKey(f, g)
      BY <1>1, <2>2 DEF ThrottleInv, NotifyBase
    <3>2. CASE f = e
      <4>1. ~Active(g)
        BY <1>1, <2>2, <3>2 DEF Active
      <4>2. Mailing(e)' => row[g].sentAt # now
        <5> SUFFICES ASSUME Mailing(e)', row[g].sentAt = now PROVE FALSE
          OBVIOUS
        <5>1. ShouldSendEmailNow(e)
          BY <1>1 DEF Mailing
        <5>2. ~Visible(g)
          BY <2>2, <3>2, <5>1 DEF ShouldSendEmailNow
        <5>3. now # NotSent
          BY DEF NotifyBase
        <5>4. g \in created
          BY <5>3, NewRowType DEF NotifyBase, NotifyTypeOK
        <5>5. pc[g] \in {"idle", "lost"}
          BY <4>1, <5>2, <5>4 DEF Active, Visible
        <5> QED BY <5>4, <5>5 DEF NotifyBase, NotifyTypeOK, InsertedHaveRows
      <4> QED BY <1>1, <2>2, <3>1, <3>2, <4>1, <4>2 DEF OneOfKey, Active, Mailing
    <3>3. CASE g = e
      <4>1. ~Active(f)
        BY <1>1, <2>2, <3>3 DEF Active
      <4>2. ~Mailing(f)
        BY <4>1 DEF Active, Mailing
      <4> QED BY <1>1, <2>2, <3>1, <3>3, <4>1, <4>2 DEF OneOfKey, Active, Mailing
    <3>4. CASE f # e /\ g # e
      BY <1>1, <3>1, <3>4 DEF OneOfKey, Active, Mailing
    <3> QED BY <3>2, <3>3, <3>4
  <2> QED BY <1>1, <2>1, <2>2 DEF ThrottleInv
<1> QED BY <1>5, <1>6, <1>7, <1>8

(* A new row is the youngest; no dispatch knows of it. *)
LEMMA CreateRowStep ==
  ASSUME NotifyInv, NEW e \in Events, CreateRow(e)
  PROVE  NotifyInv'
<1> USE NotificationAssumption DEF NotifyInv
<1>1. /\ pc[e] = "unthrottled"
      /\ UNCHANGED <<row, delivered, todo, answer, now, failures, overlapped, raced>>
      /\ pc' \in [Events -> Stages] /\ pc'[e] = "created"
      /\ \A f \in Events : f # e => pc'[f] = pc[f]
      /\ created' = created \cup {e}
      /\ older' = [older EXCEPT ![e] = created]
      /\ \A f \in Events : f # e => older'[f] = older[f]
      /\ older'[e] = created
  BY DEF CreateRow, NotifyBase, NotifyTypeOK, Stages
<1>2. e \notin created /\ row[e] = NewRow
  BY <1>1 DEF NotifyBase, NotifyTypeOK
<1>3. /\ \A f \in Events : f # e => Visible(f)' = Visible(f)
      /\ Visible(e)' => e \notin Atomic
  BY <1>1, <1>2 DEF Visible
<1>4. \A d \in Dispatchers : e \notin todo[d]
  BY <1>2 DEF NotifyBase, NotifyTypeOK, Visible
<1>5. \A d \in Dispatchers, f \in Events : AtRow(d, f)' = AtRow(d, f) /\ Saving(d, f)' = Saving(d, f)
  <2>1. \A d \in Dispatchers, f \in Events : AtRow(d, f)' = AtRow(d, f)
    BY <1>1, <1>4 DEF AtRow
  <2> QED BY <1>1, <2>1 DEF Saving
<1>6. NotifyBase'
  <2>1. NotifyTypeOK'
    <3>1. older' \in [Events -> SUBSET created']
      BY <1>1 DEF NotifyBase, NotifyTypeOK
    <3>2. \A d \in Dispatchers : \A f \in todo[d] : Visible(f)'
      BY <1>1, <1>3, <1>4 DEF NotifyBase, NotifyTypeOK
    <3> QED BY <1>1, <3>1, <3>2 DEF NotifyBase, NotifyTypeOK
  <2>2. OlderIsOrder'
    <3>1. OlderIsOrder /\ created \subseteq Events /\ \A f \in Events : older[f] \subseteq created
      BY DEF NotifyBase, NotifyTypeOK
    <3>2. \A f \in Events : f \notin older'[f]
      BY <1>1, <1>2, <3>1 DEF OlderIsOrder
    <3>3. ASSUME NEW f \in created', NEW g \in created', g \in older'[f]
          PROVE  older'[g] \subseteq older'[f]
      <4>1. g \in created /\ older'[g] = older[g]
        BY <1>1, <1>2, <3>1, <3>3
      <4>2. CASE f = e
        BY <1>1, <3>1, <4>1, <4>2
      <4>3. CASE f # e
        BY <1>1, <3>1, <3>3, <4>1, <4>3 DEF OlderIsOrder
      <4> QED BY <4>2, <4>3
    <3>4. ASSUME NEW f \in created', NEW g \in created', f # g
          PROVE  f \in older'[g] \/ g \in older'[f]
      <4>1. CASE f = e \/ g = e
        BY <1>1, <3>4, <4>1
      <4>2. CASE f # e /\ g # e
        BY <1>1, <3>1, <3>4, <4>2 DEF OlderIsOrder
      <4> QED BY <4>1, <4>2
    <3> QED BY <3>2, <3>3, <3>4 DEF OlderIsOrder
  <2> QED BY <1>1, <2>1, <2>2 DEF NotifyBase, InsertedHaveRows, NothingSentLater
<1>7. MailInv'
  BY <1>1, <1>5 DEF MailInv, CallsKnow, DispatchesKnow, SentWasMailed
<1>8. OnceInv'
  <2> SUFFICES ASSUME failures = 0, ~overlapped, NEW f \in Atomic PROVE OnceFor(f)'
    BY <1>1 DEF OnceInv, OneDispatch
  <2>1. OnceFor(f)
    BY DEF OnceInv
  <2> QED BY <1>1, <1>3, <1>4, <1>5, <2>1 DEF OnceFor
<1>9. ThrottleInv'
  <2> SUFFICES ASSUME failures = 0 PROVE ThrottleInv'
    BY <1>1 DEF ThrottleInv
  <2>1. ASSUME NEW f \in Atomic PROVE RowFor(f)'
    <3>1. RowFor(f)
      BY DEF ThrottleInv
    <3> QED BY <1>1, <1>2, <3>1 DEF RowFor
  <2>2. ASSUME ~raced', NEW f \in Atomic, NEW g \in Atomic \ {f}, Key[f] = Key[g]
        PROVE  OneOfKey(f, g)'
    <3>1. OneOfKey(f, g)
      BY <1>1, <2>2 DEF ThrottleInv
    <3> QED BY <1>1, <3>1 DEF OneOfKey, Active, Mailing
  <2> QED BY <1>1, <2>1, <2>2 DEF ThrottleInv
<1> QED BY <1>6, <1>7, <1>8, <1>9

(* What a call's own step leaves to the rest: the rows and the dispatches.  *)
LEMMA CallLeavesRows ==
  ASSUME NotifyInv, NEW e \in Events, pc[e] \notin {"idle", "unthrottled", "done"},
         NEW s \in Stages \ {"idle", "unthrottled"},
         pc' = [pc EXCEPT ![e] = s],
         UNCHANGED <<created, older, todo, answer>>
  PROVE  /\ pc' \in [Events -> Stages] /\ pc'[e] = s
         /\ \A f \in Events : f # e => pc'[f] = pc[f]
         /\ \A f \in Events : f # e => Visible(f)' = Visible(f)
         /\ Visible(e) => Visible(e)'
         /\ Visible(e)' /\ ~Visible(e) => e \in Atomic /\ s = "done"
         /\ \A d \in Dispatchers : \A f \in todo[d] : Visible(f)'
         /\ e \in Atomic => \A d \in Dispatchers : e \notin todo[d]
         /\ \A d \in Dispatchers, f \in Events : AtRow(d, f)' = AtRow(d, f)
         /\ \A d \in Dispatchers, f \in Events : Saving(d, f)' = Saving(d, f)
<1> USE DEF NotifyInv
<1>1. /\ pc' \in [Events -> Stages] /\ pc'[e] = s
      /\ \A f \in Events : f # e => pc'[f] = pc[f]
  BY DEF NotifyBase, NotifyTypeOK
<1>2. /\ \A f \in Events : f # e => Visible(f)' = Visible(f)
      /\ Visible(e) => Visible(e)'
      /\ Visible(e)' /\ ~Visible(e) => e \in Atomic /\ s = "done"
  BY <1>1 DEF Visible
<1>3. \A d \in Dispatchers : \A f \in todo[d] : Visible(f)' /\ Visible(f)
  BY <1>2 DEF NotifyBase, NotifyTypeOK
<1>4. e \in Atomic => \A d \in Dispatchers : e \notin todo[d]
  BY <1>3 DEF Visible
<1>5. \A d \in Dispatchers, f \in Events : AtRow(d, f)' = AtRow(d, f)
  BY DEF AtRow
<1>6. \A d \in Dispatchers, f \in Events : Saving(d, f)' = Saving(d, f)
  BY <1>5 DEF Saving
<1> QED BY <1>1, <1>2, <1>3, <1>4, <1>5, <1>6

(* The mail of the call: nobody else has sent it. *)
LEMMA SendMailStep ==
  ASSUME NotifyInv, NEW e \in Events, SendMail(e)
  PROVE  NotifyInv'
<1> USE NotificationAssumption DEF NotifyInv
<1>1. PICK outcome \in {"accepted", "refused"} :
        MailTo(e, outcome) /\ pc' = [pc EXCEPT ![e] = outcome]
  BY DEF SendMail, Reported
<1>2. /\ pc[e] = "created"
      /\ UNCHANGED <<row, created, older, todo, answer, now, failures, overlapped, raced>>
  BY DEF SendMail
<1>3. /\ delivered' \in [Events -> Nat]
      /\ \A f \in Events : f # e => delivered'[f] = delivered[f]
      /\ outcome = "accepted" => delivered'[e] = delivered[e] + 1
      /\ outcome # "accepted" => delivered'[e] = delivered[e]
      /\ delivered[e] \in Nat
  BY <1>1, MailToAdds DEF NotifyBase
<1>4. /\ pc' \in [Events -> Stages] /\ pc'[e] = outcome
      /\ \A f \in Events : f # e => pc'[f] = pc[f]
      /\ \A f \in Events : f # e => Visible(f)' = Visible(f)
      /\ Visible(e)' /\ ~Visible(e) => e \in Atomic /\ outcome = "done"
      /\ \A d \in Dispatchers : \A f \in todo[d] : Visible(f)'
      /\ e \in Atomic => \A d \in Dispatchers : e \notin todo[d]
      /\ \A d \in Dispatchers, f \in Events : AtRow(d, f)' = AtRow(d, f)
      /\ \A d \in Dispatchers, f \in Events : Saving(d, f)' = Saving(d, f)
  <2>1. outcome \in Stages \ {"idle", "unthrottled"}
    BY DEF Stages
  <2> QED BY <1>1, <1>2, <2>1, CallLeavesRows
<1>5. NotifyBase'
  <2>1. NotifyTypeOK'
    BY <1>2, <1>4 DEF NotifyBase, NotifyTypeOK
  <2>2. InsertedHaveRows'
    BY <1>2, <1>4 DEF NotifyBase, InsertedHaveRows
  <2> QED BY <1>2, <1>3, <2>1, <2>2 DEF NotifyBase, OlderIsOrder, NothingSentLater
<1>6. MailInv'
  BY <1>2, <1>3, <1>4 DEF MailInv, CallsKnow, DispatchesKnow, SentWasMailed
<1>7. OnceInv'
  <2> SUFFICES ASSUME failures = 0, ~overlapped, NEW f \in Atomic PROVE OnceFor(f)'
    BY <1>2 DEF OnceInv, OneDispatch
  <2>1. OnceFor(f)
    BY DEF OnceInv
  <2>2. CASE f = e
    <3>1. ~Visible(e)'
      BY <1>2, <1>4, <2>2 DEF Visible
    <3> QED BY <1>2, <1>3, <1>4, <2>1, <2>2, <3>1 DEF OnceFor
  <2>3. CASE f # e
    BY <1>2, <1>3, <1>4, <2>1, <2>3 DEF OnceFor
  <2> QED BY <2>2, <2>3
<1>8. ThrottleInv'
  <2> SUFFICES ASSUME failures = 0 PROVE ThrottleInv'
    BY <1>2 DEF ThrottleInv
  <2>1. ASSUME NEW f \in Atomic PROVE RowFor(f)'
    <3>1. RowFor(f)
      BY DEF ThrottleInv
    <3> QED BY <1>2, <1>4, <3>1 DEF RowFor
  <2>2. ASSUME ~raced', NEW f \in Atomic, NEW g \in Atomic \ {f}, Key[f] = Key[g]
        PROVE  OneOfKey(f, g)'
    <3>1. OneOfKey(f, g)
      BY <1>2, <2>2 DEF ThrottleInv
    <3> QED BY <1>2, <1>4, <3>1 DEF OneOfKey, Active, Mailing
  <2> QED BY <1>2, <2>1, <2>2 DEF ThrottleInv
<1> QED BY <1>5, <1>6, <1>7, <1>8

(* The call saves what became of its mail. *)
LEMMA SaveRowStep ==
  ASSUME NotifyInv, NEW e \in Events, SaveRow(e)
  PROVE  NotifyInv'
<1> USE NotificationAssumption DEF NotifyInv
<1>1. /\ pc[e] \in {"accepted", "refused"}
      /\ row' = [row EXCEPT ![e] = Saved(row[e], pc[e])]
      /\ pc' = [pc EXCEPT ![e] = "tried"]
      /\ UNCHANGED <<created, older, delivered, todo, answer, now, failures, overlapped, raced>>
  BY DEF SaveRow
<1>2. /\ row' \in [Events -> Row] /\ row'[e] \in Row
      /\ \A f \in Events : f # e => row'[f] = row[f]
      /\ pc[e] = "accepted" => row'[e].sentAt = now /\ row'[e].error = row[e].error
      /\ pc[e] # "accepted" => row'[e].sentAt = row[e].sentAt /\ row'[e].error
  <2>1. row[e] \in Row /\ row \in [Events -> Row] /\ now \in 0 .. MaxHours
    BY DEF NotifyBase, NotifyTypeOK
  <2>2. Saved(row[e], pc[e]) \in Row
    BY <2>1, SavedRow
  <2>3. row'[e] = Saved(row[e], pc[e])
    BY <1>1, <2>1
  <2>4. row' \in [Events -> Row] /\ \A f \in Events : f # e => row'[f] = row[f]
    BY <1>1, <2>1, <2>2
  <2> QED BY <2>1, <2>2, <2>3, <2>4, SavedRow
<1>3. /\ pc' \in [Events -> Stages] /\ pc'[e] = "tried"
      /\ \A f \in Events : f # e => pc'[f] = pc[f]
      /\ \A f \in Events : f # e => Visible(f)' = Visible(f)
      /\ Visible(e)' => Visible(e)
      /\ \A d \in Dispatchers : \A f \in todo[d] : Visible(f)'
      /\ e \in Atomic => \A d \in Dispatchers : e \notin todo[d]
      /\ \A d \in Dispatchers, f \in Events : AtRow(d, f)' = AtRow(d, f)
      /\ \A d \in Dispatchers, f \in Events : Saving(d, f)' = Saving(d, f)
  <2>1. "tried" \in Stages \ {"idle", "unthrottled"} /\ pc[e] \notin {"idle", "unthrottled", "done"}
    BY <1>1 DEF Stages
  <2> QED BY <1>1, <2>1, CallLeavesRows
<1>4. e \in created /\ now # NotSent /\ now \in Nat
  BY <1>1 DEF NotifyBase, InsertedHaveRows
<1>5. NotifyBase'
  <2>1. NotifyTypeOK'
    BY <1>1, <1>2, <1>3, <1>4 DEF NotifyBase, NotifyTypeOK
  <2>2. InsertedHaveRows'
    BY <1>1, <1>3 DEF NotifyBase, InsertedHaveRows
  <2>3. NothingSentLater'
    BY <1>1, <1>2, <1>4 DEF NotifyBase, NothingSentLater
  <2> QED BY <1>1, <2>1, <2>2, <2>3 DEF NotifyBase, OlderIsOrder
<1>6. MailInv'
  BY <1>1, <1>2, <1>3 DEF MailInv, CallsKnow, DispatchesKnow, SentWasMailed
<1>7. OnceInv'
  <2> SUFFICES ASSUME failures = 0, ~overlapped, NEW f \in Atomic PROVE OnceFor(f)'
    BY <1>1 DEF OnceInv, OneDispatch
  <2>1. OnceFor(f)
    BY DEF OnceInv
  <2>2. CASE f = e
    <3>1. ~Visible(e)'
      BY <1>3, <2>2 DEF Visible
    <3> QED BY <1>1, <1>2, <1>3, <1>4, <2>1, <2>2, <3>1 DEF OnceFor
  <2>3. CASE f # e
    BY <1>1, <1>2, <1>3, <2>1, <2>3 DEF OnceFor
  <2> QED BY <2>2, <2>3
<1>8. ThrottleInv'
  <2> SUFFICES ASSUME failures = 0 PROVE ThrottleInv'
    BY <1>1 DEF ThrottleInv
  <2>1. ASSUME NEW f \in Atomic PROVE RowFor(f)'
    <3>1. RowFor(f)
      BY DEF ThrottleInv
    <3> QED BY <1>1, <1>2, <1>3, <1>4, <3>1 DEF RowFor
  <2>2. ASSUME ~raced', NEW f \in Atomic, NEW g \in Atomic \ {f}, Key[f] = Key[g]
        PROVE  OneOfKey(f, g)'
    <3>1. OneOfKey(f, g) /\ OneOfKey(g, f)
      BY <1>1, <2>2 DEF ThrottleInv
    <3>2. CASE f = e \/ g = e
      BY <1>1, <1>2, <1>3, <1>4, <3>1, <3>2 DEF OneOfKey, Active, Mailing
    <3>3. CASE f # e /\ g # e
      BY <1>1, <1>2, <1>3, <3>1, <3>3 DEF OneOfKey, Active, Mailing
    <3> QED BY <3>2, <3>3
  <2> QED BY <1>1, <2>1, <2>2 DEF ThrottleInv
<1> QED BY <1>5, <1>6, <1>7, <1>8

(* The transaction commits: what was delivered is saved by then. *)
LEMMA FinishStep ==
  ASSUME NotifyInv, NEW e \in Events, Finish(e)
  PROVE  NotifyInv'
<1> USE NotificationAssumption DEF NotifyInv
<1>1. /\ pc[e] = "tried"
      /\ pc' = [pc EXCEPT ![e] = "done"]
      /\ UNCHANGED <<row, created, older, delivered, todo, answer, now, failures, overlapped, raced>>
  BY DEF Finish
<1>3. /\ pc' \in [Events -> Stages] /\ pc'[e] = "done"
      /\ \A f \in Events : f # e => pc'[f] = pc[f]
      /\ \A f \in Events : f # e => Visible(f)' = Visible(f)
      /\ \A d \in Dispatchers : \A f \in todo[d] : Visible(f)'
      /\ e \in Atomic => \A d \in Dispatchers : e \notin todo[d]
      /\ \A d \in Dispatchers, f \in Events : AtRow(d, f)' = AtRow(d, f)
      /\ \A d \in Dispatchers, f \in Events : Saving(d, f)' = Saving(d, f)
  <2>1. "done" \in Stages \ {"idle", "unthrottled"} /\ pc[e] \notin {"idle", "unthrottled", "done"}
    BY <1>1 DEF Stages
  <2> QED BY <1>1, <2>1, CallLeavesRows
<1>5. NotifyBase'
  <2>1. NotifyTypeOK'
    BY <1>1, <1>3 DEF NotifyBase, NotifyTypeOK
  <2>2. InsertedHaveRows'
    BY <1>1, <1>3 DEF NotifyBase, InsertedHaveRows
  <2> QED BY <1>1, <2>1, <2>2 DEF NotifyBase, OlderIsOrder, NothingSentLater
<1>6. MailInv'
  BY <1>1, <1>3 DEF MailInv, CallsKnow, DispatchesKnow, SentWasMailed
<1>7. OnceInv'
  <2> SUFFICES ASSUME failures = 0, ~overlapped, NEW f \in Atomic PROVE OnceFor(f)'
    BY <1>1 DEF OnceInv, OneDispatch
  <2>1. OnceFor(f)
    BY DEF OnceInv
  <2>2. CASE f = e
    BY <1>1, <1>3, <2>1, <2>2 DEF OnceFor
  <2>3. CASE f # e
    BY <1>1, <1>3, <2>1, <2>3 DEF OnceFor
  <2> QED BY <2>2, <2>3
<1>8. ThrottleInv'
  <2> SUFFICES ASSUME failures = 0 PROVE ThrottleInv'
    BY <1>1 DEF ThrottleInv
  <2>1. ASSUME NEW f \in Atomic PROVE RowFor(f)'
    <3>1. RowFor(f)
      BY DEF ThrottleInv
    <3> QED BY <1>1, <1>3, <3>1 DEF RowFor
  <2>2. ASSUME ~raced', NEW f \in Atomic, NEW g \in Atomic \ {f}, Key[f] = Key[g]
        PROVE  OneOfKey(f, g)'
    <3>1. OneOfKey(f, g)
      BY <1>1, <2>2 DEF ThrottleInv
    <3> QED BY <1>1, <1>3, <3>1 DEF OneOfKey, Active, Mailing
  <2> QED BY <1>1, <2>1, <2>2 DEF ThrottleInv
<1> QED BY <1>5, <1>6, <1>7, <1>8

(* A lost transaction takes its row with it, which no dispatch has seen. *)
LEMMA RollBackStep ==
  ASSUME NotifyInv, NEW e \in Events, RollBack(e)
  PROVE  NotifyInv'
<1> USE NotificationAssumption DEF NotifyInv
<1>1. /\ e \in Atomic /\ pc[e] \notin {"idle", "done"}
      /\ failures' = failures + 1
      /\ UNCHANGED <<delivered, todo, answer, now, overlapped, raced>>
      /\ pc' \in [Events -> Stages] /\ pc'[e] = "idle"
      /\ \A f \in Events : f # e => pc'[f] = pc[f]
      /\ row' \in [Events -> Row] /\ row'[e] = NewRow
      /\ \A f \in Events : f # e => row'[f] = row[f]
      /\ created' = created \ {e}
      /\ older' = [f \in Events |-> IF f = e THEN {} ELSE older[f] \ {e}]
  BY NewRowType DEF RollBack, NotifyBase, NotifyTypeOK, Stages
<1>2. \A d \in Dispatchers : e \notin todo[d]
  BY <1>1 DEF NotifyBase, NotifyTypeOK, Visible
<1>3. \A d \in Dispatchers, f \in Events : AtRow(d, f)' => AtRow(d, f)
  <2> SUFFICES ASSUME NEW d \in Dispatchers, NEW f \in Events, AtRow(d, f)' PROVE AtRow(d, f)
    OBVIOUS
  <2>1. f \in todo[d] /\ f # e /\ older'[f] \cap todo[d] = {}
    BY <1>1, <1>2 DEF AtRow
  <2>2. older'[f] = older[f] \ {e}
    BY <1>1, <2>1
  <2>3. older[f] \cap todo[d] = {}
    BY <1>2, <2>1, <2>2
  <2> QED BY <2>1, <2>3 DEF AtRow
<1>4. NotifyBase'
  <2>1. older' \in [Events -> SUBSET created']
    BY <1>1 DEF NotifyBase, NotifyTypeOK
  <2>2. \A d \in Dispatchers : \A f \in todo[d] : Visible(f)'
    BY <1>1, <1>2 DEF NotifyBase, NotifyTypeOK, Visible
  <2>3. \A f \in Events \ created' : row'[f] = NewRow
    BY <1>1 DEF NotifyBase, NotifyTypeOK
  <2>4. \A f \in created' : pc'[f] \notin {"idle", "unthrottled"}
    BY <1>1 DEF NotifyBase, NotifyTypeOK
  <2>5. NotifyTypeOK'
    BY <1>1, <2>1, <2>2, <2>3, <2>4 DEF NotifyBase, NotifyTypeOK
  <2>6. OlderIsOrder'
    <3>1. OlderIsOrder /\ created \subseteq Events
      BY DEF NotifyBase, NotifyTypeOK
    <3>2. \A f \in created' : f \in created /\ f # e /\ older'[f] = older[f] \ {e}
      BY <1>1, <3>1
    <3>3. \A f \in Events : f \notin older'[f]
      BY <1>1, <3>1 DEF OlderIsOrder
    <3>4. \A f, g \in created' : g \in older'[f] => older'[g] \subseteq older'[f]
      BY <3>1, <3>2 DEF OlderIsOrder
    <3>5. \A f, g \in created' : f # g => f \in older'[g] \/ g \in older'[f]
      BY <3>1, <3>2 DEF OlderIsOrder
    <3> QED BY <3>3, <3>4, <3>5 DEF OlderIsOrder
  <2>7. InsertedHaveRows'
    BY <1>1 DEF NotifyBase, InsertedHaveRows
  <2>8. NothingSentLater'
    BY <1>1, NewRowType DEF NotifyBase, NothingSentLater
  <2>9. failures' \in Nat
    BY <1>1 DEF NotifyBase
  <2> QED BY <1>1, <2>5, <2>6, <2>7, <2>8, <2>9 DEF NotifyBase
<1>5. MailInv'
  <2>1. CallsKnow'
    BY <1>1 DEF MailInv, CallsKnow
  <2>2. DispatchesKnow'
    BY <1>1, <1>3 DEF MailInv, DispatchesKnow
  <2>3. SentWasMailed'
    BY <1>1, NewRowType DEF MailInv, SentWasMailed
  <2> QED BY <2>1, <2>2, <2>3 DEF MailInv
<1>6. failures' # 0
  BY <1>1 DEF NotifyBase
<1> QED BY <1>4, <1>5, <1>6 DEF OnceInv, ThrottleInv

(* A process that dies outside a transaction leaves what it has written. *)
LEMMA LoseStep ==
  ASSUME NotifyInv, NEW e \in Events, Lose(e)
  PROVE  NotifyInv'
<1> USE NotificationAssumption DEF NotifyInv
<1>1. /\ e \notin Atomic
      /\ failures' = failures + 1
      /\ UNCHANGED <<row, created, older, delivered, todo, answer, now, overlapped, raced>>
      /\ pc' \in [Events -> Stages] /\ pc'[e] = "lost"
      /\ \A f \in Events : f # e => pc'[f] = pc[f]
  BY DEF Lose, NotifyBase, NotifyTypeOK, Stages
<1>2. NotifyBase'
  <2>1. NotifyTypeOK'
    BY <1>1 DEF NotifyBase, NotifyTypeOK, Visible
  <2>2. InsertedHaveRows'
    BY <1>1 DEF NotifyBase, InsertedHaveRows
  <2>3. failures' \in Nat
    BY <1>1 DEF NotifyBase
  <2> QED BY <1>1, <2>1, <2>2, <2>3 DEF NotifyBase, OlderIsOrder, NothingSentLater
<1>3. MailInv'
  BY <1>1 DEF MailInv, CallsKnow, DispatchesKnow, SentWasMailed, AtRow
<1>4. failures' # 0
  BY <1>1 DEF NotifyBase
<1> QED BY <1>2, <1>3, <1>4 DEF OnceInv, ThrottleInv

(* A dispatch takes the first rows that are pending: of the transactions,   *)
(* those whose calls were refused.                                          *)
LEMMA StartDispatchStep ==
  ASSUME NotifyInv, NEW d \in Dispatchers, StartDispatch(d)
  PROVE  NotifyInv'
<1> USE NotificationAssumption DEF NotifyInv
<1>1. /\ todo[d] = {} /\ answer[d] = "none"
      /\ todo' = [todo EXCEPT ![d] = FirstRows(Pending)]
      /\ overlapped' = (overlapped \/ (Pending # {} /\ \E c \in Dispatchers : todo[c] # {}))
      /\ UNCHANGED <<pc, row, created, older, delivered, answer, now, failures, raced>>
  BY DEF StartDispatch, NotifyBase, NotifyTypeOK
<1>2. /\ todo'[d] = FirstRows(Pending)
      /\ \A c \in Dispatchers : c # d => todo'[c] = todo[c]
      /\ FirstRows(Pending) \subseteq Pending /\ Pending \subseteq Events
      /\ \A e \in Pending : Visible(e) /\ row[e].sentAt = NotSent
  BY <1>1 DEF NotifyBase, NotifyTypeOK, FirstRows, Pending
<1>3. \A e \in Events : Visible(e)' = Visible(e)
  BY <1>1 DEF Visible
<1>4. \A c \in Dispatchers, e \in Events : answer[c] = "accepted" => c # d /\ AtRow(c, e)' = AtRow(c, e)
  BY <1>1, <1>2 DEF AtRow
<1>5. \A c \in Dispatchers, e \in Events : Saving(c, e)' = Saving(c, e)
  BY <1>1, <1>4 DEF Saving
<1>6. NotifyBase'
  <2>1. Cardinality(FirstRows(Pending)) <= Batch
    <3>1. Pending \subseteq created
      BY <1>2 DEF Visible
    <3> HIDE DEF Pending
    <3> QED BY <3>1, BatchBound DEF NotifyBase, NotifyTypeOK
  <2>2. todo' \in [Dispatchers -> SUBSET Events]
    <3>1. FirstRows(Pending) \in SUBSET Events
      BY <1>2
    <3> QED BY <1>1, <3>1 DEF NotifyBase, NotifyTypeOK
  <2>3. \A c \in Dispatchers : /\ Cardinality(todo'[c]) <= Batch
                               /\ \A e \in todo'[c] : Visible(e)'
                               /\ todo'[c] = {} => answer'[c] = "none"
    <3> SUFFICES ASSUME NEW c \in Dispatchers
                 PROVE  /\ Cardinality(todo'[c]) <= Batch
                        /\ \A e \in todo'[c] : Visible(e)'
                        /\ todo'[c] = {} => answer'[c] = "none"
      OBVIOUS
    <3>1. CASE c = d
      BY <1>1, <1>2, <1>3, <2>1, <3>1
    <3>2. CASE c # d
      BY <1>1, <1>2, <1>3, <3>2 DEF NotifyBase, NotifyTypeOK
    <3> QED BY <3>1, <3>2
  <2>4. NotifyTypeOK'
    BY <1>1, <2>2, <2>3 DEF NotifyBase, NotifyTypeOK
  <2>5. overlapped' \in BOOLEAN
    BY <1>1 DEF NotifyBase
  <2> QED BY <1>1, <2>4, <2>5 DEF NotifyBase, OlderIsOrder, InsertedHaveRows, NothingSentLater
<1>7. MailInv'
  BY <1>1, <1>4 DEF MailInv, CallsKnow, DispatchesKnow, SentWasMailed
<1>8. OnceInv'
  <2> SUFFICES ASSUME failures = 0, ~overlapped' PROVE OneDispatch' /\ \A e \in Atomic : OnceFor(e)'
    BY <1>1 DEF OnceInv
  <2>1. ~overlapped /\ OneDispatch /\ \A e \in Atomic : OnceFor(e)
    BY <1>1 DEF OnceInv, NotifyBase
  <2>2. todo'[d] # {} => \A c \in Dispatchers : todo[c] = {}
    BY <1>1, <1>2
  <2>3. OneDispatch'
    BY <1>2, <2>1, <2>2 DEF OneDispatch
  <2>4. ASSUME NEW e \in Atomic PROVE OnceFor(e)'
    <3>1. OnceFor(e)
      BY <2>1
    <3>2. e \in todo'[d] => delivered[e] = 0
      <4> SUFFICES ASSUME e \in todo'[d] PROVE delivered[e] = 0
        OBVIOUS
      <4>1. e \in Pending /\ Visible(e) /\ row[e].sentAt = NotSent
        BY <1>2
      <4>2. \A c \in Dispatchers : ~Saving(c, e)
        BY <2>2 DEF Saving, AtRow
      <4>3. ~(delivered[e] > 0) /\ delivered[e] \in Nat
        BY <3>1, <4>1, <4>2 DEF OnceFor, NotifyBase
      <4> QED BY <4>3
    <3>3. \A c \in Dispatchers : e \in todo'[c] /\ ~Saving(c, e)' => delivered[e] = 0
      BY <1>2, <1>5, <3>1, <3>2 DEF OnceFor
    <3> QED BY <1>1, <1>3, <1>5, <3>1, <3>3 DEF OnceFor
  <2> QED BY <2>3, <2>4
<1>9. ThrottleInv'
  <2> SUFFICES ASSUME failures = 0 PROVE ThrottleInv'
    BY <1>1 DEF ThrottleInv
  <2>1. ASSUME NEW e \in Atomic PROVE RowFor(e)'
    <3>1. RowFor(e)
      BY DEF ThrottleInv
    <3>2. e \in todo'[d] => row[e].error
      BY <1>2, <3>1 DEF RowFor, Visible
    <3> QED BY <1>1, <1>2, <3>1, <3>2 DEF RowFor
  <2>2. ASSUME ~raced', NEW f \in Atomic, NEW g \in Atomic \ {f}, Key[f] = Key[g]
        PROVE  OneOfKey(f, g)'
    <3>1. OneOfKey(f, g)
      BY <1>1, <2>2 DEF ThrottleInv
    <3> QED BY <1>1, <3>1 DEF OneOfKey, Active, Mailing
  <2> QED BY <1>1, <2>1, <2>2 DEF ThrottleInv
<1> QED BY <1>6, <1>7, <1>8, <1>9

(* A dispatch mails the row it is at, which was not delivered before. *)
LEMMA DispatchMailStep ==
  ASSUME NotifyInv, NEW d \in Dispatchers, NEW e \in Events, DispatchMail(d, e)
  PROVE  NotifyInv'
<1> USE NotificationAssumption DEF NotifyInv
<1>1. PICK outcome \in {"accepted", "refused"} :
        MailTo(e, outcome) /\ answer' = [answer EXCEPT ![d] = outcome]
  BY DEF DispatchMail, Reported
<1>2. /\ AtRow(d, e) /\ answer[d] = "none"
      /\ UNCHANGED <<pc, row, created, older, todo, now, failures, overlapped, raced>>
  BY DEF DispatchMail
<1>3. /\ delivered' \in [Events -> Nat]
      /\ \A f \in Events : f # e => delivered'[f] = delivered[f]
      /\ outcome = "accepted" => delivered'[e] = delivered[e] + 1
      /\ outcome # "accepted" => delivered'[e] = delivered[e]
      /\ delivered[e] \in Nat
  BY <1>1, MailToAdds DEF NotifyBase
<1>4. /\ answer' \in [Dispatchers -> {"none", "accepted", "refused"}]
      /\ answer'[d] = outcome /\ \A c \in Dispatchers : c # d => answer'[c] = answer[c]
  BY <1>1 DEF NotifyBase, NotifyTypeOK
<1>5. /\ \A f \in Events : Visible(f)' = Visible(f)
      /\ \A c \in Dispatchers, f \in Events : AtRow(c, f)' = AtRow(c, f)
      /\ e \in todo[d] /\ Visible(e)
  BY <1>2 DEF Visible, AtRow, NotifyBase, NotifyTypeOK
<1>6. NotifyBase'
  <2>1. NotifyTypeOK'
    BY <1>2, <1>4, <1>5 DEF NotifyBase, NotifyTypeOK
  <2> QED BY <1>2, <1>3, <2>1 DEF NotifyBase, OlderIsOrder, InsertedHaveRows, NothingSentLater
<1>7. MailInv'
  <2>1. CallsKnow' /\ SentWasMailed'
    BY <1>2, <1>3 DEF MailInv, CallsKnow, SentWasMailed
  <2>2. DispatchesKnow'
    <3> SUFFICES ASSUME NEW c \in Dispatchers, NEW f \in Events, answer'[c] = "accepted", AtRow(c, f)
                 PROVE  delivered'[f] > 0
      BY <1>5 DEF DispatchesKnow
    <3>1. CASE c = d
      BY <1>2, <1>3, <1>4, <3>1, OneAtRow
    <3>2. CASE c # d
      BY <1>3, <1>4, <3>2 DEF MailInv, DispatchesKnow
    <3> QED BY <3>1, <3>2
  <2> QED BY <2>1, <2>2 DEF MailInv
<1>8. OnceInv'
  <2> SUFFICES ASSUME failures = 0, ~overlapped, NEW f \in Atomic PROVE OnceFor(f)'
    BY <1>2 DEF OnceInv, OneDispatch
  <2>1. OnceFor(f) /\ OneDispatch
    BY DEF OnceInv
  <2>2. \A c \in Dispatchers : f \in todo[c] => (Saving(c, f)' <=> Saving(c, f) \/ (c = d /\ f = e /\ outcome = "accepted"))
    <3> SUFFICES ASSUME NEW c \in Dispatchers, f \in todo[c]
                 PROVE  Saving(c, f)' <=> Saving(c, f) \/ (c = d /\ f = e /\ outcome = "accepted")
      OBVIOUS
    <3>1. CASE c = d
      <4>1. ~Saving(d, f)
        BY <1>2 DEF Saving
      <4>2. Saving(d, f)' <=> (outcome = "accepted" /\ AtRow(d, f))
        BY <1>4, <1>5 DEF Saving
      <4>3. AtRow(d, f) <=> f = e
        BY <1>2, OneAtRow
      <4> QED BY <3>1, <4>1, <4>2, <4>3
    <3>2. CASE c # d
      BY <1>4, <1>5, <3>2 DEF Saving
    <3> QED BY <3>1, <3>2
  <2>3. CASE f = e
    <3>1. delivered[e] = 0
      BY <1>2, <1>5, <2>1, <2>3 DEF OnceFor, Saving
    <3>2. pc[e] = "done" /\ \A c \in Dispatchers : e \in todo[c] => c = d
      BY <1>5, <2>1, <2>3 DEF Visible, OneDispatch
    <3>3. outcome = "accepted" => Saving(d, e)'
      BY <1>2, <1>4, <1>5 DEF Saving
    <3> QED BY <1>2, <1>3, <1>5, <2>1, <2>3, <3>1, <3>2, <3>3 DEF OnceFor
  <2>4. CASE f # e
    <3>1. \A c \in Dispatchers : f \in todo[c] => (Saving(c, f)' <=> Saving(c, f))
      BY <2>2, <2>4
    <3>2. \A c \in Dispatchers : Saving(c, f) => Saving(c, f)'
      BY <3>1 DEF Saving, AtRow
    <3> QED BY <1>2, <1>3, <1>5, <2>1, <2>4, <3>1, <3>2 DEF OnceFor
  <2> QED BY <2>3, <2>4
<1>9. ThrottleInv'
  BY <1>2 DEF ThrottleInv, RowFor, OneOfKey, Active, Mailing
<1> QED BY <1>6, <1>7, <1>8, <1>9

(* A dispatch saves what became of the mail, and turns to the next row. *)
LEMMA DispatchSaveStep ==
  ASSUME NotifyInv, NEW d \in Dispatchers, NEW e \in Events, DispatchSave(d, e)
  PROVE  NotifyInv'
<1> USE NotificationAssumption DEF NotifyInv
<1>1. /\ AtRow(d, e) /\ answer[d] # "none"
      /\ row' = [row EXCEPT ![e] = Saved(row[e], answer[d])]
      /\ UNCHANGED <<pc, created, older, delivered, now, failures, overlapped, raced>>
      /\ e \in todo[d] /\ Visible(e) /\ e \in created
  BY DEF DispatchSave, AtRow, Visible, NotifyBase, NotifyTypeOK
<1>2. /\ row' \in [Events -> Row] /\ row'[e] \in Row
      /\ \A f \in Events : f # e => row'[f] = row[f]
      /\ answer[d] = "accepted" => row'[e].sentAt = now /\ row'[e].error = row[e].error
      /\ answer[d] # "accepted" => row'[e].sentAt = row[e].sentAt /\ row'[e].error
  <2>1. row[e] \in Row /\ row \in [Events -> Row] /\ now \in 0 .. MaxHours
    BY DEF NotifyBase, NotifyTypeOK
  <2>2. Saved(row[e], answer[d]) \in Row
    BY <2>1, SavedRow
  <2>3. row'[e] = Saved(row[e], answer[d])
    BY <1>1, <2>1
  <2>4. row' \in [Events -> Row] /\ \A f \in Events : f # e => row'[f] = row[f]
    BY <1>1, <2>1, <2>2
  <2> QED BY <2>1, <2>2, <2>3, <2>4, SavedRow
<1>3. /\ todo' \in [Dispatchers -> SUBSET Events]
      /\ todo'[d] = todo[d] \ {e} /\ \A c \in Dispatchers : c # d => todo'[c] = todo[c]
      /\ answer' \in [Dispatchers -> {"none", "accepted", "refused"}]
      /\ answer'[d] = "none" /\ \A c \in Dispatchers : c # d => answer'[c] = answer[c]
  BY DEF DispatchSave, NotifyBase, NotifyTypeOK
<1>4. \A f \in Events : Visible(f)' = Visible(f)
  BY <1>1 DEF Visible
<1>5. \A c \in Dispatchers, f \in Events : c # d => AtRow(c, f)' = AtRow(c, f) /\ Saving(c, f)' = Saving(c, f)
  <2>1. \A c \in Dispatchers, f \in Events : c # d => AtRow(c, f)' = AtRow(c, f)
    BY <1>1, <1>3 DEF AtRow
  <2> QED BY <1>3, <2>1 DEF Saving
<1>6. now # NotSent /\ now \in Nat
  BY DEF NotifyBase
<1>7. NotifyBase'
  <2>1. Cardinality(todo'[d]) <= Batch
    <3>1. todo[d] \in SUBSET Events /\ Cardinality(todo[d]) <= Batch
      BY DEF NotifyBase, NotifyTypeOK
    <3>2. IsFiniteSet(todo[d])
      BY <3>1, FS_Subset
    <3>3. /\ Cardinality(todo[d] \ {e}) <= Cardinality(todo[d]) /\ Cardinality(todo[d]) \in Nat
          /\ Cardinality(todo[d] \ {e}) \in Nat
      BY <3>2, FS_Subset, FS_CardinalityType
    <3> QED BY <1>3, <3>1, <3>3
  <2>2. \A c \in Dispatchers : /\ Cardinality(todo'[c]) <= Batch
                               /\ \A f \in todo'[c] : Visible(f)'
                               /\ todo'[c] = {} => answer'[c] = "none"
    <3> SUFFICES ASSUME NEW c \in Dispatchers
                 PROVE  /\ Cardinality(todo'[c]) <= Batch
                        /\ \A f \in todo'[c] : Visible(f)'
                        /\ todo'[c] = {} => answer'[c] = "none"
      OBVIOUS
    <3>1. \A f \in todo[c] : f \in Events /\ Visible(f)
      BY DEF NotifyBase, NotifyTypeOK
    <3>2. CASE c = d
      BY <1>3, <1>4, <2>1, <3>1, <3>2
    <3>3. CASE c # d
      BY <1>3, <1>4, <3>1, <3>3 DEF NotifyBase, NotifyTypeOK
    <3> QED BY <3>2, <3>3
  <2>3. NotifyTypeOK'
    BY <1>1, <1>2, <1>3, <2>2 DEF NotifyBase, NotifyTypeOK
  <2>4. NothingSentLater'
    BY <1>1, <1>2, <1>6 DEF NotifyBase, NothingSentLater
  <2> QED BY <1>1, <2>3, <2>4 DEF NotifyBase, OlderIsOrder, InsertedHaveRows
<1>8. MailInv'
  <2>1. CallsKnow'
    BY <1>1 DEF MailInv, CallsKnow
  <2>2. DispatchesKnow'
    <3> SUFFICES ASSUME NEW c \in Dispatchers, NEW f \in Events, answer'[c] = "accepted", AtRow(c, f)'
                 PROVE  delivered[f] > 0
      BY <1>1 DEF DispatchesKnow
    <3>1. c # d
      BY <1>3
    <3> QED BY <1>3, <1>5, <3>1 DEF MailInv, DispatchesKnow
  <2>3. SentWasMailed'
    <3>1. answer[d] = "accepted" => delivered[e] > 0
      BY <1>1 DEF MailInv, DispatchesKnow
    <3> QED BY <1>1, <1>2, <3>1 DEF MailInv, SentWasMailed
  <2> QED BY <2>1, <2>2, <2>3 DEF MailInv
<1>9. OnceInv'
  <2> SUFFICES ASSUME failures = 0, ~overlapped PROVE OneDispatch' /\ \A f \in Atomic : OnceFor(f)'
    BY <1>1 DEF OnceInv
  <2>1. OneDispatch /\ \A f \in Atomic : OnceFor(f)
    BY DEF OnceInv
  <2>2. OneDispatch'
    <3>1. \A c \in Dispatchers : todo'[c] # {} => todo[c] # {}
      BY <1>3
    <3> QED BY <2>1, <3>1 DEF OneDispatch
  <2>3. ASSUME NEW f \in Atomic PROVE OnceFor(f)'
    <3>1. OnceFor(f)
      BY <2>1
    <3>2. \A c \in Dispatchers : f \in todo'[c] => f \in todo[c]
      BY <1>3
    <3>3. ~Saving(d, f)'
      BY <1>3 DEF Saving
    <3>4. CASE f = e
      <4>1. pc[e] = "done" /\ \A c \in Dispatchers : e \notin todo'[c]
        BY <1>1, <1>3, <2>1, <3>2, <3>4 DEF Visible, OneDispatch
      <4>2. answer[d] # "accepted" => delivered[e] = 0
        BY <1>1, <3>1, <3>4 DEF OnceFor, Saving
      <4>3. answer[d] = "accepted" => row'[e].sentAt # NotSent
        BY <1>2, <1>6
      <4> QED BY <1>1, <3>1, <3>4, <4>1, <4>2, <4>3 DEF OnceFor
    <3>5. CASE f # e
      <4>1. ~Saving(d, f)
        BY <1>1, <3>5, OneAtRow DEF Saving
      <4>2. \A c \in Dispatchers : Saving(c, f)' <=> Saving(c, f)
        <5>1. f \in Events
          OBVIOUS
        <5>2. \A c \in Dispatchers : c # d => (Saving(c, f)' <=> Saving(c, f))
          BY <1>5, <5>1
        <5> QED BY <3>3, <4>1, <5>2
      <4> QED BY <1>1, <1>2, <1>4, <3>1, <3>2, <3>5, <4>2 DEF OnceFor
    <3> QED BY <3>4, <3>5
  <2> QED BY <2>2, <2>3
<1>10. ThrottleInv'
  <2> SUFFICES ASSUME failures = 0 PROVE ThrottleInv'
    BY <1>1 DEF ThrottleInv
  <2>1. e \in Atomic => pc[e] = "done" /\ row'[e].error
    <3>1. e \in Atomic => row[e].error
      BY <1>1 DEF ThrottleInv, RowFor
    <3> QED BY <1>1, <1>2, <3>1 DEF Visible
  <2>2. ASSUME NEW f \in Atomic PROVE RowFor(f)'
    <3>1. RowFor(f)
      BY DEF ThrottleInv
    <3>2. \A c \in Dispatchers : f \in todo'[c] => f \in todo[c]
      BY <1>3
    <3>3. CASE f = e
      BY <1>1, <2>1, <3>3 DEF RowFor
    <3>4. CASE f # e
      BY <1>1, <1>2, <3>1, <3>2, <3>4 DEF RowFor
    <3> QED BY <3>3, <3>4
  <2>3. ASSUME ~raced', NEW f \in Atomic, NEW g \in Atomic \ {f}, Key[f] = Key[g]
        PROVE  OneOfKey(f, g)'
    <3>1. OneOfKey(f, g)
      BY <1>1, <2>3 DEF ThrottleInv
    <3>2. CASE f = e \/ g = e
      BY <1>1, <2>1, <3>1, <3>2 DEF OneOfKey, Active, Mailing
    <3>3. CASE f # e /\ g # e
      BY <1>1, <1>2, <3>1, <3>3 DEF OneOfKey, Active, Mailing
    <3> QED BY <3>2, <3>3
  <2> QED BY <1>1, <2>2, <2>3 DEF ThrottleInv
<1> QED BY <1>7, <1>8, <1>9, <1>10

(* A dispatch that dies leaves what it had saved. *)
LEMMA DispatchLostStep ==
  ASSUME NotifyInv, NEW d \in Dispatchers, DispatchLost(d)
  PROVE  NotifyInv'
<1> USE NotificationAssumption DEF NotifyInv
<1>1. /\ failures' = failures + 1
      /\ UNCHANGED <<pc, row, created, older, delivered, now, overlapped, raced>>
      /\ todo' \in [Dispatchers -> SUBSET Events]
      /\ todo'[d] = {} /\ \A c \in Dispatchers : c # d => todo'[c] = todo[c]
      /\ answer' \in [Dispatchers -> {"none", "accepted", "refused"}]
      /\ answer'[d] = "none" /\ \A c \in Dispatchers : c # d => answer'[c] = answer[c]
  BY DEF DispatchLost, NotifyBase, NotifyTypeOK
<1>2. NotifyBase'
  <2>1. \A f \in Events : Visible(f)' = Visible(f)
    BY <1>1 DEF Visible
  <2>2. Cardinality({}) <= Batch
    BY FS_EmptySet
  <2>3. \A c \in Dispatchers : /\ Cardinality(todo'[c]) <= Batch
                               /\ \A f \in todo'[c] : Visible(f)'
                               /\ todo'[c] = {} => answer'[c] = "none"
    <3> SUFFICES ASSUME NEW c \in Dispatchers
                 PROVE  /\ Cardinality(todo'[c]) <= Batch
                        /\ \A f \in todo'[c] : Visible(f)'
                        /\ todo'[c] = {} => answer'[c] = "none"
      OBVIOUS
    <3>1. CASE c = d
      BY <1>1, <2>2, <3>1
    <3>2. CASE c # d
      BY <1>1, <2>1, <3>2 DEF NotifyBase, NotifyTypeOK
    <3> QED BY <3>1, <3>2
  <2>4. NotifyTypeOK'
    BY <1>1, <2>3 DEF NotifyBase, NotifyTypeOK
  <2>5. failures' \in Nat
    BY <1>1 DEF NotifyBase
  <2> QED BY <1>1, <2>4, <2>5 DEF NotifyBase, OlderIsOrder, InsertedHaveRows, NothingSentLater
<1>3. MailInv'
  <2>1. \A c \in Dispatchers, f \in Events : answer'[c] = "accepted" => c # d /\ AtRow(c, f)' = AtRow(c, f)
    BY <1>1 DEF AtRow
  <2> QED BY <1>1, <2>1 DEF MailInv, CallsKnow, DispatchesKnow, SentWasMailed
<1>4. failures' # 0
  BY <1>1 DEF NotifyBase
<1> QED BY <1>2, <1>3, <1>4 DEF OnceInv, ThrottleInv

(* Another hour: nothing was sent in it yet. *)
LEMMA HourStep ==
  ASSUME NotifyInv, HourPasses
  PROVE  NotifyInv'
<1> USE NotificationAssumption DEF NotifyInv
<1>1. /\ now' = now + 1 /\ now < MaxHours
      /\ UNCHANGED <<pc, row, created, older, delivered, todo, answer, failures, overlapped, raced>>
  BY DEF HourPasses
<1>2. /\ \A f \in Events : Visible(f)' = Visible(f)
      /\ \A c \in Dispatchers, f \in Events : AtRow(c, f)' = AtRow(c, f) /\ Saving(c, f)' = Saving(c, f)
  BY <1>1 DEF Visible, AtRow, Saving
<1>3. \A f \in Events : row[f] \in Row /\ row[f].sentAt \in 0 .. MaxHours \cup {NotSent}
  BY DEF NotifyBase, NotifyTypeOK, Row
<1>4. NotifyBase'
  <2>1. NotifyTypeOK'
    BY <1>1, <1>2 DEF NotifyBase, NotifyTypeOK
  <2>2. NothingSentLater'
    BY <1>1, <1>3 DEF NotifyBase, NothingSentLater
  <2>3. now' \in 0 .. MaxHours
    BY <1>1 DEF NotifyBase
  <2> QED BY <1>1, <2>1, <2>2, <2>3 DEF NotifyBase, OlderIsOrder, InsertedHaveRows
<1>5. MailInv'
  BY <1>1, <1>2 DEF MailInv, CallsKnow, DispatchesKnow, SentWasMailed
<1>6. OnceInv'
  BY <1>1, <1>2 DEF OnceInv, OneDispatch, OnceFor
<1>7. ThrottleInv'
  <2>1. \A f \in Events : row[f].sentAt # now'
    <3> SUFFICES ASSUME NEW f \in Events, row[f].sentAt = now' PROVE FALSE
      OBVIOUS
    <3>1. now \in Nat /\ now' \in Nat
      BY <1>1 DEF NotifyBase
    <3>2. row[f].sentAt # NotSent /\ row[f].sentAt <= now
      BY <3>1 DEF NotifyBase, NothingSentLater
    <3> QED BY <1>1, <3>1, <3>2
  <2>2. ASSUME failures = 0, NEW f \in Atomic PROVE RowFor(f)'
    BY <1>1, <2>2 DEF ThrottleInv, RowFor
  <2>3. ASSUME failures = 0, ~raced, NEW f \in Atomic, NEW g \in Atomic \ {f}, Key[f] = Key[g]
        PROVE  OneOfKey(f, g)'
    <3>1. OneOfKey(f, g)
      BY <2>3 DEF ThrottleInv
    <3> QED BY <1>1, <2>1, <3>1 DEF OneOfKey, Active, Mailing
  <2> QED BY <1>1, <2>2, <2>3 DEF ThrottleInv
<1> QED BY <1>4, <1>5, <1>6, <1>7

--------------------------------------------------------------------------------
LEMMA NotifyStep ==
  NotifyInv /\ [Next]_vars => NotifyInv'
<1> SUFFICES ASSUME NotifyInv, [Next]_vars PROVE NotifyInv'
  OBVIOUS
<1>1. ASSUME NEW e \in Events,
             \/ SendNotification(e) \/ CreateRow(e) \/ SendMail(e) \/ SaveRow(e) \/ Finish(e)
             \/ RollBack(e) \/ Lose(e)
      PROVE  NotifyInv'
  BY <1>1, SendNotificationStep, CreateRowStep, SendMailStep, SaveRowStep, FinishStep,
     RollBackStep, LoseStep
<1>2. ASSUME NEW d \in Dispatchers, Dispatch(d)
      PROVE  NotifyInv'
  <2>1. CASE StartDispatch(d)
    BY <2>1, StartDispatchStep
  <2>2. CASE \E e \in todo[d] : DispatchMail(d, e) \/ DispatchSave(d, e)
    <3>1. todo[d] \subseteq Events
      BY DEF NotifyInv, NotifyBase, NotifyTypeOK
    <3> QED BY <2>2, <3>1, DispatchMailStep, DispatchSaveStep
  <2> QED BY <1>2, <2>1, <2>2 DEF Dispatch
<1>3. ASSUME NEW d \in Dispatchers, DispatchLost(d)
      PROVE  NotifyInv'
  BY <1>3, DispatchLostStep
<1>4. CASE HourPasses
  BY <1>4, HourStep
<1>5. CASE UNCHANGED vars
  <2>1. \A f \in Events : Visible(f)' = Visible(f)
    BY <1>5 DEF vars, Visible
  <2>2. \A c \in Dispatchers, f \in Events : AtRow(c, f)' = AtRow(c, f) /\ Saving(c, f)' = Saving(c, f)
    BY <1>5 DEF vars, AtRow, Saving
  <2>3. NotifyBase'
    BY <1>5, <2>1 DEF vars, NotifyInv, NotifyBase, NotifyTypeOK, OlderIsOrder, InsertedHaveRows,
       NothingSentLater
  <2>4. MailInv'
    BY <1>5, <2>2 DEF vars, NotifyInv, MailInv, CallsKnow, DispatchesKnow, SentWasMailed
  <2>5. OnceInv'
    BY <1>5, <2>1, <2>2, NotificationAssumption DEF vars, NotifyInv, OnceInv, OneDispatch, OnceFor
  <2>6. ThrottleInv'
    BY <1>5 DEF vars, NotifyInv, ThrottleInv, RowFor, OneOfKey, Active, Mailing
  <2> QED BY <2>3, <2>4, <2>5, <2>6 DEF NotifyInv
<1> QED BY <1>1, <1>2, <1>3, <1>4, <1>5 DEF Next

LEMMA NotifyInvariant ==
  Spec => []NotifyInv
BY NotifyInit, NotifyStep, PTL DEF Spec

(* Types: a rolled back call has no row, a dispatch takes at most a batch   *)
(* of rows and only rows that other connections see                         *)
(* (send_email_notification, scheduled_notification_dispatch).              *)
THEOREM NotifyTypeCorrect ==
  Spec => []NotifyTypeOK
<1>1. NotifyInv => NotifyTypeOK
  BY DEF NotifyInv, NotifyBase
<1> QED BY <1>1, NotifyInvariant, PTL

(* Sent_at is never set without a delivery, by the call or by a dispatch,   *)
(* through rollbacks, lost workers and overlapping dispatches.              *)
THEOREM SentMailWasMailed ==
  Spec => []SentWasMailed
<1>1. NotifyInv => SentWasMailed
  BY DEF NotifyInv, MailInv
<1> QED BY <1>1, NotifyInvariant, PTL

(* Without failures and overlapping dispatches the call and the dispatches  *)
(* together mail an event inside a transaction once.                        *)
THEOREM MailGoesOutOnce ==
  Spec => []MailedOnce
<1>1. NotifyInv => MailedOnce
  BY DEF NotifyInv, OnceInv, OnceFor, MailedOnce
<1> QED BY <1>1, NotifyInvariant, PTL

(* should_send_email_now holds its promise when calls of one key follow     *)
(* each other: two mails of one hour are never both first attempts.         *)
THEOREM CallsAreThrottled ==
  Spec => []ThrottledHourly
<1>1. NotifyInv => ThrottledHourly
  BY DEF NotifyInv, ThrottleInv, OneOfKey, ThrottledHourly
<1> QED BY <1>1, NotifyInvariant, PTL
================================================================================
