------------------------------ MODULE Notifications ------------------------------
(***************************************************************************)
(* E-mail notifications.  Each event is one call of send_notification for  *)
(* one recipient: it checks the throttle, inserts the e-mail row, mails,   *)
(* saves sent_at or error, and inserts the in-app row.  Calls made inside  *)
(* a database transaction (recommendation events) show nothing to others   *)
(* until they commit and may roll back; the others (override events) show  *)
(* every insert at once.  Dispatch tasks mail again what is not sent.      *)
(***************************************************************************)
EXTENDS Naturals, FiniteSets

CONSTANTS
  Events,         \* calls of send_notification
  Atomic,         \* those made inside a transaction
  Key,            \* Key[e]: the user and notification type of e
  Undeliverable,  \* events whose address the mail server refuses
  Dispatchers,    \* workers that may run the dispatch task
  Batch,          \* rows one dispatch takes
  MaxHours,       \* bound on the clock
  MaxFailures,    \* bound on rollbacks and lost processes
  MaxRefusals,    \* bound on mails refused for a reason that passes
  NotSent

ASSUME NotificationAssumption ==
  /\ IsFiniteSet(Events)
  /\ Atomic \subseteq Events /\ Undeliverable \subseteq Events
  /\ Batch \in Nat \ {0}
  /\ MaxHours \in Nat /\ MaxFailures \in Nat /\ MaxRefusals \in Nat
  /\ NotSent \notin Nat

VARIABLES
  pc,          \* pc[e]: how far the call is
  created,     \* the events that have an e-mail Notification row
  older,       \* older[e]: those whose rows have an earlier created_at than e's
  row,         \* row[e]: that row of e, blank while there is none
  delivered,   \* delivered[e]: how often the mail server accepted its mail
  todo,        \* todo[d]: what dispatch d has yet to mail; empty when idle
  answer,      \* answer[d]: the server's answer to the first of todo[d], unsaved
  now,         \* the clock, in steps of more than an hour
  failures, refusals,
  overlapped,  \* did two dispatches ever work at the same time?
  raced        \* did two calls of one key ever?

vars == <<pc, row, created, older, delivered, todo, answer, now, failures, refusals,
          overlapped, raced>>

Row == [sentAt : 0 .. MaxHours \cup {NotSent}, error : BOOLEAN]
NewRow == [sentAt |-> NotSent, error |-> FALSE]
Stages == {"idle", "unthrottled", "created", "accepted", "refused", "tried", "done", "lost"}

Init ==
  /\ pc = [e \in Events |-> "idle"]
  /\ row = [e \in Events |-> NewRow]
  /\ created = {} /\ older = [e \in Events |-> {}]
  /\ delivered = [e \in Events |-> 0]
  /\ todo = [d \in Dispatchers |-> {}]
  /\ answer = [d \in Dispatchers |-> "none"]
  /\ now = 0 /\ failures = 0 /\ refusals = 0
  /\ overlapped = FALSE /\ raced = FALSE

(* What other connections see of the table. *)
Visible(e) == e \in created /\ (e \in Atomic => pc[e] = "done")

(* mutant of Reported: send_mail with fail_silently=True. *)
ReportedSilently(outcome) == "accepted"

(* send_mail returns, or raises what the server answered. *)
Reported(outcome) == outcome

(* The server takes the mail of e, or refuses it, now or for ever. *)
MailTo(e, outcome) ==
  \/ /\ outcome = "accepted" /\ e \notin Undeliverable
     /\ delivered' = [delivered EXCEPT ![e] = @ + 1]
     /\ UNCHANGED refusals
  \/ /\ outcome = "refused" /\ e \in Undeliverable
     /\ UNCHANGED <<delivered, refusals>>
  \/ /\ outcome = "refused" /\ e \notin Undeliverable
     /\ refusals < MaxRefusals /\ refusals' = refusals + 1
     /\ UNCHANGED delivered

(* save(update_fields=...) of sent_at, or of error. *)
Saved(r, result) ==
  IF result = "accepted" THEN [r EXCEPT !.sentAt = now] ELSE [r EXCEPT !.error = TRUE]

--------------------------------------------------------------------------------
(* mutant of ShouldSendEmailNow: the throttle is left out. *)
ShouldSendUnthrottled(e) == TRUE

(* should_send_email_now: no mail of the key in the hour before now. *)
ShouldSendEmailNow(e) ==
  ~ \E f \in Events \ {e} :
      Key[f] = Key[e] /\ Visible(f) /\ row[f].sentAt = now

SendNotification(e) ==
  /\ pc[e] = "idle"
  /\ pc' = [pc EXCEPT ![e] = IF ShouldSendEmailNow(e) THEN "unthrottled" ELSE "tried"]
  /\ raced' = (raced \/ \E f \in Events \ {e} :
                          Key[f] = Key[e] /\ pc[f] \notin {"idle", "done", "lost"})
  /\ UNCHANGED <<row, created, older, delivered, todo, answer, now, failures, refusals, overlapped>>

(* send_email_notification: insert, mail, save. *)
CreateRow(e) ==
  /\ pc[e] = "unthrottled"
  /\ pc' = [pc EXCEPT ![e] = "created"]
  /\ created' = created \cup {e} /\ older' = [older EXCEPT ![e] = created]
  /\ UNCHANGED <<row, delivered, todo, answer, now, failures, refusals, overlapped, raced>>

SendMail(e) ==
  /\ pc[e] = "created"
  /\ \E outcome \in {"accepted", "refused"} :
       MailTo(e, outcome) /\ pc' = [pc EXCEPT ![e] = Reported(outcome)]
  /\ UNCHANGED <<row, created, older, todo, answer, now, failures, overlapped, raced>>

SaveRow(e) ==
  /\ pc[e] \in {"accepted", "refused"}
  /\ row' = [row EXCEPT ![e] = Saved(@, pc[e])]
  /\ pc' = [pc EXCEPT ![e] = "tried"]
  /\ UNCHANGED <<created, older, delivered, todo, answer, now, failures, refusals, overlapped, raced>>

(* The in-app row is inserted, whatever became of the e-mail, and the       *)
(* transaction, if there is one, commits.                                   *)
Finish(e) ==
  /\ pc[e] = "tried"
  /\ pc' = [pc EXCEPT ![e] = "done"]
  /\ UNCHANGED <<row, created, older, delivered, todo, answer, now, failures, refusals, overlapped, raced>>

(* mutant of RollBack: without transaction.atomic the row stays. *)
RollBackNothing(e) ==
  /\ e \in Atomic /\ pc[e] \notin {"idle", "done"}
  /\ failures < MaxFailures
  /\ failures' = failures + 1
  /\ pc' = [pc EXCEPT ![e] = "idle"]
  /\ UNCHANGED <<row, created, older, delivered, todo, answer, now, refusals, overlapped, raced>>

(* The transaction fails or its process dies: its rows are gone, its mail   *)
(* is not; the event may be tried again.                                    *)
RollBack(e) ==
  /\ e \in Atomic /\ pc[e] \notin {"idle", "done"}
  /\ failures < MaxFailures
  /\ failures' = failures + 1
  /\ pc' = [pc EXCEPT ![e] = "idle"]
  /\ row' = [row EXCEPT ![e] = NewRow]
  /\ created' = created \ {e}
  /\ older' = [f \in Events |-> IF f = e THEN {} ELSE older[f] \ {e}]
  /\ UNCHANGED <<delivered, todo, answer, now, refusals, overlapped, raced>>

(* Outside a transaction a dying process leaves what it has written. *)
Lose(e) ==
  /\ e \notin Atomic /\ pc[e] \notin {"idle", "done", "lost"}
  /\ failures < MaxFailures
  /\ failures' = failures + 1
  /\ pc' = [pc EXCEPT ![e] = "lost"]
  /\ UNCHANGED <<row, created, older, delivered, todo, answer, now, refusals, overlapped, raced>>

--------------------------------------------------------------------------------
(* mutants of Pending: the sent rows too; not those that failed before. *)
PendingOrSent == {e \in Events : Visible(e)}
PendingNeverTried == {e \in Events : Visible(e) /\ row[e].sentAt = NotSent /\ ~row[e].error}

(* E-mail rows with sent_at null. *)
Pending == {e \in Events : Visible(e) /\ row[e].sentAt = NotSent}

(* order_by("created_at")[:Batch] *)
FirstRows(S) == {e \in S : Cardinality(older[e] \cap S) < Batch}

(* scheduled_notification_dispatch: the first rows are read at once and not *)
(* locked.                                                                  *)
StartDispatch(d) ==
  /\ todo[d] = {}
  /\ todo' = [todo EXCEPT ![d] = FirstRows(Pending)]
  /\ overlapped' = (overlapped \/ (Pending # {} /\ \E c \in Dispatchers : todo[c] # {}))
  /\ UNCHANGED <<pc, row, created, older, delivered, answer, now, failures, refusals, raced>>

(* The row a dispatch is at: the first it has not done. *)
AtRow(d, e) == e \in todo[d] /\ older[e] \cap todo[d] = {}

DispatchMail(d, e) ==
  /\ AtRow(d, e) /\ answer[d] = "none"
  /\ \E outcome \in {"accepted", "refused"} :
       MailTo(e, outcome) /\ answer' = [answer EXCEPT ![d] = Reported(outcome)]
  /\ UNCHANGED <<pc, row, created, older, todo, now, failures, overlapped, raced>>

DispatchSave(d, e) ==
  /\ AtRow(d, e) /\ answer[d] # "none"
  /\ row' = [row EXCEPT ![e] = Saved(@, answer[d])]
  /\ todo' = [todo EXCEPT ![d] = @ \ {e}]
  /\ answer' = [answer EXCEPT ![d] = "none"]
  /\ UNCHANGED <<pc, created, older, delivered, now, failures, refusals, overlapped, raced>>

(* The worker dies; the schedule starts the next dispatch. *)
DispatchLost(d) ==
  /\ todo[d] # {}
  /\ failures < MaxFailures
  /\ failures' = failures + 1
  /\ todo' = [todo EXCEPT ![d] = {}]
  /\ answer' = [answer EXCEPT ![d] = "none"]
  /\ UNCHANGED <<pc, row, created, older, delivered, now, refusals, overlapped, raced>>

HourPasses ==
  /\ now < MaxHours
  /\ now' = now + 1
  /\ UNCHANGED <<pc, row, created, older, delivered, todo, answer, failures, refusals, overlapped, raced>>

Dispatch(d) ==
  StartDispatch(d) \/ \E e \in todo[d] : DispatchMail(d, e) \/ DispatchSave(d, e)

Next ==
  \/ \E e \in Events :
       \/ SendNotification(e) \/ CreateRow(e) \/ SendMail(e) \/ SaveRow(e) \/ Finish(e)
       \/ RollBack(e) \/ Lose(e)
  \/ \E d \in Dispatchers : Dispatch(d) \/ DispatchLost(d)
  \/ HourPasses

Spec == Init /\ [][Next]_vars

(* The schedule repeats for ever and the workers of the cluster run.        *)
(* Nothing is assumed of the calls.                                         *)
FairSpec == Spec /\ \A d \in Dispatchers : WF_vars(Dispatch(d))

--------------------------------------------------------------------------------
(* Types; a call that has not inserted yet, or was rolled back, has no row, *)
(* a dispatch never takes more rows than a batch, and only rows that are    *)
(* there.                                                                   *)
NotifyTypeOK ==
  /\ pc \in [Events -> Stages] /\ row \in [Events -> Row]
  /\ created \subseteq Events /\ older \in [Events -> SUBSET created]
  /\ \A e \in created : pc[e] \notin {"idle", "unthrottled"}
  /\ \A e \in Events \ created : row[e] = NewRow
  /\ todo \in [Dispatchers -> SUBSET Events]
  /\ answer \in [Dispatchers -> {"none", "accepted", "refused"}]
  /\ \A d \in Dispatchers :
       /\ Cardinality(todo[d]) <= Batch
       /\ \A e \in todo[d] : Visible(e)
       /\ todo[d] = {} => answer[d] = "none"

(* A row that says it was sent was really accepted by the mail server, by   *)
(* the call or by some dispatch, whoever saved last.                        *)
SentWasMailed ==
  \A e \in Events : row[e].sentAt # NotSent => delivered[e] > 0

(* Without failures and without overlapping dispatches, the mail of an      *)
(* event inside a transaction goes out once: the call and the dispatch do   *)
(* not both send it.                                                        *)
MailedOnce == failures = 0 /\ ~overlapped => \A e \in Atomic : delivered[e] <= 1

(* Not more than one mail per user and type per hour (should_send_email_now) *)
(* is sent by calls inside transactions, unless two of them were under way   *)
(* at one time or something was lost.  A mail that was refused first is sent *)
(* by a dispatch, which does not throttle; outside a transaction a dispatch  *)
(* may also save sent_at over that of the call.                              *)
ThrottledHourly ==
  failures = 0 /\ ~raced =>
    \A e \in Atomic : \A f \in Atomic \ {e} :
      /\ Key[e] = Key[f]
      /\ row[e].sentAt = row[f].sentAt /\ row[e].sentAt # NotSent
      => row[e].error \/ row[f].error

(* AC-6 of the notification service: what is pending, and can be delivered, *)
(* is sent in the end, through refusals and lost workers, as long as the     *)
(* addresses that always fail do not fill a batch.                          *)
PendingIsMailed ==
  Cardinality(Undeliverable) < Batch =>
    \A e \in Events \ Undeliverable :
      Visible(e) /\ row[e].sentAt = NotSent ~> row[e].sentAt # NotSent

(* "to avoid double-send" (design.md): without any failure a mail goes out  *)
(* at most once.                                                            *)
NoDoubleSend == failures = 0 => \A e \in Events : delivered[e] <= 1
================================================================================
