# StockAdvice: formal models

TLA+ models, TLC runs and TLAPS proofs for StockAdvice, a Django application that
recommends to car dealerships what to order and where to take it from. Paths below are
relative to the repository; `R/` stands for `src/apps/recommendations/`.

    tlc -workers 2 -config RecTable.cfg MCRecommendations      (any run of PROJECT.json)
    tlapm RecommendationsProofs.tla                            (any *Proofs module)

## 1. The system

    dealer system --sync--> StockLevel --planning--> generator --source resolution--> Recommendation
                                              ^                                           |
      weekly task (Django-Q2, 4 workers)------+        reviewers: approve/reject/...  ----+
                                                       recalculation, escalation      ----+--> e-mail, audit log

| part | state it keeps | operations | what makes it correct |
|---|---|---|---|
| recommendation table (`R/models.py`, `transitions.py`) | `Recommendation` rows with a partial unique index on pending (branch, part) | `can_transition_to`, `transition_to` | one pending row per slot; ordered is final |
| approval (`R/services.py:426-616`) | audit log | single decisions, cross-coordinator approval, bulk | decisions obey the state machine, permissions hold for what is stored, every decision is audited |
| generation (`R/services.py:47-407`) | none | `generate_for_branch`, `generate_for_dc`, `recalculate_recommendation` | one recommendation per part and run; every due part is served |
| scheduled runs (`scheduling/jobs.py`, Django-Q2) | `ScheduledRun` rows, broker tasks | replenishment job, redelivery | a recorded run is complete; tasks end |
| planning (`catalog/planning.py`) | none | formulas | giver and taker exclude each other |
| source resolution (`R/source_resolution.py`) | source columns of the row | candidates, excess, priority, greedy allocation | allocations add up, in priority order, within the excess |
| escalation (`R/escalation.py`) | level columns | automatic, manual | never shows a decision nobody made |
| notifications (`notifications/`, dispatch job) | `Notification` rows | send, throttle, dispatch | sent means mailed; pending is mailed in the end; not twice |
| ingestion (`inventory/services.py`) and in-transit stock (`inventory/models.py`) | `StockLevel`, `InTransitStock`, `StockMovement` | syncs, sales import, `mark_received` | stock counted once |
| overrides and velocity (`catalog/overrides.py`, `velocity.py`) | `DemandOverride` | create, resolve, clean up; month windows | one persistent override; what was confirmed is used; velocity of the sales there were |
| classification (`catalog/classification.py`) | `ClassificationResult`, `ScheduledRun` rows | monthly pass, command, per branch | one row per part; a recorded pass was complete |
| onboarding and DMS retry (`onboarding/services.py`, `catalog/adapters/`) | `OnboardingState`, managers | connect, test, backfill, assign, test run; `with_retry` | what the checklist ticks was done; a failed status had a failure; requests end |
| accounts (`accounts/services.py`, `tokens.py`) | users and roles, `Invitation`, `PasswordResetToken`, `EmailVerification` | invite, accept, revoke, resend, reset, verify | who accepted is complete and has invited roles only; tokens are used once; requests end |
| dashboard, sector, core, views, spike | - | read-only, CRUD, superseded prototype | - |

Hard behaviours, in the order of the damage they do:

* **Instances and rows.** Django code works on objects it loaded earlier. Decisions lock
  and re-read the row (`transitions.py:39`); recalculation and escalation do not: they
  `save()` every column, or `delete()`, on the strength of what they loaded.
* **Postgres autocommit.** No `ATOMIC_REQUESTS`: a handler is a series of transactions
  unless it opens one, and a worker may die between two.
* **At-least-once tasks.** Django-Q2 redelivers a task until it succeeded or was attempted
  `max_attempts` times (`src/config/settings/base.py:166-174`); runs overlap with
  onboarding's test run, with the reviewers and with each other.
* **Mail inside transactions.** Recommendation events mail before they commit.
* **Shared excess.** Several recommendations take from one source branch.
* **Upserts without a constraint.** `update_or_create` on columns that are not unique, or
  are NULL, inserts twice when two processes look at one time, and raises ever after.
* **Tokens read without a lock.** Two requests can find one token valid; a revocation and an
  acceptance can overwrite each other; row locks are taken in opposite orders.

PROJECT.json lists the hazards line by line, with the property aimed at each, or why none is.

## 2. Modules

| module | models | composes |
|---|---|---|
| `Recommendations` | the recommendation table and everything that writes it | |
| `AlertBoard` | abstract: what the approval workflow promises | |
| `RecommendationsRefinement` | refinement mapping | `Recommendations`, instance of `AlertBoard` |
| `ReplenishmentRun` | schedule, broker, workers, generator, test run | extends `Recommendations` |
| `Planning` | planning formulas | |
| `FiniteSums` | the sum of a function over a finite set | |
| `Sourcing` | planning + source resolution over branches, stock changes | extends `Planning`, `FiniteSums` |
| `Notifications` | e-mail rows, mail server, dispatch workers | |
| `Inventory` | stock level, in-transit stock and movements of one part, fed by the dealer system | |
| `SalesHistory` | monthly sales on a real calendar: import, velocity, classification | extends `FiniteSums` |
| `Classification` | tenant-wide part classes: the monthly pass, the command, lost and repeated | |
| `Overrides` | demand overrides: creation, lookup, clean-up | |
| `Onboarding` | the onboarding row under overlapping requests, DMS calls with retries | |
| `Accounts` | invitations, resets and verifications under READ COMMITTED and row locks | |
| `MC*` | instances for TLC | |
| `*Proofs` | theorems | extend their module; `RecommendationsProofs` also `ReplenishmentRun`, `PlanningProofs` both `SalesHistory` and `Sourcing`, which add up |

### Recommendations

`recs[r]` is the database row, reduced to the columns control depends on; `held[u][r]` is
the instance user or task `u` loaded at some earlier time. `Load` evaluates a queryset.
`DecideOne`, `ApproveCrossTransfer` and `DecideBulk` are `ApprovalService`: permission on
the held instance, transition on the stored row, audit entry with the held `before_state`.
A bulk batch is one transaction, so it is one action that is enabled only when all of its
rows can make the transition; otherwise it rolls back, which is a stutter.
`RecalculateSave`, `RecalculateResolve`, `RecalculateEscalate` are the three transactions
of one handler, tied together by `step` and `target`; `Abandon` is the handler that ends in
between. `SaveHeld` is `Model.save()`: it replaces the row by the instance, inserts a
deleted row again, and is refused by the partial unique index (`IndexAllows`). Which source
branch is picked and whether a threshold is exceeded are nondeterministic here; `Sourcing`
computes the former. Role and scope tables are constants. The columns that only carry text
or amounts are left out, and so are refused calls that change nothing.

`Next` is split into `DecisionNext` (creation and everything that locks the row) and the
whole-row writers, because some properties hold of the first part only, and saying so is
the point: `DecisionSpec` implements `AlertBoard`; `Spec` does not.

### ReplenishmentRun

`task[b]` is the broker's task for a branch, `job[w]` what a worker or web process is
generating: part by part in id order, `Examine` up to the transaction (exists-for-run test,
planning), `Generate` the transaction (pending test, insert). `GenerateRefused` is the
uncaught "Pending recommendation already exists"; `Crash` any other end of an attempt.
`FinishRun` inserts the `ScheduledRun` row or fails on its unique constraint. The run's
date is the date at which the attempt starts. `due`, the parts planning triggers, is chosen
once: how it is computed is `Sourcing`. Reviewers take the `Decisions` of the table module
at any time.

### Planning, Sourcing

Quantities are integers counting thirtieths of a unit, which makes "monthly velocity / 30"
exact; the code's rounding to cents is left out. A resolver is a process: find candidates,
read the excess of one after the other (`ReadExcess`), then sort, allocate and save
(`Resolve`). Stock may be changed by syncs between any two of these. Priority is parent
distribution center first, then larger excess; where excesses tie, `Rankings` allows every
order. The velocity of a branch is a constant here: `SalesHistory` computes it, and
`Overrides` what replaces it.

### Notifications

Each event is one `send_notification` call for one recipient. Calls from recommendation
code run inside its transaction: their row is `Visible` to a dispatch only after `Finish`.
Override events are not in a transaction. `MailTo` is the mail server, external: it accepts,
refuses for now, or always refuses an address. A dispatch reads its batch at once and mails
and saves row by row, the oldest first: `older[e]` are the rows inserted before that of `e`,
`FirstRows` the slice of the ordered query, `AtRow` the row the loop is at. One tick of the clock is more than the throttle's hour. Each
transaction holds one event. `overlapped` and `raced` are history: whether two dispatches,
or two calls for one user and type, ever ran at one time.

### Inventory

One part at one branch. `dealer` is the DMS, external, and changes at any time. `sync[s]`
holds the local variables of `run_full_sync`; each read of the DMS, each lookup and each
insert of `update_or_create` is a step of its own, because no constraint makes the looked-up
fields unique. `held[c]`, `read[c]` are the transfers a clerk selected and the stock level
`mark_received` has in memory: it is saved as a whole, without a lock. `credits[o]` is a
ghost, the receipts of a transfer since a sync last listed it.

### SalesHistory

`rows[b]` is the set of SALE movements by date. `Imported` follows `import_sales`: entry i
of the monthly list is dated 30 * i days ago, zero entries are skipped, an import may be lost
after some entries. The velocity (`MonthlySales`, `WeightedSum`, kept over its common
denominator) and the lifecycle stage (`Stage`, `AnnualSales`) are operators on these rows, so
that the properties can set one calculation against the other. The calendar is a constant,
the first days of the months; the run uses that of 2023 to 2027. `CalendarAssumption` says
what is used of it: how many days n consecutive months last, from 30 n - 2 to 30 n + 6 (337
for the eleven from March on). The window has at most the 12 months of its default, which no
caller changes; the list may have any length, as the DMS decides it (`IsSafe` says what a
13th entry costs: on 24 February it can fall on 1 March of the year before).

### Overrides

Rows of `DemandOverride` for one part; `stamp` is `created_at`, which a save renews and by
which `first()` picks the newest. Creating a persistent override is two steps (look, then
save or insert); the partial unique constraint does not bind rows with a NULL branch. The
clean-up is the date, the query of its loop, one notice at a time, and the delete, which
queries again. `accepted[s]` is history: the value the last confirmed request asked for.
`ActiveOverride` is `get_active_override`, `PlannedWith` the call made by the planner,
which passes neither a run id nor the tenant-wide scope.

### Classification

`rows[p]` lists the `classified_at` of the tenant-wide rows of a part, `branchRows[p]` those
of branches, which the generator writes and whose unique constraint binds. `classify_part` is
three steps, each committed on its own: compute the result (`Compute`), look for the row
(`Update`, `Missing`, `Ambiguous`), insert it (`Insert`). `Workers` run the monthly task, with
the `ScheduledRun` test at its start and the row after its last part; `Shells` run the
command, for every part or one, with or without `--force`. What a class is depends on the
movements and is in `SalesHistory`; here a result is its date. One task of the pass is at the
broker at a time, because one schedule of that name exists.

### Onboarding


`state` is the row, `request[u].inst` the copy a request loaded at its start and saves as a
whole, at the points where the code does. The dates and flags of the row that are set are the
set `ticks`. `Calling`, `Retry`, `CallAgain`, `GiveUp` and `Reject` are `with_retry` around a
DMS call; `Raise` is what becomes of the exception. `manager`, `imported`, `generated`,
`answered` and `refused` stand for what was really done, outside the row. Whether the text of
an exception fits the column of 20 characters is a nondeterministic choice: if it does not,
the handler's own save raises on Postgres.

### Accounts

`user`, `invitation`, `reset`, `verification` are the committed rows; `request[p]` is the
statement at which the transaction of web process `p` stands, and its token. Statements that
write a row lock it until the end of the transaction (`lock`), wait while another holds it
(`Granted`), and take effect together in the last one: that is READ COMMITTED as far as
these services can tell. Tokens are read without a lock when a request starts.
`AbortDeadlocked` is PostgreSQL ending one of two transactions that wait for each other;
`Crash` loses a process and rolls back. `create_invitation` is no transaction, so an
invitation without its roles can be seen, and resent. `uses`, `raced` and `early` are
history: how often a token was redeemed, which tokens two requests were redeeming at one
time, which invitations were mailed before they had their roles.

## 3. Runs

| run | question | answer |
|---|---|---|
| `RecTable` | two callers, two rows, all operations on instances loaded at any time | `TypeOK`, `UniquePending`, `DecisionAudited`, `OrderedWasApproved`, and `OrderedLostOnlyToStale` (an action property) hold |
| `RecDecisions` | without whole-row writes | `CrossApprovedByGerente` and the refinement `BoardImplemented` hold |
| `Runs` | a worker and the test run of a web process, two parts, two dates, crashes, redelivery, decisions in between | `OneRecommendationPerRun`, `RecordedRunIsComplete`, and `TaskEnds` (liveness) hold |
| `Sourcing` | a center and two branches, one stock change anywhere | `SourceIsNotShort`, `TransferBeforeSupplier` hold |
| `Inventory` | a sync process, the backfill and a clerk, while the dealer sells, orders and closes orders | `OneMovementPerDate`, `CreditedOnce`, and `LevelIsRefreshed` (liveness, if somebody goes on running syncs) hold |
| `SalesHistory` | two branches, complete and truncated imports on critical days of a real calendar | `SafeImportIsExact`, `AnnualCovers`, `RisingIsAboveMean`, `StageOnlyAges` hold |
| `Overrides` | two managers create overrides of every type while two clean-ups overlap, are lost and cross midnight | `OnePersistentPerBranch`, `AcceptedIsUsed`, `DeletedWasNotified`, `CleanupIsInvisible`, and `ExpiredIsRemoved` (liveness) hold |
| `Classification` | the monthly pass, lost and redelivered, and a command run by hand, over two months | `OneResultPerPart`, `RecordedPassIsComplete` hold |
| `Onboarding` | three requests of two callers overlap, hold stale rows, are refused, retried, lost | `TickedIsDone`, `StatusIsBacked`, and `RequestEnds` (liveness) hold |
| `Notify` | three events, two dispatch workers, a refusal, a failure | `NotifyTypeOK`, `SentWasMailed`, `MailedOnce`, `ThrottledHourly`, and `PendingIsMailed` (liveness) hold |
| `Accounts` | an address two tenants invite, with a reset and a verification, under two processes that wait, deadlock and are lost | `AccountsTypeOK`, `AcceptedIsComplete`, `RolesWereInvited`, `SingleUse`, `RefusedGivesNothing`, and `RequestEnds` (liveness) hold |

Type invariants that are not in a run are there for the proofs, which is where they are used:
`RunTypeOK`, `OnboardingTypeOK` and the typing conjuncts of the inductive invariants.

`OneRecommendationPerRun` speaks of branches for which no two processes generated at one
time, `OneResultPerPart` of parts that no two processes classified at one time, `SingleUse` of
tokens that no two requests were redeeming at one time: with such an overlap each fails, since
both sides look before either writes, and the history variables name the overlap.

One counterexample run, a disagreement between the code and what the repository says of it:

| run | what happens |
|---|---|
| `RunAborted` | A row of last week is still pending: the run raises at that part, on every attempt, and later parts get nothing. `recommendation-engine/spec.md:10` says every part at or below its reorder point gets one. |

The modules state more that the code does not keep, or keeps only under restrictions
(`CrossApprovedByGerente` holds in `RecDecisions`). To see a counterexample, which no run
looks for, add the property to the cfg named:

| property | where | what happens |
|---|---|---|
| `OrderedIsFinal` (`Recommendations`) | `RecTable.cfg`, `MaxAudit` 4, one row | A recalculation loaded a pending row; the row is approved and ordered; the recalculation deletes it. `transitions.py:53` calls ordered rows terminal. |
| `CrossApprovedByGerente` (`Recommendations`) | `RecTable.cfg` | A manager loads a row, a recalculation gives it a source under another coordinator, the manager approves: the permission was checked on what he loaded. |
| `NoOvercommit` (`Sourcing`) | `Sourcing.cfg`, `MaxSyncs` 0 | Two branches are both promised the whole excess of a third. |
| `NoDoubleSend` (`Notifications`) | `Notify.cfg`, `Undeliverable` empty | An override event's row is dispatched between its insert and the save of `sent_at`: two mails. |
| `FlatIsExact` (`SalesHistory`) | `SalesHistory.cfg` | A flat history is imported on two days in a row: every month has two movements, and the velocity is twice the truth. |
| `SkippedIsRecent` (`Classification`) | `Classification.cfg` | A part was classified for a branch only: the command takes that for a recent result and leaves it out. |
| `ExpiredWasDue` (`Accounts`) | `Accounts.cfg` | A request finds an invitation expired, it is resent, and is then marked expired with the new date. |

Every property of a passing run has a mutant, a plausible bug in one mapped definition (kept
beside that definition in the module), that TLC finds to violate it.

### Bounds, and why they are enough

* `RecIds`: two rows make the unique index, bulk batches and a row beside a reopened one
  possible; `Runs` has four, two parts on two dates. More creations are not enabled
  then, so these runs say nothing about longer histories: the proofs do.
* `MaxAudit` (a state constraint) cuts histories after two audited decisions or escalations;
  the operations that write no entry (reopening, whole-row
  saves, deletion) go on without bound. Approval and ordering of one row, or a decision of
  each of two rows, fit. The constraint on `held` lets the two callers hold two instances
  between them, of one row or of two. `KeysInOrder` hands primary keys out in order, which is
  a symmetry: no definition compares keys.
* `MCRecommendations` has destination `b1` only; `b2` is there as a cross-coordinator source.
* `Dates`: two, so that an attempt can start on one date and its retry on the next.
  `MaxAttempts` is 2 rather than 3: one retry, and giving up.
* `Sourcing`: velocities and quantities are chosen so that branches are short, covered, and
  in excess, that excess ties occur and that one stock figure is negative. `MaxSyncs` = 1
  puts one change of stock anywhere in the resolutions.
* `Notify`: two events share user and type, so that one can throttle the other; `MaxHours` 1,
  `MaxFailures` 1, `MaxRefusals` 1, `Batch` 2 with one address that always fails: the smallest
  batch in which it cannot block the others.

* `Inventory`: two orders of different quantities, lists of two months, two days, two changes
  by dealer or clerk, one failure: an order can be received and listed again, a list can be
  imported in part and repeated, on the same day or the next. One syncer and one clerk: with
  two of either the properties do not hold (section 5).
* `SalesHistory`: two imports and two jumps in time of 1, 31 or 366 days from six first days:
  the edges of the safe days, the ends of short and long months, the turn of a year and a
  leap year. `CalendarIsSafe`, an assumption TLC evaluates, covers every day of four years.
  Profiles: flat, nothing, ended long ago, rising; ages on both sides of the six months.
* `Overrides`: three requests of two managers, one branch and the tenant, two days, two
  clean-ups, one loss: a stale save after an insert, a clean-up across midnight, and two that
  overlap all fit.
* `Onboarding`: `MaxAttempts` is the 3 of the code; three requests of two callers let one
  request outlive two others; two branches make a loop that is left half way; one of the two
  adapter types has no implementation, as in the factory.
* `Classification`: one worker and one shell, two parts, of which one has branch rows
  (`OnePartHasBranchRows`), two months of two units of time, 24 hours are one unit. A pass can
  be lost between its parts, be repeated in the next month, or find the command's row.
* `Accounts`: two processes are enough for every overlap the properties except. Of the two
  invitations, the reset and the verification, `Bound` lets `MaxTokens` 2 be issued and
  `MaxLate` 1 be expired at one time: every pair of tokens is met. The proofs have no bounds.

Deadlock is checked for `Notify` only. In the others the system may really stop: all keys are
used, or the bounded counters have run out.

### Fairness

`FairRunSpec`: weak fairness of each worker's own steps and of starting a queued task, which
is what a running cluster does. Nothing is assumed of reviewers, of the clock, the schedule,
or of crashes not happening. `TaskEnds` then rests on `max_attempts`; the settings say "3
attempts total", and the model counts every delivery, so a crashed one too.
`FairSpec` of `Notifications`: weak fairness of each dispatcher, because the schedule repeats
every 15 minutes for ever (`repeats: -1`). Nothing is assumed of the calls. Passing refusals
are bounded: a server that refuses for ever is the constant `Undeliverable`.
`PendingIsMailed` is conditional on fewer such addresses than the batch size, 100 in the
code: with more, the head of the queue never changes and nothing behind it is ever mailed.

`FairSpec` of `Inventory` and `Onboarding`: weak fairness of the steps of a sync or request
under way, as of any running process. No schedule runs `sync_inventory`, so that syncs are
started again and again is a premise of the two liveness properties. Nothing is assumed of
clerks, nor of the DMS: `RequestEnds` rests on the bound of attempts alone.
`FairSpec` of `Overrides`: the daily schedule starts a clean-up on some worker again and
again, and a clean-up that was started goes on.
`FairSpec` of `Accounts`: strong fairness of each request's next statement. A statement that
waits for a row is enabled again and again, and PostgreSQL grants locks in the order in which
they are waited for. Nothing is assumed of users, of mail, of the clock, nor of crashes.

## 4. Proofs

TLAPS proves the following for all values of the constants (any number of rows, users,
branches, workers, events, and unbounded histories), from the named assumptions of the modules.

| theorem | statement | argument |
|---|---|---|
| `TypeCorrect` | `Spec => []TypeOK` | inductive as it stands; its last two conjuncts, that a handler in progress holds the instance it works on, are what make the later saves well typed |
| `OnePendingPerSlot` | `Spec => []UniquePending` | creation tests for a pending row in its transaction; every other way to become pending goes through `IndexAllows` |
| `DecisionsAreAudited` | `Spec => []DecisionAudited` | strengthened to held instances: whatever instance somebody holds that is not pending has its audit entry, so writing it back, even over a deleted row, shows only real decisions |
| `OrderedRowsWereApproved` | `Spec => []OrderedWasApproved` | the same for held instances, plus: stored or held approved rows have an approval, because ordering looks at the stored state |
| `CrossTransfersByGerente` | `DecisionSpec => []CrossApprovedByGerente` | without whole-row writes a held instance has the same branch and source as the stored row, so the check on the instance is one on the row; with whole-row writes it is false (section 3) |
| `OrdersLostOnlyToStale` | `Spec => OrderedLostOnlyToStale` | an action property: decisions and deletions by key never leave ordered; a whole-row write comes from an instance, and keys stored or held were issued once (`KeysKnown`) |
| `DecisionsImplementBoard` | `DecisionSpec => BoardImplemented` | a place of the board shows its one pending row (`ShownFaithful`); creation is `Raise`, decisions are `Settle`, reopening is `BringBack`, the rest stutters; from `NoRecIsNoSlot` |
| `RunTypeCorrect` | `RunSpec => []RunTypeOK` | attempts never exceed the bound because a task that used them up is not queued again |
| `RunRefinesDecisions` | `RunSpec => DecisionSpec` | every step of a run is a creation, a decision or a stutter of the table |
| `RunsImplementBoard` | `RunSpec => BoardImplemented` | the refinement above, followed by that of `DecisionsImplementBoard` |
| `AtMostOnePerRun` | `RunSpec => []OneRecommendationPerRun` | a job about to create found no row of its part and date, and none can have come since: no other job is at its branch, or the branch is marked as overlapped |
| `RunsKeepPendingUnique` | `RunSpec => []UniquePending` | the two above combined |
| `RecordedRunsAreComplete` | `RunSpec => []RecordedRunIsComplete` | strengthened: every due part before the one a job is at has a row of its date; rows are never deleted by runs or decisions |
| `ShortHasNoExcess` | a triggered branch with a positive order has excess 0 | arithmetic of the formulas |
| `GiversAreNotShort` | `Spec => []SourceIsNotShort` | while stock is unchanged: whoever is planned or ordered for is short; excess that was read is still the excess; what is taken is at most what was read |
| `GreedyIsComplete` | one resolution: parts add up to the need, the supplier comes last, sources are drained in priority order | what the first k of a ranking give is the smaller of the need and the sum of their excess, by least counterexample in k |
| `TransfersComeFirst` | `Spec => TransferBeforeSupplier` | an action property: `GreedyIsComplete` for the need and the excess a resolver holds when it saves |
| `SourcingTypeCorrect` | `Spec => []Shape` | what is stored is what `Resolved` returns; if anything is taken, the first of the ranking gives |
| `SalesTypeCorrect` | `SalesSpec => []SalesTypeOK` | one inductive invariant, `SalesInv`, for this and the next six: no movement is dated in the future, and the import that is the only one accounts for every row |
| `OneSafeImportIsExact` | `SalesSpec => []SafeImportIsExact` | from a safe day, 30 days at a time lead into one month after the other (`SafeDayStepsBack`), and beyond the window from the 13th entry on (`LongListsReachBack`), so a month of the window holds the row of its entry and no other |
| `FlatSalesAreExact` | `SalesSpec => []FlatImportIsExact` | the acceptance criterion AC-1 of the velocity for one safe import: by the theorem above every month counts the same, and a factor may be taken out of a sum |
| `YearCoversVelocity` | `SalesSpec => []AnnualCovers` | the months of the window have no day in common and lie in the last 365 days; parts of a set add up to no more than the set (`SumParts`); what is idle for a year has annual sales 0 |
| `CenterVelocityIsOne` | `SalesSpec => []CenterVelocitiesAgree` | AC-5 of the velocity: the demand of a center added up by `planning.py` is the velocity of the aggregate in `services.py`; a table may be added up by rows or by columns (`SumSwap`) |
| `RisingSalesAreAboveMean` | `SalesSpec => []RisingIsAboveMean` | by the theorem above; rising numbers weighed with rising weights come out above their mean (`RisingWeighsMore`, by splitting at the first weight that is not below the mean weight) |
| `StagesNeverComeBack` | `SalesSpec => StageOnlyAges` | an action property: the last sale stays, idleness and months since the first sight grow with the day, as `MonthOf` rises |
| `NeverItsOwnSource` | a resolver never reads excess from its own branch | candidates exclude the destination |
| `NotifyTypeCorrect` | `Spec => []NotifyTypeOK` | one inductive invariant, `NotifyInv`, for this and the next three; `older` is a strict order of the rows, so the first rows have different numbers of rows before them and are at most a batch |
| `SentMailWasMailed` | `Spec => []SentWasMailed` | an answer "accepted" in the hands of a call or dispatch implies a delivery of that event, and a dispatch is at one row only |
| `MailGoesOutOnce` | `Spec => []MailedOnce` | while nothing fails and no dispatches overlap: what a dispatch has yet to mail was not delivered, and what was delivered is saved when its transaction commits, or is about to be saved by the dispatch that is at it |
| `CallsAreThrottled` | `Spec => []ThrottledHourly` | while nothing fails: a dispatch takes a row of a transaction only with its error set; of two calls of a key that never ran at one time, the later found no mail of the hour in which it looked, and none can have come since |
| `ClassificationTypeCorrect` | `Spec => []ClassificationTypeOK` | a queued task has attempts left |
| `ResultIsSingle` | `Spec => []OneResultPerPart` | of a part nobody else was computing, at most one process holds a result, and if it found no row there is none |
| `RecordedPassesAreComplete` | `Spec => []RecordedPassIsComplete` | nothing is dated later than now, a pass computes its results in its month or later, and every part it is past has a result that is not older; rows only get newer |
| `OneSyncOneMovement` | one ingestion process: `Spec => []OneMovementPerDate` | what a process is about to insert is not in the table; false with two processes |
| `OneClerkOneCredit` | one ingestion process, one clerk: `Spec => []CreditedOnce` | a transfer that is stored and pending, or held by the clerk, has not been credited since it was listed; false with two clerks |
| `PersistentIsSingle` | `Spec => []OnePersistentPerBranch` | one inductive invariant, `OverridesInv`, for this and the next three: keys are given once; the row a request found is there still or its save inserts it alone |
| `PlannedAsAccepted` | `Spec => []AcceptedIsUsed` | the accepted value is in the newest row, and a save renews `stamp` |
| `NothingDeletedSilently` | `Spec => []DeletedWasNotified` | a clean-up that came to its delete holds every row its second query can find |
| `CleanupChangesNoPlan` | `Spec => CleanupIsInvisible` | the delete removes only rows that have ended, which no lookup returns |
| `OnboardingTypeCorrect` | `Spec => []OnboardingTypeOK` | a request sleeps only before its last attempt, so the attempt stays in its range |
| `TicksAreDone` | `Spec => []TickedIsDone` | strengthened to every instance a request holds, which may be saved over the row at any time; facts about what was done only grow; a loop's progress is what its branches have left, and a branch read with a manager keeps one |
| `StatusesAreBacked` | `Spec => []StatusIsBacked` | the same invariant; an attempt number is at most one more than the refusals counted |
| `AccountsTypeCorrect` | `Spec => []AccountsTypeOK` | its last conjunct, that a row is locked by exactly the request that has written it, is what the others rest on |
| `AcceptanceIsComplete` | `Spec => []AcceptedIsComplete` | users keep tenant and roles; an invitation's roles are set or it is in `early`; an acceptance that inserted the user still has the address locked |
| `OnlyInvitedRoles` | `Spec => []RolesWereInvited` | acceptance checks the tenant of a user it found, and holds the lock of one it inserts |
| `RedeemedOnce` | `Spec => []SingleUse` | a used token is not found valid again, so a second use needs a second request beside the first |
| `RefusalIsFinal` | `Spec => RefusedGivesNothing` | a refused invitation at which no request stands is neither found valid nor resent |

How sums and rankings are reached although induction over data is not: the induction
theorems of the library take an operator as a parameter, which the provers cannot
instantiate, but "a family of subsets of a finite set has a smallest member" (`SmallestSet`)
and "a nonempty set of numbers has a least one" (`LeastNumber`) are about sets. From the
first follow what a sum over a finite set is (`SumPicked`, `SumElement`, `SumAdd`, `SumPart`),
from the second the greedy allocation source by source (`GreedyPrefix`), the month of a day
(`MonthOfDay`) and the last sale (`GreatestIn`). Two assumptions are there for this: a tenant
has finitely many branches, and finitely many events happen.

Model-checked only: the liveness properties, as fairness and ENABLED are outside TLAPS's
reach. Every invariant and every other action property that a run checks is a theorem.

## 5. What the models show about the code, and what is not modelled

Behaviours met while modelling that the properties are stated around:

* Two processes that import at once can both insert the same movement or transfer. From then
  on `update_or_create` raises `MultipleObjectsReturned`, and every later sync of that part
  ends there. Two clerks that receive one transfer credit it twice.
* `in_transit_stock` is written only for parts an open order lists: when the last order is
  closed the old total stays. `LevelIsRefreshed` is conditional on an open order there;
  `catalog-ingestion/spec.md:49-52` is not. `mark_received` adds to a stock figure that the
  next sync replaces anyway.
* A tenant-wide override is never applied by planning, which asks for the branch only,
  although `catalog/models.py:286` says a NULL branch applies tenant-wide; there can be two
  persistent ones, unlike the docstring `catalog/overrides.py:71-73`. A per-run override is
  neither applied, as no caller passes a run id, nor ever removed.
* `dms_test_status` has 20 characters. On Postgres the handler that saves a longer exception
  text raises, so "failed" is not recorded; a DMS that answers "no" leaves the status as it was.
* No onboarding step looks at the status: a late request takes a live tenant back, the test
  run needs no manager (a fallback may replace one named in the meantime), and the checklist's
  first line goes by the status and is ticked after a backfill without a connection test.
  A stale request can also lose a tick: `TickedIsDone` speaks of the ticks that are there.
* Sales imported outside the 3rd to 24th of a month (23rd, if the list is longer than the 12
  months of the fixtures) can put two months' sales into one, and a history imported on two
  days has every sale twice, which doubles the velocity that
  `velocity-calculation/spec.md:90` calls exact (`FlatIsExact`; `FlatSalesAreExact` proves it
  for one import).
* A pass and a command that classify one part at one time insert two tenant-wide rows. From
  then on `update_or_create` raises `MultipleObjectsReturned`, and every later pass ends at
  that part, although `catalog/models.py:183-187` speaks of one row upserted on every pass.
  The command also skips parts because a branch has a recent result.
* One reset or invitation token can be redeemed by two requests at one time. A revocation
  that runs beside an acceptance can be overwritten by it, or leave an accepted user behind a
  revoked invitation. `accept_invitation` and `verify_email` lock a user and his verification
  in opposite orders and can deadlock; the database ends one of them.
* `create_invitation` is not atomic: lost in the middle, it leaves an invitation without roles
  and without a mail, which resending mails without roles. An invitation marked expired cannot
  be resent, as its status is no longer pending.
* `accounts/views.py:114-144` asks for a role named "gerente", while `Role.GERENTE` is
  "department_manager".

Not modelled:

* Tenancy: one tenant; the queries of the modelled code all filter by it.
* Text, amounts in money, confidence, the rationale, the layout of mails, logging.
* Roles and branch assignments changing while a decision is under way.
* A tenant without any active user in the onboarding; edits of rows in the admin.
* Rounding of quantities and of floating-point velocities (what is proved exact or equal is so
  in rational arithmetic); parameter lookup from sector and part settings.
* `mark_as_read`, the digest helper (nobody calls it), recipients (a pure query).
* The components listed as `not_modelled` in PROJECT.json: some are planned (below),
  the dashboard, sector settings, views and the spike are not worth a model.

## 6. Plan

1. (done) `Recommendations`, its abstract board, its proofs.
2. (done) `ReplenishmentRun`, `Planning`, `Sourcing`, `Notifications`, and first proofs.
3. (done) `Inventory`, `SalesHistory`, `Overrides`, `Onboarding` with its proofs.
4. (done) `Accounts` with its proofs; `Classification`; the throttle (`ThrottledHourly`).
5. (done) Proofs of `Overrides`, of `Inventory` for one process and one clerk, of the
   refinement of `AlertBoard`, of `OneRecommendationPerRun` and `OrderedLostOnlyToStale`.
6. (done) Proofs of `Classification`, of all of `Notifications`, of the greedy allocation,
   and of the scheduled runs as an implementation of `AlertBoard`.
7. (done) Proofs of `SalesHistory`: the calendar, `SafeImportIsExact`, `AnnualCovers`,
   `RisingIsAboveMean`, `StageOnlyAges`.
8. An abstract ledger of received orders that `Inventory` implements for one clerk.
9. Roles and branch assignments that change while a decision is under way.
