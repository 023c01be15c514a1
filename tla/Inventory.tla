-------------------------------- MODULE Inventory --------------------------------
(***************************************************************************)
(* The stock of one part at one branch: its StockLevel row, the            *)
(* InTransitStock row of each purchase order and the SALE movements.       *)
(* InventoryIngestionService copies them from the dealer system (DMS),     *)
(* step by step; clerks mark transfers as received in the admin; the       *)
(* onboarding wizard imports sales alone.                                  *)
(***************************************************************************)
EXTENDS Naturals, Sequences, FiniteSets, FiniteSetsExt

CONSTANTS
  Orders,       \* purchase orders, by external_reference
  Qty,          \* Qty[o]: the quantity of order o
  Months,       \* the length of the monthly sales list, most recent first
  Syncers,      \* processes that run the ingestion service
  Clerks,       \* admin users
  FirstStock,   \* the stock the DMS reports at first
  MaxDay,       \* bound on the calendar
  MaxChanges,   \* bound on what the dealer changes and clerks select
  MaxFailures,  \* bound on lost processes and DMS errors
  NoOrder,      \* a sync that creates no transfer
  NoLevel       \* a clerk that has not read the stock level

ASSUME InventoryAssumption ==
  /\ Qty \in [Orders -> Nat \ {0}]
  /\ Months \in Nat /\ FirstStock \in Nat /\ MaxDay \in Nat
  /\ MaxChanges \in Nat /\ MaxFailures \in Nat
  /\ NoOrder \notin Orders

StockLevel == [available : Nat, transit : Nat]

ASSUME NoLevelAssumption == NoLevel \notin StockLevel

VARIABLES
  dealer,    \* the DMS: stock on the shelf, and the open orders
  level,     \* the StockLevel row
  transfer,  \* transfer[o]: the statuses of the rows with reference o
  movement,  \* movement[i, d]: how many SALE rows entry i of day d's import has
  sync,      \* sync[s]: what ingestion process s is doing
  held,      \* held[c]: the transfers clerk c selected and has yet to receive
  read,      \* read[c]: the stock level mark_received has in memory, or NoLevel
  credits,   \* credits[o]: receipts of o since a sync last set it to pending
  today, changes, failures

rows == <<level, transfer, movement, credits>>
clerks == <<held, read>>
bounds == <<today, changes, failures>>
vars == <<dealer, rows, sync, clerks, bounds>>

Phases == {"idle", "stock", "sales", "movement", "newMovement", "transfer", "newTransfer"}

(* The local variables of run_full_sync and of the methods it calls. *)
Sync == [phase : Phases, full : BOOLEAN, stock : Nat, open : SUBSET Orders,
         todo : SUBSET Orders, order : Orders \cup {NoOrder},
         month : 1 .. Months + 1, day : 0 .. MaxDay]

NoSync == [phase |-> "idle", full |-> FALSE, stock |-> 0, open |-> {}, todo |-> {},
           order |-> NoOrder, month |-> 1, day |-> 0]

Total(O) == MapThenSumSet(LAMBDA o : Qty[o], O)

At(s, phase) == sync[s].phase = phase

(* A change of sync[s] alone. *)
Becomes(s, record) ==
  /\ sync' = [sync EXCEPT ![s] = record]
  /\ UNCHANGED <<dealer, clerks, bounds>>

Init ==
  /\ dealer \in [stock : {FirstStock}, open : SUBSET Orders]
  /\ level = [available |-> 0, transit |-> 0]
  /\ transfer = [o \in Orders |-> <<>>]
  /\ movement = [x \in (1 .. Months) \X (0 .. MaxDay) |-> 0]
  /\ sync = [s \in Syncers |-> NoSync]
  /\ held = [c \in Clerks |-> {}]
  /\ read = [c \in Clerks |-> NoLevel]
  /\ credits = [o \in Orders |-> 0]
  /\ today = 0 /\ changes = 0 /\ failures = 0

--------------------------------------------------------------------------------
(* The dealer: parts are sold, ordered, delivered; an order may be cancelled. *)

DealerChanges(d) ==
  /\ changes < MaxChanges
  /\ dealer' = d
  /\ changes' = changes + 1
  /\ UNCHANGED <<rows, sync, clerks, today, failures>>

DealerSells ==
  dealer.stock > 0 /\ DealerChanges([dealer EXCEPT !.stock = @ - 1])

DealerOrders(o) ==
  o \notin dealer.open /\ DealerChanges([dealer EXCEPT !.open = @ \cup {o}])

DealerCloses(o) ==
  /\ o \in dealer.open
  /\ \E arrived \in {0, Qty[o]} :
       DealerChanges([stock |-> dealer.stock + arrived, open |-> dealer.open \ {o}])

NextDay ==
  /\ today < MaxDay
  /\ today' = today + 1
  /\ UNCHANGED <<dealer, rows, sync, clerks, changes, failures>>

--------------------------------------------------------------------------------
(* The ingestion service. *)

(* run_full_sync comes to the branch: sync_stock reads the DMS. *)
ReadStock(s) ==
  /\ At(s, "idle")
  /\ Becomes(s, [NoSync EXCEPT !.phase = "stock", !.full = TRUE, !.stock = dealer.stock])
  /\ UNCHANGED rows

(* mutant of StockWritten: get_or_create, a stock that is there stays. *)
StockKept(s) == IF level.available = 0 THEN sync[s].stock ELSE level.available

(* What update_or_create stores as available_stock. *)
StockWritten(s) == sync[s].stock

WriteStock(s) ==
  /\ At(s, "stock")
  /\ level' = [level EXCEPT !.available = StockWritten(s)]
  /\ Becomes(s, [sync[s] EXCEPT !.phase = "sales"])
  /\ UNCHANGED <<transfer, movement, credits>>

(* OnboardingService.backfill_sales imports sales only. *)
BackfillSales(s) ==
  /\ At(s, "idle")
  /\ Becomes(s, [NoSync EXCEPT !.phase = "sales"])
  /\ UNCHANGED rows

(* import_sales dates entry i of the list 30 * i days before today. *)
ReadSales(s) ==
  /\ At(s, "sales")
  /\ Becomes(s, [sync[s] EXCEPT !.phase = "movement", !.day = today])
  /\ UNCHANGED rows

Dated(s) == <<sync[s].month, sync[s].day>>

NextMonth(s) == [sync[s] EXCEPT !.phase = "movement", !.month = @ + 1]

(* mutant of Upsert: create(), whatever there is. *)
UpsertBlind(found, s, update, create) == Becomes(s, create)

(* update_or_create on a key that no constraint makes unique: one row is    *)
(* locked and updated, none is created later on, two raise                  *)
(* MultipleObjectsReturned and end the sync.                                *)
Upsert(found, s, update, create) ==
  \/ found = 1 /\ Becomes(s, update)
  \/ found = 0 /\ Becomes(s, create)
  \/ found > 1 /\ Becomes(s, NoSync)

FindMovement(s) ==
  /\ At(s, "movement") /\ sync[s].month <= Months
  /\ Upsert(movement[Dated(s)], s, NextMonth(s), [sync[s] EXCEPT !.phase = "newMovement"])
  /\ UNCHANGED rows

CreateMovement(s) ==
  /\ At(s, "newMovement")
  /\ movement' = [movement EXCEPT ![Dated(s)] = @ + 1]
  /\ Becomes(s, NextMonth(s))
  /\ UNCHANGED <<level, transfer, credits>>

(* The sales are done; a full sync goes on to sync_purchase_orders. *)
ReadOrders(s) ==
  /\ At(s, "movement") /\ sync[s].month = Months + 1
  /\ Becomes(s, IF sync[s].full
                THEN [sync[s] EXCEPT !.phase = "transfer", !.open = dealer.open,
                                     !.todo = dealer.open]
                ELSE NoSync)
  /\ UNCHANGED rows

(* Order o is done. *)
Saved(s, o) == [sync[s] EXCEPT !.phase = "transfer", !.todo = @ \ {o}, !.order = NoOrder]

(* Every listed order is set to pending, a received one too. *)
FindTransfer(s, o) ==
  /\ At(s, "transfer") /\ o \in sync[s].todo
  /\ Upsert(Len(transfer[o]), s, Saved(s, o),
            [sync[s] EXCEPT !.phase = "newTransfer", !.order = o])
  /\ transfer' = IF Len(transfer[o]) = 1 THEN [transfer EXCEPT ![o] = <<"pending">>] ELSE transfer
  /\ credits' = IF Len(transfer[o]) = 1 THEN [credits EXCEPT ![o] = 0] ELSE credits
  /\ UNCHANGED <<level, movement>>

CreateTransfer(s) ==
  /\ At(s, "newTransfer")
  /\ transfer' = [transfer EXCEPT ![sync[s].order] = Append(@, "pending")]
  /\ Becomes(s, Saved(s, sync[s].order))
  /\ UNCHANGED <<level, movement, credits>>

TransitWritten(s) == Total(sync[s].open)

(* transit_total holds the part only when an order lists it. *)
WriteTransit(s) ==
  /\ At(s, "transfer") /\ sync[s].todo = {}
  /\ level' = IF sync[s].open = {} THEN level ELSE [level EXCEPT !.transit = TransitWritten(s)]
  /\ Becomes(s, NoSync)
  /\ UNCHANGED <<transfer, movement, credits>>

(* The process is lost, or a read of the DMS fails: what is written stays. *)
SyncLost(s) ==
  /\ ~At(s, "idle")
  /\ failures < MaxFailures
  /\ failures' = failures + 1
  /\ sync' = [sync EXCEPT ![s] = NoSync]
  /\ UNCHANGED <<dealer, rows, clerks, today, changes>>

SyncStep(s) ==
  \/ WriteStock(s) \/ ReadSales(s) \/ FindMovement(s) \/ CreateMovement(s)
  \/ ReadOrders(s) \/ CreateTransfer(s) \/ WriteTransit(s)
  \/ \E o \in Orders : FindTransfer(s, o)

--------------------------------------------------------------------------------
(* The admin action mark_received. *)

PendingTransfers ==
  {t \in Orders \X (1 .. Cardinality(Syncers)) :
     t[2] <= Len(transfer[t[1]]) /\ transfer[t[1]][t[2]] = "pending"}

(* The selected transfers that are pending are loaded. *)
SelectTransfers(c) ==
  /\ held[c] = {}
  /\ changes < MaxChanges
  /\ changes' = changes + 1
  /\ \E S \in SUBSET PendingTransfers \ {{}} : held' = [held EXCEPT ![c] = S]
  /\ UNCHANGED <<dealer, rows, sync, read, today, failures>>

(* One transaction each: the stock level is read without a lock ... *)
ReadLevel(c) ==
  /\ held[c] # {} /\ read[c] = NoLevel
  /\ read' = [read EXCEPT ![c] = level]
  /\ UNCHANGED <<dealer, rows, sync, held, bounds>>

Less(x, y) == IF x < y THEN 0 ELSE x - y

(* mutant of StatusAfterReceipt: the transfer is not saved. *)
StatusUnsaved(o, i) == transfer[o][i]

StatusAfterReceipt(o, i) == "received"

(* ... and saved as a whole, with both figures, before the transfer is. *)
MarkReceived(c) ==
  /\ read[c] # NoLevel
  /\ \E t \in held[c] :
       LET o == t[1] IN
       /\ level' = [available |-> read[c].available + Qty[o],
                    transit |-> Less(read[c].transit, Qty[o])]
       /\ transfer' = [transfer EXCEPT ![o][t[2]] = StatusAfterReceipt(o, t[2])]
       /\ credits' = [credits EXCEPT ![o] = @ + 1]
       /\ held' = [held EXCEPT ![c] = @ \ {t}]
  /\ read' = [read EXCEPT ![c] = NoLevel]
  /\ UNCHANGED <<dealer, movement, sync, bounds>>

ClerkLost(c) ==
  /\ held[c] # {}
  /\ failures < MaxFailures
  /\ failures' = failures + 1
  /\ held' = [held EXCEPT ![c] = {}]
  /\ read' = [read EXCEPT ![c] = NoLevel]
  /\ UNCHANGED <<dealer, rows, sync, today, changes>>

Next ==
  \/ DealerSells
  \/ \E o \in Orders : DealerOrders(o) \/ DealerCloses(o)
  \/ NextDay
  \/ \E s \in Syncers : ReadStock(s) \/ BackfillSales(s) \/ SyncStep(s) \/ SyncLost(s)
  \/ \E c \in Clerks : SelectTransfers(c) \/ ReadLevel(c) \/ MarkReceived(c) \/ ClerkLost(c)

Spec == Init /\ [][Next]_vars

(* A sync that was started goes on.  Nothing is assumed of clerks, nor that *)
(* a sync is started: no schedule runs sync_inventory.                      *)
FairSpec == Spec /\ \A s \in Syncers : WF_vars(SyncStep(s))

--------------------------------------------------------------------------------
(* Types; a sync past its orders has read a list of them. *)
InventoryTypeOK ==
  /\ dealer \in [stock : Nat, open : SUBSET Orders]
  /\ level \in StockLevel
  /\ \A o \in Orders : \A i \in 1 .. Len(transfer[o]) : transfer[o][i] \in {"pending", "received"}
  /\ sync \in [Syncers -> Sync]
  /\ \A s \in Syncers : sync[s].todo \subseteq sync[s].open
  /\ \A s \in Syncers : At(s, "newTransfer") => sync[s].order \in sync[s].todo
  /\ \A c \in Clerks : read[c] \in StockLevel \cup {NoLevel}

(* The docstring of record_movement_from_sale: however often an import is   *)
(* lost and repeated on a day, also by the backfill, a date has one row.    *)
OneMovementPerDate ==
  \A x \in DOMAIN movement : movement[x] <= 1

(* A transfer is received once for each time a sync lists it, also when the *)
(* clerk holds it from before.                                              *)
CreditedOnce == \A o \in Orders : credits[o] <= 1

(* If somebody goes on running sync_inventory.                              *)
SyncedAgainAndAgain == \A s \in Syncers : []<><<ReadStock(s)>>_vars

(* While syncs go on, the stock level comes back to what the DMS says again *)
(* and again, and so does the in-transit stock as long as an order is open, *)
(* although receipts write an older level over both and syncs are lost in   *)
(* the middle.                                                              *)
LevelIsRefreshed ==
  SyncedAgainAndAgain =>
    /\ []<>(level.available = dealer.stock)
    /\ []<>(dealer.open # {} => level.transit = Total(dealer.open))
================================================================================
