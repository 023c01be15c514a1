----------------------------- MODULE InventoryProofs -----------------------------
(***************************************************************************)
(* Theorems about Inventory, for any orders, quantities, list lengths,     *)
(* days and losses, but one ingestion process (and, for receipts, one      *)
(* clerk): no constraint makes what update_or_create looks up unique, so   *)
(* with two processes neither property holds.                              *)
(***************************************************************************)
EXTENDS Inventory, TLAPS

OneSyncer == \A s, t \in Syncers : s = t

OneClerk == \A c, d \in Clerks : c = d

--------------------------------------------------------------------------------
(* The local variables of a sync have their types.  (The figures of the     *)
(* stock level are sums over sets, which would need induction: nothing      *)
(* below depends on them.)                                                  *)
SyncShape ==
  /\ dealer \in [stock : Nat, open : SUBSET Orders]
  /\ sync \in [Syncers -> Sync]
  /\ today \in 0 .. MaxDay
  /\ \A s \in Syncers : At(s, "newTransfer") => sync[s].order \in Orders
  /\ \A s \in Syncers : At(s, "newMovement") => sync[s].month <= Months

LEMMA IdleShape == NoSync \in Sync /\ NoSync.phase = "idle"
BY InventoryAssumption DEF NoSync, Sync, Phases

(* What a step of the service may leave behind in sync[s]. *)
LEMMA BecomesShape ==
  ASSUME SyncShape, NEW s \in Syncers, NEW record \in Sync, Becomes(s, record),
         record.phase = "newTransfer" => record.order \in Orders,
         record.phase = "newMovement" => record.month <= Months
  PROVE  SyncShape'
BY DEF SyncShape, Becomes, At, bounds

LEMMA SyncStepShape ==
  ASSUME SyncShape, NEW s \in Syncers, SyncStep(s)
  PROVE  SyncShape'
<1>1. /\ sync[s] \in Sync /\ dealer.open \subseteq Orders /\ today \in 0 .. MaxDay
      /\ sync[s].todo \subseteq Orders
  BY DEF SyncShape, Sync
<1>2. CASE WriteStock(s)
  <2>1. [sync[s] EXCEPT !.phase = "sales"] \in Sync
    BY <1>1 DEF Sync, Phases
  <2>2. [sync[s] EXCEPT !.phase = "sales"].phase = "sales"
    BY <1>1 DEF Sync
  <2> QED
    BY <1>2, <2>1, <2>2, BecomesShape DEF WriteStock
<1>3. CASE ReadSales(s)
  <2> DEFINE r == [sync[s] EXCEPT !.phase = "movement", !.day = today]
  <2>1. r \in Sync /\ r.phase = "movement"
    BY <1>1 DEF Sync, Phases
  <2> QED
    BY <1>3, <2>1, BecomesShape DEF ReadSales
<1>4. ASSUME sync[s].month <= Months
      PROVE  NextMonth(s) \in Sync /\ NextMonth(s).phase = "movement"
  <2>1. sync[s].month \in 1 .. Months + 1
    BY <1>1 DEF Sync
  <2>2. sync[s].month + 1 \in 1 .. Months + 1
    BY <1>4, <2>1, InventoryAssumption
  <2>3. ASSUME NEW m \in 1 .. Months + 1
        PROVE  /\ [sync[s] EXCEPT !.phase = "movement", !.month = m] \in Sync
               /\ [sync[s] EXCEPT !.phase = "movement", !.month = m].phase = "movement"
    BY <1>1 DEF Sync, Phases
  <2> QED
    BY <2>2, <2>3 DEF NextMonth
<1>5. CASE FindMovement(s)
  <2> DEFINE r == [sync[s] EXCEPT !.phase = "newMovement"]
  <2>1. r \in Sync /\ r.phase = "newMovement" /\ r.month <= Months
    BY <1>1, <1>5 DEF Sync, Phases, FindMovement
  <2>2. \/ Becomes(s, NextMonth(s)) \/ Becomes(s, r) \/ Becomes(s, NoSync)
    BY <1>5 DEF FindMovement, Upsert
  <2> QED
    BY <1>4, <1>5, <2>1, <2>2, IdleShape, BecomesShape DEF FindMovement
<1>6. CASE CreateMovement(s)
  <2>1. sync[s].month <= Months
    BY <1>6 DEF CreateMovement, SyncShape
  <2> QED
    BY <1>4, <1>6, <2>1, BecomesShape DEF CreateMovement
<1>7. CASE ReadOrders(s)
  <2> DEFINE r == [sync[s] EXCEPT !.phase = "transfer", !.open = dealer.open,
                                  !.todo = dealer.open]
  <2>1. r \in Sync /\ r.phase = "transfer"
    BY <1>1 DEF Sync, Phases
  <2>2. Becomes(s, r) \/ Becomes(s, NoSync)
    BY <1>7 DEF ReadOrders
  <2> QED
    BY <2>1, <2>2, IdleShape, BecomesShape
<1>8. ASSUME NEW o PROVE Saved(s, o) \in Sync /\ Saved(s, o).phase = "transfer"
  BY <1>1 DEF Saved, Sync, Phases
<1>9. ASSUME NEW o \in Orders, FindTransfer(s, o) PROVE SyncShape'
  <2> DEFINE r == [sync[s] EXCEPT !.phase = "newTransfer", !.order = o]
  <2>1. r \in Sync /\ r.phase = "newTransfer" /\ r.order = o
    BY <1>1 DEF Sync, Phases
  <2>2. Becomes(s, Saved(s, o)) \/ Becomes(s, r) \/ Becomes(s, NoSync)
    BY <1>9 DEF FindTransfer, Upsert
  <2> QED
    BY <1>8, <2>1, <2>2, IdleShape, BecomesShape
<1>10. CASE CreateTransfer(s)
  BY <1>8, <1>10, BecomesShape DEF CreateTransfer
<1>11. CASE WriteTransit(s)
  BY <1>11, IdleShape, BecomesShape DEF WriteTransit
<1> QED
  BY <1>2, <1>3, <1>5, <1>6, <1>7, <1>9, <1>10, <1>11 DEF SyncStep

LEMMA ShapeKept == SyncShape /\ [Next]_vars => SyncShape'
<1> SUFFICES ASSUME SyncShape, [Next]_vars PROVE SyncShape'
  OBVIOUS
<1>1. CASE DealerSells
  BY <1>1 DEF DealerSells, DealerChanges, SyncShape, At
<1>2. ASSUME NEW o \in Orders, DealerOrders(o) \/ DealerCloses(o) PROVE SyncShape'
  BY <1>2, InventoryAssumption
  DEF DealerOrders, DealerCloses, DealerChanges, SyncShape, At
<1>3. CASE NextDay
  BY <1>3, InventoryAssumption DEF NextDay, SyncShape, At
<1>4. ASSUME NEW s \in Syncers, ReadStock(s) PROVE SyncShape'
  <2> DEFINE r == [NoSync EXCEPT !.phase = "stock", !.full = TRUE, !.stock = dealer.stock]
  <2>1. r \in Sync /\ r.phase = "stock"
    BY IdleShape DEF SyncShape, Sync, Phases
  <2> QED
    BY <1>4, <2>1, BecomesShape DEF ReadStock
<1>5. ASSUME NEW s \in Syncers, BackfillSales(s) PROVE SyncShape'
  <2> DEFINE r == [NoSync EXCEPT !.phase = "sales"]
  <2>1. r \in Sync /\ r.phase = "sales"
    BY IdleShape DEF Sync, Phases
  <2> QED
    BY <1>5, <2>1, BecomesShape DEF BackfillSales
<1>6. ASSUME NEW s \in Syncers, SyncLost(s) PROVE SyncShape'
  BY <1>6, IdleShape DEF SyncLost, SyncShape, At
<1>7. ASSUME NEW c \in Clerks,
             SelectTransfers(c) \/ ReadLevel(c) \/ MarkReceived(c) \/ ClerkLost(c)
      PROVE  SyncShape'
  BY <1>7 DEF SelectTransfers, ReadLevel, MarkReceived, ClerkLost, bounds, SyncShape, At
<1>8. CASE UNCHANGED vars
  BY <1>8 DEF vars, bounds, SyncShape, At
<1> QED
  BY <1>1, <1>2, <1>3, <1>4, <1>5, <1>6, <1>7, <1>8, SyncStepShape DEF Next

LEMMA ShapeInit == Init => SyncShape
BY InventoryAssumption, IdleShape DEF Init, SyncShape, At

--------------------------------------------------------------------------------
(* Movements: whoever is about to insert one found none, and nobody else    *)
(* inserts any in between.                                                  *)
MovementInv ==
  /\ OneSyncer /\ SyncShape
  /\ movement \in [(1 .. Months) \X (0 .. MaxDay) -> {0, 1}]
  /\ \A s \in Syncers : At(s, "newMovement") => movement[Dated(s)] = 0

LEMMA DatedType ==
  ASSUME SyncShape, NEW s \in Syncers, sync[s].month <= Months
  PROVE  Dated(s) \in (1 .. Months) \X (0 .. MaxDay)
<1>1. sync[s].month \in 1 .. Months + 1 /\ sync[s].day \in 0 .. MaxDay
  BY DEF SyncShape, Sync
<1> QED
  BY <1>1, InventoryAssumption DEF Dated

(* A sync that is not left at an insert, or all else that leaves the syncs. *)
LEMMA MovementUntouched ==
  ASSUME MovementInv, SyncShape', movement' = movement,
         \A s \in Syncers : sync'[s] = sync[s] \/ sync'[s].phase # "newMovement"
  PROVE  MovementInv'
BY DEF MovementInv, OneSyncer, At, Dated

LEMMA MovementStep ==
  ASSUME MovementInv, NEW s \in Syncers, SyncStep(s)
  PROVE  MovementInv'
<1>1. SyncShape' /\ sync[s] \in Sync /\ \A t \in Syncers : t = s
  BY SyncStepShape DEF MovementInv, OneSyncer, SyncShape
<1>2. ASSUME NEW r, Becomes(s, r), r.phase # "newMovement", movement' = movement
      PROVE  MovementInv'
  BY <1>1, <1>2, MovementUntouched DEF Becomes, MovementInv, SyncShape
<1>3. NextMonth(s).phase # "newMovement" /\ NoSync.phase # "newMovement"
  BY <1>1, IdleShape DEF NextMonth, Sync
<1>4. ASSUME NEW o
      PROVE  /\ Saved(s, o).phase # "newMovement"
             /\ [sync[s] EXCEPT !.phase = "newTransfer", !.order = o].phase # "newMovement"
  BY <1>1 DEF Saved, Sync
<1>5. ASSUME WriteStock(s) \/ ReadSales(s) \/ ReadOrders(s) PROVE MovementInv'
  <2>1. /\ [sync[s] EXCEPT !.phase = "sales"].phase # "newMovement"
        /\ [sync[s] EXCEPT !.phase = "movement", !.day = today].phase # "newMovement"
        /\ [sync[s] EXCEPT !.phase = "transfer", !.open = dealer.open,
                           !.todo = dealer.open].phase # "newMovement"
    BY <1>1 DEF Sync
  <2> QED
    BY <1>2, <1>3, <1>5, <2>1 DEF WriteStock, ReadSales, ReadOrders, rows
<1>6. CASE FindMovement(s)
  <2> DEFINE r == [sync[s] EXCEPT !.phase = "newMovement"]
  <2>1. movement' = movement /\ sync[s].month <= Months
    BY <1>6 DEF FindMovement, rows
  <2>2. movement[Dated(s)] # 0 => Becomes(s, NextMonth(s)) \/ Becomes(s, NoSync)
    BY <1>6 DEF FindMovement, Upsert
  <2>3. CASE movement[Dated(s)] = 0 /\ Becomes(s, r)
    <3>1. sync'[s] = r /\ r.month = sync[s].month /\ r.day = sync[s].day
      BY <1>1, <2>3 DEF Becomes, MovementInv, SyncShape, Sync
    <3>2. movement'[Dated(s)'] = 0
      BY <2>1, <2>3, <3>1 DEF Dated
    <3> QED
      BY <1>1, <2>1, <3>2 DEF MovementInv, OneSyncer, At
  <2>4. Becomes(s, NextMonth(s)) \/ Becomes(s, NoSync) \/ Becomes(s, r)
    BY <1>6 DEF FindMovement, Upsert
  <2> QED
    BY <1>2, <1>3, <2>1, <2>2, <2>3, <2>4
<1>7. CASE CreateMovement(s)
  <2>1. Dated(s) \in (1 .. Months) \X (0 .. MaxDay) /\ movement[Dated(s)] = 0
    BY <1>7, DatedType DEF CreateMovement, MovementInv, SyncShape
  <2>2. movement' \in [(1 .. Months) \X (0 .. MaxDay) -> {0, 1}]
    BY <1>7, <2>1 DEF CreateMovement, MovementInv
  <2>3. sync'[s] = NextMonth(s)
    BY <1>7 DEF CreateMovement, Becomes, MovementInv, SyncShape
  <2> QED
    BY <1>1, <1>3, <2>2, <2>3 DEF MovementInv, OneSyncer, At
<1>8. ASSUME NEW o \in Orders, FindTransfer(s, o) PROVE MovementInv'
  BY <1>2, <1>3, <1>4, <1>8 DEF FindTransfer, Upsert
<1>9. CASE CreateTransfer(s)
  BY <1>2, <1>4, <1>9 DEF CreateTransfer
<1>10. CASE WriteTransit(s)
  BY <1>2, <1>3, <1>10 DEF WriteTransit
<1> QED
  BY <1>5, <1>6, <1>7, <1>8, <1>9, <1>10 DEF SyncStep

LEMMA MovementKept == MovementInv /\ [Next]_vars => MovementInv'
<1> SUFFICES ASSUME MovementInv, [Next]_vars PROVE MovementInv'
  OBVIOUS
<1>1. SyncShape' /\ sync \in [Syncers -> Sync]
  BY ShapeKept DEF MovementInv, SyncShape
<1>2. ASSUME NEW o \in Orders, DealerOrders(o) \/ DealerCloses(o) PROVE MovementInv'
  BY <1>1, <1>2, MovementUntouched
  DEF DealerOrders, DealerCloses, DealerChanges, rows
<1>3. CASE DealerSells \/ NextDay \/ UNCHANGED vars
  BY <1>1, <1>3, MovementUntouched DEF DealerSells, DealerChanges, NextDay, vars, rows
<1>4. ASSUME NEW s \in Syncers, ReadStock(s) \/ BackfillSales(s) \/ SyncLost(s)
      PROVE  MovementInv'
  <2>1. /\ NoSync.phase # "newMovement"
        /\ [NoSync EXCEPT !.phase = "sales"].phase # "newMovement"
        /\ [NoSync EXCEPT !.phase = "stock", !.full = TRUE,
                          !.stock = dealer.stock].phase # "newMovement"
    BY IdleShape DEF Sync
  <2>2. /\ movement' = movement
        /\ \E r : r.phase # "newMovement" /\ sync' = [sync EXCEPT ![s] = r]
    BY <1>4, <2>1 DEF ReadStock, BackfillSales, SyncLost, Becomes, rows
  <2> QED
    BY <1>1, <2>2, MovementUntouched
<1>5. ASSUME NEW c \in Clerks,
             SelectTransfers(c) \/ ReadLevel(c) \/ MarkReceived(c) \/ ClerkLost(c)
      PROVE  MovementInv'
  BY <1>1, <1>5, MovementUntouched
  DEF SelectTransfers, ReadLevel, MarkReceived, ClerkLost, rows
<1> QED
  BY <1>2, <1>3, <1>4, <1>5, MovementStep DEF Next

(* However often an import is lost and repeated on a day, a date has at     *)
(* most one SALE row, if one process imports: for any length of the list.   *)
THEOREM OneSyncOneMovement == OneSyncer /\ Spec => []OneMovementPerDate
<1>1. OneSyncer /\ Init => MovementInv
  BY ShapeInit, IdleShape DEF Init, MovementInv, At
<1>2. MovementInv => OneMovementPerDate
  BY DEF MovementInv, OneMovementPerDate
<1> QED
  BY <1>1, <1>2, MovementKept, PTL DEF Spec

--------------------------------------------------------------------------------
(* Receipts: an order has at most one row, a clerk holds pending rows only, *)
(* and a row that is not received was not credited since it was listed.     *)
None == <<>>
Pending == <<"pending">>
Received == <<"received">>

ReceiptInv ==
  /\ OneSyncer /\ OneClerk /\ SyncShape
  /\ transfer \in [Orders -> {None, Pending, Received}]
  /\ credits \in [Orders -> {0, 1}]
  /\ held \in [Clerks -> SUBSET (Orders \X {1})]
  /\ \A o \in Orders : transfer[o] # Received => credits[o] = 0
  /\ \A c \in Clerks : \A t \in held[c] : transfer[t[1]] = Pending
  /\ \A s \in Syncers : At(s, "newTransfer") => transfer[sync[s].order] = None

LEMMA RowFacts ==
  /\ Len(None) = 0 /\ Len(Pending) = 1 /\ Len(Received) = 1
  /\ Pending[1] = "pending" /\ Received[1] = "received"
  /\ Pending # Received /\ None # Received /\ None # Pending
  /\ Append(None, "pending") = Pending
  /\ [Pending EXCEPT ![1] = "received"] = Received
BY DEF None, Pending, Received

(* Steps that touch neither transfers nor receipts. *)
LEMMA ReceiptUntouched ==
  ASSUME ReceiptInv, SyncShape', transfer' = transfer, credits' = credits,
         held' \in [Clerks -> SUBSET (Orders \X {1})],
         \A c \in Clerks : \A t \in held'[c] : transfer[t[1]] = Pending,
         \A s \in Syncers : sync'[s] = sync[s] \/ sync'[s].phase # "newTransfer"
  PROVE  ReceiptInv'
BY DEF ReceiptInv, OneSyncer, OneClerk, At

LEMMA ReceiptStep ==
  ASSUME ReceiptInv, NEW s \in Syncers, SyncStep(s)
  PROVE  ReceiptInv'
<1>1. SyncShape' /\ sync[s] \in Sync /\ \A t \in Syncers : t = s
  BY SyncStepShape DEF ReceiptInv, OneSyncer, SyncShape
<1>2. ASSUME NEW r, Becomes(s, r), r.phase # "newTransfer",
             transfer' = transfer, credits' = credits
      PROVE  ReceiptInv'
  <2>1. held' = held /\ \A t \in Syncers : sync'[t].phase # "newTransfer"
    BY <1>1, <1>2 DEF Becomes, clerks, ReceiptInv, SyncShape
  <2> QED
    BY <1>1, <1>2, <2>1, ReceiptUntouched DEF ReceiptInv
<1>3. NextMonth(s).phase # "newTransfer" /\ NoSync.phase # "newTransfer"
  BY <1>1, IdleShape DEF NextMonth, Sync
<1>4. ASSUME NEW o PROVE Saved(s, o).phase # "newTransfer"
  BY <1>1 DEF Saved, Sync
<1>5. ASSUME WriteStock(s) \/ ReadSales(s) \/ ReadOrders(s) PROVE ReceiptInv'
  <2>1. /\ [sync[s] EXCEPT !.phase = "sales"].phase # "newTransfer"
        /\ [sync[s] EXCEPT !.phase = "movement", !.day = today].phase # "newTransfer"
        /\ [sync[s] EXCEPT !.phase = "transfer", !.open = dealer.open,
                           !.todo = dealer.open].phase # "newTransfer"
    BY <1>1 DEF Sync
  <2> QED
    BY <1>2, <1>3, <1>5, <2>1 DEF WriteStock, ReadSales, ReadOrders, rows
<1>6. CASE FindMovement(s)
  <2>1. [sync[s] EXCEPT !.phase = "newMovement"].phase # "newTransfer"
    BY <1>1 DEF Sync
  <2> QED
    BY <1>2, <1>3, <1>6, <2>1 DEF FindMovement, Upsert, rows
<1>7. CASE CreateMovement(s)
  BY <1>2, <1>3, <1>7 DEF CreateMovement
<1>8. ASSUME NEW o \in Orders, FindTransfer(s, o) PROVE ReceiptInv'
  <2>1. transfer[o] \in {None, Pending, Received}
    BY DEF ReceiptInv
  <2>2. held' = held
    BY <1>8 DEF FindTransfer, Upsert, Becomes, clerks
  <2>3. CASE transfer[o] # None
    <3>1. Len(transfer[o]) = 1
      BY <2>1, <2>3, RowFacts
    <3>2. /\ transfer' = [transfer EXCEPT ![o] = Pending]
          /\ credits' = [credits EXCEPT ![o] = 0]
          /\ Becomes(s, Saved(s, o))
      BY <1>8, <3>1 DEF FindTransfer, Upsert, Pending
    <3>3. /\ transfer' \in [Orders -> {None, Pending, Received}]
          /\ credits' \in [Orders -> {0, 1}]
          /\ \A x \in Orders : transfer'[x] # Received => credits'[x] = 0
          /\ \A x \in Orders : transfer[x] = Pending => transfer'[x] = Pending
      BY <3>2 DEF ReceiptInv
    <3>4. \A c \in Clerks : \A t \in held[c] : t[1] \in Orders /\ transfer[t[1]] = Pending
      BY DEF ReceiptInv
    <3>5. \A t \in Syncers : sync'[t].phase # "newTransfer"
      BY <1>1, <1>4, <3>2 DEF Becomes, ReceiptInv, SyncShape
    <3> QED
      BY <1>1, <2>2, <3>3, <3>4, <3>5 DEF ReceiptInv, OneSyncer, OneClerk, At
  <2>4. CASE transfer[o] = None
    <3> DEFINE r == [sync[s] EXCEPT !.phase = "newTransfer", !.order = o]
    <3>1. Len(transfer[o]) = 0
      BY <2>4, RowFacts
    <3>2. transfer' = transfer /\ credits' = credits /\ Becomes(s, r)
      BY <1>8, <3>1 DEF FindTransfer, Upsert
    <3>3. sync'[s] = r /\ r.order = o
      BY <1>1, <3>2 DEF Becomes, ReceiptInv, SyncShape, Sync
    <3> QED
      BY <1>1, <2>2, <2>4, <3>2, <3>3 DEF ReceiptInv, OneSyncer, OneClerk, At
  <2> QED
    BY <2>3, <2>4
<1>9. CASE CreateTransfer(s)
  <2> DEFINE o == sync[s].order
  <2>1. o \in Orders /\ transfer[o] = None
    BY <1>9 DEF CreateTransfer, ReceiptInv, SyncShape
  <2>2. /\ transfer' = [transfer EXCEPT ![o] = Pending]
        /\ credits' = credits /\ Becomes(s, Saved(s, o)) /\ held' = held
    BY <1>9, <2>1, RowFacts DEF CreateTransfer, ReceiptInv, Becomes, clerks
  <2>3. /\ transfer' \in [Orders -> {None, Pending, Received}]
        /\ \A x \in Orders : transfer'[x] # Received => transfer[x] # Received
        /\ \A x \in Orders : transfer[x] = Pending => transfer'[x] = Pending
    BY <2>1, <2>2, RowFacts DEF ReceiptInv
  <2>4. \A c \in Clerks : \A t \in held[c] : t[1] \in Orders /\ transfer[t[1]] = Pending
    BY DEF ReceiptInv
  <2>5. \A t \in Syncers : sync'[t].phase # "newTransfer"
    BY <1>1, <1>4, <2>2 DEF Becomes, ReceiptInv, SyncShape
  <2> QED
    BY <1>1, <2>2, <2>3, <2>4, <2>5 DEF ReceiptInv, OneSyncer, OneClerk, At
<1>10. CASE WriteTransit(s)
  BY <1>2, <1>3, <1>10 DEF WriteTransit
<1> QED
  BY <1>5, <1>6, <1>7, <1>8, <1>9, <1>10 DEF SyncStep

(* A clerk receives a pending row of an order that was not credited.        *)
LEMMA ReceiptMarked ==
  ASSUME ReceiptInv, NEW c \in Clerks, MarkReceived(c)
  PROVE  ReceiptInv'
<1>1. PICK t \in held[c] :
        /\ transfer' = [transfer EXCEPT ![t[1]][t[2]] = "received"]
        /\ credits' = [credits EXCEPT ![t[1]] = @ + 1]
        /\ held' = [held EXCEPT ![c] = @ \ {t}]
  BY DEF MarkReceived, StatusAfterReceipt
<1>2. /\ t \in Orders \X {1} /\ t[1] \in Orders /\ t[2] = 1
      /\ transfer[t[1]] = Pending /\ credits[t[1]] = 0
  BY RowFacts DEF ReceiptInv
<1>3. transfer' = [transfer EXCEPT ![t[1]] = Received] /\ credits' = [credits EXCEPT ![t[1]] = 1]
  <2>1. ASSUME NEW x, NEW i, x = Pending, i = 1
        PROVE  [x EXCEPT ![i] = "received"] = Received
    BY <2>1, RowFacts, Zenon
  <2>2. [transfer[t[1]] EXCEPT ![t[2]] = "received"] = Received
    BY <1>2, <2>1, Zenon
  <2>3. transfer' = [transfer EXCEPT ![t[1]] = [transfer[t[1]] EXCEPT ![t[2]] = "received"]]
    BY <1>1
  <2>4. transfer' = [transfer EXCEPT ![t[1]] = Received]
    BY <2>2, <2>3, Zenon
  <2>5. credits' = [credits EXCEPT ![t[1]] = 1]
    BY <1>1, <1>2 DEF ReceiptInv
  <2> QED
    BY <2>4, <2>5
<1>4. SyncShape' /\ sync' = sync
  BY ShapeKept DEF Next, ReceiptInv, MarkReceived
<1>5. /\ transfer' \in [Orders -> {None, Pending, Received}]
      /\ credits' \in [Orders -> {0, 1}]
      /\ \A o \in Orders : transfer'[o] # Received => credits'[o] = 0
  BY <1>2, <1>3 DEF ReceiptInv
<1>6. held' \in [Clerks -> SUBSET (Orders \X {1})]
  BY <1>1 DEF ReceiptInv
<1>7. ASSUME NEW d \in Clerks, NEW q \in held'[d] PROVE transfer'[q[1]] = Pending
  <2>1. d = c /\ q \in held[c] \ {t}
    BY <1>1, <1>7 DEF ReceiptInv, OneClerk
  <2>2. q \in Orders \X {1} /\ transfer[q[1]] = Pending
    BY <2>1 DEF ReceiptInv
  <2>3. q[1] # t[1]
    BY <1>2, <2>1, <2>2
  <2> QED
    BY <1>3, <2>2, <2>3 DEF ReceiptInv
<1>8. ASSUME NEW s \in Syncers, At(s, "newTransfer")
      PROVE  transfer'[sync[s].order] = None
  <2>1. sync[s].order \in Orders /\ transfer[sync[s].order] = None
    BY <1>8 DEF ReceiptInv, SyncShape
  <2> QED
    BY <1>2, <1>3, <2>1, RowFacts DEF ReceiptInv
<1> QED
  BY <1>4, <1>5, <1>6, <1>7, <1>8 DEF ReceiptInv, OneSyncer, OneClerk, At

LEMMA ReceiptKept == ReceiptInv /\ [Next]_vars => ReceiptInv'
<1> SUFFICES ASSUME ReceiptInv, [Next]_vars PROVE ReceiptInv'
  OBVIOUS
<1>1. SyncShape' /\ sync \in [Syncers -> Sync]
  BY ShapeKept DEF ReceiptInv, SyncShape
<1>2. ASSUME transfer' = transfer, credits' = credits, held' = held,
             \A s \in Syncers : sync'[s] = sync[s] \/ sync'[s].phase # "newTransfer"
      PROVE  ReceiptInv'
  BY <1>1, <1>2, ReceiptUntouched DEF ReceiptInv
<1>3. ASSUME NEW o \in Orders, DealerOrders(o) \/ DealerCloses(o) PROVE ReceiptInv'
  BY <1>2, <1>3 DEF DealerOrders, DealerCloses, DealerChanges, rows, clerks
<1>4. CASE DealerSells \/ NextDay \/ UNCHANGED vars
  BY <1>2, <1>4 DEF DealerSells, DealerChanges, NextDay, vars, rows, clerks
<1>5. ASSUME NEW s \in Syncers, ReadStock(s) \/ BackfillSales(s) \/ SyncLost(s)
      PROVE  ReceiptInv'
  <2>1. /\ NoSync.phase # "newTransfer"
        /\ [NoSync EXCEPT !.phase = "sales"].phase # "newTransfer"
        /\ [NoSync EXCEPT !.phase = "stock", !.full = TRUE,
                          !.stock = dealer.stock].phase # "newTransfer"
    BY IdleShape DEF Sync
  <2>2. /\ transfer' = transfer /\ credits' = credits /\ held' = held
        /\ \E r : r.phase # "newTransfer" /\ sync' = [sync EXCEPT ![s] = r]
    BY <1>5, <2>1 DEF ReadStock, BackfillSales, SyncLost, Becomes, rows, clerks
  <2> QED
    BY <1>1, <1>2, <2>2
<1>6. ASSUME NEW c \in Clerks, SelectTransfers(c) PROVE ReceiptInv'
  <2>1. PICK S \in SUBSET PendingTransfers : held' = [held EXCEPT ![c] = S]
    BY <1>6 DEF SelectTransfers
  <2>2. ASSUME NEW t \in S
        PROVE  t \in Orders \X {1} /\ transfer[t[1]] = Pending
    <3>1. /\ t \in Orders \X (1 .. Cardinality(Syncers))
          /\ t[2] <= Len(transfer[t[1]]) /\ transfer[t[1]][t[2]] = "pending"
      BY DEF PendingTransfers
    <3>2. transfer[t[1]] \in {None, Pending, Received}
      BY <3>1 DEF ReceiptInv
    <3>3. t[2] = 1 /\ transfer[t[1]] # None
      BY <3>1, <3>2, RowFacts
    <3>4. transfer[t[1]] = Pending
      BY <3>1, <3>2, <3>3, RowFacts
    <3> QED
      BY <3>1, <3>3, <3>4
  <2>3. held' \in [Clerks -> SUBSET (Orders \X {1})]
    BY <2>1, <2>2 DEF ReceiptInv
  <2>4. \A d \in Clerks : \A t \in held'[d] : transfer[t[1]] = Pending
    BY <2>1, <2>2 DEF ReceiptInv
  <2> QED
    BY <1>1, <1>6, <2>3, <2>4, ReceiptUntouched DEF SelectTransfers, rows
<1>7. ASSUME NEW c \in Clerks, ReadLevel(c) PROVE ReceiptInv'
  BY <1>2, <1>7 DEF ReadLevel, rows
<1>8. ASSUME NEW c \in Clerks, ClerkLost(c) PROVE ReceiptInv'
  <2>1. held' \in [Clerks -> SUBSET (Orders \X {1})]
    BY <1>8 DEF ClerkLost, ReceiptInv
  <2>2. \A d \in Clerks : \A t \in held'[d] : transfer[t[1]] = Pending
    BY <1>8 DEF ClerkLost, ReceiptInv
  <2> QED
    BY <1>1, <1>8, <2>1, <2>2, ReceiptUntouched DEF ClerkLost, rows
<1> QED
  BY <1>3, <1>4, <1>5, <1>6, <1>7, <1>8, ReceiptStep, ReceiptMarked DEF Next

(* A transfer is received once for each time a sync lists it, also when the *)
(* clerk selected it before: with one process and one clerk, for any number *)
(* of orders, losses and syncs.                                             *)
THEOREM OneClerkOneCredit == OneSyncer /\ OneClerk /\ Spec => []CreditedOnce
<1>1. OneSyncer /\ OneClerk /\ Init => ReceiptInv
  BY ShapeInit, IdleShape DEF Init, ReceiptInv, At, None, Received
<1>2. ReceiptInv => CreditedOnce
  BY DEF ReceiptInv, CreditedOnce
<1> QED
  BY <1>1, <1>2, ReceiptKept, PTL DEF Spec

================================================================================
