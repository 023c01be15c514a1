-------------------------------- MODULE Sourcing --------------------------------
(***************************************************************************)
(* Planning and source resolution of one part over the branches of a       *)
(* tenant: the generator and recalculations plan each branch, look up the  *)
(* candidate source branches and read the excess of one after the other,   *)
(* while syncs with the dealer system change the stock and other branches  *)
(* are planned by other processes.                                         *)
(***************************************************************************)
EXTENDS Planning, FiniteSets, FiniteSums

CONSTANTS
  Branches,     \* active branches
  Centers,      \* those of type distribution_center
  Parent,       \* Parent[b]: the distribution center b depends on, or NoBranch
  Velocity,     \* Velocity[b]: monthly sales of the part at b; 0 is a cold start
  Cover,        \* period plus security days
  Lead,         \* lead time of the part, in days
  Quantities,   \* stock figures the dealer system reports, also negative ones
  MaxSyncs,     \* bound on the number of stock changes
  NoBranch,     \* no parent, or the external supplier
  NoOrder,      \* a branch with no pending recommendation
  NoJob         \* a branch nobody is planning

ASSUME PlanningAssumption ==
  /\ IsFiniteSet(Branches)
  /\ Cover \in Nat /\ Lead \in Nat
  /\ Quantities \subseteq Int
  /\ Velocity \in [Branches -> Nat]
  /\ Centers \subseteq Branches
  /\ Parent \in [Branches -> Branches \cup {NoBranch}]
  /\ MaxSyncs \in Nat
  /\ NoBranch \notin Branches

(* The pending recommendation of a branch: its quantity, the inter-branch   *)
(* part of source_breakdown, the external part, and source_branch.          *)
Order == [quantity : Nat, taken : [Branches -> Nat], external : Nat,
          primary : Branches \cup {NoBranch}]

(* A resolver at work: what it needs, the candidates it has yet to read, and *)
(* the excess it read; 0 where it found none.                                *)
Job == [need : Nat, phase : {"find", "read"}, todo : SUBSET Branches,
        seen : [Branches -> Nat]]

ASSUME NullOrderAssumption == NoOrder \notin Order /\ NoJob \notin Job

VARIABLES
  stock,   \* stock[b]: the StockLevel row of the part at b
  job,     \* job[b]: who plans branch b, or NoJob
  order,   \* order[b]: the pending recommendation of b, or NoOrder
  syncs    \* how often stock changed

vars == <<stock, job, order, syncs>>

(* in_transit_stock is only ever written with a total of positive quantities. *)
StockLevel == [available : Quantities, transit : {AtLeastZero(q) : q \in Quantities}]

(* The branches that give something. *)
Givers(f) == {c \in Branches : f[c] > 0}

--------------------------------------------------------------------------------
Init ==
  /\ stock \in [Branches -> StockLevel]
  /\ job = [b \in Branches |-> NoJob]
  /\ order = [b \in Branches |-> NoOrder]
  /\ syncs = 0

(* sync_stock and sync_purchase_orders each write one column, and the       *)
(* latter only a positive total.                                            *)
SyncStock(b, q) ==
  /\ syncs < MaxSyncs
  /\ stock' = [stock EXCEPT ![b].available = q]
  /\ syncs' = syncs + 1
  /\ UNCHANGED <<job, order>>

SyncPurchaseOrders(b, q) ==
  /\ syncs < MaxSyncs
  /\ q > 0
  /\ stock' = [stock EXCEPT ![b].transit = q]
  /\ syncs' = syncs + 1
  /\ UNCHANGED <<job, order>>

(* Planning branch b with velocity v and the stock it has now. *)
PlanAt(b, v) == Plan(v, Cover, Lead, stock[b].available, stock[b].transit)

(* Velocity of a center, its own plus that of its dependent branches. *)
CenterVelocity(c) ==
  Velocity[c] + SumOver({b \in Branches : Parent[b] = c}, Velocity)

NewJob(need) == [need |-> need, phase |-> "find", todo |-> {}, seen |-> [c \in Branches |-> 0]]

(* generate_for_branch reaches the part; cold starts are skipped. *)
PlanBranch(b) ==
  /\ job[b] = NoJob /\ order[b] = NoOrder
  /\ Velocity[b] > 0
  /\ IsShort(PlanAt(b, Velocity[b]))
  /\ job' = [job EXCEPT ![b] = NewJob(PlanAt(b, Velocity[b]).order)]
  /\ UNCHANGED <<stock, order, syncs>>

(* generate_for_dc: the same with the velocity of the dependents added. *)
PlanCenter(c) ==
  /\ job[c] = NoJob /\ order[c] = NoOrder
  /\ CenterVelocity(c) > 0
  /\ IsShort(PlanAt(c, CenterVelocity(c)))
  /\ job' = [job EXCEPT ![c] = NewJob(PlanAt(c, CenterVelocity(c)).order)]
  /\ UNCHANGED <<stock, order, syncs>>

(* recalculate_recommendation: the row is deleted when the branch is short  *)
(* no more; otherwise its quantity is saved before the sources are resolved *)
(* anew.                                                                    *)
Recalculate(b) ==
  LET v == IF b \in Centers THEN CenterVelocity(b) ELSE Velocity[b]
      plan == PlanAt(b, v)
  IN /\ job[b] = NoJob /\ order[b] # NoOrder
     /\ IF v > 0 /\ IsShort(plan)
        THEN /\ order' = [order EXCEPT ![b].quantity = plan.order]
             /\ job' = [job EXCEPT ![b] = NewJob(plan.order)]
        ELSE /\ order' = [order EXCEPT ![b] = NoOrder]
             /\ UNCHANGED job
     /\ UNCHANGED <<stock, syncs>>

(* _find_candidate_source_branches *)
Candidates(b) == {c \in Branches \ {b} : stock[c].available > 0}

FindCandidates(b) ==
  /\ job[b] # NoJob /\ job[b].phase = "find"
  /\ job' = [job EXCEPT ![b].phase = "read", ![b].todo = Candidates(b)]
  /\ UNCHANGED <<stock, order, syncs>>

(* _compute_excess_for_branch, always with the branch's own velocity. *)
ExcessAt(c) == PlanAt(c, Velocity[c]).excess

ReadExcess(b, c) ==
  /\ job[b] # NoJob /\ job[b].phase = "read" /\ c \in job[b].todo
  /\ job' = [job EXCEPT ![b].todo = @ \ {c}, ![b].seen[c] = ExcessAt(c)]
  /\ UNCHANGED <<stock, order, syncs>>

(* _sort_candidates_by_priority: the parent center first, then by excess;   *)
(* a tie may come out either way.                                           *)
GoesBefore(b, seen, c, d) ==
  IF d = Parent[b] THEN FALSE
  ELSE c = Parent[b] \/ seen[c] > seen[d]

Rankings(b, seen) ==
  {rank \in [Givers(seen) -> 1 .. Cardinality(Givers(seen))] :
     \A c, d \in Givers(seen) :
       c # d => rank[c] # rank[d] /\ (GoesBefore(b, seen, c, d) => rank[c] < rank[d])}

(* mutant of LeftFor: the demand is not reduced by what others gave. *)
LeftUnreduced(need, seen, rank, c) == need

(* What is still needed when the greedy loop comes to source c. *)
LeftFor(need, seen, rank, c) ==
  AtLeastZero(need - SumOver({d \in Givers(seen) : rank[d] < rank[c]}, seen))

Least(x, y) == IF x < y THEN x ELSE y

(* _greedy_allocate *)
Allocation(need, seen, rank) ==
  [c \in Branches |-> IF c \in Givers(seen)
                      THEN Least(seen[c], LeftFor(need, seen, rank, c)) ELSE 0]

Resolved(need, seen, rank) ==
  LET taken == Allocation(need, seen, rank)
  IN [quantity |-> need, taken |-> taken,
      external |-> AtLeastZero(need - SumOver(Branches, taken)),
      primary |-> IF Givers(taken) = {} THEN NoBranch
                  ELSE CHOOSE c \in Givers(taken) : rank[c] = 1]

(* All candidates are read: sort, allocate, save. *)
Resolve(b) ==
  /\ job[b] # NoJob /\ job[b].phase = "read" /\ job[b].todo = {}
  /\ \E rank \in Rankings(b, job[b].seen) :
       order' = [order EXCEPT ![b] = Resolved(job[b].need, job[b].seen, rank)]
  /\ job' = [job EXCEPT ![b] = NoJob]
  /\ UNCHANGED <<stock, syncs>>

(* The process is lost: a generation rolls back, a recalculation leaves the *)
(* new quantity with the old sources.                                       *)
Abandon(b) ==
  /\ job[b] # NoJob
  /\ job' = [job EXCEPT ![b] = NoJob]
  /\ UNCHANGED <<stock, order, syncs>>

(* A reviewer decides: the recommendation is pending no more, unless a      *)
(* recalculation that is under way saves it as it was (Recommendations.tla  *)
(* has the states and the audit of this).                                   *)
Decide(b) ==
  /\ order[b] # NoOrder
  /\ order' = [order EXCEPT ![b] = NoOrder]
  /\ UNCHANGED <<stock, job, syncs>>

Sync == \E b \in Branches, q \in Quantities : SyncStock(b, q) \/ SyncPurchaseOrders(b, q)

Next ==
  \/ Sync
  \/ \E b \in Branches :
       \/ PlanBranch(b) \/ Recalculate(b) \/ Decide(b) \/ Abandon(b)
       \/ FindCandidates(b) \/ Resolve(b)
       \/ \E c \in Branches : ReadExcess(b, c)
  \/ \E c \in Centers : PlanCenter(c)

Spec == Init /\ [][Next]_vars

--------------------------------------------------------------------------------
(* While stock does not change, a branch that gives is not itself short:    *)
(* parts do not travel in circles between branches that each lack them.     *)
(* Distribution centers are left out: they are planned with the demand of   *)
(* their dependents and give by their own.                                  *)
SourceIsNotShort ==
  syncs = 0 =>
    \A b \in Branches : order[b] # NoOrder =>
      \A c \in Givers(order[b].taken) \ Centers : order[c] = NoOrder /\ job[c] = NoJob

(* REQ-RE-002, when the sources of b are saved: the parts add up to the     *)
(* need, the supplier is asked only when every source read is drained, and  *)
(* no source is used while one of higher priority has excess left.          *)
TransferBeforeSupplier ==
  [][\A b \in Branches :
       Resolve(b) =>
         LET seen == job[b].seen
             taken == order'[b].taken
         IN /\ SumOver(Branches, taken) + order'[b].external = job[b].need
            /\ order'[b].external > 0 => taken = seen
            /\ \A c, d \in Givers(seen) :
                 GoesBefore(b, seen, c, d) /\ taken[d] > 0 => taken[c] = seen[c]]_vars

(* "ensuring the source branch never falls below its own PP"                *)
(* (source_resolution.py; AC-2): as long as stock does not change, what the *)
(* pending recommendations take from a branch is at most its excess.        *)
NoOvercommit ==
  syncs = 0 =>
    \A c \in Branches :
      MapThenSumSet(LAMBDA b : order[b].taken[c], {b \in Branches : order[b] # NoOrder})
        <= ExcessAt(c)
================================================================================
