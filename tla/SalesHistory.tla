------------------------------ MODULE SalesHistory -------------------------------
(***************************************************************************)
(* The sales of one part on a real calendar: monthly lists from the DMS    *)
(* become dated SALE movements, the velocity adds movements up by month,   *)
(* and the classification looks at the last year, the last sale and the    *)
(* age of the part.                                                        *)
(***************************************************************************)
EXTENDS Integers, Sequences, FiniteSets, FiniteSums

CONSTANTS
  Sellers,       \* the branches that sell the part
  FirstDay,      \* FirstDay[m]: the first day of month m; the last ends the calendar
  Entries,       \* length of the list the DMS returns, most recent month first
  Window,        \* months the velocity looks at
  Profiles,      \* what may have been sold in each month
  FirstDays,     \* days it may be at first
  Ages,          \* ages the part may have at first, in days
  Partial,       \* how many entries a lost import may have written
  Waits,         \* how many days may pass at once
  MaxWaits,      \* bound on how often
  MaxImports     \* bound on imports

Months == 1 .. Len(FirstDay) - 1
LastDay == FirstDay[Len(FirstDay)] - 1
Days == 0 .. LastDay

MonthOf == [d \in Days |-> CHOOSE m \in Months : FirstDay[m] <= d /\ d < FirstDay[m + 1]]
DayOfMonth(d) == d - FirstDay[MonthOf[d]] + 1

(* What the calendar has to do with 30 days and with 365: n months last     *)
(* between 30 n - 2 and 30 n + 6 days, the eleven from March on one more.   *)
ASSUME CalendarAssumption ==
  /\ FirstDay \in Seq(Nat) /\ Len(FirstDay) > 1 /\ FirstDay[1] = 0
  /\ \A n \in 1 .. 12 : \A m \in 1 .. Len(FirstDay) - n :
       FirstDay[m + n] - FirstDay[m] \in 30 * n - 2 .. IF n = 11 THEN 337 ELSE 30 * n + 6

(* Nobody asks the velocity for more than the 12 months of its default; the *)
(* list may be of any length.                                               *)
ASSUME SalesHistoryAssumption ==
  /\ IsFiniteSet(Sellers)
  /\ Entries \in Nat \ {0} /\ Window \in 1 .. 12
  /\ Profiles \subseteq [Months -> Nat]
  /\ FirstDays \subseteq Days /\ Ages \subseteq Nat /\ Waits \subseteq Nat \ {0}
  /\ Partial \subseteq 1 .. Entries - 1
  /\ \A d \in FirstDays : MonthOf[d] > Entries /\ MonthOf[d] > Window /\ d >= 30 * Entries
  /\ \A d \in FirstDays, a \in Ages : a <= d
  /\ MaxWaits \in Nat /\ MaxImports \in Nat

VARIABLES
  rows,     \* rows[b]: the quantity sold of each date that has a SALE movement
  today,
  sold,     \* sold[m]: what the DMS says was sold in month m
  created,  \* the day of the part's created_at
  imports,  \* imports[b]: the imports that were run, [day, entries written]
  waits

salesVars == <<rows, today, sold, created, imports, waits>>

ThisMonth == MonthOf[today]

SalesInit ==
  /\ rows = [b \in Sellers |-> [d \in {} |-> 0]]
  /\ today \in FirstDays
  /\ sold \in Profiles
  /\ \E age \in Ages : created = today - age
  /\ imports = [b \in Sellers |-> {}]
  /\ waits = 0

Later(days) ==
  /\ waits < MaxWaits /\ today + days <= LastDay
  /\ waits' = waits + 1
  /\ today' = today + days
  /\ UNCHANGED <<rows, sold, created, imports>>

--------------------------------------------------------------------------------
(* import_sales. *)

(* Entry i of the list, counted from 0: the sales of the i-th month back. *)
Listed(i) == sold[ThisMonth - i]

(* mutant of EntryDate: months of 28 days. *)
EntryDateFourWeeks(i) == today - 28 * i

EntryDate(i) == today - 30 * i

(* The entries written over the old rows. *)
Overwritten(old, written) ==
  LET entry == [d \in {EntryDate(i) : i \in written} |-> CHOOSE i \in written : EntryDate(i) = d]
  IN [d \in DOMAIN old \cup DOMAIN entry |->
        IF d \in DOMAIN entry THEN Listed(entry[d]) ELSE old[d]]

(* update_or_create for each of the first n entries that is not zero: a     *)
(* month that is zero by now leaves the row it had.                         *)
Imported(old, n) == Overwritten(old, {i \in 0 .. n - 1 : Listed(i) # 0})

(* The import writes the whole list, or is lost in the middle of it. *)
Import(b) ==
  /\ Cardinality(UNION {{b2} \X imports[b2] : b2 \in Sellers}) < MaxImports
  /\ \E n \in Partial \cup {Entries} :
       /\ rows' = [rows EXCEPT ![b] = Imported(@, n)]
       /\ imports' = [imports EXCEPT ![b] = @ \cup {[day |-> today, written |-> n]}]
  /\ UNCHANGED <<today, sold, created, waits>>

SalesNext ==
  \/ \E days \in Waits : Later(days)
  \/ \E b \in Sellers : Import(b)

SalesSpec == SalesInit /\ [][SalesNext]_salesVars

--------------------------------------------------------------------------------
(* VelocityCalculator. *)

SoldOn(b, dates) == SumOver({d \in DOMAIN rows[b] : d \in dates}, rows[b])

DaysOf(m) == FirstDay[m] .. FirstDay[m + 1] - 1

(* mutant of MonthAt: the window ends with last month. *)
MonthAtEarlier(k) == ThisMonth - Window + k - 1

(* _month_sequence, oldest first. *)
MonthAt(k) == ThisMonth - Window + k

(* _get_monthly_sales of some branches. *)
MonthlySales(B) ==
  [k \in 1 .. Window |-> SumOver(B, [b \in B |-> SoldOn(b, DaysOf(MonthAt(k)))])]

AtLeastOne(n) == IF n < 1 THEN 1 ELSE n

(* The ramp from 0.5 to 1.5, in units of 1 / (2 * (Window - 1)). *)
Weight(k) == AtLeastOne(Window - 1) + 2 * (k - 1)

(* mutant of WeightedSum: the oldest month weighs most. *)
WeightedSumReversed(s) ==
  SumOver(1 .. Window, [k \in 1 .. Window |-> s[k] * Weight(Window + 1 - k)])

(* _weighted_velocity is WeightedSum(s) / WeightTotal. *)
WeightedSum(s) == SumOver(1 .. Window, [k \in 1 .. Window |-> s[k] * Weight(k)])

WeightTotal == SumOver(1 .. Window, [k \in 1 .. Window |-> Weight(k)])

Total(s) == SumOver(1 .. Window, s)

IsColdStart(b) == Total(MonthlySales({b})) = 0

(* calculate_for_dc of the velocity: the center and its branches as one. *)
AggregateSales(dc) == MonthlySales(Sellers)

(* calculate_for_dc of the planning, and recalculation: velocity by velocity. *)
DcVelocity(dc) ==
  WeightedSum(MonthlySales({dc}))
  + SumOver(Sellers \ {dc}, [b \in Sellers \ {dc} |-> WeightedSum(MonthlySales({b}))])

--------------------------------------------------------------------------------
(* ClassificationEngine. *)

(* The engine ignores what is dated in the future. *)
SaleDates(b) == {d \in DOMAIN rows[b] : d <= today}

LastSale(b) == Max(SaleDates(b))

AnnualSales(b) == SoldOn(b, {d \in SaleDates(b) : d + 365 >= today})

(* mutant of MonthsSinceFirstSeen: the difference of the years is left out. *)
MonthsSinceFirstSeenInYear(d) == (ThisMonth - MonthOf[d]) % 12

MonthsSinceFirstSeen(d) == ThisMonth - MonthOf[d]

IdleFor(b, n) == today - LastSale(b) > n

(* _determine_stage of a part without special flags. *)
Stage(b, hasStock) ==
  CASE SaleDates(b) = {} ->
         IF MonthsSinceFirstSeen(created) <= 6 THEN "NEW"
         ELSE IF hasStock THEN "ACTIVE" ELSE "INACTIVE"
    [] SaleDates(b) # {} /\ IdleFor(b, 730) -> "OBSOLETE"
    [] SaleDates(b) # {} /\ IdleFor(b, 365) /\ ~IdleFor(b, 730) ->
         IF hasStock THEN "PRE_OBSOLETE" ELSE "INACTIVE"
    [] OTHER -> IF MonthsSinceFirstSeen(created) <= 6 THEN "NEW" ELSE "ACTIVE"

--------------------------------------------------------------------------------
(* A day on which the entries of the last 12 months fall into a month each. *)
(* From the 24th of February the 13th entry, if there is one, can fall on   *)
(* the 1st of March of the year before.                                     *)
IsSafe(d) == DayOfMonth(d) \in 3 .. IF Entries > 12 THEN 23 ELSE 24

Complete(b) == {x \in imports[b] : x.written = Entries}

(* The comment of import_sales: stepping back 30 days at a time, each list  *)
(* index maps to a concrete month.  It does for one import that is complete *)
(* and was run between the 3rd and the 24th (23rd): then the velocity of    *)
(* that month sees what the DMS listed, month by month.                     *)
SafeImportIsExact ==
  \A b \in Sellers : \A x \in Complete(b) :
    imports[b] = {x} /\ IsSafe(x.day) /\ MonthOf[x.day] = ThisMonth =>
      MonthlySales({b}) = [k \in 1 .. Window |-> IF k + Entries > Window THEN sold[MonthAt(k)] ELSE 0]

(* Two components look at "the last year" in two ways, twelve calendar      *)
(* months and 365 days: the volume class counts at least what the velocity  *)
(* counts, and a part that the classification calls dead has no velocity,   *)
(* however old and incomplete the movements are.                            *)
AnnualCovers ==
  \A b \in Sellers :
    /\ Total(MonthlySales({b})) <= AnnualSales(b)
    /\ \A hasStock \in BOOLEAN :
         Stage(b, hasStock) \in {"OBSOLETE", "PRE_OBSOLETE", "INACTIVE"} => IsColdStart(b)

(* AC-2: when sales rise, the velocity is above their mean; also the demand *)
(* of a distribution center, which adds velocities of branches up, each of  *)
(* another and perhaps incomplete import.                                   *)
RisingIsAboveMean ==
  \A dc \in Sellers :
    LET s == AggregateSales(dc) IN
    (\A k \in 2 .. Window : s[k - 1] <= s[k]) /\ s[1] < s[Window] =>
      DcVelocity(dc) * Window > Total(s) * WeightTotal

Rank(stage) ==
  CASE stage = "NEW" -> 0 [] stage = "ACTIVE" -> 1
    [] stage \in {"INACTIVE", "PRE_OBSOLETE"} -> 2 [] stage = "OBSOLETE" -> 3

(* A part only grows older while it does not sell: no stage comes back by   *)
(* the passing of time, at the turn of a year neither.                      *)
StageOnlyAges ==
  [][rows' = rows =>
       \A b \in Sellers, hasStock \in BOOLEAN :
         Rank(Stage(b, hasStock)) <= Rank(Stage(b, hasStock)')]_salesVars

(* AC-1 of the velocity specification: the velocity of a flat history at X  *)
(* units a month is exactly X; here, of one imported this month, completely *)
(* and always on a safe day.                                                *)
FlatIsExact ==
  \A b \in Sellers :
    /\ \A m \in Months : sold[m] = sold[1]
    /\ \A x \in imports[b] : x \in Complete(b) /\ IsSafe(x.day)
    /\ \E x \in imports[b] : MonthOf[x.day] = ThisMonth
    => WeightedSum(MonthlySales({b})) = sold[1] * WeightTotal
================================================================================
