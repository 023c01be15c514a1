----------------------------- MODULE MCSalesHistory -----------------------------
(***************************************************************************)
(* SalesHistory on the calendar of 2023 to 2027, a leap year among them.   *)
(***************************************************************************)
EXTENDS SalesHistory

CONSTANTS dc, b1

MCSellers == {dc, b1}

Length(m) ==
  LET month == ((m - 1) % 12) + 1 IN
  IF month = 2 THEN (IF m = 14 THEN 29 ELSE 28)
  ELSE IF month \in {4, 6, 9, 11} THEN 30 ELSE 31

Start[m \in 1 .. 61] == IF m = 1 THEN 0 ELSE Start[m - 1] + Length(m - 1)

MCFirstDay == [m \in 1 .. 61 |-> Start[m]]

(* Sold evenly; never; until the end of 2023 only; more and more. *)
MCProfiles ==
  {[m \in 1 .. 60 |-> 1], [m \in 1 .. 60 |-> 0],
   [m \in 1 .. 60 |-> IF m <= 12 THEN 2 ELSE 0], [m \in 1 .. 60 |-> m]}

(* The first and the last safe day of March and February, the ends of       *)
(* January, the day after, and a day in the middle of a leap year.          *)
MCFirstDays ==
  {MCFirstDay[27] + 2, MCFirstDay[26] + 23, MCFirstDay[25], MCFirstDay[26] - 1,
   MCFirstDay[27], MCFirstDay[23] + 14}

(* The calendar itself, every day of four years: on a safe day the entries  *)
(* fall into as many months, one after the other.                           *)
ASSUME CalendarIsSafe ==
  \A d \in MCFirstDay[13] .. LastDay : IsSafe(d) =>
    \A i \in 0 .. Entries - 1 : MonthOf[d - 30 * i] = MonthOf[d] - i

MCAges == {0, 340}
MCPartial == {3}
MCWaits == {1, 31, 366}
================================================================================
