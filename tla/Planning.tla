-------------------------------- MODULE Planning --------------------------------
(***************************************************************************)
(* The formulas of PlanningCalculator.  Quantities are integers counting   *)
(* thirtieths of a unit, which makes velocity / 30 exact: a velocity of v  *)
(* units a month sells v thirtieths a day.                                 *)
(***************************************************************************)
EXTENDS Integers

(* _clamp_non_negative, and the max(0, ...) of the formulas. *)
AtLeastZero(x) == IF x < 0 THEN 0 ELSE x

(* Planning Target; days is period + security + lead time. *)
PlanningTarget(velocity, days) == AtLeastZero(velocity) * days

(* Punto de Pedido: lead time in days, added as a number of units. *)
ReorderPoint(target, lead) == target + 30 * lead

(* mutant of OrderQuantity: what is on its way is ordered again. *)
OrderQuantityAgain(target, available, transit) == AtLeastZero(target - available)

(* Cantidad de Pedido. *)
OrderQuantity(target, available, transit) == AtLeastZero(target - available - transit)

ExcessStock(current, point) == AtLeastZero(current - point)

(* calculate_for_part, from the figures it looks up. *)
Plan(velocity, cover, lead, available, transit) ==
  LET target == PlanningTarget(velocity, cover + lead)
      point == ReorderPoint(target, lead)
      onHand == AtLeastZero(available)
      coming == AtLeastZero(transit)
  IN [order |-> OrderQuantity(target, onHand, coming),
      excess |-> ExcessStock(onHand + coming, point),
      triggered |-> onHand <= point]

(* The generator's test: triggered, and something to order. *)
IsShort(plan) == plan.triggered /\ plan.order > 0
================================================================================
