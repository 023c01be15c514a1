----------------------- MODULE RecommendationsRefinement -----------------------
(***************************************************************************)
(* The recommendation table, written only by creation and by decisions,    *)
(* implements the alert board: a pending row is the alert its place shows. *)
(***************************************************************************)
EXTENDS Recommendations

Slots == Branches \X Parts

ASSUME NoRecIsNoSlot == NoRec \notin Slots

SlotOf(rec) == <<rec.branch, rec.part>>

ShownAt(s) ==
  {r \in RecIds : Stored(r) /\ recs[r].state = "pending" /\ SlotOf(recs[r]) = s}

Shown == [s \in Slots |-> IF ShownAt(s) = {} THEN NoRec ELSE CHOOSE r \in ShownAt(s) : TRUE]

Outcome == [r \in RecIds |-> IF Stored(r) /\ recs[r].state # "pending"
                             THEN recs[r].state ELSE "open"]

Home == [r \in RecIds |-> IF Stored(r) THEN SlotOf(recs[r]) ELSE NoRec]

Board == INSTANCE AlertBoard WITH
  Places <- Slots, Alerts <- RecIds, Nobody <- NoRec,
  shown <- Shown, outcome <- Outcome, home <- Home

(* Creation and decisions keep the promise of the alert board: one alert   *)
(* per place, each settled along the allowed outcomes, ordered ones final, *)
(* also when callers decide on instances they loaded long ago.             *)
BoardImplemented == Board!BoardSpec
================================================================================
