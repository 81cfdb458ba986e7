------------------------------ MODULE MCStore ------------------------------
(* Sizes of values for the instances of Store that TLC checks. *)
EXTENDS Store

\* One unit and four units: four is two pages of two units.
SizeOneFour == <<6, 28>>

\* One unit and two units: the second unit is the inside of a record.
SizeOneTwo == <<6, 12>>

\* What decides the next steps.  last is looked at only in the step that sets
\* it: states that differ in it alone are explored once.
StoreView == <<store, kills>>
=============================================================================
