------------------------------ MODULE MCWalks ------------------------------
(***************************************************************************)
(* The two loops of the daemon that are modelled turn by turn, for TLC:    *)
(* the search of store_find and the walk of do_match.  The other modules   *)
(* take each for one step.  A behaviour is a call of the one or the other. *)
(***************************************************************************)
EXTENDS MCMatch, StoreFind

walk_vars == <<vars, find_vars>>

NoSearch == count = 0 /\ list = <<>> /\ key = 0 /\ a = 0 /\ b = 0 /\ m = 0 /\ at = "idle"

NoMatch ==
  /\ pattern = <<>> /\ string = <<>> /\ CHECK = FALSE
  /\ pat = 1 /\ str = 1 /\ parens = <<>> /\ result = 0
  /\ pc = "idle"

WalkInit == (Init /\ NoSearch) \/ (FindInit /\ NoMatch)

WalkNext == (Next /\ UNCHANGED find_vars) \/ (FindNext /\ UNCHANGED vars)

WalkSpec == WalkInit /\ [][WalkNext]_walk_vars
=============================================================================
