------------------------------ MODULE MCInfod ------------------------------
(* Keys, patterns and transactions for the instance of Infod that TLC checks. *)
EXTENDS Infod, TLC

CONSTANTS c1, c2, k, e, all, eph

\* Pattern "all" matches both keys, "eph" only the one that is not stored.
MatchKeys == all :> {k, e} @@ eph :> {e}

\* Writes, and a subscription, which is refused when the client has one.
Recordable ==
  {[op |-> "WRITE", key |-> k, val |-> v] : v \in Values \cup {NONE}}
    \cup {[op |-> "SUB", pat |-> all]}
=============================================================================
