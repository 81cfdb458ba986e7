------------------------------ MODULE KVStore ------------------------------
(***************************************************************************)
(* What daemon/store.h promises of a store: a map from keys to values that *)
(* outlives the process, with the results its comments give for store_put  *)
(* and store_del.  A put that fails changes nothing.                       *)
(***************************************************************************)
EXTENDS Integers, TLC

CONSTANTS Keys, Values

VARIABLES map, last

vars == <<map, last>>

Without(k) == [j \in DOMAIN map \ {k} |-> map[j]]

Has(k, v) == k \in DOMAIN map /\ map[k] = v

Returns(op, k, r) == last' = [op |-> op, key |-> k, ret |-> r]

Put(k, v) ==
  /\ Returns("put", k, 1)
  /\ ~Has(k, v)
  /\ map' = (k :> v) @@ map

PutSame(k, v) ==
  /\ Returns("put", k, 0)
  /\ Has(k, v)
  /\ UNCHANGED map

PutFails(k) ==
  /\ Returns("put", k, -1)
  /\ UNCHANGED map

Del(k) ==
  /\ Returns("del", k, 1)
  /\ k \in DOMAIN map
  /\ map' = Without(k)

DelMissing(k) ==
  /\ Returns("del", k, 0)
  /\ k \notin DOMAIN map
  /\ UNCHANGED map

Close ==
  /\ Returns("close", 0, 0)
  /\ UNCHANGED map

Open ==
  /\ \E r \in {0, -1} : Returns("open", 0, r)
  /\ UNCHANGED map

Init ==
  /\ map = [k \in {} |-> 0]
  /\ last = [op |-> "close", key |-> 0, ret |-> 0]

Next ==
  \/ \E k \in Keys, v \in Values : Put(k, v) \/ PutSame(k, v)
  \/ \E k \in Keys : PutFails(k) \/ Del(k) \/ DelMissing(k)
  \/ Close
  \/ Open

Spec == Init /\ [][Next]_vars
=============================================================================
