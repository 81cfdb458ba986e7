----------------------------- MODULE StoreFind -----------------------------
(***************************************************************************)
(* store_find() of daemon/store.c: the binary search that every lookup,    *)
(* insertion and deletion of the store begins with, one step per turn of   *)
(* its loop.  The index is the sequence of the keys of its records, with   *)
(* the C subscript i at position i.                                        *)
(***************************************************************************)
EXTENDS Integers

CONSTANTS
  Keys,   \* keys, as integers in strcmp order
  MaxN    \* bound on the number of index entries

ASSUME StoreFindAssumption == Keys \subseteq Int /\ MaxN \in Nat

VARIABLES
  count,  \* store->n
  list,   \* list[i] is the key of store->index[i]
  key,    \* the key looked for
  a, b, m,
  at      \* "loop", "tail" (behind the loop) or "done"

find_vars == <<count, list, key, a, b, m, at>>

\* The index is kept in strict key order (Store!IndexMatchesFile).
FindInit ==
  /\ count \in 0 .. MaxN
  /\ list \in [0 .. count - 1 -> Keys]
  /\ \A i, j \in 0 .. count - 1 : i < j => list[i] < list[j]
  /\ key \in Keys
  /\ a = 0 /\ b = count /\ m = 0
  /\ at = "loop"

\* Mutant: the slot above the probed one is skipped too.
LoopSkips ==
  /\ at = "loop"
  /\ m' = (a + b) \div 2
  /\ \/ /\ m' > a
        /\ key # list[m']
        /\ IF key < list[m'] THEN b' = m' /\ a' = a ELSE a' = m' + 2 /\ b' = b
        /\ UNCHANGED at
     \/ /\ m' > a => key = list[m']
        /\ at' = "tail"
        /\ UNCHANGED <<a, b>>
  /\ UNCHANGED <<count, list, key>>

\* Mutant: the upper end of the bracket stays where it was.
LoopSpins ==
  /\ at = "loop"
  /\ m' = (a + b) \div 2
  /\ \/ /\ m' > a
        /\ key # list[m']
        /\ b' = b
        /\ a' = IF key < list[m'] THEN a ELSE m' + 1
        /\ UNCHANGED at
     \/ /\ m' > a => key = list[m']
        /\ at' = "tail"
        /\ UNCHANGED <<a, b>>
  /\ UNCHANGED <<count, list, key>>

\* One test of the loop condition, and the turn of the loop behind it.
Loop ==
  /\ at = "loop"
  /\ m' = (a + b) \div 2
  /\ \/ /\ m' > a
        /\ key # list[m']
        /\ IF key < list[m'] THEN b' = m' /\ a' = a ELSE a' = m' + 1 /\ b' = b
        /\ UNCHANGED at
     \/ /\ m' > a => key = list[m']
        /\ at' = "tail"
        /\ UNCHANGED <<a, b>>
  /\ UNCHANGED <<count, list, key>>

\* Mutant: takes the slot the loop stopped at.
CompareNone ==
  /\ at = "tail"
  /\ m' = m
  /\ at' = "done"
  /\ UNCHANGED <<count, list, key, a, b>>

\* The comparison behind the loop.
Compare ==
  /\ at = "tail"
  /\ m' = IF m < b /\ key > list[m] THEN m + 1 ELSE m
  /\ at' = "done"
  /\ UNCHANGED <<count, list, key, a, b>>

FindNext == Loop \/ Compare

FindSpec == FindInit /\ [][FindNext]_find_vars

-----------------------------------------------------------------------------
(* Properties. *)

\* Subscripts stay in the index, and every slot is a key.
FindTypeOK ==
  /\ count \in Nat
  /\ list \in [0 .. count - 1 -> Keys]
  /\ key \in Keys
  /\ a \in 0 .. count /\ b \in 0 .. count /\ m \in 0 .. count
  /\ at \in {"loop", "tail", "done"}

\* The bracket of the search: everything below a is smaller than the key, and
\* everything from b on is larger, so the slot is never searched for outside.
Bracket ==
  /\ a <= b
  /\ \A i \in 0 .. count - 1 : /\ i < a => list[i] < key
                               /\ i >= b => list[i] > key

\* The comment of store_find: its result is "one more than the largest index
\* that has a key lexicographically smaller than 'key'": the slot of the key,
\* or the one where it is to be inserted.
Found ==
  at = "done" =>
    \A i \in 0 .. count - 1 : list[i] < key <=> i < m

\* store_eq on the slot found tells whether the key is in the index at all.
EqDecides ==
  at = "done" =>
    ((m < count /\ list[m] = key) <=> \E i \in 0 .. count - 1 : list[i] = key)

\* Each turn of the loop at least halves the bracket: a lookup in an index of
\* count entries takes about log2(count) comparisons, and the loop cannot spin.
Halves == [][at' = "loop" => 2 * (b' - a') <= b - a]_find_vars
=============================================================================
