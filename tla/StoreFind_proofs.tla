-------------------------- MODULE StoreFind_proofs -------------------------
(***************************************************************************)
(* Proofs that the binary search of store_find() is correct for an index   *)
(* of any length over any set of keys.                                     *)
(***************************************************************************)
EXTENDS StoreFind, TLAPS

\* The midpoint that the loop condition computes lies in the bracket, strictly
\* below its end unless the bracket is empty.
LEMMA Midpoint ==
  ASSUME NEW x \in Nat, NEW y \in Nat, x <= y
  PROVE  LET mid == (x + y) \div 2
         IN  /\ mid \in Nat
             /\ x <= mid /\ mid <= y
             /\ x < y => mid < y
             /\ 2 * (mid - x) <= y - x
             /\ 2 * (y - (mid + 1)) <= y - x
             /\ ~(mid > x) => y <= x + 1 /\ mid = x
  OBVIOUS

\* The keys of the index are in strict order; no step of the search moves them.
Sorted == \A i, j \in 0 .. count - 1 : i < j => list[i] < list[j]

\* What the loop leaves behind it: m is in the bracket, and either slot m holds
\* the key or the bracket is so small that m is its lower end.
Stopped ==
  at = "tail" =>
    \/ m < b /\ list[m] = key
    \/ m = a /\ b <= a + 1

\* The inductive invariant.
IInv == FindTypeOK /\ Sorted /\ Bracket /\ Stopped /\ Found

\* The search starts in a state of the inductive invariant.
LEMMA InitIInv == FindInit => IInv
  BY StoreFindAssumption DEF FindInit, IInv, FindTypeOK, Sorted, Bracket, Stopped, Found

\* A turn of the loop preserves the inductive invariant.
LEMMA LoopIInv == IInv /\ Loop => IInv'
<1> SUFFICES ASSUME IInv, Loop PROVE IInv'
  OBVIOUS
<1> USE StoreFindAssumption
<1>1. count \in Nat /\ a \in 0 .. count /\ b \in 0 .. count /\ key \in Int /\ a <= b
  BY DEF IInv, FindTypeOK, Bracket
<1>2. \A i \in 0 .. count - 1 : list[i] \in Int
  BY DEF IInv, FindTypeOK
<1>3. PICK mid \in Nat : /\ m' = mid
                         /\ a <= mid /\ mid <= b
                         /\ a < b => mid < b
                         /\ ~(mid > a) => b <= a + 1 /\ mid = a
  BY <1>1, Midpoint DEF Loop
<1>4. CASE mid > a /\ key # list[mid]
  <2>1. mid \in 0 .. count - 1 /\ mid < b
    BY <1>1, <1>3, <1>4
  <2>2. at' = "loop" /\ count' = count /\ list' = list /\ key' = key
    BY <1>3, <1>4 DEF Loop
  <2>3. CASE key < list[mid]
    <3>1. a' = a /\ b' = mid
      BY <1>3, <1>4, <2>3 DEF Loop
    <3>2. FindTypeOK' /\ a' <= b'
      BY <1>1, <1>3, <2>1, <2>2, <3>1 DEF IInv, FindTypeOK
    <3>3. ASSUME NEW i \in 0 .. count - 1 PROVE i >= mid => list[i] > key
      BY <1>1, <1>2, <2>1, <2>3 DEF IInv, Sorted
    <3> QED
      BY <2>2, <3>1, <3>2, <3>3 DEF IInv, Sorted, Bracket, Stopped, Found
  <2>4. CASE ~(key < list[mid])
    <3>1. a' = mid + 1 /\ b' = b
      BY <1>3, <1>4, <2>4 DEF Loop
    <3>2. FindTypeOK' /\ a' <= b'
      BY <1>1, <1>3, <2>1, <2>2, <3>1 DEF IInv, FindTypeOK
    <3>3. ASSUME NEW i \in 0 .. count - 1 PROVE i < mid + 1 => list[i] < key
      BY <1>1, <1>2, <1>4, <2>1, <2>4 DEF IInv, Sorted
    <3> QED
      BY <2>2, <3>1, <3>2, <3>3 DEF IInv, Sorted, Bracket, Stopped, Found
  <2> QED BY <2>3, <2>4
<1>5. CASE ~(mid > a /\ key # list[mid])
  <2>1. at' = "tail" /\ UNCHANGED <<count, list, key, a, b>>
    BY <1>3, <1>5 DEF Loop
  <2>2. FindTypeOK' /\ Sorted' /\ Bracket' /\ Found'
    BY <1>1, <1>3, <2>1 DEF IInv, FindTypeOK, Sorted, Bracket, Found
  <2>3. Stopped'
    BY <1>1, <1>3, <1>5, <2>1 DEF Stopped
  <2> QED BY <2>2, <2>3 DEF IInv
<1> QED BY <1>4, <1>5

\* The comparison behind the loop turns what the loop left into the result.
LEMMA CompareIInv == IInv /\ Compare => IInv'
<1> SUFFICES ASSUME IInv, Compare PROVE IInv'
  OBVIOUS
<1> USE StoreFindAssumption
<1>1. at = "tail" /\ at' = "done" /\ UNCHANGED <<count, list, key, a, b>>
  BY DEF Compare
<1>2. \A i \in 0 .. count - 1 : list[i] \in Int
  BY DEF IInv, FindTypeOK
<1>3. key \in Int /\ count \in Nat /\ a \in 0 .. count /\ b \in 0 .. count /\ m \in 0 .. count
  BY DEF IInv, FindTypeOK
<1>4. m' = IF m < b /\ key > list[m] THEN m + 1 ELSE m
  BY DEF Compare
<1>5. FindTypeOK'
  BY <1>1, <1>3, <1>4 DEF IInv, FindTypeOK
<1>6. CASE m < b /\ list[m] = key
  <2>1. m' = m
    BY <1>2, <1>3, <1>4, <1>6
  <2>2. \A i \in 0 .. count - 1 : list[i] < key <=> i < m
    BY <1>2, <1>3, <1>6 DEF IInv, Sorted
  <2> QED BY <1>1, <1>5, <2>1, <2>2 DEF IInv, Sorted, Bracket, Stopped, Found
<1>7. CASE m = a /\ b <= a + 1
  <2>1. \A i \in 0 .. count - 1 : /\ i < a => list[i] < key
                                  /\ i >= b => list[i] > key
    BY DEF IInv, Bracket
  <2>2. \A i \in 0 .. count - 1 : list[i] < key <=> i < m'
    BY <1>2, <1>3, <1>4, <1>7, <2>1 DEF IInv, Bracket
  <2> QED BY <1>1, <1>5, <2>2 DEF IInv, Sorted, Bracket, Stopped, Found
<1> QED BY <1>1, <1>6, <1>7 DEF IInv, Stopped

\* Every step of store_find preserves the inductive invariant.
LEMMA NextIInv == IInv /\ [FindNext]_find_vars => IInv'
<1>1. IInv /\ UNCHANGED find_vars => IInv'
  BY DEF IInv, FindTypeOK, Sorted, Bracket, Stopped, Found, find_vars
<1> QED BY <1>1, LoopIInv, CompareIInv DEF FindNext

\* The inductive invariant holds throughout the search.
LEMMA AlwaysIInv == FindSpec => []IInv
  BY InitIInv, NextIInv, PTL DEF FindSpec

\* No subscript of store_find leaves the index, whatever its length.
THEOREM SearchTyped == FindSpec => []FindTypeOK
<1>1. IInv => FindTypeOK
  BY DEF IInv
<1> QED BY AlwaysIInv, <1>1, PTL

\* The slot searched for stays between a and b until the loop ends.
THEOREM SearchBracketed == FindSpec => []Bracket
<1>1. IInv => Bracket
  BY DEF IInv
<1> QED BY AlwaysIInv, <1>1, PTL

\* store_find returns the number of index entries that have a smaller key.
THEOREM SearchFinds == FindSpec => []Found
<1>1. IInv => Found
  BY DEF IInv
<1> QED BY AlwaysIInv, <1>1, PTL

\* store_eq on the slot that store_find returns decides whether the index has
\* the key, so that a put never inserts a key twice.
THEOREM SearchDecides == FindSpec => []EqDecides
<1>1. IInv => EqDecides
  <2> SUFFICES ASSUME IInv, at = "done"
               PROVE  (m < count /\ list[m] = key) <=> \E i \in 0 .. count - 1 : list[i] = key
    BY DEF EqDecides
  <2>1. m \in 0 .. count /\ count \in Nat /\ key \in Int /\ \A i \in 0 .. count - 1 : list[i] \in Int
    BY StoreFindAssumption DEF IInv, FindTypeOK
  <2>2. \A i \in 0 .. count - 1 : list[i] < key <=> i < m
    BY DEF IInv, Found
  <2>3. ASSUME NEW i \in 0 .. count - 1, list[i] = key PROVE m < count /\ list[m] = key
    <3>1. m <= i
      BY <2>1, <2>2, <2>3
    <3>2. m < i => list[m] < list[i] /\ ~(list[m] < key)
      BY <2>1, <2>2 DEF IInv, Sorted
    <3> QED BY <2>1, <2>3, <3>1, <3>2
  <2> QED BY <2>1, <2>3
<1> QED BY AlwaysIInv, <1>1, PTL

\* Every turn of the loop at least halves the bracket, so the number of
\* comparisons is logarithmic in the length of the index.
THEOREM SearchHalves == FindSpec => Halves
<1>1. IInv /\ [FindNext]_find_vars => [at' = "loop" => 2 * (b' - a') <= b - a]_find_vars
  <2> SUFFICES ASSUME IInv, FindNext, at' = "loop"
               PROVE  2 * (b' - a') <= b - a
    OBVIOUS
  <2>1. Loop /\ m' = (a + b) \div 2 /\ m' > a
    BY DEF FindNext, Loop, Compare
  <2>2. (a' = a /\ b' = m') \/ (a' = m' + 1 /\ b' = b)
    BY <2>1 DEF Loop
  <2>3. 2 * (m' - a) <= b - a /\ 2 * (b - (m' + 1)) <= b - a
    BY <2>1, Midpoint DEF IInv, FindTypeOK, Bracket
  <2> QED BY <2>2, <2>3
<1> QED BY AlwaysIInv, <1>1, PTL DEF FindSpec, Halves
=============================================================================
