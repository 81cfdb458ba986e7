---------------------------- MODULE Match_proofs ----------------------------
(***************************************************************************)
(* do_match stays inside its arguments and its array, for every pattern    *)
(* and string and every MAX_PAREN.                                         *)
(***************************************************************************)
EXTENDS Match, NaturalsInduction, WellFoundedInduction, SequenceTheorems, TLAPS

Text == Seq(STRING \ {NUL})

\* A group of a string whose end is at e.
Group(e) == [start : 1 .. e, failed : BOOLEAN, success : 0 .. e]

\* The inductive invariant: the bounds, with the types they rest on.
IInv ==
  /\ pattern \in Text /\ string \in Text
  /\ pc \in {"loop", "scan", "done"}
  /\ pat \in 1 .. Len(pattern) + 1
  /\ str \in 1 .. EndOfString
  /\ parens \in Seq(Group(EndOfString))
  /\ Len(parens) <= MAX_PAREN
  /\ pc = "scan" => p # NUL

-----------------------------------------------------------------------------
(* Reading. *)

\* Only the place after the end reads NUL.
LEMMA AtNUL ==
  ASSUME NEW s \in Text, NEW i \in Nat \ {0}, At(s, i) # NUL
  PROVE  i \in 1 .. Len(s)
BY DEF At, Text

\* A set of naturals that is not empty has a least element.
LEMMA Least ==
  ASSUME NEW S \in SUBSET Nat, NEW x \in S
  PROVE  \E m \in S : \A y \in S : m <= y
<1>1. PICK m \in S : \A y \in S : ~(<<y, m>> \in OpToRel(<, Nat))
  BY NatLessThanWellFounded, WFMin
<1>2. \A y \in S : ~ y < m
  BY <1>1 DEF OpToRel
<1>3. ASSUME NEW y \in S PROVE m <= y
  <2>1. m \in Nat /\ y \in Nat /\ ~ y < m
    BY <1>1, <1>2
  <2> QED  BY <2>1
<1> QED  BY <1>1, <1>3, Zenon

\* utf8inc moves on, to the NUL at the furthest: the bytes that continue a
\* character end there.
LEMMA IncInBounds ==
  ASSUME NEW i \in 1 .. Len(string), string \in Text
  PROVE  utf8inc(i) \in i + 1 .. EndOfString
<1> DEFINE S == {j \in i + 1 .. EndOfString : At(string, j) \notin Cont}
           Ends(j) == Continues(string, i + 1, j) /\ At(string, j) \notin Cont
<1>1. Len(string) \in Nat
  BY DEF Text
<1>2. EndOfString \in S
  BY <1>1, MatchAssumption DEF At, EndOfString
<1>3. PICK m \in S : \A y \in S : m <= y
  <2>1. S \in SUBSET Nat
    BY <1>1 DEF EndOfString
  <2> HIDE DEF S
  <2> QED  BY <1>2, <2>1, Least
<1>4. Ends(m)
  BY <1>1, <1>3 DEF Continues, EndOfString
<1>5. (CHOOSE j \in i + 1 .. EndOfString : Ends(j)) \in i + 1 .. EndOfString
  BY <1>3, <1>4
<1> QED  BY <1>1, <1>5 DEF utf8inc, EndOfString

-----------------------------------------------------------------------------
(* Groups. *)

\* The innermost group and the ones around it.
LEMMA InnerOuter ==
  ASSUME NEW e \in Nat, NEW q \in Seq(Group(e)), q # <<>>
  PROVE  /\ q[Len(q)] \in Group(e)
         /\ SubSeq(q, 1, Len(q) - 1) \in Seq(Group(e))
         /\ Len(SubSeq(q, 1, Len(q) - 1)) = Len(q) - 1
<1> DEFINE G == Group(e)
<1> HIDE DEF G
<1>1. q \in Seq(G)
  BY DEF G
<1>2. Len(q) \in Nat \ {0} /\ Len(q) - 1 \in Nat
  BY <1>1
<1>3. q[Len(q)] \in G
  BY <1>1, <1>2
<1>4. /\ SubSeq(q, 1, Len(q) - 1) \in Seq(G)
      /\ Len(SubSeq(q, 1, Len(q) - 1)) = Len(q) - 1
  <2> DEFINE l == Len(q) - 1
  <2>1. l \in Nat /\ \A i \in 1 .. l : q[i] \in G
    BY <1>1, <1>2
  <2> HIDE DEF l
  <2>2. SubSeq(q, 1, l) \in Seq(G) /\ Len(SubSeq(q, 1, l)) = IF 1 <= l THEN l - 1 + 1 ELSE 0
    BY <2>1, SubSeqProperties
  <2>3. Len(SubSeq(q, 1, l)) = l
    BY <2>1, <2>2
  <2> QED  BY <2>2, <2>3 DEF l
<1> QED  BY <1>3, <1>4 DEF G

\* A group may be marked as failed.
LEMMA FailedGroups ==
  ASSUME NEW e \in Nat, NEW q \in Seq(Group(e)), q # <<>>
  PROVE  Failed(q) \in Seq(Group(e)) /\ Len(Failed(q)) = Len(q)
<1> DEFINE l == Len(q)
           g == [q[l] EXCEPT !.failed = TRUE]
           G == Group(e)
<1>1. l \in Nat \ {0}
  OBVIOUS
<1>2. g \in G
  <2>1. q[l] \in Group(e)
    BY InnerOuter
  <2> QED  BY <2>1 DEF Group
<1>3. Failed(q) = [q EXCEPT ![l] = g]
  BY DEF Failed
<1> HIDE DEF g, G, l
<1>4. q \in Seq(G) /\ l = Len(q)
  BY DEF G, l
<1>5. [q EXCEPT ![l] = g] \in Seq(G) /\ Len([q EXCEPT ![l] = g]) = Len(q)
  BY <1>1, <1>2, <1>4
<1> QED  BY <1>3, <1>5 DEF G

\* A group may be opened.
LEMMA MoreGroups ==
  ASSUME NEW e \in Nat, NEW q \in Seq(Group(e)), NEW g \in Group(e)
  PROVE  Append(q, g) \in Seq(Group(e)) /\ Len(Append(q, g)) = Len(q) + 1
OBVIOUS

-----------------------------------------------------------------------------
(* A step. *)

\* do_match returns.
LEMMA ReturnKeeps ==
  ASSUME IInv, NEW r, Return(r)
  PROVE  IInv'
BY DEF Return, IInv, EndOfString, p, At

\* The loop goes on over k bytes of the pattern that are there.
LEMMA ContinueKeeps ==
  ASSUME IInv, pc = "loop",
         NEW k \in {1, 2}, pat + k \in 1 .. Len(pattern) + 1,
         NEW s \in 1 .. EndOfString,
         NEW q \in Seq(Group(EndOfString)), Len(q) <= MAX_PAREN,
         Continue(k, s, q)
  PROVE  IInv'
BY DEF Continue, IInv, EndOfString

\* A character of k bytes of the pattern does not match.
LEMMA MismatchKeeps ==
  ASSUME IInv, pc = "loop",
         NEW k \in {1, 2}, pat + k \in 1 .. Len(pattern) + 1, Mismatch(k)
  PROVE  IInv'
<1>1. CASE parens = <<>>
  BY <1>1, ReturnKeeps DEF Mismatch
<1>2. CASE parens # <<>>
  <2>1. EndOfString \in Nat /\ str \in 1 .. EndOfString
    BY DEF IInv, Text, EndOfString
  <2>2. Failed(parens) \in Seq(Group(EndOfString)) /\ Len(Failed(parens)) <= MAX_PAREN
    BY <1>2, <2>1, FailedGroups DEF IInv
  <2>3. Continue(k, str, Failed(parens))
    BY <1>2 DEF Mismatch
  <2> QED  BY <2>1, <2>2, <2>3, ContinueKeeps
<1> QED  BY <1>1, <1>2

\* A turn of the loop, by what the pattern has at pat.
LEMMA TurnKeeps ==
  ASSUME IInv, Turn
  PROVE  IInv'
<1> DEFINE e == EndOfString
<1>1. /\ pc = "loop"
      /\ pattern \in Text /\ string \in Text
      /\ pat \in 1 .. Len(pattern) + 1 /\ str \in 1 .. e
      /\ parens \in Seq(Group(e)) /\ Len(parens) <= MAX_PAREN
      /\ Len(pattern) \in Nat /\ Len(string) \in Nat /\ Len(parens) \in Nat
      /\ e \in Nat /\ e = Len(string) + 1
  BY DEF IInv, Turn, Text, EndOfString
<1>2. p # NUL => pat + 1 \in 1 .. Len(pattern) + 1
  BY <1>1, AtNUL DEF p
<1>3. n # NUL => pat + 2 \in 1 .. Len(pattern) + 1
  BY <1>1, AtNUL DEF n
<1>4. \A s \in 1 .. e : Continue(1, s, parens) /\ p # NUL => IInv'
  BY <1>1, <1>2, ContinueKeeps
<1>5. CASE StarInvalid
  BY <1>5, ReturnKeeps DEF StarInvalid
<1>6. CASE StarRest
  BY <1>1, <1>4, <1>6 DEF StarRest, NUL
<1>7. CASE StarAny
  BY <1>1, <1>4, <1>7 DEF StarAny, NUL
<1>8. CASE StarChar
  <2>1. CASE n = "\\" /\ At(pattern, pat + 2) = NUL
    BY <1>8, <2>1, ReturnKeeps DEF StarChar
  <2>2. CASE ~(n = "\\" /\ At(pattern, pat + 2) = NUL)
    <3>1. /\ pat' = pat + 1 /\ pc' \in {"loop", "scan"} /\ n # NUL /\ p # NUL
          /\ UNCHANGED <<pattern, string, str, parens>>
      BY <1>8, <2>2 DEF StarChar, NUL
    <3>2. p' = n
      BY <3>1 DEF p, n, At
    <3> QED  BY <1>1, <1>2, <3>1, <3>2 DEF IInv, EndOfString
  <2> QED  BY <2>1, <2>2
<1>9. CASE Open
  <2>1. CASE Len(parens) = MAX_PAREN
    BY <1>9, <2>1, ReturnKeeps DEF Open
  <2>2. CASE Len(parens) # MAX_PAREN
    <3> DEFINE g == [start |-> str, failed |-> FALSE, success |-> NULL]
               q == Append(parens, g)
    <3>1. g \in Group(e)
      BY <1>1 DEF Group, NULL
    <3>2. q \in Seq(Group(e)) /\ Len(q) = Len(parens) + 1
      BY <1>1, <3>1, MoreGroups
    <3>3. Continue(1, str, q) /\ p # NUL
      BY <1>9, <2>2 DEF Open, NUL
    <3> HIDE DEF q
    <3> QED  BY <1>1, <1>2, <2>2, <3>2, <3>3, MatchAssumption, ContinueKeeps
  <2> QED  BY <2>1, <2>2
<1>10. parens # <<>> =>
         /\ Inner \in Group(e) /\ SuccessHere \in 0 .. e
         /\ Outer \in Seq(Group(e)) /\ Len(Outer) = Len(parens) - 1
  <2> SUFFICES ASSUME parens # <<>>
               PROVE  /\ Inner \in Group(e) /\ SuccessHere \in 0 .. e
                      /\ Outer \in Seq(Group(e)) /\ Len(Outer) = Len(parens) - 1
    OBVIOUS
  <2>1. /\ Inner \in Group(e)
        /\ Outer \in Seq(Group(e)) /\ Len(Outer) = Len(parens) - 1
    BY <1>1, InnerOuter DEF Inner, Outer
  <2>2. SuccessHere \in 0 .. e
    BY <1>1, <2>1, SMTT(30) DEF SuccessHere, Group
  <2> QED  BY <2>1, <2>2
<1>11. CASE Bar
  <2>1. CASE parens = <<>>
    BY <1>11, <2>1, ReturnKeeps DEF Bar
  <2>2. CASE parens # <<>>
    <3> DEFINE g == [Inner EXCEPT !.success = SuccessHere, !.failed = FALSE]
               q == Append(Outer, g)
               s == IF CHECK THEN str ELSE Inner.start
    <3>1. g \in Group(e) /\ s \in 1 .. e
      BY <1>1, <1>10, <2>2 DEF Group
    <3>2. q \in Seq(Group(e)) /\ Len(q) = Len(parens)
      BY <1>1, <1>10, <2>2, <3>1, MoreGroups
    <3>3. Continue(1, s, q) /\ p # NUL
      BY <1>11, <2>2 DEF Bar, WithInner, NUL
    <3> HIDE DEF q, s
    <3> QED  BY <1>1, <1>2, <3>1, <3>2, <3>3, ContinueKeeps
  <2> QED  BY <2>1, <2>2
<1>12. CASE Close
  <2>1. CASE parens = <<>>
    BY <1>12, <2>1, ReturnKeeps DEF Close
  <2>2. CASE parens # <<>> /\ SuccessHere # NULL
    <3> DEFINE s == IF CHECK THEN str ELSE SuccessHere
    <3>1. s \in 1 .. e
      BY <1>1, <1>10, <2>2 DEF NULL
    <3>2. Continue(1, s, Outer) /\ p # NUL
      BY <1>12, <2>2 DEF Close, NUL
    <3>3. Outer \in Seq(Group(e)) /\ Len(Outer) <= MAX_PAREN
      BY <1>1, <1>10, <2>2, MatchAssumption
    <3> HIDE DEF s
    <3> QED  BY <1>1, <1>2, <3>1, <3>2, <3>3, ContinueKeeps
  <2>3. CASE parens # <<>> /\ SuccessHere = NULL /\ Outer = <<>>
    BY <1>12, <2>3, ReturnKeeps DEF Close
  <2>4. CASE parens # <<>> /\ SuccessHere = NULL /\ Outer # <<>>
    <3>1. Failed(Outer) \in Seq(Group(e)) /\ Len(Failed(Outer)) <= MAX_PAREN
      BY <1>1, <1>10, <2>4, FailedGroups, MatchAssumption
    <3>2. Continue(1, str, Failed(Outer)) /\ p # NUL
      BY <1>12, <2>4 DEF Close, NUL
    <3> QED  BY <1>1, <1>2, <3>1, <3>2, ContinueKeeps
  <2> QED  BY <2>1, <2>2, <2>3, <2>4
<1>13. CASE AnyChar
  <2>1. p # NUL
    BY <1>13 DEF AnyChar, NUL
  <2>2. CASE CHECK
    BY <1>1, <1>4, <1>13, <2>1, <2>2 DEF AnyChar
  <2>3. CASE ~CHECK /\ c # NUL
    <3>1. str \in 1 .. Len(string)
      BY <1>1, <2>3, AtNUL DEF c
    <3>2. utf8inc(str) \in 1 .. e
      BY <1>1, <3>1, IncInBounds
    <3> QED  BY <1>4, <1>13, <2>1, <2>3, <3>2 DEF AnyChar
  <2>4. CASE ~CHECK /\ c = NUL
    BY <1>1, <1>2, <1>13, <2>1, <2>4, MismatchKeeps DEF AnyChar
  <2> QED  BY <2>2, <2>3, <2>4
<1>14. CASE Char
  <2> DEFINE byte == IF p = "\\" THEN n ELSE p
             k == IF p = "\\" THEN 2 ELSE 1
  <2>1. p # NUL
    BY <1>14 DEF Char
  <2>2. CASE byte = NUL
    BY <1>14, <2>2, ReturnKeeps DEF Char
  <2>3. CASE byte # NUL
    <3>1. k \in {1, 2} /\ pat + k \in 1 .. Len(pattern) + 1
      BY <1>2, <1>3, <2>1, <2>3
    <3>2. c = byte => str + 1 \in 1 .. e
      BY <1>1, <2>3, AtNUL DEF c
    <3>3. \/ Continue(k, str, parens)
          \/ c = byte /\ Continue(k, str + 1, parens)
          \/ Mismatch(k)
      BY <1>14, <2>3 DEF Char
    <3> HIDE DEF k, byte
    <3> QED  BY <1>1, <3>1, <3>2, <3>3, ContinueKeeps, MismatchKeeps, SMTT(30)
  <2> QED  BY <2>2, <2>3
<1>15. CASE EndOfPattern
  BY <1>15, ReturnKeeps DEF EndOfPattern
<1> QED  BY <1>5, <1>6, <1>7, <1>8, <1>9, <1>11, <1>12, <1>13, <1>14, <1>15 DEF Turn

\* A turn of the inner loop of '*'.
LEMMA ScanKeeps ==
  ASSUME IInv, Scan
  PROVE  IInv'
<1>1. CASE c # NUL /\ ~utf8eq(str, pat)
  <2>1. str \in 1 .. Len(string)
    BY <1>1, AtNUL DEF c, IInv, EndOfString, Text
  <2>2. str' = utf8inc(str) /\ utf8inc(str) \in 1 .. EndOfString
    BY <1>1, <2>1, IncInBounds DEF Scan, IInv, EndOfString, Text
  <2> QED  BY <1>1, <2>2 DEF Scan, IInv, EndOfString, p, At
<1>2. CASE ~(c # NUL /\ ~utf8eq(str, pat))
  BY <1>2 DEF Scan, IInv, EndOfString
<1> QED  BY <1>1, <1>2

\* do_match begins at the start of both.
LEMMA InitBounds == Init => IInv
<1> SUFFICES ASSUME Init PROVE IInv
  OBVIOUS
<1>1. pattern \in Text /\ string \in Text
  BY MatchAssumption DEF Init, Text
<1>2. Len(pattern) \in Nat /\ Len(string) \in Nat
  BY <1>1 DEF Text
<1> QED  BY <1>1, <1>2, MatchAssumption DEF Init, IInv, EndOfString

-----------------------------------------------------------------------------
\* do_match reads nothing beyond the NUL of the pattern or of the string, and
\* opens no more groups than parens has room for, whatever pattern and string
\* it is given, valid or not.
THEOREM MatchInBounds == Spec => []InBounds
<1>1. IInv /\ [Next]_vars => IInv'
  <2> SUFFICES ASSUME IInv, [Next]_vars PROVE IInv'
    OBVIOUS
  <2>1. CASE UNCHANGED vars
    BY <2>1 DEF vars, IInv, EndOfString, p, At
  <2>2. CASE Next
    BY <2>2, TurnKeeps, ScanKeeps DEF Next
  <2> QED  BY <2>1, <2>2
<1>2. IInv => InBounds
  <2> SUFFICES ASSUME IInv PROVE InBounds
    OBVIOUS
  <2>1. \A i \in DOMAIN parens : parens[i] \in Group(EndOfString)
    BY DEF IInv
  <2>2. \A i \in DOMAIN parens :
          parens[i].start \in 1 .. EndOfString /\ parens[i].success \in 0 .. EndOfString
    BY <2>1 DEF Group
  <2> QED  BY <2>2 DEF IInv, InBounds
<1> QED  BY InitBounds, <1>1, <1>2, PTL DEF Spec

=============================================================================
