------------------------------ MODULE MCMatch ------------------------------
(***************************************************************************)
(* The pattern language of PROTOCOL as a definition by recursion on the    *)
(* pattern, to compare with the single walk of do_match, and patterns and  *)
(* strings for TLC.                                                        *)
(***************************************************************************)
EXTENDS Match, FiniteSets, SequencesExt

-----------------------------------------------------------------------------
(* The pattern language. *)

\* The i-th smallest of a set of numbers.
Nth(S, i) == CHOOSE x \in S : Cardinality({y \in S : y <= x}) = i

\* The parts of s between the places in cuts.
Cut(s, cuts, skip) ==
  [i \in 1 .. Cardinality(cuts) - 1 |-> SubSeq(s, Nth(cuts, i) + skip, Nth(cuts, i + 1) - 1)]

\* Where the characters of a byte string begin.
Starts(b) == {i \in DOMAIN b : b[i] \notin Cont}

\* The characters of a byte string, each the sequence of its bytes.
Chars(b) == Cut(b, Starts(b) \cup {Len(b) + 1}, 0)

\* The elements of a pattern: metachars, and characters that stand for
\* themselves; a backslash makes one of the character after it.
RECURSIVE Elements(_)
Elements(q) ==
  IF q = <<>> THEN <<>>
  ELSE IF q[1] # <<"\\">> THEN
         <<[meta |-> q[1] \in {<<m>> : m \in Meta}, char |-> q[1]]>> \o Elements(Tail(q))
  ELSE IF Len(q) = 1 THEN <<[meta |-> TRUE, char |-> q[1]]>>
  ELSE <<[meta |-> FALSE, char |-> q[2]]>> \o Elements(SubSeq(q, 3, Len(q)))

Is(e, m) == e.meta /\ e.char = <<m>>

\* How many groups are open after the first i elements.
Depth(es, i) ==
  Cardinality({j \in 1 .. i : Is(es[j], "(")}) - Cardinality({j \in 1 .. i : Is(es[j], ")")})

\* The patterns that PROTOCOL allows.
Valid(es) ==
  /\ \A i \in DOMAIN es :
       /\ Depth(es, i) \in 0 .. MAX_PAREN
       /\ Is(es[i], "|") => Depth(es, i) > 0
       /\ ~Is(es[i], "\\")
       /\ Is(es[i], "*") /\ i < Len(es) => ~Is(es[i + 1], "*") /\ ~Is(es[i + 1], "(")
  /\ Depth(es, Len(es)) = 0

From(s, i) == SubSeq(s, i, Len(s))
First(S) == CHOOSE i \in S : \A j \in S : i <= j

\* The branches of a group's content.
Branches(es) ==
  LET bars == {i \in DOMAIN es : Is(es[i], "|") /\ Depth(es, i) = 0}
  IN  Cut(es, {0, Len(es) + 1} \cup bars, 1)

\* What es leaves of the characters s: one sequence, or none if es fails.
RECURSIVE Rest(_, _)
Rest(es, s) ==
  IF es = <<>> THEN {s}
  ELSE IF Is(es[1], "(") THEN
    LET close == First({i \in DOMAIN es : Depth(es, i) = 0})
        bs == Branches(SubSeq(es, 2, close - 1))
        match == {i \in DOMAIN bs : Rest(bs[i], s) # {}}
    IN  IF match = {} THEN {}
        ELSE UNION {Rest(From(es, close + 1), r) : r \in Rest(bs[First(match)], s)}
  ELSE IF Is(es[1], "*") THEN
    IF Len(es) = 1 THEN {<<>>}
    ELSE IF Is(es[2], "?") THEN Rest(Tail(es), s)
    ELSE LET found == {i \in DOMAIN s : s[i] = es[2].char}
         IN  IF found = {} THEN {} ELSE Rest(From(es, 3), From(s, First(found) + 1))
  ELSE IF s # <<>> /\ (Is(es[1], "?") \/ s[1] = es[1].char) THEN Rest(Tail(es), Tail(s))
  ELSE {}

\* Where do_match differs: '*' before an escaped character looks for the
\* backslash.
StarEscape(b) == \E i \in 1 .. Len(b) - 1 : b[i] = "*" /\ b[i + 1] = "\\"

Matches(b, s) == Rest(Elements(Chars(b)), Chars(s)) = {<<>>}
IsPattern(b) == Valid(Elements(Chars(b)))

-----------------------------------------------------------------------------
(* Properties. *)

\* match_isvalid accepts exactly the patterns of the language.  match of a valid
\* pattern is 1 if the pattern matches the whole string and else 0, never the -1
\* that a caller would take for a match.  match of an invalid pattern is not 1; it
\* may be -1, where match.h:8 says 0.
Decides ==
  pc = "done" =>
    IF CHECK THEN result = IF IsPattern(pattern) THEN 1 ELSE -1
    ELSE IF IsPattern(pattern)
    THEN /\ result \in {0, 1}
         /\ ~StarEscape(pattern) => (result = 1 <=> Matches(pattern, string))
    ELSE result # 1

-----------------------------------------------------------------------------
(* Instances: two characters of two bytes that begin alike, and two of one. *)

Upto(S, k) == UNION {[1 .. i -> S] : i \in 0 .. k}

Bytes(q) == FlattenSeq(q)

Letters == {<<"a">>, <<"L", "c">>, <<"L", "d">>}

Strings(k) == {Bytes(q) : q \in Upto(Letters, k)}

\* Every pattern of up to four characters.
Short == {Bytes(q) : q \in Upto({<<"a">>, <<"L", "c">>} \cup {<<m>> : m \in Meta}, 4)}

Group(x, y) == <<"(">> \o x \o <<"|">> \o y \o <<")">>

Branch0 == {<<>>, <<"a">>, <<"L", "c">>, <<"*">>, <<"*", "L", "c">>, <<"?">>, <<"\\", "a">>}
Branch1 == Branch0 \cup {x \o Group(y, <<"a">>) \o z :
                           x \in {<<>>, <<"a">>}, y \in {<<"L", "c">>, <<"*">>},
                           z \in {<<>>, <<"a">>, <<"*">>}}

\* Groups within groups, and one level more than there is room for.
Groups ==
  {Group(x, y) \o z : x \in Branch1, y \in Branch1, z \in {<<>>, <<"a">>, <<"?">>}}
    \cup {Group(<<"a">>, Group(x, <<"L", "d">>)) : x \in Branch1}

ShortAndGroups == (Short \X Strings(2)) \cup (Groups \X Strings(3))

=============================================================================
