------------------------------- MODULE Match -------------------------------
(***************************************************************************)
(* daemon/match.c: matching a key against a subscription's pattern.        *)
(*                                                                         *)
(* do_match walks the pattern once and never backtracks: a group keeps the *)
(* place in the string where it began, whether the branch being walked has *)
(* failed, and where the first branch that did not fail ended.  A turn of  *)
(* the loop is one step; the inner loop of '*' is another step per         *)
(* character.  With CHECK the walk only decides whether the pattern is     *)
(* valid.                                                                  *)
(*                                                                         *)
(* Pattern and string are sequences of bytes; a byte is a member of a      *)
(* small set, of which Lead begin a UTF-8 character of several bytes and   *)
(* Cont continue one.  A position one past the end reads NUL.              *)
(***************************************************************************)
EXTENDS Integers, Sequences

CONSTANTS
  Lead, Cont,  \* bytes 11xxxxxx and 10xxxxxx
  MAX_PAREN,
  Subjects     \* the pairs of a pattern and a string that are matched

Meta == {"*", "?", "(", "|", ")", "\\"}
NUL == "NUL"

ASSUME MatchAssumption ==
  /\ MAX_PAREN \in Nat \ {0}
  /\ Lead \cap Cont = {} /\ (Lead \cup Cont) \cap (Meta \cup {NUL}) = {}
  /\ \A s \in Subjects : s[1] \in Seq(STRING \ {NUL}) /\ s[2] \in Seq(STRING \ {NUL})

VARIABLES
  pattern, string,  \* what is matched
  CHECK,            \* only the pattern is checked
  pc,               \* "loop", "scan" (the inner loop of '*') or "done"
  pat, str,         \* the places reached
  parens,           \* the open groups, outermost first
  result

vars == <<pattern, string, CHECK, pc, pat, str, parens, result>>

At(s, i) == IF i \in DOMAIN s THEN s[i] ELSE NUL

\* The byte at pat, the one after it, and the byte at str.
p == At(pattern, pat)
n == At(pattern, pat + 1)
c == At(string, str)

EndOfString == Len(string) + 1

\* Whether the bytes of s from i to j - 1 all continue a character.
Continues(s, i, j) == \A k \in i .. j - 1 : At(s, k) \in Cont

\* The characters at string + i and pattern + j are equal; the loop compares
\* as far as the string's character goes.
utf8eq(i, j) ==
  /\ At(string, i) = At(pattern, j)
  /\ At(string, i) \in Lead =>
       \A k \in 1 .. Len(string) - i :
         Continues(string, i + 1, i + k + 1) => At(string, i + k) = At(pattern, j + k)

\* The place after the character at string + i.
utf8inc(i) ==
  IF At(string, i) \notin Lead THEN i + 1
  ELSE CHOOSE j \in i + 1 .. EndOfString :
         Continues(string, i + 1, j) /\ At(string, j) \notin Cont

-----------------------------------------------------------------------------
Return(r) ==
  /\ pc' = "done"
  /\ result' = r
  /\ UNCHANGED <<pattern, string, CHECK, pat, str, parens>>

\* The loop goes on, k bytes further in the pattern, with the string at s.
Continue(k, s, groups) ==
  /\ pat' = pat + k
  /\ str' = s
  /\ parens' = groups
  /\ UNCHANGED <<pattern, string, CHECK, pc, result>>

\* The group that is being walked.
Inner == parens[Len(parens)]
Outer == SubSeq(parens, 1, Len(parens) - 1)
WithInner(g) == Append(Outer, g)
Failed(groups) == [groups EXCEPT ![Len(groups)].failed = TRUE]

NULL == 0  \* no place

\* Mutant: only the last branch that did not fail counts.
SuccessHere_last == IF ~Inner.failed THEN str ELSE Inner.success

\* At '|' and ')': where the first branch that did not fail ended.
SuccessHere == IF ~Inner.failed /\ Inner.success = NULL THEN str ELSE Inner.success

\* '*' before '*' or '('.
StarInvalid ==
  /\ p = "*" /\ n \in {"*", "("}
  /\ Return(-1)

\* '*' at the end of the pattern or of a branch.
StarRest ==
  /\ p = "*" /\ n \in {NUL, "|", ")"}
  /\ Continue(1, IF CHECK THEN str ELSE EndOfString, parens)

\* '*?' is '?'.
StarAny ==
  /\ p = "*" /\ n = "?"
  /\ Continue(1, str, parens)

\* '*' before a character.
StarChar ==
  /\ p = "*" /\ n \notin {"*", "(", NUL, "|", ")", "?"}
  /\ IF n = "\\" /\ At(pattern, pat + 2) = NUL THEN Return(-1)
     ELSE /\ pat' = pat + 1
          /\ pc' = IF CHECK THEN "loop" ELSE "scan"
          /\ UNCHANGED <<pattern, string, CHECK, str, parens, result>>

\* Mutant: a group may be opened when MAX_PAREN are open.
Open_one_more ==
  /\ p = "("
  /\ IF Len(parens) > MAX_PAREN THEN Return(-1)
     ELSE Continue(1, str, Append(parens, [start |-> str, failed |-> FALSE, success |-> NULL]))

Open ==
  /\ p = "("
  /\ IF Len(parens) = MAX_PAREN THEN Return(-1)
     ELSE Continue(1, str, Append(parens, [start |-> str, failed |-> FALSE, success |-> NULL]))

Bar ==
  /\ p = "|"
  /\ IF parens = <<>> THEN Return(-1)
     ELSE Continue(1, IF CHECK THEN str ELSE Inner.start,
                   WithInner([Inner EXCEPT !.success = SuccessHere, !.failed = FALSE]))

\* The outermost group that fails ends the match; an inner one fails the
\* branch around it, and the string stays where it is.
Close ==
  /\ p = ")"
  /\ IF parens = <<>> THEN Return(-1)
     ELSE IF SuccessHere # NULL
     THEN Continue(1, IF CHECK THEN str ELSE SuccessHere, Outer)
     ELSE IF Outer = <<>> THEN Return(0)
     ELSE Continue(1, str, Failed(Outer))

\* A character does not match.
Mismatch(k) ==
  IF parens = <<>> THEN Return(0) ELSE Continue(k, str, Failed(parens))

AnyChar ==
  /\ p = "?"
  /\ IF CHECK THEN Continue(1, str, parens)
     ELSE IF c # NUL THEN Continue(1, utf8inc(str), parens)
     ELSE Mismatch(1)

\* A byte that stands for itself, or one after a backslash.
Char ==
  /\ p \notin {"*", "?", "(", "|", ")", NUL}
  /\ LET escaped == p = "\\"
         byte == IF escaped THEN n ELSE p
         k == IF escaped THEN 2 ELSE 1
     IN  IF byte = NUL THEN Return(-1)
         ELSE IF CHECK THEN Continue(k, str, parens)
         ELSE IF c = byte THEN Continue(k, str + 1, parens)
         ELSE Mismatch(k)

EndOfPattern ==
  /\ p = NUL
  /\ Return(IF parens # <<>> THEN -1
            ELSE IF CHECK \/ c = NUL THEN 1 ELSE 0)

Turn ==
  /\ pc = "loop"
  /\ \/ StarInvalid \/ StarRest \/ StarAny \/ StarChar
     \/ Open \/ Bar \/ Close
     \/ AnyChar \/ Char
     \/ EndOfPattern

\* The inner loop of '*': forward to the character at pat.
Scan ==
  /\ pc = "scan"
  /\ IF c # NUL /\ ~utf8eq(str, pat)
     THEN str' = utf8inc(str) /\ UNCHANGED pc
     ELSE pc' = "loop" /\ UNCHANGED str
  /\ UNCHANGED <<pattern, string, CHECK, pat, parens, result>>

Init ==
  /\ CHECK \in BOOLEAN
  /\ \E s \in Subjects : pattern = s[1] /\ string = IF CHECK THEN <<>> ELSE s[2]
  /\ pc = "loop"
  /\ pat = 1 /\ str = 1
  /\ parens = <<>>
  /\ result = 0

Next == Turn \/ Scan

Spec == Init /\ [][Next]_vars

-----------------------------------------------------------------------------
(* Properties. *)

\* The walk stays inside both strings, their NULs included, and inside the
\* array parens: nothing is read or written beyond them, whatever the pattern.
\* The places a group keeps are places of the string.
InBounds ==
  /\ pat \in 1 .. Len(pattern) + 1
  /\ str \in 1 .. EndOfString
  /\ Len(parens) <= MAX_PAREN
  /\ \A i \in DOMAIN parens :
       parens[i].start \in 1 .. EndOfString /\ parens[i].success \in 0 .. EndOfString
  /\ pc = "scan" => p # NUL

=============================================================================
