---------------------------- MODULE Infod_proofs ----------------------------
(***************************************************************************)
(* Proofs about Infod, for any clients, keys, patterns, limits and faults: *)
(* the types, the soundness of the lists of recorded commands, that        *)
(* subscribers are current but for values that a failing store has lost,   *)
(* and that a playback is exclusive.                                       *)
(*                                                                         *)
(* Every action changes client records in one of a few ways (Keep, Drop,   *)
(* Reply, proto_output_error, Notify).  The proof shows of each way that   *)
(* it keeps all records good if the record it is given is, and then of     *)
(* each command that it is given a good record.                            *)
(***************************************************************************)
EXTENDS Infod, SequenceTheorems, WellFoundedInduction, TLAPS

View == [Keys -> Values \cup {NONE, UNKNOWN}]

Map == [Keys -> Values \cup {NONE}]

\* A record is well formed, and its list of commands is sound.
Sound(r) ==
  /\ r \in Record
  /\ r.begins > 0 => r.tail = Len(r.bufcmds)
  /\ \A j \in DOMAIN r.bufcmds : r.bufcmds[j].op \notin {"BEGIN", "COMMIT"}

\* What view v has of key k agrees with the store d, or k is one of the lost
\* keys l.
Knows(v, k, d, l) == v[k] = d[k] \/ k \in l

\* So it is for the keys that r subscribes to.
Current(r, d, l) ==
  \A k \in Keys : Subscribed(r, k) /\ ~Missed(r) => Knows(r.view, k, d, l)

Good(r, d, l) == Sound(r) /\ Current(r, d, l)

\* The clients are good with respect to the store d and the lost keys l.
AllGood(d, l) ==
  /\ d \in Map
  /\ l \subseteq Keys
  /\ client \in [Clients -> Record]
  /\ alive \in BOOLEAN
  /\ \A c \in Clients : Good(client[c], d, l)

\* The inductive invariant, for all but the playback.
IInv == AllGood(db, lost)

-----------------------------------------------------------------------------
(* Commands and records. *)

\* The arguments of a command have their types.
LEMMA CmdArgs ==
  ASSUME NEW cmd \in Cmds
  PROVE  /\ cmd.op \in {"SUB", "UNSUB"} => cmd.pat \in Patterns
         /\ cmd.op = "READ" => cmd.key \in Keys
         /\ cmd.op = "WRITE" => /\ cmd.key \in Keys \cup Ephemeral
                                /\ cmd.val \in Values \cup {NONE}
  BY DEF Cmds

\* A client that is closed has a good record, whatever the store holds.
LEMMA ClosedGood == ASSUME NEW d, NEW l PROVE Good(Closed, d, l) /\ Closed \in Record
  BY DEF Closed, Record, Good, Sound, Current, Subscribed

\* client_new makes a good record: it has no subscription.
LEMMA NewGood == ASSUME NEW d, NEW l PROVE Good(client_new, d, l)
<1>1. /\ Closed \in Record /\ Closed.subs = <<>> /\ Closed.begins = 0
      /\ Closed.bufcmds = <<>>
  BY ClosedGood DEF Closed
<1>2. /\ client_new \in Record /\ client_new.subs = <<>>
      /\ client_new.begins = 0 /\ client_new.bufcmds = <<>>
  BY <1>1 DEF client_new, Record
<1> QED  BY <1>2 DEF Good, Sound, Current, Subscribed, Missed

\* A record whose connection is torn or shut down is good.
LEMMA TornGood ==
  ASSUME NEW r, NEW d, NEW l, Sound(r)
  PROVE  Good(Torn(r), d, l) /\ Good(Shut(r), d, l)
<1> DEFINE t == Torn(r)
           u == Shut(r)
<1>1. Closed.view \in View
  BY DEF Closed, View
<1>2. r \in Record
  BY DEF Sound
<1>3. t \in Record
  BY <1>1, <1>2 DEF Torn, View, Record
<1>4. u \in Record
  BY <1>1, <1>2 DEF Shut, View, Record
<1>5. t.torn /\ t.begins = r.begins /\ t.tail = r.tail /\ t.bufcmds = r.bufcmds
  BY <1>2 DEF Torn, Record
<1>6. u.shut /\ u.begins = r.begins /\ u.tail = r.tail /\ u.bufcmds = r.bufcmds
  BY <1>2 DEF Shut, Record
<1> HIDE DEF t, u
<1>7. Good(t, d, l)
  BY <1>3, <1>5 DEF Good, Sound, Current, Missed
<1>8. Good(u, d, l)
  BY <1>4, <1>6 DEF Good, Sound, Current, Missed
<1> QED  BY <1>7, <1>8 DEF t, u

\* What goes into a view leaves the list of commands alone.
LEMMA ViewSound ==
  ASSUME NEW r, Sound(r), NEW v \in View
  PROVE  Sound([r EXCEPT !.view = v])
  BY DEF Record, Sound, View

\* A client that has missed nothing must be told right.
LEMMA SeesGood ==
  ASSUME NEW r, Sound(r), NEW new \in View, NEW d, NEW l,
         ~Missed(r) => \A k \in Keys : Subscribed(r, k) => Knows(new, k, d, l)
  PROVE  Good(Sees(r, new), d, l)
<1> DEFINE t == Sees(r, new)
<1>1. r \in Record /\ r.view \in View
  BY DEF Sound, Record, View
<1>2. Sound(t)
  <2>1. CASE Missed(r)
    <3>1. t = [r EXCEPT !.view = r.view]
      BY <2>1 DEF Sees
    <3> QED  BY <1>1, <3>1, ViewSound
  <2>2. CASE ~Missed(r)
    <3>1. t = [r EXCEPT !.view = new]
      BY <2>2 DEF Sees
    <3> QED  BY <3>1, ViewSound
  <2> QED  BY <2>1, <2>2
<1>3. /\ t.up = r.up /\ t.subs = r.subs /\ t.shut = r.shut /\ t.torn = r.torn
      /\ ~Missed(r) => t.view = new
  BY <1>1 DEF Sees, Record
<1> HIDE DEF t
<1>4. Current(t, d, l)
  BY <1>3 DEF Current, Subscribed, Missed
<1> QED  BY <1>2, <1>4 DEF Good, t

-----------------------------------------------------------------------------
(* The ways in which records change. *)

\* A record that is good may replace the one of its client.
LEMMA KeepGood ==
  ASSUME AllGood(db', lost'), NEW c \in Clients, NEW r, Good(r, db', lost'), Keep(c, r)
  PROVE  IInv'
  BY DEF AllGood, IInv, Keep, Good, Sound

\* So may the record of a connection that on_net_close dropped.
LEMMA DropGood ==
  ASSUME AllGood(db', lost'), NEW c \in Clients, Drop(c)
  PROVE  IInv'
  BY KeepGood, ClosedGood DEF Drop

\* SIGPIPE ends the daemon, and with it every connection.
LEMMA SigPipeGood ==
  ASSUME db' \in Map, lost' \subseteq Keys, SigPipe
  PROVE  IInv'
  BY ClosedGood DEF AllGood, IInv, SigPipe

\* Only an answer that is sent whole must make the view right.
LEMMA ReplyGood ==
  ASSUME AllGood(db', lost'), NEW c \in Clients, NEW r, Sound(r),
         NEW new, Good(Sees(r, new), db', lost'), Reply(c, r, new)
  PROVE  IInv'
  BY KeepGood, DropGood, SigPipeGood, TornGood DEF Reply, AllGood

\* An answer that carries no INFO.
LEMMA AnswerGood ==
  ASSUME AllGood(db', lost'), NEW c \in Clients, NEW r, Good(r, db', lost'),
         Reply(c, r, r.view)
  PROVE  IInv'
<1>1. Sees(r, r.view) = r
  BY DEF Good, Sound, Record, Sees
<1> QED  BY <1>1, ReplyGood DEF Good

\* proto_output_error tells a client nothing about a key.
LEMMA ErrorGood ==
  ASSUME AllGood(db', lost'), NEW c \in Clients, NEW r, Good(r, db', lost'),
         NEW code, proto_output_error(c, r, code)
  PROVE  IInv'
  BY AnswerGood, DropGood, SigPipeGood DEF proto_output_error, AllGood

\* A subscriber that is sent the new value of k is good in the new store, of
\* which k is no longer lost; so is one that could not be sent to.
LEMMA InformedGood ==
  ASSUME NEW d \in Map, NEW l, NEW r, Good(r, d, l), NEW k \in Keys,
         NEW v \in Values \cup {NONE}, NEW o
  PROVE  Good(Informed(r, o, k, v), [d EXCEPT ![k] = v], l \ {k})
<1> DEFINE e == [d EXCEPT ![k] = v]
           new == [r.view EXCEPT ![k] = v]
<1>1. Sound(r) /\ r.view \in View
  BY DEF Good, Sound, Record, View
<1>2. new \in View
  BY <1>1 DEF View
<1>3. ASSUME ~Missed(r), NEW i \in Keys, Subscribed(r, i)
      PROVE  Knows(new, i, e, l \ {k})
  <2>1. Knows(r.view, i, d, l)
    BY <1>3 DEF Good, Current
  <2>2. /\ new[i] = IF i = k THEN v ELSE r.view[i]
        /\ e[i] = IF i = k THEN v ELSE d[i]
    BY <1>1 DEF View, Map
  <2> QED  BY <2>1, <2>2 DEF Knows
<1>4. Good(Sees(r, new), e, l \ {k})
  <2> HIDE DEF e, new
  <2> QED  BY <1>1, <1>2, <1>3, SeesGood
<1> QED  BY <1>1, <1>4, TornGood DEF Informed, Told

\* One that is not subscribed to k may know an old value of it.
LEMMA UninformedGood ==
  ASSUME NEW d \in Map, NEW l, NEW r, Good(r, d, l), NEW k \in Keys,
         NEW v \in Values \cup {NONE}, ~Subscribed(r, k)
  PROVE  Good(r, [d EXCEPT ![k] = v], l \ {k})
  BY DEF Good, Current, Map, Knows

\* A put that fails and loses its key leaves a record good.
LEMMA LostGood ==
  ASSUME NEW d \in Map, NEW l, NEW r, Good(r, d, l), NEW k \in Keys
  PROVE  Good(r, [d EXCEPT ![k] = NONE], l \cup {k})
  BY DEF Good, Current, Map, Knows

\* A WRITE that told the subscribers of the key leaves every client good.
LEMMA NotifyGood ==
  ASSUME AllGood(db, lost), NEW c \in Clients, NEW r, Good(r, db, lost),
         NEW k \in Keys, NEW v \in Values \cup {NONE},
         db' = [db EXCEPT ![k] = v], lost' = lost \ {k}, Notify(c, r, k, v)
  PROVE  IInv'
<1> DEFINE now == [client EXCEPT ![c] = r]
           subs == {d \in Clients : Subscribed(now[d], k)}
<1>1. db \in Map /\ db' \in Map /\ lost' \subseteq Keys
  BY DEF AllGood, Map
<1>2. CASE SigPipe
  BY <1>1, <1>2, SigPipeGood
<1>3. CASE \E o \in [subs -> Outcomes] :
             /\ client' = [d \in Clients |-> IF d \in subs
                                             THEN Informed(now[d], o[d], k, v)
                                             ELSE now[d]]
             /\ UNCHANGED alive
  <2>1. PICK o \in [subs -> Outcomes] :
          /\ client' = [d \in Clients |-> IF d \in subs
                                          THEN Informed(now[d], o[d], k, v)
                                          ELSE now[d]]
          /\ UNCHANGED alive
    BY <1>3
  <2>2. ASSUME NEW d \in Clients PROVE Good(client'[d], db', lost')
    <3>1. Good(now[d], db, lost)
      BY DEF AllGood
    <3>2. d \in subs => client'[d] = Informed(now[d], o[d], k, v)
      BY <2>1
    <3>3. d \notin subs => client'[d] = now[d] /\ ~Subscribed(now[d], k)
      BY <2>1
    <3> HIDE DEF now, subs
    <3>4. CASE d \in subs
      <4>1. Good(Informed(now[d], o[d], k, v), [db EXCEPT ![k] = v], lost \ {k})
        BY <1>1, <3>1, InformedGood
      <4> QED  BY <3>2, <3>4, <4>1
    <3>5. CASE d \notin subs
      BY <1>1, <3>1, <3>3, <3>5, UninformedGood
    <3> QED  BY <3>4, <3>5
  <2>3. \A d \in Clients : client'[d] \in Record
    BY <2>2 DEF Good, Sound
  <2>4. client' \in [Clients -> Record]
    BY <2>1, <2>3
  <2>5. alive' \in BOOLEAN
    BY <2>1 DEF AllGood
  <2> QED  BY <1>1, <2>2, <2>4, <2>5 DEF IInv, AllGood
<1> QED  BY <1>2, <1>3 DEF Notify

\* A key that is not stored is in no view.
LEMMA NotifyEphemeralGood ==
  ASSUME AllGood(db, lost), NEW c \in Clients, NEW r, Good(r, db, lost),
         NEW k, k \notin Keys, NEW v, db' = db, lost' = lost, Notify(c, r, k, v)
  PROVE  IInv'
<1> DEFINE now == [client EXCEPT ![c] = r]
           subs == {d \in Clients : Subscribed(now[d], k)}
<1>1. db' \in Map /\ lost' \subseteq Keys
  BY DEF AllGood
<1>2. CASE SigPipe
  BY <1>1, <1>2, SigPipeGood
<1>3. CASE \E o \in [subs -> Outcomes] :
             /\ client' = [d \in Clients |-> IF d \in subs
                                             THEN Informed(now[d], o[d], k, v)
                                             ELSE now[d]]
             /\ UNCHANGED alive
  <2>1. PICK o \in [subs -> Outcomes] :
          /\ client' = [d \in Clients |-> IF d \in subs
                                          THEN Informed(now[d], o[d], k, v)
                                          ELSE now[d]]
          /\ UNCHANGED alive
    BY <1>3
  <2>2. ASSUME NEW d \in Clients PROVE Good(client'[d], db', lost')
    <3>1. Good(now[d], db, lost)
      BY DEF AllGood
    <3>2. \/ client'[d] = Informed(now[d], o[d], k, v)
          \/ client'[d] = now[d]
      BY <2>1
    <3> HIDE DEF now, subs
    <3>3. \A p : Good(Informed(now[d], p, k, v), db, lost)
      BY <3>1, TornGood DEF Informed, Told, Good
    <3> QED  BY <3>1, <3>2, <3>3
  <2>3. \A d \in Clients : client'[d] \in Record
    BY <2>2 DEF Good, Sound
  <2>4. client' \in [Clients -> Record]
    BY <2>1, <2>3
  <2>5. alive' \in BOOLEAN
    BY <2>1 DEF AllGood
  <2> QED  BY <1>1, <2>2, <2>4, <2>5 DEF IInv, AllGood
<1> QED  BY <1>2, <1>3 DEF Notify

-----------------------------------------------------------------------------
(* The commands. *)

\* A set of numbers has a least one.
LEMMA SmallestOfNat ==
  ASSUME NEW S, S \subseteq Nat, S # {}
  PROVE  \E i \in S : \A k \in S : i <= k
<1>1. PICK i \in S : \A k \in S : <<k, i>> \notin OpToRel(<, Nat)
  BY WFMin, NatLessThanWellFounded
<1>2. \A k \in S : ~ k < i
  BY <1>1 DEF OpToRel
<1>3. ASSUME NEW k \in S PROVE i <= k
  <2>1. i \in Nat /\ k \in Nat /\ ~ k < i
    BY <1>1, <1>2
  <2> QED  BY <2>1
<1> QED  BY <1>1, <1>3, Zenon

\* A new subscription is told of the matching keys, and so is current for
\* these; for the other keys the client was current before.
LEMMA SubGood ==
  ASSUME NEW d \in Map, NEW l, NEW r, Good(r, d, l), NEW p \in Patterns
  PROVE  LET s == [r EXCEPT !.subs = <<p>> \o @]
             new == [k \in Keys |-> IF k \in Match[p] THEN d[k] ELSE r.view[k]]
         IN  Sound(s) /\ Good(Sees(s, new), d, l)
<1> DEFINE q == <<p>> \o r.subs
           s == [r EXCEPT !.subs = q]
           new == [k \in Keys |-> IF k \in Match[p] THEN d[k] ELSE r.view[k]]
<1>1. r \in Record /\ Sound(r)
  BY DEF Good, Sound
<1>2. /\ r.subs \in Seq(Patterns)
      /\ r.view \in View
  BY <1>1 DEF Record, View
<1>3. /\ q \in Seq(Patterns)
      /\ \A j \in DOMAIN q : q[j] = p \/ \E i \in DOMAIN r.subs : q[j] = r.subs[i]
  <2>1. q \in Seq(Patterns) /\ Len(q) = Len(r.subs) + 1
    BY <1>2
  <2>2. ASSUME NEW j \in 1 .. Len(q), j # 1
        PROVE  j - 1 \in 1 .. Len(r.subs) /\ q[j] = r.subs[j - 1]
    BY <1>2, <2>1, <2>2
  <2>3. q[1] = p
    BY <1>2
  <2>4. DOMAIN q = 1 .. Len(q) /\ DOMAIN r.subs = 1 .. Len(r.subs)
    BY <1>2, <2>1
  <2> HIDE DEF q
  <2> QED  BY <2>1, <2>2, <2>3, <2>4, SMTT(30)
<1> HIDE DEF q
<1>4. new \in View
  BY <1>2 DEF Map, View
<1>5. Sound(s)
  BY <1>1, <1>3 DEF Sound, Record
<1>6. /\ s.subs = q /\ s.up = r.up /\ s.shut = r.shut /\ s.torn = r.torn
  BY <1>1 DEF Record
<1> HIDE DEF s
<1>7. ASSUME ~Missed(s), NEW k \in Keys, Subscribed(s, k)
      PROVE  Knows(new, k, d, l)
  <2>1. k \in Match[p] \/ Subscribed(r, k)
    BY <1>3, <1>6, <1>7 DEF Subscribed
  <2>2. Subscribed(r, k) => Knows(r.view, k, d, l)
    BY <1>6, <1>7 DEF Good, Current, Missed
  <2>3. new[k] = d[k] \/ (new[k] = r.view[k] /\ Subscribed(r, k))
    BY <2>1
  <2> QED  BY <2>2, <2>3 DEF Knows
<1>8. Good(Sees(s, new), d, l)
  <2> HIDE DEF new
  <2> QED  BY <1>4, <1>5, <1>7, SeesGood
<1> QED  BY <1>5, <1>8 DEF q, s

\* A sequence without its j-th element has no other elements.
LEMMA WithoutOne ==
  ASSUME NEW S, NEW z \in Seq(S), NEW j \in 1 .. Len(z)
  PROVE  LET q == SubSeq(z, 1, j - 1) \o SubSeq(z, j + 1, Len(z))
         IN  /\ q \in Seq(S)
             /\ \A i \in DOMAIN q : \E m \in DOMAIN z : q[i] = z[m]
<1> DEFINE a == SubSeq(z, 1, j - 1)
           b == SubSeq(z, j + 1, Len(z))
           q == a \o b
<1>1. Len(z) \in Nat /\ j \in Nat /\ DOMAIN z = 1 .. Len(z)
  OBVIOUS
<1>2. /\ a \in Seq(S) /\ Len(a) = j - 1
      /\ \A i \in 1 .. j - 1 : a[i] = z[i]
  OBVIOUS
<1>3. /\ b \in Seq(S) /\ Len(b) = Len(z) - j
      /\ \A i \in 1 .. Len(z) - j : b[i] = z[i + j]
  OBVIOUS
<1> HIDE DEF a, b
<1>4. /\ q \in Seq(S) /\ Len(q) = Len(z) - 1
      /\ \A i \in 1 .. Len(a) + Len(b) :
           q[i] = IF i <= Len(a) THEN a[i] ELSE b[i - Len(a)]
  <2>1. /\ q \in Seq(S) /\ Len(q) = Len(a) + Len(b)
        /\ \A i \in 1 .. Len(a) + Len(b) :
             q[i] = IF i <= Len(a) THEN a[i] ELSE b[i - Len(a)]
    BY <1>2, <1>3, ConcatProperties, Zenon
  <2> HIDE DEF q
  <2>2. Len(q) = Len(z) - 1
    BY <1>1, <1>2, <1>3, <2>1
  <2> QED  BY <2>1, <2>2
<1> HIDE DEF q
<1>5. DOMAIN q = 1 .. Len(z) - 1 /\ Len(a) + Len(b) = Len(z) - 1
  BY <1>1, <1>2, <1>3, <1>4
<1>6. ASSUME NEW i \in DOMAIN q PROVE \E m \in DOMAIN z : q[i] = z[m]
  <2>1. i \in 1 .. Len(a) + Len(b) /\ i \in Int
    BY <1>5
  <2>2. CASE i <= j - 1
    <3>1. i \in 1 .. Len(z) /\ i \in 1 .. j - 1
      BY <1>1, <1>5, <2>1, <2>2
    <3>2. q[i] = a[i]
      BY <1>2, <1>4, <2>1, <2>2
    <3> QED  BY <1>1, <1>2, <3>1, <3>2
  <2>3. CASE ~ i <= j - 1
    <3>1. i - (j - 1) \in 1 .. Len(z) - j /\ i + 1 \in 1 .. Len(z)
      BY <1>1, <1>5, <2>1, <2>3
    <3>2. q[i] = b[i - (j - 1)]
      BY <1>2, <1>4, <2>1, <2>3
    <3>3. (i - (j - 1)) + j = i + 1
      BY <1>1, <2>1
    <3>4. b[i - (j - 1)] = z[i + 1]
      BY <1>3, <3>1, <3>3
    <3> QED  BY <1>1, <3>1, <3>2, <3>4
  <2> QED  BY <2>2, <2>3
<1> QED  BY <1>4, <1>6 DEF q, a, b

\* A subscription that is removed makes no other.
LEMMA UnsubGood ==
  ASSUME NEW d, NEW l, NEW r, Good(r, d, l), NEW j \in DOMAIN r.subs
  PROVE  Good([r EXCEPT !.subs = SubSeq(@, 1, j - 1)
                                   \o SubSeq(@, j + 1, Len(@))], d, l)
<1> DEFINE q == SubSeq(r.subs, 1, j - 1) \o SubSeq(r.subs, j + 1, Len(r.subs))
           t == [r EXCEPT !.subs = q]
<1>1. r \in Record /\ Sound(r)
  BY DEF Good, Sound
<1>2. r.subs \in Seq(Patterns) /\ j \in 1 .. Len(r.subs)
  BY <1>1 DEF Record
<1>3. /\ q \in Seq(Patterns)
      /\ \A i \in DOMAIN q : \E m \in DOMAIN r.subs : q[i] = r.subs[m]
  BY <1>2, WithoutOne
<1> HIDE DEF q
<1>4. Sound(t)
  <2>1. t \in Record
    BY <1>1, <1>3 DEF Record
  <2>2. t.begins = r.begins /\ t.tail = r.tail /\ t.bufcmds = r.bufcmds
    BY <1>1 DEF Record
  <2> HIDE DEF t
  <2> QED  BY <1>1, <2>1, <2>2 DEF Sound
<1>5. ASSUME Current(r, d, l) PROVE Current(t, d, l)
  <2> SUFFICES ASSUME NEW k \in Keys, Subscribed(t, k), ~Missed(t)
               PROVE  Knows(t.view, k, d, l)
    BY DEF Current
  <2>1. /\ t.subs = q /\ t.view = r.view
        /\ t.up = r.up /\ t.shut = r.shut /\ t.torn = r.torn
    BY <1>1 DEF Record
  <2>2. Subscribed(r, k)
    BY <1>3, <2>1 DEF Subscribed
  <2> QED  BY <1>5, <2>1, <2>2 DEF Current, Missed
<1>6. Good(t, d, l)
  BY <1>4, <1>5 DEF Good
<1> QED  BY <1>6 DEF q

\* READ answers with what the store holds.
LEMMA ReadGood ==
  ASSUME NEW d \in Map, NEW l, NEW r, Good(r, d, l), NEW k \in Keys
  PROVE  Good(Sees(r, [r.view EXCEPT ![k] = d[k]]), d, l)
<1> DEFINE v == [r.view EXCEPT ![k] = d[k]]
<1>1. Sound(r) /\ r.view \in View
  BY DEF Good, Sound, Record, View
<1>2. v \in View /\ \A i \in Keys : v[i] = d[i] \/ v[i] = r.view[i]
  BY <1>1 DEF View, Map
<1> HIDE DEF v
<1>3. ~Missed(r) => \A i \in Keys : Subscribed(r, i) => Knows(v, i, d, l)
  BY <1>2 DEF Good, Current, Knows
<1>4. Good(Sees(r, v), d, l)
  BY <1>1, <1>2, <1>3, SeesGood
<1> QED  BY <1>4 DEF v

\* A command that is performed for a client with a good record keeps all
\* records good.  A BEGIN sets the tail to 0, and so needs an empty list.
LEMMA InputGood ==
  ASSUME IInv, NEW c \in Clients, NEW r, Good(r, db, lost), NEW cmd \in Cmds,
         cmd.op = "BEGIN" => r.bufcmds = <<>>, on_app_input(c, r, cmd)
  PROVE  IInv'
<1>1. AllGood(db, lost) /\ db \in Map /\ Sound(r) /\ r \in Record
  BY DEF IInv, AllGood, Good, Sound
<1>2. ASSUME UNCHANGED <<db, lost>> PROVE AllGood(db', lost') /\ Good(r, db', lost')
  BY <1>1, <1>2
<1>3. CASE Ping(c, r, cmd)
  BY <1>2, <1>3, AnswerGood DEF Ping
<1>4. CASE Bad(c, r, cmd)
  BY <1>2, <1>4, ErrorGood DEF Bad
<1>5. CASE Sub(c, r, cmd)
  <2> DEFINE s == [r EXCEPT !.subs = <<cmd.pat>> \o @]
             new == [k \in Keys |-> IF k \in Match[cmd.pat] THEN db[k]
                                                            ELSE r.view[k]]
  <2>1. UNCHANGED <<db, lost>> /\ cmd.pat \in Patterns
    BY <1>5, CmdArgs, SMTT(30) DEF Sub
  <2>2. Sound(s) /\ Good(Sees(s, new), db, lost)
    BY <1>1, <2>1, SubGood
  <2>3. \/ \E code : proto_output_error(c, r, code)
        \/ Keep(c, Sees(s, new))
        \/ Reply(c, s, new)
    BY <1>5 DEF Sub
  <2>4. Good(Sees(s, new), db', lost')
    BY <2>1, <2>2
  <2> HIDE DEF s, new
  <2> QED  BY <1>2, <2>1, <2>2, <2>3, <2>4, ErrorGood, KeepGood, ReplyGood
<1>6. CASE Unsub(c, r, cmd)
  <2> DEFINE at == {j \in DOMAIN r.subs : r.subs[j] = cmd.pat}
             Less(j) == [r EXCEPT !.subs = SubSeq(@, 1, j - 1)
                                             \o SubSeq(@, j + 1, Len(@))]
  <2>1. UNCHANGED <<db, lost>>
    BY <1>6 DEF Unsub
  <2>2. CASE at = {}
    BY <1>2, <1>6, <2>1, <2>2, KeepGood DEF Unsub
  <2>3. CASE at # {}
    <3> DEFINE j == CHOOSE j \in at : \A k \in at : j <= k
    <3>1. Keep(c, Less(j))
      BY <1>6, <2>3 DEF Unsub
    <3>2. \E i \in at : \A k \in at : i <= k
      <4>1. at \subseteq Nat
        BY <1>1 DEF Record
      <4> HIDE DEF at
      <4> QED  BY <2>3, <4>1, SmallestOfNat
    <3>3. j \in DOMAIN r.subs
      BY <3>2
    <3>4. Good(Less(j), db', lost')
      <4> HIDE DEF j
      <4> QED  BY <1>2, <2>1, <3>3, UnsubGood
    <3> HIDE DEF Less, j
    <3> QED  BY <1>2, <2>1, <3>1, <3>4, KeepGood
  <2> QED  BY <2>2, <2>3
<1>7. CASE Read(c, r, cmd)
  <2>1. UNCHANGED <<db, lost>> /\ cmd.key \in Keys
    BY <1>7, CmdArgs DEF Read
  <2>2. Good(Sees(r, [r.view EXCEPT ![cmd.key] = db[cmd.key]]), db', lost')
    BY <1>1, <2>1, ReadGood
  <2>3. Reply(c, r, [r.view EXCEPT ![cmd.key] = db[cmd.key]])
    BY <1>7 DEF Read
  <2> QED  BY <1>1, <1>2, <2>1, <2>2, <2>3, ReplyGood
<1>8. CASE Write(c, r, cmd)
  <2>1. /\ cmd.key \in Keys /\ cmd.val \in Values \cup {NONE}
        /\ db' = [db EXCEPT ![cmd.key] = cmd.val]
        /\ lost' = IF db[cmd.key] = cmd.val THEN lost ELSE lost \ {cmd.key}
    BY <1>8, CmdArgs DEF Write
  <2>2. CASE db[cmd.key] = cmd.val
    <3>1. db' = db /\ lost' = lost
      BY <1>1, <2>1, <2>2 DEF Map
    <3> QED  BY <1>2, <1>8, <2>2, <3>1, KeepGood DEF Write
  <2>3. CASE db[cmd.key] # cmd.val
    BY <1>1, <1>8, <2>1, <2>3, NotifyGood DEF Write
  <2> QED  BY <2>2, <2>3
<1>9. CASE WriteFails(c, r, cmd)
  <2>1. /\ db' \in {db, [db EXCEPT ![cmd.key] = NONE]}
        /\ lost' = IF db' = db THEN lost ELSE lost \cup {cmd.key}
        /\ proto_output_error(c, r, "INTERNAL")
        /\ cmd.key \in Keys
    BY <1>9 DEF WriteFails
  <2>2. db' \in Map /\ lost' \subseteq Keys
    BY <1>1, <2>1 DEF Map, AllGood
  <2>3. CASE db' = db
    BY <1>2, <2>1, <2>3, ErrorGood
  <2>4. CASE db' # db
    <3>1. \A s : Good(s, db, lost) => Good(s, db', lost')
      <4>1. /\ db \in Map /\ db' = [db EXCEPT ![cmd.key] = NONE]
            /\ lost' = lost \cup {cmd.key}
        BY <1>1, <2>1, <2>4 DEF AllGood
      <4>2. \A s : Good(s, db, lost)
                    => Good(s, [db EXCEPT ![cmd.key] = NONE], lost \cup {cmd.key})
        BY <2>1, <4>1, LostGood
      <4> QED  BY <4>1, <4>2
    <3>2. AllGood(db', lost') /\ Good(r, db', lost')
      BY <1>1, <2>2, <3>1 DEF AllGood
    <3> QED  BY <2>1, <3>2, ErrorGood
  <2> QED  BY <2>3, <2>4
<1>10. CASE WriteEphemeral(c, r, cmd)
  <2>1. UNCHANGED <<db, lost>> /\ cmd.key \notin Keys
    BY <1>10, InfodAssumption DEF WriteEphemeral
  <2>2. Keep(c, r) \/ Notify(c, r, cmd.key, cmd.val)
    BY <1>10 DEF WriteEphemeral
  <2> QED  BY <1>1, <1>2, <2>1, <2>2, KeepGood, NotifyEphemeralGood
<1>11. CASE Begin(c, r, cmd)
  <2>1. UNCHANGED <<db, lost>> /\ r.bufcmds = <<>>
    BY <1>11 DEF Begin
  <2>2. Good([r EXCEPT !.tail = 0, !.begins = 1], db', lost')
    BY <1>1, <1>2, <2>1 DEF Good, Sound, Current, Subscribed, Missed, Record
  <2> QED  BY <1>2, <1>11, <2>1, <2>2, KeepGood DEF Begin
<1>12. CASE Commit(c, r, cmd)
  BY <1>2, <1>12, ErrorGood DEF Commit
<1> QED
  BY <1>3, <1>4, <1>5, <1>6, <1>7, <1>8, <1>9, <1>10, <1>11, <1>12
  DEF on_app_input

\* While the tail is at the end of the list, the depth of BEGINs may change.
LEMMA BeginsGood ==
  ASSUME NEW d, NEW l, NEW r, Good(r, d, l), r.begins > 0, NEW n \in Nat
  PROVE  Good([r EXCEPT !.begins = n], d, l)
  BY SMTT(30) DEF Good, Sound, Current, Subscribed, Missed, Record

\* A command that is recorded goes to the end of the list, and so the tail
\* stays there.  BEGIN and COMMIT are counted, and not recorded.
LEMMA RecordingGood ==
  ASSUME IInv, NEW c \in Clients, NEW cmd \in Cmds, Recording(c, cmd)
  PROVE  IInv'
<1> DEFINE r == client[c]
<1>1. /\ AllGood(db', lost') /\ Good(r, db', lost') /\ r \in Record /\ r.begins > 0
      /\ Sound(r)
  BY DEF Recording, IInv, AllGood, Good, Sound
<1>2. buffer_command(c, r, cmd)
  BY DEF Recording
<1> HIDE DEF r
<1>3. CASE cmd.op = "BEGIN"
  <2>1. Good([r EXCEPT !.begins = @ + 1], db', lost')
    <3>1. r.begins + 1 \in Nat
      BY <1>1 DEF Record
    <3> QED  BY <1>1, <3>1, BeginsGood
  <2> QED  BY <1>1, <1>2, <1>3, <2>1, KeepGood DEF buffer_command
<1>4. CASE cmd.op = "COMMIT"
  <2>1. Good([r EXCEPT !.begins = @ - 1], db', lost')
    <3>1. r.begins - 1 \in Nat
      BY <1>1 DEF Record
    <3> QED  BY <1>1, <3>1, BeginsGood
  <2> QED  BY <1>1, <1>2, <1>4, <2>1, KeepGood DEF buffer_command
<1>5. CASE cmd.op \notin {"BEGIN", "COMMIT"}
  <2> DEFINE q == Append(r.bufcmds, cmd)
             n == r.tail + 1
             t == [r EXCEPT !.bufcmds = q, !.tail = n]
  <2>1. /\ r.bufcmds \in Seq(Cmds) /\ r.tail = Len(r.bufcmds)
        /\ \A j \in 1 .. Len(r.bufcmds) : r.bufcmds[j].op \notin {"BEGIN", "COMMIT"}
    BY <1>1 DEF Record, Sound
  <2>2. /\ q \in Seq(Cmds) /\ n = Len(q) /\ n \in Nat
        /\ \A j \in DOMAIN q : q[j].op \notin {"BEGIN", "COMMIT"}
    BY <1>5, <2>1
  <2> HIDE DEF q, n
  <2>3. /\ t \in Record /\ t.bufcmds = q /\ t.tail = n
        /\ t.subs = r.subs /\ t.view = r.view
        /\ t.up = r.up /\ t.shut = r.shut /\ t.torn = r.torn
    BY <1>1, <2>2 DEF Record
  <2> HIDE DEF t
  <2>4. Good(t, db', lost')
    BY <1>1, <2>2, <2>3 DEF Good, Sound, Current, Subscribed, Missed
  <2>5. Append1(r, cmd) = t
    BY DEF Append1, t, q, n
  <2>6. Keep(c, t) \/ \E code : proto_output_error(c, r, code)
    BY <1>2, <1>5, <2>5 DEF buffer_command
  <2> QED  BY <1>1, <2>4, <2>6, KeepGood, ErrorGood
<1> QED  BY <1>3, <1>4, <1>5

\* A turn of the playback takes the head of the list, which is no BEGIN.
LEMMA PlayGood ==
  ASSUME IInv, NEW c \in Clients, Play(c)
  PROVE  IInv'
<1> DEFINE r == client[c]
           rest == Tail(r.bufcmds)
           s == [r EXCEPT !.bufcmds = rest]
           cmd == Head(r.bufcmds)
<1>1. /\ Good(r, db, lost) /\ r \in Record /\ Sound(r)
      /\ r.begins = 0 /\ r.bufcmds # <<>>
  BY DEF Play, Playing, IInv, AllGood, Good, Sound
<1>2. on_app_input(c, s, cmd)
  BY DEF Play
<1> HIDE DEF r
<1>3. r.bufcmds \in Seq(Cmds)
  BY <1>1 DEF Record
<1>4. /\ rest \in Seq(Cmds) /\ cmd \in Cmds /\ cmd = r.bufcmds[1]
      /\ Len(rest) = Len(r.bufcmds) - 1 /\ 1 \in DOMAIN r.bufcmds
      /\ \A j \in DOMAIN rest : j + 1 \in DOMAIN r.bufcmds /\ rest[j] = r.bufcmds[j + 1]
  BY <1>1, <1>3
<1>5. cmd.op # "BEGIN"
  BY <1>1, <1>4 DEF Sound
<1>6. \A j \in DOMAIN rest : rest[j].op \notin {"BEGIN", "COMMIT"}
  BY <1>1, <1>4 DEF Sound
<1> HIDE DEF rest, cmd
<1>7. /\ s \in Record /\ s.bufcmds = rest /\ s.begins = 0
      /\ s.subs = r.subs /\ s.view = r.view
      /\ s.up = r.up /\ s.shut = r.shut /\ s.torn = r.torn
  <2>1. s \in Record
    BY <1>1, <1>4 DEF Record
  <2> QED  BY <1>1, <2>1 DEF Record
<1> HIDE DEF s
<1>8. Good(s, db, lost)
  BY <1>1, <1>6, <1>7 DEF Good, Sound, Current, Subscribed, Missed
<1> QED  BY <1>2, <1>4, <1>5, <1>8, InputGood

\* A message that is performed at once comes when no playback is under way,
\* so that nothing is recorded for its client.
LEMMA ReceiveGood ==
  ASSUME IInv, NEW c \in Clients, NEW cmd \in Cmds, Receive(c, cmd)
  PROVE  IInv'
<1>1. CASE Recording(c, cmd)
  BY <1>1, RecordingGood
<1>2. CASE Performing(c, cmd)
  <2>1. client[c].bufcmds = <<>>
    BY <1>2 DEF Receive, Performing, Playing
  <2>2. Good(client[c], db, lost)
    BY DEF IInv, AllGood
  <2> QED  BY <1>2, <2>1, <2>2, InputGood DEF Performing
<1> QED  BY <1>1, <1>2 DEF Receive

-----------------------------------------------------------------------------
(* The playback. *)

\* What a step makes of a transaction that it does not end: nothing, unless it
\* closes the connection.
Kept(s, r) == s = Closed \/ (s.begins = r.begins /\ s.bufcmds = r.bufcmds)

\* So it is for all clients, of which c had the record r.
AllKept(c, r) ==
  \A d \in Clients : Kept(client'[d], IF d = c THEN r ELSE client[d])

LEMMA KeepKept ==
  ASSUME client \in [Clients -> Record], NEW c \in Clients, NEW r, NEW s,
         Keep(c, s), Kept(s, r)
  PROVE  AllKept(c, r)
  BY DEF Keep, AllKept, Kept

LEMMA SigPipeKept ==
  ASSUME SigPipe, NEW c \in Clients, NEW r
  PROVE  AllKept(c, r) /\ client'[c] = Closed
  BY DEF SigPipe, AllKept, Kept

\* Nothing that is sent changes a transaction.
LEMMA SentKept ==
  ASSUME NEW r \in Record, NEW new
  PROVE  Kept(Sees(r, new), r) /\ Kept(Torn(r), r) /\ Kept(Shut(r), r) /\ Kept(r, r)
<1>1. Kept(Sees(r, new), r)
  BY DEF Kept, Sees, Record
<1>2. Kept(Torn(r), r)
  BY DEF Kept, Torn, Record
<1>3. Kept(Shut(r), r)
  BY DEF Kept, Shut, Record
<1>4. Kept(r, r)
  BY DEF Kept
<1> QED  BY <1>1, <1>2, <1>3, <1>4

LEMMA ReplyKept ==
  ASSUME client \in [Clients -> Record], NEW c \in Clients, NEW r \in Record, NEW new,
         Reply(c, r, new)
  PROVE  AllKept(c, r)
<1>1. CASE Keep(c, Sees(r, new)) \/ Keep(c, Torn(r))
  BY <1>1, KeepKept, SentKept
<1>2. CASE Drop(c)
  BY <1>2, KeepKept DEF Drop, Kept
<1>3. CASE SigPipe
  BY <1>3, SigPipeKept
<1> QED  BY <1>1, <1>2, <1>3 DEF Reply

\* proto_output_error; an internal error always closes the connection.
LEMMA ErrorKept ==
  ASSUME client \in [Clients -> Record], NEW c \in Clients, NEW r \in Record,
         NEW code, proto_output_error(c, r, code)
  PROVE  AllKept(c, r) /\ (code = "INTERNAL" => client'[c] = Closed)
<1>1. CASE Reply(c, r, r.view) /\ code # "INTERNAL"
  BY <1>1, ReplyKept
<1>2. CASE Drop(c)
  BY <1>2, KeepKept DEF Drop, Kept, Keep
<1>3. CASE SigPipe
  BY <1>3, SigPipeKept
<1> QED  BY <1>1, <1>2, <1>3 DEF proto_output_error

LEMMA NotifyKept ==
  ASSUME client \in [Clients -> Record], NEW c \in Clients, NEW r \in Record,
         NEW k, NEW v, Notify(c, r, k, v)
  PROVE  AllKept(c, r)
<1> DEFINE now == [client EXCEPT ![c] = r]
           subs == {d \in Clients : Subscribed(now[d], k)}
<1>1. CASE SigPipe
  BY <1>1, SigPipeKept
<1>2. ASSUME NEW o \in [subs -> Outcomes],
             client' = [d \in Clients |-> IF d \in subs
                                           THEN Informed(now[d], o[d], k, v)
                                           ELSE now[d]]
      PROVE  AllKept(c, r)
  <2> SUFFICES ASSUME NEW d \in Clients
               PROVE  Kept(client'[d], IF d = c THEN r ELSE client[d])
    BY DEF AllKept
  <2>1. now[d] \in Record /\ now[d] = IF d = c THEN r ELSE client[d]
    OBVIOUS
  <2>2. client'[d] = now[d] \/ client'[d] = Informed(now[d], o[d], k, v)
    BY <1>2
  <2> HIDE DEF now, subs
  <2>3. Kept(now[d], now[d]) /\ Kept(Informed(now[d], o[d], k, v), now[d])
    BY <2>1, SentKept DEF Informed, Told
  <2> QED  BY <2>1, <2>2, <2>3
<1> QED  BY <1>1, <1>2 DEF Notify

\* What cmd, performed for c, does to key k of the store.
Effect(c, cmd, k) ==
  IF cmd.op = "WRITE" /\ cmd.key = k
  THEN db'[k] = cmd.val \/ client'[c] = Closed
  ELSE db'[k] = db[k]

\* A command other than BEGIN changes no transaction, and of the store what it
\* is meant to; when it fails it closes the connection.
LEMMA InputKept ==
  ASSUME IInv, NEW c \in Clients, NEW r \in Record, NEW cmd \in Cmds,
         cmd.op # "BEGIN", on_app_input(c, r, cmd)
  PROVE  AllKept(c, r) /\ \A k \in Keys : Effect(c, cmd, k)
<1>1. client \in [Clients -> Record] /\ db \in Map
  BY DEF IInv, AllGood
<1>2. ASSUME db' = db, cmd.op = "WRITE" => cmd.key \notin Keys
      PROVE  \A k \in Keys : Effect(c, cmd, k)
  BY <1>2 DEF Effect
<1>3. CASE Ping(c, r, cmd)
  BY <1>1, <1>2, <1>3, ReplyKept DEF Ping
<1>4. CASE Bad(c, r, cmd)
  BY <1>1, <1>2, <1>4, ErrorKept DEF Bad
<1>5. CASE Sub(c, r, cmd)
  <2> DEFINE s == [r EXCEPT !.subs = <<cmd.pat>> \o @]
             new == [k \in Keys |-> IF k \in Match[cmd.pat] THEN db[k]
                                                            ELSE r.view[k]]
  <2>1. db' = db /\ cmd.op = "SUB" /\ cmd.pat \in Patterns
    BY <1>5, CmdArgs DEF Sub
  <2>2. \/ \E code : proto_output_error(c, r, code)
        \/ Keep(c, Sees(s, new))
        \/ Reply(c, s, new)
    BY <1>5 DEF Sub
  <2>3. <<cmd.pat>> \o r.subs \in Seq(Patterns)
    BY <2>1 DEF Record
  <2>4. s \in Record /\ s.begins = r.begins /\ s.bufcmds = r.bufcmds
    BY <2>3 DEF Record
  <2> HIDE DEF s, new
  <2>5. ASSUME AllKept(c, s) PROVE AllKept(c, r)
    BY <2>4, <2>5 DEF AllKept, Kept
  <2>6. ASSUME Keep(c, Sees(s, new)) PROVE AllKept(c, s)
    BY <1>1, <2>4, <2>6, KeepKept, SentKept
  <2> QED  BY <1>1, <1>2, <2>1, <2>2, <2>4, <2>5, <2>6, ErrorKept, ReplyKept
<1>6. CASE Unsub(c, r, cmd)
  <2>1. db' = db /\ cmd.op = "UNSUB"
    BY <1>6 DEF Unsub
  <2>2. \E q : Keep(c, [r EXCEPT !.subs = q])
    <3>1. r = [r EXCEPT !.subs = r.subs]
      BY DEF Record
    <3> QED  BY <1>6, <3>1 DEF Unsub
  <2>3. \A q : Kept([r EXCEPT !.subs = q], r)
    BY DEF Kept, Record
  <2> QED  BY <1>1, <1>2, <2>1, <2>2, <2>3, KeepKept
<1>7. CASE Read(c, r, cmd)
  BY <1>1, <1>2, <1>7, ReplyKept DEF Read
<1>8. CASE Write(c, r, cmd)
  <2>1. \A k \in Keys : Effect(c, cmd, k)
    BY <1>1, <1>8 DEF Write, Effect, Map
  <2>2. Keep(c, r) \/ Notify(c, r, cmd.key, cmd.val)
    BY <1>8 DEF Write
  <2> QED  BY <1>1, <2>1, <2>2, KeepKept, SentKept, NotifyKept
<1>9. CASE WriteFails(c, r, cmd)
  <2>1. AllKept(c, r) /\ client'[c] = Closed
    BY <1>1, <1>9, ErrorKept DEF WriteFails
  <2>2. \A k \in Keys : Effect(c, cmd, k)
    BY <1>1, <1>9, <2>1 DEF WriteFails, Effect, Map
  <2> QED  BY <2>1, <2>2
<1>10. CASE WriteEphemeral(c, r, cmd)
  <2>1. db' = db /\ cmd.key \notin Keys
    BY <1>10, InfodAssumption DEF WriteEphemeral
  <2>2. Keep(c, r) \/ Notify(c, r, cmd.key, cmd.val)
    BY <1>10 DEF WriteEphemeral
  <2> QED  BY <1>1, <1>2, <2>1, <2>2, KeepKept, SentKept, NotifyKept
<1>11. CASE Commit(c, r, cmd)
  BY <1>1, <1>2, <1>11, ErrorKept DEF Commit
<1> QED
  BY <1>3, <1>4, <1>5, <1>6, <1>7, <1>8, <1>9, <1>10, <1>11
  DEF on_app_input, Begin

\* The commands that c has still to play are the last of those that its
\* playback began with, and the store is what the others have made of it.
Played(r, b, d) ==
  /\ Len(r.bufcmds) <= Len(b.cmds)
  /\ \A j \in 1 .. Len(r.bufcmds) :
       r.bufcmds[j] = b.cmds[Len(b.cmds) - Len(r.bufcmds) + j]
  /\ \A k \in Keys :
       ValueAfter(b.db, b.cmds, Len(b.cmds) - Len(r.bufcmds), k, d[k])

\* The inductive invariant for the playback: there is one at a time.
IPlay ==
  /\ base \in [db : Map, cmds : Seq(Cmds)]
  /\ \A c, d \in Clients : Playing(c) /\ Playing(d) => c = d
  /\ \A c \in Clients : Playing(c) => Played(client[c], base, db)

\* One more command is performed.
LEMMA StepValue ==
  ASSUME NEW d, NEW cmds, NEW n \in Nat, NEW k, NEW v, NEW w,
         ValueAfter(d, cmds, n, k, v),
         w = IF cmds[n + 1].op = "WRITE" /\ cmds[n + 1].key = k
             THEN cmds[n + 1].val ELSE v
  PROVE  ValueAfter(d, cmds, n + 1, k, w)
<1> DEFINE Writes(i) == cmds[i].op = "WRITE" /\ cmds[i].key = k
<1>1. CASE Writes(n + 1)
  <2>1. n + 1 \in 1 .. n + 1 /\ \A i \in (n + 1) + 1 .. n + 1 : ~Writes(i)
    OBVIOUS
  <2> QED  BY <1>1, <2>1 DEF ValueAfter
<1>2. CASE ~Writes(n + 1)
  <2>1. w = v
    BY <1>2
  <2>2. CASE v = d[k] /\ \A i \in 1 .. n : ~Writes(i)
    <3>1. \A i \in 1 .. n + 1 : ~Writes(i)
      <4>1. \A i \in 1 .. n + 1 : i \in 1 .. n \/ i = n + 1
        OBVIOUS
      <4> QED  BY <1>2, <2>2, <4>1
    <3> QED  BY <2>1, <2>2, <3>1 DEF ValueAfter
  <2>3. ASSUME NEW j \in 1 .. n, Writes(j), v = cmds[j].val,
               \A i \in j + 1 .. n : ~Writes(i)
        PROVE  ValueAfter(d, cmds, n + 1, k, w)
    <3>1. \A i \in j + 1 .. n + 1 : i \in j + 1 .. n \/ i = n + 1
      OBVIOUS
    <3>2. \A i \in j + 1 .. n + 1 : ~Writes(i)
      BY <1>2, <2>3, <3>1
    <3>3. j \in 1 .. n + 1
      OBVIOUS
    <3> QED  BY <2>1, <2>3, <3>2, <3>3 DEF ValueAfter
  <2> QED  BY <2>2, <2>3 DEF ValueAfter
<1> QED  BY <1>1, <1>2

\* A turn of the playback of c: it does what it may to the store, no other
\* playback begins, and c has one command less to play, or none.
LEMMA PlayKept ==
  ASSUME IInv, IPlay, NEW c \in Clients, Play(c)
  PROVE  /\ KeepsToPlayback(c)
         /\ \A d \in Clients : Playing(d)' => d = c
         /\ Playing(c)' => Played(client'[c], base, db')
<1> DEFINE r == client[c]
           s == [r EXCEPT !.bufcmds = Tail(@)]
           cmd == Head(r.bufcmds)
           n == Len(base.cmds) - Len(r.bufcmds)
<1>1. /\ r \in Record /\ Sound(r) /\ r.begins = 0 /\ r.bufcmds # <<>>
      /\ Playing(c) /\ Played(r, base, db)
  BY DEF Play, Playing, IInv, AllGood, Good, Sound, IPlay
<1>2. on_app_input(c, s, cmd)
  BY DEF Play
<1>3. base.cmds \in Seq(Cmds)
  BY DEF IPlay
<1> HIDE DEF r
<1>4. r.bufcmds \in Seq(Cmds)
  BY <1>1 DEF Record
<1>5. /\ Tail(r.bufcmds) \in Seq(Cmds) /\ cmd \in Cmds /\ cmd = r.bufcmds[1]
      /\ Len(r.bufcmds) \in Nat \ {0} /\ 1 \in DOMAIN r.bufcmds
      /\ Len(Tail(r.bufcmds)) = Len(r.bufcmds) - 1
      /\ \A j \in 1 .. Len(r.bufcmds) - 1 : Tail(r.bufcmds)[j] = r.bufcmds[j + 1]
  BY <1>1, <1>4
<1>6. s \in Record /\ s.begins = 0 /\ s.bufcmds = Tail(r.bufcmds)
  BY <1>1, <1>5 DEF Record
<1>7. cmd.op # "BEGIN"
  BY <1>1, <1>5 DEF Sound
<1> HIDE DEF s, cmd
<1>8. Len(base.cmds) \in Nat /\ n \in Nat /\ Len(r.bufcmds) = Len(base.cmds) - n
  BY <1>1, <1>3, <1>5 DEF Played
<1>9. cmd = base.cmds[n + 1]
  <2>1. 1 \in 1 .. Len(r.bufcmds)
    BY <1>5
  <2>2. r.bufcmds[1] = base.cmds[n + 1]
    BY <1>1, <2>1 DEF Played
  <2> QED  BY <1>5, <2>2
<1>10. AllKept(c, s) /\ \A k \in Keys : Effect(c, cmd, k)
  BY <1>2, <1>5, <1>6, <1>7, InputKept
<1>11. \A k \in Keys : ValueAfter(base.db, base.cmds, n, k, db[k])
  BY <1>1 DEF Played
<1>12. Closed.bufcmds = <<>> /\ ~Closed.up
  BY DEF Closed
<1>13. Kept(client'[c], s)
  BY <1>10 DEF AllKept
<1>14. ASSUME client'[c] = Closed
       PROVE  KeepsToPlayback(c) /\ ~Playing(c)'
  <2>1. ASSUME NEW k \in Keys, ~(cmd.op = "WRITE" /\ cmd.key = k)
        PROVE  ValueAfter(base.db, base.cmds, n, k, db'[k])
    BY <1>10, <1>11, <2>1 DEF Effect
  <2>2. KeepsToPlayback(c)
    BY <1>9, <1>12, <1>14, <2>1 DEF KeepsToPlayback, r
  <2> QED  BY <1>12, <1>14, <2>2 DEF Playing
<1>15. ASSUME client'[c] # Closed
       PROVE  KeepsToPlayback(c) /\ Played(client'[c], base, db')
  <2>1. client'[c].bufcmds = Tail(r.bufcmds)
    BY <1>6, <1>13, <1>15 DEF Kept
  <2>2. Len(base.cmds) - Len(client'[c].bufcmds) = n + 1
    <3>1. Len(r.bufcmds) \in Nat /\ Len(base.cmds) \in Nat
      BY <1>5, <1>8
    <3>2. Len(base.cmds) - (Len(r.bufcmds) - 1) = n + 1
      BY <3>1
    <3>3. Len(client'[c].bufcmds) = Len(r.bufcmds) - 1
      BY <1>5, <2>1
    <3> HIDE DEF n
    <3> QED  BY <3>2, <3>3, Zenon
  <2>3. ASSUME NEW k \in Keys
        PROVE  ValueAfter(base.db, base.cmds, n + 1, k, db'[k])
    <3>1. Effect(c, cmd, k) /\ ValueAfter(base.db, base.cmds, n, k, db[k])
      BY <1>10, <1>11
    <3>2. db'[k] = IF cmd.op = "WRITE" /\ cmd.key = k THEN cmd.val ELSE db[k]
      BY <1>15, <3>1 DEF Effect
    <3> HIDE DEF n
    <3> QED  BY <1>8, <1>9, <3>1, <3>2, StepValue
  <2>4. ASSUME NEW k \in Keys, ~(cmd.op = "WRITE" /\ cmd.key = k)
        PROVE  ValueAfter(base.db, base.cmds, n, k, db'[k])
    BY <1>10, <1>11, <2>4 DEF Effect
  <2>5. KeepsToPlayback(c)
    BY <1>9, <2>2, <2>3, <2>4 DEF KeepsToPlayback, r
  <2>6. Played(client'[c], base, db')
    <3>1. Len(client'[c].bufcmds) <= Len(base.cmds)
      <4> HIDE DEF n
      <4>1. Len(client'[c].bufcmds) = Len(r.bufcmds) - 1
        BY <1>5, <2>1
      <4> QED  BY <1>8, <4>1
    <3>2. ASSUME NEW j \in 1 .. Len(client'[c].bufcmds)
          PROVE  client'[c].bufcmds[j] = base.cmds[(n + 1) + j]
      <4>1. j \in 1 .. Len(r.bufcmds) - 1 /\ j + 1 \in 1 .. Len(r.bufcmds)
        BY <1>5, <2>1
      <4>2. client'[c].bufcmds[j] = r.bufcmds[j + 1]
        BY <1>5, <2>1, <4>1
      <4>3. r.bufcmds[j + 1] = base.cmds[n + (j + 1)]
        BY <1>1, <4>1 DEF Played
      <4>4. n + (j + 1) = (n + 1) + j
        <5> HIDE DEF n
        <5> QED  BY <1>8, <4>1
      <4> QED  BY <4>2, <4>3, <4>4
    <3> QED  BY <2>2, <2>3, <3>1, <3>2 DEF Played
  <2> QED  BY <2>5, <2>6
<1>16. ASSUME NEW d \in Clients, Playing(d)' PROVE d = c
  <2> SUFFICES ASSUME d # c PROVE FALSE
    OBVIOUS
  <2>1. Kept(client'[d], client[d])
    BY <1>10 DEF AllKept
  <2>2. Playing(d)
    BY <1>12, <1>16, <2>1 DEF Kept, Playing
  <2> QED  BY <1>1, <2>2 DEF IPlay
<1> QED  BY <1>14, <1>15, <1>16

-----------------------------------------------------------------------------
(* The theorems. *)

\* At the start no client is connected.
LEMMA InitGood == Init => IInv
<1> SUFFICES ASSUME Init PROVE IInv
  OBVIOUS
<1>1. db \in Map /\ alive \in BOOLEAN /\ lost \subseteq Keys
  BY DEF Init, Map
<1>2. client \in [Clients -> Record] /\ \A c \in Clients : Good(client[c], db, lost)
  BY ClosedGood DEF Init
<1> QED  BY <1>1, <1>2 DEF IInv, AllGood

\* Every step of the daemon keeps the invariant.
LEMMA NextGood == IInv /\ [Next]_vars => IInv'
<1> SUFFICES ASSUME IInv, [Next]_vars PROVE IInv'
  OBVIOUS
<1>1. CASE UNCHANGED vars
  BY <1>1 DEF vars, IInv, AllGood
<1>2. ASSUME NEW c \in Clients, Accept(c) PROVE IInv'
  BY <1>2, KeepGood, NewGood DEF Accept, IInv, AllGood
<1>3. ASSUME NEW c \in Clients, NEW cmd \in Cmds, Receive(c, cmd) PROVE IInv'
  BY <1>3, ReceiveGood
<1>4. ASSUME NEW c \in Clients, Play(c) PROVE IInv'
  BY <1>4, PlayGood
<1>5. ASSUME NEW c \in Clients, Eof(c) PROVE IInv'
  BY <1>5, DropGood DEF Eof, IInv, AllGood
<1> QED  BY <1>1, <1>2, <1>3, <1>4, <1>5 DEF Next

\* The invariant always holds.
LEMMA AlwaysGood == Spec => []IInv
  BY InitGood, NextGood, PTL DEF Spec

\* The playback invariant at the start, and after each step.  Only the last
\* COMMIT of a transaction begins a playback, and only when there is none.
LEMMA InitPlay == Init => IPlay
<1> SUFFICES ASSUME Init PROVE IPlay
  OBVIOUS
<1>1. base \in [db : Map, cmds : Seq(Cmds)]
  BY DEF Init, NoBase, Map
<1>2. \A c \in Clients : ~Playing(c)
  BY DEF Init, Closed, Playing
<1> QED  BY <1>1, <1>2 DEF IPlay

LEMMA NextPlay == IInv /\ IPlay /\ IInv' /\ [Next]_vars => IPlay'
<1> SUFFICES ASSUME IInv, IPlay, IInv', [Next]_vars PROVE IPlay'
  OBVIOUS
<1>1. /\ base \in [db : Map, cmds : Seq(Cmds)] /\ db \in Map /\ db' \in Map
      /\ client \in [Clients -> Record] /\ client' \in [Clients -> Record]
  BY DEF IPlay, IInv, AllGood
<1>2. /\ NoBase \in [db : Map, cmds : Seq(Cmds)]
      /\ Closed.bufcmds = <<>> /\ client_new.bufcmds = <<>>
  BY DEF NoBase, Map, Closed, client_new
<1>3. ASSUME base' = base, \A c \in Clients : ~Playing(c)' PROVE IPlay'
  BY <1>1, <1>3 DEF IPlay
<1>4. CASE UNCHANGED vars
  BY <1>4 DEF vars, IPlay, Playing
<1>5. ASSUME NEW c \in Clients, Accept(c) \/ Eof(c) PROVE IPlay'
  <2>1. /\ base' = base /\ \A d \in Clients : ~Playing(d)
        /\ Keep(c, client_new) \/ Keep(c, Closed)
    BY <1>5 DEF Accept, Eof, Drop
  <2>2. \A d \in Clients : ~Playing(d)'
    BY <1>1, <1>2, <2>1 DEF Keep, Playing
  <2> QED  BY <1>3, <2>1, <2>2
<1>6. ASSUME NEW c \in Clients, Play(c) PROVE IPlay'
  <2>1. /\ \A d \in Clients : Playing(d)' => d = c
        /\ Playing(c)' => Played(client'[c], base, db')
    BY <1>6, PlayKept
  <2>2. base' = IF Playing(c)' THEN base ELSE NoBase
    BY <1>6 DEF Play
  <2> QED  BY <1>1, <1>2, <2>1, <2>2 DEF IPlay
<1>7. ASSUME NEW c \in Clients, NEW cmd \in Cmds, Receive(c, cmd) PROVE IPlay'
  <2>1. \A d \in Clients : ~Playing(d)
    BY <1>7 DEF Receive
  <2>2. client[c] \in Record
    BY <1>1
  <2>3. CASE Performing(c, cmd)
    <3>1. base' = base /\ on_app_input(c, client[c], cmd)
      BY <2>3 DEF Performing
    <3>2. CASE cmd.op # "BEGIN"
      <4>1. AllKept(c, client[c])
        BY <2>2, <3>1, <3>2, InputKept
      <4>2. \A d \in Clients : ~Playing(d)'
        BY <1>2, <2>1, <4>1 DEF AllKept, Kept, Playing
      <4> QED  BY <1>3, <3>1, <4>2
    <3>3. CASE cmd.op = "BEGIN"
      <4>1. Keep(c, [client[c] EXCEPT !.tail = 0, !.begins = 1])
        BY <3>1, <3>3 DEF on_app_input, Ping, Bad, Sub, Unsub, Read, Write,
             WriteFails, WriteEphemeral, Begin, Commit
      <4>2. client'[c].begins = 1 /\ \A d \in Clients : d # c => client'[d] = client[d]
        BY <1>1, <2>2, <4>1 DEF Keep, Record
      <4>3. \A d \in Clients : ~Playing(d)'
        BY <2>1, <4>2 DEF Playing
      <4> QED  BY <1>3, <3>1, <4>3
    <3> QED  BY <3>2, <3>3
  <2>4. CASE Recording(c, cmd)
    <3>1. /\ buffer_command(c, client[c], cmd) /\ db' = db
          /\ base' = IF Playing(c)' THEN [db |-> db, cmds |-> client'[c].bufcmds] ELSE base
      BY <2>4 DEF Recording
    <3>2. \A d \in Clients : d # c => Kept(client'[d], client[d])
      <4>1. (\E s : Keep(c, s)) \/ \E code : proto_output_error(c, client[c], code)
        BY <3>1 DEF buffer_command
      <4>2. ASSUME NEW s, Keep(c, s)
            PROVE  \A d \in Clients : d # c => Kept(client'[d], client[d])
        BY <1>1, <4>2 DEF Keep, Kept
      <4>3. ASSUME NEW code, proto_output_error(c, client[c], code)
            PROVE  \A d \in Clients : d # c => Kept(client'[d], client[d])
        <5>1. AllKept(c, client[c])
          BY <1>1, <2>2, <4>3, ErrorKept
        <5> QED  BY <5>1 DEF AllKept
      <4> QED  BY <4>1, <4>2, <4>3
    <3>3. \A d \in Clients : Playing(d)' => d = c
      BY <1>2, <2>1, <3>2 DEF Kept, Playing
    <3>4. CASE ~Playing(c)'
      BY <1>3, <3>1, <3>3, <3>4
    <3>5. CASE Playing(c)'
      <4> DEFINE q == client'[c].bufcmds
                 b == [db |-> db, cmds |-> q]
      <4>1. base' = b /\ q \in Seq(Cmds)
        BY <1>1, <3>1, <3>5 DEF Record
      <4>2. Len(q) \in Nat
        BY <4>1
      <4> HIDE DEF q
      <4>3. Len(b.cmds) - Len(q) = 0
        BY <4>2
      <4>4. \A k \in Keys : ValueAfter(b.db, b.cmds, 0, k, db[k])
        BY DEF ValueAfter
      <4>5. \A j \in 1 .. Len(q) : q[j] = b.cmds[Len(b.cmds) - Len(q) + j]
        BY <4>3
      <4>6. Len(q) <= Len(b.cmds)
        BY <4>2
      <4>7. Played(client'[c], b, db')
        BY <3>1, <4>3, <4>4, <4>5, <4>6 DEF Played, q
      <4>8. b \in [db : Map, cmds : Seq(Cmds)]
        BY <1>1, <4>1
      <4> HIDE DEF b
      <4> QED  BY <3>3, <4>1, <4>7, <4>8 DEF IPlay
    <3> QED  BY <3>4, <3>5
  <2> QED  BY <1>7, <2>3, <2>4 DEF Receive
<1> QED  BY <1>4, <1>5, <1>6, <1>7 DEF Next

LEMMA AlwaysPlay == Spec => [](IInv /\ IPlay)
  BY AlwaysGood, InitPlay, NextPlay, PTL DEF Spec

\* The variables of infod.c keep their types, whichever calls fail.
THEOREM InfodTyped == Spec => []TypeOK
<1>1. IInv /\ IPlay => TypeOK
  BY DEF IInv, AllGood, Map, IPlay, TypeOK
<1> QED  BY <1>1, AlwaysPlay, PTL

\* The playback in buffer_command is exclusive (PROTOCOL:94): from the COMMIT
\* to its end the store is changed by the recorded commands and by nothing else,
\* for any number of clients with transactions of any length, and when a
\* command fails those before it stay performed and those after it never are.
THEOREM PlaybackIsExclusive == Spec => Exclusive
<1>1. IInv /\ IPlay /\ [Next]_vars
        => [\A c \in Clients : Playing(c) => KeepsToPlayback(c)]_vars
  <2> SUFFICES ASSUME IInv, IPlay, Next, NEW c \in Clients, Playing(c)
               PROVE  KeepsToPlayback(c)
    OBVIOUS
  <2>1. PICK d \in Clients : Play(d)
    BY DEF Next, Accept, Receive, Eof
  <2>2. d = c
    BY <2>1 DEF IPlay, Play
  <2> QED  BY <2>1, <2>2, PlayKept
<1> QED  BY <1>1, AlwaysPlay, PTL DEF Spec, Exclusive

\* The list of commands that buffer_command keeps is sound: its tail is at its
\* end whenever APPEND may be used, and it never holds a BEGIN or a COMMIT.
\* This holds however BEGINs are nested, for lists of any length, and
\* whichever calls fail.
THEOREM RecordingIsSound == Spec => []ListsSound
<1>1. IInv => ListsSound
  BY DEF IInv, AllGood, Good, Sound, ListsSound
<1> QED  BY <1>1, AlwaysGood, PTL

\* on_app_input keeps every subscriber current, whichever calls fail: it knows
\* the value of each key it subscribes to, unless a message to it was lost or
\* cut short, or a failing store_put has removed the key (infod.c:451).
THEOREM SubscribersAreCurrent == Spec => []SubscribersCurrent
<1>1. IInv => SubscribersCurrent
  BY DEF IInv, AllGood, Good, Current, Knows, SubscribersCurrent
<1> QED  BY <1>1, AlwaysGood, PTL

=============================================================================
