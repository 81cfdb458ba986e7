--------------------------- MODULE Server_proofs ---------------------------
(***************************************************************************)
(* Proofs about Server, for any peers and listeners, any limit and growth  *)
(* step of the table, and any faults: the table matches the connections    *)
(* and client records, the listeners are polled exactly while there is     *)
(* room, and no event that poll() reported is missed or left behind.       *)
(*                                                                         *)
(* The table changes in two ways that are not local: server_add_socket     *)
(* and close_delete_socket also switch the listeners, and the latter moves *)
(* the last entry.  Two lemmas say what they make of each entry; after     *)
(* that each action is a case.                                             *)
(***************************************************************************)
EXTENDS Server, SequenceTheorems, FiniteSetTheorems, TLAPS

Socket == [fd : Peers \cup Listeners, is_listener : BOOLEAN,
           data : Peers \cup {NULL}, events : BOOLEAN, revents : BOOLEAN]

Opened == {c \in Peers : link[c] = "open"}

\* An event of a listener is one that is polled for.
Reported == \A j \in DOMAIN table :
              table[j].is_listener /\ table[j].revents => table[j].events

\* TableMatches, as it is while the daemon runs.
Matches ==
  /\ \A j, k \in DOMAIN table : table[j].fd = table[k].fd => j = k
  /\ {table[j].fd : j \in DOMAIN table} = Listeners \cup Opened
  /\ \A j \in DOMAIN table :
       IF table[j].is_listener THEN table[j].fd \in Listeners
       ELSE \/ table[j].data = table[j].fd /\ table[j].data \in clients
            \/ table[j].data = NULL /\ table[j].fd \in eof
  /\ Len(table) <= nmax

\* The inductive invariant.
IInv == TypeOK /\ i \in Nat /\ TableMatches /\ Gated /\ RevBehind /\ Reported

\* The table is a sequence of sockets.
LEMMA TableType == TypeOK => table \in Seq(Socket)
  BY DEF TypeOK, Socket

-----------------------------------------------------------------------------
(* The sizes of the table's arrays. *)

\* server_resize's rounding is upward.
LEMMA RoundedUp ==
  ASSUME NEW n \in Nat
  PROVE  roundup(n) \in Nat /\ n <= roundup(n)
<1> DEFINE q == (n + INCREMENT - 1) \div INCREMENT
           r == (n + INCREMENT - 1) % INCREMENT
<1>1. INCREMENT \in Nat /\ 0 < INCREMENT
  BY ServerAssumption
<1>2. q \in Nat /\ r \in 0 .. INCREMENT - 1 /\ n + INCREMENT - 1 = q * INCREMENT + r
  BY <1>1
<1>3. q * INCREMENT \in Nat
  BY <1>1, <1>2
<1>4. q * INCREMENT = roundup(n)
  BY DEF roundup
<1> HIDE DEF q, r
<1> QED  BY <1>1, <1>2, <1>3, <1>4

\* server_resize leaves room for n sockets.
LEMMA Resized ==
  ASSUME NEW n \in Nat, nmax \in Nat
  PROVE  server_resize(n) \in Nat /\ n <= server_resize(n)
  BY RoundedUp DEF server_resize

-----------------------------------------------------------------------------
(* Entries of the table, and what is done to one. *)

Clear(e) == [e EXCEPT !.revents = FALSE]
Switch(e, on) == IF ~e.is_listener THEN e
                 ELSE [e EXCEPT !.events = on, !.revents = IF on THEN @ ELSE FALSE]
WithData(e, d) == [e EXCEPT !.data = d]

\* The connection and its record in e are those in f.
Same(e, f) == e.fd = f.fd /\ e.is_listener = f.is_listener /\ e.data = f.data

\* Clearing an event leaves the rest of the entry.
LEMMA CleanEntry ==
  ASSUME NEW e \in Socket
  PROVE  /\ Clear(e) \in Socket /\ Same(Clear(e), e)
         /\ Clear(e).events = e.events /\ ~Clear(e).revents
  BY Zenon DEF Clear, Same, Socket

\* server_listen_enable leaves a connection's entry, and drops the event of a
\* listener only when it disables it.
LEMMA SwitchedEntry ==
  ASSUME NEW e \in Socket, NEW on \in BOOLEAN
  PROVE  /\ Switch(e, on) \in Socket /\ Same(Switch(e, on), e)
         /\ ~e.is_listener => Switch(e, on) = e
         /\ e.is_listener => /\ Switch(e, on).events = on
                             /\ on => Switch(e, on).revents = e.revents
                             /\ ~on => ~Switch(e, on).revents
  BY Zenon DEF Switch, Same, Socket

\* on_accept's result changes the data of an entry only.
LEMMA SetEntry ==
  ASSUME NEW e \in Socket, NEW d \in Peers \cup {NULL}
  PROVE  /\ WithData(e, d) \in Socket /\ WithData(e, d).data = d
         /\ WithData(e, d).fd = e.fd /\ WithData(e, d).is_listener = e.is_listener
         /\ WithData(e, d).events = e.events /\ WithData(e, d).revents = e.revents
  BY DEF WithData, Socket

\* The entry that server_add_socket appends.
LEMMA NewEntry ==
  ASSUME NEW c \in Peers
  PROVE  /\ Entry(c, FALSE, NULL) \in Socket
         /\ Entry(c, FALSE, NULL).fd = c /\ ~Entry(c, FALSE, NULL).is_listener
         /\ Entry(c, FALSE, NULL).data = NULL
         /\ Entry(c, FALSE, NULL).events /\ ~Entry(c, FALSE, NULL).revents
  BY DEF Entry, Socket

-----------------------------------------------------------------------------
(* The table. *)

\* A sequence made from t entry by entry.
LEMMA EachSocket ==
  ASSUME NEW t \in Seq(Socket), NEW u, NEW g \in [1 .. Len(t) -> Socket],
         u = [j \in DOMAIN t |-> g[j]]
  PROVE  /\ u \in Seq(Socket) /\ Len(u) = Len(t)
         /\ \A j \in 1 .. Len(t) : u[j] = g[j]
  OBVIOUS

\* One entry is replaced.
LEMMA SetSocket ==
  ASSUME NEW t \in Seq(Socket), NEW k \in 1 .. Len(t), NEW e \in Socket,
         NEW u, u = [t EXCEPT ![k] = e]
  PROVE  /\ u \in Seq(Socket) /\ Len(u) = Len(t)
         /\ \A j \in 1 .. Len(t) : u[j] = IF j = k THEN e ELSE t[j]
  BY ExceptSeq

\* The event at the loop's index is cleared.
LEMMA ClearedTable ==
  ASSUME TypeOK, i \in Nat, i < Len(table)
  PROVE  /\ table \in Seq(Socket) /\ Len(table) \in Nat /\ i + 1 \in 1 .. Len(table)
         /\ Cur \in Socket
         /\ Cleared \in Seq(Socket) /\ Len(Cleared) = Len(table)
         /\ \A j \in 1 .. Len(table) : Cleared[j] = IF j = i + 1 THEN Clear(Cur) ELSE table[j]
<1>1. table \in Seq(Socket) /\ Len(table) \in Nat /\ i + 1 \in 1 .. Len(table)
  BY TableType
<1>2. Cur \in Socket
  BY <1>1, ElementOfSeq DEF Cur
<1>3. Cleared = [table EXCEPT ![i + 1] = Clear(Cur)]
  BY <1>1 DEF Cleared, Clear, Cur
<1>4. Clear(Cur) \in Socket
  BY <1>2, CleanEntry
<1>5. /\ Cleared \in Seq(Socket) /\ Len(Cleared) = Len(table)
      /\ \A j \in 1 .. Len(table) : Cleared[j] = IF j = i + 1 THEN Clear(Cur) ELSE table[j]
  BY <1>1, <1>3, <1>4, SetSocket
<1> QED  BY <1>1, <1>2, <1>5, Zenon

\* server_listen_enable changes the listeners only.
LEMMA SwitchedTable ==
  ASSUME NEW t \in Seq(Socket), NEW on \in BOOLEAN
  PROVE  /\ server_listen_enable(t, on) \in Seq(Socket)
         /\ Len(server_listen_enable(t, on)) = Len(t)
         /\ \A j \in 1 .. Len(t) : server_listen_enable(t, on)[j] = Switch(t[j], on)
<1> DEFINE g == [j \in 1 .. Len(t) |-> Switch(t[j], on)]
<1>1. g \in [1 .. Len(t) -> Socket]
  BY SwitchedEntry, ElementOfSeq
<1>2. server_listen_enable(t, on) = [j \in DOMAIN t |-> Switch(t[j], on)]
  BY Zenon DEF server_listen_enable, Switch
<1>3. \A j \in 1 .. Len(t) : g[j] = Switch(t[j], on)
  OBVIOUS
<1>4. server_listen_enable(t, on) = [j \in DOMAIN t |-> g[j]]
  BY <1>2, <1>3
<1> HIDE DEF g
<1>5. /\ server_listen_enable(t, on) \in Seq(Socket)
      /\ Len(server_listen_enable(t, on)) = Len(t)
      /\ \A j \in 1 .. Len(t) : server_listen_enable(t, on)[j] = g[j]
  BY <1>1, <1>4, EachSocket
<1> QED  BY <1>3, <1>5, Zenon

\* The limit leaves room for one socket at least.
LEMMA Sizes == TypeOK => Len(table) \in Nat /\ max_sockets \in Nat /\ 0 < max_sockets
<1>1. Cardinality(Listeners) \in Nat /\ Cardinality(StdinPeers) \in Nat
  BY ServerAssumption, FS_CardinalityType
<1> QED  BY <1>1, TableType, ServerAssumption

\* u is the table with one entry more, for c: the event at the loop's index is
\* cleared, and if the table is full the listeners are held off.
IsAdded(u, c, d) ==
  /\ u \in Seq(Socket) /\ Len(u) = Len(table) + 1
  /\ u[Len(table) + 1] = WithData(Entry(c, FALSE, NULL), d)
  /\ \A j \in 1 .. Len(table) :
       u[j] = IF Len(table) + 1 >= max_sockets THEN Switch(Cleared[j], FALSE) ELSE Cleared[j]

\* What server_add_socket and the on_accept after it make of the table.
LEMMA Added ==
  ASSUME TypeOK, i \in Nat, i < Len(table),
         NEW c \in Peers, \A j \in 1 .. Len(table) : table[j].fd # c,
         NEW d \in Peers \cup {NULL}
  PROVE  IsAdded(SetData(server_add_socket(Cleared, c), c, d), c, d)
<1> DEFINE u == SetData(server_add_socket(Cleared, c), c, d)
           n == Len(table) + 1
<1>0. u = SetData(server_add_socket(Cleared, c), c, d) /\ n = Len(table) + 1
  OBVIOUS
<1> HIDE DEF u, n
<1> USE <1>0
<1> DEFINE new == Entry(c, FALSE, NULL)
           t == Append(Cleared, new)
           w == IF n >= max_sockets THEN server_listen_enable(t, FALSE) ELSE t
           g == [j \in 1 .. n |-> IF w[j].fd = c THEN WithData(w[j], d) ELSE w[j]]
<1>1. /\ table \in Seq(Socket) /\ Len(table) \in Nat /\ n \in Nat
      /\ max_sockets \in Nat /\ 0 < max_sockets
      /\ Cleared \in Seq(Socket) /\ Len(Cleared) = Len(table)
  BY ClearedTable, Sizes
<1>2. /\ new \in Socket /\ new.fd = c /\ ~new.is_listener
  BY NewEntry, Zenon
<1> HIDE DEF new
<1>3. /\ t \in Seq(Socket) /\ Len(t) = n /\ t[n] = new
      /\ \A j \in 1 .. Len(table) : t[j] = Cleared[j]
  BY <1>1, <1>2, AppendProperties
<1>4. server_add_socket(Cleared, c) = w
  <2>1. server_add_socket(Cleared, c) = IF max_sockets # 0 /\ Len(t) >= max_sockets
                                        THEN server_listen_enable(t, FALSE) ELSE t
    BY Zenon DEF server_add_socket, new
  <2>2. max_sockets # 0 /\ Len(t) = n
    BY <1>1, <1>3
  <2> HIDE DEF t
  <2> QED  BY <2>1, <2>2, Zenon
<1> HIDE DEF t
<1>5. w \in Seq(Socket) /\ Len(w) = n /\ w[n] = new
  <2>1. CASE n >= max_sockets
    <3>1. w = server_listen_enable(t, FALSE)
      BY <2>1
    <3>2. w \in Seq(Socket) /\ Len(w) = n /\ \A j \in 1 .. n : w[j] = Switch(t[j], FALSE)
      BY <1>3, <3>1, SwitchedTable, ZenonT(30)
    <3>3. Switch(new, FALSE) = new
      BY <1>2, SwitchedEntry, Zenon
    <3>4. n \in 1 .. n
      BY <1>1
    <3> QED  BY <1>3, <3>2, <3>3, <3>4, Zenon
  <2>2. CASE ~(n >= max_sockets)
    BY <1>3, <2>2
  <2> QED  BY <2>1, <2>2, Zenon
<1>6. ASSUME NEW j \in 1 .. Len(table)
      PROVE  w[j] = IF n >= max_sockets THEN Switch(Cleared[j], FALSE) ELSE Cleared[j]
  <2>1. j \in 1 .. Len(t) /\ t[j] = Cleared[j]
    BY <1>1, <1>3
  <2>2. server_listen_enable(t, FALSE)[j] = Switch(t[j], FALSE)
    BY <1>3, <2>1, SwitchedTable, Zenon
  <2> QED  BY <2>1, <2>2, Zenon
<1>7. ASSUME NEW j \in 1 .. Len(table) PROVE w[j].fd # c
  <2>1. Cleared[j].fd = table[j].fd /\ Cleared[j] \in Socket
    BY <1>1, ClearedTable, CleanEntry, ElementOfSeq DEF Same, Cur
  <2>2. Switch(Cleared[j], FALSE).fd = Cleared[j].fd
    BY <2>1, SwitchedEntry, Zenon DEF Same
  <2> QED  BY <1>6, <2>1, <2>2, Zenon
<1> HIDE DEF w
<1>8. g \in [1 .. n -> Socket]
  BY <1>1, <1>5, SetEntry, ElementOfSeq
<1>9. u = [j \in DOMAIN w |-> g[j]]
  <2>1. u = [j \in DOMAIN w |-> IF w[j].fd = c THEN WithData(w[j], d) ELSE w[j]]
    BY <1>4, Zenon DEF SetData, WithData
  <2>2. DOMAIN w = 1 .. n
    BY <1>5, LenProperties
  <2> QED  BY <2>1, <2>2
<1>10. \A j \in 1 .. n : g[j] = IF w[j].fd = c THEN WithData(w[j], d) ELSE w[j]
  OBVIOUS
<1> HIDE DEF g
<1>11. u \in Seq(Socket) /\ Len(u) = n /\ \A j \in 1 .. n : u[j] = g[j]
  BY <1>5, <1>8, <1>9, EachSocket
<1>12. u[n] = WithData(new, d)
  BY <1>1, <1>2, <1>5, <1>10, <1>11
<1>13. ASSUME NEW j \in 1 .. Len(table)
       PROVE  u[j] = IF n >= max_sockets THEN Switch(Cleared[j], FALSE) ELSE Cleared[j]
  <2>1. j \in 1 .. n
    BY <1>1
  <2>2. u[j] = w[j]
    BY <1>7, <1>10, <1>11, <2>1
  <2> QED  BY <1>6, <2>2, Zenon
<1>14. IsAdded(u, c, d)
  BY <1>11, <1>12, <1>13, Zenon DEF IsAdded, new, n
<1> QED  BY <1>14, Zenon DEF u

\* The entry that close_delete_socket leaves at j: the last one has moved into
\* the place at the loop's index.
Old(j) == IF j = i + 1 THEN Len(table) ELSE j

\* u is the table without the socket at the loop's index: if there is room again
\* the listeners are polled.
IsRemoved(u) ==
  /\ u \in Seq(Socket) /\ Len(u) = Len(table) - 1
  /\ \A j \in 1 .. Len(table) - 1 :
       /\ Old(j) \in 1 .. Len(table) /\ Old(j) # i + 1
       /\ u[j] = IF Len(table) - 1 = max_sockets - 1 THEN Switch(table[Old(j)], TRUE)
                                                     ELSE table[Old(j)]

\* What close_delete_socket makes of the table.
LEMMA Removed ==
  ASSUME TypeOK, i \in Nat, i < Len(table)
  PROVE  IsRemoved(close_delete_socket(Cleared, i + 1))
<1> DEFINE u == close_delete_socket(Cleared, i + 1)
           n == Len(table) - 1
<1>0. u = close_delete_socket(Cleared, i + 1) /\ n = Len(table) - 1
  OBVIOUS
<1> HIDE DEF u, n
<1> USE <1>0
<1> DEFINE k == Len(table)
           v == [Cleared EXCEPT ![i + 1] = Cleared[k]]
           t == SubSeq(v, 1, n)
<1>1. /\ table \in Seq(Socket) /\ k \in Nat /\ n \in Nat /\ k = n + 1
      /\ i + 1 \in 1 .. k /\ max_sockets \in Nat /\ 0 < max_sockets
      /\ Cleared \in Seq(Socket) /\ Len(Cleared) = k
  BY ClearedTable, Sizes
<1>2. /\ v \in Seq(Socket) /\ Len(v) = k
      /\ \A j \in 1 .. k : v[j] = IF j = i + 1 THEN Cleared[k] ELSE Cleared[j]
  <2>1. Cleared[k] \in Socket
    BY <1>1, ElementOfSeq
  <2> QED  BY <1>1, <2>1, SetSocket
<1> HIDE DEF v
<1>3. /\ t \in Seq(Socket) /\ Len(t) = n
      /\ \A j \in 1 .. n : t[j] = v[j]
  BY <1>1, <1>2
<1>4. ASSUME NEW j \in 1 .. n
      PROVE  Old(j) \in 1 .. k /\ Old(j) # i + 1 /\ t[j] = table[Old(j)]
  <2>1. Old(j) \in 1 .. k /\ Old(j) # i + 1
    BY <1>1 DEF Old
  <2>2. t[j] = Cleared[Old(j)]
    BY <1>1, <1>2, <1>3 DEF Old
  <2> QED  BY <1>1, <2>1, <2>2, ClearedTable
<1>5. u = IF n = max_sockets - 1 THEN server_listen_enable(t, TRUE) ELSE t
  <2>1. t = SubSeq([Cleared EXCEPT ![i + 1] = Cleared[Len(Cleared)]], 1, Len(Cleared) - 1)
    BY <1>1 DEF v
  <2>2. u = IF max_sockets # 0 /\ Len(t) = max_sockets - 1
            THEN server_listen_enable(t, TRUE) ELSE t
    BY <2>1, Zenon DEF close_delete_socket
  <2>3. max_sockets # 0 /\ Len(t) = n
    BY <1>1, <1>3
  <2> HIDE DEF t
  <2> QED  BY <2>2, <2>3, Zenon
<1> HIDE DEF t
<1>6. /\ u \in Seq(Socket) /\ Len(u) = n
      /\ \A j \in 1 .. n : u[j] = IF n = max_sockets - 1 THEN Switch(t[j], TRUE) ELSE t[j]
  <2>1. /\ server_listen_enable(t, TRUE) \in Seq(Socket)
        /\ Len(server_listen_enable(t, TRUE)) = n
        /\ \A j \in 1 .. n : server_listen_enable(t, TRUE)[j] = Switch(t[j], TRUE)
    BY <1>3, SwitchedTable, Zenon
  <2> QED  BY <1>3, <1>5, <2>1, Zenon
<1>7. ASSUME NEW j \in 1 .. n
      PROVE  /\ Old(j) \in 1 .. Len(table) /\ Old(j) # i + 1
             /\ u[j] = IF n = max_sockets - 1 THEN Switch(table[Old(j)], TRUE)
                                              ELSE table[Old(j)]
  BY <1>4, <1>6, Zenon
<1>8. IsRemoved(u)
  BY <1>6, <1>7, Zenon DEF IsRemoved, n
<1> QED  BY <1>8, Zenon DEF u

-----------------------------------------------------------------------------
(* The steps of the daemon and of the peers. *)

\* NoneMissed's first conjunct.
Kept ==
  \A j \in DOMAIN table :
    table[j].revents
      => \/ j = i + 1
         \/ \E k \in DOMAIN table' : table'[k].fd = table[j].fd /\ table'[k].revents
         \/ table[j].is_listener /\ Len(table') >= max_sockets

\* What the invariant says of the table.
LEMMA Facts ==
  ASSUME IInv
  PROVE  /\ TypeOK /\ i \in Nat /\ Gated /\ RevBehind /\ Reported
         /\ table \in Seq(Socket) /\ Len(table) \in Nat /\ DOMAIN table = 1 .. Len(table)
         /\ \A j \in 1 .. Len(table) : table[j] \in Socket
         /\ clients \subseteq Opened /\ (Up => Matches)
         /\ pc = "serve" => i <= Len(table)
<1>1. table \in Seq(Socket) /\ TypeOK
  BY TableType DEF IInv
<1>2. pc = "serve" => i <= Len(table)
  BY <1>1 DEF TypeOK
<1>3. clients \subseteq Opened /\ (Up => Matches)
  BY DEF IInv, TableMatches, Matches, Opened
<1>4. Len(table) \in Nat /\ DOMAIN table = 1 .. Len(table)
  BY <1>1
<1>5. \A j \in 1 .. Len(table) : table[j] \in Socket
  BY <1>1, ElementOfSeq
<1>6. i \in Nat /\ Gated /\ RevBehind /\ Reported
  BY DEF IInv
<1> QED  BY <1>1, <1>2, <1>3, <1>4, <1>5, <1>6, Zenon

\* The parts of the next invariant.
LEMMA NextFacts ==
  ASSUME TypeOK', i' \in Nat, clients' \subseteq Opened', Up' => Matches',
         Gated', RevBehind', Reported'
  PROVE  IInv'
  BY DEF IInv, TableMatches, Matches, Opened

\* The entries stay, and so do the connections and their records.
LEMMA SameSockets ==
  ASSUME IInv, table' \in Seq(Socket), Len(table') = Len(table),
         \A j \in 1 .. Len(table) :
           Same(table'[j], table[j]) /\ table'[j].events = table[j].events,
         Opened' = Opened, clients' = clients, nmax' = nmax, Up' => Up,
         \A j \in 1 .. Len(table) : table[j].fd \in eof => table[j].fd \in eof'
  PROVE  clients' \subseteq Opened' /\ (Up' => Matches') /\ Gated'
<1>1. DOMAIN table' = DOMAIN table /\ DOMAIN table = 1 .. Len(table)
  BY Facts
<1>2. \A j \in DOMAIN table : /\ table'[j].fd = table[j].fd
                               /\ table'[j].is_listener = table[j].is_listener
                               /\ table'[j].data = table[j].data
                               /\ table'[j].events = table[j].events
  BY <1>1 DEF Same
<1>3. {table'[j].fd : j \in DOMAIN table'} = {table[j].fd : j \in DOMAIN table}
  BY <1>1, <1>2
<1>4. Gated'
  <2>1. Gated
    BY Facts
  <2> QED  BY <1>1, <1>2, <2>1 DEF Gated
<1>5. ASSUME Up' PROVE Matches'
  <2>1. Matches
    BY <1>5, Facts
  <2>2. \A j, k \in DOMAIN table' : table'[j].fd = table'[k].fd => j = k
    BY <1>1, <1>2, <2>1, Zenon DEF Matches
  <2>3. {table'[j].fd : j \in DOMAIN table'} = Listeners \cup Opened'
    BY <1>3, <2>1, Zenon DEF Matches
  <2>4. ASSUME NEW j \in DOMAIN table'
        PROVE  IF table'[j].is_listener THEN table'[j].fd \in Listeners
               ELSE \/ table'[j].data = table'[j].fd /\ table'[j].data \in clients'
                    \/ table'[j].data = NULL /\ table'[j].fd \in eof'
    BY <1>1, <1>2, <2>1 DEF Matches
  <2>5. Len(table') <= nmax'
    BY <2>1 DEF Matches
  <2> QED  BY <2>2, <2>3, <2>4, <2>5 DEF Matches
<1>6. clients' \subseteq Opened'
  BY Facts
<1> QED  BY <1>4, <1>5, <1>6

\* The table is as it was, and events are only looked for.
LEMMA TableUnchanged ==
  ASSUME IInv, TypeOK', UNCHANGED <<table, nmax, clients>>, i' \in Nat,
         Opened' = Opened, Up' => Up, eof \subseteq eof',
         \A j \in 1 .. Len(table) :
           table[j].revents => pc' \in {"serve", "crashed"} /\ j > i'
  PROVE  IInv' /\ Kept
<1>1. clients' \subseteq Opened' /\ (Up' => Matches') /\ Gated'
  BY Facts, SameSockets DEF Same
<1>2. RevBehind' /\ Reported'
  BY Facts DEF RevBehind, Reported
<1>3. Kept
  BY DEF Kept
<1> QED  BY <1>1, <1>2, <1>3, NextFacts

\* The same, but that the event at the loop's index has been served.
LEMMA TableCleared ==
  ASSUME IInv, TypeOK', i < Len(table), table' = Cleared, i' = i + 1, pc = "serve",
         UNCHANGED <<nmax, clients, pc>>,
         Opened' = Opened,
         \A j \in 1 .. Len(table) : table[j].fd \in eof => table[j].fd \in eof'
  PROVE  IInv' /\ Kept
<1>1. /\ table' \in Seq(Socket) /\ Len(table') = Len(table) /\ Cur \in Socket
      /\ \A j \in 1 .. Len(table) : table'[j] = IF j = i + 1 THEN Clear(Cur) ELSE table[j]
      /\ i + 1 \in 1 .. Len(table) /\ Cur = table[i + 1]
  BY Facts, ClearedTable DEF Cur
<1>2. \A j \in 1 .. Len(table) :
        /\ Same(table'[j], table[j]) /\ table'[j].events = table[j].events
        /\ table'[j].revents <=> table[j].revents /\ j # i + 1
  BY <1>1, Facts, CleanEntry DEF Same
<1>3. clients' \subseteq Opened' /\ (Up' => Matches') /\ Gated'
  BY <1>1, <1>2, SameSockets DEF Up
<1>4. DOMAIN table' = 1 .. Len(table) /\ DOMAIN table = 1 .. Len(table)
  BY <1>1, Facts
<1>5. RevBehind'
  <2>1. \A j \in 1 .. Len(table) : table[j].revents => j > i
    BY Facts DEF RevBehind
  <2> QED  BY <1>2, <1>4, <2>1, Facts DEF RevBehind
<1>6. Reported'
  BY <1>2, <1>4, Facts DEF Reported, Same
<1>7. Kept
  BY <1>2, <1>4 DEF Kept, Same
<1> QED  BY <1>3, <1>5, <1>6, <1>7, Facts, NextFacts

\* Steps of the peers and of main, and turns of the loop, that leave the table.
LEMMA LocalSteps ==
  ASSUME IInv, Quiet \/ PollReturns \/ EnterPoll \/ Signal \/ ReadyNull \/ ReadyPipe
  PROVE  IInv' /\ Kept
<1>1. TypeOK /\ i \in Nat /\ RevBehind /\ Len(table) \in Nat /\ DOMAIN table = 1 .. Len(table)
  BY Facts
<1>2. UNCHANGED <<table, nmax, clients, input, eof, link, sends>>
  BY DEF Quiet, PollReturns, EnterPoll, Signal, ReadyNull, ReadyPipe, kernel
<1>3. Opened' = Opened
  BY <1>2 DEF Opened
<1>4. CASE Quiet
  <2>1. TypeOK' /\ i' \in Nat /\ (Up' => Up)
    BY <1>1, <1>2, <1>4 DEF Quiet, TypeOK, Up
  <2>2. \A j \in 1 .. Len(table) : table[j].revents => pc' \in {"serve", "crashed"} /\ j > i'
    <3>1. pc = "serve" /\ pc' = pc /\ ~table[i + 1].revents /\ i' = i + 1
      BY <1>4 DEF Quiet, Cur
    <3> QED  BY <1>1, <3>1 DEF RevBehind
  <2> QED  BY <1>2, <1>3, <2>1, <2>2, TableUnchanged
<1>5. CASE PollReturns
  <2>1. TypeOK' /\ i' \in Nat /\ (Up' => Up)
    BY <1>1, <1>2, <1>5 DEF PollReturns, TypeOK, Up
  <2>2. \A j \in 1 .. Len(table) : ~table[j].revents
    BY <1>1, <1>5 DEF PollReturns, RevBehind
  <2> QED  BY <1>2, <1>3, <2>1, <2>2, TableUnchanged
<1>6. CASE EnterPoll
  <2>1. TypeOK' /\ i' \in Nat /\ (Up' => Up)
    BY <1>1, <1>2, <1>6 DEF EnterPoll, TypeOK, Up
  <2>2. \A j \in 1 .. Len(table) : ~table[j].revents
    BY <1>1, <1>6 DEF EnterPoll, RevBehind
  <2> QED  BY <1>2, <1>3, <2>1, <2>2, TableUnchanged
<1>7. CASE Signal
  <2>1. TypeOK' /\ i' \in Nat /\ (Up' => Up)
    BY <1>1, <1>2, <1>7 DEF Signal, TypeOK, Up
  <2>2. \A j \in 1 .. Len(table) : table[j].revents => pc' \in {"serve", "crashed"} /\ j > i'
    BY <1>1, <1>7 DEF Signal, RevBehind
  <2> QED  BY <1>2, <1>3, <2>1, <2>2, TableUnchanged
<1>8. CASE ReadyNull \/ ReadyPipe
  <2>1. pc = "serve" /\ pc' = "crashed" /\ i' = i /\ terminated' = terminated
    BY <1>8 DEF ReadyNull, ReadyPipe
  <2>2. TypeOK' /\ i' \in Nat /\ (Up' => Up)
    BY <1>1, <1>2, <2>1 DEF TypeOK, Up
  <2>3. \A j \in 1 .. Len(table) : table[j].revents => pc' \in {"serve", "crashed"} /\ j > i'
    BY <1>1, <2>1 DEF RevBehind
  <2> QED  BY <1>2, <1>3, <2>2, <2>3, TableUnchanged
<1> QED  BY <1>4, <1>5, <1>6, <1>7, <1>8

\* Steps of the peers: a connection that waits to be accepted is not open yet.
LEMMA PeerSteps ==
  ASSUME IInv, NEW c \in Peers, Connect(c) \/ Send(c) \/ Hangup(c)
  PROVE  IInv' /\ Kept
<1>1. TypeOK /\ i \in Nat /\ RevBehind /\ Len(table) \in Nat /\ DOMAIN table = 1 .. Len(table)
  BY Facts
<1>2. UNCHANGED <<table, nmax, clients, i, pc, terminated>> /\ (Up' => Up)
  BY DEF Connect, Send, Hangup, Up
<1>3. \A j \in 1 .. Len(table) : table[j].revents => pc' \in {"serve", "crashed"} /\ j > i'
  BY <1>1, <1>2 DEF RevBehind
<1>4. TypeOK'
  <2>1. link' \in [Peers -> {"away", "waiting", "open"}]
    BY <1>1 DEF TypeOK, Connect, Send, Hangup
  <2>2. MaxSends \in Nat
    BY ServerAssumption
  <2>3. sends' \in [Peers -> 0 .. MaxSends]
    BY <1>1, <2>2 DEF TypeOK, Connect, Send, Hangup
  <2>4. input' \subseteq Peers /\ eof' \subseteq Peers
    BY <1>1 DEF TypeOK, Connect, Send, Hangup
  <2> QED  BY <1>1, <1>2, <2>1, <2>3, <2>4 DEF TypeOK
<1>5. Opened' = Opened /\ eof \subseteq eof'
  BY <1>1 DEF Opened, TypeOK, Connect, Send, Hangup
<1> QED  BY <1>1, <1>2, <1>3, <1>4, <1>5, TableUnchanged

\* poll() reports events of sockets that are polled for, before the loop starts.
LEMMA PollStep ==
  ASSUME IInv, Poll
  PROVE  IInv' /\ Kept
<1> DEFINE Seen(e, b) == [e EXCEPT !.revents = b]
           g == [j \in 1 .. Len(table) |->
                   Seen(table[j], table[j].events /\ Ready(table[j]))]
<1>1. /\ TypeOK /\ RevBehind /\ pc = "poll" /\ table \in Seq(Socket)
      /\ Len(table) \in Nat /\ DOMAIN table = 1 .. Len(table)
      /\ \A j \in 1 .. Len(table) : table[j] \in Socket
  BY Facts DEF Poll
<1>2. ASSUME NEW e \in Socket, NEW b \in BOOLEAN
      PROVE  /\ Seen(e, b) \in Socket /\ Same(Seen(e, b), e)
             /\ Seen(e, b).events = e.events /\ Seen(e, b).revents = b
  BY DEF Socket, Same
<1>3. \A j \in 1 .. Len(table) : (table[j].events /\ Ready(table[j])) \in BOOLEAN
  BY Zenon
<1>4. table' = [j \in DOMAIN table |-> Seen(table[j], table[j].events /\ Ready(table[j]))]
  BY Zenon DEF Poll
<1> HIDE DEF Seen
<1>5. g \in [1 .. Len(table) -> Socket]
  BY <1>1, <1>2, <1>3, Zenon
<1>6. table' = [j \in DOMAIN table |-> g[j]]
  BY <1>1, <1>4
<1>7. \A j \in 1 .. Len(table) : g[j] = Seen(table[j], table[j].events /\ Ready(table[j]))
  OBVIOUS
<1> HIDE DEF g
<1>8. /\ table' \in Seq(Socket) /\ Len(table') = Len(table)
      /\ \A j \in 1 .. Len(table) : table'[j] = g[j]
  BY <1>1, <1>5, <1>6, EachSocket
<1>9. \A j \in 1 .. Len(table) :
        /\ Same(table'[j], table[j]) /\ table'[j].events = table[j].events
        /\ table'[j].revents => table'[j].events
  <2> SUFFICES ASSUME NEW j \in 1 .. Len(table)
               PROVE  /\ Same(table'[j], table[j]) /\ table'[j].events = table[j].events
                      /\ table'[j].revents => table'[j].events
    OBVIOUS
  <2>1. PICK b \in BOOLEAN : b = (table[j].events /\ Ready(table[j]))
    BY <1>3, Zenon
  <2>2. table'[j] = Seen(table[j], b)
    BY <1>7, <1>8, <2>1, Zenon
  <2>3. table[j] \in Socket
    BY <1>1
  <2>4. /\ Same(table'[j], table[j]) /\ table'[j].events = table[j].events
        /\ table'[j].revents = b
    BY <1>2, <2>2, <2>3
  <2> QED  BY <2>1, <2>4, Zenon
<1>10. UNCHANGED <<nmax, clients, terminated, input, eof, link, sends>> /\ i' = 0 /\ pc' = "serve"
  BY DEF Poll, kernel
<1>11. Opened' = Opened /\ (Up' => Up)
  BY <1>1, <1>10 DEF Opened, Up
<1>12. clients' \subseteq Opened' /\ (Up' => Matches') /\ Gated'
  BY <1>8, <1>9, <1>10, <1>11, SameSockets
<1>13. TypeOK' /\ i' \in Nat
  BY <1>1, <1>8, <1>10 DEF TypeOK, Socket
<1>14. DOMAIN table' = 1 .. Len(table)
  BY <1>1, <1>8
<1>15. RevBehind' /\ Reported'
  BY <1>9, <1>10, <1>14 DEF RevBehind, Reported
<1>16. Kept
  BY <1>1 DEF Kept, RevBehind
<1> QED  BY <1>12, <1>13, <1>15, <1>16, NextFacts

-----------------------------------------------------------------------------
(* Accepting a connection. *)

\* A connection that is not open has no entry.
LEMMA NotInTable ==
  ASSUME IInv, Up, NEW c \in Peers, link[c] # "open"
  PROVE  \A j \in 1 .. Len(table) : table[j].fd # c
<1>1. Matches /\ DOMAIN table = 1 .. Len(table)
  BY Facts
<1>2. c \notin Listeners \cup Opened
  BY ServerAssumption DEF Opened
<1> QED  BY <1>1, <1>2 DEF Matches

\* server_accept, when it fails.
LEMMA AcceptFailures ==
  ASSUME IInv, AcceptFails \/ \E c \in Peers : AcceptNoRoom(c)
  PROVE  IInv' /\ Kept
<1>1. /\ TypeOK /\ i \in Nat /\ Len(table) \in Nat
      /\ pc = "serve" /\ i < Len(table) /\ table' = Cleared /\ i' = i + 1
      /\ UNCHANGED <<nmax, clients, pc, terminated>>
  BY Facts DEF AcceptFails, AcceptNoRoom, Serving
<1>2. table' \in Seq(Socket) /\ Len(table') = Len(table)
  BY <1>1, ClearedTable
<1>3. CASE AcceptFails
  <2>1. UNCHANGED <<input, eof, link, sends>>
    BY <1>3 DEF AcceptFails, kernel
  <2>2. TypeOK'
    BY <1>1, <1>2, <2>1 DEF TypeOK, Socket
  <2>3. Opened' = Opened
    BY <2>1 DEF Opened
  <2> QED  BY <1>1, <2>1, <2>2, <2>3, TableCleared
<1>4. CASE \E c \in Peers : AcceptNoRoom(c)
  <2>1. PICK c \in Peers : AcceptNoRoom(c)
    BY <1>4
  <2>2. /\ link[c] = "waiting" /\ link' = [link EXCEPT ![c] = "away"]
        /\ sends' = [sends EXCEPT ![c] = 0]
        /\ input' = input \ {c} /\ eof' = eof \ {c}
    BY <2>1 DEF AcceptNoRoom
  <2>3. MaxSends \in Nat
    BY ServerAssumption
  <2>4. link' \in [Peers -> {"away", "waiting", "open"}] /\ sends' \in [Peers -> 0 .. MaxSends]
    BY <1>1, <2>2, <2>3 DEF TypeOK
  <2>5. TypeOK'
    BY <1>1, <1>2, <2>2, <2>4 DEF TypeOK, Socket
  <2>6. Opened' = Opened
    BY <1>1, <2>2 DEF Opened, TypeOK
  <2>7. \A j \in 1 .. Len(table) : table[j].fd \in eof => table[j].fd \in eof'
    BY <1>1, <2>2, NotInTable DEF Up
  <2> QED  BY <1>1, <2>5, <2>6, <2>7, TableCleared
<1> QED  BY <1>3, <1>4

\* The entries that were there keep their connections and events, but that the
\* listeners are held off if the n sockets fill the table.
IsAccepted(c, d, n) ==
  /\ n \in Nat /\ n <= max_sockets
  /\ table' \in Seq(Socket) /\ Len(table') = n
  /\ table'[n].fd = c /\ table'[n].data = d
  /\ ~table'[n].is_listener /\ ~table'[n].revents
  /\ \A j \in 1 .. Len(table) :
       /\ Same(table'[j], table[j])
       /\ table[j].is_listener => (table'[j].events <=> n < max_sockets)
       /\ table'[j].revents =>
            /\ table[j].revents /\ j # i + 1
            /\ table[j].is_listener => n < max_sockets
       /\ table[j].revents => \/ j = i + 1 \/ table'[j].revents
                              \/ table[j].is_listener /\ n >= max_sockets

\* What an accepted connection makes of the table.
LEMMA AcceptedTable ==
  ASSUME IInv, pc = "serve", i < Len(table), Cur.is_listener, Cur.revents,
         NEW c \in Peers, link[c] = "waiting", NEW d \in Peers \cup {NULL},
         table' = SetData(server_add_socket(Cleared, c), c, d)
  PROVE  IsAccepted(c, d, Len(table) + 1)
<1> DEFINE n == Len(table) + 1
<1>0. n = Len(table) + 1
  OBVIOUS
<1> HIDE DEF n
<1> USE <1>0
<1>1. /\ TypeOK /\ i \in Nat /\ Gated /\ Reported /\ table \in Seq(Socket) /\ Len(table) \in Nat
      /\ DOMAIN table = 1 .. Len(table) /\ i + 1 \in 1 .. Len(table) /\ n \in Nat
      /\ max_sockets \in Nat
      /\ \A j \in 1 .. Len(table) : table[j] \in Socket
  BY Facts, Sizes
<1>2. Len(table) < max_sockets
  BY <1>1 DEF Gated, Reported, Cur
<1>3. \A j \in 1 .. Len(table) : table[j].fd # c
  BY NotInTable DEF Up
<1>4. /\ table' \in Seq(Socket) /\ Len(table') = n
      /\ table'[n] = WithData(Entry(c, FALSE, NULL), d)
      /\ \A j \in 1 .. Len(table) :
           table'[j] = IF n >= max_sockets THEN Switch(Cleared[j], FALSE) ELSE Cleared[j]
  <2>1. IsAdded(table', c, d)
    BY <1>1, <1>3, Added
  <2>2. /\ table' \in Seq(Socket) /\ Len(table') = Len(table) + 1
        /\ table'[Len(table) + 1] = WithData(Entry(c, FALSE, NULL), d)
        /\ \A j \in 1 .. Len(table) :
             table'[j] = IF Len(table) + 1 >= max_sockets
                         THEN Switch(Cleared[j], FALSE) ELSE Cleared[j]
    BY <2>1, Zenon DEF IsAdded
  <2> QED  BY <2>2, Zenon
<1>5. /\ table'[n].fd = c /\ table'[n].data = d
      /\ ~table'[n].is_listener /\ ~table'[n].revents
  <2>1. /\ Entry(c, FALSE, NULL) \in Socket /\ Entry(c, FALSE, NULL).fd = c
        /\ ~Entry(c, FALSE, NULL).is_listener /\ ~Entry(c, FALSE, NULL).revents
    BY NewEntry, Zenon
  <2>2. /\ table'[n].data = d /\ table'[n].fd = Entry(c, FALSE, NULL).fd
        /\ table'[n].is_listener = Entry(c, FALSE, NULL).is_listener
        /\ table'[n].revents = Entry(c, FALSE, NULL).revents
    <3> DEFINE e == Entry(c, FALSE, NULL)
    <3>1. e \in Socket
      BY <2>1, Zenon
    <3> HIDE DEF e
    <3>2. /\ WithData(e, d).data = d /\ WithData(e, d).fd = e.fd
          /\ WithData(e, d).is_listener = e.is_listener /\ WithData(e, d).revents = e.revents
      BY <3>1, SetEntry
    <3> QED  BY <1>4, <3>2, Zenon DEF e
  <2> QED  BY <2>1, <2>2, Zenon
<1>6. ASSUME NEW j \in 1 .. Len(table)
      PROVE  /\ Same(table'[j], table[j])
             /\ table[j].is_listener => (table'[j].events <=> n < max_sockets)
             /\ table'[j].revents =>
                  /\ table[j].revents /\ j # i + 1
                  /\ table[j].is_listener => n < max_sockets
             /\ table[j].revents => \/ j = i + 1 \/ table'[j].revents
                                    \/ table[j].is_listener /\ n >= max_sockets
  <2>1. /\ Cleared[j] \in Socket /\ Same(Cleared[j], table[j])
        /\ Cleared[j].events = table[j].events
        /\ Cleared[j].revents <=> table[j].revents /\ j # i + 1
    BY <1>1, ClearedTable, CleanEntry DEF Same, Cur
  <2>2. table[j].is_listener => table[j].events
    BY <1>1, <1>2 DEF Gated
  <2>3. CASE n >= max_sockets
    <3>1. table'[j] = Switch(Cleared[j], FALSE)
      BY <1>4, <2>3, Zenon
    <3>2. /\ Same(table'[j], Cleared[j])
          /\ ~Cleared[j].is_listener => table'[j] = Cleared[j]
          /\ Cleared[j].is_listener => ~table'[j].events /\ ~table'[j].revents
      BY <2>1, <3>1, SwitchedEntry, ZenonT(30)
    <3> QED  BY <1>1, <2>1, <2>3, <3>2 DEF Same
  <2>4. CASE ~(n >= max_sockets)
    <3>1. table'[j] = Cleared[j]
      BY <1>4, <2>4, Zenon
    <3> QED  BY <1>1, <2>1, <2>2, <2>4, <3>1 DEF Same
  <2> QED  BY <2>3, <2>4, Zenon
<1>7. n <= max_sockets
  BY <1>1, <1>2
<1>8. IsAccepted(c, d, n)
  BY <1>1, <1>4, <1>5, <1>6, <1>7, Zenon DEF IsAccepted
<1> QED  BY <1>8, Zenon

\* server_accept: the connection, its entry and its record come together, or
\* the connection is shut down.
LEMMA AcceptStep ==
  ASSUME IInv, NEW c \in Peers, Accept(c)
  PROVE  IInv' /\ Kept
<1> DEFINE n == Len(table) + 1
<1>1. /\ TypeOK /\ i \in Nat /\ RevBehind /\ Len(table) \in Nat /\ DOMAIN table = 1 .. Len(table)
      /\ clients \subseteq Opened /\ (Up => Matches)
      /\ \A j \in 1 .. Len(table) : table[j] \in Socket
  BY Facts
<1>2. /\ pc = "serve" /\ i < Len(table) /\ Cur.is_listener /\ Cur.revents
      /\ link[c] = "waiting" /\ link' = [link EXCEPT ![c] = "open"]
      /\ nmax' = server_resize(n) /\ i' = i + 1
      /\ UNCHANGED <<pc, terminated, input, sends>>
  BY DEF Accept, Serving
<1>3. PICK d \in {c, NULL} :
        /\ table' = SetData(server_add_socket(Cleared, c), c, d)
        /\ \/ d = c /\ clients' = clients \cup {c} /\ eof' = eof
           \/ d = NULL /\ clients' = clients /\ eof' = eof \cup {c}
  BY DEF Accept
<1>4. Matches
  BY <1>1, <1>2 DEF Up
<1>5. n \in Nat /\ nmax' \in Nat /\ n <= nmax'
  BY <1>1, <1>2, Resized DEF TypeOK
<1>6. d \in Peers \cup {NULL}
  BY <1>3
<1>7. /\ n <= max_sockets
      /\ table' \in Seq(Socket) /\ Len(table') = n
      /\ table'[n].fd = c /\ table'[n].data = d
      /\ ~table'[n].is_listener /\ ~table'[n].revents
      /\ \A j \in 1 .. Len(table) :
           /\ Same(table'[j], table[j])
           /\ table[j].is_listener => (table'[j].events <=> n < max_sockets)
           /\ table'[j].revents =>
                /\ table[j].revents /\ j # i + 1
                /\ table[j].is_listener => n < max_sockets
           /\ table[j].revents => \/ j = i + 1 \/ table'[j].revents
                                  \/ table[j].is_listener /\ n >= max_sockets
  <2>1. IsAccepted(c, d, Len(table) + 1)
    BY <1>2, <1>3, <1>6, AcceptedTable
  <2> QED  BY <2>1, Zenon DEF IsAccepted
<1>8. DOMAIN table' = 1 .. n
  BY <1>7
<1> HIDE DEF n
<1>9. n = Len(table) + 1
  BY DEF n
<1>10. link' \in [Peers -> {"away", "waiting", "open"}]
  BY <1>1, <1>2, SMTT(30) DEF TypeOK
<1>11. TypeOK' /\ i' \in Nat
  <2>1. i' \in 0 .. Len(table')
    BY <1>1, <1>2, <1>7, <1>9
  <2>2. clients' \subseteq Peers /\ eof' \subseteq Peers
    BY <1>1, <1>3 DEF TypeOK
  <2> QED  BY <1>1, <1>2, <1>5, <1>7, <1>10, <2>1, <2>2, SMTT(30) DEF TypeOK, Socket
<1>12. Opened' = Opened \cup {c}
  BY <1>1, <1>2 DEF Opened, TypeOK
<1>13. clients' \subseteq Opened'
  BY <1>1, <1>3, <1>12
<1>14. \A j \in 1 .. Len(table) : table[j].fd # c /\ table'[j].fd = table[j].fd
  BY <1>2, <1>7, NotInTable DEF Up, Same
<1>15. \A j \in 1 .. n : j \in 1 .. Len(table) \/ j = n
  BY <1>1, <1>9
<1>16. 1 .. Len(table) \subseteq 1 .. n /\ n \in 1 .. n
  BY <1>1, <1>9
<1>17. Matches'
  <2>1. \A j, k \in DOMAIN table' : table'[j].fd = table'[k].fd => j = k
    <3> SUFFICES ASSUME NEW j \in 1 .. n, NEW k \in 1 .. n, table'[j].fd = table'[k].fd
                 PROVE  j = k
      BY <1>8
    <3>1. CASE j = n /\ k = n
      BY <3>1
    <3>2. CASE j = n /\ k \in 1 .. Len(table)
      BY <1>7, <1>14, <3>2
    <3>3. CASE k = n /\ j \in 1 .. Len(table)
      BY <1>7, <1>14, <3>3
    <3>4. CASE j \in 1 .. Len(table) /\ k \in 1 .. Len(table)
      BY <1>1, <1>4, <1>14, <3>4 DEF Matches
    <3> QED  BY <1>15, <3>1, <3>2, <3>3, <3>4
  <2>2. {table'[j].fd : j \in DOMAIN table'} = Listeners \cup Opened'
    <3>1. {table'[j].fd : j \in 1 .. n} = {table[j].fd : j \in 1 .. Len(table)} \cup {c}
      BY <1>7, <1>14, <1>15, <1>16
    <3>2. {table[j].fd : j \in 1 .. Len(table)} = Listeners \cup Opened
      BY <1>1, <1>4 DEF Matches
    <3> QED  BY <1>8, <1>12, <3>1, <3>2
  <2>3. ASSUME NEW j \in DOMAIN table'
        PROVE  IF table'[j].is_listener THEN table'[j].fd \in Listeners
               ELSE \/ table'[j].data = table'[j].fd /\ table'[j].data \in clients'
                    \/ table'[j].data = NULL /\ table'[j].fd \in eof'
    <3>1. CASE j \in 1 .. Len(table)
      BY <1>1, <1>3, <1>4, <1>7, <3>1, SMTT(30) DEF Matches, Same
    <3>2. CASE j = n
      BY <1>3, <1>7, <3>2
    <3> QED  BY <1>8, <1>15, <3>1, <3>2, SMTT(30)
  <2>4. Len(table') <= nmax'
    BY <1>5, <1>7, SMTT(30)
  <2> QED  BY <2>1, <2>2, <2>3, <2>4 DEF Matches
<1>18. Gated'
  <2>1. \A j \in 1 .. n : table'[j].is_listener => (table'[j].events <=> n < max_sockets)
    BY <1>7, <1>15 DEF Same
  <2> QED  BY <1>7, <1>8, <2>1 DEF Gated
<1>19. RevBehind'
  <2>1. \A j \in 1 .. n : table'[j].revents => j \in 1 .. Len(table) /\ j > i /\ j # i + 1
    BY <1>1, <1>7, <1>15 DEF RevBehind
  <2> QED  BY <1>1, <1>2, <1>8, <2>1, SMTT(30) DEF RevBehind
<1>20. Reported'
  BY <1>7, <1>8, <1>15 DEF Reported, Same
<1>21. Kept
  <2>1. \A j \in 1 .. Len(table) :
          table[j].revents => \/ j = i + 1
                              \/ j \in DOMAIN table' /\ table'[j].fd = table[j].fd /\ table'[j].revents
                              \/ table[j].is_listener /\ Len(table') >= max_sockets
    BY <1>7, <1>8, <1>14, <1>16
  <2> QED  BY <1>1, <2>1, Zenon DEF Kept
<1> QED  BY <1>11, <1>13, <1>17, <1>18, <1>19, <1>20, <1>21, NextFacts, SMTT(30)

-----------------------------------------------------------------------------
(* Closing a connection. *)

\* What close_delete_socket makes of the n entries that are left.
IsClosed(n) ==
  /\ n \in Nat /\ n < max_sockets
  /\ table' \in Seq(Socket) /\ Len(table') = n
  /\ \A j \in 1 .. n :
       /\ Old(j) \in 1 .. Len(table) /\ Old(j) # i + 1
       /\ Same(table'[j], table[Old(j)])
       /\ table'[j].is_listener => table'[j].events
       /\ table'[j].revents = table[Old(j)].revents

\* close_delete_socket keeps every other entry and its event.
LEMMA ClosedTable ==
  ASSUME IInv, i < Len(table), table' = close_delete_socket(Cleared, i + 1)
  PROVE  IsClosed(Len(table) - 1)
<1> DEFINE n == Len(table) - 1
<1>0. n = Len(table) - 1
  OBVIOUS
<1> HIDE DEF n
<1> USE <1>0
<1>1. /\ TypeOK /\ i \in Nat /\ Gated /\ Len(table) \in Nat /\ DOMAIN table = 1 .. Len(table)
      /\ n \in Nat /\ max_sockets \in Nat
      /\ \A j \in 1 .. Len(table) : table[j] \in Socket
  BY Facts, Sizes
<1>2. /\ table' \in Seq(Socket) /\ Len(table') = n
      /\ \A j \in 1 .. n :
           /\ Old(j) \in 1 .. Len(table) /\ Old(j) # i + 1
           /\ table'[j] = IF n = max_sockets - 1 THEN Switch(table[Old(j)], TRUE)
                                                 ELSE table[Old(j)]
  <2>1. IsRemoved(table')
    BY <1>1, Removed
  <2> QED  BY <2>1, Zenon DEF IsRemoved
<1>3. Len(table) <= max_sockets
  BY <1>1 DEF Gated
<1>4. n < max_sockets
  BY <1>1, <1>3
<1>5. ASSUME NEW j \in 1 .. n
      PROVE  /\ Same(table'[j], table[Old(j)])
             /\ table'[j].is_listener => table'[j].events
             /\ table'[j].revents = table[Old(j)].revents
  <2>1. table[Old(j)] \in Socket
    BY <1>1, <1>2, Zenon
  <2>2. CASE n = max_sockets - 1
    <3>1. table'[j] = Switch(table[Old(j)], TRUE)
      BY <1>2, <2>2, Zenon
    <3> DEFINE e == table[Old(j)]
    <3>2. e \in Socket /\ table'[j] = Switch(e, TRUE)
      BY <2>1, <3>1, Zenon
    <3> HIDE DEF e
    <3>3. /\ Same(Switch(e, TRUE), e) /\ (~e.is_listener => Switch(e, TRUE) = e)
          /\ e.is_listener => /\ Switch(e, TRUE).events
                              /\ Switch(e, TRUE).revents = e.revents
      BY <3>2, SwitchedEntry, Zenon
    <3>4. Switch(e, TRUE).is_listener = e.is_listener
      BY <3>3, Zenon DEF Same
    <3>5. Switch(e, TRUE).revents = e.revents
      BY <3>3, Zenon
    <3> QED  BY <3>2, <3>3, <3>4, <3>5, Zenon DEF e
  <2>3. CASE n # max_sockets - 1
    <3>1. table'[j] = table[Old(j)]
      BY <1>2, <2>3
    <3>2. Len(table) < max_sockets
      BY <1>1, <1>3, <2>3
    <3>3. table[Old(j)].is_listener => table[Old(j)].events
      BY <1>1, <1>2, <3>2, Zenon DEF Gated
    <3> QED  BY <3>1, <3>3 DEF Same
  <2> QED  BY <2>2, <2>3
<1>6. IsClosed(n)
  BY <1>1, <1>2, <1>4, <1>5, Zenon DEF IsClosed
<1> QED  BY <1>6, Zenon

\* The connection at the loop's index is closed, its record freed, and the entry
\* moved into its place is served next.
LEMMA CloseStep ==
  ASSUME IInv, pc = "serve", i < Len(table), ~Cur.is_listener, Cur.data # NULL,
         NEW dropped \in SUBSET clients, CloseCur(dropped), UNCHANGED <<pc, terminated>>
  PROVE  IInv' /\ Kept
<1> DEFINE c == Cur.fd
           n == Len(table) - 1
<1>1. /\ TypeOK /\ i \in Nat /\ RevBehind /\ Len(table) \in Nat /\ DOMAIN table = 1 .. Len(table)
      /\ clients \subseteq Opened /\ i + 1 \in 1 .. Len(table) /\ n \in Nat
  BY Facts
<1>2. Matches
  BY Facts DEF Up
<1>3. Cur = table[i + 1] /\ c = table[i + 1].fd
  BY DEF Cur
<1>4. c \in clients /\ c \in Opened /\ c \in Peers /\ c \notin Listeners
  BY <1>1, <1>2, <1>3, ServerAssumption DEF Matches, Opened
<1>5. /\ nmax' = server_resize(n) /\ clients' = clients \ {c}
      /\ link' = [link EXCEPT ![c] = "away"] /\ sends' = [sends EXCEPT ![c] = 0]
      /\ input' = input \ {c} /\ eof' = (eof \cup dropped) \ {c} /\ i' = i
  BY DEF CloseCur
<1>6. /\ n < max_sockets
      /\ table' \in Seq(Socket) /\ Len(table') = n
      /\ \A j \in 1 .. n :
           /\ Old(j) \in 1 .. Len(table) /\ Old(j) # i + 1
           /\ Same(table'[j], table[Old(j)])
           /\ table'[j].is_listener => table'[j].events
           /\ table'[j].revents = table[Old(j)].revents
  <2>1. IsClosed(Len(table) - 1)
    BY ClosedTable DEF CloseCur
  <2> QED  BY <2>1, Zenon DEF IsClosed
<1>7. DOMAIN table' = 1 .. n
  BY <1>6
<1> HIDE DEF c, n
<1>8. n = Len(table) - 1
  BY DEF n
<1>9. \A j, k \in 1 .. n : Old(j) = Old(k) => j = k
  BY <1>1, <1>8 DEF Old
<1>10. \A j \in 1 .. Len(table) : j # i + 1 => \E k \in 1 .. n : Old(k) = j
  <2> SUFFICES ASSUME NEW j \in 1 .. Len(table), j # i + 1
               PROVE  \E k \in 1 .. n : Old(k) = j
    OBVIOUS
  <2>0. i \in Nat /\ Len(table) \in Nat /\ n = Len(table) - 1 /\ i + 1 \in 1 .. Len(table)
    BY <1>1, <1>8
  <2>1. CASE j = Len(table)
    <3>1. Old(i + 1) = j
      BY <2>1 DEF Old
    <3>2. i + 1 \in 1 .. n
      BY <2>1, <2>0
    <3> QED  BY <3>1, <3>2
  <2>2. CASE j # Len(table)
    <3>1. Old(j) = j
      BY DEF Old
    <3>2. j \in 1 .. n
      BY <2>2, <2>0
    <3> QED  BY <3>1, <3>2
  <2> QED  BY <2>1, <2>2
<1>11. TypeOK' /\ i' \in Nat
  <2>1. n \in Nat /\ nmax' \in Nat /\ n <= nmax' /\ i' \in 0 .. n
    BY <1>1, <1>5, <1>8, Resized DEF TypeOK
  <2>2. link' \in [Peers -> {"away", "waiting", "open"}]
    BY <1>1, <1>5, Zenon DEF TypeOK
  <2>3. MaxSends \in Nat
    BY ServerAssumption
  <2>4. sends' \in [Peers -> 0 .. MaxSends]
    <3>1. sends \in [Peers -> 0 .. MaxSends] /\ 0 \in 0 .. MaxSends
      BY <1>1, <2>3 DEF TypeOK
    <3> QED  BY <1>5, <3>1, Zenon
  <2>5. clients' \subseteq Peers /\ input' \subseteq Peers /\ eof' \subseteq Peers
    BY <1>1, <1>5 DEF TypeOK
  <2> QED  BY <1>1, <1>6, <2>1, <2>2, <2>4, <2>5, SMTT(30) DEF TypeOK, Socket
<1>12. Opened' = Opened \ {c}
  BY <1>1, <1>4, <1>5 DEF Opened, TypeOK
<1>13. clients' \subseteq Opened'
  BY <1>1, <1>5, <1>12, SMTT(30)
<1>14. \A j \in 1 .. Len(table) : j # i + 1 => table[j].fd # c
  BY <1>1, <1>2, <1>3 DEF Matches
<1>15. \A j \in 1 .. n : table'[j].fd = table[Old(j)].fd /\ table'[j].fd # c
  BY <1>6, <1>14 DEF Same
<1>16. Matches'
  <2>1. \A j, k \in DOMAIN table' : table'[j].fd = table'[k].fd => j = k
    BY <1>1, <1>2, <1>6, <1>7, <1>9, <1>15 DEF Matches
  <2>2. {table'[j].fd : j \in DOMAIN table'} = Listeners \cup Opened'
    <3>1. {table'[j].fd : j \in 1 .. n} = {table[j].fd : j \in 1 .. Len(table)} \ {c}
      <4>1. \A j \in 1 .. n : table'[j].fd \in {table[k].fd : k \in 1 .. Len(table)} \ {c}
        BY <1>6, <1>15
      <4>2. ASSUME NEW k \in 1 .. Len(table), table[k].fd # c
            PROVE  \E j \in 1 .. n : table'[j].fd = table[k].fd
        <5>1. k # i + 1
          BY <1>3, <4>2
        <5>2. PICK j \in 1 .. n : Old(j) = k
          BY <1>10, <5>1
        <5> QED  BY <1>15, <5>2
      <4> QED  BY <4>1, <4>2
    <3>2. {table[j].fd : j \in 1 .. Len(table)} = Listeners \cup Opened
      BY <1>1, <1>2, SMTT(30) DEF Matches
    <3> QED  BY <1>4, <1>7, <1>12, <3>1, <3>2, ZenonT(30)
  <2>3. ASSUME NEW j \in DOMAIN table'
        PROVE  IF table'[j].is_listener THEN table'[j].fd \in Listeners
               ELSE \/ table'[j].data = table'[j].fd /\ table'[j].data \in clients'
                    \/ table'[j].data = NULL /\ table'[j].fd \in eof'
    BY <1>1, <1>2, <1>5, <1>6, <1>7, <1>15, SMTT(30) DEF Matches, Same
  <2>4. Len(table') <= nmax'
    BY <1>1, <1>5, <1>6, <1>8, Resized, SMTT(30) DEF TypeOK
  <2> QED  BY <2>1, <2>2, <2>3, <2>4, SMTT(30) DEF Matches
<1>17. Gated'
  BY <1>1, <1>6, <1>7, <1>8, Sizes DEF Gated
<1>18. RevBehind'
  <2>1. \A j \in 1 .. n : table'[j].revents => Old(j) > i
    BY <1>1, <1>6, SMTT(30) DEF RevBehind
  <2>2. \A j \in 1 .. n : Old(j) > i => j > i
    BY <1>1 DEF Old
  <2> QED  BY <1>5, <1>7, <2>1, <2>2 DEF RevBehind
<1>19. Reported'
  BY <1>6, <1>7 DEF Reported
<1>20. Kept
  <2> SUFFICES ASSUME NEW j \in 1 .. Len(table), table[j].revents, j # i + 1
               PROVE  \E k \in DOMAIN table' : table'[k].fd = table[j].fd /\ table'[k].revents
    BY <1>1, Zenon DEF Kept
  <2>1. PICK k \in 1 .. n : Old(k) = j
    BY <1>10
  <2>2. table'[k].fd = table[j].fd /\ table'[k].revents
    BY <1>6, <1>15, <2>1
  <2> QED  BY <1>7, <2>2
<1> QED  BY <1>11, <1>13, <1>16, <1>17, <1>18, <1>19, <1>20, NextFacts

\* on_net_ready keeps the connection it serves, or closes it.
LEMMA ReadySteps ==
  ASSUME IInv, ReadyInput \/ ReadyEof
  PROVE  IInv' /\ Kept
<1>1. /\ TypeOK /\ i \in Nat /\ Len(table) \in Nat /\ pc = "serve" /\ i < Len(table)
      /\ ~Cur.is_listener /\ Cur.data # NULL /\ UNCHANGED <<pc, terminated>>
  BY Facts DEF ReadyInput, ReadyEof, Serving
<1>2. CASE \E dropped \in SUBSET clients : CloseCur(dropped)
  BY <1>1, <1>2, CloseStep
<1>3. CASE \E dropped \in SUBSET clients :
             /\ table' = Cleared /\ input' = input \ {Cur.fd} /\ eof' = eof \cup dropped
             /\ i' = i + 1 /\ UNCHANGED <<nmax, clients, link, sends>>
  <2>1. PICK dropped \in SUBSET clients :
             /\ table' = Cleared /\ input' = input \ {Cur.fd} /\ eof' = eof \cup dropped
             /\ i' = i + 1 /\ UNCHANGED <<nmax, clients, link, sends>>
    BY <1>3
  <2>2. table' \in Seq(Socket) /\ Len(table') = Len(table)
    BY <1>1, <2>1, ClearedTable
  <2>3. TypeOK'
    BY <1>1, <2>1, <2>2 DEF TypeOK, Socket
  <2>4. Opened' = Opened
    BY <2>1 DEF Opened
  <2> QED  BY <1>1, <2>1, <2>3, <2>4, TableCleared
<1>4. {} \in SUBSET clients
  OBVIOUS
<1> QED  BY <1>2, <1>3, <1>4, Zenon DEF ReadyInput, ReadyEof

\* server_free frees every client record: each has its socket in the table.
LEMMA ExitStep ==
  ASSUME IInv, Exit
  PROVE  IInv' /\ Kept
<1>1. /\ TypeOK /\ i \in Nat /\ RevBehind /\ Len(table) \in Nat /\ DOMAIN table = 1 .. Len(table)
      /\ clients \subseteq Opened /\ pc = "exit" /\ UNCHANGED <<i, terminated>>
  BY Facts DEF Exit
<1>2. \A j \in 1 .. Len(table) : ~table[j].revents
  BY <1>1 DEF RevBehind
<1>3. CASE pc' = "crashed" /\ UNCHANGED <<table, nmax, clients, kernel>>
  <2>1. UNCHANGED <<table, nmax, clients, input, eof, link, sends>> /\ pc' = "crashed"
    BY <1>3 DEF kernel
  <2>2. TypeOK' /\ (Up' => Up)
    BY <1>1, <2>1 DEF TypeOK, Up
  <2>3. Opened' = Opened
    BY <2>1 DEF Opened
  <2> QED  BY <1>1, <1>2, <2>1, <2>2, <2>3, TableUnchanged
<1>4. CASE /\ ~\E j \in DOMAIN table : ~table[j].is_listener /\ table[j].data = NULL
           /\ pc' = "ended" /\ table' = <<>> /\ nmax' = 0
           /\ clients' = clients \ {table[j].data : j \in DOMAIN table}
           /\ link' = [c \in Peers |-> "away"] /\ input' = {} /\ eof' = {}
           /\ sends' = [c \in Peers |-> 0]
  <2>1. Matches
    BY <1>1, Facts DEF Up
  <2>2. clients' = {}
    <3> SUFFICES ASSUME NEW c \in clients
                 PROVE  c \in {table[j].data : j \in DOMAIN table}
      BY <1>4
    <3>1. c \in Peers /\ c \in Opened /\ c \notin Listeners
      BY <1>1, ServerAssumption DEF TypeOK
    <3>2. PICK j \in DOMAIN table : table[j].fd = c
      BY <2>1, <3>1 DEF Matches
    <3>3. table[j].data = c
      BY <1>4, <2>1, <3>1, <3>2 DEF Matches
    <3> QED  BY <3>3
  <2>3. MaxSends \in Nat
    BY ServerAssumption
  <2>4. sends' \in [Peers -> 0 .. MaxSends]
    BY <1>4, <2>3
  <2>5. TypeOK'
    BY <1>1, <1>4, <2>2, <2>4 DEF TypeOK
  <2>6. Len(table') = 0 /\ DOMAIN table' = {}
    BY <1>4
  <2>7. Gated' /\ RevBehind' /\ Reported'
    BY <1>1, <2>6, Sizes DEF Gated, RevBehind, Reported
  <2>8. clients' \subseteq Opened' /\ ~Up'
    BY <1>4, <2>2 DEF Up
  <2>9. Kept
    BY <1>1, <1>2 DEF Kept
  <2> QED  BY <1>1, <2>5, <2>7, <2>8, <2>9, NextFacts
<1> QED  BY <1>3, <1>4 DEF Exit

-----------------------------------------------------------------------------
(* The specification. *)

\* main() adds standard input and the listeners once each.
LEMMA InitHolds == Init => IInv
<1> SUFFICES ASSUME Init PROVE IInv
  OBVIOUS
<1> DEFINE N == Cardinality(StdinPeers) + Cardinality(Listeners)
           T == StdinPeers \cup Listeners
           f == [j \in 1 .. N |-> table[j].fd]
<1>1. /\ IsFiniteSet(Listeners) /\ IsFiniteSet(StdinPeers)
      /\ StdinPeers \subseteq Peers /\ Listeners \cap Peers = {} /\ NULL \notin Peers \cup Listeners
      /\ MaxSends \in Nat /\ max_sockets \in Nat
  BY ServerAssumption
<1>2. /\ Cardinality(StdinPeers) \in Nat /\ Cardinality(Listeners) \in Nat
      /\ N \in Nat /\ N < max_sockets
  BY <1>1, FS_CardinalityType, ServerAssumption
<1>3. IsFiniteSet(T) /\ Cardinality(T) = N
  <2>1. StdinPeers \cap Listeners = {} /\ Cardinality({}) = 0
    BY <1>1, FS_EmptySet
  <2> QED  BY <1>1, <1>2, <2>1, FS_Union
<1>4. ASSUME NEW e \in {Entry(c, FALSE, c) : c \in StdinPeers} \cup {Entry(l, TRUE, NULL) : l \in Listeners}
      PROVE  /\ e \in Socket /\ e.events /\ ~e.revents
             /\ IF e.is_listener THEN e.fd \in Listeners
                ELSE e.data = e.fd /\ e.data \in StdinPeers
  <2>1. ASSUME NEW c \in StdinPeers, e = Entry(c, FALSE, c)
        PROVE  e \in Socket /\ e.events /\ ~e.revents /\ ~e.is_listener /\ e.data = c /\ e.fd = c
    BY <1>1, <2>1 DEF Entry, Socket
  <2>2. ASSUME NEW l \in Listeners, e = Entry(l, TRUE, NULL)
        PROVE  e \in Socket /\ e.events /\ ~e.revents /\ e.is_listener /\ e.fd = l
    BY <1>1, <2>2 DEF Entry, Socket
  <2>3. CASE \E c \in StdinPeers : e = Entry(c, FALSE, c)
    BY <2>1, <2>3, Zenon
  <2>4. CASE \E l \in Listeners : e = Entry(l, TRUE, NULL)
    BY <2>2, <2>4, Zenon
  <2> QED  BY <2>3, <2>4, Zenon
<1>5. DOMAIN table = 1 .. N
  BY DEF Init
<1>6. \A j \in 1 .. N : /\ table[j] \in Socket /\ table[j].events /\ ~table[j].revents
                         /\ IF table[j].is_listener THEN table[j].fd \in Listeners
                            ELSE table[j].data = table[j].fd /\ table[j].data \in StdinPeers
  BY <1>4, Zenon DEF Init
<1>7. table \in Seq(Socket) /\ Len(table) = N
  <2>1. table \in [1 .. N -> Socket]
    BY <1>5, <1>6 DEF Init
  <2> QED  BY <1>2, <2>1
<1>8. {table[j].fd : j \in 1 .. N} = T
  BY <1>5 DEF Init, IsTable
<1>9. \A j, k \in 1 .. N : table[j].fd = table[k].fd => j = k
  <2>1. f \in Surjection(1 .. N, T)
    BY <1>8 DEF Surjection
  <2>2. IsFiniteSet(1 .. N) /\ Cardinality(1 .. N) = N
    BY <1>2, FS_Interval
  <2> HIDE DEF f, N, T
  <2>3. f \in Injection(1 .. N, T)
    BY <1>3, <2>1, <2>2, FS_SurjSameCardinalityImpliesInj
  <2> QED  BY <2>3, Zenon DEF Injection, IsInjective, f
<1> HIDE DEF N, T, f
<1>10. /\ nmax = roundup(N) /\ clients = StdinPeers /\ i = 0 /\ pc = "enter"
       /\ terminated = FALSE /\ link = [c \in Peers |-> IF c \in StdinPeers THEN "open" ELSE "away"]
       /\ input = {} /\ eof = {} /\ sends = [c \in Peers |-> 0]
  BY <1>7 DEF Init
<1>11. nmax \in Nat /\ N <= nmax
  BY <1>2, <1>10, RoundedUp
<1>12. TypeOK
  <2>1. sends \in [Peers -> 0 .. MaxSends]
    BY <1>1, <1>10
  <2>2. i \in 0 .. Len(table)
    BY <1>2, <1>7, <1>10
  <2> QED  BY <1>1, <1>7, <1>10, <1>11, <2>1, <2>2, Zenon DEF TypeOK, Socket
<1>13. Opened = StdinPeers
  BY <1>1, <1>10 DEF Opened
<1>14. Matches
  <2>1. {table[j].fd : j \in DOMAIN table} = Listeners \cup Opened
    BY <1>5, <1>8, <1>13 DEF T
  <2>2. \A j, k \in DOMAIN table : table[j].fd = table[k].fd => j = k
    BY <1>5, <1>9
  <2> QED  BY <1>5, <1>6, <1>7, <1>10, <1>11, <2>1, <2>2, SMTT(30) DEF Matches
<1>15. TableMatches
  BY <1>10, <1>13, <1>14, Zenon DEF TableMatches, Matches, Opened
<1>16. Gated /\ RevBehind /\ Reported
  BY <1>1, <1>2, <1>5, <1>6, <1>7 DEF Gated, RevBehind, Reported
<1> QED  BY <1>10, <1>12, <1>15, <1>16 DEF IInv

\* Every step keeps the invariant and misses no event.
LEMMA StepHolds == IInv /\ Next => IInv' /\ Kept
<1> SUFFICES ASSUME IInv, Next PROVE IInv' /\ Kept
  OBVIOUS
<1>1. CASE Daemon
  <2>1. CASE Poll
    BY <2>1, PollStep
  <2>2. CASE Quiet \/ PollReturns \/ EnterPoll \/ ReadyNull \/ ReadyPipe
    BY <2>2, LocalSteps
  <2>3. CASE AcceptFails \/ \E c \in Peers : AcceptNoRoom(c)
    BY <2>3, AcceptFailures
  <2>4. CASE \E c \in Peers : Accept(c)
    BY <2>4, AcceptStep
  <2>5. CASE ReadyInput \/ ReadyEof
    BY <2>5, ReadySteps
  <2>6. CASE Exit
    BY <2>6, ExitStep
  <2> QED  BY <1>1, <2>1, <2>2, <2>3, <2>4, <2>5, <2>6 DEF Daemon
<1>2. CASE Signal
  BY <1>2, LocalSteps
<1>3. CASE \E c \in Peers : Connect(c) \/ Send(c) \/ Hangup(c)
  BY <1>3, PeerSteps
<1> QED  BY <1>1, <1>2, <1>3 DEF Next

\* A step that changes nothing keeps the invariant.
LEMMA StutterHolds == IInv /\ UNCHANGED vars => IInv'
<1> SUFFICES ASSUME IInv, UNCHANGED vars PROVE IInv'
  OBVIOUS
<1>1. UNCHANGED <<table, nmax, clients, i, pc, terminated, link, input, eof, sends>>
  BY DEF vars
<1>2. TypeOK /\ i \in Nat /\ RevBehind /\ DOMAIN table = 1 .. Len(table)
  BY Facts
<1>3. TypeOK' /\ i' \in Nat
  BY <1>1, <1>2, Zenon DEF TypeOK
<1>4. \A j \in 1 .. Len(table) : table[j].revents => pc' \in {"serve", "crashed"} /\ j > i'
  BY <1>1, <1>2 DEF RevBehind
<1>5. Opened' = Opened /\ (Up' => Up) /\ eof \subseteq eof'
  BY <1>1 DEF Opened, Up
<1> QED  BY <1>1, <1>3, <1>4, <1>5, TableUnchanged

\* The invariant is inductive.
THEOREM Inductive == Spec => []IInv
<1>1. Init => IInv
  BY InitHolds
<1>2. IInv /\ [Next]_vars => IInv'
  BY StepHolds, StutterHolds
<1> QED  BY <1>1, <1>2, PTL DEF Spec

\* The table holds every listener and every accepted connection exactly once,
\* each connection with its own client record, and fits in its allocation; no
\* client record outlives its connection or the daemon (server_add_socket,
\* close_delete_socket, server_resize, server_free).
THEOREM TableAlwaysMatches == Spec => []TableMatches
<1>1. IInv => TableMatches
  BY DEF IInv
<1> QED  BY <1>1, Inductive, PTL

\* There are never more than max_sockets sockets, and the listeners are polled
\* exactly while there is room (server_listen_enable).
THEOREM GateHolds == Spec => []Gated
<1>1. IInv => Gated
  BY DEF IInv
<1> QED  BY <1>1, Inductive, PTL

\* No event that poll() reported is missed or left behind, though the entries
\* move under the loop of server_poll.
THEOREM EventsServed == Spec => NoneMissed
<1>1. IInv /\ IInv' /\ [Next]_vars =>
        [/\ \A j \in DOMAIN table :
              table[j].revents
                => \/ j = i + 1
                   \/ \E k \in DOMAIN table' :
                        table'[k].fd = table[j].fd /\ table'[k].revents
                   \/ table[j].is_listener /\ Len(table') >= max_sockets
         /\ RevBehind']_vars
  BY StepHolds DEF IInv, Kept
<1> QED  BY <1>1, Inductive, PTL DEF Spec, NoneMissed

=============================================================================
