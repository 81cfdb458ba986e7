------------------------------- MODULE Server -------------------------------
(***************************************************************************)
(* daemon/server.c: the table of sockets and the poll loop that serves it, *)
(* driven by main() of daemon/infod.c, with the callbacks of infod.c that  *)
(* allocate and free client records.  What a client sends, and what the    *)
(* daemon makes of it, is left to module Infod: here a message is served   *)
(* with any result, and may cause any client to be dropped.                *)
(*                                                                         *)
(* A peer stands for its file descriptor and for its client record.  The   *)
(* kernel's side of a connection (listen queue, pending input, end of      *)
(* file) and the peers that use it are the environment.                    *)
(***************************************************************************)
EXTENDS Integers, Sequences, FiniteSets

CONSTANTS
  Peers,       \* clients of the daemon
  Listeners,   \* the daemon's listening sockets
  ListenerOf,  \* ListenerOf[c] is the listener that peer c connects to
  NULL,        \* no client record
  StdinPeers,  \* the peer on standard input (option -i), if any
  max_sockets, \* limit on the number of sockets, listeners included
  INCREMENT,   \* growth step of the tables
  Faults,      \* calls that may fail: "accept", "realloc", "malloc"; "pipe":
               \* sends to a peer that hung up may raise SIGPIPE
  Signals,     \* whether SIGTERM or SIGINT may arrive
  MaxSends     \* bound: messages a peer sends on one connection

ASSUME ServerAssumption ==
  /\ ListenerOf \in [Peers -> Listeners]
  /\ IsFiniteSet(Listeners) /\ Listeners \cap Peers = {}
  /\ NULL \notin Peers \cup Listeners
  /\ StdinPeers \subseteq Peers /\ IsFiniteSet(StdinPeers) /\ Cardinality(StdinPeers) <= 1
  /\ max_sockets \in Nat /\ INCREMENT \in Nat \ {0} /\ MaxSends \in Nat
  /\ Cardinality(Listeners) + Cardinality(StdinPeers) < max_sockets
  /\ Signals \in BOOLEAN

VARIABLES
  table,       \* socket[] and pollfd[], as a sequence; its length is server->n
  nmax,        \* sz of socket[] and pollfd[]
  clients,     \* all_clients: the peers that have a client record
  i,           \* the index of server_poll's loop
  pc,          \* where the daemon is
  terminated,  \* a SIGTERM was received
  link,        \* link[c]: state of peer c's connection
  input,       \* the peers with unread input
  eof,         \* the peers whose connection reads as ended
  sends        \* sends[c]: messages sent on the connection

vars == <<table, nmax, clients, i, pc, terminated, link, input, eof, sends>>
kernel == <<link, input, eof, sends>>

-----------------------------------------------------------------------------
(* The socket table. *)

Entry(fd, is_listener, data) ==
  [fd |-> fd, is_listener |-> is_listener, data |-> data,
   events |-> TRUE, revents |-> FALSE]

\* Mutant: an event already reported on a disabled listener is left behind.
server_listen_enable_keeps(t, enable) ==
  [j \in DOMAIN t |-> IF t[j].is_listener THEN [t[j] EXCEPT !.events = enable]
                                          ELSE t[j]]

server_listen_enable(t, enable) ==
  [j \in DOMAIN t |->
     IF ~t[j].is_listener THEN t[j]
     ELSE [t[j] EXCEPT !.events = enable,
                       !.revents = IF enable THEN @ ELSE FALSE]]

roundup(n) == ((n + INCREMENT - 1) \div INCREMENT) * INCREMENT

\* The new nmax for n sockets.  A failure to shrink changes nmax all the same.
server_resize(n) ==
  IF nmax = roundup(n) \/ nmax - 1 = roundup(n) THEN nmax ELSE roundup(n)

server_add_socket(t, fd) ==
  LET u == Append(t, Entry(fd, FALSE, NULL)) IN
  IF max_sockets # 0 /\ Len(u) >= max_sockets
  THEN server_listen_enable(u, FALSE) ELSE u

\* Mutant: the last socket is lost, not moved.
close_delete_socket_drops(t, k) ==
  LET u == SubSeq(t, 1, Len(t) - 1) IN
  IF max_sockets # 0 /\ Len(u) = max_sockets - 1
  THEN server_listen_enable(u, TRUE) ELSE u

\* The table without its k-th socket: the last one moves into its place.
close_delete_socket(t, k) ==
  LET u == SubSeq([t EXCEPT ![k] = t[Len(t)]], 1, Len(t) - 1) IN
  IF max_sockets # 0 /\ Len(u) = max_sockets - 1
  THEN server_listen_enable(u, TRUE) ELSE u

\* on_accept's result is stored in the socket that has the fd.
SetData(t, fd, data) ==
  [j \in DOMAIN t |-> IF t[j].fd = fd THEN [t[j] EXCEPT !.data = data] ELSE t[j]]

-----------------------------------------------------------------------------
(* server_poll, one turn of its loop at a time. *)

Cur == table[i + 1]

\* The entry served has its revents cleared first.
Cleared == [table EXCEPT ![i + 1].revents = FALSE]

Serving(isListener) ==
  /\ pc = "serve" /\ i < Len(table)
  /\ Cur.revents /\ Cur.is_listener = isListener
  /\ UNCHANGED <<pc, terminated>>

Ready(e) ==
  IF e.is_listener
  THEN \E c \in Peers : link[c] = "waiting" /\ ListenerOf[c] = e.fd
  ELSE e.fd \in input \cup eof

\* poll() returns the sockets that are ready.
Poll ==
  /\ pc = "poll"
  /\ \E j \in DOMAIN table : table[j].events /\ Ready(table[j])
  /\ table' = [j \in DOMAIN table |->
                 [table[j] EXCEPT !.revents = table[j].events /\ Ready(table[j])]]
  /\ i' = 0
  /\ pc' = "serve"
  /\ UNCHANGED <<nmax, clients, terminated, kernel>>

Quiet ==
  /\ pc = "serve" /\ i < Len(table)
  /\ ~Cur.revents
  /\ i' = i + 1
  /\ UNCHANGED <<table, nmax, clients, pc, terminated, kernel>>

\* server_accept, when accept() itself fails.
AcceptFails ==
  /\ Serving(TRUE)
  /\ "accept" \in Faults
  /\ table' = Cleared
  /\ i' = i + 1
  /\ UNCHANGED <<nmax, clients, kernel>>

\* server_accept: the table cannot grow, and the new fd is closed.
AcceptNoRoom(c) ==
  /\ Serving(TRUE)
  /\ "realloc" \in Faults /\ server_resize(Len(table) + 1) > nmax
  /\ link[c] = "waiting" /\ ListenerOf[c] = Cur.fd
  /\ table' = Cleared
  /\ link' = [link EXCEPT ![c] = "away"]
  /\ sends' = [sends EXCEPT ![c] = 0]
  /\ input' = input \ {c} /\ eof' = eof \ {c}
  /\ i' = i + 1
  /\ UNCHANGED <<nmax, clients>>

\* server_accept, server_add_fd and on_net_accept.
Accept(c) ==
  /\ Serving(TRUE)
  /\ link[c] = "waiting" /\ ListenerOf[c] = Cur.fd
  /\ link' = [link EXCEPT ![c] = "open"]
  /\ nmax' = server_resize(Len(table) + 1)
  /\ \/ /\ clients' = clients \cup {c}
        /\ table' = SetData(server_add_socket(Cleared, c), c, c)
        /\ UNCHANGED eof
     \/ /\ "malloc" \in Faults
        /\ table' = SetData(server_add_socket(Cleared, c), c, NULL)
        /\ eof' = eof \cup {c}
        /\ UNCHANGED clients
  /\ i' = i + 1
  /\ UNCHANGED <<input, sends>>

\* Mutant: the client record is not freed.
CloseCurLeaks(dropped) ==
  LET c == Cur.fd IN
  /\ table' = close_delete_socket(Cleared, i + 1)
  /\ nmax' = server_resize(Len(table) - 1)
  /\ clients' = clients
  /\ link' = [link EXCEPT ![c] = "away"]
  /\ sends' = [sends EXCEPT ![c] = 0]
  /\ input' = input \ {c}
  /\ eof' = (eof \cup dropped) \ {c}
  /\ UNCHANGED i

\* close_delete_socket and on_net_close on the socket at i, which is not
\* followed by i++; dropped are the clients shut down by what led to it.
CloseCur(dropped) ==
  LET c == Cur.fd IN
  /\ table' = close_delete_socket(Cleared, i + 1)
  /\ nmax' = server_resize(Len(table) - 1)
  /\ clients' = clients \ {c}
  /\ link' = [link EXCEPT ![c] = "away"]
  /\ sends' = [sends EXCEPT ![c] = 0]
  /\ input' = input \ {c}
  /\ eof' = (eof \cup dropped) \ {c}
  /\ UNCHANGED i

\* on_net_ready reads input and serves it.  INFO messages that cannot be sent
\* make it shut down the read side of their clients.
ReadyInput ==
  /\ Serving(FALSE)
  /\ Cur.data # NULL /\ Cur.fd \in input
  /\ \E dropped \in SUBSET clients :
       \/ /\ table' = Cleared
          /\ input' = input \ {Cur.fd}
          /\ eof' = eof \cup dropped
          /\ i' = i + 1
          /\ UNCHANGED <<nmax, clients, link, sends>>
       \/ CloseCur(dropped)

\* Mutant: a client that reads nothing is kept.
ReadyEofStays ==
  /\ Serving(FALSE)
  /\ Cur.data # NULL /\ Cur.fd \notin input
  /\ table' = Cleared
  /\ i' = i + 1
  /\ UNCHANGED <<nmax, clients, kernel>>

\* on_net_ready reads nothing, and returns 0.
ReadyEof ==
  /\ Serving(FALSE)
  /\ Cur.data # NULL /\ Cur.fd \notin input
  /\ CloseCur({})

\* on_net_ready serves input and sends to a peer that has hung up: SIGPIPE,
\* which infod does not handle.
ReadyPipe ==
  /\ "pipe" \in Faults
  /\ pc = "serve" /\ i < Len(table)
  /\ Cur.revents /\ Cur.data # NULL /\ Cur.fd \in input
  /\ clients \cap eof # {}
  /\ pc' = "crashed"
  /\ UNCHANGED <<table, nmax, clients, i, terminated, kernel>>

\* on_net_ready dereferences its client, and on_net_close too.
ReadyNull ==
  /\ pc = "serve" /\ i < Len(table)
  /\ Cur.revents /\ ~Cur.is_listener /\ Cur.data = NULL
  /\ pc' = "crashed"
  /\ UNCHANGED <<table, nmax, clients, i, terminated, kernel>>

-----------------------------------------------------------------------------
(* The loop of main(), and the signals that end it. *)

\* server_poll returns; main tests the flag.
PollReturns ==
  /\ pc = "serve" /\ i = Len(table)
  /\ pc' = IF terminated THEN "exit" ELSE "enter"
  /\ UNCHANGED <<table, nmax, clients, i, terminated, kernel>>

\* server_poll is called again and gets as far as poll().
EnterPoll ==
  /\ pc = "enter"
  /\ pc' = IF table = <<>> THEN "exit" ELSE "poll"
  /\ UNCHANGED <<table, nmax, clients, i, terminated, kernel>>

\* on_sigterm.  It interrupts poll(), which then returns -1.
Signal ==
  /\ Signals /\ ~terminated
  /\ pc \in {"enter", "poll", "serve"}
  /\ terminated' = TRUE
  /\ pc' = IF pc = "poll" THEN "exit" ELSE pc
  /\ UNCHANGED <<table, nmax, clients, i, kernel>>

\* server_free; the NULL data of a socket would be freed as well.
Exit ==
  /\ pc = "exit"
  /\ IF \E j \in DOMAIN table : ~table[j].is_listener /\ table[j].data = NULL
     THEN /\ pc' = "crashed"
          /\ UNCHANGED <<table, nmax, clients, kernel>>
     ELSE /\ pc' = "ended"
          /\ table' = <<>> /\ nmax' = 0
          /\ clients' = clients \ {table[j].data : j \in DOMAIN table}
          /\ link' = [c \in Peers |-> "away"]
          /\ input' = {} /\ eof' = {}
          /\ sends' = [c \in Peers |-> 0]
  /\ UNCHANGED <<i, terminated>>

-----------------------------------------------------------------------------
(* Peers. *)

Up == pc \notin {"ended", "crashed"}

Connect(c) ==
  /\ Up /\ link[c] = "away" /\ c \notin StdinPeers
  /\ link' = [link EXCEPT ![c] = "waiting"]
  /\ UNCHANGED <<table, nmax, clients, i, pc, terminated, input, eof, sends>>

\* Also after the daemon has shut down its side for reading.
Send(c) ==
  /\ Up /\ link[c] # "away"
  /\ sends[c] < MaxSends
  /\ sends' = [sends EXCEPT ![c] = @ + 1]
  /\ input' = input \cup {c}
  /\ UNCHANGED <<table, nmax, clients, i, pc, terminated, link, eof>>

Hangup(c) ==
  /\ Up /\ link[c] # "away" /\ c \notin eof
  /\ eof' = eof \cup {c}
  /\ UNCHANGED <<table, nmax, clients, i, pc, terminated, link, input, sends>>

-----------------------------------------------------------------------------

IsTable(t) ==
  /\ Len(t) = Cardinality(StdinPeers) + Cardinality(Listeners)
  /\ {t[j].fd : j \in DOMAIN t} = StdinPeers \cup Listeners
  /\ \A j \in DOMAIN t : t[j].fd \in StdinPeers => j = 1

\* main() adds standard input, then the listeners.
Init ==
  /\ table \in [1 .. Cardinality(StdinPeers) + Cardinality(Listeners) ->
                  {Entry(c, FALSE, c) : c \in StdinPeers}
                    \cup {Entry(l, TRUE, NULL) : l \in Listeners}]
  /\ IsTable(table)
  /\ nmax = roundup(Len(table))
  /\ clients = StdinPeers
  /\ i = 0
  /\ pc = "enter"
  /\ terminated = FALSE
  /\ link = [c \in Peers |-> IF c \in StdinPeers THEN "open" ELSE "away"]
  /\ input = {} /\ eof = {}
  /\ sends = [c \in Peers |-> 0]

Daemon ==
  \/ Poll \/ Quiet
  \/ AcceptFails \/ \E c \in Peers : AcceptNoRoom(c) \/ Accept(c)
  \/ ReadyInput \/ ReadyEof \/ ReadyNull \/ ReadyPipe
  \/ PollReturns \/ EnterPoll \/ Exit

Next ==
  \/ Daemon
  \/ Signal
  \/ \E c \in Peers : Connect(c) \/ Send(c) \/ Hangup(c)

\* The daemon is a process that runs; nothing makes peers or signals come.
Spec == Init /\ [][Next]_vars /\ WF_vars(Daemon)

-----------------------------------------------------------------------------
(* Properties. *)

\* Types of the variables.
TypeOK ==
  /\ table \in Seq([fd : Peers \cup Listeners, is_listener : BOOLEAN,
                    data : Peers \cup {NULL},
                    events : BOOLEAN, revents : BOOLEAN])
  /\ nmax \in Nat
  /\ clients \subseteq Peers /\ input \subseteq Peers /\ eof \subseteq Peers
  /\ i \in 0 .. Len(table) \/ pc = "ended"
  /\ pc \in {"enter", "poll", "serve", "exit", "ended", "crashed"}
  /\ terminated \in BOOLEAN
  /\ link \in [Peers -> {"away", "waiting", "open"}]
  /\ sends \in [Peers -> 0 .. MaxSends]

\* The table holds every listener and every accepted connection exactly once,
\* each connection with the client record made for it and not yet freed (or
\* shut down, for want of one), and fits in its allocation, however accepts,
\* closes and moves interleave.  No client record outlives its connection, and
\* at exit none is left.
TableMatches ==
  /\ clients \subseteq {c \in Peers : link[c] = "open"}
  /\ Up =>
      /\ \A j, k \in DOMAIN table : table[j].fd = table[k].fd => j = k
      /\ {table[j].fd : j \in DOMAIN table}
           = Listeners \cup {c \in Peers : link[c] = "open"}
      /\ \A j \in DOMAIN table :
           IF table[j].is_listener
           THEN table[j].fd \in Listeners
           ELSE \/ table[j].data = table[j].fd /\ table[j].data \in clients
                \/ table[j].data = NULL /\ table[j].fd \in eof
      /\ Len(table) <= nmax

\* server.h:8: "Limits the number of active connections by ignoring listener
\* sockets when socket limit is reached": there are never more than max_sockets
\* sockets, and the listeners are polled exactly while there is room.
Gated ==
  /\ Len(table) <= max_sockets
  /\ \A j \in DOMAIN table :
       table[j].is_listener => (table[j].events <=> Len(table) < max_sockets)

\* server.c:268, "The revents are kept zero elsewhere": behind the index of the
\* loop, and between two polls, there is no event.
RevBehind ==
  \A j \in DOMAIN table :
    table[j].revents => pc \in {"serve", "crashed"} /\ j > i

\* An event that poll() reported is served once: it goes away only when the
\* loop serves it, or with a listener that is held off because the table is
\* full, and none is left behind the loop's index (server.c:268, "The revents
\* are kept zero elsewhere") to be served at a later poll.
NoneMissed ==
  [][/\ \A j \in DOMAIN table :
          table[j].revents
            => \/ j = i + 1
               \/ \E k \in DOMAIN table' :
                    table'[k].fd = table[j].fd /\ table'[k].revents
               \/ table[j].is_listener /\ Len(table') >= max_sockets
     /\ RevBehind']_vars

\* server.h:73: a client whose read side was shut down is closed in an orderly
\* way when its turn comes; so is one that hung up, unless the daemon ends.
EndedIsClosed ==
  \A c \in Peers : (link[c] = "open" /\ c \in eof)
                     ~> (link[c] # "open" \/ ~Up)

\* Whatever the other clients do, what a client sends is read, unless the
\* daemon ends.
InputIsRead ==
  \A c \in Peers : (link[c] = "open" /\ c \in input)
                     ~> (c \notin input \/ link[c] # "open" \/ ~Up)

=============================================================================
