------------------------------- MODULE Infod -------------------------------
(***************************************************************************)
(* daemon/infod.c: what the daemon does with each message of its clients.  *)
(*                                                                         *)
(* The daemon is one thread: a message is served as a whole, and the       *)
(* commands recorded by a transaction are played back, one per step here,  *)
(* before any other client is served.  Keys, values and patterns are       *)
(* abstract; the store is a map (modules KVStore and Store).  What a       *)
(* client is sent is kept as its view: for each key the value that the     *)
(* INFO messages received so far tell it.                                  *)
(***************************************************************************)
EXTENDS Integers, Sequences, FiniteSets

CONSTANTS
  Clients,      \* the connections
  TextClients,  \* those that speak the text protocol
  Keys,         \* keys that are stored
  Ephemeral,    \* keys that end with '!'
  Values,
  NONE,         \* no value
  UNKNOWN,      \* nothing known of a key
  Patterns,
  Match,        \* Match[p] is the set of keys that pattern p matches
  MAX_SUBS,
  MAX_BUFCMDS,
  Faults,       \* "send", "short", "store", "malloc": calls that may fail;
                \* "hangup": peers that have closed when the daemon sends to them
  MaxBegins,    \* bound: depth of nested transactions
  MaxRecorded,  \* bound: commands recorded by all clients together
  TxCmds        \* bound: commands that are sent in transactions

ASSUME InfodAssumption ==
  /\ TextClients \subseteq Clients
  /\ Keys \cap Ephemeral = {}
  /\ NONE \notin Values /\ UNKNOWN \notin Values \cup {NONE}
  /\ Match \in [Patterns -> SUBSET (Keys \cup Ephemeral)]
  /\ {MAX_SUBS, MAX_BUFCMDS, MaxBegins, MaxRecorded} \subseteq Nat
  /\ Faults \subseteq {"send", "short", "store", "malloc", "hangup"}

VARIABLES
  db,      \* the_store
  client,  \* client[c] is the record of client c
  alive,   \* the daemon runs
  lost,    \* history: the keys that a failing store_put has removed
  base     \* history: the store when the playback under way began, and its commands

vars == <<db, client, alive, lost, base>>

Cmds ==
  [op : {"PING", "COMMIT", "BEGIN", "BAD"}]
    \cup [op : {"SUB", "UNSUB"}, pat : Patterns]
    \cup [op : {"READ"}, key : Keys]
    \cup [op : {"WRITE"}, key : Keys \cup Ephemeral, val : Values \cup {NONE}]

Closed ==
  [up |-> FALSE, subs |-> <<>>, nbufcmds |-> 0, begins |-> 0,
   bufcmds |-> <<>>, tail |-> 0,
   shut |-> FALSE, torn |-> FALSE, view |-> [k \in Keys |-> UNKNOWN]]

client_new == [Closed EXCEPT !.up = TRUE]

NoBase == [db |-> [k \in Keys |-> NONE], cmds |-> <<>>]

-----------------------------------------------------------------------------
(* Sending.  A send to a non-blocking socket takes all of the message, none *)
(* of it ("send": EAGAIN), or its beginning ("short"), after which the      *)
(* client can make nothing of what follows.  When the peer has closed the   *)
(* connection it may raise SIGPIPE, which infod leaves at its default: the  *)
(* daemon is killed.                                                        *)

Outcomes == {"sent"} \cup (Faults \cap {"send", "short"})

SigPipe ==
  /\ "hangup" \in Faults
  /\ alive' = FALSE
  /\ client' = [c \in Clients |-> Closed]

\* The daemon goes on with client c, whose record becomes r.
Keep(c, r) ==
  /\ client' = [client EXCEPT ![c] = r]
  /\ UNCHANGED alive

\* The callback returns -1 or 0: server_poll closes c, and on_net_close frees
\* its record.
Drop(c) == Keep(c, Closed)

\* A client that has missed a message, or a part of one.
Missed(r) == r.shut \/ r.torn

\* What r is sent makes its view new, unless it has missed something.
Sees(r, new) == [r EXCEPT !.view = IF Missed(r) THEN @ ELSE new]

Torn(r) == [r EXCEPT !.torn = TRUE, !.view = Closed.view]
Shut(r) == [r EXCEPT !.shut = TRUE, !.view = Closed.view]

\* proto_output to the client being served, whose record becomes r; new is
\* what the message makes its view.
Reply(c, r, new) ==
  \/ Keep(c, Sees(r, new))
  \/ "short" \in Outcomes /\ Keep(c, Torn(r))
  \/ "send" \in Outcomes /\ Drop(c)
  \/ SigPipe

\* proto_output_error: only a text client survives its own errors.
proto_output_error(c, r, code) ==
  IF c \in TextClients /\ code # "INTERNAL"
  THEN Reply(c, r, r.view)
  ELSE Drop(c) \/ SigPipe

Subscribed(r, k) ==
  r.up /\ \E j \in DOMAIN r.subs : k \in Match[r.subs[j]]

Told(r, k, v) ==
  IF k \in Keys THEN Sees(r, [r.view EXCEPT ![k] = v]) ELSE r

Informed(r, o, k, v) ==
  CASE o = "send" -> Shut(r)
    [] o = "short" -> Torn(r)
    [] OTHER -> Told(r, k, v)

\* Mutant: every client is told.
NotifyAll(c, r, k, v) ==
  LET now == [client EXCEPT ![c] = r] IN
  /\ client' = [d \in Clients |-> IF now[d].up THEN Told(now[d], k, v) ELSE now[d]]
  /\ UNCHANGED alive

\* INFO to every subscriber.  One that cannot be sent to is shut down for
\* reading, which closes it later.
Notify(c, r, k, v) ==
  LET now == [client EXCEPT ![c] = r]
      subs == {d \in Clients : Subscribed(now[d], k)}
  IN  \/ \E o \in [subs -> Outcomes] :
            /\ client' = [d \in Clients |-> IF d \in subs
                                            THEN Informed(now[d], o[d], k, v)
                                            ELSE now[d]]
            /\ UNCHANGED alive
      \/ subs # {} /\ SigPipe

-----------------------------------------------------------------------------
(* on_app_input, by command, for client c with record r, when no            *)
(* transaction is open.                                                     *)

\* HELLO and PING are answered.
Ping(c, r, cmd) ==
  /\ cmd.op = "PING"
  /\ Reply(c, r, r.view)
  /\ UNCHANGED <<db, lost>>

\* An unknown message, or one whose argument is invalid.
Bad(c, r, cmd) ==
  /\ cmd.op = "BAD"
  /\ proto_output_error(c, r, "BAD_MSG")
  /\ UNCHANGED <<db, lost>>

Sub(c, r, cmd) ==
  /\ cmd.op = "SUB"
  /\ UNCHANGED <<db, lost>>
  /\ \/ /\ Len(r.subs) > MAX_SUBS
        /\ proto_output_error(c, r, "TOO_BIG")
     \/ /\ Len(r.subs) <= MAX_SUBS
        /\ "malloc" \in Faults
        /\ proto_output_error(c, r, "INTERNAL")
     \/ /\ Len(r.subs) <= MAX_SUBS
        /\ LET s == [r EXCEPT !.subs = <<cmd.pat>> \o @]
               found == {k \in Keys \cap Match[cmd.pat] : db[k] # NONE}
               new == [k \in Keys |-> IF k \in Match[cmd.pat] THEN db[k]
                                                              ELSE r.view[k]]
           IN  IF found = {} THEN Keep(c, Sees(s, new))
                             ELSE Reply(c, s, new)

\* Removes the subscription that client_find_subscription finds, if any.
Unsub(c, r, cmd) ==
  /\ cmd.op = "UNSUB"
  /\ UNCHANGED <<db, lost>>
  /\ LET at == {j \in DOMAIN r.subs : r.subs[j] = cmd.pat} IN
     IF at = {} THEN Keep(c, r)
     ELSE LET j == CHOOSE j \in at : \A k \in at : j <= k IN
          Keep(c, [r EXCEPT !.subs = SubSeq(@, 1, j - 1)
                                       \o SubSeq(@, j + 1, Len(@))])

Read(c, r, cmd) ==
  /\ cmd.op = "READ"
  /\ Reply(c, r, [r.view EXCEPT ![cmd.key] = db[cmd.key]])
  /\ UNCHANGED <<db, lost>>

\* Mutant: a delete is not notified.
WriteQuietDelete(c, r, cmd) ==
  /\ cmd.op = "WRITE" /\ cmd.key \in Keys
  /\ db' = [db EXCEPT ![cmd.key] = cmd.val]
  /\ lost' = IF db[cmd.key] = cmd.val THEN lost ELSE lost \ {cmd.key}
  /\ IF db[cmd.key] = cmd.val \/ cmd.val = NONE
     THEN Keep(c, r) ELSE Notify(c, r, cmd.key, cmd.val)

\* store_put or store_del; nothing is sent when they change nothing.
Write(c, r, cmd) ==
  /\ cmd.op = "WRITE" /\ cmd.key \in Keys
  /\ db' = [db EXCEPT ![cmd.key] = cmd.val]
  /\ lost' = IF db[cmd.key] = cmd.val THEN lost ELSE lost \ {cmd.key}
  /\ IF db[cmd.key] = cmd.val THEN Keep(c, r)
                              ELSE Notify(c, r, cmd.key, cmd.val)

\* store_put fails, and may have removed the key (Store!LossOnlyByFailedPut).
\* Subscribers are told nothing.
WriteFails(c, r, cmd) ==
  /\ cmd.op = "WRITE" /\ cmd.key \in Keys
  /\ "store" \in Faults
  /\ cmd.val \notin {NONE, db[cmd.key]}
  /\ db' \in {db, [db EXCEPT ![cmd.key] = NONE]}
  /\ lost' = IF db' = db THEN lost ELSE lost \cup {cmd.key}
  /\ proto_output_error(c, r, "INTERNAL")

\* A key that ends with '!' is passed on, and not stored; to delete one has no
\* effect.
WriteEphemeral(c, r, cmd) ==
  /\ cmd.op = "WRITE" /\ cmd.key \in Ephemeral
  /\ IF cmd.val = NONE THEN Keep(c, r) ELSE Notify(c, r, cmd.key, cmd.val)
  /\ UNCHANGED <<db, lost>>

\* Mutant: the tail of the last transaction is kept.
BeginKeepsTail(c, r, cmd) ==
  /\ cmd.op = "BEGIN"
  /\ Keep(c, [r EXCEPT !.begins = 1])
  /\ UNCHANGED <<db, lost>>

Begin(c, r, cmd) ==
  /\ cmd.op = "BEGIN"
  /\ Keep(c, [r EXCEPT !.tail = 0, !.begins = 1])
  /\ UNCHANGED <<db, lost>>

\* A COMMIT without BEGIN.
Commit(c, r, cmd) ==
  /\ cmd.op = "COMMIT"
  /\ proto_output_error(c, r, "BAD_SEQ")
  /\ UNCHANGED <<db, lost>>

on_app_input(c, r, cmd) ==
  \/ Ping(c, r, cmd) \/ Bad(c, r, cmd)
  \/ Sub(c, r, cmd) \/ Unsub(c, r, cmd)
  \/ Read(c, r, cmd)
  \/ Write(c, r, cmd) \/ WriteFails(c, r, cmd) \/ WriteEphemeral(c, r, cmd)
  \/ Begin(c, r, cmd) \/ Commit(c, r, cmd)

-----------------------------------------------------------------------------
(* Transactions. *)

\* The COMMIT of client c has been received, and its commands are played back.
Playing(c) == client[c].begins = 0 /\ client[c].bufcmds # <<>>

\* APPEND: the command goes where the tail points.  It aborts unless that is
\* the end of the list.
Append1(r, cmd) ==
  [r EXCEPT !.bufcmds = Append(@, cmd), !.tail = @ + 1]

\* Mutant: a COMMIT ends all BEGINs.
buffer_command_flat(c, r, cmd) ==
  IF cmd.op = "BEGIN" THEN Keep(c, [r EXCEPT !.begins = @ + 1])
  ELSE IF cmd.op = "COMMIT" THEN Keep(c, [r EXCEPT !.begins = 0])
  ELSE Keep(c, Append1(r, cmd))

\* A message received while a transaction is open.  The last COMMIT leaves
\* begins = 0, and so starts the playback.  nbufcmds is never changed.
buffer_command(c, r, cmd) ==
  IF cmd.op = "BEGIN" THEN Keep(c, [r EXCEPT !.begins = @ + 1])
  ELSE IF cmd.op = "COMMIT" THEN Keep(c, [r EXCEPT !.begins = @ - 1])
  ELSE IF r.nbufcmds >= MAX_BUFCMDS THEN proto_output_error(c, r, "TOO_BIG")
  ELSE \/ Keep(c, Append1(r, cmd))
       \/ "malloc" \in Faults /\ proto_output_error(c, r, "INTERNAL")

Recorded == {d \in Clients \X (1 .. MaxRecorded) : d[2] <= Len(client[d[1]].bufcmds)}

InBounds(r, cmd) ==
  /\ cmd.op = "BEGIN" => r.begins < MaxBegins
  /\ cmd.op \notin {"BEGIN", "COMMIT"} /\ r.begins > 0
       => cmd \in TxCmds /\ Cardinality(Recorded) < MaxRecorded

Recording(c, cmd) ==
  /\ client[c].begins > 0
  /\ buffer_command(c, client[c], cmd)
  /\ base' = IF Playing(c)' THEN [db |-> db, cmds |-> client'[c].bufcmds] ELSE base
  /\ UNCHANGED <<db, lost>>

Performing(c, cmd) ==
  /\ client[c].begins = 0
  /\ on_app_input(c, client[c], cmd)
  /\ UNCHANGED base

\* Mutant: other clients are served between the turns of a playback.
ReceiveBetween(c, cmd) ==
  /\ client[c].up /\ ~Playing(c)
  /\ InBounds(client[c], cmd)
  /\ Recording(c, cmd) \/ Performing(c, cmd)

\* A message of client c.
Receive(c, cmd) ==
  /\ client[c].up /\ \A d \in Clients : ~Playing(d)
  /\ InBounds(client[c], cmd)
  /\ Recording(c, cmd) \/ Performing(c, cmd)

\* Mutant: the command is not removed before it is played.
PlayKeeps(c) ==
  /\ Playing(c)
  /\ on_app_input(c, client[c], Head(client[c].bufcmds))
  /\ UNCHANGED base

\* One turn of the playback in buffer_command.
Play(c) ==
  /\ Playing(c)
  /\ LET r == client[c]
     IN  on_app_input(c, [r EXCEPT !.bufcmds = Tail(@)], Head(r.bufcmds))
  /\ base' = IF Playing(c)' THEN base ELSE NoBase

\* on_net_accept
Accept(c) ==
  /\ ~client[c].up /\ \A d \in Clients : ~Playing(d)
  /\ Keep(c, client_new)
  /\ UNCHANGED <<db, lost, base>>

\* MSG_EOF: the peer hung up, or the daemon has shut the connection down.
Eof(c) ==
  /\ client[c].up /\ \A d \in Clients : ~Playing(d)
  /\ Drop(c)
  /\ UNCHANGED <<db, lost, base>>

Init ==
  /\ db = [k \in Keys |-> NONE]
  /\ client = [c \in Clients |-> Closed]
  /\ alive = TRUE
  /\ lost = {}
  /\ base = NoBase

Next ==
  /\ alive
  /\ \E c \in Clients :
       \/ Accept(c)
       \/ \E cmd \in Cmds : Receive(c, cmd)
       \/ Play(c)
       \/ Eof(c)

\* The daemon goes on with a playback it has begun.
Spec == Init /\ [][Next]_vars /\ \A c \in Clients : WF_vars(Play(c))

-----------------------------------------------------------------------------
(* Properties. *)

Record ==
  [up : BOOLEAN, subs : Seq(Patterns), nbufcmds : Nat, begins : Nat,
   bufcmds : Seq(Cmds), tail : Nat,
   shut : BOOLEAN, torn : BOOLEAN,
   view : [Keys -> Values \cup {NONE, UNKNOWN}]]

\* Types of the variables.
TypeOK ==
  /\ db \in [Keys -> Values \cup {NONE}]
  /\ client \in [Clients -> Record]
  /\ alive \in BOOLEAN
  /\ lost \subseteq Keys
  /\ base \in [db : [Keys -> Values \cup {NONE}], cmds : Seq(Cmds)]

\* PROTOCOL:66-70: a new subscription is told of every existing matching key,
\* and from then on of every change.  So at any time, a subscriber that is not
\* being disconnected and was sent no message in part knows the current value of
\* every key it subscribes to, whoever wrote it, in a transaction or not, and
\* whatever calls failed.  The exception is a key that a failing store_put has
\* removed, until it is written again: nobody is told of that (infod.c:451), and
\* a later delete of the key changes nothing and so tells nobody either.
SubscribersCurrent ==
  \A c \in Clients : \A k \in Keys :
    Subscribed(client[c], k) /\ ~Missed(client[c])
      => client[c].view[k] = db[k] \/ k \in lost

\* The list of recorded commands is sound: its tail pointer is at its end
\* whenever a command may be appended (APPEND of list.h aborts otherwise, or
\* writes to memory that was freed), and it holds no BEGIN or COMMIT, so that
\* its playback never comes back to record.
ListsSound ==
  \A c \in Clients :
    /\ client[c].begins > 0 => client[c].tail = Len(client[c].bufcmds)
    /\ \A j \in DOMAIN client[c].bufcmds :
         client[c].bufcmds[j].op \notin {"BEGIN", "COMMIT"}

\* A transaction that stays open loses none of its commands and none of them
\* is performed, whatever other clients do and however BEGINs are nested.
OpenIsRecorded ==
  [][\A c \in Clients :
       LET r == client[c]
           s == client'[c]
       IN  r.begins > 0 /\ s.up
             => \/ /\ s.begins > 0
                   /\ SubSeq(s.bufcmds, 1, Len(r.bufcmds)) = r.bufcmds
                   /\ s.begins # r.begins \/ s.bufcmds # r.bufcmds => db' = db
                \/ /\ r.begins = 1 /\ s.begins = 0
                   /\ s.bufcmds = r.bufcmds
                   /\ db' = db]_vars

\* The value of k after the first n of cmds are performed on the store d is v.
ValueAfter(d, cmds, n, k, v) ==
  LET Writes(i) == cmds[i].op = "WRITE" /\ cmds[i].key = k IN
  \/ \E j \in 1 .. n :
       /\ Writes(j) /\ v = cmds[j].val
       /\ \A i \in j + 1 .. n : ~Writes(i)
  \/ v = d[k] /\ \A i \in 1 .. n : ~Writes(i)

\* How a step that client c is being played back in may change the store.
KeepsToPlayback(c) ==
  LET done == Len(base.cmds) - Len(client[c].bufcmds)
      done2 == Len(base.cmds) - Len(client'[c].bufcmds)
  IN  \A k \in Keys :
        IF client'[c].up THEN ValueAfter(base.db, base.cmds, done2, k, db'[k])
        ELSE \/ ValueAfter(base.db, base.cmds, done, k, db'[k])
             \/ base.cmds[done + 1].op = "WRITE" /\ base.cmds[done + 1].key = k

\* PROTOCOL:94: recorded commands are performed "exclusive to any other
\* client".  Throughout a playback the store is what it was at the COMMIT,
\* changed by the commands played so far, all of them and in their order, and by
\* nothing else.  A command that fails and so ends the playback touches its own
\* key at most: those before it stay performed, and those after it never are.
Exclusive ==
  [][\A c \in Clients : Playing(c) => KeepsToPlayback(c)]_vars

\* A client is sent INFO only for what it reads, subscribes to now, or is
\* subscribed to (PROTOCOL:80 and 114).
OnlySubscribers ==
  [][\A c \in Clients : \A k \in Keys :
       client[c].up /\ client'[c].up
         /\ client'[c].view[k] \notin {client[c].view[k], UNKNOWN}
         => \/ Subscribed(client'[c], k)
            \/ db' = db /\ client'[c].view[k] = db[k]]_vars

\* A playback comes to its end, so that the other clients are served again.
PlaybackEnds == \A c \in Clients : Playing(c) ~> ~Playing(c)

=============================================================================
