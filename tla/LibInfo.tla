------------------------------ MODULE LibInfo ------------------------------
(***************************************************************************)
(* lib/info.c: the client library, with the application that calls it on   *)
(* one side and the daemon on the other.                                   *)
(*                                                                         *)
(* A blocking call sends its commands and then waits in wait_until, which  *)
(* reads messages and hands them to on_input.  The daemon serves commands  *)
(* in order, records them between BEGIN and COMMIT, and tells a subscriber *)
(* of every change to a key that one of its patterns matches (modules      *)
(* Infod and Server).  Other clients write at any time.                    *)
(*                                                                         *)
(* A connection that is closed is read by the daemon to its end before the *)
(* library's next connection is.                                           *)
(***************************************************************************)
EXTENDS Integers, Sequences, SequencesExt, FiniteSets

CONSTANTS
  Keys,       \* a set of naturals
  Values,
  NONE,       \* no value: the key does not exist
  Patterns,   \* each the set of keys that it matches
  Stream,     \* TCP: a read() may return several messages
  Calls,      \* the functions the application calls
  InCallback, \* those it calls from its callback
  ReadInTx,   \* whether it reads while it has a transaction open
  Faults,     \* "connect", "send", "buffer": calls that may fail; "drop": the
              \* daemon closes the connection
  MaxSent,    \* bound: commands the daemon has not performed, for a call that
              \* does not wait to send more
  MaxPending  \* bound: messages to the library, likewise and for others to write

ASSUME LibInfoAssumption ==
  /\ Keys \subseteq Nat /\ IsFiniteSet(Keys)
  /\ NONE \notin Values
  /\ Patterns \subseteq SUBSET Keys
  /\ {Stream, ReadInTx} \subseteq BOOLEAN
  /\ Faults \subseteq {"connect", "send", "buffer", "drop"}
  /\ {MaxSent, MaxPending} \subseteq Nat

VARIABLES
  conn,      \* fd and proto: "closed", "open", "shut" (for reading, by the
             \* library) or "ended" (by the daemon)
  tx_begun,
  waitret,   \* what the blocking call in progress waits for
  ret,       \* the result of the call that has returned, until the next one
  toServer,  \* commands on their way
  toClient,  \* messages on their way
  srv,       \* the daemon's record of the library's (latest) connection
  db,        \* the daemon's store
  seen       \* the contents the store has had since the call began

vars == <<conn, tx_begun, waitret, ret, toServer, toClient, srv, db, seen>>

Empty == [k \in Keys |-> NONE]

\* waitret_init; batch is how many of the messages last read are left.
NoWait == [op |-> "none", key |-> 0, done |-> 0, in_cb |-> FALSE,
           cb |-> FALSE, binds |-> Empty, batch |-> 0]

NoResult == [op |-> "none", key |-> 0, done |-> 0, binds |-> Empty]

\* subs is a set: no program here unsubscribes from what it subscribed to twice.
NewConn == [begins |-> 0, bufcmds |-> <<>>, subs |-> {}]

Cmd(op) == [op |-> op]
Sub(p) == [op |-> "SUB", pat |-> p]
Unsub(p) == [op |-> "UNSUB", pat |-> p]
Read(k) == [op |-> "READ", key |-> k]
Write(k, v) == [op |-> "WRITE", key |-> k, val |-> v]
Info(k, v) == [msg |-> "INFO", key |-> k, val |-> v]
Msg(m) == [msg |-> m]

AllKeys == SetToSortSeq(Keys, <)

Each(Op(_), keys) == [j \in DOMAIN keys |-> Op(keys[j])]

-----------------------------------------------------------------------------
(* The daemon. *)

\* The contents since the call began, d being the latest.
History(d) == IF waitret.op = "none" THEN {} ELSE seen \cup {d}

\* What is sent to a connection with subscriptions subs when k becomes v: a
\* message for each of them that matches k.
Notices(subs, k, v) ==
  [i \in 1 .. Cardinality({p \in subs : k \in p}) |-> Info(k, v)]

\* What one command makes of s: the store, the subscriptions, and what is sent.
Perform(s, c) ==
  CASE c.op = "READ" -> [s EXCEPT !.out = Append(@, Info(c.key, s.db[c.key]))]
    [] c.op = "WRITE" ->
         IF s.db[c.key] = c.val THEN s
         ELSE [s EXCEPT !.db[c.key] = c.val,
                        !.out = @ \o Notices(s.subs, c.key, c.val)]
    [] c.op = "SUB" ->
         LET found == SelectSeq(AllKeys, LAMBDA k : k \in c.pat /\ s.db[k] # NONE)
         IN  [s EXCEPT !.subs = @ \cup {c.pat},
                       !.out = @ \o Each(LAMBDA k : Info(k, s.db[k]), found)]
    [] c.op = "UNSUB" -> [s EXCEPT !.subs = @ \ {c.pat}]
    [] c.op = "PING" -> [s EXCEPT !.out = Append(@, Msg("PONG"))]

\* The daemon performs cmds and is left with begins open transactions.
Performs(cmds, begins) ==
  LET s == FoldLeft(Perform, [db |-> db, subs |-> srv.subs, out |-> <<>>], cmds) IN
  /\ db' = s.db
  /\ srv' = [srv EXCEPT !.begins = begins, !.bufcmds = <<>>, !.subs = s.subs]
  /\ toClient' = IF conn = "open" THEN toClient \o s.out ELSE toClient
  /\ seen' = History(s.db)

Records(begins, bufcmds) ==
  /\ srv' = [srv EXCEPT !.begins = begins, !.bufcmds = bufcmds]
  /\ UNCHANGED <<db, toClient, seen>>

Serve ==
  /\ toServer # <<>>
  /\ toServer' = Tail(toServer)
  /\ LET c == Head(toServer)
         b == srv.begins
     IN  \/ c.op = "BEGIN" /\ Records(b + 1, srv.bufcmds)
         \/ c.op = "COMMIT" /\ b > 1 /\ Records(b - 1, srv.bufcmds)
         \/ c.op = "COMMIT" /\ b = 1 /\ Performs(srv.bufcmds, 0)
         \/ c.op \notin {"BEGIN", "COMMIT"} /\ b > 0
              /\ Records(b, Append(srv.bufcmds, c))
         \/ c.op \notin {"BEGIN", "COMMIT"} /\ b = 0 /\ Performs(<<c>>, 0)
  /\ UNCHANGED <<conn, tx_begun, waitret, ret>>

\* Another client writes.
OtherWrite(k, v) ==
  /\ db[k] # v
  /\ Len(toClient) < MaxPending
  /\ db' = [db EXCEPT ![k] = v]
  /\ toClient' = IF conn = "open" THEN toClient \o Notices(srv.subs, k, v) ELSE toClient
  /\ seen' = History(db')
  /\ UNCHANGED <<conn, tx_begun, waitret, ret, toServer, srv>>

\* The daemon gives the connection up, perhaps after an ERROR.
Disconnect ==
  /\ "drop" \in Faults
  /\ conn \in {"open", "shut"}
  /\ conn' = "ended"
  /\ toServer' = <<>>
  /\ toClient' \in {toClient} \cup IF conn = "open"
                                   THEN {Append(toClient, Msg("ERROR"))} ELSE {}
  /\ UNCHANGED <<tx_begun, waitret, ret, srv, db, seen>>

-----------------------------------------------------------------------------
(* Sending and connecting. *)

\* The application makes a call: between calls, or from its callback.
MayCall(f) ==
  IF waitret.op = "none" THEN f \in Calls ELSE waitret.in_cb /\ f \in InCallback

\* waitret_init refuses a call that waits when it is made from the callback.
MayWait(f) == MayCall(f) /\ ~waitret.in_cb

\* The call in progress, if any, ends in info_close and fails.
info_close ==
  /\ conn' = "closed"
  /\ tx_begun' = FALSE
  /\ waitret' = NoWait
  /\ ret' = NoResult
  /\ toClient' = <<>>
  /\ seen' = {}

\* "goto fail": info_close does nothing inside the callback.
Fail ==
  IF waitret.in_cb
  THEN UNCHANGED <<conn, tx_begun, waitret, ret, toClient, seen>>
  ELSE info_close

\* proto_output of each of cmds in turn: one may fail, after those before it.
\* What is sent when the daemon has closed fails, or in a stream may be lost.
proto_outputs(cmds, w, tx) ==
  /\ conn = "closed" => toServer = <<>>
  /\ srv' = IF conn = "closed" THEN NewConn ELSE srv
  /\ \/ /\ conn = "ended" => Stream
        /\ conn' = IF conn = "closed" THEN "open" ELSE conn
        /\ toServer' = IF conn = "ended" THEN toServer ELSE toServer \o cmds
        /\ waitret' = w
        /\ tx_begun' = tx
        /\ seen' = IF waitret.op = "none" /\ w.op # "none" THEN {db} ELSE seen
        /\ ret' = NoResult
        /\ UNCHANGED toClient
     \/ /\ conn # "ended" /\ "send" \in Faults
        /\ \E n \in 0 .. Len(cmds) - 1 : toServer' = toServer \o SubSeq(cmds, 1, n)
        /\ Fail
     \/ /\ conn = "ended"
        /\ Fail
        /\ UNCHANGED toServer
     \/ /\ conn = "closed" /\ "connect" \in Faults
        /\ ret' = NoResult
        /\ UNCHANGED <<conn, tx_begun, waitret, toServer, toClient, seen>>
  /\ UNCHANGED db

\* The bounds on what is on its way, for a call that does not wait.
MaySend ==
  /\ Len(toServer) + Len(srv.bufcmds) < MaxSent
  /\ Len(toClient) <= MaxPending

\* A call that only sends.
Send(cmds, tx) ==
  /\ MaySend
  /\ proto_outputs(cmds, waitret, tx)

Transaction(cmds) == <<Cmd("BEGIN")>> \o cmds \o <<Cmd("COMMIT")>>

-----------------------------------------------------------------------------
(* The functions of the library. *)

\* info_read, info_reads, and info_readv of one key.
info_read(k) ==
  /\ MayWait("info_read")
  /\ tx_begun => ReadInTx
  /\ proto_outputs(<<Read(k)>>, [NoWait EXCEPT !.op = "read", !.key = k], tx_begun)

info_exists(k) ==
  /\ MayWait("info_exists")
  /\ tx_begun => ReadInTx
  /\ proto_outputs(<<Read(k)>>, [NoWait EXCEPT !.op = "exists", !.key = k], tx_begun)

\* Mutant: the keys are read without a transaction.
info_readv_plain ==
  /\ MayWait("info_readv")
  /\ tx_begun => ReadInTx
  /\ proto_outputs(Append(Each(Read, AllKeys), Cmd("PING")),
                   [NoWait EXCEPT !.op = "readv"], tx_begun)

\* info_readv of all keys, two at least.
info_readv ==
  /\ MayWait("info_readv")
  /\ tx_begun => ReadInTx
  /\ proto_outputs(Transaction(Append(Each(Read, AllKeys), Cmd("PING"))),
                   [NoWait EXCEPT !.op = "readv"], tx_begun)

\* info_write, info_writes, info_delete, and info_writev of one key.
info_write(k, v) ==
  /\ MayCall("info_write")
  /\ Send(<<Write(k, v)>>, tx_begun)

\* info_writev of all keys, two at least.
info_writev(v) ==
  /\ MayCall("info_writev")
  /\ Send(Transaction(Each(LAMBDA k : Write(k, v), AllKeys)), tx_begun)

info_tx_begin ==
  /\ MayCall("info_tx_begin")
  /\ ~tx_begun
  /\ Send(<<Cmd("BEGIN")>>, TRUE)

TxCommands ==
  {Sub(p) : p \in Patterns} \cup {Unsub(p) : p \in Patterns} \cup {Read(k) : k \in Keys}
    \cup {Write(k, v) : k \in Keys, v \in Values \cup {NONE}}

\* info_tx_read, info_tx_write, info_tx_delete, info_tx_sub, info_tx_unsub.
info_tx(c) ==
  /\ MayCall("info_tx_" \o c.op)
  /\ tx_begun
  /\ Send(<<c>>, TRUE)

\* Mutant: tx_begun is not cleared.
info_tx_commit_keeps(cb) ==
  /\ MayWait("info_tx_commit")
  /\ tx_begun
  /\ proto_outputs(<<Cmd("PING"), Cmd("COMMIT")>>,
                   [NoWait EXCEPT !.op = "tx_commit", !.cb = cb], TRUE)

\* Mutant: no PING, whose PONG would end the wait.
info_tx_commit_no_ping(cb) ==
  /\ MayWait("info_tx_commit")
  /\ tx_begun
  /\ proto_outputs(<<Cmd("COMMIT")>>,
                   [NoWait EXCEPT !.op = "tx_commit", !.cb = cb], FALSE)

info_tx_commit(cb) ==
  /\ MayWait("info_tx_commit")
  /\ tx_begun
  /\ proto_outputs(<<Cmd("PING"), Cmd("COMMIT")>>,
                   [NoWait EXCEPT !.op = "tx_commit", !.cb = cb], FALSE)

\* info_loop and info_recv1.
dispatch_until(op) ==
  /\ MayWait("info_" \o op)
  /\ conn # "closed"
  /\ waitret' = [NoWait EXCEPT !.op = op, !.cb = TRUE]
  /\ ret' = NoResult
  /\ seen' = {db}
  /\ UNCHANGED <<conn, tx_begun, toServer, toClient, srv, db>>

\* info_cb_read, info_cb_sub, info_cb_unsub: a failure closes nothing.
cb_op(c) ==
  /\ MayCall("info_cb_" \o c.op)
  /\ conn \in {"open", "shut"}
  /\ MaySend
  /\ toServer' = Append(toServer, c)
  /\ UNCHANGED <<conn, tx_begun, waitret, ret, toClient, srv, db, seen>>

info_cb_close ==
  /\ MayCall("info_cb_close")
  /\ conn = "open"
  /\ conn' = "shut"
  /\ UNCHANGED <<tx_begun, waitret, ret, toServer, toClient, srv, db, seen>>

CallClose ==
  /\ MayWait("info_close")
  /\ conn # "closed"
  /\ info_close
  /\ UNCHANGED <<toServer, srv, db>>

-----------------------------------------------------------------------------
(* wait_until and on_input. *)

\* Mutant: info_readv of several keys waits for an INFO too.
UntilInfo(op) ==
  CASE op \in {"read", "readv"} -> "INFO"
    [] op = "tx_commit" -> "PONG"
    [] op \in {"exists", "loop"} -> "EOF"
    [] op = "recv1" -> "ONCE"

Until(op) ==
  CASE op = "read" -> "INFO"
    [] op \in {"readv", "tx_commit"} -> "PONG"
    [] op \in {"exists", "loop"} -> "EOF"
    [] op = "recv1" -> "ONCE"

Waiting == waitret.op # "none" /\ ~waitret.in_cb

\* Mutant: wait_until reads once, whatever it waits for.
ReturnAtOnce(w) ==
  /\ IF w.batch > 0
     THEN waitret' = w /\ UNCHANGED <<ret, seen>>
     ELSE /\ waitret' = NoWait
          /\ ret' = [op |-> w.op, key |-> w.key, done |-> w.done, binds |-> w.binds]
          /\ seen' = {}
  /\ UNCHANGED <<conn, tx_begun>>

\* Once the messages read are handled, wait_until reads again or returns.
LoopOrReturn(w) ==
  /\ IF w.batch > 0 \/ (w.op # "recv1" /\ w.done = 0)
     THEN waitret' = w /\ UNCHANGED <<ret, seen>>
     ELSE /\ waitret' = NoWait
          /\ ret' = [op |-> w.op, key |-> w.key, done |-> w.done, binds |-> w.binds]
          /\ seen' = {}
  /\ UNCHANGED <<conn, tx_begun>>

\* read() returns one message, or in a stream any number of those that came.
ReadMessages ==
  /\ Waiting /\ waitret.batch = 0
  /\ toClient # <<>>
  /\ \E n \in 1 .. IF Stream THEN Len(toClient) ELSE 1 :
       waitret' = [waitret EXCEPT !.batch = n]
  /\ UNCHANGED <<conn, tx_begun, ret, toServer, toClient, srv, db, seen>>

\* Mutant: a read() of nothing is tried again.
ReadEofAgain ==
  /\ Waiting /\ waitret.batch = 0
  /\ toClient = <<>> /\ conn \in {"shut", "ended"}
  /\ UNCHANGED vars

ReadEof ==
  /\ Waiting /\ waitret.batch = 0
  /\ toClient = <<>> /\ conn \in {"shut", "ended"}
  /\ info_close
  /\ UNCHANGED <<toServer, srv, db>>

\* waitret.binds, or waitret.exists_key, names the message's key.
Binds(m) ==
  /\ m.msg = "INFO"
  /\ \/ waitret.op = "readv"
     \/ waitret.op \in {"read", "exists"} /\ m.key = waitret.key

\* waitret once m is counted and bound.
Received(m) ==
  [waitret EXCEPT
     !.batch = @ - 1,
     !.done = IF m.msg = Until(waitret.op) \/ (waitret.op = "exists" /\ Binds(m))
              THEN @ + 1 ELSE @,
     !.binds = IF Binds(m) THEN [@ EXCEPT ![m.key] = m.val] ELSE @]

on_input ==
  /\ Waiting /\ waitret.batch > 0
  /\ LET m == Head(toClient) IN
     \/ /\ m.msg = "INFO" /\ waitret.cb
        /\ waitret' = [Received(m) EXCEPT !.in_cb = TRUE]
        /\ toClient' = Tail(toClient)
        /\ UNCHANGED <<conn, tx_begun, ret, seen>>
     \/ /\ m.msg = "PONG" \/ (m.msg = "INFO" /\ ~waitret.cb)
        /\ LoopOrReturn(Received(m))
        /\ toClient' = Tail(toClient)
     \/ /\ \/ m.msg = "ERROR"
           \/ Binds(m) /\ waitret.op # "exists" /\ "buffer" \in Faults
        /\ info_close
  /\ UNCHANGED <<toServer, srv, db>>

\* info_cb returns cb_ret to on_input.
CallbackReturns(cb_ret) ==
  /\ waitret.in_cb
  /\ IF cb_ret = -1 THEN info_close
     ELSE /\ LoopOrReturn([waitret EXCEPT !.in_cb = FALSE,
                 !.done = IF cb_ret = 0 /\ Until(waitret.op) = "EOF" THEN @ + 1 ELSE @])
          /\ UNCHANGED toClient
  /\ UNCHANGED <<toServer, srv, db>>

-----------------------------------------------------------------------------
Init ==
  /\ conn = "closed"
  /\ tx_begun = FALSE
  /\ waitret = NoWait
  /\ ret = NoResult
  /\ toServer = <<>>
  /\ toClient = <<>>
  /\ srv = NewConn
  /\ db = Empty
  /\ seen = {}

Application ==
  \/ \E k \in Keys : info_read(k) \/ info_exists(k)
  \/ \E k \in Keys, v \in Values \cup {NONE} : info_write(k, v)
  \/ \E v \in Values \cup {NONE} : info_writev(v)
  \/ info_readv
  \/ info_tx_begin
  \/ \E c \in TxCommands : info_tx(c)
  \/ \E cb \in BOOLEAN : info_tx_commit(cb)
  \/ \E op \in {"loop", "recv1"} : dispatch_until(op)
  \/ \E c \in {c \in TxCommands : c.op # "WRITE"} : cb_op(c)
  \/ info_cb_close
  \/ CallClose

Wait == ReadMessages \/ ReadEof \/ on_input

Daemon ==
  \/ Serve
  \/ \E k \in Keys, v \in Values \cup {NONE} : OtherWrite(k, v)
  \/ Disconnect

Next ==
  \/ Application
  \/ Wait
  \/ \E cb_ret \in -1 .. 1 : CallbackReturns(cb_ret)
  \/ Daemon

Spec == Init /\ [][Next]_vars

-----------------------------------------------------------------------------
(* Properties. *)

Commands == TxCommands \cup {Cmd(op) : op \in {"BEGIN", "COMMIT", "PING"}}
Messages == {Info(k, v) : k \in Keys, v \in Values \cup {NONE}}
              \cup {Msg("PONG"), Msg("ERROR")}
Stores == [Keys -> Values \cup {NONE}]

\* Type correctness, with two facts that on_input and the info_tx functions use
\* untested: the messages that were read are there, and a transaction or a wait
\* has a connection.
TypeOK ==
  /\ conn \in {"closed", "open", "shut", "ended"}
  /\ tx_begun \in BOOLEAN
  /\ waitret.op \in {"none", "read", "readv", "exists", "tx_commit", "loop", "recv1"}
  /\ waitret.binds \in Stores /\ waitret.done \in Nat
  /\ waitret.batch \in 0 .. Len(toClient)
  /\ ret.binds \in Stores
  /\ toServer \in Seq(Commands) /\ srv.bufcmds \in Seq(Commands)
  /\ toClient \in Seq(Messages)
  /\ srv.begins \in Nat /\ srv.subs \subseteq Patterns
  /\ db \in Stores /\ seen \subseteq Stores
  /\ tx_begun \/ waitret.op # "none" => conn # "closed"

Count(op, cmds) == Cardinality({j \in DOMAIN cmds : cmds[j].op = op})

\* The library and the daemon agree on whether a transaction is open, counting
\* the BEGINs and COMMITs on their way: a failed call (info_close) leaves none
\* open, so that no later command is recorded and never performed.
TxMatches ==
  conn \in {"open", "shut"} =>
    srv.begins + Count("BEGIN", toServer) - Count("COMMIT", toServer)
      = IF tx_begun THEN 1 ELSE 0

\* Without subscriptions, a call that waits takes every answer to its commands:
\* none is left for the next call's on_input to take for its own.
NothingLeft ==
  conn = "open" /\ waitret.op = "none" /\ ~tx_begun =>
    /\ toClient = <<>>
    /\ Count("READ", toServer) + Count("PING", toServer) = 0

Returned(op) == waitret'.op = "none" /\ waitret.op = op /\ ret'.op = op

\* info_reads "reads the last value written" (libinfo.mdoc:136): it returns a
\* value that the key had at some time during the call; and info_exists says
\* whether the key had one at some time during the call.
ReadCurrent ==
  [][/\ Returned("read") => \E d \in seen : ret'.binds[ret'.key] = d[ret'.key]
     /\ Returned("exists") =>
          \E d \in seen : (ret'.binds[ret'.key] = NONE) <=> (d[ret'.key] = NONE)]_vars

\* The keys that the connection is subscribed to.
Covered == UNION srv.subs

\* info_readv of several keys returns, for the keys that are subscribed to, what
\* the store had at one moment during the call, and for the others too, at
\* another moment perhaps: notifications that it takes for answers come in the
\* order in which the store changed.  Without subscriptions, or with one to all
\* of its keys, they "are read or written together on the server with no
\* intervening operations" (libinfo.mdoc:174-176); with one to a part of them
\* they are not, since notifications that are read with the final PONG are bound
\* as well (info.c:147-156).
ReadvCoherent ==
  [][Returned("readv") =>
       \A group \in {Covered, Keys \ Covered} :
         \E d \in seen : \A k \in group : ret'.binds[k] = d[k]]_vars

\* A call that waits for the answer to its own command returns, if the daemon
\* serves or disconnects.
CallReturns ==
  (waitret.op \in {"read", "exists", "readv", "tx_commit"}) ~> (waitret.op = "none")

\* info_cb_close ends the info_loop whose callback calls it.
CbCloseEnds == (conn = "shut" /\ waitret.op = "loop") ~> (waitret.op # "loop")

=============================================================================
