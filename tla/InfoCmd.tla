------------------------------ MODULE InfoCmd ------------------------------
(***************************************************************************)
(* client/info.c: the info command, an application of LibInfo.  main()     *)
(* puts what the command line asks for in one transaction, has action_cb   *)
(* handle the answers, and may then wait for notifications until an alarm. *)
(*                                                                         *)
(* The program that runs is either the info command, with one of the       *)
(* command lines, or another one (Subscriber) that subscribes, reads and   *)
(* loops as it likes.                                                      *)
(*                                                                         *)
(* What is printed is left out, with the options -b and -k that only       *)
(* change it.                                                              *)
(***************************************************************************)
EXTENDS LibInfo

CONSTANTS
  CommandLines,      \* sequences of words, see Opt and Do
  EXITMOD,           \* 256: the values of an exit status
  MaxSubscriberSent  \* bound: as MaxSent, for Subscriber

ASSUME InfoCmdAssumption == {EXITMOD, MaxSubscriberSent} \subseteq Nat \ {0}

VARIABLES
  argv,
  main,           \* where main() is: "exited" once it has called
                  \* exit(deleted_count), "failed" after another exit; or
                  \* "other" for the other program
  todo,           \* the commands that are still to be put in the transaction
  cb,             \* the message that action_cb was given
  deleted_count,  \* modulo EXITMOD, as it is used
  alarm,          \* "off", "set" or "rung"
  status,         \* the exit status
  answers,        \* history: what the transaction's commands were answered
  others          \* history: the keys that others wrote since

info == <<argv, main, todo, cb, deleted_count, alarm, status, answers, others>>
allvars == <<vars, info>>

-----------------------------------------------------------------------------
(* The command line. *)

NoCmd == Cmd("none")

\* -A, -C, -t 0 (t0) and -t with another time (t); and -r, -w, -d, -s.
Opt(opt) == [opt |-> opt, cmd |-> NoCmd]
Do(opt, cmd) == [opt |-> opt, cmd |-> cmd]

\* The options come first.
NOpts == Cardinality({j \in DOMAIN argv : \A i \in 1 .. j : argv[i].opt \in {"A", "C", "t0", "t"}})
Has(opt) == \E j \in 1 .. NOpts : argv[j].opt = opt
Args == SubSeq(argv, NOpts + 1, Len(argv))

\* "bad option"
UsageError == \E j \in DOMAIN Args : Args[j].opt \notin {"r", "w", "d", "s"}

\* -A and -C subscribe to all keys and at once unsubscribe.
All == Has("A") \/ Has("C")

have_subs == All \/ \E j \in DOMAIN Args : Args[j].opt = "s"

\* The option given last; -A and -C do not wait unless told to.
Timeout ==
  LET given == {j \in 1 .. NOpts : argv[j].opt \in {"t0", "t"}}
  IN  IF given = {} THEN IF All THEN 0 ELSE -1
      ELSE IF argv[CHOOSE j \in given : \A i \in given : i <= j].opt = "t0" THEN 0 ELSE 1

\* Mutant: -A and -C do not unsubscribe.
Transact_sub == (IF All THEN <<Sub(Keys)>> ELSE <<>>) \o [j \in DOMAIN Args |-> Args[j].cmd]

\* What is put in the transaction.
Transact ==
  (IF All THEN <<Sub(Keys), Unsub(Keys)>> ELSE <<>>) \o [j \in DOMAIN Args |-> Args[j].cmd]

-----------------------------------------------------------------------------
(* main *)

exit(pc, s) ==
  /\ main' = pc
  /\ status' = s
  /\ info_close
  /\ UNCHANGED <<toServer, srv, db>>

\* main goes on to pc if the call succeeds.
Then(ok, pc) == main' = IF ok THEN pc ELSE "fail"

Start ==
  /\ main = "start"
  /\ IF UsageError THEN exit("failed", 2) /\ UNCHANGED todo
     ELSE main' = "begin" /\ todo' = Transact /\ UNCHANGED <<vars, status>>
  /\ UNCHANGED alarm

Begin ==
  /\ main = "begin"
  /\ info_tx_begin /\ Then(tx_begun', "args")
  /\ UNCHANGED <<todo, alarm, status>>

Arg ==
  /\ main = "args" /\ todo # <<>>
  /\ info_tx(Head(todo)) /\ Then(tx_begun', "args")
  /\ todo' = Tail(todo)
  /\ UNCHANGED <<alarm, status>>

Commit ==
  /\ main = "args" /\ todo = <<>>
  /\ info_tx_commit(TRUE) /\ Then(waitret'.op = "tx_commit", "commit")
  /\ UNCHANGED <<todo, alarm, status>>

\* The command stays after its transaction.
Subscribes == have_subs /\ Timeout # 0

\* info_tx_commit has returned.
Committed ==
  /\ main = "commit" /\ waitret.op = "none"
  /\ LET ok == ret.op = "tx_commit"
     IN  \/ /\ ok /\ ~Subscribes
            /\ exit("exited", deleted_count)
            /\ UNCHANGED alarm
         \/ /\ ~ok \/ Subscribes
            /\ Then(ok, "subscribed")
            /\ alarm' = IF ok /\ Timeout > 0 THEN "set" ELSE alarm
            /\ UNCHANGED <<vars, status>>
  /\ UNCHANGED todo

Loop ==
  /\ main = "subscribed"
  /\ dispatch_until("loop") /\ main' = "loop"
  /\ UNCHANGED <<todo, alarm, status>>

\* info_loop has returned: as action_cb always returns 1, it has failed.
LoopFailed ==
  /\ main = "loop" /\ waitret.op = "none"
  /\ main' = "fail"
  /\ UNCHANGED <<vars, todo, alarm, status>>

Fails ==
  /\ main = "fail"
  /\ exit("failed", 1)
  /\ UNCHANGED <<todo, alarm>>

Main ==
  /\ Start \/ Begin \/ Arg \/ Commit \/ Committed \/ Loop \/ LoopFailed \/ Fails
  /\ UNCHANGED <<argv, cb, deleted_count, answers, others>>

Ended == main \in {"exited", "failed"}

\* Mutant: the handler only takes note of the signal.
on_alarm_notes ==
  /\ alarm = "set" /\ ~Ended
  /\ alarm' = "rung"
  /\ UNCHANGED <<vars, argv, main, todo, cb, deleted_count, status, answers, others>>

\* The signal comes at any time: info_cb_close.
on_alarm ==
  /\ alarm = "set" /\ ~Ended
  /\ alarm' = "rung"
  /\ conn' = IF conn = "open" THEN "shut" ELSE conn
  /\ UNCHANGED <<tx_begun, waitret, ret, toServer, toClient, srv, db, seen>>
  /\ UNCHANGED <<argv, main, todo, cb, deleted_count, status, answers, others>>

\* Mutant: with -A and -C keys are only printed.
Deletes_unless_all == Has("C") /\ ~Has("A") /\ cb.val # NONE

Deletes == Has("C") /\ cb.val # NONE

\* -C deletes the key it is told of; if that fails main() does not know.
ActionDelete ==
  /\ waitret.in_cb /\ Deletes /\ ~cb.deleted
  /\ info_write(cb.key, NONE)
  /\ cb' = [cb EXCEPT !.deleted = TRUE]
  /\ UNCHANGED deleted_count

\* A key that does not exist is counted.
ActionReturn ==
  /\ waitret.in_cb /\ (Deletes => cb.deleted)
  /\ CallbackReturns(1)
  /\ deleted_count' = IF cb.val = NONE THEN (deleted_count + 1) % EXITMOD
                                    ELSE deleted_count
  /\ UNCHANGED cb

action_cb ==
  /\ ActionDelete \/ ActionReturn
  /\ UNCHANGED <<argv, main, todo, alarm, status, answers, others>>

-----------------------------------------------------------------------------
(* Around the command: the library waits and hands messages to action_cb, the
   daemon serves, others write. *)

Receive ==
  /\ Wait
  /\ cb' = IF waitret'.in_cb
           THEN [key |-> Head(toClient).key, val |-> Head(toClient).val, deleted |-> FALSE]
           ELSE cb
  /\ UNCHANGED <<argv, main, todo, deleted_count, alarm, status, answers, others>>

\* The answers to the transaction are those sent when its COMMIT is served.
Serves ==
  /\ Serve
  /\ IF Head(toServer).op = "COMMIT" /\ conn = "open"
     THEN /\ answers' = SubSeq(toClient', Len(toClient) + 1, Len(toClient'))
          /\ others' = {}
     ELSE UNCHANGED <<answers, others>>
  /\ UNCHANGED <<argv, main, todo, cb, deleted_count, alarm, status>>

\* Bound: others write each key once before the transaction is performed, and
\* once after.  A disconnection loses what is on its way, as if they had written.
Outside ==
  /\ \/ \E k \in Keys \ others, v \in Values \cup {NONE} :
          OtherWrite(k, v) /\ others' = others \cup {k}
     \/ Disconnect /\ others' = Keys
  /\ UNCHANGED <<argv, main, todo, cb, deleted_count, alarm, status, answers>>

\* The other program, which subscribes once on a connection.
Subscriber ==
  \/ /\ Len(toServer) + Len(srv.bufcmds) < MaxSubscriberSent
     /\ info_tx_begin \/ (srv.subs = {} /\ \E p \in Patterns : info_tx(Sub(p)))
  \/ \E by_cb \in BOOLEAN : info_tx_commit(by_cb)
  \/ info_readv
  \/ dispatch_until("loop")
  \/ info_cb_close
  \/ CallClose

CmdInit ==
  /\ Init
  /\ \/ main = "other" /\ argv = <<>>
     \/ main = "start" /\ argv \in CommandLines
  /\ todo = <<>>
  /\ cb = [key |-> 0, val |-> NONE, deleted |-> FALSE]
  /\ deleted_count = 0
  /\ alarm = "off"
  /\ status = 0
  /\ answers = <<>> /\ others = {}

Command(A) == main # "other" /\ A
Other(A) == main = "other" /\ A /\ UNCHANGED info

AnyReturn == \E cb_ret \in -1 .. 1 : CallbackReturns(cb_ret)

CmdNext ==
  \/ Command(Main) \/ Command(on_alarm) \/ Command(action_cb)
  \/ Command(Receive) \/ Command(Serves) \/ Command(Outside)
  \/ Other(Subscriber) \/ Other(Wait) \/ Other(AnyReturn) \/ Other(Daemon)

\* As in LibInfo; and main goes on, and the alarm rings.
CmdFairness ==
  /\ WF_allvars(Command(Main)) /\ WF_allvars(Command(on_alarm))
  /\ WF_allvars(Command(action_cb)) /\ WF_allvars(Command(Receive))
  /\ WF_allvars(Command(Serves))
  /\ WF_allvars(Other(Serve)) /\ WF_allvars(Other(Wait)) /\ WF_allvars(Other(AnyReturn))

CmdSpec == CmdInit /\ [][CmdNext]_allvars /\ CmdFairness

-----------------------------------------------------------------------------
(* Properties. *)

Deleted(m) == m.msg = "INFO" /\ m.val = NONE

\* A command without -s exits by its count only when its transaction was
\* performed, and counts the keys that the transaction was told do not exist:
\* neither the deletes of -C nor other clients' change the count.  The status is
\* the count cut to a byte (info.c:265), which is not what the manual says of it
\* (ExitStatus).
StatusCounts ==
  main = "exited" /\ ~(\E j \in DOMAIN Args : Args[j].opt = "s") =>
    /\ answers # <<>>
    /\ status = Cardinality({j \in DOMAIN answers : Deleted(answers[j])}) % EXITMOD

\* info.mdoc:152-153: info exits with 0 only if no deleted keys were received.
ExitStatus ==
  main = "exited" /\ status = 0 => ~\E j \in DOMAIN answers : Deleted(answers[j])

\* After info -C every key that existed is deleted, once the daemon has read
\* what the command sent before it exited: unless another client wrote the key
\* since, or the connection broke.
Cleared ==
  main = "exited" /\ Has("C") /\ toServer = <<>> =>
    \A j \in DOMAIN answers :
      answers[j].msg = "INFO" /\ answers[j].key \notin others => db[answers[j].key] = NONE

\* The command ends, unless it subscribes without a timeout: the alarm ends
\* info_loop whenever it rings, before the loop, in its read() or in action_cb.
CommandEnds == (main # "other" /\ (Subscribes => Timeout > 0)) ~> Ended

=============================================================================
