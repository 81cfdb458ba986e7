# infod3: TLA+ models and proofs

infod is an information store that processes share. The daemon keeps key/value
pairs in a memory-mapped file; clients read, write, subscribe to patterns and
group commands in transactions, over TCP or Unix sockets; `libinfo` is the client
library. The modules here model the parts whose correctness depends on the order
of steps: of clients, of messages, of writes to the file before a kill, of calls
that fail; and the pure parts (matching, framing, the binary search) whose edge
cases a test hardly reaches.

## The system and its models

| Part | Source | Module |
|---|---|---|
| store: file, index, allocator | `daemon/store.c` | `Store`, and `KVStore`: what `store.h` promises |
| the index's binary search | `daemon/store.c` `store_find`, `store_eq` | `StoreFind`, `StoreFind_proofs` |
| socket table and poll loop, `main` | `daemon/server.c`, `daemon/infod.c` | `Server`, `Server_proofs` |
| commands, transactions, subscriptions | `daemon/infod.c`, `daemon/list.h` | `Infod`, `Infod_proofs` |
| pattern matching | `daemon/match.c` | `Match`, `Match_proofs`; the reference definition is in `MCMatch` |
| protocol dispatch | `lib/proto.c` | `Proto`, `Proto_proofs` |
| binary framing, receive buffer | `lib/protobin.c`, `lib/rxbuf.c` | `Proto`, `Proto_proofs`, `Parts_proofs` |
| framed messages | `lib/protofram.c` | `Proto`, `Proto_proofs` |
| text protocol | `lib/prototext.c` | `ProtoText` (encoder, command table), `Proto` (decoder) |
| client library | `lib/info.c` | `LibInfo` |
| the `info` command | `client/info.c` | `InfoCmd`, on top of `LibInfo` |
| sockets | `lib/sock*.c` | no: system calls without state of their own |

How the parts interact. `main` opens the store and the listeners and runs
`server_poll` until a signal. `server_poll` accepts, and hands readable sockets to
`infod.c`, which decodes messages and performs them on the store; a write is told
to every client with a matching subscription, and a client that cannot be told is
shut down and closed later by the poll loop. The library sends commands on a
connection and waits for answers on it. Each module takes its neighbours by what
they promise: `Infod` uses the store as the map `KVStore` (with a put that may
fail) and `match` as a relation, `Server` lets a message have any result, `LibInfo`
has a daemon that serves commands in order, as `Infod` and `Server` do, and both ends
use messages as `Proto` delivers them. `InfoCmd` is composed with `LibInfo`: the
command, the library, the daemon and other clients in one state space.

### Store

The file is modelled in units of 8 bytes (`INFO_ALIGN`): a unit is a gap header, a
record header or the inside of a value. A C function on `struct store` is an
operator from a store record to the changed record, with its result beside it; an
action is one whole call of `store_put`, `store_del`, `store_open` or
`store_close`. Every change of the file goes through `Write`, in program order, and
uses up "fuel": a process whose fuel ends has made exactly the writes before the
kill. What a unit of value bytes spells when it is read as a header is the
constant `JunkSize`. `Faults` names the system calls that may fail.

`KVStore` is the promise: a map that put and del change, that failed puts leave
alone, and that close and open preserve. The code keeps it but for failing puts
(`LossOnlyByFailedPut`, and run `store_put`).

### StoreFind

One action per turn of the loop of `store_find` and one for its tail, over every
sorted index. `Store` uses the search as one operator; this module is about the
loop itself.

### Server

`table` is `socket[]` with `pollfd[]`, `i` the index of the loop in `server_poll`.
One action per iteration (quiet entry, accept in its three outcomes, input,
end of file), one for `poll()` itself, and for the steps of `main`. The kernel's
side (`link`, `input`, `eof`) and the peers are the environment. A peer that hangs
up can make a send raise SIGPIPE, which nothing in the daemon ignores
(`ReadyPipe`). A `max_sockets` of 0 (no limit), or one that the listeners reach
alone, is outside the module's assumption.

### Infod

`client[c]` is `struct client`; `Receive` is `on_app_input` for one message, with
`buffer_command` when a transaction is open. A playback takes one step per
command, and `Next` lets nothing else happen during it, since the daemon is one
thread. What a client was sent is kept as `view`: per key, the value it takes from
the INFO messages received. A send succeeds, fails (the client is shut down), is
cut short, or meets a peer that has closed, which kills the daemon (`SigPipe`). Two
variables are history: `lost` has the keys that a failing `store_put` has removed,
and `base` the store at the COMMIT of the playback under way, with its commands.

### Match

One action per turn of the loop of `do_match`, and one per character of the inner
loop of `*`. `parens` is the array of open groups. With `CHECK` the walk is
`match_isvalid`. Pattern and string are byte sequences, of which some bytes begin or
continue a character of several bytes. `MCMatch` defines the pattern language of
PROTOCOL by recursion on the pattern, for comparison.

### Proto and ProtoText

A sending end (`proto_output`, or a person who types lines), a stream whose bytes
are read in pieces of any size or a socket that keeps packets apart, and a receiving
end (`proto_recv`). `mode` and `omode` are the modes of the two ends, `rx` the receive
buffer with its size, `net` what was read and is still to be decoded, `t` the state of
the text decoder. A turn of `recv_binary`'s loop is one step, and so is one case of
the switch in `recv_text_1ch`. `got` is what `on_input` was given and the errors that
were answered, `sent` what should come out. A line that is written over the end of
the encoder's `outbuf` is sent as if the memory there took it, or the sending end is
killed; what a sender does after that is undefined and not modelled. The limits (`RXLIMIT`, `SIZECHUNK`,
`CMDSZ`, `OUTBUFSZ`) are constants. A command word is one symbol, so the table's
abbreviations and upper and lower case are not told apart.

### LibInfo

The library (`conn`, `tx_begun`, `waitret`), the two directions of its connection
as queues, and the daemon (`srv`, `db`). A call is one action that sends its
commands, any of which may fail, and, if it waits, further steps: `ReadMessages` is
a `read()`, `on_input` handles one message, the callback is a state in which the
application may call functions again. `seen` is a history variable: the contents
of the store since the call began. Connecting, with its retries, is one step that
succeeds or fails. A connection that was closed is read by the daemon to its end
before the next one. A subscription is to a pattern, which is a set of keys; a
change is notified once for each subscription whose pattern matches, as the daemon
does. SIGPIPE in the application is left to the application.

### InfoCmd

`main` of the command on top of the library: the commands of the command line go
into one transaction, `action_cb` handles the answers (with `-C` it deletes the keys
it is told of), and `info_loop` waits for notifications until the alarm. `on_alarm` may
come at any point after it is set: before the loop, in its `read()`, or in the
callback. `answers` and `others` are history variables: what the transaction was
answered, and the keys other clients wrote since. The same module also runs another
program (`Subscriber`) that subscribes, once on a connection, reads and loops as it
likes.

## Runs

| Run | Shows |
|---|---|
| `store` | `Tiling`, `IndexMatchesFile`, `Extent`, `LookupCorrect`: after any sequence of operations, kills and restarts the file is tiled by records and gaps, and the index is exactly its records in key order. `GrowOnlyWhenFull`. `FaultsOnlyInGrowth`: no assert fails and no write misses the mapping, but where the file must grow. `LossOnlyByFailedPut`: the store is the map of `KVStore`, except that a failing put may remove its own key. `KillIsLocal`: after a kill at any write other keys keep their values, unless the file was being repacked or a record shrunk. |
| `walks` | `Found`, `EqDecides`, `Halves`: `store_find` for all sorted indexes over seven keys. `InBounds`: `do_match` stays inside pattern, string and `parens`. `Decides`: it agrees with the recursive definition of the language, for validity and for matching. |
| `server` | `TableMatches`, `Gated`, `NoneMissed`: table, client records, gate and events under accept, close and move of entries; `EndedIsClosed`, `InputIsRead` (liveness). |
| `infod` | `SubscribersCurrent`, `OnlySubscribers`: who is told what, with every call failing. `ListsSound`, `OpenIsRecorded`: the recording of nested transactions of two clients. `Exclusive`, `PlaybackEnds`: their playback. |
| `proto` | `FramesDelivered`, `LinesAnswered`: what was sent is delivered or answered, whole, in order and once, however it is cut up. `RefusedOnlyWhenFull`: a connection is given up only on a message that does not fit in the buffer. `TypeOK`: with the bounds of the buffers. |
| `lib_info` | `TxMatches`, `NothingLeft`, `ReadCurrent`: an application without subscriptions, with failing connects, sends and buffers and a daemon that disconnects. |
| `lib_info_subs` | `StatusCounts`, `Cleared`, `CommandEnds`: the `info` command whatever other clients do and whenever the alarm rings. `ReadvCoherent`, `CallReturns`, `CbCloseEnds`: an application with a subscription and callbacks. |
| `store_put`, `store_restart`, `lib_info_read`, `info_exit`, `proto_limit` | counterexamples, see "Where the code and its documentation differ". |

Bounds. In `store`, values of one and four units in pages of two and a file of at
most eight units make records grow in place, grow into the next gap, move, shrink,
merge, force a repack, and force the file to grow and to hit its limit; two keys
suffice for a record to have a neighbour on each side, as a deleted record leaves
a gap. A kill may come once, at each of up to `MaxWrites` = 10 writes, more than
most operations make. Properties that speak of a healthy store say so (`kills = 0`).
`walks` interleaves nothing: a behaviour is a search or a walk. Its patterns are all
those of up to four characters, with strings of up to two, and groups nested to one
level more than `MAX_PAREN` with strings of up to three; two characters that share
their first byte make a match of half a character visible. `server` has two
listeners, three peers (one may be standard input) and four sockets, so that a
close moves an entry that has an event, the gate closes and opens, and the table,
with `INCREMENT` 2, grows and shrinks. `infod` has two clients, one of them text
(errors do not close it), a key and an ephemeral key, a pattern that matches both and
one for the latter, nesting to depth 2 and two recorded commands in all (`MaxRecorded`),
which may be two of one client or one of each. In transactions clients send writes of
the key and a SUB (`TxCmds`), outside them every command; `MAX_SUBS` is 0 so that the
limit, which is off by one, is met by the second subscription. `lib_info` has two keys,
so that an answer can be about the wrong one, and one value, as properties tell only
values from none; `MaxSent` and `MaxPending` bound the commands and messages on their
way. In `lib_info_subs` three messages are enough for a notification behind the PONG,
and a subscription is to both keys or to one of them; an exit status has two values
(`EXITMOD` 2, where a process has 256), so that two deleted keys already wrap it. `proto`
has a receive buffer of 12 bytes, an output buffer of 12 and command words of three
characters, with messages just below and above each limit, so two messages meet every
limit, also when a frame is cut in its header.

Fairness. `Server`, `Infod`: weak fairness of the daemon's steps, since its
process runs whenever it is not blocked in `poll()`; a playback is a loop without
a blocking call. `LibInfo`: weak fairness of the
daemon's service, of the library's loop, and of the return of the callback, which
is the application's obligation; none of other clients, of the application's
calls, or of disconnection. `InfoCmd`: as `LibInfo`, where the callback is `action_cb`;
in addition `main` goes on, as it is a process that runs, and an alarm that was set
rings. `Store`, `StoreFind`, `Match` and `Proto` have safety properties only; that the
search ends is what `Halves` says.

Deadlock is checked except where the system stops: `walks` (the call returns),
`server` (the daemon exits), `infod` (a SIGPIPE ends the daemon), `proto` and
`proto_limit` (all was sent and read), `lib_info_subs` and `info_exit` (the command
exits).

## Proofs

`StoreFind_proofs` proves about `StoreFind`, for every set `Keys` of naturals and every
index length, under the assumption of that module on its constants only:
`SearchTyped`, `SearchBracketed`, `SearchFinds`, `SearchDecides`, `SearchHalves`.

`Found` is not inductive: it speaks only of the end. The inductive invariant is

    IInv == FindTypeOK /\ Sorted /\ Bracket /\ Stopped /\ Found

`Sorted` (the index is strictly increasing and never changes) turns one comparison
with the middle element into a fact about everything on one side of it, which is
how `Bracket` survives a turn of the loop; `Stopped` says how far the bracket has
closed when the loop ends, which with `Bracket` gives `Found` after the tail.
`SearchDecides` follows from `Found` and `Sorted`, `SearchHalves` from arithmetic on
the middle.

`Infod_proofs` proves about `Infod`, for any clients, keys, patterns, limits, bounds and
failing calls, under `InfodAssumption` only: `InfodTyped`, `RecordingIsSound`
(`ListsSound`), `SubscribersAreCurrent` (`SubscribersCurrent`) and `PlaybackIsExclusive`
(`Exclusive`). The first inductive invariant says of every client's record that it is

    Good(r, d, l) == Sound(r) /\ Current(r, d, l)

with respect to the store `d` and the lost keys `l`: well formed with a sound list, and
current about every key it subscribes to that is not lost. The two
must go together with the types, but need little more: a BEGIN sets the tail to 0,
which is sound only as the list is empty then. It is, because a BEGIN is either received,
and then no playback is under way, or played back, which cannot be as no BEGIN is
ever recorded. The argument follows the code: one lemma for each way a record may
change (`Keep`, `Drop`, `Reply`, `proto_output_error`, `Notify`), one for what each
command makes of a good record, and one for each action. `Notify` is the step where
store and records change together: subscribers are told the new value, and for the
others the key does not count.

The second, `IPlay`, is about the playback: there is at most one, what is left of it is
the end of the commands it began with, and the store is what the others have made of
the store at the COMMIT. It rests on `InputKept`: whatever a command does, and however it
fails, it leaves every transaction as it is or closes its connection (`AllKept`), and
changes the store at its own key only (`Effect`). So a turn of a playback cannot begin
another one, and since nothing else happens during a playback, each turn adds exactly
one command to those performed (`StepValue`).

`Server_proofs` proves about `Server`, for any peers, listeners, growth step and faults
and any limit above the number of sockets that `main` adds, under `ServerAssumption`
only: `TableAlwaysMatches` (`TableMatches`), `GateHolds` (`Gated`) and `EventsServed`
(`NoneMissed`). The inductive invariant is

    IInv == TypeOK /\ i \in Nat /\ TableMatches /\ Gated /\ RevBehind /\ Reported

None of the three properties is inductive alone. That an accept never exceeds the
limit needs `Reported` (a listener has an event only while it is polled for) with
`Gated` (it is polled for only while there is room), and `Reported` survives because
`server_listen_enable` drops a listener's event when it holds it off. That the new
entry is not a second one of its connection needs `TableMatches`: the entries are
exactly the listeners and the open connections, and a connection that is accepted was
not open. `RevBehind` says that no event is left behind the index of the loop, which
holds though `close_delete_socket` moves the last entry, as the entry moves to the
index and not behind it. The lemmas `Added` and `Removed` say what
`server_add_socket` and `close_delete_socket` make of every entry; then each action
is a case. At the start the entries are distinct as there are as many as sockets.

`Match_proofs` proves `MatchInBounds` (`InBounds`) for every pattern, every string and
every `MAX_PAREN`: the places of the walk and those kept in `parens` stay inside, also
for invalid patterns. The invariant adds that groups hold places of the string and
that the inner loop of `*` only runs on a pattern that has not ended. That the end of
the string exists at all is an instance of the least element of a set of naturals.

`Proto_proofs`, with facts on parts of sequences from `Parts_proofs`, proves `Delivered`
(`FramesDelivered`) and `RefusalIsJustified` (`RefusedOnlyWhenFull`) for any messages,
any number of them, any limit up to 65536 and any way the stream is cut up. The
invariant `BinaryInv` says that the stream is the frames sent, that what was delivered
is a prefix of them, that buffer and undecoded input together are exactly the part of
the stream from the end of the last message delivered to the place the reads have
reached, and that no whole frame stays in the buffer. The last is what makes
everything read also delivered. `PacketInv` is its counterpart for sockets that keep
packets apart.

Only model-checked: liveness everywhere (`EndedIsClosed`, `InputIsRead`,
`PlaybackEnds`, `CallReturns`, `CbCloseEnds`, `CommandEnds`), which is out of the
prover's reach; the properties of `Store`, which need induction along the chain of
records in the file; `Decides`, where the reference is a recursive definition;
`LinesAnswered`; the properties of `LibInfo` and `InfoCmd`; `OpenIsRecorded` and
`OnlySubscribers` of `Infod`.

## Where the code and its documentation differ

Checked by a run of its own:

- `store_put`: a put of a larger value that cannot grow the file has given up the old
  record and deleted its index entry before it asks for space (store.c:668), so the key
  is gone; store.c:580-581 is "careful to not lose any data should an allocation fail".
- `store_restart`: after a kill at the wrong write the next open walks off the file,
  as `offset > filesz - record_sz` (store.c:416) wraps; store.c:36-38 wants restarts
  to recover.
- `lib_info_read`: `info_readv` of one key waits for any INFO (info.c:340), so with
  a subscription it can report a key missing that exists, or leave its answer to
  the next call; libinfo.mdoc:136.
- `info_exit`: the exit status of `info` is its count cut to a byte (client/info.c:265),
  so 256 deleted keys give 0; info.mdoc:152-153 says that it "will exit 0 only when all
  operations were successful, and no deleted keys were received".
- `proto_limit`: `recv_binary` refuses data of 65532 to 65535 bytes, as header, data and
  NUL must stay below the limit of the buffer (protobin.c:60, rxbuf.c:36); PROTOCOL:241-242
  allows 65535, and `output_binary` sends them.

Met while modelling, and in the models as the code has them:

- A SIGTERM between the test of `terminated` and `poll()` (infod.c:728-733) is not
  acted on while no socket has an event; infod.c:717.
- A playback stops at the first command in error (infod.c:315), with its predecessors
  performed; PROTOCOL:93-95 says atomically. `Exclusive` says what is left of that.
- `posix_fallocate` is compared with -1 but returns an error number (store.c:473): when
  it fails, the daemon dies on the part of the mapping that the file does not back, where
  store.h:28 says that `store_put` returns -1. `FaultsOnlyInGrowth` has the exception.
- A failing `ftruncate` sets `filesz` back but not the mapping (store.c:497). With
  `"ftruncate"` in `Faults`, `Extent` is violated.
- A subscriber is not told of the key that a failing put has removed (infod.c:451), nor
  of a later delete of it, which changes nothing: `SubscribersCurrent` excepts `lost`.
- `store_file_alloc` packs but releases no pages (store.c:533; store.c:121, 2c).
- The hysteresis test compares with `nmax - 1` (server.c:103) where a step of
  `INCREMENT` is meant.
- Without memory for a client record, `on_net_ready` reads through NULL (infod.c:257).
- SIGPIPE is not ignored: a send to a client that has closed ends the daemon
  (infod.c:270; PROTOCOL:33).
- A short `writev` counts as sent (infod.c:270; comment at 267-269), so that the client
  stays connected and can make nothing of what follows; `SubscribersCurrent` excepts it.
- `nsubs > MAX_SUBS` allows one subscription too many (infod.c:396); `nbufcmds` is
  never incremented, so `MAX_BUFCMDS` limits nothing (infod.c:320).
- SUB twice needs UNSUB twice (infod.c:419; PROTOCOL:64, 68). COMMIT without BEGIN
  is an error (infod.c:481), and PROTOCOL:98 says it must be ignored.
- `info_exists` may take an earlier notification for its answer (info.c:139).
  `info_tx_begin` works in a callback (info.c:402), where libinfo.mdoc:235 promises
  EBUSY. `info_tx_commit` returns at least 1 (info.c:515), info.h:360 says 0. A
  `info_writev` that fails in a callback leaves the daemon recording (info.c:397).
  A read inside an open transaction never returns; `CallReturns` is checked for
  applications that do not do so (`ReadInTx`).
- With a subscription to some of its keys, `info_readv` binds notifications read with its
  final PONG (info.c:147-156), so that those keys and the others may be of two moments;
  libinfo.mdoc:174-176 has the keys "read or written together on the server with no
  intervening operations". `ReadvCoherent` claims it for each of the two parts.
- The encoder's test for a full buffer uses `sizeof sizeof outbuf` (prototext.c:335),
  so it flushes at the wrong places, and lines can be written over the end of `outbuf`.
- A text line whose key fills the receive buffer is dropped without an error
  (prototext.c:198). A bad octal digit is error 100 (prototext.c:262), where
  PROTOCOL:329-331 has 101. The end of file never flushes a last line without a newline: `proto_recv` returns
  before it calls `recv_text`, whose branch for that is never taken.
- `*` before an escaped character looks for the backslash (match.c:64-70); PROTOCOL makes
  it look for the character. `Decides` excepts such patterns from its comparison.
  `match` returns -1 for an invalid pattern; match.h:8 says 0. SUB refuses invalid
  patterns, so no caller sees it.
- A delete of `-C` that fails is only reported (client/info.c:46). After a timeout the
  status is 1, as `info_loop` then returns -1 (client/info.c:263).

## Not modelled

- `lib/sock*.c`: system calls that create and name sockets, without state of their own.
- Options, logging and start-up of the daemon, which run once and in order.
- The loop over addresses in `open_tcp` and the retries of `info_open`: connecting is
  one step of `LibInfo` that succeeds or fails.
- `to_binary_iov` and the formats of `proto_output`: a message's data is one sequence.
  The encoder's complaints about a format that does not fit the command table.
- A `realloc` that fails in the receive buffer: at its limit the decoders do the same.
- The copying of values into the caller's buffer in `info_readv` (it may run out, as
  fault `"buffer"`).
- What the `info` command prints (`-b`, `-k`), and its choice of the server (`-S`).
- `max_sockets` of 0 (no limit) in the table of sockets.
- Reconnection while the daemon still serves the library's old connection.
