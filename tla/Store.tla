------------------------------- MODULE Store -------------------------------
(***************************************************************************)
(* daemon/store.c: the file-backed key/value store of infod.               *)
(*                                                                         *)
(* The store is a memory-mapped file tiled by data records and gaps, and a *)
(* sorted in-memory index of pointers to the data records.  The file is    *)
(* modelled in units of INFO_ALIGN (8) bytes, the granularity at which     *)
(* every record starts and ends.  A C function that takes a store becomes  *)
(* an operator from a store record to the changed store record, with the   *)
(* function's result beside it when it has one.                            *)
(*                                                                         *)
(* Every change to the mapped file goes through Write, one unit at a time  *)
(* and in program order.  A store carries "fuel", the number of writes its *)
(* process will still survive, so that a process killed half way through   *)
(* an operation leaves exactly the writes already made; it is then 0.      *)
(* A write that the mapping cannot take (SIGBUS, SIGSEGV) or a failed      *)
(* assert ends the process in the same way, with fuel = -1 to tell the two *)
(* apart.  A store without fuel is only a file.                            *)
(***************************************************************************)
EXTENDS Integers, Sequences, SequencesExt, FiniteSets, TLC

CONSTANTS
  Keys,            \* keys, as naturals in strcmp order; 0 is the empty key
  Values,          \* values, a set of positive naturals
  Size,            \* Size[v] is the sz, in bytes, of a key with value v
  PageSize,        \* the page size, in units
  FileLimit,       \* UINT32_MAX, in units: the file may not reach it
  STORE_INCREMENT, \* growth rate of the index array
  JunkSize,        \* sz that a unit of value bytes spells, read as a header
  Faults,          \* system calls that may fail, with "none"
  MaxKills,        \* bound: how often a process is killed inside an operation
  MaxWrites        \* bound: the last write of an operation a kill may precede

ASSUME StoreAssumption ==
  /\ Keys \subseteq Nat
  /\ Values \subseteq Nat \ {0}
  /\ Size \in [Values -> 1 .. 65534]
  /\ {PageSize, STORE_INCREMENT, JunkSize, FileLimit} \subseteq Nat \ {0}
  /\ Faults \subseteq {"none", "fallocate", "mmap", "ftruncate", "realloc"}
  /\ {MaxKills, MaxWrites} \subseteq Nat

VARIABLES
  store,  \* struct store, the file it maps, and the fuel of its process
  last,   \* the last operation, its key and its result
  kills   \* how often the process ended inside an operation, up to MaxKills

vars == <<store, last, kills>>

Full == 1000       \* more fuel than any operation can use

-----------------------------------------------------------------------------
(* Units of the file: gap headers, info headers, and the bytes in between. *)

NoKV == <<0, 0>>
JunkKey == 1000    \* the key that value bytes spell, read as a header
TORN == 0          \* the value of a record whose bytes are a mixture

Gap(n) == [t |-> "gap", sz |-> n - 1, kv |-> NoKV]
Zero == Gap(1)
Body(kv) == [t |-> "body", sz |-> JunkSize, kv |-> kv]

roundup(n, align) == ((n + align - 1) \div align) * align

info_size(sz) == (2 + sz + 7) \div 8

record_is_gap(x) == x.t = "gap"

record_get_size(x) == IF record_is_gap(x) THEN x.sz + 1 ELSE info_size(x.sz)

KeyOf(x) == IF x.t = "body" THEN JunkKey ELSE x.kv[1]

-----------------------------------------------------------------------------
(* Access to the mapping. *)

Alive(s) == s.fuel > 0

Die(s) == IF Alive(s) THEN [s EXCEPT !.fuel = -1] ELSE s

Mapped(s, u) == u < s.mapsz /\ u \in DOMAIN s.mem

Write(s, u, x) ==
  IF ~Alive(s) THEN s
  ELSE IF ~Mapped(s, u) THEN Die(s)
  ELSE IF s.fuel = 1 THEN [s EXCEPT !.fuel = 0]
  ELSE [s EXCEPT !.mem[u] = x, !.fuel = @ - 1]

Upto(n) == [j \in 1 .. n |-> j - 1]

\* info->sz = sz: the other bytes of the unit keep what they held.
set_sz(s, u, sz) == Write(s, u, [s.mem[u] EXCEPT !.t = "info", !.sz = sz])

\* memcpy(info->keyvalue, keyvalue, sz)
memcpy(s, p, sz, kv) ==
  LET copy(t, j) == Write(t, p.off + j, IF j = 0
                                        THEN [t.mem[p.off] EXCEPT !.kv = kv]
                                        ELSE Body(kv))
  IN  IF p.base = s.base THEN FoldLeft(copy, s, Upto(info_size(sz)))
                         ELSE Die(s)

\* memmove(filebase + w, filebase + o, n), with w < o
memmove(s, w, o, n) ==
  LET copy(t, j) == IF Mapped(t, o + j) THEN Write(t, w + j, t.mem[o + j])
                                        ELSE Die(t)
  IN  FoldLeft(copy, s, Upto(n))

record_init_gap(s, u, n) == IF n < 1 THEN Die(s) ELSE Write(s, u, Gap(n))

-----------------------------------------------------------------------------
(* The index: pointers into the mapping, sorted by key. *)

Ptr(s, u) == [base |-> s.base, off |-> u]
NULL == [base |-> 2, off |-> 0]

KeyAt(s, p) == KeyOf(s.mem[p.off])

\* The value a reader of the record at unit u sees.
Content(s, u) ==
  LET x == s.mem[u] IN
  IF /\ x.kv # NoKV
     /\ x.sz = Size[x.kv[2]]
     /\ \A j \in 1 .. info_size(x.sz) - 1 :
          u + j \in DOMAIN s.mem /\ s.mem[u + j] = Body(x.kv)
  THEN x.kv[2] ELSE TORN

\* Mutant: without the last comparison, a key larger than all goes too low.
store_find_low(s, k) ==
  LET list(m) == KeyAt(s, s.index[m + 1])
      search[a \in Nat, b \in Nat] ==
        LET m == (a + b) \div 2 IN
        IF m > a /\ k # list(m)
        THEN IF k < list(m) THEN search[a, m] ELSE search[m + 1, b]
        ELSE m
  IN  search[0, Len(s.index)]

store_find(s, k) ==
  LET list(m) == KeyAt(s, s.index[m + 1])
      search[a \in Nat, b \in Nat] ==
        LET m == (a + b) \div 2 IN
        IF m > a /\ k # list(m)
        THEN IF k < list(m) THEN search[a, m] ELSE search[m + 1, b]
        ELSE IF m < b /\ k > list(m) THEN m + 1 ELSE m
  IN  search[0, Len(s.index)]

store_eq(s, i, k) == i < Len(s.index) /\ KeyAt(s, s.index[i + 1]) = k

store_index_ensure(s, i) ==
  IF i < s.max THEN s ELSE [s EXCEPT !.max = roundup(i + 1, STORE_INCREMENT)]

store_index_insert(s, i, p) ==
  [store_index_ensure(s, Len(s.index)) EXCEPT !.index = InsertAt(@, i + 1, p)]

store_index_delete(s, i) == [s EXCEPT !.index = RemoveAt(@, i + 1)]

-----------------------------------------------------------------------------
(* Space management. *)

store_set_space(s, sp) ==
  IF sp # s.filesz
  THEN record_init_gap([s EXCEPT !.space = sp], sp, s.filesz - sp)
  ELSE [s EXCEPT !.space = sp]

GapUpto(s, u, end) ==
  IF end >= s.filesz
  THEN store_set_space(record_init_gap(s, u, s.filesz - u), u)
  ELSE record_init_gap(s, u, end - u)

info_make_gap(s, u) ==
  LET next[o \in Nat] ==
        IF o >= s.filesz \/ ~record_is_gap(s.mem[o]) THEN o
        ELSE next[o + record_get_size(s.mem[o])]
  IN  GapUpto(s, u, next[u + record_get_size(s.mem[u])])

\* The offsets of the data records met by a walk over 0 .. space.
Infos(s) ==
  LET from[o \in Nat] ==
        IF o >= s.space THEN <<>>
        ELSE (IF record_is_gap(s.mem[o]) THEN <<>> ELSE <<o>>)
               \o from[o + record_get_size(s.mem[o])]
  IN  from[0]

SortIndex(s) ==
  IF Alive(s)
  THEN [s EXCEPT !.index = SortSeq(@, LAMBDA p, q : KeyAt(s, p) < KeyAt(s, q))]
  ELSE s

\* Moves the record at o down to a.w, the end a.s has been packed to.
PackRecord(a, o, n) ==
  [s |-> IF a.w = o THEN a.s ELSE memmove(a.s, a.w, o, n),
   w |-> a.w + n,
   index |-> Append(a.index, Ptr(a.s, a.w))]

SetPacked(a) ==
  SortIndex(store_set_space([a.s EXCEPT !.index = a.index], a.w))

\* Copies the data records down over the gaps, then rebuilds the index.
store_repack(s) ==
  SetPacked(FoldLeft(LAMBDA a, o : PackRecord(a, o, record_get_size(s.mem[o])),
                     [s |-> s, w |-> 0, index |-> <<>>],
                     Infos(s)))

\* Result [s, ok].  posix_fallocate() reports failure by a positive errno, so
\* the test against -1 never notices one and the file stays short.
store_file_setsize(s, new, f) ==
  LET size == Cardinality(DOMAIN s.mem)
      grown == IF new > s.filesz /\ f # "fallocate" /\ new > size
               THEN [u \in 0 .. new - 1 |-> IF u < size THEN s.mem[u] ELSE Zero]
               ELSE s.mem
      cut == new < s.filesz /\ f # "ftruncate"
  IN  IF ~Alive(s) THEN [s |-> s, ok |-> FALSE]
      ELSE IF f = "mmap" THEN [s |-> [s EXCEPT !.mem = grown], ok |-> FALSE]
      ELSE [s |-> [s EXCEPT
                     !.base = 1 - @,
                     !.mapsz = new,
                     !.index = [i \in DOMAIN @ |->
                                  [@[i] EXCEPT !.base = 1 - s.base]],
                     !.mem = IF cut THEN [u \in 0 .. new - 1 |-> grown[u]]
                                    ELSE grown,
                     !.filesz = IF new < @ /\ ~cut THEN @ ELSE new],
            ok |-> TRUE]

Sentinel(s) == record_init_gap(s, s.space, s.filesz - s.space)

store_file_trim(s, f) ==
  IF s.filesz > roundup(s.space + 3 * PageSize, PageSize)
  THEN Sentinel(store_file_setsize(s, roundup(s.space + PageSize, PageSize), f).s)
  ELSE s

\* Results [s, p], with p = NULL on failure.
Fail(s) == [s |-> s, p |-> NULL]

\* Mutant: a sentinel even when the allocation ends the file.
TakeAlwaysSentinel(s, sz) ==
  LET t == [s EXCEPT !.space = @ + info_size(sz)]
  IN  [s |-> set_sz(Sentinel(t), s.space, sz), p |-> Ptr(s, s.space)]

\* Mutant: the record is written before the sentinel behind it.
TakeUnordered(s, sz) ==
  LET t == set_sz([s EXCEPT !.space = @ + info_size(sz)], s.space, sz)
  IN  [s |-> IF t.space < t.filesz THEN Sentinel(t) ELSE t, p |-> Ptr(s, s.space)]

\* Allocates at the end of the data: first the new sentinel, then the record.
Take(s, sz) ==
  LET t == [s EXCEPT !.space = @ + info_size(sz)]
  IN  [s |-> set_sz(IF t.space < t.filesz THEN Sentinel(t) ELSE t, s.space, sz),
       p |-> Ptr(s, s.space)]

TakeGrown(g, sz) == IF g.ok THEN Take(g.s, sz) ELSE Fail(g.s)

\* Mutant: the file grows by what is needed, not by pages.
AllocUnrounded(s, sz, f) ==
  IF info_size(sz) <= s.filesz - s.space THEN Take(s, sz)
  ELSE IF s.filesz >= FileLimit - info_size(sz) THEN Fail(s)
  ELSE TakeGrown(store_file_setsize(s, s.space + info_size(sz), f), sz)

AllocPacked(s, sz, f) ==
  LET n == info_size(sz) IN
  IF n <= s.filesz - s.space THEN Take(s, sz)
  ELSE IF s.filesz >= FileLimit - n THEN Fail(s)
  ELSE TakeGrown(store_file_setsize(s, roundup(s.space + n, PageSize), f), sz)

\* Mutant: grows the file without repacking it first.
store_file_alloc_unpacked(s, sz, f) == AllocPacked(s, sz, f)

store_file_alloc(s, sz, f) ==
  AllocPacked(IF info_size(sz) > s.filesz - s.space THEN store_repack(s) ELSE s,
              sz, f)

store_file_dealloc(s, p, f) ==
  LET n == record_get_size(s.mem[p.off])
      after == s.mem[p.off + n]
  IN  IF ~Alive(s) THEN s
      ELSE IF p.off + n = s.space
      THEN store_file_trim(store_set_space(s, p.off), f)
      ELSE record_init_gap(s, p.off, IF record_is_gap(after)
                                     THEN n + record_get_size(after) ELSE n)

AtIndex(s, i) == [s |-> s, p |-> s.index[i + 1]]

SetIndex(r, i) == [r EXCEPT !.s.index[i + 1] = r.p]

Reinsert(r, i) ==
  IF r.p = NULL THEN r ELSE [r EXCEPT !.s = store_index_insert(@, i, r.p)]

\* The last case of store_info_realloc: the old record is already a gap.
Move(s, i, sz, f) ==
  IF info_size(sz) < s.filesz - s.space
  THEN SetIndex(store_file_alloc(s, sz, f), i)
  ELSE Reinsert(store_file_alloc(store_index_delete(s, i), sz, f), i)

\* Mutant: shrinking leaves no gap behind the record.
ResizeNoGap(s, i, u, old, new, room, sz, f) ==
  IF new <= old \/ room = new - old THEN AtIndex(set_sz(s, u, sz), i)
  ELSE IF room > new - old
  THEN AtIndex(set_sz(record_init_gap(s, u + new, old + room - new), u, sz), i)
  ELSE Move(record_init_gap(s, u, old + room), i, sz, f)

\* Resizes the record at u of index[i] from old to new units; a gap of room
\* units follows it (0 for none).
Resize(s, i, u, old, new, room, sz, f) ==
  IF new = old THEN AtIndex(set_sz(s, u, sz), i)
  ELSE IF new < old /\ u + old = s.space
  THEN AtIndex(store_file_trim(store_set_space(set_sz(s, u, sz), u + new), f), i)
  ELSE IF new < old
  THEN AtIndex(record_init_gap(set_sz(s, u, sz), u + new, old - new), i)
  ELSE IF room = new - old THEN AtIndex(set_sz(s, u, sz), i)
  ELSE IF room > new - old
  THEN AtIndex(set_sz(record_init_gap(s, u + new, old + room - new), u, sz), i)
  ELSE Move(record_init_gap(s, u, old + room), i, sz, f)

store_info_realloc(s, i, sz, f) ==
  LET u == s.index[i + 1].off
      old == record_get_size(s.mem[u])
      gapAfter == u + old # s.space /\ record_is_gap(s.mem[u + old])
  IN  Resize(s, i, u, old, info_size(sz),
             IF gapAfter THEN record_get_size(s.mem[u + old]) ELSE 0, sz, f)

-----------------------------------------------------------------------------
(* The interface of the store.  Results are [s, ret]. *)

Replace(r, k, v) ==
  IF r.p = NULL THEN [s |-> r.s, ret |-> -1]
  ELSE [s |-> memcpy(r.s, r.p, Size[v], <<k, v>>), ret |-> 1]

Insert(r, i, k, v, f) ==
  IF r.p = NULL THEN [s |-> r.s, ret |-> -1]
  ELSE IF f = "realloc" /\ Len(r.s.index) >= r.s.max
  THEN [s |-> store_file_dealloc(r.s, r.p, f), ret |-> -1]
  ELSE [s |-> memcpy(store_index_insert(r.s, i, r.p), r.p, Size[v], <<k, v>>),
        ret |-> 1]

\* Mutant: does not notice that the value is the same.
PutAtAlways(s, i, k, v, f) ==
  IF ~store_eq(s, i, k)
  THEN Insert(store_file_alloc(s, Size[v], f), i, k, v, f)
  ELSE Replace(store_info_realloc(s, i, Size[v], f), k, v)

PutAt(s, i, k, v, f) ==
  IF ~store_eq(s, i, k)
  THEN Insert(store_file_alloc(s, Size[v], f), i, k, v, f)
  ELSE IF Content(s, s.index[i + 1].off) = v THEN [s |-> s, ret |-> 0]
  ELSE Replace(store_info_realloc(s, i, Size[v], f), k, v)

store_put(s, k, v, f) == PutAt(s, store_find(s, k), k, v, f)

DelAt(s, i, k, f) ==
  IF store_eq(s, i, k)
  THEN [s |-> store_index_delete(store_file_dealloc(s, s.index[i + 1], f), i),
        ret |-> 1]
  ELSE [s |-> s, ret |-> 0]

store_del(s, k, f) == DelAt(s, store_find(s, k), k, f)

\* What is left of a store when its process ends: the file.
Closed(mem) ==
  [mem |-> mem, filesz |-> 0, mapsz |-> 0, base |-> 0, space |-> 0,
   index |-> <<>>, max |-> 0, fuel |-> 0]

\* Mutant: trusts the file to hold each key once.
DeduplicateNot(s) == s

\* Keeps the first of each run of index entries that have the same key.
Deduplicate(s) ==
  LET keep(t, p) ==
        IF t.index # <<>> /\ KeyAt(s, Last(t.index)) = KeyAt(s, p)
        THEN info_make_gap(t, p.off)
        ELSE [t EXCEPT !.index = Append(@, p)]
  IN  IF Alive(s) THEN FoldLeft(keep, [s EXCEPT !.index = <<>>], s.index) ELSE s

\* The end of the records of a file.  In uint32_t arithmetic filesz - n wraps
\* around when n > filesz: a record larger than the file is not "Too big".
Scan(mem, filesz) ==
  LET from[o \in Nat] ==
        IF o >= filesz THEN o
        ELSE LET n == record_get_size(mem[o])
             IN  IF n <= filesz /\ o > filesz - n THEN o ELSE from[o + n]
  IN  from[0]

OpenMapped(s, n, f) ==
  IF f = "realloc" /\ n > 0 THEN [s |-> Closed(s.mem), ret |-> -1]
  ELSE [s |-> Deduplicate(store_repack(
                IF n = 0 THEN s ELSE store_index_ensure(s, n - 1))),
        ret |-> 0]

OpenPadded(mem, filesz, f, fuel) ==
  LET s == [Closed(mem) EXCEPT !.filesz = filesz, !.mapsz = filesz,
                               !.space = Scan(mem, filesz), !.fuel = fuel]
  IN  IF f = "mmap" THEN [s |-> Closed(mem), ret |-> -1]
      ELSE OpenMapped(s, Len(Infos(s)), f)

\* Maps the file, padded to whole pages; finds its end; repacks it.
store_file_open(mem, f, fuel) ==
  LET size == Cardinality(DOMAIN mem)
      filesz == roundup(IF size = 0 THEN 1 ELSE size, PageSize)
  IN  IF f = "ftruncate" /\ filesz > size THEN [s |-> Closed(mem), ret |-> -1]
      ELSE OpenPadded([u \in 0 .. filesz - 1 |-> IF u < size THEN mem[u] ELSE Zero],
                      filesz, f, fuel)

-----------------------------------------------------------------------------
(* One action per operation of the daemon on its store. *)

\* Mappings are told apart only from the current one, which is renamed 0.
Settle(s) ==
  [s EXCEPT !.fuel = Full,
            !.base = 0,
            !.index = [i \in DOMAIN @ |->
                         [@[i] EXCEPT !.base = IF @ = s.base THEN 0 ELSE 1]]]

KILLED == -2       \* the process was killed from outside
FAULTED == -3      \* it ended itself: SIGBUS, SIGSEGV or a failed assert

Fuels == {Full} \cup IF kills < MaxKills THEN 1 .. MaxWrites ELSE {}

\* An operation on key k returned r, unless its process ended in it.
Finish(op, k, r) ==
  IF Alive(r.s)
  THEN /\ store' = Settle(r.s)
       /\ last' = [op |-> op, key |-> k, ret |-> r.ret]
       /\ UNCHANGED kills
  ELSE LET failed == r.s = Closed(r.s.mem) IN
       /\ store' = Closed(r.s.mem)
       /\ last' = [op |-> op, key |-> k,
                   ret |-> IF failed THEN r.ret
                           ELSE IF r.s.fuel = 0 THEN KILLED ELSE FAULTED]
       /\ kills' = IF failed \/ kills = MaxKills THEN kills ELSE kills + 1

Put(k, v) ==
  /\ Alive(store)
  /\ \E f \in Faults, fuel \in Fuels :
       Finish("put", k, store_put([store EXCEPT !.fuel = fuel], k, v, f))

Del(k) ==
  /\ Alive(store)
  /\ \E f \in Faults, fuel \in Fuels :
       Finish("del", k, store_del([store EXCEPT !.fuel = fuel], k, f))

\* store_close(), or a kill between two operations
Close ==
  /\ Alive(store)
  /\ store' = Closed(store.mem)
  /\ last' = [op |-> "close", key |-> 0, ret |-> 0]
  /\ UNCHANGED kills

Open ==
  /\ ~Alive(store)
  /\ \E f \in Faults, fuel \in Fuels :
       Finish("open", 0, store_file_open(store.mem, f, fuel))

Init ==
  /\ store = Closed(<<>>)
  /\ last = [op |-> "close", key |-> 0, ret |-> 0]
  /\ kills = 0

Next ==
  \/ \E k \in Keys, v \in Values : Put(k, v)
  \/ \E k \in Keys : Del(k)
  \/ Close
  \/ Open

Spec == Init /\ [][Next]_vars

-----------------------------------------------------------------------------
(* Properties. *)

\* The key and value of each data record at an offset in offs.
Entries(s, offs) ==
  [k \in {KeyOf(s.mem[o]) : o \in offs} |->
     Content(s, CHOOSE o \in offs : KeyOf(s.mem[o]) = k)]

\* The offsets of the data records that opening a file of size units finds.
FileInfos(mem, size) ==
  LET from[o \in Nat] ==
        IF o >= size THEN {}
        ELSE LET n == record_get_size(mem[o])
             IN  IF n <= size /\ o > size - n THEN {}
                 ELSE (IF record_is_gap(mem[o]) THEN {} ELSE {o}) \cup from[o + n]
  IN  from[0]

\* What readers of the store find; of a closed store, what is in its file.
Map(s) ==
  Entries(s, IF Alive(s) THEN {s.index[i].off : i \in DOMAIN s.index}
                         ELSE FileInfos(s.mem, Cardinality(DOMAIN s.mem)))

Unit == [t : {"gap", "info", "body"}, sz : Nat, kv : Nat \X Nat]

\* The store record is well typed: offsets are units of the file, index
\* entries are pointers, and last is the outcome of an operation.
TypeOK ==
  /\ store.mem \in [0 .. Cardinality(DOMAIN store.mem) - 1 -> Unit]
  /\ {store.filesz, store.mapsz, store.space, store.max, store.fuel} \subseteq Nat
  /\ store.base \in {0, 1}
  /\ store.index \in Seq([base : {0, 1}, off : 0 .. store.space - 1])
  /\ last \in [op : {"put", "del", "open", "close"},
               key : Keys \cup {0}, ret : {FAULTED, KILLED, -1, 0, 1}]
  /\ kills \in 0 .. MaxKills

\* Where records start on a walk over 0 .. space, and where the walk ends.
Heads(s) ==
  LET from[o \in Nat] ==
        {o} \cup IF o >= s.space THEN {}
                 ELSE from[o + record_get_size(s.mem[o])]
  IN  from[0]

\* Records tile the file: the walk that store_repack and store_file_open make
\* lands exactly on space, and the rest of the file is one sentinel gap,
\* whatever the mixture of growing, shrinking, splitting and merging of
\* records, and of kills and restarts, that came before.
Tiling ==
  Alive(store) =>
    /\ \A o \in Heads(store) : o <= store.space
    /\ store.space < store.filesz =>
         store.mem[store.space] = Gap(store.filesz - store.space)

\* The index lists exactly the data records of the file, once each, in strict
\* key order, by pointers into the current mapping: no remap, repack or resize
\* leaves a pointer that is stale, missing or out of order.
IndexMatchesFile ==
  Alive(store) =>
    LET ix == store.index IN
    /\ {ix[i].off : i \in DOMAIN ix} = ToSet(Infos(store))
    /\ \A i, j \in DOMAIN ix : i < j => KeyAt(store, ix[i]) < KeyAt(store, ix[j])
    /\ \A i \in DOMAIN ix : ix[i].base = store.base
    /\ Len(ix) <= store.max

\* The struct comment "mapped extent" (store.c:148): filesz is what is mapped,
\* and the file backs all of it, in whole pages, with the space inside it.
Extent ==
  Alive(store) =>
    /\ store.filesz = store.mapsz
    /\ 0 .. store.filesz - 1 \subseteq DOMAIN store.mem
    /\ store.filesz % PageSize = 0
    /\ store.space <= store.filesz

\* store_find followed by store_eq finds a key exactly when some data record
\* of the file has it.
LookupCorrect ==
  Alive(store) =>
    \A k \in Keys : store_eq(store, store_find(store, k), k)
                      <=> \E o \in ToSet(Infos(store)) : KeyOf(store.mem[o]) = k

\* The units of data records; of those with a key other than k.
Live(s) ==
  FoldLeft(LAMBDA n, o : n + record_get_size(s.mem[o]), 0, Infos(s))
LiveWithout(s, k) ==
  FoldLeft(LAMBDA n, o : IF KeyOf(s.mem[o]) = k THEN n
                         ELSE n + record_get_size(s.mem[o]), 0, Infos(s))

\* A put that grows the file stores data that would not have fitted in the
\* old file however it was packed: gaps are always reclaimed first.
GrowOnlyWhenFull ==
  [][Alive(store) /\ store'.filesz > store.filesz /\ last'.ret = 1
       => Live(store') > store.filesz]_vars

\* While no process has ended inside an operation, one does so only in a put
\* for which the file must grow, because the values of the other keys leave no
\* room for the new one: no assert fails and no write misses the mapping in any
\* split, merge, move, repack or trim of records.  The exception contradicts
\* store.h:28 ("Returns -1 if the store failed."): posix_fallocate never returns
\* -1, so that a failure of it goes unnoticed (store.c:473) and ends the daemon.
FaultsOnlyInGrowth ==
  [][kills = 0 /\ last'.ret = FAULTED
       => /\ last'.op = "put"
          /\ \E v \in Values :
               LiveWithout(store, last'.key) + info_size(Size[v]) > store.filesz]_vars

\* No value put for key k makes store_put repack the file or shrink a record.
Roomy(s, k) ==
  \A v \in Values :
    /\ info_size(Size[v]) <= s.filesz - s.space
    /\ k \in DOMAIN Map(s) => Map(s)[k] # TORN /\ Size[Map(s)[k]] <= Size[v]

\* A process killed at any write of a delete, or of a put that creates a
\* record or grows one without repacking, leaves a file in which every other
\* key still has its value.
KillIsLocal ==
  [][last'.ret = KILLED /\ (\/ last'.op = "del"
                            \/ last'.op = "put" /\ Roomy(store, last'.key))
       => \A k \in Keys \ {last'.key} :
            /\ k \in DOMAIN Map(store) <=> k \in DOMAIN Map(store')
            /\ k \in DOMAIN Map(store) => Map(store)[k] = Map(store')[k]]_vars

\* store.c:36-38: "surving process kills and restarts.  We want this storage
\* to be robust enough to restart and recover best effort without assistance".
\* Whatever a kill left of the file, the next store_open is not killed by it.
RestartRecovers ==
  ~Alive(store) => Alive(store_file_open(store.mem, "none", Full).s)

KV == INSTANCE KVStore WITH map <- Map(store)

\* While no process has ended inside an operation, every operation does to the
\* map what store.h says, across close and open, and whichever calls fail, with
\* one exception: a put that fails may have removed its own key.  It never
\* touches another key, and no other operation loses anything.
LossOnlyByFailedPut ==
  [][kills' = 0
       => \/ [KV!Next]_(KV!vars)
          \/ \E k \in Keys : KV!Returns("put", k, -1) /\ Map(store)' = KV!Without(k)]_vars

\* The store implements the map of KVStore, also when the file cannot be grown.
\* store.c:580-581: "Resize an existing store->index[i], being careful to not
\* lose any data should an allocation fail."
ImplementsKVStore == KV!Spec
=============================================================================
