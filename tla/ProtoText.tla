----------------------------- MODULE ProtoText -----------------------------
(***************************************************************************)
(* lib/prototext.c, the side that has no state between calls: the table of *)
(* commands and the encoder of the text protocol with its output buffer.   *)
(* The decoder is in module Proto.                                         *)
(*                                                                         *)
(* A byte is its code.  A command word is one symbol, coded as a letter:   *)
(* the table's abbreviations, and the case in which it is typed, are not   *)
(* told apart.                                                             *)
(***************************************************************************)
EXTENDS Integers, Sequences

CONSTANTS
  OUTBUFSZ,   \* sizeof outbuf
  SIZEOFSIZE, \* sizeof sizeof outbuf
  UINT        \* the number of values of an unsigned int

ASSUME ProtoTextAssumption ==
  /\ {OUTBUFSZ, SIZEOFSIZE, UINT} \subseteq Nat
  /\ 0 < SIZEOFSIZE /\ SIZEOFSIZE < OUTBUFSZ /\ 2 * OUTBUFSZ < UINT

LF == 10
CR == 13
SP == 32
QUOTE == 34
BACKSLASH == 92
DIGIT(d) == 48 + d

\* A message: its ID and its data.
Message(id, data) == [id |-> id, data |-> data]

PSEUDO_HELP == 254

Entry(word, id, fmt) == [word |-> word, id |-> id, fmt |-> fmt]

cmdtab ==
  { Entry(72, 0, <<"i", "|", "t">>),         \* HELLO
    Entry(83, 1, <<"t">>),                   \* SUB
    Entry(85, 2, <<"t">>),                   \* UNSUB
    Entry(82, 3, <<"t">>),                   \* READ
    Entry(87, 4, <<"t", "|", "0", "t">>),    \* WRITE
    Entry(66, 5, <<>>),                      \* BEGIN
    Entry(67, 6, <<>>),                      \* COMMIT
    Entry(80, 7, <<"|", "t">>),              \* PING
    Entry(86, 128, <<"i", "|", "t">>),       \* VERSION
    Entry(73, 129, <<"t", "|", "0", "t">>),  \* INFO
    Entry(112, 130, <<"|", "t">>),           \* PONG
    Entry(69, 131, <<"i", "t">>),            \* ERROR
    Entry(104, PSEUDO_HELP, <<>>) }          \* HELP

-----------------------------------------------------------------------------
(* The output buffer: what it holds, what was given to on_sendv, and whether  *)
(* a write went over its end.  It goes on as if the memory there took it.    *)

outbuf_flush(o) == [o EXCEPT !.buf = <<>>, !.sent = @ \o o.buf]

\* memcpy to &outbuf[outbuf_len]
Stored(o, data) ==
  [o EXCEPT !.buf = @ \o data, !.over = @ \/ Len(o.buf) + Len(data) > OUTBUFSZ]

\* Mutant: what did not fit is not kept.
proto_outbuf_drops(o, data) ==
  LET space == (SIZEOFSIZE - Len(o.buf)) % UINT
  IN  IF Len(data) <= space THEN Stored(o, data)
      ELSE outbuf_flush(Stored(o, SubSeq(data, 1, space)))

\* Append what there is said to be space for; send a huge write with what is
\* held; else fill, send and keep the remainder.  The space is computed from
\* sizeof sizeof outbuf, and wraps around once the buffer holds more than that:
\* every further write is then a small one.
proto_outbuf(o, data) ==
  LET space == (SIZEOFSIZE - Len(o.buf)) % UINT IN
  IF Len(data) <= space THEN Stored(o, data)
  ELSE IF Len(data) >= OUTBUFSZ
  THEN [outbuf_flush(o) EXCEPT !.sent = @ \o data]
  ELSE Stored(outbuf_flush(Stored(o, SubSeq(data, 1, space))),
              SubSeq(data, space + 1, Len(data)))

outbuf_putc(o, ch) ==
  LET full == Stored(o, <<ch>>)
  IN  IF Len(full.buf) = OUTBUFSZ THEN outbuf_flush(full) ELSE full

-----------------------------------------------------------------------------
(* The encoder: a line is a sequence of writes to the output buffer, each of
   several bytes (proto_outbuf) or of one (outbuf_putc). *)

Data(bytes) == [putc |-> FALSE, bytes |-> bytes]
Putc(ch) == [putc |-> TRUE, bytes |-> <<ch>>]

Digits(n, base, len) == [i \in 1 .. len |-> DIGIT((n \div base ^ (len - i)) % base)]

Decimal(n) == Digits(n, 10, IF n < 10 THEN 1 ELSE IF n < 100 THEN 2 ELSE 3)

Octal(ch) == <<BACKSLASH>> \o Digits(ch, 8, 3)

PutChar(ch) ==
  IF ch \in {LF, CR, QUOTE, BACKSLASH, 0} THEN Data(Octal(ch)) ELSE Putc(ch)

output_text_string(str) ==
  <<Putc(QUOTE)>> \o [i \in DOMAIN str |-> PutChar(str[i])] \o <<Putc(QUOTE)>>

\* The string arguments in the data of a message: "t|0t" is the key and the
\* value after the first NUL, if there is one.
Strings(fmt, data) ==
  LET String(first, last) == <<Putc(SP)>> \o output_text_string(SubSeq(data, first, last))
      nuls == {i \in DOMAIN data : data[i] = 0}
      nul == CHOOSE i \in nuls : \A j \in nuls : i <= j
  IN  IF fmt = <<"t", "|", "0", "t">> /\ nuls # {}
      THEN String(1, nul - 1) \o String(nul + 1, Len(data))
      ELSE String(1, Len(data))

\* The writes for m: the word, its integer, its strings, the end of the line.
Puts(m) ==
  LET e == CHOOSE e \in cmdtab : e.id = m.id
      int == e.fmt # <<>> /\ e.fmt[1] = "i"
  IN  <<Data(<<e.word>>)>>
        \o (IF int THEN <<Putc(SP), Data(Decimal(m.data[1]))>> ELSE <<>>)
        \o (IF e.fmt = <<>> THEN <<>>
            ELSE Strings(e.fmt, IF int THEN Tail(m.data) ELSE m.data))
        \o <<Data(<<CR, LF>>)>>

\* The output buffer after the line for m, which is flushed; after[i] is the
\* buffer after the i-th write.
output_text(m) ==
  LET w == Puts(m)
      Put(o, x) == IF x.putc THEN outbuf_putc(o, x.bytes[1]) ELSE proto_outbuf(o, x.bytes)
      after[i \in 0 .. Len(w)] ==
        IF i = 0 THEN [buf |-> <<>>, sent |-> <<>>, over |-> FALSE]
                 ELSE Put(after[i - 1], w[i])
  IN  outbuf_flush(after[Len(w)])

=============================================================================
