------------------------------- MODULE Proto -------------------------------
(***************************************************************************)
(* lib/proto.c, protobin.c, protofram.c, prototext.c and rxbuf.c: the      *)
(* protocol translators at the two ends of a connection, one that sends    *)
(* and one that receives.                                                  *)
(*                                                                         *)
(* What is sent, by proto_output or by a person who types lines, is        *)
(* carried by a stream that may be read in pieces of any size, or by a     *)
(* socket that keeps packets apart (mode FRAMED).  proto_recv finds the    *)
(* mode from the first byte and hands the decoder what was read.  A turn   *)
(* of recv_binary's loop is one step, and so is a case of the switch in    *)
(* recv_text_1ch; "goto again" and a fall through leave the character in   *)
(* net.                                                                    *)
(*                                                                         *)
(* realloc does not fail; where the limit of the receive buffer is hit the *)
(* decoders do what they would do then.                                    *)
(***************************************************************************)
EXTENDS ProtoText

CONSTANTS
  RXLIMIT,    \* 0x10000, the size that rxbuf_resize refuses
  SIZECHUNK,
  CMDSZ,      \* sizeof t->cmd
  Sends,      \* the messages the sending end may send
  Typed,      \* the lines it may type, each with the answer it should have: the
              \* message it stands for, an error, or None
  MaxSent     \* bound: messages and lines that are sent

Byte == 0 .. 255

\* The first bytes that select the text protocol.
IsText(b) == b \in {LF, CR, SP} \/ (64 <= b /\ b <= 126)

\* An error that is sent back, whatever its code, and the absence of any answer.
Error == Message(-2, <<>>)
None == Message(-1, <<>>)

ASSUME ProtoAssumption ==
  /\ {RXLIMIT, SIZECHUNK, CMDSZ, MaxSent} \subseteq Nat \ {0}
  /\ 4 < RXLIMIT /\ RXLIMIT <= 65536
  /\ \A m \in Sends : m = Message(m.id, m.data) /\ m.id \in Byte /\ m.data \in Seq(Byte)
  /\ \A m \in Sends : ~IsText(m.id)
  /\ \A l \in Typed : l.line \in Seq(Byte) /\ l.line # <<>>

VARIABLES
  omode,   \* the sending end's mode
  stream,  \* all that it put on the wire: bytes, or packets if FRAMED
  sent,    \* the messages it sent, each with where it ends in stream
  mode,    \* the receiving end's mode
  rd,      \* how much of stream was read
  net,     \* what was read and not yet decoded
  rx,      \* its receive buffer
  t,       \* the state of its text decoder
  got,     \* the answers: messages for on_input, errors, HELP; in order
  status   \* "open", "closed" or "refused" (the buffer's limit)

vars == <<omode, stream, sent, mode, rd, net, rx, t, got, status>>
-----------------------------------------------------------------------------
(* The receive buffer. *)

roundup(k) == IF k % SIZECHUNK = 0 THEN k ELSE k + (SIZECHUNK - (k % SIZECHUNK))

\* Mutant: the limit is tested after the size was rounded up.
TooBig_rounded(sz) == roundup(sz) >= RXLIMIT

\* rxbuf_resize fails.
TooBig(sz) == sz >= RXLIMIT

rxbuf(buf, sz) == [buf |-> buf, max |-> roundup(sz)]

\* rxbuf_addc resizes when the buffer is full.
AddFails(b) == Len(b.buf) >= b.max /\ TooBig(Len(b.buf) + 1)
rxbuf_addc(b, ch) ==
  [buf |-> Append(b.buf, ch),
   max |-> IF Len(b.buf) >= b.max THEN roundup(Len(b.buf) + 1) ELSE b.max]

rxbuf_trimspace(b) ==
  LET keep == CHOOSE k \in 0 .. Len(b.buf) :
                /\ k # 0 => b.buf[k] # SP
                /\ \A i \in k + 1 .. Len(b.buf) : b.buf[i] = SP
  IN  [b EXCEPT !.buf = SubSeq(@, 1, keep)]

-----------------------------------------------------------------------------
(* Sending. *)

Frame(m) == <<m.id, Len(m.data) \div 256, Len(m.data) % 256>> \o m.data

Packet(m) == <<m.id>> \o m.data

\* output_binary refuses data that its length field cannot hold; output_framed
\* and output_text refuse none.
MayOutput(m) == omode \in {"UNKNOWN", "BINARY"} => Len(m.data) < RXLIMIT

\* Writing the line for m has gone over the end of outbuf.
Overruns(m) == (\E e \in cmdtab : e.id = m.id) /\ output_text(m).over

\* What the sending end does after that is not defined, and not modelled.
Undefined == omode = "TEXT" /\ \E i \in DOMAIN sent : Overruns(sent[i].msg)

\* A line that goes over the end of outbuf is sent, or the sending end is killed.
TextOutput(m) ==
  LET o == output_text(m)
  IN  \/ stream' = stream \o o.sent
      \/ o.over /\ UNCHANGED stream

proto_output(m) ==
  /\ Len(sent) < MaxSent /\ ~Undefined
  /\ MayOutput(m)
  /\ omode' = IF omode = "UNKNOWN" THEN "BINARY" ELSE omode
  /\ \/ omode' = "BINARY" /\ stream' = stream \o Frame(m)
     \/ omode' = "FRAMED" /\ stream' = Append(stream, Packet(m))
     \/ omode' = "TEXT" /\ TextOutput(m)
  /\ sent' = Append(sent, [msg |-> m, end |-> Len(stream')])
  /\ UNCHANGED <<mode, rd, net, rx, t, got, status>>

\* A person types a line, blank or not; the first decides the mode.
TypeLine(l) ==
  /\ omode = "TEXT" /\ Len(sent) < MaxSent /\ ~Undefined
  /\ sent = <<>> => IsText(l.line[1])
  /\ stream' = stream \o l.line
  /\ sent' = Append(sent, [msg |-> l.msg, end |-> Len(stream')])
  /\ UNCHANGED <<omode, mode, rd, net, rx, t, got, status>>

-----------------------------------------------------------------------------
(* Receiving. *)

Detect(b) == IF IsText(b) THEN "TEXT" ELSE "BINARY"

\* on_input is given m: it goes on, or asks for the connection to be closed.
OnInput(m) ==
  /\ got' = Append(got, m)
  /\ status' \in {"open", "closed"}

\* proto_recv is given some bytes of a stream.
RecvBytes ==
  /\ status = "open" /\ mode # "FRAMED"
  /\ net = <<>> /\ rd < Len(stream)
  /\ mode' = IF mode = "UNKNOWN" THEN Detect(stream[rd + 1]) ELSE mode
  /\ rd' \in rd + 1 .. Len(stream)
  /\ net' = SubSeq(stream, rd + 1, rd')
  /\ UNCHANGED <<omode, stream, sent, rx, t, got, status>>

\* proto_recv is given a packet: recv_framed.
RecvPacket ==
  /\ status = "open" /\ mode = "FRAMED"
  /\ rd < Len(stream)
  /\ rd' = rd + 1
  /\ OnInput(Message(stream[rd'][1], Tail(stream[rd'])))
  /\ UNCHANGED <<omode, stream, sent, mode, net, rx, t>>

\* proto_recv is given nothing: the peer has closed.
RecvEof ==
  /\ status = "open"
  /\ net = <<>> /\ rd = Len(stream)
  /\ status' = "closed"
  /\ UNCHANGED <<omode, stream, sent, mode, rd, net, rx, t, got>>

\* The buffer cannot grow to hold b: the connection is to be closed.
Refuse(b) == status' = "refused" /\ rx' = b /\ UNCHANGED got

-----------------------------------------------------------------------------
(* recv_binary. *)

binary_pkt_len(b) == b[2] * 256 + b[3]

HeaderIn(b) == Len(b) >= 3
Complete(b) == HeaderIn(b) /\ Len(b) = 3 + binary_pkt_len(b)

\* How long the buffer gets before the loop looks at it again.
Needed == IF HeaderIn(rx.buf) THEN 3 + binary_pkt_len(rx.buf) ELSE 3

\* Mutant: the loop takes all that was read.
Take_all == Len(net)

Take ==
  LET missing == Needed - Len(rx.buf)
  IN  IF missing > Len(net) THEN Len(net) ELSE missing

Taken == rx.buf \o SubSeq(net, 1, Take)

Untaken == SubSeq(net, Take + 1, Len(net))

\* A frame is complete.  It is padded with a NUL and given to on_input, and
\* kept if that ends the connection.
Deliver ==
  IF TooBig(Len(Taken) + 1) THEN Refuse(rxbuf(Taken, Len(Taken)))
  ELSE /\ OnInput(Message(Taken[1], SubSeq(Taken, 4, Len(Taken))))
       /\ rx' = IF status' = "open" THEN rxbuf(<<>>, 3) ELSE rxbuf(Taken, Len(Taken) + 1)

TooBigFrame == TooBig(Needed)

recv_binary ==
  /\ status = "open" /\ mode = "BINARY" /\ net # <<>>
  /\ \/ /\ TooBigFrame
        /\ Refuse(rx) /\ UNCHANGED net
     \/ /\ ~TooBigFrame /\ Complete(Taken)
        /\ Deliver /\ net' = Untaken
     \/ /\ ~TooBigFrame /\ ~Complete(Taken)
        /\ rx' = rxbuf(Taken, Len(Taken)) /\ net' = Untaken
        /\ UNCHANGED <<got, status>>
  /\ UNCHANGED <<omode, stream, sent, mode, rd, t>>

-----------------------------------------------------------------------------
(* recv_text_1ch. *)

ch == Head(net)
Eol == ch \in {LF, CR}
Digit(b) == b - 48

In(state) == status = "open" /\ mode = "TEXT" /\ net # <<>> /\ t.state = state

\* "break" and "goto again".
Consume == net' = Tail(net)
Again == net' = net

\* The decoder goes on with text state s and receive buffer b.
Decode(s, b) ==
  /\ t' = s
  /\ rx' = b
  /\ UNCHANGED <<omode, stream, sent, mode, rd, got, status>>

\* proto_output_error, whose result the decoder ignores.
OutputError(state) ==
  /\ got' = Append(got, Error)
  /\ t' = [t EXCEPT !.state = state]
  /\ UNCHANGED <<omode, stream, sent, mode, rd, rx, status>>

To(state) == Decode([t EXCEPT !.state = state], rx)

\* rxbuf_addc of b: if it fails recv_text ends the connection.
AddByte(b, s) ==
  IF AddFails(rx) THEN Refuse(rx) /\ UNCHANGED <<omode, stream, sent, mode, rd, t>>
  ELSE Decode(s, rxbuf_addc(rx, b))

T_ERROR ==
  /\ In("ERROR")
  /\ IF Eol THEN To("BOL") /\ Again ELSE To("ERROR") /\ Consume

T_BOL ==
  /\ In("BOL")
  /\ IF Eol \/ ch = SP THEN To("BOL") /\ Consume
     ELSE Decode([t EXCEPT !.state = "CMD", !.cmd = <<>>], rx) /\ Again

\* Mutant: a word may fill t->cmd.
LongCommand_fills(word) == Len(word) > CMDSZ

LongCommand(word) == Len(word) >= CMDSZ

\* A character of the command word, or its end: the word is looked up and its
\* ID put at the front of the buffer.
T_CMD ==
  /\ In("CMD")
  /\ LET word == Append(t.cmd, ch)
         found == {e \in cmdtab : <<e.word>> = t.cmd}
     IN  \/ /\ ~Eol /\ ch # SP /\ ~LongCommand(word)
            /\ Decode([t EXCEPT !.cmd = word], rx) /\ Consume
         \/ /\ ~Eol /\ ch # SP /\ LongCommand(word)
            /\ OutputError("ERROR") /\ Again
         \/ /\ Eol \/ ch = SP
            /\ found = {}
            /\ OutputError("ERROR") /\ Again
         \/ /\ Eol \/ ch = SP
            /\ \E e \in found :
                 Decode([t EXCEPT !.state = "ARGSP", !.fmt = e.fmt, !.optional = FALSE],
                        rxbuf(<<e.id>>, 1))
            /\ Again

\* The arguments from here on are optional.
Optional(s) ==
  IF s.fmt # <<>> /\ s.fmt[1] = "|"
  THEN [s EXCEPT !.fmt = Tail(@), !.optional = TRUE] ELSE s

\* The command is complete: text_input answers HELP and passes up the others.
EndOfLine ==
  IF TooBig(Len(rx.buf) + 1) THEN Refuse(rx) /\ t' = Optional(t)
  ELSE /\ OnInput(Message(rx.buf[1], Tail(rx.buf)))
       /\ t' = IF status' = "open" THEN [Optional(t) EXCEPT !.state = "BOL"] ELSE Optional(t)
       /\ rx' = rxbuf(rx.buf, Len(rx.buf) + 1)

\* Between arguments: the next one's kind is taken from the format.
T_ARGSP ==
  /\ In("ARGSP")
  /\ LET s == Optional(t)
         next == [s EXCEPT !.fmt = Tail(@)]
     IN  \/ /\ ch = SP
            /\ To("ARGSP") /\ Consume
         \/ /\ Eol /\ ~s.optional /\ s.fmt # <<>>
            /\ OutputError("BOL") /\ Consume
         \/ /\ Eol /\ (s.optional \/ s.fmt = <<>>)
            /\ EndOfLine /\ Consume
            /\ UNCHANGED <<omode, stream, sent, mode, rd>>
         \/ /\ ~Eol /\ ch # SP /\ s.fmt = <<>>
            /\ OutputError("ERROR") /\ Again
         \/ /\ ~Eol /\ ch # SP /\ s.fmt # <<>> /\ s.fmt[1] = "i"
            /\ Decode([next EXCEPT !.state = "INT", !.intval = 0], rx) /\ Again
         \/ /\ ~Eol /\ ch # SP /\ s.fmt # <<>> /\ s.fmt[1] = "t"
            /\ Decode([next EXCEPT !.state = "STRBEG"], rx) /\ Again
         \/ /\ ~Eol /\ ch # SP /\ s.fmt # <<>> /\ s.fmt[1] = "0"
            /\ IF AddFails(rx) THEN Decode([next EXCEPT !.state = "ERROR"], rx)
                               ELSE Decode(next, rxbuf_addc(rx, 0))
            /\ Again

\* A decimal integer, kept as one byte.
T_INT ==
  /\ In("INT")
  /\ LET intval == t.intval * 10 + Digit(ch)
     IN  \/ /\ Digit(ch) \in 0 .. 9 /\ intval <= 255
            /\ Decode([t EXCEPT !.intval = intval], rx) /\ Consume
         \/ /\ Digit(ch) \in 0 .. 9 /\ intval > 255
            /\ OutputError("ERROR") /\ Again
         \/ /\ Digit(ch) \notin 0 .. 9
            /\ AddByte(t.intval, [t EXCEPT !.state = "ARGSP"]) /\ Again

T_STRBEG ==
  /\ In("STRBEG")
  /\ IF ch = QUOTE THEN To("QSTR") /\ Consume ELSE To("STR") /\ Again

\* An unquoted string: the last argument may hold spaces, but not end in them.
T_STR ==
  /\ In("STR")
  /\ IF Eol \/ (t.fmt # <<>> /\ ch = SP)
     THEN /\ Decode([t EXCEPT !.state = "ARGSP"],
                    IF t.fmt = <<>> THEN rxbuf_trimspace(rx) ELSE rx)
          /\ Again
     ELSE AddByte(ch, t) /\ Consume

T_QSTR ==
  /\ In("QSTR")
  /\ \/ Eol /\ OutputError("BOL") /\ Consume
     \/ ch = QUOTE /\ To("ARGSP") /\ Consume
     \/ /\ ch = BACKSLASH
        /\ Decode([t EXCEPT !.state = "QOCT", !.counter = 3, !.intval = 0], rx) /\ Consume
     \/ ~Eol /\ ch \notin {QUOTE, BACKSLASH} /\ AddByte(ch, t) /\ Consume

\* \ooo: three octal digits, cut to a byte.
T_QOCT ==
  /\ In("QOCT")
  /\ LET intval == t.intval * 8 + Digit(ch)
         s == [t EXCEPT !.intval = intval, !.counter = @ - 1]
     IN  \/ /\ Digit(ch) \notin 0 .. 7
            /\ OutputError("ERROR") /\ Again
         \/ /\ Digit(ch) \in 0 .. 7 /\ t.counter > 1
            /\ Decode(s, rx) /\ Consume
         \/ /\ Digit(ch) \in 0 .. 7 /\ t.counter = 1
            /\ AddByte(intval % 256, [s EXCEPT !.state = "QSTR"]) /\ Consume

recv_text ==
  T_ERROR \/ T_BOL \/ T_CMD \/ T_ARGSP \/ T_INT \/ T_STRBEG \/ T_STR \/ T_QSTR \/ T_QOCT

-----------------------------------------------------------------------------
Init ==
  /\ omode \in {"UNKNOWN", "TEXT", "FRAMED"}
  /\ mode = IF omode = "FRAMED" THEN "FRAMED" ELSE "UNKNOWN"
  /\ stream = <<>> /\ sent = <<>> /\ got = <<>>
  /\ rd = 0 /\ net = <<>>
  /\ rx = [buf |-> <<>>, max |-> 0]
  /\ t = [state |-> "BOL", cmd |-> <<>>, fmt |-> <<>>, intval |-> 0,
          counter |-> 0, optional |-> FALSE]
  /\ status = "open"

Next ==
  \/ \E m \in Sends : proto_output(m)
  \/ \E l \in Typed : TypeLine(l)
  \/ RecvBytes \/ RecvPacket \/ RecvEof
  \/ recv_binary
  \/ recv_text

Spec == Init /\ [][Next]_vars

-----------------------------------------------------------------------------
(* Properties. *)

\* Type invariant.  The receive buffer holds what it was made for and stays
\* below the limit rxbuf_resize puts on it, to the rounding, and the word of a
\* command leaves room in t->cmd for its NUL.
TypeOK ==
  /\ omode \in {"UNKNOWN", "BINARY", "TEXT", "FRAMED"}
  /\ mode \in {"UNKNOWN", "BINARY", "TEXT", "FRAMED"}
  /\ rd \in 0 .. Len(stream)
  /\ net \in Seq(Byte) /\ rx.buf \in Seq(Byte)
  /\ Len(rx.buf) <= rx.max /\ rx.max < RXLIMIT + SIZECHUNK
  /\ t.cmd \in Seq(Byte) /\ Len(t.cmd) < CMDSZ
  /\ t.intval \in 0 .. 511 /\ t.counter \in 0 .. 3
  /\ status \in {"open", "closed", "refused"}

\* All that was sent was read and decoded.
Settled == status = "open" /\ rd = Len(stream) /\ net = <<>>

\* recv_binary and recv_framed: however the stream is cut up by the reads,
\* on_input is given the messages that proto_output was given, in their order
\* and whole, and nothing else; when all was read none is left in the buffer.
FramesDelivered ==
  omode # "TEXT" =>
    /\ mode # "TEXT"
    /\ Len(got) <= Len(sent)
    /\ \A i \in DOMAIN got : got[i] = sent[i].msg
    /\ Settled => Len(got) = Len(sent)

\* recv_text and output_text: every line has the answer that it should have,
\* in the order of the lines and however they are cut up by the reads: what
\* output_text wrote is read back as it was, also when the line is longer than
\* outbuf, and an error in a line neither goes unanswered nor disturbs the next
\* line.  Nothing is said of a sending end that wrote over the end of outbuf,
\* which prototext.c:335 does not prevent, nor of an answer to a line that is
\* larger than PROTOCOL:241-242 allows, which may be dropped or end the
\* connection.
LinesAnswered ==
  omode = "TEXT" /\ ~Undefined =>
    LET lines == SelectSeq(sent, LAMBDA s : s.msg # None)
    IN  /\ mode # "BINARY"
        /\ Len(got) <= Len(lines)
        /\ \A i \in DOMAIN got : got[i] = lines[i].msg
        /\ Settled => Len(got) = Len(lines)

\* The message that a receiving end refuses.
RefusedMessage == sent[Len(got) + 1].msg

\* A connection is given up for the size of the receive buffer only on a
\* message whose header, data and the NUL that pads them do not fit in the
\* buffer (rxbuf.c:36): never for how the reads cut it up, nor for what came
\* before it or after it in the same read.  PROTOCOL:241-242 allows more data
\* than that (AllowedIsAccepted).
RefusedOnlyWhenFull ==
  (status = "refused" /\ omode # "TEXT") =>
    /\ Len(got) < Len(sent)
    /\ 3 + Len(RefusedMessage.data) + 1 >= RXLIMIT

\* PROTOCOL:241-242: the payload of a message is at most 65535 bytes, which is
\* RXLIMIT - 1.  A receiving end gives up a connection only on a larger one.
AllowedIsAccepted ==
  (status = "refused" /\ omode # "TEXT") => Len(RefusedMessage.data) > RXLIMIT - 1

=============================================================================
