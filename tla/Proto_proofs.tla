---------------------------- MODULE Proto_proofs ----------------------------
(***************************************************************************)
(* The binary and the framed protocol deliver what was sent, for every set *)
(* of messages, every limit of the receive buffer and every way in which   *)
(* the stream is cut up by the reads.                                      *)
(***************************************************************************)
EXTENDS Proto, Parts_proofs

Sent == [msg : Sends, end : Nat]

\* Where the i-th message of s begins in the stream.
Start(s, i) == IF i = 1 THEN 0 ELSE s[i - 1].end

\* The two bytes of a length in a frame.
Hi(l) == l \div 256
Lo(l) == l % 256

\* Stream b carries the frame of m from place a on.
Carries(b, a, m) ==
  /\ a + 3 + Len(m.data) <= Len(b)
  /\ b[a + 1] = m.id
  /\ b[a + 2] = Hi(Len(m.data))
  /\ b[a + 3] = Lo(Len(m.data))
  /\ \A j \in 1 .. Len(m.data) : b[a + 3 + j] = m.data[j]

\* Stream b is the frames of s, one after another.
Framed(b, s) ==
  /\ \A i \in 1 .. Len(s) :
       /\ s[i].end = Start(s, i) + 3 + Len(s[i].msg.data)
       /\ Len(s[i].msg.data) < RXLIMIT
       /\ Carries(b, Start(s, i), s[i].msg)
  /\ Len(b) = Start(s, Len(s) + 1)

Prefix(g, s) ==
  /\ Len(g) <= Len(s)
  /\ \A i \in 1 .. Len(g) : g[i] = s[i].msg

\* Where the message that is expected next begins.
Done == Start(sent, Len(got) + 1)

\* The invariant on a stream.  What is in the buffer and what is still to be
\* decoded is the stream from the end of the last message delivered to the
\* place reached by the reads, and no whole frame is left in the buffer.
BinaryInv ==
  /\ mode \in {"UNKNOWN", "BINARY"}
  /\ stream \in Seq(Byte) /\ sent \in Seq(Sent) /\ got \in Seq(Sends)
  /\ Framed(stream, sent)
  /\ Prefix(got, sent)
  /\ status \in {"open", "closed", "refused"}
  /\ status = "open" =>
       /\ PartOf(Byte, rx.buf, stream, Done)
       /\ PartOf(Byte, net, stream, Done + Len(rx.buf))
       /\ rd = Done + Len(rx.buf) + Len(net)
       /\ HeaderIn(rx.buf) => Len(rx.buf) < 3 + binary_pkt_len(rx.buf)
       /\ mode = "UNKNOWN" => rd = 0
  /\ status = "refused" =>
       /\ Len(got) < Len(sent)
       /\ 3 + Len(sent[Len(got) + 1].msg.data) + 1 >= RXLIMIT

\* The invariant where the socket keeps packets apart.
PacketInv ==
  /\ mode = "FRAMED"
  /\ sent \in Seq(Sent) /\ got \in Seq(Sends) /\ stream \in Seq(Seq(Byte))
  /\ Len(stream) = Len(sent)
  /\ \A i \in 1 .. Len(sent) : stream[i] = Packet(sent[i].msg)
  /\ Prefix(got, sent)
  /\ rd = Len(got)
  /\ status \in {"open", "closed"}

IInv ==
  /\ omode \in {"UNKNOWN", "BINARY", "TEXT", "FRAMED"}
  /\ omode \in {"UNKNOWN", "BINARY"} => BinaryInv
  /\ omode = "FRAMED" => PacketInv

-----------------------------------------------------------------------------
(* Messages and frames. *)

\* What may be sent is a message, and does not begin as the text protocol does.
LEMMA MessageTyped ==
  ASSUME NEW m \in Sends
  PROVE  /\ m = Message(m.id, m.data)
         /\ m.id \in Byte /\ m.data \in Seq(Byte) /\ Len(m.data) \in Nat
         /\ ~IsText(m.id)
BY ProtoAssumption

\* The two bytes of the length.
LEMMA LengthBytes ==
  ASSUME NEW l \in Nat, l < RXLIMIT
  PROVE  Hi(l) \in Byte /\ Lo(l) \in Byte /\ Hi(l) * 256 + Lo(l) = l
<1> DEFINE hi == Hi(l)
           lo == Lo(l)
<1>1. l < 65536
  BY ProtoAssumption
<1>2. hi = l \div 256 /\ lo = l % 256
  BY DEF Hi, Lo
<1>3. hi \in Byte /\ lo \in Byte
  BY <1>1, <1>2 DEF Byte
<1> HIDE DEF hi, lo
<1>4. hi \in Int /\ lo \in Int
  BY <1>3 DEF Byte
<1>5. hi * 256 + lo = l
  BY <1>2, <1>4
<1> QED  BY <1>3, <1>5 DEF hi, lo

\* The places of a concatenation of bytes.
LEMMA BytesJoined ==
  ASSUME NEW b \in Seq(Byte), NEW f \in Seq(Byte)
  PROVE  /\ b \o f \in Seq(Byte)
         /\ Len(b) \in Nat /\ Len(f) \in Nat /\ Len(b \o f) = Len(b) + Len(f)
         /\ \A i \in 1 .. Len(b) : (b \o f)[i] = b[i]
         /\ \A i \in 1 .. Len(f) : (b \o f)[Len(b) + i] = f[i]
BY Joined

\* The frame that output_binary makes: the ID, the length and the data.
LEMMA FrameIs ==
  ASSUME NEW m \in Sends, Len(m.data) < RXLIMIT
  PROVE  /\ Frame(m) \in Seq(Byte) /\ Len(Frame(m)) = 3 + Len(m.data)
         /\ Frame(m)[1] = m.id
         /\ Frame(m)[2] = Hi(Len(m.data))
         /\ Frame(m)[3] = Lo(Len(m.data))
         /\ \A j \in 1 .. Len(m.data) : Frame(m)[3 + j] = m.data[j]
<1> DEFINE hi == Hi(Len(m.data))
           lo == Lo(Len(m.data))
           h == <<m.id, hi, lo>>
           d == m.data
<1>1. m.id \in Byte /\ d \in Seq(Byte) /\ Len(d) \in Nat
  BY MessageTyped
<1>2. hi \in Byte /\ lo \in Byte
  BY <1>1, LengthBytes
<1>3. Frame(m) = h \o d
  BY DEF Frame, Hi, Lo
<1> HIDE DEF hi, lo, d
<1>4. h \in Seq(Byte) /\ Len(h) = 3 /\ h[1] = m.id /\ h[2] = hi /\ h[3] = lo
  BY <1>1, <1>2
<1> HIDE DEF h
<1>5. /\ h \o d \in Seq(Byte) /\ Len(h \o d) = Len(h) + Len(d)
      /\ \A i \in 1 .. Len(h) : (h \o d)[i] = h[i]
      /\ \A i \in 1 .. Len(d) : (h \o d)[Len(h) + i] = d[i]
  BY <1>1, <1>4, BytesJoined, Zenon
<1>6. (h \o d)[1] = h[1] /\ (h \o d)[2] = h[2] /\ (h \o d)[3] = h[3]
  BY <1>4, <1>5
<1>7. \A j \in 1 .. Len(d) : (h \o d)[3 + j] = d[j]
  BY <1>4, <1>5
<1> QED  BY <1>3, <1>4, <1>5, <1>6, <1>7 DEF hi, lo, d

\* What a stream carries is still carried when more is sent.
LEMMA StillCarries ==
  ASSUME NEW b \in Seq(Byte), NEW f \in Seq(Byte), NEW a \in Nat, NEW m \in Sends,
         Carries(b, a, m)
  PROVE  Carries(b \o f, a, m)
<1> DEFINE w == b \o f
           l == Len(m.data)
<1>1. /\ l \in Nat /\ Len(b) \in Nat /\ Len(w) \in Nat /\ Len(b) <= Len(w)
      /\ \A i \in 1 .. Len(b) : w[i] = b[i]
  BY MessageTyped, Joined
<1> HIDE DEF w, l
<1>2. a + 3 + l <= Len(b)
  BY DEF Carries, l
<1>3. a + 1 \in 1 .. Len(b) /\ a + 2 \in 1 .. Len(b) /\ a + 3 \in 1 .. Len(b)
  BY <1>1, <1>2
<1>4. \A j \in 1 .. l : a + 3 + j \in 1 .. Len(b)
  BY <1>1, <1>2
<1>5. a + 3 + l <= Len(w)
  BY <1>1, <1>2
<1> QED  BY <1>1, <1>3, <1>4, <1>5 DEF Carries, w, l

\* A stream to which a frame was added carries it.
LEMMA NowCarries ==
  ASSUME NEW b \in Seq(Byte), NEW m \in Sends, Len(m.data) < RXLIMIT
  PROVE  Carries(b \o Frame(m), Len(b), m)
<1> DEFINE f == Frame(m)
           w == b \o f
           k == Len(b)
           l == Len(m.data)
<1>1. f \in Seq(Byte) /\ Len(f) = 3 + l
  BY FrameIs, Zenon
<1>2. l \in Nat /\ k \in Nat
  BY MessageTyped
<1>3. f[1] = m.id /\ f[2] = Hi(l) /\ f[3] = Lo(l)
  BY FrameIs
<1>4. \A j \in 1 .. l : f[3 + j] = m.data[j]
  BY FrameIs
<1> HIDE DEF f
<1>5. Len(w) = k + Len(f) /\ \A i \in 1 .. Len(f) : w[k + i] = f[i]
  BY <1>1, BytesJoined, Zenon
<1> HIDE DEF w, k, l
<1>6. w[k + 1] = f[1] /\ w[k + 2] = f[2] /\ w[k + 3] = f[3]
  <2>1. 1 \in 1 .. Len(f) /\ 2 \in 1 .. Len(f) /\ 3 \in 1 .. Len(f)
    BY <1>1, <1>2
  <2> QED  BY <1>5, <2>1
<1>7. ASSUME NEW j \in 1 .. l PROVE w[k + 3 + j] = f[3 + j]
  <2>1. w[k + (3 + j)] = f[3 + j] /\ k + (3 + j) = k + 3 + j
    BY <1>1, <1>2, <1>5
  <2> QED  BY <2>1
<1>8. k + 3 + l <= Len(w)
  BY <1>1, <1>2, <1>5
<1> QED  BY <1>3, <1>4, <1>6, <1>7, <1>8 DEF Carries, f, w, k, l

-----------------------------------------------------------------------------
(* Sending. *)

\* Where a message begins, for the ones that were sent.
LEMMA StartTyped ==
  ASSUME NEW s \in Seq(Sent), NEW i \in 1 .. Len(s) + 1
  PROVE  Start(s, i) \in Nat
<1>1. CASE i = 1
  BY <1>1 DEF Start
<1>2. CASE i # 1
  <2>1. Len(s) \in Nat /\ i - 1 \in 1 .. Len(s)
    BY <1>2
  <2>2. s[i - 1] \in Sent
    BY <2>1, ElementOfSeq, Zenon
  <2> QED  BY <1>2, <2>2 DEF Start, Sent
<1> QED  BY <1>1, <1>2

\* What was sent is a message with the place where it ends.
LEMMA SentTyped ==
  ASSUME NEW s \in Seq(Sent), NEW i \in 1 .. Len(s)
  PROVE  s[i].msg \in Sends /\ s[i].end \in Nat
<1>1. s[i] \in Sent
  BY ElementOfSeq, Zenon
<1> QED  BY <1>1 DEF Sent

\* The messages keep their places when one more is sent.
LEMMA StartKept ==
  ASSUME NEW s \in Seq(Sent), NEW x \in Sent, NEW i \in 1 .. Len(s) + 1
  PROVE  Start(Append(s, x), i) = Start(s, i)
<1> DEFINE u == Append(s, x)
<1>1. Len(s) \in Nat /\ \A j \in 1 .. Len(s) : u[j] = s[j]
  BY Appended
<1> HIDE DEF u
<1>2. i # 1 => i - 1 \in 1 .. Len(s)
  BY <1>1
<1>3. i # 1 => u[i - 1] = s[i - 1]
  BY <1>1, <1>2
<1>4. Start(u, i) = Start(s, i)
  BY <1>3 DEF Start
<1> QED  BY <1>4 DEF u

\* A stream of frames to which a frame is added is a stream of frames.
LEMMA FrameSent ==
  ASSUME NEW b \in Seq(Byte), NEW s \in Seq(Sent), Framed(b, s),
         NEW m \in Sends, Len(m.data) < RXLIMIT
  PROVE  LET w == b \o Frame(m)
             x == [msg |-> m, end |-> Len(w)]
         IN  w \in Seq(Byte) /\ x \in Sent /\ Framed(w, Append(s, x))
<1> DEFINE f == Frame(m)
           w == b \o f
           x == [msg |-> m, end |-> Len(w)]
           u == Append(s, x)
           n == Len(s)
<1>1. f \in Seq(Byte) /\ Len(f) = 3 + Len(m.data) /\ Len(m.data) \in Nat
  BY FrameIs, MessageTyped
<1>2. w \in Seq(Byte) /\ Len(b) \in Nat /\ Len(w) = Len(b) + Len(f)
  BY <1>1, BytesJoined, Zenon
<1>3. x \in Sent
  <2>1. Len(w) \in Nat
    BY <1>2
  <2> HIDE DEF w
  <2> QED  BY <2>1 DEF Sent
<1>4. Carries(w, Len(b), m)
  BY NowCarries
<1>5. \A a \in Nat, q \in Sends : Carries(b, a, q) => Carries(w, a, q)
  BY <1>1, StillCarries
<1>6. x.msg = m /\ x.end = Len(b) + 3 + Len(m.data)
  <2>1. x.end = Len(w) /\ x.msg = m
    BY Zenon
  <2>2. Len(w) = Len(b) + 3 + Len(m.data)
    <3> DEFINE k == Len(b)
               l == Len(m.data)
               lw == Len(w)
    <3>1. k \in Nat /\ l \in Nat /\ lw = k + (3 + l)
      BY <1>1, <1>2, Zenon
    <3> HIDE DEF k, l, lw
    <3>2. lw = k + 3 + l
      BY <3>1
    <3> QED  BY <3>2 DEF k, l, lw
  <2> QED  BY <2>1, <2>2, Zenon
<1> HIDE DEF f, w, x
<1>7. /\ n \in Nat /\ Len(u) = n + 1 /\ u[n + 1] = x
      /\ \A i \in 1 .. n : u[i] = s[i]
  BY <1>3, Appended
<1>8. \A i \in 1 .. n + 1 : Start(u, i) = Start(s, i)
  BY <1>3, StartKept
<1>9. Start(s, n + 1) = Len(b)
  BY DEF Framed
<1> HIDE DEF u
<1>10. ASSUME NEW i \in 1 .. Len(u)
       PROVE  /\ u[i].end = Start(u, i) + 3 + Len(u[i].msg.data)
              /\ Len(u[i].msg.data) < RXLIMIT
              /\ Carries(w, Start(u, i), u[i].msg)
  <2>1. CASE i = n + 1
    <3>1. Start(u, i) = Len(b) /\ u[i] = x
      BY <1>7, <1>8, <1>9, <2>1
    <3> QED  BY <1>4, <1>6, <3>1
  <2>2. CASE i # n + 1
    <3>1. i \in 1 .. n
      BY <1>7, <2>2
    <3>2. /\ s[i].end = Start(s, i) + 3 + Len(s[i].msg.data)
          /\ Len(s[i].msg.data) < RXLIMIT
          /\ Carries(b, Start(s, i), s[i].msg)
      BY <3>1 DEF Framed
    <3>3. u[i] = s[i] /\ Start(u, i) = Start(s, i) /\ Start(s, i) \in Nat
      BY <1>7, <1>8, <3>1, StartTyped
    <3>4. s[i].msg \in Sends
      BY <3>1, SentTyped
    <3> QED  BY <1>5, <3>2, <3>3, <3>4
  <2> QED  BY <2>1, <2>2
<1>11. Len(w) = Start(u, Len(u) + 1)
  <2>1. (n + 1) + 1 # 1 /\ ((n + 1) + 1) - 1 = n + 1
    BY <1>7
  <2>2. Start(u, (n + 1) + 1) = u[n + 1].end
    BY <2>1 DEF Start
  <2>3. x.end = Len(w)
    BY DEF x
  <2> QED  BY <1>7, <2>2, <2>3
<1>12. Framed(w, u)
  BY <1>10, <1>11 DEF Framed
<1> QED  BY <1>2, <1>3, <1>12, Zenon DEF f, w, x, u

-----------------------------------------------------------------------------
(* Parts of the stream. *)

\* The length that recv_binary reads is the length of the data.
LEMMA HeaderTells ==
  ASSUME NEW b \in Seq(Byte), NEW a \in Nat, NEW m \in Sends, Len(m.data) < RXLIMIT,
         Carries(b, a, m), NEW q, PartOf(Byte, q, b, a), HeaderIn(q)
  PROVE  binary_pkt_len(q) = Len(m.data)
<1> DEFINE l == Len(m.data)
<1>1. l \in Nat /\ l < RXLIMIT
  BY MessageTyped
<1>2. Hi(l) * 256 + Lo(l) = l
  BY <1>1, LengthBytes
<1>3. 2 \in 1 .. Len(q) /\ 3 \in 1 .. Len(q)
  BY DEF HeaderIn, PartOf
<1>4. q[2] = b[a + 2] /\ q[3] = b[a + 3]
  BY <1>3 DEF PartOf
<1>5. q[2] = Hi(l) /\ q[3] = Lo(l)
  BY <1>4 DEF Carries
<1> QED  BY <1>2, <1>5, Zenon DEF binary_pkt_len

\* A whole frame is decoded to the message it was made of.
LEMMA FrameDecoded ==
  ASSUME NEW b \in Seq(Byte), NEW a \in Nat, NEW m \in Sends,
         Carries(b, a, m), NEW q, PartOf(Byte, q, b, a), Len(q) = 3 + Len(m.data)
  PROVE  Message(q[1], SubSeq(q, 4, Len(q))) = m
<1> DEFINE l == Len(m.data)
           d == SubSeq(q, 3 + 1, Len(q))
<1>1. /\ l \in Nat /\ m.data \in Seq(Byte) /\ m = Message(m.id, m.data)
      /\ Len(q) = 3 + l /\ q \in Seq(Byte)
  BY MessageTyped DEF PartOf
<1>2. 3 \in 0 .. Len(q) /\ 1 \in 1 .. Len(q)
  BY <1>1
<1>3. PartOf(Byte, d, b, a + 3) /\ Len(d) = Len(q) - 3
  BY <1>2, LastPart
<1>4. q[1] = m.id
  BY <1>2 DEF PartOf, Carries
<1> HIDE DEF d
<1>5. Len(d) = l
  BY <1>1, <1>3
<1>6. \A j \in 1 .. l : d[j] = m.data[j]
  BY <1>3, <1>5 DEF PartOf, Carries
<1>7. d \in Seq(Byte)
  BY <1>3 DEF PartOf
<1>8. d = m.data
  BY <1>1, <1>5, <1>6, <1>7, SeqEqual
<1>9. SubSeq(q, 4, Len(q)) = d
  BY DEF d
<1> QED  BY <1>1, <1>4, <1>8, <1>9, Zenon

-----------------------------------------------------------------------------
(* Receiving. *)

\* The message that is expected next, if one was sent.
LEMMA Expected ==
  ASSUME NEW b \in Seq(Byte), NEW s \in Seq(Sent), Framed(b, s),
         NEW k \in Nat, k < Len(s)
  PROVE  /\ Start(s, k + 1) \in Nat
         /\ s[k + 1].msg \in Sends /\ Len(s[k + 1].msg.data) < RXLIMIT
         /\ Carries(b, Start(s, k + 1), s[k + 1].msg)
         /\ Start(s, (k + 1) + 1) = Start(s, k + 1) + 3 + Len(s[k + 1].msg.data)
<1>1. Len(s) \in Nat /\ k + 1 \in 1 .. Len(s) /\ k + 1 \in 1 .. Len(s) + 1
  OBVIOUS
<1>2. /\ s[k + 1].end = Start(s, k + 1) + 3 + Len(s[k + 1].msg.data)
      /\ Len(s[k + 1].msg.data) < RXLIMIT
      /\ Carries(b, Start(s, k + 1), s[k + 1].msg)
  BY <1>1 DEF Framed
<1>3. Start(s, k + 1) \in Nat /\ s[k + 1].msg \in Sends
  BY <1>1, StartTyped, SentTyped
<1>4. Start(s, (k + 1) + 1) = s[k + 1].end
  <2>1. (k + 1) + 1 # 1 /\ ((k + 1) + 1) - 1 = k + 1
    OBVIOUS
  <2> QED  BY <2>1 DEF Start
<1> QED  BY <1>2, <1>3, <1>4

\* As long as the stream goes on after the last message delivered, a message
\* is expected.
LEMMA MoreExpected ==
  ASSUME NEW b \in Seq(Byte), NEW s \in Seq(Sent), Framed(b, s),
         NEW k \in Nat, k <= Len(s), Start(s, k + 1) < Len(b)
  PROVE  k < Len(s)
<1>1. Len(s) \in Nat /\ Len(b) \in Nat /\ Len(b) = Start(s, Len(s) + 1)
  BY DEF Framed
<1>2. k # Len(s)
  BY <1>1
<1> QED  BY <1>1, <1>2

\* What the loop of recv_binary takes: at least a byte, and no more than the
\* frame has.
LEMMA TakeIs ==
  ASSUME BinaryInv, status = "open", net # <<>>
  PROVE  LET m == sent[Len(got) + 1].msg
         IN  /\ Len(got) < Len(sent)
             /\ m \in Sends /\ Done \in Nat /\ Len(m.data) \in Nat
             /\ Len(m.data) < RXLIMIT /\ Carries(stream, Done, m)
             /\ Needed \in {3, 3 + Len(m.data)}
             /\ PartOf(Byte, Taken, stream, Done)
             /\ Len(Taken) <= 3 + Len(m.data)
             /\ PartOf(Byte, Untaken, stream, Done + Len(Taken))
             /\ Done + Len(Taken) + Len(Untaken) = rd
<1> DEFINE k == Len(got)
           m == sent[k + 1].msg
           F == 3 + Len(m.data)
           l == Len(rx.buf)
           ln == Len(net)
<1>1. /\ stream \in Seq(Byte) /\ sent \in Seq(Sent) /\ got \in Seq(Sends)
      /\ Framed(stream, sent) /\ k <= Len(sent)
      /\ PartOf(Byte, rx.buf, stream, Done) /\ PartOf(Byte, net, stream, Done + l)
      /\ rd = Done + l + ln
      /\ HeaderIn(rx.buf) => l < 3 + binary_pkt_len(rx.buf)
  BY DEF BinaryInv, Prefix
<1>2. rx.buf \in Seq(Byte) /\ net \in Seq(Byte) /\ (Done + l) + ln <= Len(stream)
  BY <1>1 DEF PartOf
<1>3. k \in Nat /\ Len(sent) \in Nat /\ l \in Nat /\ ln \in Nat \ {0} /\ Len(stream) \in Nat
  BY <1>1, <1>2
<1>4. Done \in Nat
  BY <1>1, <1>3, StartTyped DEF Done
<1>5. k < Len(sent)
  <2>1. Done < Len(stream)
    BY <1>2, <1>3, <1>4
  <2> QED  BY <1>1, <1>3, <2>1, MoreExpected DEF Done
<1>6. m \in Sends /\ Len(m.data) < RXLIMIT /\ Carries(stream, Done, m)
  BY <1>1, <1>3, <1>5, Expected DEF Done
<1>7. Len(m.data) \in Nat
  BY <1>6, MessageTyped
<1>8. HeaderIn(rx.buf) => binary_pkt_len(rx.buf) = Len(m.data)
  BY <1>1, <1>4, <1>6, HeaderTells
<1> HIDE DEF m
<1>9. /\ Needed = IF HeaderIn(rx.buf) THEN F ELSE 3
      /\ Needed \in Nat /\ l < Needed /\ Needed <= F
  BY <1>1, <1>3, <1>7, <1>8 DEF Needed, HeaderIn
<1>10. Take \in 0 .. ln /\ l + Take <= Needed
  <2>1. Take = IF Needed - l > ln THEN ln ELSE Needed - l
    BY DEF Take
  <2>2. Needed \in Nat /\ l < Needed
    BY <1>9
  <2> HIDE DEF l, ln
  <2> QED  BY <1>3, <2>1, <2>2
<1> DEFINE x == SubSeq(net, 1, Take)
<1>11. PartOf(Byte, x, stream, Done + l) /\ Len(x) = Take
  <2> DEFINE a == Done + l
  <2>1. a \in Nat /\ PartOf(Byte, net, stream, a) /\ Take \in 0 .. Len(net)
    BY <1>1, <1>3, <1>4, <1>10
  <2> HIDE DEF a
  <2>2. stream \in Seq(Byte)
    BY <1>1
  <2>3. PartOf(Byte, x, stream, a) /\ Len(x) = Take
    BY <2>1, <2>2, FirstPart
  <2> QED  BY <2>3 DEF a
<1>12. PartOf(Byte, Untaken, stream, (Done + l) + Take) /\ Len(Untaken) = ln - Take
  <2> DEFINE a == Done + l
  <2>1. a \in Nat /\ PartOf(Byte, net, stream, a) /\ Take \in 0 .. Len(net)
    BY <1>1, <1>3, <1>4, <1>10
  <2> HIDE DEF a
  <2>2. PartOf(Byte, Untaken, stream, a + Take) /\ Len(Untaken) = ln - Take
    BY <1>1, <2>1, LastPart DEF Untaken
  <2> QED  BY <2>2 DEF a
<1>13. PartOf(Byte, Taken, stream, Done) /\ Len(Taken) = l + Take
  <2>1. Taken = rx.buf \o x
    BY DEF Taken
  <2> HIDE DEF x
  <2> DEFINE u == rx.buf
             a == Done
  <2>2. /\ stream \in Seq(Byte) /\ a \in Nat
        /\ PartOf(Byte, u, stream, a) /\ PartOf(Byte, x, stream, a + Len(u))
    BY <1>1, <1>4, <1>11
  <2> HIDE DEF u, a
  <2>3. PartOf(Byte, u \o x, stream, a) /\ Len(u \o x) = Len(u) + Len(x)
    BY <2>2, TwoParts
  <2> QED  BY <1>11, <2>1, <2>3 DEF u, a
<1>14. Len(Taken) <= F
  BY <1>3, <1>7, <1>9, <1>10, <1>13
<1>15. /\ Done + Len(Taken) = (Done + l) + Take
       /\ Done + Len(Taken) + Len(Untaken) = rd
  BY <1>1, <1>3, <1>4, <1>10, <1>12, <1>13, SMTT(30)
<1>16. PartOf(Byte, Untaken, stream, Done + Len(Taken))
  BY <1>12, <1>15
<1>17. Needed \in {3, F}
  BY <1>9
<1> QED  BY <1>4, <1>5, <1>6, <1>7, <1>13, <1>14, <1>15, <1>16, <1>17, Zenon DEF m

\* BinaryInv depends on the receiving end and on what was sent only.
LEMMA OutputKeepsBinary ==
  ASSUME BinaryInv, omode \in {"UNKNOWN", "BINARY"}, NEW m \in Sends, proto_output(m)
  PROVE  BinaryInv' /\ omode' = "BINARY"
<1> DEFINE w == stream \o Frame(m)
           x == [msg |-> m, end |-> Len(w)]
           u == Append(sent, x)
<1>1. /\ omode' = "BINARY" /\ Len(m.data) < RXLIMIT
      /\ UNCHANGED <<mode, rd, net, rx, got, status>>
  BY DEF proto_output, MayOutput
<1>2. stream' = w /\ sent' = u
  BY <1>1 DEF proto_output
<1>3. /\ stream \in Seq(Byte) /\ sent \in Seq(Sent) /\ got \in Seq(Sends)
      /\ Framed(stream, sent) /\ Prefix(got, sent) /\ Len(got) <= Len(sent)
  BY DEF BinaryInv, Prefix
<1>4. w \in Seq(Byte) /\ x \in Sent /\ Framed(w, u)
  BY <1>1, <1>3, FrameSent
<1>5. /\ Len(stream) \in Nat /\ Len(w) \in Nat /\ Len(stream) <= Len(w)
      /\ \A i \in 1 .. Len(stream) : w[i] = stream[i]
  <2>1. Frame(m) \in Seq(Byte)
    BY <1>1, FrameIs
  <2> QED  BY <1>3, <2>1, Joined
<1> HIDE DEF w, x
<1>6. /\ u \in Seq(Sent) /\ Len(sent) \in Nat /\ Len(u) = Len(sent) + 1
      /\ \A i \in 1 .. Len(sent) : u[i] = sent[i]
  BY <1>3, <1>4, Appended
<1>7. \A i \in 1 .. Len(sent) + 1 : Start(u, i) = Start(sent, i)
  BY <1>3, <1>4, StartKept
<1> HIDE DEF u
<1>8. Len(got) \in Nat /\ Len(got) + 1 \in 1 .. Len(sent) + 1
  BY <1>3, <1>6
<1>9. Done' = Done /\ Done \in Nat
  <2>1. Done' = Start(u, Len(got) + 1)
    BY <1>1, <1>2 DEF Done
  <2> QED  BY <1>3, <1>7, <1>8, <2>1, StartTyped DEF Done
<1>10. Prefix(got, u)
  <2>1. \A i \in 1 .. Len(got) : got[i] = sent[i].msg
    BY <1>3 DEF Prefix
  <2>2. Len(got) <= Len(u) /\ \A i \in 1 .. Len(got) : u[i] = sent[i]
    BY <1>3, <1>6, <1>8
  <2> QED  BY <2>1, <2>2 DEF Prefix
<1>11. ASSUME NEW a \in Nat, NEW q, PartOf(Byte, q, stream, a) PROVE PartOf(Byte, q, w, a)
  <2>1. Len(q) \in Nat /\ a + Len(q) <= Len(stream) /\ a + Len(q) <= Len(w)
    BY <1>5, <1>11 DEF PartOf
  <2>2. \A j \in 1 .. Len(q) : a + j \in 1 .. Len(stream)
    BY <1>5, <2>1
  <2> QED  BY <1>5, <1>11, <2>1, <2>2 DEF PartOf
<1>12. ASSUME status = "open"
       PROVE  PartOf(Byte, rx.buf, w, Done) /\ PartOf(Byte, net, w, Done + Len(rx.buf))
  <2>1. PartOf(Byte, rx.buf, stream, Done) /\ PartOf(Byte, net, stream, Done + Len(rx.buf))
    BY <1>12 DEF BinaryInv
  <2>2. Done + Len(rx.buf) \in Nat
    BY <1>9, <2>1 DEF PartOf
  <2> QED  BY <1>9, <1>11, <2>1, <2>2
<1>13. ASSUME status = "refused"
       PROVE  Len(got) < Len(u) /\ 3 + Len(u[Len(got) + 1].msg.data) + 1 >= RXLIMIT
  <2>1. Len(got) < Len(sent) /\ 3 + Len(sent[Len(got) + 1].msg.data) + 1 >= RXLIMIT
    BY <1>13 DEF BinaryInv
  <2>2. u[Len(got) + 1] = sent[Len(got) + 1] /\ Len(got) < Len(u)
    BY <1>6, <1>8, <2>1
  <2> QED  BY <2>1, <2>2
<1>14. /\ rx'.buf = rx.buf /\ net' = net /\ rd' = rd /\ got' = got /\ mode' = mode
       /\ status' = status /\ stream' = w /\ sent' = u
  BY <1>1, <1>2
<1> QED
  BY <1>1, <1>3, <1>4, <1>6, <1>9, <1>10, <1>12, <1>13, <1>14
  DEF BinaryInv, HeaderIn, binary_pkt_len

\* proto_recv is given the next bytes; the first are not taken for text.
LEMMA BytesKeepBinary ==
  ASSUME BinaryInv, RecvBytes
  PROVE  BinaryInv'
<1> DEFINE l == Len(rx.buf)
           a == Done + l
<1>1. /\ status = "open" /\ net = <<>> /\ rd < Len(stream)
      /\ rd' \in rd + 1 .. Len(stream) /\ net' = SubSeq(stream, rd + 1, rd')
      /\ mode' = IF mode = "UNKNOWN" THEN Detect(stream[rd + 1]) ELSE mode
      /\ UNCHANGED <<stream, sent, rx, got, status>>
  BY DEF RecvBytes
<1>2. /\ stream \in Seq(Byte) /\ sent \in Seq(Sent) /\ got \in Seq(Sends)
      /\ Framed(stream, sent) /\ Len(got) <= Len(sent) /\ mode \in {"UNKNOWN", "BINARY"}
      /\ PartOf(Byte, rx.buf, stream, Done) /\ rd = Done + l + Len(net)
      /\ mode = "UNKNOWN" => rd = 0
  BY <1>1 DEF BinaryInv, Prefix
<1>3. Len(stream) \in Nat /\ Len(sent) \in Nat /\ Len(got) \in Nat /\ l \in Nat /\ Len(net) = 0
  BY <1>1, <1>2 DEF PartOf
<1>4. Done \in Nat
  BY <1>2, <1>3, StartTyped DEF Done
<1>5. rd = a /\ a \in Nat
  BY <1>2, <1>3, <1>4
<1> HIDE DEF a
<1>6. PartOf(Byte, net', stream, a) /\ Len(net') = rd' - a
  <2> DEFINE e == rd'
             q == SubSeq(stream, a + 1, e)
             l2 == Len(stream)
  <2>1. e \in rd + 1 .. l2 /\ rd = a /\ a \in Nat /\ l2 \in Nat /\ net' = q
    BY <1>1, <1>3, <1>5
  <2> HIDE DEF e, l2
  <2>2. /\ a + 1 \in Int /\ e \in Int /\ 1 <= a + 1 /\ a + 1 <= e + 1 /\ e <= l2
        /\ e - (a + 1) + 1 = e - a /\ a + (e - a) <= l2
    BY <2>1
  <2>3. /\ q \in Seq(Byte) /\ Len(q) = e - (a + 1) + 1
        /\ \A j \in 1 .. e - (a + 1) + 1 : q[j] = stream[(a + 1) + j - 1]
    BY <1>2, <2>2, SubSeqIs, SMTT(30) DEF l2
  <2> HIDE DEF q
  <2>4. Len(q) = e - a /\ a + Len(q) <= l2
    BY <2>2, <2>3
  <2>5. ASSUME NEW j \in 1 .. e - a PROVE q[j] = stream[a + j]
    <3>1. j \in 1 .. e - (a + 1) + 1 /\ (a + 1) + j - 1 = a + j
      BY <2>1, <2>2
    <3> QED  BY <2>3, <3>1
  <2>6. PartOf(Byte, q, stream, a)
    BY <2>3, <2>4, <2>5 DEF PartOf, l2
  <2> QED  BY <2>1, <2>4, <2>6 DEF e
<1>7. mode' = "BINARY"
  <2>1. CASE mode = "UNKNOWN"
    <3>1. rd = 0 /\ Done = 0 /\ rd + 1 = 1
      BY <1>2, <1>3, <1>4, <2>1
    <3>2. Len(got) < Len(sent)
      BY <1>1, <1>2, <1>3, <3>1, MoreExpected DEF Done
    <3>3. /\ sent[Len(got) + 1].msg \in Sends
          /\ Carries(stream, Done, sent[Len(got) + 1].msg)
      BY <1>2, <1>3, <3>2, Expected DEF Done
    <3>4. stream[1] = sent[Len(got) + 1].msg.id
      BY <3>1, <3>3 DEF Carries
    <3>5. ~IsText(stream[1])
      BY <3>3, <3>4, MessageTyped
    <3> QED  BY <1>1, <2>1, <3>1, <3>5 DEF Detect
  <2> QED  BY <1>1, <1>2, <2>1
<1>8. rd' = Done + l + Len(net')
  <2>1. rd' \in Int
    BY <1>1, <1>3, <1>5
  <2> QED  BY <1>3, <1>4, <1>6, <2>1 DEF a
<1>9. Done' = Done
  BY <1>1 DEF Done
<1>10. rx' = rx /\ stream' = stream /\ sent' = sent /\ got' = got /\ status' = "open"
  BY <1>1
<1>11. HeaderIn(rx.buf) => l < 3 + binary_pkt_len(rx.buf)
  BY <1>1 DEF BinaryInv
<1>12. Prefix(got, sent)
  BY DEF BinaryInv
<1>13. /\ PartOf(Byte, rx.buf, stream, Done) /\ PartOf(Byte, net', stream, Done + l)
       /\ rd' = Done + l + Len(net')
  BY <1>2, <1>6, <1>8 DEF a
<1> QED
  BY <1>2, <1>7, <1>9, <1>10, <1>11, <1>12, <1>13 DEF BinaryInv, HeaderIn, binary_pkt_len

\* A turn of the loop of recv_binary.
LEMMA LoopKeepsBinary ==
  ASSUME BinaryInv, recv_binary
  PROVE  BinaryInv'
<1> DEFINE k == Len(got)
           m == sent[k + 1].msg
           F == 3 + Len(m.data)
<1>1. /\ status = "open" /\ mode = "BINARY" /\ net # <<>>
      /\ UNCHANGED <<stream, sent, mode, rd>>
  BY DEF recv_binary
<1>2. /\ k < Len(sent) /\ m \in Sends /\ Done \in Nat /\ Len(m.data) \in Nat
      /\ Len(m.data) < RXLIMIT /\ Carries(stream, Done, m)
      /\ Needed \in {3, F}
      /\ PartOf(Byte, Taken, stream, Done) /\ Len(Taken) <= F
      /\ PartOf(Byte, Untaken, stream, Done + Len(Taken))
      /\ Done + Len(Taken) + Len(Untaken) = rd
  BY <1>1, TakeIs
<1>3. /\ stream \in Seq(Byte) /\ sent \in Seq(Sent) /\ got \in Seq(Sends)
      /\ Framed(stream, sent) /\ Prefix(got, sent)
  BY DEF BinaryInv
<1>4. k \in Nat /\ Len(Taken) \in Nat
  BY <1>2, <1>3 DEF PartOf
<1>5. HeaderIn(Taken) => binary_pkt_len(Taken) = Len(m.data)
  BY <1>2, <1>3, HeaderTells
<1> HIDE DEF m
<1>6. ASSUME status' = "refused", got' = got, F + 1 >= RXLIMIT
      PROVE  BinaryInv'
  <2>1. /\ mode' = "BINARY" /\ stream' = stream /\ sent' = sent
        /\ status' # "open"
    BY <1>1, <1>6
  <2>2. 3 + Len(sent[k + 1].msg.data) + 1 >= RXLIMIT
    BY <1>6 DEF m
  <2> QED  BY <1>2, <1>3, <1>6, <2>1, <2>2 DEF BinaryInv
<1>7. CASE TooBigFrame /\ Refuse(rx)
  <2>1. Needed >= RXLIMIT
    BY <1>7 DEF TooBigFrame, TooBig
  <2>2. RXLIMIT \in Nat /\ 4 < RXLIMIT
    BY ProtoAssumption
  <2>3. Needed \in {3, F} /\ Len(m.data) \in Nat
    BY <1>2
  <2>4. F + 1 >= RXLIMIT
    BY <2>1, <2>2, <2>3
  <2> QED  BY <1>6, <1>7, <2>4 DEF Refuse
<1>8. CASE Complete(Taken) /\ Deliver /\ net' = Untaken
  <2>1. Len(Taken) = F
    BY <1>5, <1>8 DEF Complete
  <2>2. CASE TooBig(Len(Taken) + 1)
    <3>1. F + 1 >= RXLIMIT
      BY <2>1, <2>2 DEF TooBig
    <3> QED  BY <1>6, <1>8, <2>2, <3>1 DEF Deliver, Refuse
  <2>3. CASE ~TooBig(Len(Taken) + 1)
    <3>1. /\ got' = Append(got, Message(Taken[1], SubSeq(Taken, 4, Len(Taken))))
          /\ status' \in {"open", "closed"}
          /\ rx' = IF status' = "open" THEN rxbuf(<<>>, 3) ELSE rxbuf(Taken, Len(Taken) + 1)
      BY <1>8, <2>3 DEF Deliver, OnInput
    <3>2. Message(Taken[1], SubSeq(Taken, 4, Len(Taken))) = m
      BY <1>2, <1>3, <2>1, FrameDecoded
    <3>3. got' = Append(got, m)
      BY <3>1, <3>2
    <3>4. /\ got' \in Seq(Sends) /\ Len(got') = k + 1 /\ got'[k + 1] = m
          /\ \A i \in 1 .. k : got'[i] = got[i]
      BY <1>2, <1>3, <3>3, Appended
    <3>5. Prefix(got', sent)
      <4>1. Len(got') <= Len(sent)
        BY <1>2, <1>3, <1>4, <3>4
      <4>2. ASSUME NEW i \in 1 .. k + 1 PROVE got'[i] = sent[i].msg
        <5>1. CASE i = k + 1
          BY <3>4, <5>1 DEF m
        <5>2. CASE i # k + 1
          <6>1. i \in 1 .. k
            BY <1>4, <5>2
          <6> QED  BY <1>3, <3>4, <6>1 DEF Prefix
        <5> QED  BY <5>1, <5>2
      <4> QED  BY <3>4, <4>1, <4>2 DEF Prefix
    <3>6. Start(sent, (k + 1) + 1) = Done + 3 + Len(m.data)
      BY <1>2, <1>3, <1>4, Expected DEF Done, m
    <3>7. Done' = Done + Len(Taken)
      <4>1. Done' = Start(sent, (k + 1) + 1)
        BY <1>1, <3>4 DEF Done
      <4> DEFINE a == Done
                 l == Len(m.data)
      <4>2. a \in Nat /\ l \in Nat /\ Done' = a + 3 + l /\ Len(Taken) = 3 + l
        BY <1>2, <2>1, <3>6, <4>1
      <4> HIDE DEF a, l
      <4>3. a + 3 + l = a + (3 + l)
        BY <4>2
      <4> QED  BY <4>2, <4>3 DEF a
    <3>8. ASSUME status' = "open" PROVE rx'.buf = <<>>
      BY <3>1, <3>8 DEF rxbuf
    <3>9. PartOf(Byte, <<>>, stream, Done')
      <4>1. Done + Len(Taken) <= Len(stream) /\ Len(<<>>) = 0 /\ Len(stream) \in Nat
        BY <1>2, <1>3 DEF PartOf
      <4>2. Done' \in Nat /\ Done' + 0 <= Len(stream)
        BY <1>2, <1>4, <3>7, <4>1
      <4>3. <<>> \in Seq(Byte) /\ \A j \in 1 .. 0 : FALSE
        OBVIOUS
      <4>4. Done' + Len(<<>>) <= Len(stream) /\ \A j \in 1 .. Len(<<>>) : FALSE
        BY <4>1, <4>2, <4>3
      <4> QED  BY <4>3, <4>4, Zenon DEF PartOf
    <3>10. /\ Done' + Len(<<>>) = Done + Len(Taken)
           /\ rd = Done' + Len(<<>>) + Len(Untaken)
           /\ ~HeaderIn(<<>>)
      <4>1. Len(<<>>) = 0 /\ Done + Len(Taken) \in Nat
        BY <1>2, <1>4
      <4> QED  BY <1>2, <3>7, <4>1 DEF HeaderIn
    <3>11. /\ mode' = "BINARY" /\ stream' = stream /\ sent' = sent /\ rd' = rd
           /\ net' = Untaken /\ status' # "refused"
      BY <1>1, <1>8, <3>1
    <3>12. PartOf(Byte, Untaken, stream, Done' + Len(<<>>))
      BY <1>2, <3>10
    <3> QED
      BY <1>3, <3>1, <3>4, <3>5, <3>8, <3>9, <3>10, <3>11, <3>12 DEF BinaryInv, HeaderIn
  <2> QED  BY <2>2, <2>3
<1>9. CASE /\ ~Complete(Taken) /\ rx' = rxbuf(Taken, Len(Taken)) /\ net' = Untaken
           /\ UNCHANGED <<got, status>>
  <2>1. rx'.buf = Taken
    BY <1>9 DEF rxbuf
  <2>2. HeaderIn(Taken) => Len(Taken) < 3 + binary_pkt_len(Taken)
    BY <1>2, <1>4, <1>5, <1>9 DEF Complete
  <2>3. Done' = Done
    BY <1>1, <1>9 DEF Done
  <2>4. /\ mode' = "BINARY" /\ stream' = stream /\ sent' = sent /\ rd' = rd
        /\ net' = Untaken /\ got' = got /\ status' = "open"
    BY <1>1, <1>9
  <2> QED
    BY <1>2, <1>3, <2>1, <2>2, <2>3, <2>4 DEF BinaryInv, HeaderIn, binary_pkt_len
<1> QED  BY <1>7, <1>8, <1>9 DEF recv_binary

-----------------------------------------------------------------------------
(* Packets. *)

\* A packet is decoded by recv_framed to the message it was made of.
LEMMA PacketIs ==
  ASSUME NEW m \in Sends
  PROVE  /\ Packet(m) \in Seq(Byte)
         /\ Message(Packet(m)[1], Tail(Packet(m))) = m
<1> DEFINE h == <<m.id>>
           d == m.data
           q == h \o d
<1>1. m = Message(m.id, d) /\ h \in Seq(Byte) /\ d \in Seq(Byte) /\ Len(h) = 1 /\ h[1] = m.id
  BY MessageTyped
<1>2. Packet(m) = q
  BY DEF Packet
<1> HIDE DEF h, d
<1>3. /\ q \in Seq(Byte) /\ Len(d) \in Nat /\ Len(q) = Len(h) + Len(d)
      /\ \A i \in 1 .. Len(h) : q[i] = h[i]
      /\ \A i \in 1 .. Len(d) : q[Len(h) + i] = d[i]
  BY <1>1, BytesJoined, Zenon
<1> HIDE DEF q
<1>4. q[1] = m.id /\ q # <<>> /\ Len(q) = 1 + Len(d)
  BY <1>1, <1>3
<1>5. /\ Tail(q) \in Seq(Byte) /\ Len(Tail(q)) = Len(q) - 1
      /\ \A i \in 1 .. Len(Tail(q)) : Tail(q)[i] = q[i + 1]
  BY <1>3, <1>4, HeadTailProperties
<1> DEFINE r == Tail(q)
<1>6. r \in Seq(Byte) /\ Len(r) = Len(q) - 1 /\ \A i \in 1 .. Len(r) : r[i] = q[i + 1]
  BY <1>5
<1> HIDE DEF r
<1>7. Len(r) = Len(d)
  BY <1>3, <1>4, <1>6
<1>8. ASSUME NEW i \in 1 .. Len(r) PROVE r[i] = d[i]
  <2>1. q[1 + i] = d[i] /\ 1 + i = i + 1
    BY <1>1, <1>3, <1>7
  <2> QED  BY <1>6, <2>1
<1>9. r = d
  BY <1>1, <1>6, <1>7, <1>8, SeqEqual
<1> QED  BY <1>1, <1>2, <1>3, <1>4, <1>9, Zenon DEF r

\* output_framed adds a packet.
LEMMA OutputKeepsPackets ==
  ASSUME PacketInv, omode = "FRAMED", NEW m \in Sends, proto_output(m)
  PROVE  PacketInv' /\ omode' = "FRAMED"
<1> DEFINE w == Append(stream, Packet(m))
           x == [msg |-> m, end |-> Len(w)]
           u == Append(sent, x)
<1>1. /\ omode' = "FRAMED" /\ UNCHANGED <<mode, rd, got, status>>
      /\ stream' = w /\ sent' = u
  BY DEF proto_output
<1>2. /\ mode = "FRAMED" /\ sent \in Seq(Sent) /\ got \in Seq(Sends) /\ stream \in Seq(Seq(Byte))
      /\ Len(stream) = Len(sent)
      /\ \A i \in 1 .. Len(sent) : stream[i] = Packet(sent[i].msg)
      /\ Len(got) <= Len(sent) /\ \A i \in 1 .. Len(got) : got[i] = sent[i].msg
      /\ rd = Len(got) /\ status \in {"open", "closed"}
  BY DEF PacketInv, Prefix
<1>3. Packet(m) \in Seq(Byte)
  BY PacketIs
<1>4. /\ w \in Seq(Seq(Byte)) /\ Len(stream) \in Nat /\ Len(w) = Len(stream) + 1
      /\ \A i \in 1 .. Len(stream) : w[i] = stream[i]
      /\ w[Len(stream) + 1] = Packet(m)
  <2> DEFINE S == Seq(Byte)
             y == Packet(m)
  <2>1. stream \in Seq(S) /\ y \in S
    BY <1>2, <1>3
  <2> HIDE DEF S, y
  <2>2. /\ Append(stream, y) \in Seq(S) /\ Len(stream) \in Nat
        /\ Len(Append(stream, y)) = Len(stream) + 1
        /\ \A i \in 1 .. Len(stream) : Append(stream, y)[i] = stream[i]
        /\ Append(stream, y)[Len(stream) + 1] = y
    BY <2>1, Appended
  <2> QED  BY <2>2, Zenon DEF S, y
<1>5. x.msg = m /\ x \in Sent
  <2> HIDE DEF w
  <2>1. Len(w) \in Nat
    BY <1>4
  <2> QED  BY <2>1 DEF Sent
<1> HIDE DEF w, x
<1>6. /\ u \in Seq(Sent) /\ Len(u) = Len(sent) + 1 /\ Len(sent) \in Nat
      /\ \A i \in 1 .. Len(sent) : u[i] = sent[i]
      /\ u[Len(sent) + 1] = x
  BY <1>2, <1>5, Appended
<1> HIDE DEF u
<1>7. ASSUME NEW i \in 1 .. Len(sent) + 1 PROVE w[i] = Packet(u[i].msg)
  <2>1. CASE i = Len(sent) + 1
    BY <1>2, <1>4, <1>5, <1>6, <2>1
  <2>2. CASE i # Len(sent) + 1
    <3>1. i \in 1 .. Len(sent)
      BY <1>6, <2>2
    <3> QED  BY <1>2, <1>4, <1>6, <3>1
  <2> QED  BY <2>1, <2>2
<1>8. Prefix(got, u)
  <2>1. Len(got) \in Nat /\ Len(got) <= Len(u) /\ \A i \in 1 .. Len(got) : i \in 1 .. Len(sent)
    BY <1>2, <1>6
  <2> QED  BY <1>2, <1>6, <2>1 DEF Prefix
<1> QED  BY <1>1, <1>2, <1>4, <1>6, <1>7, <1>8 DEF PacketInv

\* recv_framed delivers the next packet.
LEMMA PacketKeepsPackets ==
  ASSUME PacketInv, RecvPacket
  PROVE  PacketInv'
<1> DEFINE k == Len(got)
           m == sent[k + 1].msg
<1>1. /\ rd < Len(stream) /\ rd' = rd + 1
      /\ got' = Append(got, Message(stream[rd'][1], Tail(stream[rd'])))
      /\ status' \in {"open", "closed"}
      /\ UNCHANGED <<stream, sent, mode>>
  BY DEF RecvPacket, OnInput
<1>2. /\ mode = "FRAMED" /\ sent \in Seq(Sent) /\ got \in Seq(Sends) /\ stream \in Seq(Seq(Byte))
      /\ Len(stream) = Len(sent)
      /\ \A i \in 1 .. Len(sent) : stream[i] = Packet(sent[i].msg)
      /\ \A i \in 1 .. k : got[i] = sent[i].msg
      /\ rd = k
  BY DEF PacketInv, Prefix
<1>3. k \in Nat /\ Len(sent) \in Nat /\ k + 1 \in 1 .. Len(sent) /\ rd' = k + 1
  BY <1>1, <1>2
<1>4. m \in Sends
  BY <1>2, <1>3, SentTyped
<1>5. stream[rd'] = Packet(m)
  BY <1>2, <1>3
<1> HIDE DEF m
<1>6. got' = Append(got, m)
  BY <1>1, <1>4, <1>5, PacketIs
<1>7. /\ got' \in Seq(Sends) /\ Len(got') = k + 1 /\ got'[k + 1] = m
      /\ \A i \in 1 .. k : got'[i] = got[i]
  BY <1>2, <1>4, <1>6, Appended
<1>8. ASSUME NEW i \in 1 .. k + 1 PROVE got'[i] = sent[i].msg
  <2>1. CASE i = k + 1
    BY <1>7, <2>1 DEF m
  <2>2. CASE i # k + 1
    <3>1. i \in 1 .. k
      BY <1>3, <2>2
    <3> QED  BY <1>2, <1>7, <3>1
  <2> QED  BY <2>1, <2>2
<1>9. Prefix(got', sent)
  BY <1>3, <1>7, <1>8 DEF Prefix
<1> QED  BY <1>1, <1>2, <1>3, <1>7, <1>9 DEF PacketInv

-----------------------------------------------------------------------------
(* The steps together. *)

\* The text decoder leaves the sending end alone.
LEMMA TextApart ==
  ASSUME recv_text
  PROVE  mode = "TEXT" /\ omode' = omode
<1>1. \A s, b : Decode(s, b) => omode' = omode
  BY DEF Decode
<1>2. \A state : OutputError(state) => omode' = omode
  BY DEF OutputError
<1>3. \A state : To(state) => omode' = omode
  BY <1>1 DEF To
<1>4. \A b, s : AddByte(b, s) => omode' = omode
  BY <1>1 DEF AddByte
<1>5. \A state : In(state) => mode = "TEXT"
  BY DEF In
<1>6. CASE T_ERROR
  BY <1>3, <1>5, <1>6, Zenon DEF T_ERROR
<1>7. CASE T_BOL
  BY <1>1, <1>3, <1>5, <1>7, Zenon DEF T_BOL
<1>8. CASE T_CMD
  BY <1>1, <1>2, <1>5, <1>8, Zenon DEF T_CMD
<1>9. CASE T_ARGSP
  BY <1>1, <1>2, <1>3, <1>5, <1>9, Zenon DEF T_ARGSP
<1>10. CASE T_INT
  BY <1>1, <1>2, <1>4, <1>5, <1>10, Zenon DEF T_INT
<1>11. CASE T_STRBEG
  BY <1>3, <1>5, <1>11, Zenon DEF T_STRBEG
<1>12. CASE T_STR
  BY <1>1, <1>4, <1>5, <1>12, Zenon DEF T_STR
<1>13. CASE T_QSTR
  BY <1>1, <1>2, <1>3, <1>4, <1>5, <1>13, Zenon DEF T_QSTR
<1>14. CASE T_QOCT
  BY <1>1, <1>2, <1>4, <1>5, <1>14, Zenon DEF T_QOCT
<1> QED
  BY <1>6, <1>7, <1>8, <1>9, <1>10, <1>11, <1>12, <1>13, <1>14 DEF recv_text

\* The invariant holds when the two ends are created.
LEMMA InitInvariant == Init => IInv
<1> SUFFICES ASSUME Init PROVE IInv
  OBVIOUS
<1>1. omode \in {"UNKNOWN", "TEXT", "FRAMED"} /\ status = "open"
  BY DEF Init
<1>2. stream = <<>> /\ sent = <<>> /\ got = <<>> /\ rd = 0 /\ net = <<>> /\ rx.buf = <<>>
  BY DEF Init
<1>3. Len(<<>>) = 0 /\ \A S : <<>> \in Seq(S)
  OBVIOUS
<1>4. Prefix(<<>>, <<>>)
  BY <1>3 DEF Prefix
<1>5. CASE omode = "FRAMED"
  BY <1>1, <1>2, <1>3, <1>4, <1>5 DEF Init, IInv, PacketInv
<1>6. CASE omode = "UNKNOWN"
  <2>1. Start(<<>>, 0 + 1) = 0
    BY DEF Start
  <2>2. Framed(<<>>, <<>>)
    BY <1>3, <2>1 DEF Framed
  <2>3. Done = 0
    BY <1>2, <1>3, <2>1 DEF Done
  <2>4. PartOf(Byte, <<>>, <<>>, 0)
    BY <1>3 DEF PartOf
  <2>5. ~HeaderIn(<<>>)
    BY <1>3 DEF HeaderIn
  <2>6. mode = "UNKNOWN"
    BY <1>6 DEF Init
  <2> QED
    BY <1>1, <1>2, <1>3, <1>4, <1>6, <2>2, <2>3, <2>4, <2>5, <2>6 DEF IInv, BinaryInv
<1> QED  BY <1>1, <1>5, <1>6 DEF IInv

\* Every step of either end keeps the invariant.
LEMMA NextInvariant == IInv /\ [Next]_vars => IInv'
<1> SUFFICES ASSUME IInv, [Next]_vars PROVE IInv'
  BY SMTT(30)
<1>1. CASE UNCHANGED vars
  BY <1>1 DEF vars, IInv, BinaryInv, PacketInv, Done, HeaderIn, binary_pkt_len
<1>2. ASSUME NEW m \in Sends, proto_output(m) PROVE IInv'
  <2>1. CASE omode \in {"UNKNOWN", "BINARY"}
    <3>1. BinaryInv' /\ omode' = "BINARY"
      BY <1>2, <2>1, OutputKeepsBinary DEF IInv
    <3> QED  BY <3>1 DEF IInv
  <2>2. CASE omode = "FRAMED"
    <3>1. PacketInv' /\ omode' = "FRAMED"
      BY <1>2, <2>2, OutputKeepsPackets DEF IInv
    <3> QED  BY <3>1 DEF IInv
  <2>3. CASE omode = "TEXT"
    BY <1>2, <2>3 DEF proto_output, IInv
  <2> QED  BY <2>1, <2>2, <2>3 DEF IInv
<1>3. ASSUME NEW l \in Typed, TypeLine(l) PROVE IInv'
  BY <1>3 DEF TypeLine, IInv
<1>4. CASE RecvBytes
  <2>1. omode' = omode /\ mode # "FRAMED"
    BY <1>4 DEF RecvBytes
  <2>2. omode # "FRAMED"
    BY <2>1 DEF IInv, PacketInv
  <2> QED  BY <1>4, <2>1, <2>2, BytesKeepBinary DEF IInv
<1>5. CASE RecvPacket
  <2>1. omode' = omode /\ mode = "FRAMED"
    BY <1>5 DEF RecvPacket
  <2>2. omode \notin {"UNKNOWN", "BINARY"}
    BY <2>1, SMTT(30) DEF IInv, BinaryInv
  <2> QED  BY <1>5, <2>1, <2>2, PacketKeepsPackets DEF IInv
<1>6. CASE RecvEof
  BY <1>6 DEF RecvEof, IInv, BinaryInv, PacketInv
<1>7. CASE recv_binary
  <2>1. omode' = omode /\ mode = "BINARY"
    BY <1>7 DEF recv_binary
  <2>2. omode # "FRAMED"
    BY <2>1, SMTT(30) DEF IInv, PacketInv
  <2> QED  BY <1>7, <2>1, <2>2, LoopKeepsBinary DEF IInv
<1>8. CASE recv_text
  <2>1. omode' = omode /\ mode = "TEXT"
    BY <1>8, TextApart
  <2> QED  BY <2>1 DEF IInv, BinaryInv, PacketInv
<1> QED  BY <1>1, <1>2, <1>3, <1>4, <1>5, <1>6, <1>7, <1>8 DEF Next

\* In binary and in framed mode on_input is given the messages that
\* proto_output was given, whole, in order and each once, whatever they are and
\* however recv_binary meets the stream; nothing is left behind in the buffer.
THEOREM Delivered == Spec => []FramesDelivered
<1>1. IInv => FramesDelivered
  <2> SUFFICES ASSUME IInv, omode # "TEXT"
               PROVE  /\ mode # "TEXT" /\ Len(got) <= Len(sent)
                      /\ \A i \in DOMAIN got : got[i] = sent[i].msg
                      /\ Settled => Len(got) = Len(sent)
    BY DEF FramesDelivered
  <2>1. CASE omode = "FRAMED"
    BY <2>1 DEF IInv, PacketInv, Prefix, Settled
  <2>2. CASE omode # "FRAMED"
    <3>1. BinaryInv
      BY <2>2, SMTT(30) DEF IInv
    <3>2. /\ stream \in Seq(Byte) /\ sent \in Seq(Sent) /\ got \in Seq(Sends)
          /\ Framed(stream, sent) /\ Len(got) <= Len(sent)
          /\ \A i \in 1 .. Len(got) : got[i] = sent[i].msg
          /\ mode # "TEXT"
      BY <3>1, SMTT(30) DEF BinaryInv, Prefix
    <3>3. Len(got) \in Nat /\ Len(sent) \in Nat /\ DOMAIN got = 1 .. Len(got)
      BY <3>2
    <3>4. ASSUME Settled, Len(got) < Len(sent) PROVE FALSE
      <4> DEFINE m == sent[Len(got) + 1].msg
                 l == Len(m.data)
                 lb == Len(rx.buf)
      <4>1. /\ Done \in Nat /\ m \in Sends /\ l < RXLIMIT /\ Carries(stream, Done, m)
        BY <3>2, <3>3, <3>4, Expected DEF Done
      <4>2. l \in Nat
        BY <4>1, MessageTyped
      <4>3. Done + 3 + l <= Len(stream)
        BY <4>1 DEF Carries
      <4>4. /\ PartOf(Byte, rx.buf, stream, Done) /\ rd = Done + lb + Len(net)
            /\ HeaderIn(rx.buf) => lb < 3 + binary_pkt_len(rx.buf)
            /\ rd = Len(stream) /\ net = <<>>
        BY <3>1, <3>4 DEF BinaryInv, Settled
      <4>5. lb \in Nat /\ Len(net) = 0
        BY <4>4 DEF PartOf
      <4> HIDE DEF m, l
      <4>6. lb >= 3 + l /\ HeaderIn(rx.buf)
        BY <4>1, <4>2, <4>3, <4>4, <4>5 DEF HeaderIn
      <4>7. binary_pkt_len(rx.buf) = l
        BY <3>2, <4>1, <4>4, <4>6, HeaderTells DEF l
      <4> QED  BY <4>2, <4>4, <4>5, <4>6, <4>7
    <3> QED  BY <3>2, <3>3, <3>4
  <2> QED  BY <2>1, <2>2
<1> QED  BY InitInvariant, NextInvariant, <1>1, PTL DEF Spec

\* recv_binary gives a connection up only for a message that does not fit the
\* receive buffer with its header and the NUL that pads it; in framed mode it
\* never is.
THEOREM RefusalIsJustified == Spec => []RefusedOnlyWhenFull
<1>1. IInv => RefusedOnlyWhenFull
  BY DEF IInv, BinaryInv, PacketInv, RefusedOnlyWhenFull, RefusedMessage
<1> QED  BY InitInvariant, NextInvariant, <1>1, PTL DEF Spec

=============================================================================
