----------------------------- MODULE IpcProofs ------------------------------
(***************************************************************************)
(* Proofs about the connections of taskmasterctl with the daemon, for      *)
(* every number of clients, every size of the messages and of the buffers, *)
(* and however send and recv cut the messages into pieces: the types, that *)
(* nothing is in flight at a prompt, and that the connection implements    *)
(* the remote call of module Rpc.                                          *)
(***************************************************************************)
EXTENDS Ipc, SequenceTheorems, TLAPS

----------------------------------------------------------------------------
(***************************************************************************)
(* Streams.  A piece of a message is a run of the bytes of its frame that  *)
(* follows the first start of them.                                        *)
(***************************************************************************)
Messages == Command \cup Response
Bytes == [of : Messages, at : Nat]
FrameSize(m) == HeaderSize + m.size

Piece(s, m, start) == /\ s \in Seq(Bytes)
                      /\ start + Len(s) <= FrameSize(m)
                      /\ \A k \in 1..Len(s) : s[k] = Byte(m, start + k)

\* A ProtoReader that has some of a message but not all of it, and what follows in
\* the socket.
Partial(r, m) == /\ Piece(r.buffer, m, 0)
                 /\ Len(r.buffer) < FrameSize(m)
                 /\ r.size = IF Len(r.buffer) >= HeaderSize THEN m.size ELSE NoSize

Under(r, stream, m) == Partial(r, m) /\ Piece(stream, m, Len(r.buffer))

\* A ProtoWriter in the middle of a message, and how much of the frame it has sent.
Writes(w, m) == /\ w.message = m
                /\ w.bytesWritten < m.size
                /\ ~w.sizeWritten => w.bytesWritten = 0

Sent(w) == IF w.sizeWritten THEN HeaderSize + w.bytesWritten ELSE 0

----------------------------------------------------------------------------
(***************************************************************************)
(* One client: x is its taskmasterctl, y its Client object, u and d the    *)
(* bytes under way, e the number of its commands that were executed.       *)
(***************************************************************************)
Writer(M) == [message : M \cup {NoMessage}, sizeWritten : BOOLEAN, bytesWritten : Nat]
Reader == [buffer : Seq(Bytes), size : Int]

Ctl == [pc : CtlStates, kind : Kinds, asked : 0..MaxCommands, answered : 0..MaxCommands,
        writer : Writer(Command), reader : Reader,
        checker : CheckerStates, exitChecker : BOOLEAN]

Conn == [mode : ConnStates, kind : Kinds, writer : Writer(Response), reader : Reader,
         held : BOOLEAN]

CommandOf(x) == [n |-> x.asked, kind |-> x.kind, size |-> CommandSize]

\* No command is under way.
Idle(x, y, u, d, e) == /\ e = x.asked
                       /\ u = <<>> /\ d = <<>>
                       /\ x.reader = NewReader /\ y.reader = NewReader
                       /\ x.writer = IdleWriter /\ y.writer = IdleWriter
                       /\ y.mode # "writing"

(***************************************************************************)
(* The last command is on its way to the daemon: what the reader has and   *)
(* what is in the socket is what the writer has sent of it.                *)
(***************************************************************************)
Request(x, y, u, d, e) ==
    LET m == CommandOf(x)
        there == Len(y.reader.buffer) + Len(u)
    IN  /\ x.asked >= 1 /\ e = x.asked - 1
        /\ Under(y.reader, u, m)
        /\ \/ x.writer = IdleWriter /\ there = FrameSize(m)
           \/ Writes(x.writer, m) /\ there = Sent(x.writer)
        /\ d = <<>>
        /\ x.reader = NewReader
        /\ y.writer = IdleWriter
        /\ y.mode # "writing"

\* The last command was executed, and the response m is on its way back.
Answers(x, y, u, d, e, m) ==
    LET there == Len(x.reader.buffer) + Len(d)
    IN  /\ e = x.asked /\ m.n = x.asked
        /\ u = <<>>
        /\ y.reader = NewReader
        /\ x.writer = IdleWriter
        /\ Under(x.reader, d, m)
        /\ \/ y.writer = IdleWriter /\ there = FrameSize(m) /\ y.mode # "writing"
           \/ Writes(y.writer, m) /\ there = Sent(y.writer) /\ y.mode \in {"writing", "closed"}

Answering(x, y, u, d, e) == \E m \in Response : Answers(x, y, u, d, e, m)

(***************************************************************************)
(* The three cases, and what the program counter says about them.  A       *)
(* client that has failed or is gone leaves its last command in any of     *)
(* them.                                                                   *)
(***************************************************************************)
ClientOK(x, y, u, d, e) ==
    /\ x \in Ctl /\ y \in Conn /\ u \in Seq(Bytes) /\ d \in Seq(Bytes) /\ e \in Nat
    /\ Idle(x, y, u, d, e) \/ Request(x, y, u, d, e) \/ Answering(x, y, u, d, e)
    /\ x.pc \in {"connect", "prompt", "succeeded", "join0"} => Idle(x, y, u, d, e)
    /\ x.pc = "send" => Request(x, y, u, d, e) /\ x.writer # IdleWriter
    /\ x.pc = "await" => ~Idle(x, y, u, d, e) /\ x.writer = IdleWriter

Fun(f) == f = [c \in Clients |-> f[c]]

IpcInv == /\ Fun(ctl) /\ Fun(conn) /\ Fun(up) /\ Fun(down) /\ Fun(executed)
          /\ \A c \in Clients : ClientOK(ctl[c], conn[c], up[c], down[c], executed[c])
          /\ LoopTypeOK
          /\ due \subseteq Clients

----------------------------------------------------------------------------
(***************************************************************************)
(* Lemmas about pieces.                                                    *)
(***************************************************************************)
LEMMA MessageSize ==
    ASSUME NEW m \in Messages
    PROVE  m.size \in Nat \ {0} /\ HeaderSize \in Nat \ {0} /\ FrameSize(m) \in Nat
    BY SizesAssumption, FramingAssumption DEF Messages, Command, Response, FrameSize

LEMMA EmptyPiece ==
    ASSUME NEW m \in Messages, NEW start \in Nat, start <= FrameSize(m)
    PROVE  Piece(<<>>, m, start)
    BY MessageSize, EmptySeq DEF Piece

LEMMA PieceAppend ==
    ASSUME NEW m \in Messages, NEW start \in Nat, NEW s, Piece(s, m, start),
           NEW next, next = start + Len(s), NEW t, Piece(t, m, next)
    PROVE  Piece(s \o t, m, start) /\ Len(s \o t) = Len(s) + Len(t)
PROOF
    <1>1. /\ s \in Seq(Bytes) /\ t \in Seq(Bytes)
          /\ Len(s) \in Nat /\ Len(t) \in Nat /\ FrameSize(m) \in Nat
        BY LenProperties, MessageSize DEF Piece
    <1>2. /\ s \o t \in Seq(Bytes)
          /\ Len(s \o t) = Len(s) + Len(t)
          /\ \A i \in 1..(Len(s) + Len(t)) :
                (s \o t)[i] = IF i <= Len(s) THEN s[i] ELSE t[i - Len(s)]
        BY <1>1, ConcatProperties
    <1>3. start + Len(s \o t) <= FrameSize(m)
        BY <1>1, <1>2 DEF Piece
    <1>4. ASSUME NEW k \in 1..Len(s \o t)  PROVE (s \o t)[k] = Byte(m, start + k)
        <2>1. CASE k <= Len(s)
            BY <1>1, <1>2, <2>1 DEF Piece
        <2>2. CASE ~(k <= Len(s))
            <3>1. k - Len(s) \in 1..Len(t) /\ start + Len(s) + (k - Len(s)) = start + k
                BY <1>1, <1>2, <2>2
            <3>2. t[k - Len(s)] = Byte(m, start + Len(s) + (k - Len(s)))
                BY <3>1 DEF Piece
            <3> QED
                BY <1>1, <1>2, <2>2, <3>1, <3>2
        <2> QED
            BY <2>1, <2>2
    <1> QED
        BY <1>2, <1>3, <1>4 DEF Piece

LEMMA PieceHead ==
    ASSUME NEW m \in Messages, NEW start \in Nat, NEW s, Piece(s, m, start),
           NEW n \in 0..Len(s)
    PROVE  Piece(SubSeq(s, 1, n), m, start) /\ Len(SubSeq(s, 1, n)) = n
PROOF
    <1>1. s \in Seq(Bytes) /\ Len(s) \in Nat /\ FrameSize(m) \in Nat
        BY LenProperties, MessageSize DEF Piece
    <1>2. \A i \in 1..n : s[i] \in Bytes
        BY <1>1, ElementOfSeq
    <1>3. /\ SubSeq(s, 1, n) \in Seq(Bytes)
          /\ Len(SubSeq(s, 1, n)) = n
          /\ \A i \in 1..n : SubSeq(s, 1, n)[i] = s[i]
        <2>1. /\ SubSeq(s, 1, n) \in Seq(Bytes)
              /\ Len(SubSeq(s, 1, n)) = IF 1 <= n THEN n - 1 + 1 ELSE 0
              /\ \A i \in 1..(n - 1 + 1) : SubSeq(s, 1, n)[i] = s[1 + i - 1]
            BY <1>1, <1>2, SubSeqProperties
        <2>2. n - 1 + 1 = n /\ \A i \in 1..n : 1 + i - 1 = i
            BY <1>1
        <2> QED
            BY <1>1, <2>1, <2>2
    <1> QED
        BY <1>1, <1>3 DEF Piece

LEMMA PieceTail ==
    ASSUME NEW m \in Messages, NEW start \in Nat, NEW s, Piece(s, m, start),
           NEW n \in 0..Len(s), NEW next, next = start + n
    PROVE  Piece(Drop(s, n), m, next) /\ Len(Drop(s, n)) = Len(s) - n
PROOF
    <1>1. s \in Seq(Bytes) /\ Len(s) \in Nat /\ FrameSize(m) \in Nat
        BY LenProperties, MessageSize DEF Piece
    <1>2. \A i \in (n + 1)..Len(s) : s[i] \in Bytes
        BY <1>1, ElementOfSeq
    <1>3. /\ Drop(s, n) \in Seq(Bytes)
          /\ Len(Drop(s, n)) = IF n + 1 <= Len(s) THEN Len(s) - (n + 1) + 1 ELSE 0
          /\ \A i \in 1..(Len(s) - (n + 1) + 1) : Drop(s, n)[i] = s[n + 1 + i - 1]
        BY <1>1, <1>2, SubSeqProperties DEF Drop
    <1>4. Len(Drop(s, n)) = Len(s) - n
        BY <1>1, <1>3
    <1>5. ASSUME NEW k \in 1..Len(Drop(s, n))  PROVE Drop(s, n)[k] = Byte(m, start + n + k)
        <2>1. k \in 1..(Len(s) - (n + 1) + 1) /\ n + 1 + k - 1 = n + k /\ n + k \in 1..Len(s)
            BY <1>1, <1>4
        <2>2. s[n + k] = Byte(m, start + (n + k)) /\ start + (n + k) = start + n + k
            BY <2>1 DEF Piece
        <2> QED
            BY <1>3, <2>1, <2>2
    <1>6. start + n + Len(Drop(s, n)) <= FrameSize(m)
        BY <1>1, <1>4 DEF Piece
    <1> QED
        BY <1>3, <1>4, <1>5, <1>6 DEF Piece

\* A run of a frame is a piece of the message.
LEMMA FramePiece ==
    ASSUME NEW m \in Messages, NEW a \in Nat, NEW b \in Nat, a <= b, b <= FrameSize(m)
    PROVE  Piece(SubSeq(Frame(m), a + 1, b), m, a) /\ Len(SubSeq(Frame(m), a + 1, b)) = b - a
PROOF
    <1> DEFINE s == SubSeq(Frame(m), a + 1, b)
    <1>1. FrameSize(m) \in Nat
        BY MessageSize
    <1>2. \A i \in 1..FrameSize(m) : Frame(m)[i] = Byte(m, i) /\ Byte(m, i) \in Bytes
        BY <1>1 DEF Frame, FrameSize, Byte, Bytes
    <1>3. /\ s \in Seq(Bytes)
          /\ Len(s) = IF a + 1 <= b THEN b - (a + 1) + 1 ELSE 0
          /\ \A i \in 1..(b - (a + 1) + 1) : s[i] = Frame(m)[a + 1 + i - 1]
        BY <1>1, <1>2, SubSeqProperties
    <1> HIDE DEF s
    <1>4. Len(s) = b - a
        BY <1>3
    <1>5. ASSUME NEW k \in 1..Len(s)  PROVE s[k] = Byte(m, a + k)
        <2>1. k \in 1..(b - (a + 1) + 1) /\ a + 1 + k - 1 = a + k /\ a + k \in 1..FrameSize(m)
            BY <1>1, <1>4
        <2> QED
            BY <1>2, <1>3, <2>1
    <1>6. a + Len(s) <= FrameSize(m)
        BY <1>4, <1>1
    <1>7. Piece(s, m, a)
        BY <1>3, <1>5, <1>6 DEF Piece
    <1> QED
        BY <1>4, <1>7 DEF s

\* A piece that is a whole frame is the frame.
LEMMA WholePiece ==
    ASSUME NEW m \in Messages, NEW s, Piece(s, m, 0), Len(s) = FrameSize(m)
    PROVE  s = Frame(m)
PROOF
    <1>1. FrameSize(m) \in Nat /\ s \in [1..FrameSize(m) -> Bytes]
        BY MessageSize, LenProperties DEF Piece
    <1>2. \A k \in 1..FrameSize(m) : s[k] = Byte(m, 0 + k) /\ 0 + k = k
        BY <1>1 DEF Piece
    <1>3. Frame(m) = [k \in 1..FrameSize(m) |-> Byte(m, k)]
        BY DEF Frame, FrameSize
    <1> QED
        BY <1>1, <1>2, <1>3

----------------------------------------------------------------------------
(***************************************************************************)
(* ProtoReader::read of the next n bytes of a message.                     *)
(***************************************************************************)
LEMMA ReceivedIs ==
    ASSUME NEW m \in Messages, NEW r \in Reader, NEW stream, Under(r, stream, m),
           NEW n \in Recv(stream)
    PROVE  LET q == Received(r, SubSeq(stream, 1, n))
           IN  /\ q \in Reader
               /\ Piece(q.buffer, m, 0)
               /\ Piece(Drop(stream, n), m, Len(q.buffer))
               /\ Len(q.buffer) + Len(Drop(stream, n)) = Len(r.buffer) + Len(stream)
               /\ q.size = IF Len(q.buffer) >= HeaderSize THEN m.size ELSE NoSize
PROOF
    <1> DEFINE got == SubSeq(stream, 1, n)
               buffer == r.buffer \o got
               q == Received(r, got)
    <1>1. /\ Len(r.buffer) \in Nat /\ Len(stream) \in Nat
          /\ m.size \in Nat \ {0} /\ HeaderSize \in Nat \ {0} /\ FrameSize(m) \in Nat
        BY MessageSize, LenProperties DEF Under, Partial, Piece
    <1>2. n \in 1..Len(stream)
        BY <1>1, FramingAssumption DEF Recv, Smaller
    <1>3. Piece(r.buffer, m, 0) /\ Piece(stream, m, Len(r.buffer))
        BY DEF Under, Partial
    <1>4. Piece(got, m, Len(r.buffer)) /\ Len(got) = n
        BY <1>1, <1>2, <1>3, PieceHead
    <1> HIDE DEF got
    <1>6. 0 + Len(r.buffer) = Len(r.buffer)
        BY <1>1
    <1>7. Piece(buffer, m, 0) /\ Len(buffer) = Len(r.buffer) + n
        BY <1>1, <1>3, <1>4, <1>6, PieceAppend
    <1> HIDE DEF buffer
    <1>5. Piece(Drop(stream, n), m, Len(buffer)) /\ Len(Drop(stream, n)) = Len(stream) - n
        <2>1. n \in 0..Len(stream)
            BY <1>1, <1>2
        <2> QED
            BY <1>1, <1>3, <1>7, <2>1, PieceTail
    <1>8. buffer \in Seq(Bytes) /\ buffer[1] = Byte(m, 0 + 1)
        BY <1>1, <1>2, <1>7 DEF Piece
    <1>9. buffer[1].of = m
        BY <1>8 DEF Byte
    <1>10. /\ q.buffer = buffer
           /\ q.size = IF r.size = NoSize /\ Len(buffer) >= HeaderSize THEN m.size ELSE r.size
        BY <1>9 DEF Received, buffer
    <1>11. r.size = IF Len(r.buffer) >= HeaderSize THEN m.size ELSE NoSize
        BY DEF Under, Partial
    <1>12. q.size = IF Len(buffer) >= HeaderSize THEN m.size ELSE NoSize
        BY <1>1, <1>2, <1>7, <1>10, <1>11 DEF NoSize
    <1>13. q \in Reader
        <2>1. q.size \in Int
            BY <1>1, <1>12 DEF NoSize
        <2>2. q = [buffer |-> q.buffer, size |-> q.size]
            BY DEF Received
        <2> QED
            BY <1>8, <1>10, <2>1, <2>2 DEF Reader
    <1>14. Len(buffer) + Len(Drop(stream, n)) = Len(r.buffer) + Len(stream)
        BY <1>1, <1>2, <1>5, <1>7
    <1> HIDE DEF q
    <1> QED
        BY <1>5, <1>7, <1>10, <1>12, <1>13, <1>14 DEF q, got

\* The reader that has the whole frame returns its message and is new again; one
\* that has not waits for the rest.
LEMMA CompleteIs ==
    ASSUME NEW m \in Messages, NEW q \in Reader, Piece(q.buffer, m, 0),
           q.size = IF Len(q.buffer) >= HeaderSize THEN m.size ELSE NoSize
    PROVE  /\ Complete(q) => /\ Len(q.buffer) = FrameSize(m)
                             /\ Parses(q)
                             /\ Message(q) = m
                             /\ Erased(q) = NewReader
           /\ ~Complete(q) => Partial(q, m)
PROOF
    <1>1. /\ Len(q.buffer) \in Nat
          /\ m.size \in Nat \ {0} /\ HeaderSize \in Nat \ {0} /\ FrameSize(m) \in Nat
        BY MessageSize, LenProperties DEF Piece
    <1>2. Len(q.buffer) <= FrameSize(m)
        BY <1>1 DEF Piece
    <1>3. ASSUME Complete(q)
          PROVE  /\ Len(q.buffer) = FrameSize(m)
                 /\ Parses(q)
                 /\ Message(q) = m
                 /\ Erased(q) = NewReader
        <2>1. q.size = m.size /\ Len(q.buffer) = FrameSize(m)
            BY <1>1, <1>2, <1>3 DEF Complete, FrameSize
        <2>2. q.buffer[1] = Byte(m, 0 + 1)
            BY <1>1, <2>1 DEF Piece, FrameSize
        <2>3. q.buffer[1].of = m
            BY <2>2 DEF Byte
        <2>4. HeaderSize + q.size = FrameSize(m) /\ FrameSize(m) \in 0..Len(q.buffer)
            BY <1>1, <2>1 DEF FrameSize
        <2>5. Piece(FirstFrame(q), m, 0) /\ Len(FirstFrame(q)) = FrameSize(m)
            BY <2>4, PieceHead DEF FirstFrame
        <2>6. Parses(q)
            BY <2>3, <2>5, WholePiece DEF Parses
        <2>7. SubSeq(q.buffer, HeaderSize + q.size + 1, Len(q.buffer)) = <<>>
            <3>1. HeaderSize + q.size + 1 \in Int /\ Len(q.buffer) \in Int
                  /\ Len(q.buffer) < HeaderSize + q.size + 1
                BY <1>1, <2>1, <2>4
            <3> QED
                BY <3>1, SubSeqEmpty
        <2> QED
            BY <1>3, <2>1, <2>3, <2>6, <2>7 DEF Message, Erased, NewReader
    <1>4. ASSUME ~Complete(q)  PROVE Len(q.buffer) < FrameSize(m)
        BY <1>1, <1>4 DEF Complete, FrameSize, NoSize
    <1> QED
        BY <1>3, <1>4 DEF Partial

(***************************************************************************)
(* ProtoWriter::write, when send takes n bytes.                            *)
(***************************************************************************)
LEMMA WriteIs ==
    ASSUME NEW M \in SUBSET Messages, NEW m \in M, NEW w \in Writer(M), Writes(w, m),
           NEW n \in Sendable(w)
    PROVE  /\ Piece(BytesSent(w, n), m, Sent(w))
           /\ Written(w, n) \in Writer(M)
           /\ WriteEnds(w, n) => /\ Written(w, n) = IdleWriter
                                 /\ Sent(w) + Len(BytesSent(w, n)) = FrameSize(m)
           /\ ~WriteEnds(w, n) => /\ Writes(Written(w, n), m)
                                  /\ Sent(w) + Len(BytesSent(w, n)) = Sent(Written(w, n))
PROOF
    <1>1. /\ m \in Messages /\ w.message = m /\ w.bytesWritten \in Nat /\ w.sizeWritten \in BOOLEAN
          /\ m.size \in Nat \ {0} /\ HeaderSize \in Nat \ {0} /\ w.bytesWritten < m.size
        BY MessageSize DEF Writer, Writes
    <1>2. CASE ~w.sizeWritten
        <2>1. n = 0 /\ w.bytesWritten = 0 /\ Sent(w) = 0 /\ ~WriteEnds(w, n)
            BY <1>2 DEF Sendable, Writes, Sent, WriteEnds
        <2>2. BytesSent(w, n) = SubSeq(Frame(m), 0 + 1, HeaderSize)
            BY <1>1, <1>2 DEF BytesSent
        <2>3. Piece(BytesSent(w, n), m, 0) /\ Len(BytesSent(w, n)) = HeaderSize - 0
            BY <1>1, <2>2, FramePiece DEF FrameSize
        <2>4. Written(w, n) = [w EXCEPT !.sizeWritten = TRUE]
            BY <1>2 DEF Written
        <2>5. /\ Written(w, n) \in Writer(M)
              /\ Written(w, n).message = m
              /\ Written(w, n).sizeWritten
              /\ Written(w, n).bytesWritten = 0
            BY <1>1, <2>1, <2>4 DEF Writer
        <2> HIDE DEF Written
        <2> QED
            BY <1>1, <2>1, <2>3, <2>5 DEF Writes, Sent
    <1>3. CASE w.sizeWritten
        <2>1. n \in 1..(m.size - w.bytesWritten)
            BY <1>1, <1>3, FramingAssumption DEF Sendable, Smaller
        <2>2. Sent(w) = HeaderSize + w.bytesWritten
            BY <1>3 DEF Sent
        <2>3. BytesSent(w, n) = SubSeq(Frame(m), Sent(w) + 1, Sent(w) + n)
            BY <1>1, <1>3, <2>2 DEF BytesSent
        <2>4. /\ Sent(w) \in Nat /\ Sent(w) + n \in Nat /\ Sent(w) <= Sent(w) + n
              /\ Sent(w) + n <= FrameSize(m)
            BY <1>1, <2>1, <2>2 DEF FrameSize
        <2>5. Piece(BytesSent(w, n), m, Sent(w)) /\ Len(BytesSent(w, n)) = n
            <3> DEFINE a == Sent(w)
                       b == Sent(w) + n
            <3>1. m \in Messages /\ a \in Nat /\ b \in Nat /\ a <= b /\ b <= FrameSize(m)
                BY <1>1, <2>4
            <3> HIDE DEF a, b
            <3>2. Piece(SubSeq(Frame(m), a + 1, b), m, a) /\ Len(SubSeq(Frame(m), a + 1, b)) = b - a
                BY <3>1, FramePiece
            <3>3. BytesSent(w, n) = SubSeq(Frame(m), a + 1, b) /\ a = Sent(w) /\ b = Sent(w) + n
                BY <2>3 DEF a, b
            <3>4. b - a = n
                BY <2>1, <3>1, <3>3
            <3> QED
                BY <3>2, <3>3, <3>4
        <2>7. CASE WriteEnds(w, n)
            <3>1. Written(w, n) = IdleWriter
                BY <1>3, <2>7 DEF Written
            <3>2. IdleWriter \in Writer(M)
                BY DEF IdleWriter, Writer
            <3>3. Sent(w) + n = FrameSize(m)
                BY <1>1, <2>1, <2>2, <2>7 DEF WriteEnds, FrameSize
            <3> QED
                BY <2>5, <2>7, <3>1, <3>2, <3>3
        <2>8. CASE ~WriteEnds(w, n)
            <3>1. Written(w, n) = [w EXCEPT !.bytesWritten = @ + n]
                BY <1>3, <2>8 DEF Written
            <3>2. /\ Written(w, n) \in Writer(M)
                  /\ Written(w, n).message = m
                  /\ Written(w, n).sizeWritten
                  /\ Written(w, n).bytesWritten = w.bytesWritten + n
                BY <1>1, <1>3, <2>1, <3>1 DEF Writer
            <3>3. w.bytesWritten + n < m.size
                BY <1>1, <1>3, <2>1, <2>8 DEF WriteEnds
            <3>4. Writes(Written(w, n), m)
                BY <3>2, <3>3 DEF Writes
            <3>5. Sent(Written(w, n)) = Sent(w) + n
                BY <1>1, <2>1, <2>2, <3>2 DEF Sent
            <3> QED
                BY <2>5, <2>8, <3>2, <3>4, <3>5
        <2> QED
            BY <2>7, <2>8
    <1> QED
        BY <1>1, <1>2, <1>3

\* A writer at rest writes nothing.
LEMMA IdleWritesNot ==
    ASSUME NEW m \in Messages
    PROVE  ~Writes(IdleWriter, m)
PROOF
    <1>1. IdleWriter.message.size = 0
        BY DEF IdleWriter, NoMessage
    <1> QED
        BY <1>1, MessageSize DEF Writes

----------------------------------------------------------------------------
(***************************************************************************)
(* The steps of one client, case by case.  First the ones that leave the   *)
(* messages alone: main moves on, or the other thread does.                *)
(***************************************************************************)
IdleStates == {"connect", "prompt", "succeeded", "join0"}
FreeStates == {"failed", "join1"} \cup Ended

SameCommand(x, x2) == /\ x2.kind = x.kind /\ x2.asked = x.asked
                      /\ x2.writer = x.writer /\ x2.reader = x.reader

LEMMA CommandIsMessage ==
    ASSUME NEW x \in Ctl, x.asked >= 1
    PROVE  CommandOf(x) \in Command /\ CommandOf(x) \in Messages /\ CommandOf(x).size = CommandSize
    BY DEF CommandOf, Ctl, Command, Messages

LEMMA SameCase ==
    ASSUME NEW x, NEW x2, SameCommand(x, x2), NEW y, NEW u, NEW d, NEW e
    PROVE  /\ Idle(x2, y, u, d, e) <=> Idle(x, y, u, d, e)
           /\ Request(x2, y, u, d, e) <=> Request(x, y, u, d, e)
           /\ Answering(x2, y, u, d, e) <=> Answering(x, y, u, d, e)
PROOF
    <1>1. CommandOf(x2) = CommandOf(x)
        BY DEF CommandOf, SameCommand
    <1>2. Idle(x2, y, u, d, e) <=> Idle(x, y, u, d, e)
        BY DEF Idle, SameCommand
    <1>3. Request(x2, y, u, d, e) <=> Request(x, y, u, d, e)
        BY <1>1 DEF Request, SameCommand
    <1>4. \A m : Answers(x2, y, u, d, e, m) <=> Answers(x, y, u, d, e, m)
        BY DEF Answers, SameCommand
    <1> QED
        BY <1>2, <1>3, <1>4 DEF Answering

LEMMA MainMoves ==
    ASSUME NEW x, NEW y, NEW u, NEW d, NEW e, ClientOK(x, y, u, d, e),
           NEW x2 \in Ctl, SameCommand(x, x2),
           \/ x2.pc = x.pc
           \/ x2.pc \in FreeStates
           \/ x2.pc \in IdleStates /\ x.pc \in IdleStates
    PROVE  ClientOK(x2, y, u, d, e)
PROOF
    <1>1. /\ Idle(x2, y, u, d, e) <=> Idle(x, y, u, d, e)
          /\ Request(x2, y, u, d, e) <=> Request(x, y, u, d, e)
          /\ Answering(x2, y, u, d, e) <=> Answering(x, y, u, d, e)
        BY SameCase
    <1> QED
        BY <1>1 DEF ClientOK, SameCommand, FreeStates, IdleStates, Ended

\* A Client that is writing has something to write.
LEMMA WritingWrites ==
    ASSUME NEW x, NEW y, NEW u, NEW d, NEW e, ClientOK(x, y, u, d, e), y.mode = "writing"
    PROVE  \E m \in Response : Answers(x, y, u, d, e, m) /\ Writes(y.writer, m)
                                /\ y.writer # IdleWriter
PROOF
    <1>1. PICK m \in Response : Answers(x, y, u, d, e, m)
        BY DEF ClientOK, Idle, Request, Answering
    <1>2. Writes(y.writer, m)
        BY <1>1 DEF Answers
    <1>3. y.writer # IdleWriter
        BY <1>2, IdleWritesNot DEF Messages
    <1> QED
        BY <1>1, <1>2, <1>3

(***************************************************************************)
(* The connection is opened, accepted or closed.                           *)
(***************************************************************************)
LEMMA ModeChanges ==
    ASSUME NEW x, NEW y, NEW u, NEW d, NEW e, ClientOK(x, y, u, d, e),
           NEW y2 \in Conn, y2.writer = y.writer, y2.reader = y.reader,
           \/ y2.mode = "closed"
           \/ y2.mode # "writing" /\ y.mode \notin {"writing", "closed"}
           \/ y2.mode # "writing" /\ x.pc \in IdleStates
    PROVE  ClientOK(x, y2, u, d, e)
PROOF
    <1>0. y.mode = "writing" => y.writer # IdleWriter
        BY WritingWrites
    <1>1. Idle(x, y, u, d, e) <=> Idle(x, y2, u, d, e)
        BY <1>0 DEF ClientOK, Idle, IdleStates
    <1>2. Request(x, y, u, d, e) => Request(x, y2, u, d, e)
        BY DEF ClientOK, Request, Idle, IdleStates
    <1>3. ASSUME Answering(x, y, u, d, e), x.pc \notin IdleStates  PROVE Answering(x, y2, u, d, e)
        <2>1. PICK m \in Response : Answers(x, y, u, d, e, m)
            BY <1>3 DEF Answering
        <2>2. Answers(x, y2, u, d, e, m)
            BY <1>3, <2>1 DEF Answers
        <2> QED
            BY <2>2 DEF Answering
    <1> QED
        BY <1>1, <1>2, <1>3 DEF ClientOK, IdleStates

(***************************************************************************)
(* A command is typed.                                                     *)
(***************************************************************************)
LEMMA NewReaderIs ==
    /\ NewReader \in Reader
    /\ \A m \in Messages : Under(NewReader, <<>>, m)
    /\ Len(NewReader.buffer) = 0
PROOF
    <1>1. NewReader.buffer = <<>> /\ NewReader.size = NoSize /\ Len(NewReader.buffer) = 0
        BY DEF NewReader
    <1>2. NewReader \in Reader
        BY DEF NewReader, Reader, NoSize
    <1>3. ASSUME NEW m \in Messages  PROVE Under(NewReader, <<>>, m)
        <2>1. FrameSize(m) \in Nat \ {0} /\ HeaderSize \in Nat \ {0}
            BY MessageSize DEF FrameSize
        <2>2. Piece(<<>>, m, 0)
            BY <2>1, EmptyPiece
        <2> QED
            BY <1>1, <2>1, <2>2 DEF Under, Partial
    <1> QED
        BY <1>1, <1>2, <1>3

LEMMA NewWriterIs ==
    ASSUME NEW M \in SUBSET Messages, NEW m \in M
    PROVE  WriterOf(m) \in Writer(M) /\ Writes(WriterOf(m), m) /\ Sent(WriterOf(m)) = 0
PROOF
    <1>1. IdleWriter \in Writer(M)
        BY DEF IdleWriter, Writer
    <1>2. ~IdleWriter.sizeWritten /\ IdleWriter.bytesWritten = 0
        BY DEF IdleWriter
    <1>3. /\ WriterOf(m) \in Writer(M)
          /\ WriterOf(m).message = m
          /\ WriterOf(m).sizeWritten = IdleWriter.sizeWritten
          /\ WriterOf(m).bytesWritten = IdleWriter.bytesWritten
        BY <1>1 DEF WriterOf, Writer
    <1>4. m.size \in Nat \ {0}
        BY MessageSize
    <1> QED
        BY <1>2, <1>3, <1>4 DEF Writes, Sent

LEMMA CommandTyped ==
    ASSUME NEW x, NEW y, NEW u, NEW d, NEW e, ClientOK(x, y, u, d, e), x.pc = "prompt",
           x.asked < MaxCommands, NEW kind \in Kinds, NEW x2,
           x2 = [x EXCEPT !.pc = "send", !.kind = kind, !.asked = @ + 1,
                          !.writer = WriterOf([n |-> x.asked + 1, kind |-> kind,
                                               size |-> CommandSize])]
    PROVE  ClientOK(x2, y, u, d, e)
PROOF
    <1> DEFINE m == [n |-> x.asked + 1, kind |-> kind, size |-> CommandSize]
    <1>1. x \in Ctl /\ x.asked \in Nat /\ x.asked + 1 \in 1..MaxCommands /\ Idle(x, y, u, d, e)
        BY SizesAssumption DEF ClientOK, Ctl
    <1>2. m \in Command /\ m \in Messages
        BY <1>1 DEF Command, Messages
    <1>3. m.size = CommandSize /\ CommandSize \in Nat \ {0}
        BY SizesAssumption
    <1> HIDE DEF m
    <1>4. WriterOf(m) \in Writer(Command) /\ Writes(WriterOf(m), m) /\ Sent(WriterOf(m)) = 0
        BY <1>2, NewWriterIs DEF Messages
    <1>5. x2 = [x EXCEPT !.pc = "send", !.kind = kind, !.asked = @ + 1, !.writer = WriterOf(m)]
        BY DEF m
    <1>6. /\ x2 \in Ctl
          /\ x2.pc = "send" /\ x2.kind = kind /\ x2.asked = x.asked + 1
          /\ x2.writer = WriterOf(m) /\ x2.reader = x.reader
        <2>1. x.asked + 1 \in 0..MaxCommands /\ "send" \in CtlStates
            BY <1>1, SizesAssumption DEF CtlStates
        <2> QED
            BY <1>1, <1>4, <1>5, <2>1 DEF Ctl
    <1>7. CommandOf(x2) = m
        BY <1>6 DEF CommandOf, m
    <1>8. Under(y.reader, u, m) /\ Len(y.reader.buffer) + Len(u) = 0
        BY <1>1, <1>2, NewReaderIs DEF Idle
    <1>9. Request(x2, y, u, d, e)
        BY <1>1, <1>4, <1>6, <1>7, <1>8 DEF Request, Idle
    <1>10. x2.writer # IdleWriter
        BY <1>2, <1>4, <1>6, IdleWritesNot
    <1> QED
        BY <1>6, <1>9, <1>10 DEF ClientOK

(***************************************************************************)
(* A round of sendCommandToDaemon.                                         *)
(***************************************************************************)
LEMMA CommandSent ==
    ASSUME NEW x, NEW y, NEW u, NEW d, NEW e, ClientOK(x, y, u, d, e), x.pc = "send",
           NEW n \in Sendable(x.writer), NEW x2, NEW u2,
           u2 = u \o BytesSent(x.writer, n),
           x2 = [x EXCEPT !.writer = Written(@, n), !.reader = NewReader,
                          !.pc = IF WriteEnds(x.writer, n) THEN "await" ELSE @]
    PROVE  ClientOK(x2, y, u2, d, e)
PROOF
    <1> DEFINE m == CommandOf(x)
               w == x.writer
               w2 == Written(x.writer, n)
               bytes == BytesSent(x.writer, n)
    <1>1. /\ x \in Ctl /\ x.asked \in Nat /\ w \in Writer(Command)
          /\ Request(x, y, u, d, e) /\ w # IdleWriter
        BY DEF ClientOK, Ctl
    <1>2. m \in Command /\ m \in Messages /\ Command \in SUBSET Messages
        BY <1>1, CommandIsMessage DEF Request, Messages
    <1>3. /\ Writes(w, m) /\ Under(y.reader, u, m)
          /\ Len(y.reader.buffer) + Len(u) = Sent(w)
        BY <1>1 DEF Request
    <1> HIDE DEF m
    <1>4. /\ Piece(bytes, m, Sent(w))
          /\ w2 \in Writer(Command)
          /\ WriteEnds(w, n) => w2 = IdleWriter /\ Sent(w) + Len(bytes) = FrameSize(m)
          /\ ~WriteEnds(w, n) => Writes(w2, m) /\ Sent(w) + Len(bytes) = Sent(w2)
        BY <1>1, <1>2, <1>3, WriteIs
    <1> HIDE DEF bytes, w2
    <1>5. /\ Len(y.reader.buffer) \in Nat /\ Len(u) \in Nat /\ Len(bytes) \in Nat
          /\ Piece(u, m, Len(y.reader.buffer))
        BY <1>3, <1>4, LenProperties DEF Under, Partial, Piece
    <1>6. Piece(u2, m, Len(y.reader.buffer)) /\ Len(u2) = Len(u) + Len(bytes)
        <2> DEFINE start == Len(y.reader.buffer)
                   next == Sent(w)
        <2>1. u2 = u \o bytes
            BY DEF bytes
        <2>2. next = start + Len(u) /\ start \in Nat /\ Piece(u, m, start) /\ Piece(bytes, m, next)
            BY <1>3, <1>4, <1>5
        <2> HIDE DEF start, next
        <2>3. Piece(u2, m, start) /\ Len(u2) = Len(u) + Len(bytes)
            BY <1>2, <2>1, <2>2, PieceAppend
        <2> QED
            BY <2>3 DEF start
    <1>7. Len(y.reader.buffer) + Len(u2) = Sent(w) + Len(bytes)
        <2> DEFINE read == Len(y.reader.buffer)
                   old == Len(u)
                   new == Len(u2)
                   sent == Sent(w)
                   more == Len(bytes)
        <2>1. /\ read \in Nat /\ old \in Nat /\ more \in Nat
              /\ read + old = sent /\ new = old + more
            BY <1>3, <1>5, <1>6
        <2> HIDE DEF read, old, new, sent, more
        <2>2. read + new = sent + more
            BY <2>1
        <2> QED
            BY <2>2 DEF read, new, sent, more
    <1>8. /\ x2 \in Ctl /\ SameCommand([x EXCEPT !.writer = w2, !.reader = NewReader], x2)
          /\ x2.asked = x.asked /\ x2.kind = x.kind /\ x2.writer = w2 /\ x2.reader = NewReader
          /\ x2.pc = IF WriteEnds(w, n) THEN "await" ELSE "send"
        BY <1>1, <1>4, NewReaderIs DEF Ctl, CtlStates, SameCommand, w2
    <1>9. CommandOf(x2) = m
        BY <1>8 DEF CommandOf, m
    <1>10. Under(y.reader, u2, m)
        BY <1>3, <1>6 DEF Under
    <1>11. Request(x2, y, u2, d, e)
        BY <1>1, <1>4, <1>7, <1>8, <1>9, <1>10 DEF Request
    <1>12. ~Idle(x2, y, u2, d, e)
        BY <1>1, <1>8 DEF Idle, Request
    <1>13. ~WriteEnds(w, n) => w2 # IdleWriter
        BY <1>2, <1>4, IdleWritesNot
    <1>14. u2 \in Seq(Bytes)
        BY <1>6 DEF Piece
    <1>15. y \in Conn /\ d \in Seq(Bytes) /\ e \in Nat
        BY DEF ClientOK
    <1>16. CASE WriteEnds(w, n)
        BY <1>4, <1>8, <1>11, <1>12, <1>14, <1>15, <1>16 DEF ClientOK
    <1>17. CASE ~WriteEnds(w, n)
        BY <1>8, <1>11, <1>13, <1>14, <1>15, <1>17 DEF ClientOK
    <1> QED
        BY <1>16, <1>17

(***************************************************************************)
(* A round of awaitDaemonResponse: some bytes come, of the response to the *)
(* command that was sent.                                                  *)
(***************************************************************************)
LEMMA AwaitsAnswer ==
    ASSUME NEW x, NEW y, NEW u, NEW d, NEW e, ClientOK(x, y, u, d, e), x.pc = "await",
           NEW n \in Recv(d)
    PROVE  \E m \in Response : Answers(x, y, u, d, e, m)
PROOF
    <1>1. d # <<>>
        <2>1. Recv(<<>>) = {}
            BY FramingAssumption DEF Recv, Smaller
        <2> QED
            BY <2>1
    <1> QED
        BY <1>1 DEF ClientOK, Request, Answering, Idle

LEMMA AnswerGrows ==
    ASSUME NEW x, NEW y, NEW u, NEW d, NEW e, ClientOK(x, y, u, d, e), x.pc = "await",
           NEW n \in Recv(d), NEW q, q = Received(x.reader, SubSeq(d, 1, n)), ~Complete(q),
           NEW x2, x2 = [x EXCEPT !.reader = q], NEW d2, d2 = Drop(d, n)
    PROVE  ClientOK(x2, y, u, d2, e)
PROOF
    <1>1. PICK m \in Response : Answers(x, y, u, d, e, m)
        BY AwaitsAnswer
    <1>2. m \in Messages /\ x \in Ctl /\ x.reader \in Reader /\ Under(x.reader, d, m)
        BY <1>1 DEF Messages, ClientOK, Ctl, Answers
    <1>3. /\ q \in Reader
          /\ Piece(q.buffer, m, 0)
          /\ Piece(d2, m, Len(q.buffer))
          /\ Len(q.buffer) + Len(d2) = Len(x.reader.buffer) + Len(d)
          /\ q.size = IF Len(q.buffer) >= HeaderSize THEN m.size ELSE NoSize
        BY <1>2, ReceivedIs
    <1>4. Under(q, d2, m)
        BY <1>2, <1>3, CompleteIs DEF Under
    <1>5. /\ x2 \in Ctl /\ x2.pc = x.pc /\ x2.reader = q /\ x2.asked = x.asked
          /\ x2.writer = x.writer
        BY <1>2, <1>3 DEF Ctl
    <1>6. Answers(x2, y, u, d2, e, m)
        BY <1>1, <1>3, <1>4, <1>5 DEF Answers
    <1>7. ~Idle(x2, y, u, d2, e)
        <2>1. Len(x2.reader.buffer) # 0
            <3>1. Len(x.reader.buffer) \in Nat /\ Len(d) \in Nat /\ Len(d2) \in Nat
                BY <1>2, <1>3, LenProperties DEF Under, Partial, Piece
            <3>2. n \in 1..Len(d) /\ Len(d2) = Len(d) - n
                <4>1. n \in 1..Len(d)
                    BY <3>1, FramingAssumption DEF Recv, Smaller
                <4>2. n \in 0..Len(d) /\ Len(x.reader.buffer) + n = Len(x.reader.buffer) + n
                    BY <3>1, <4>1
                <4>3. Piece(d, m, Len(x.reader.buffer))
                    BY <1>2 DEF Under
                <4> QED
                    BY <1>2, <3>1, <4>1, <4>2, <4>3, PieceTail
            <3> QED
                BY <1>3, <1>5, <3>1, <3>2
        <2> QED
            BY <2>1, NewReaderIs DEF Idle
    <1>8. d2 \in Seq(Bytes)
        BY <1>3 DEF Piece
    <1>9. Answering(x2, y, u, d2, e)
        BY <1>6 DEF Answering
    <1> QED
        BY <1>5, <1>7, <1>8, <1>9 DEF ClientOK

Taken(x, q, pc) == [x EXCEPT !.reader = Erased(q), !.answered = Message(q).n, !.pc = pc]

LEMMA AnswerEnds ==
    ASSUME NEW x, NEW y, NEW u, NEW d, NEW e, ClientOK(x, y, u, d, e), x.pc = "await",
           NEW n \in Recv(d), NEW q, q = Received(x.reader, SubSeq(d, 1, n)), Complete(q)
    PROVE  /\ Parses(q)
           /\ Message(q) \in Response
           /\ Message(q).n = x.asked
           /\ e = x.asked
           /\ \A pc \in {"prompt", "succeeded"} : ClientOK(Taken(x, q, pc), y, u, Drop(d, n), e)
PROOF
    <1> DEFINE d2 == Drop(d, n)
    <1>1. PICK m \in Response : Answers(x, y, u, d, e, m)
        BY AwaitsAnswer
    <1>2. m \in Messages /\ x \in Ctl /\ x.reader \in Reader /\ Under(x.reader, d, m)
        BY <1>1 DEF Messages, ClientOK, Ctl, Answers
    <1>3. /\ q \in Reader
          /\ Piece(q.buffer, m, 0)
          /\ Piece(d2, m, Len(q.buffer))
          /\ Len(q.buffer) + Len(d2) = Len(x.reader.buffer) + Len(d)
          /\ q.size = IF Len(q.buffer) >= HeaderSize THEN m.size ELSE NoSize
        BY <1>2, ReceivedIs
    <1> HIDE DEF d2
    <1>4. Len(q.buffer) = FrameSize(m) /\ Parses(q) /\ Message(q) = m /\ Erased(q) = NewReader
        BY <1>2, <1>3, CompleteIs
    <1>5. m.n = x.asked /\ e = x.asked /\ x.asked \in 0..MaxCommands
        BY <1>1, <1>2 DEF Answers, Ctl
    <1>6. FrameSize(m) \in Nat /\ Len(d2) \in Nat /\ d2 \in Seq(Bytes)
        BY <1>2, <1>3, MessageSize, LenProperties DEF Piece
    <1>7. d2 = <<>>
        <2>1. Len(d2) = 0
            BY <1>3, <1>4, <1>6 DEF Piece
        <2> QED
            BY <1>6, <2>1, EmptySeq
    <1>8. y.writer = IdleWriter /\ y.mode # "writing"
        <2>1. Len(x.reader.buffer) + Len(d) = FrameSize(m)
            <3>1. Len(q.buffer) + Len(d2) = FrameSize(m)
                BY <1>4, <1>6, <1>7
            <3> QED
                BY <1>3, <3>1
        <2>2. ASSUME Writes(y.writer, m), Len(x.reader.buffer) + Len(d) = Sent(y.writer)
              PROVE  FALSE
            <3>1. y.writer \in Writer(Response) /\ y.writer.bytesWritten \in Nat
                BY DEF ClientOK, Conn, Writer
            <3>2. m.size \in Nat \ {0} /\ HeaderSize \in Nat \ {0} /\ y.writer.bytesWritten < m.size
                BY <1>2, <2>2, MessageSize DEF Writes
            <3>3. Sent(y.writer) < FrameSize(m)
                BY <3>1, <3>2 DEF Sent, FrameSize
            <3>4. Sent(y.writer) = FrameSize(m)
                BY <2>1, <2>2
            <3> QED
                BY <1>6, <3>3, <3>4
        <2> QED
            BY <1>1, <2>2 DEF Answers
    <1>9. ASSUME NEW x2, NEW pc \in {"prompt", "succeeded"}, x2 = Taken(x, q, pc)
          PROVE  ClientOK(x2, y, u, d2, e)
        <2>1. /\ x2 \in Ctl /\ x2.pc = pc /\ x2.reader = NewReader /\ x2.asked = x.asked
              /\ x2.writer = x.writer
            BY <1>2, <1>4, <1>5, <1>9, NewReaderIs DEF Ctl, CtlStates, Taken
        <2>2. Idle(x2, y, u, d2, e)
            BY <1>1, <1>7, <1>8, <2>1 DEF Idle, Answers
        <2>3. y \in Conn /\ u \in Seq(Bytes) /\ e \in Nat
            BY DEF ClientOK
        <2> QED
            BY <1>6, <1>9, <2>1, <2>2, <2>3 DEF ClientOK
    <1> QED
        BY <1>4, <1>5, <1>9 DEF d2

(***************************************************************************)
(* Client::handleRead.                                                     *)
(***************************************************************************)
LEMMA ReadsRequest ==
    ASSUME NEW x, NEW y, NEW u, NEW d, NEW e, ClientOK(x, y, u, d, e), NEW n \in Recv(u)
    PROVE  Request(x, y, u, d, e)
PROOF
    <1>1. u # <<>>
        <2>1. Recv(<<>>) = {}
            BY FramingAssumption DEF Recv, Smaller
        <2> QED
            BY <2>1
    <1> QED
        BY <1>1 DEF ClientOK, Answering, Answers, Idle

LEMMA RequestGrows ==
    ASSUME NEW x, NEW y, NEW u, NEW d, NEW e, ClientOK(x, y, u, d, e), NEW n \in Recv(u),
           NEW q, q = Received(y.reader, SubSeq(u, 1, n)), ~Complete(q),
           NEW y2, y2 = [y EXCEPT !.reader = q], NEW u2, u2 = Drop(u, n)
    PROVE  ClientOK(x, y2, u2, d, e)
PROOF
    <1> DEFINE m == CommandOf(x)
    <1>1. Request(x, y, u, d, e) /\ x \in Ctl /\ x.asked \in Nat
        BY ReadsRequest DEF ClientOK, Ctl
    <1>2. m \in Messages /\ y \in Conn /\ y.reader \in Reader /\ Under(y.reader, u, m)
        BY <1>1, CommandIsMessage DEF ClientOK, Conn, Request
    <1> HIDE DEF m
    <1>3. /\ q \in Reader
          /\ Piece(q.buffer, m, 0)
          /\ Piece(u2, m, Len(q.buffer))
          /\ Len(q.buffer) + Len(u2) = Len(y.reader.buffer) + Len(u)
          /\ q.size = IF Len(q.buffer) >= HeaderSize THEN m.size ELSE NoSize
        BY <1>2, ReceivedIs
    <1>4. Under(q, u2, m)
        BY <1>2, <1>3, CompleteIs DEF Under
    <1>5. y2 \in Conn /\ y2.mode = y.mode /\ y2.reader = q /\ y2.writer = y.writer
        BY <1>2, <1>3 DEF Conn
    <1>6. Request(x, y2, u2, d, e)
        BY <1>1, <1>3, <1>4, <1>5 DEF Request, m
    <1>7. ~Idle(x, y2, u2, d, e)
        BY <1>1 DEF Idle, Request
    <1>8. u2 \in Seq(Bytes)
        BY <1>3 DEF Piece
    <1>9. x.pc \notin IdleStates
        BY <1>1 DEF ClientOK, IdleStates, Idle, Request
    <1> QED
        BY <1>5, <1>6, <1>7, <1>8, <1>9 DEF ClientOK, IdleStates

Executing(y, q, response) == [y EXCEPT !.mode = "writing", !.kind = Message(q).kind,
                                       !.reader = Erased(q), !.writer = WriterOf(response)]

LEMMA RequestEnds ==
    ASSUME NEW x, NEW y, NEW u, NEW d, NEW e, ClientOK(x, y, u, d, e), NEW n \in Recv(u),
           NEW q, q = Received(y.reader, SubSeq(u, 1, n)), Complete(q)
    PROVE  /\ Parses(q)
           /\ Message(q) = CommandOf(x)
           /\ e < x.asked
           /\ \A response \in OnCommand(Message(q)) :
                ClientOK(x, Executing(y, q, response), Drop(u, n), d, e + 1)
PROOF
    <1> DEFINE m == CommandOf(x)
               u2 == Drop(u, n)
    <1>1. Request(x, y, u, d, e) /\ x \in Ctl /\ x.asked \in Nat /\ e = x.asked - 1
        BY ReadsRequest DEF ClientOK, Ctl, Request
    <1>2. m \in Messages /\ y \in Conn /\ y.reader \in Reader /\ Under(y.reader, u, m)
        BY <1>1, CommandIsMessage DEF ClientOK, Conn, Request
    <1>a. m.n = x.asked /\ m.kind = x.kind /\ x.kind \in Kinds
        BY <1>1 DEF CommandOf, Ctl
    <1> HIDE DEF m
    <1>3. /\ q \in Reader
          /\ Piece(q.buffer, m, 0)
          /\ Piece(u2, m, Len(q.buffer))
          /\ Len(q.buffer) + Len(u2) = Len(y.reader.buffer) + Len(u)
          /\ q.size = IF Len(q.buffer) >= HeaderSize THEN m.size ELSE NoSize
        BY <1>2, ReceivedIs
    <1> HIDE DEF u2
    <1>4. Len(q.buffer) = FrameSize(m) /\ Parses(q) /\ Message(q) = m /\ Erased(q) = NewReader
        BY <1>2, <1>3, CompleteIs
    <1>5. FrameSize(m) \in Nat /\ Len(u2) \in Nat /\ u2 \in Seq(Bytes)
        BY <1>2, <1>3, MessageSize, LenProperties DEF Piece
    <1>6. u2 = <<>>
        <2>1. Len(u2) = 0
            BY <1>3, <1>4, <1>5 DEF Piece
        <2> QED
            BY <1>5, <2>1, EmptySeq
    <1>7. x.writer = IdleWriter
        <2>1. Len(y.reader.buffer) + Len(u) = FrameSize(m)
            <3>1. Len(q.buffer) + Len(u2) = FrameSize(m)
                BY <1>4, <1>5, <1>6
            <3> QED
                BY <1>3, <3>1
        <2>2. ASSUME Writes(x.writer, m), Len(y.reader.buffer) + Len(u) = Sent(x.writer)
              PROVE  FALSE
            <3>1. x.writer \in Writer(Command) /\ x.writer.bytesWritten \in Nat
                BY DEF ClientOK, Ctl, Writer
            <3>2. m.size \in Nat \ {0} /\ HeaderSize \in Nat \ {0} /\ x.writer.bytesWritten < m.size
                BY <1>2, <2>2, MessageSize DEF Writes
            <3>3. Sent(x.writer) < FrameSize(m)
                BY <3>1, <3>2 DEF Sent, FrameSize
            <3>4. Sent(x.writer) = FrameSize(m)
                BY <2>1, <2>2
            <3> QED
                BY <1>5, <3>3, <3>4
        <2> QED
            BY <1>1, <2>2 DEF Request, m
    <1>8. ASSUME NEW y2, NEW response \in OnCommand(Message(q)), y2 = Executing(y, q, response)
          PROVE  ClientOK(x, y2, u2, d, e + 1)
        <2>1. response \in Response /\ response \in Messages /\ response.n = x.asked
            BY <1>4, <1>a DEF OnCommand, Messages
        <2>2. /\ WriterOf(response) \in Writer(Response)
              /\ Writes(WriterOf(response), response)
              /\ Sent(WriterOf(response)) = 0
            BY <2>1, NewWriterIs DEF Messages
        <2>3. /\ y2 \in Conn /\ y2.mode = "writing" /\ y2.reader = NewReader
              /\ y2.writer = WriterOf(response)
            BY <1>2, <1>4, <1>a, <1>8, <2>2, NewReaderIs DEF Conn, ConnStates, Executing
        <2>4. x.reader = NewReader /\ d = <<>>
            BY <1>1 DEF Request
        <2>5. Under(x.reader, d, response) /\ Len(x.reader.buffer) + Len(d) = 0
            BY <2>1, <2>4, NewReaderIs
        <2>6. Answers(x, y2, u2, d, e + 1, response)
            BY <1>1, <1>6, <1>7, <2>1, <2>2, <2>3, <2>5 DEF Answers
        <2>7. ~Idle(x, y2, u2, d, e + 1)
            BY <2>3 DEF Idle
        <2>8. x.pc \notin IdleStates /\ x.pc # "send"
            BY <1>1, <1>7 DEF ClientOK, IdleStates, Idle, Request
        <2>9. d \in Seq(Bytes) /\ e + 1 \in Nat
            BY <1>1 DEF ClientOK
        <2> QED
            BY <1>1, <1>5, <1>7, <2>1, <2>3, <2>6, <2>7, <2>8, <2>9
               DEF ClientOK, IdleStates, Answering
    <1>9. e < x.asked
        BY <1>1
    <1> QED
        BY <1>4, <1>8, <1>9 DEF u2, m

(***************************************************************************)
(* Client::handleWrite.                                                    *)
(***************************************************************************)
LEMMA AnswerSent ==
    ASSUME NEW x, NEW y, NEW u, NEW d, NEW e, ClientOK(x, y, u, d, e), y.mode = "writing",
           NEW n \in Sendable(y.writer), NEW d2, d2 = d \o BytesSent(y.writer, n),
           NEW y2, y2 = [y EXCEPT !.writer = Written(@, n),
                                  !.mode = IF WriteEnds(y.writer, n) THEN "reading" ELSE @]
    PROVE  ClientOK(x, y2, u, d2, e)
PROOF
    <1> DEFINE w == y.writer
               w2 == Written(y.writer, n)
               bytes == BytesSent(y.writer, n)
    <1>1. PICK m \in Response : Answers(x, y, u, d, e, m) /\ Writes(w, m) /\ w # IdleWriter
        BY WritingWrites
    <1>2. /\ m \in Messages /\ Response \in SUBSET Messages
          /\ x \in Ctl /\ y \in Conn /\ w \in Writer(Response)
        BY DEF ClientOK, Conn, Messages
    <1>3. Under(x.reader, d, m) /\ Len(x.reader.buffer) + Len(d) = Sent(w)
        BY <1>1 DEF Answers
    <1>4. /\ Piece(bytes, m, Sent(w))
          /\ w2 \in Writer(Response)
          /\ WriteEnds(w, n) => w2 = IdleWriter /\ Sent(w) + Len(bytes) = FrameSize(m)
          /\ ~WriteEnds(w, n) => Writes(w2, m) /\ Sent(w) + Len(bytes) = Sent(w2)
        BY <1>1, <1>2, WriteIs
    <1> HIDE DEF bytes, w2
    <1>5. /\ Len(x.reader.buffer) \in Nat /\ Len(d) \in Nat /\ Len(bytes) \in Nat
          /\ Piece(d, m, Len(x.reader.buffer))
        BY <1>3, <1>4, LenProperties DEF Under, Partial, Piece
    <1>6. /\ Piece(d2, m, Len(x.reader.buffer))
          /\ Len(x.reader.buffer) + Len(d2) = Sent(w) + Len(bytes)
        <2> DEFINE start == Len(x.reader.buffer)
                   next == Sent(w)
                   old == Len(d)
                   new == Len(d2)
                   more == Len(bytes)
        <2>1. d2 = d \o bytes
            BY DEF bytes
        <2>2. /\ next = start + Len(d) /\ start \in Nat
              /\ Piece(d, m, start) /\ Piece(bytes, m, next)
            BY <1>3, <1>4, <1>5
        <2>3. old \in Nat /\ more \in Nat /\ old = Len(d)
            BY <1>5
        <2> HIDE DEF start, next
        <2>4. Piece(d2, m, start) /\ Len(d2) = Len(d) + Len(bytes)
            BY <1>2, <2>1, <2>2, PieceAppend
        <2>5. new = old + more /\ next = start + old
            BY <2>2, <2>4
        <2> HIDE DEF old, new, more
        <2>6. start + new = next + more
            BY <2>2, <2>3, <2>5
        <2> QED
            BY <2>4, <2>6 DEF start, new, next, more
    <1>7. y2 \in Conn /\ y2.reader = y.reader /\ y2.writer = w2
          /\ y2.mode = IF WriteEnds(w, n) THEN "reading" ELSE "writing"
        BY <1>2, <1>4 DEF Conn, ConnStates, w2
    <1>8. Under(x.reader, d2, m)
        BY <1>3, <1>6 DEF Under
    <1>9. Answers(x, y2, u, d2, e, m)
        <2>1. CASE WriteEnds(w, n)
            <3>1. Len(x.reader.buffer) + Len(d2) = FrameSize(m)
                BY <1>4, <1>6, <2>1
            <3>2. y2.writer = IdleWriter /\ y2.mode = "reading"
                BY <1>4, <1>7, <2>1
            <3> QED
                BY <1>1, <1>7, <1>8, <3>1, <3>2 DEF Answers
        <2>2. CASE ~WriteEnds(w, n)
            <3>1. Len(x.reader.buffer) + Len(d2) = Sent(w2)
                BY <1>4, <1>6, <2>2
            <3>2. y2.writer = w2 /\ Writes(w2, m) /\ y2.mode = "writing"
                BY <1>4, <1>7, <2>2
            <3> QED
                BY <1>1, <1>7, <1>8, <3>1, <3>2 DEF Answers
        <2> QED
            BY <2>1, <2>2
    <1>10. ~Idle(x, y2, u, d2, e)
        <2>1. d2 # <<>> \/ x.reader # NewReader
            <3>1. ASSUME Len(x.reader.buffer) + Len(d2) = 0  PROVE FALSE
                <4>1. Sent(w) + Len(bytes) = 0
                    BY <1>6, <3>1
                <4>2. w.bytesWritten \in Nat /\ w.sizeWritten \in BOOLEAN /\ Sent(w) \in Nat
                    BY <1>2, FramingAssumption DEF Writer, Sent
                <4>3. Sent(w) = 0 /\ Len(bytes) = 0
                    BY <1>5, <4>1, <4>2
                <4>4. ~w.sizeWritten /\ ~WriteEnds(w, n)
                    BY <4>2, <4>3, FramingAssumption DEF Sent, WriteEnds
                <4>5. w2.sizeWritten
                    BY <1>2, <4>4 DEF w2, Written, Writer
                <4>6. w2.bytesWritten \in Nat /\ Sent(w2) = 0
                    BY <1>4, <4>1, <4>4 DEF Writer
                <4> QED
                    BY <4>5, <4>6, FramingAssumption DEF Sent
            <3>2. ASSUME d2 = <<>>, x.reader = NewReader
                  PROVE  Len(x.reader.buffer) + Len(d2) = 0
                <4>1. Len(x.reader.buffer) = 0 /\ Len(d2) = 0
                    BY <3>2, NewReaderIs, EmptySeq
                <4> QED
                    BY <4>1
            <3> QED
                BY <3>1, <3>2
        <2> QED
            BY <2>1 DEF Idle
    <1>11. x.pc \notin IdleStates /\ x.pc # "send"
        BY <1>1 DEF ClientOK, IdleStates, Idle, Request
    <1>12. x.writer = IdleWriter /\ u \in Seq(Bytes) /\ d2 \in Seq(Bytes) /\ e \in Nat
        BY <1>1, <1>6 DEF ClientOK, Answers, Piece
    <1> QED
        BY <1>2, <1>7, <1>9, <1>10, <1>11, <1>12 DEF ClientOK, IdleStates, Answering

----------------------------------------------------------------------------
(***************************************************************************)
(* The loop of main keeps its types, and an event is due only for clients. *)
(***************************************************************************)
LEMMA CallbackLoop ==
    ASSUME LoopTypeOK, due \subseteq Clients, NEW c, NEW t, Callback(c, t)
    PROVE  LoopTypeOK' /\ due' \subseteq Clients
    BY DEF LoopTypeOK, Callback, States, Places

LEMMA SignalLoop ==
    ASSUME LoopTypeOK, due \subseteq Clients, NEW signum, SignalHandler(signum)
    PROVE  LoopTypeOK' /\ due' \subseteq Clients
PROOF
    <1>1. signals' \in 0..MaxSignals
        BY SignalsAssumption DEF LoopTypeOK, SignalHandler
    <1>2. g_state' \in States /\ at' \in Places /\ due' \subseteq Clients
        BY DEF LoopTypeOK, SignalHandler, States, Places
    <1>3. lost' \in BOOLEAN /\ slipped' \in BOOLEAN
        BY DEF SignalHandler
    <1> QED
        BY <1>1, <1>2, <1>3 DEF LoopTypeOK

LEMMA MainLoopSteps ==
    ASSUME LoopTypeOK, due \subseteq Clients,
           Switch \/ EpollWait \/ EndBatch \/ FinishReload \/ LeaveLoop \/ ThrowOut
    PROVE  LoopTypeOK' /\ due' \subseteq Clients
PROOF
    <1>1. signals' = signals /\ due' = due /\ slipped' = slipped
        BY DEF Switch, EpollWait, EndBatch, FinishReload, LeaveLoop, ThrowOut
    <1>2. g_state' \in States /\ at' \in Places
        BY DEF LoopTypeOK, Switch, EpollWait, EndBatch, FinishReload, LeaveLoop, ThrowOut,
               States, Places
    <1>3. lost' \in BOOLEAN
        BY DEF LoopTypeOK, Switch, EpollWait, EndBatch, FinishReload, LeaveLoop, ThrowOut
    <1> QED
        BY <1>1, <1>2, <1>3 DEF LoopTypeOK

LEMMA WakeLoop ==
    ASSUME LoopTypeOK, NEW ready \in SUBSET Clients, WakeUp(ready)
    PROVE  LoopTypeOK' /\ due' \subseteq Clients
    BY DEF LoopTypeOK, WakeUp, Places

----------------------------------------------------------------------------
(***************************************************************************)
(* The refinement, for one client: what a step of it means to Rpc.         *)
(***************************************************************************)
CallOf(x) == CASE x.pc \in IdleStates -> "idle"
               [] x.pc \in {"send", "await"} -> "calling"
               [] x.pc \in FreeStates -> "left"

Stays(x, e, x2, e2) == /\ CallOf(x2) = CallOf(x) /\ e2 = e
                       /\ x2.asked = x.asked /\ x2.answered = x.answered

Asks(x, e, x2, e2) == /\ CallOf(x) = "idle" /\ CallOf(x2) = "calling" /\ e2 = e
                      /\ x2.asked = x.asked + 1 /\ x2.answered = x.answered

Executes(x, e, x2, e2) == e < x.asked /\ e2 = e + 1 /\ x2 = x

GetsAnswer(x, e, x2, e2) == /\ CallOf(x) = "calling" /\ CallOf(x2) = "idle"
                            /\ e = x.asked /\ e2 = e
                            /\ x2.asked = x.asked /\ x2.answered = x.asked

Leaves(x, e, x2, e2) == /\ CallOf(x) # "left" /\ CallOf(x2) = "left" /\ e2 = e
                        /\ x2.asked = x.asked /\ x2.answered = x.answered

RpcStep(x, e, x2, e2) == \/ Stays(x, e, x2, e2) \/ Asks(x, e, x2, e2)
                         \/ Executes(x, e, x2, e2) \/ GetsAnswer(x, e, x2, e2)
                         \/ Leaves(x, e, x2, e2)

LEMMA CallOfIs ==
    ASSUME NEW x
    PROVE  /\ x.pc \in IdleStates => CallOf(x) = "idle"
           /\ x.pc \in {"send", "await"} => CallOf(x) = "calling"
           /\ x.pc \in FreeStates => CallOf(x) = "left"
    BY DEF CallOf, IdleStates, FreeStates, Ended

LEMMA CallStateIs ==
    ASSUME NEW c \in Clients
    PROVE  CallState(c) = CallOf(ctl[c]) /\ CallState(c)' = CallOf(ctl'[c])
    BY DEF CallState, CallOf, IdleStates, FreeStates

(***************************************************************************)
(* The step changes the functions at c only.                               *)
(***************************************************************************)
OnlyAt(f, g, c) == Fun(g) /\ \A b \in Clients : b # c => g[b] = f[b]

AtClient(c) == /\ OnlyAt(ctl, ctl', c) /\ OnlyAt(conn, conn', c) /\ OnlyAt(up, up', c)
               /\ OnlyAt(down, down', c) /\ OnlyAt(executed, executed', c)

LEMMA ExceptIsOnlyAt ==
    ASSUME NEW f, Fun(f), NEW c \in Clients, NEW v
    PROVE  OnlyAt(f, [f EXCEPT ![c] = v], c) /\ [f EXCEPT ![c] = v][c] = v
    BY DEF Fun, OnlyAt

LEMMA SameIsOnlyAt ==
    ASSUME NEW f, Fun(f), NEW g, g = f, NEW c
    PROVE  OnlyAt(f, g, c)
    BY DEF OnlyAt

LEMMA RpcStepImplements ==
    ASSUME NEW c \in Clients, OnlyAt(ctl, ctl', c), OnlyAt(executed, executed', c), Fun(executed),
           RpcStep(ctl[c], executed[c], ctl'[c], executed'[c])
    PROVE  [R!Next]_R!vars
PROOF
    <1> DEFINE x == ctl[c]
               x2 == ctl'[c]
               e == executed[c]
               e2 == executed'[c]
    <1>1. \A b \in Clients : /\ CallState(b) = CallOf(ctl[b]) /\ CallState(b)' = CallOf(ctl'[b])
                             /\ b # c => ctl'[b] = ctl[b] /\ executed'[b] = executed[b]
        BY CallStateIs DEF OnlyAt
    <1>2. Fun(executed) /\ Fun(executed')
        BY DEF OnlyAt
    <1>3. CASE Stays(x, e, x2, e2)
        <2>1. UNCHANGED R!vars
            <3>1. executed' = executed
                BY <1>1, <1>2, <1>3 DEF Fun, Stays
            <3>2. \A b \in Clients : /\ CallState(b)' = CallState(b)
                                     /\ ctl'[b].asked = ctl[b].asked
                                     /\ ctl'[b].answered = ctl[b].answered
                BY <1>1, <1>3 DEF Stays
            <3> QED
                BY <3>1, <3>2 DEF R!vars
        <2> QED
            BY <2>1
    <1>4. CASE Asks(x, e, x2, e2)
        <2>1. R!Ask(c)
            <3>1. executed' = executed
                BY <1>1, <1>2, <1>4 DEF Fun, Asks
            <3> QED
                BY <1>1, <1>4, <3>1 DEF R!Ask, Asks
        <2> QED
            BY <2>1 DEF R!Next
    <1>5. CASE Executes(x, e, x2, e2)
        <2>1. R!Execute(c)
            <3>1. executed' = [executed EXCEPT ![c] = @ + 1]
                BY <1>1, <1>2, <1>5 DEF Fun, Executes
            <3> QED
                BY <1>1, <1>5, <3>1 DEF R!Execute, Executes
        <2> QED
            BY <2>1 DEF R!Next
    <1>6. CASE GetsAnswer(x, e, x2, e2)
        <2>1. R!Answer(c)
            <3>1. executed' = executed
                BY <1>1, <1>2, <1>6 DEF Fun, GetsAnswer
            <3> QED
                BY <1>1, <1>6, <3>1 DEF R!Answer, GetsAnswer
        <2> QED
            BY <2>1 DEF R!Next
    <1>7. CASE Leaves(x, e, x2, e2)
        <2>1. R!Leave(c)
            <3>1. executed' = executed
                BY <1>1, <1>2, <1>7 DEF Fun, Leaves
            <3> QED
                BY <1>1, <1>7, <3>1 DEF R!Leave, Leaves
        <2> QED
            BY <2>1 DEF R!Next
    <1> QED
        BY <1>3, <1>4, <1>5, <1>6, <1>7 DEF RpcStep

(***************************************************************************)
(* A step of one client keeps the invariant and implements Rpc.            *)
(***************************************************************************)
Right == IpcInv' /\ [R!Next]_R!vars

LEMMA ClientMoves ==
    ASSUME IpcInv, NEW c \in Clients, AtClient(c), LoopTypeOK', due' \subseteq Clients,
           ClientOK(ctl'[c], conn'[c], up'[c], down'[c], executed'[c]),
           RpcStep(ctl[c], executed[c], ctl'[c], executed'[c])
    PROVE  Right
PROOF
    <1>1. [R!Next]_R!vars
        BY RpcStepImplements DEF IpcInv, AtClient
    <1>2. \A b \in Clients : ClientOK(ctl'[b], conn'[b], up'[b], down'[b], executed'[b])
        BY DEF IpcInv, AtClient, OnlyAt
    <1>3. /\ Fun(ctl') /\ Fun(conn') /\ Fun(up') /\ Fun(down') /\ Fun(executed')
        BY DEF AtClient, OnlyAt
    <1>4. IpcInv'
        BY <1>2, <1>3 DEF IpcInv, Fun, ClientOK, Idle, Request, Answering, Answers
    <1> QED
        BY <1>1, <1>4 DEF Right

(***************************************************************************)
(* The two threads of taskmasterctl, where they leave the messages alone.  *)
(***************************************************************************)
LEMMA ThreadMoves ==
    ASSUME IpcInv, NEW c \in Clients, UNCHANGED <<conn, up, down, executed, loop>>,
           NEW x2 \in Ctl, ctl' = [ctl EXCEPT ![c] = x2], SameCommand(ctl[c], x2),
           x2.answered = ctl[c].answered,
           \/ x2.pc = ctl[c].pc
           \/ x2.pc \in FreeStates
           \/ x2.pc \in IdleStates /\ ctl[c].pc \in IdleStates
    PROVE  Right
PROOF
    <1> DEFINE x == ctl[c]
    <1>1. ctl'[c] = x2 /\ AtClient(c)
        BY ExceptIsOnlyAt, SameIsOnlyAt DEF IpcInv, AtClient
    <1>2. ClientOK(x, conn[c], up[c], down[c], executed[c])
        BY DEF IpcInv
    <1>3. ClientOK(x2, conn[c], up[c], down[c], executed[c])
        BY <1>2, MainMoves
    <1>4. RpcStep(x, executed[c], x2, executed[c])
        <2>1. x2.pc = x.pc => CallOf(x2) = CallOf(x)
            BY DEF CallOf
        <2>2. x2.pc \in FreeStates => CallOf(x2) = "left"
            BY DEF CallOf, FreeStates, IdleStates, Ended
        <2>3. x2.pc \in IdleStates /\ x.pc \in IdleStates => CallOf(x2) = CallOf(x)
            BY DEF CallOf, FreeStates, IdleStates, Ended
        <2> QED
            BY <2>1, <2>2, <2>3 DEF RpcStep, Stays, Leaves, SameCommand
    <1>5. LoopTypeOK' /\ due' \subseteq Clients
        BY DEF IpcInv, LoopTypeOK, loop
    <1> QED
        BY <1>1, <1>3, <1>4, <1>5, ClientMoves

LEMMA ThreadStep ==
    ASSUME IpcInv, NEW c \in Clients,
           \/ LeavePrompt(c) \/ Interrupt(c) \/ AwaitReset(c) \/ TellChecker(c) \/ Join(c)
           \/ SeeHangup(c) \/ RaiseOrReturn(c) \/ Raise(c) \/ StopWatching(c)
           \/ WatchInterrupted(c)
    PROVE  Right
PROOF
    <1> DEFINE x == ctl[c]
    <1>0. x \in Ctl
        BY DEF IpcInv, ClientOK
    <1>1. UNCHANGED <<conn, up, down, executed, loop>>
        BY DEF LeavePrompt, Interrupt, AwaitReset, TellChecker, Join, SeeHangup, RaiseOrReturn,
               Raise, StopWatching, WatchInterrupted
    <1>2. CASE LeavePrompt(c) \/ Interrupt(c) \/ AwaitReset(c) \/ Raise(c)
        <2>1. PICK pc \in {"exit0", "killed", "failed"} : ctl' = [ctl EXCEPT ![c].pc = pc]
            BY <1>2 DEF LeavePrompt, Interrupt, AwaitReset, Raise, Fail
        <2> DEFINE x2 == [x EXCEPT !.pc = pc]
        <2>2. ctl' = [ctl EXCEPT ![c] = x2]
            BY <2>1
        <2>3. x2 \in Ctl /\ SameCommand(x, x2) /\ x2.answered = x.answered /\ x2.pc \in FreeStates
            BY <1>0 DEF Ctl, CtlStates, SameCommand, FreeStates, Ended
        <2> QED
            BY <1>1, <2>2, <2>3, ThreadMoves
    <1>3. CASE TellChecker(c)
        <2> DEFINE x2 == [x EXCEPT !.pc = IF @ = "succeeded" THEN "join0" ELSE "join1",
                                   !.exitChecker = TRUE]
        <2>1. ctl' = [ctl EXCEPT ![c] = x2]
            BY <1>3 DEF TellChecker
        <2>2. x2 \in Ctl /\ SameCommand(x, x2) /\ x2.answered = x.answered
            BY <1>0 DEF Ctl, CtlStates, SameCommand
        <2>3. x2.pc \in FreeStates \/ (x2.pc \in IdleStates /\ x.pc \in IdleStates)
            BY <1>0, <1>3 DEF TellChecker, Ctl, FreeStates, IdleStates
        <2> QED
            BY <1>1, <2>1, <2>2, <2>3, ThreadMoves
    <1>4. CASE Join(c)
        <2> DEFINE x2 == [x EXCEPT !.pc = IF @ = "join0" THEN "exit0" ELSE "exit1"]
        <2>1. ctl' = [ctl EXCEPT ![c] = x2]
            BY <1>4 DEF Join
        <2>2. x2 \in Ctl /\ SameCommand(x, x2) /\ x2.answered = x.answered /\ x2.pc \in FreeStates
            BY <1>0 DEF Ctl, CtlStates, SameCommand, FreeStates, Ended
        <2> QED
            BY <1>1, <2>1, <2>2, ThreadMoves
    <1>5. CASE SeeHangup(c) \/ RaiseOrReturn(c) \/ StopWatching(c) \/ WatchInterrupted(c)
        <2>1. PICK checker \in CheckerStates : ctl' = [ctl EXCEPT ![c].checker = checker]
            BY <1>5 DEF SeeHangup, RaiseOrReturn, StopWatching, WatchInterrupted, CheckerStates
        <2> DEFINE x2 == [x EXCEPT !.checker = checker]
        <2>2. ctl' = [ctl EXCEPT ![c] = x2]
            BY <2>1
        <2>3. x2 \in Ctl /\ SameCommand(x, x2) /\ x2.answered = x.answered /\ x2.pc = x.pc
            BY <1>0 DEF Ctl, SameCommand
        <2> QED
            BY <1>1, <2>2, <2>3, ThreadMoves
    <1> QED
        BY <1>2, <1>3, <1>4, <1>5

(***************************************************************************)
(* The steps of main that deal with the connection and the messages.       *)
(***************************************************************************)
LEMMA ConnectStep ==
    ASSUME IpcInv, NEW c \in Clients, Connect(c)
    PROVE  Right
PROOF
    <1> DEFINE x == ctl[c]
               y == conn[c]
    <1>0. x \in Ctl /\ y \in Conn /\ ClientOK(x, y, up[c], down[c], executed[c])
        BY DEF IpcInv, ClientOK
    <1> PICK childLives \in BOOLEAN :
          IF Serving \/ childLives
          THEN /\ ctl' = [ctl EXCEPT ![c].pc = "prompt", ![c].checker = "watching"]
               /\ conn' = [conn EXCEPT ![c].mode = IF Serving THEN "backlog" ELSE "closed",
                                       ![c].held = childLives]
          ELSE /\ ctl' = [ctl EXCEPT ![c].pc = "exit1"]
               /\ UNCHANGED conn
        BY DEF Connect
    <1>1. CASE Serving \/ childLives
        <2> DEFINE x2 == [x EXCEPT !.pc = "prompt", !.checker = "watching"]
                   mode == IF Serving THEN "backlog" ELSE "closed"
                   y2 == [y EXCEPT !.mode = mode, !.held = childLives]
        <2>1. /\ ctl' = [ctl EXCEPT ![c] = x2] /\ conn' = [conn EXCEPT ![c] = y2]
              /\ x.pc = "connect" /\ UNCHANGED <<up, down, executed, loop>>
            BY <1>1 DEF Connect
        <2>2. /\ x2 \in Ctl /\ SameCommand(x, x2) /\ x2.answered = x.answered /\ x2.pc = "prompt"
              /\ y2 \in Conn /\ y2.writer = y.writer /\ y2.reader = y.reader /\ y2.mode # "writing"
            BY <1>0 DEF Ctl, CtlStates, CheckerStates, Conn, ConnStates, SameCommand
        <2> HIDE DEF x2, y2
        <2>3. x.pc \in IdleStates /\ x2.pc \in IdleStates
            BY <2>1, <2>2 DEF IdleStates
        <2>4. ClientOK(x2, y, up[c], down[c], executed[c])
            BY <1>0, <2>2, <2>3, MainMoves
        <2>5. ClientOK(x2, y2, up[c], down[c], executed[c])
            BY <2>2, <2>3, <2>4, ModeChanges
        <2>6. RpcStep(x, executed[c], x2, executed[c])
            <3>1. CallOf(x) = "idle" /\ CallOf(x2) = "idle"
                BY <2>3, CallOfIs
            <3> QED
                BY <2>2, <3>1 DEF RpcStep, Stays, SameCommand
        <2>7. ctl'[c] = x2 /\ conn'[c] = y2 /\ AtClient(c)
            BY <2>1, ExceptIsOnlyAt, SameIsOnlyAt DEF IpcInv, AtClient
        <2>8. LoopTypeOK' /\ due' \subseteq Clients
            BY <2>1 DEF IpcInv, LoopTypeOK, loop
        <2> QED
            BY <2>1, <2>5, <2>6, <2>7, <2>8, ClientMoves
    <1>2. CASE ~(Serving \/ childLives)
        <2> DEFINE x2 == [x EXCEPT !.pc = "exit1"]
        <2>1. ctl' = [ctl EXCEPT ![c] = x2] /\ UNCHANGED <<conn, up, down, executed, loop>>
            BY <1>2 DEF Connect
        <2>2. x2 \in Ctl /\ SameCommand(x, x2) /\ x2.answered = x.answered /\ x2.pc \in FreeStates
            BY <1>0 DEF Ctl, CtlStates, SameCommand, FreeStates, Ended
        <2> QED
            BY <2>1, <2>2, ThreadMoves
    <1> QED
        BY <1>1, <1>2

LEMMA TypeStep ==
    ASSUME IpcInv, NEW c \in Clients, NEW kind \in Kinds, TypeCommand(c, kind)
    PROVE  Right
PROOF
    <1> DEFINE x == ctl[c]
               x2 == [x EXCEPT !.pc = "send", !.kind = kind, !.asked = @ + 1,
                               !.writer = WriterOf([n |-> x.asked + 1, kind |-> kind,
                                                    size |-> CommandSize])]
    <1>0. x \in Ctl /\ ClientOK(x, conn[c], up[c], down[c], executed[c])
        BY DEF IpcInv, ClientOK
    <1>1. /\ ctl' = [ctl EXCEPT ![c] = x2] /\ x.pc = "prompt" /\ x.asked < MaxCommands
          /\ UNCHANGED <<conn, up, down, executed, loop>>
        BY DEF TypeCommand
    <1>2. ClientOK(x2, conn[c], up[c], down[c], executed[c])
        BY <1>0, <1>1, CommandTyped
    <1>3. x2.pc = "send" /\ x2.asked = x.asked + 1 /\ x2.answered = x.answered
        BY <1>0 DEF Ctl
    <1> HIDE DEF x2
    <1>4. RpcStep(x, executed[c], x2, executed[c])
        <2>1. CallOf(x) = "idle" /\ CallOf(x2) = "calling"
            BY <1>1, <1>3, CallOfIs DEF IdleStates
        <2> QED
            BY <1>3, <2>1 DEF RpcStep, Asks
    <1>5. ctl'[c] = x2 /\ AtClient(c)
        BY <1>1, ExceptIsOnlyAt, SameIsOnlyAt DEF IpcInv, AtClient
    <1>6. LoopTypeOK' /\ due' \subseteq Clients
        BY <1>1 DEF IpcInv, LoopTypeOK, loop
    <1> QED
        BY <1>1, <1>2, <1>4, <1>5, <1>6, ClientMoves

LEMMA FailStep ==
    ASSUME IpcInv, NEW c \in Clients, Fail(c), UNCHANGED <<conn, up, down, executed, loop>>
    PROVE  Right
PROOF
    <1> DEFINE x == ctl[c]
               x2 == [x EXCEPT !.pc = "failed"]
    <1>1. x \in Ctl /\ ctl' = [ctl EXCEPT ![c] = x2]
        BY DEF IpcInv, ClientOK, Fail
    <1>2. x2 \in Ctl /\ SameCommand(x, x2) /\ x2.answered = x.answered /\ x2.pc \in FreeStates
        BY <1>1 DEF Ctl, CtlStates, SameCommand, FreeStates
    <1> QED
        BY <1>1, <1>2, ThreadMoves

LEMMA SendStep ==
    ASSUME IpcInv, NEW c \in Clients, SendCommand(c)
    PROVE  Right
PROOF
    <1> DEFINE x == ctl[c]
    <1>0. x \in Ctl /\ ClientOK(x, conn[c], up[c], down[c], executed[c])
        BY DEF IpcInv, ClientOK
    <1>1. CASE HungUp(c)
        BY <1>1, FailStep DEF SendCommand
    <1>2. CASE ~HungUp(c)
        <2>1. PICK n \in Sendable(x.writer) :
                /\ up' = [up EXCEPT ![c] = @ \o BytesSent(x.writer, n)]
                /\ ctl' = [ctl EXCEPT ![c].writer = Written(@, n),
                                      ![c].reader = NewReader,
                                      ![c].pc = IF WriteEnds(x.writer, n) THEN "await" ELSE @]
            BY <1>2 DEF SendCommand
        <2> DEFINE x2 == [x EXCEPT !.writer = Written(@, n), !.reader = NewReader,
                                   !.pc = IF WriteEnds(x.writer, n) THEN "await" ELSE @]
                   u2 == up[c] \o BytesSent(x.writer, n)
        <2>2. /\ ctl' = [ctl EXCEPT ![c] = x2] /\ up' = [up EXCEPT ![c] = u2]
              /\ x.pc = "send" /\ UNCHANGED <<conn, down, executed, loop>>
            BY <2>1 DEF SendCommand
        <2>3. ClientOK(x2, conn[c], u2, down[c], executed[c])
            BY <1>0, <2>2, CommandSent
        <2>4. x2.pc \in {"send", "await"} /\ x2.asked = x.asked /\ x2.answered = x.answered
            BY <1>0, <2>2 DEF Ctl
        <2> HIDE DEF x2, u2
        <2>5. RpcStep(x, executed[c], x2, executed[c])
            <3>1. CallOf(x) = "calling" /\ CallOf(x2) = "calling"
                BY <2>2, <2>4, CallOfIs
            <3> QED
                BY <2>4, <3>1 DEF RpcStep, Stays
        <2>6. ctl'[c] = x2 /\ up'[c] = u2 /\ AtClient(c)
            BY <2>2, ExceptIsOnlyAt, SameIsOnlyAt DEF IpcInv, AtClient
        <2>7. LoopTypeOK' /\ due' \subseteq Clients
            BY <2>2 DEF IpcInv, LoopTypeOK, loop
        <2> QED
            BY <2>2, <2>3, <2>5, <2>6, <2>7, ClientMoves
    <1> QED
        BY <1>1, <1>2

LEMMA AwaitStep ==
    ASSUME IpcInv, NEW c \in Clients, Await(c)
    PROVE  Right
PROOF
    <1> DEFINE x == ctl[c]
               R1(n) == Received(x.reader, SubSeq(down[c], 1, n))
    <1>0. x \in Ctl /\ ClientOK(x, conn[c], up[c], down[c], executed[c])
        BY DEF IpcInv, ClientOK
    <1>1. PICK n \in Recv(down[c]) :
             /\ down' = [down EXCEPT ![c] = Drop(@, n)]
             /\ IF ~Complete(R1(n))
                THEN ctl' = [ctl EXCEPT ![c].reader = R1(n)]
                ELSE IF ~Parses(R1(n))
                THEN Fail(c)
                ELSE ctl' = [ctl EXCEPT ![c].reader = Erased(R1(n)),
                                        ![c].answered = Message(R1(n)).n,
                                        ![c].pc = IF x.kind = "terminate" /\ Message(R1(n)).ok
                                                  THEN "succeeded" ELSE "prompt"]
        BY DEF Await
    <1> DEFINE q == R1(n)
               d2 == Drop(down[c], n)
    <1>2. /\ down' = [down EXCEPT ![c] = d2] /\ x.pc = "await"
          /\ UNCHANGED <<conn, up, executed, loop>>
        BY <1>1 DEF Await
    <1>3. LoopTypeOK' /\ due' \subseteq Clients
        BY <1>2 DEF IpcInv, LoopTypeOK, loop
    <1>4. q = Received(x.reader, SubSeq(down[c], 1, n))
        OBVIOUS
    <1> HIDE DEF q
    <1>5. CASE ~Complete(q)
        <2> DEFINE x2 == [x EXCEPT !.reader = q]
        <2>1. ctl' = [ctl EXCEPT ![c] = x2]
            BY <1>1, <1>5 DEF q
        <2>2. ClientOK(x2, conn[c], up[c], d2, executed[c])
            BY <1>0, <1>2, <1>4, <1>5, AnswerGrows
        <2>3. x2.pc = x.pc /\ x2.asked = x.asked /\ x2.answered = x.answered
            BY <1>0 DEF Ctl
        <2> HIDE DEF x2, d2
        <2>4. RpcStep(x, executed[c], x2, executed[c])
            BY <2>3 DEF RpcStep, Stays, CallOf
        <2>5. ctl'[c] = x2 /\ down'[c] = d2 /\ AtClient(c)
            BY <1>2, <2>1, ExceptIsOnlyAt, SameIsOnlyAt DEF IpcInv, AtClient
        <2> QED
            BY <1>2, <1>3, <2>2, <2>4, <2>5, ClientMoves
    <1>6. CASE Complete(q)
        <2>1. /\ Parses(q) /\ Message(q).n = x.asked /\ executed[c] = x.asked
              /\ \A pc \in {"prompt", "succeeded"} :
                    ClientOK(Taken(x, q, pc), conn[c], up[c], d2, executed[c])
            BY <1>0, <1>2, <1>4, <1>6, AnswerEnds
        <2>2. PICK pc \in {"prompt", "succeeded"} :
                pc = IF x.kind = "terminate" /\ Message(q).ok THEN "succeeded" ELSE "prompt"
            OBVIOUS
        <2> DEFINE x2 == Taken(x, q, pc)
        <2>3. ctl' = [ctl EXCEPT ![c] = x2]
            BY <1>1, <1>6, <2>1, <2>2 DEF q, Taken
        <2>4. ClientOK(x2, conn[c], up[c], d2, executed[c])
            BY <2>1
        <2>5. x2.pc = pc /\ x2.asked = x.asked /\ x2.answered = x.asked
            BY <1>0, <2>1 DEF Ctl, Taken
        <2> HIDE DEF x2, d2
        <2>6. RpcStep(x, executed[c], x2, executed[c])
            <3>1. CallOf(x) = "calling" /\ CallOf(x2) = "idle"
                BY <1>2, <2>5, CallOfIs DEF IdleStates
            <3> QED
                BY <2>1, <2>5, <3>1 DEF RpcStep, GetsAnswer
        <2>7. ctl'[c] = x2 /\ down'[c] = d2 /\ AtClient(c)
            BY <1>2, <2>3, ExceptIsOnlyAt, SameIsOnlyAt DEF IpcInv, AtClient
        <2> QED
            BY <1>2, <1>3, <2>4, <2>6, <2>7, ClientMoves
    <1> QED
        BY <1>5, <1>6

----------------------------------------------------------------------------
(***************************************************************************)
(* The callbacks of the daemon.                                            *)
(***************************************************************************)
LEMMA ConnStep ==
    ASSUME IpcInv, NEW c \in Clients, NEW t, Callback(c, t), NEW y2,
           conn' = [conn EXCEPT ![c] = y2], NEW d2, down' = [down EXCEPT ![c] = d2],
           UNCHANGED <<ctl, up, executed>>,
           ClientOK(ctl[c], y2, up[c], d2, executed[c])
    PROVE  Right
PROOF
    <1>1. conn'[c] = y2 /\ down'[c] = d2 /\ AtClient(c)
        BY ExceptIsOnlyAt, SameIsOnlyAt DEF IpcInv, AtClient
    <1>2. RpcStep(ctl[c], executed[c], ctl[c], executed[c])
        BY DEF RpcStep, Stays
    <1>3. LoopTypeOK' /\ due' \subseteq Clients
        BY CallbackLoop DEF IpcInv
    <1> QED
        BY <1>1, <1>2, <1>3, ClientMoves

LEMMA ModeStep ==
    ASSUME IpcInv, NEW c \in Clients, OnAccept(c) \/ ReadEnd(c) \/ WriteFails(c)
    PROVE  Right
PROOF
    <1> DEFINE y == conn[c]
    <1>0. y \in Conn /\ ClientOK(ctl[c], y, up[c], down[c], executed[c])
        BY DEF IpcInv, ClientOK
    <1>1. PICK mode \in {"reading", "closed"}, held \in BOOLEAN :
            /\ conn' = [conn EXCEPT ![c] = [y EXCEPT !.mode = mode, !.held = held]]
            /\ mode = "reading" => y.mode = "backlog"
        <2>1. CASE OnAccept(c)
            BY <2>1 DEF OnAccept
        <2>2. CASE ReadEnd(c) \/ WriteFails(c)
            <3>1. conn' = [conn EXCEPT ![c].mode = "closed"]
                BY <2>2 DEF ReadEnd, WriteFails
            <3>2. y.held \in BOOLEAN /\ [y EXCEPT !.mode = "closed"]
                                      = [y EXCEPT !.mode = "closed", !.held = y.held]
                BY <1>0 DEF Conn
            <3> QED
                BY <3>1, <3>2
        <2> QED
            BY <2>1, <2>2
    <1> DEFINE y2 == [y EXCEPT !.mode = mode, !.held = held]
    <1>2. /\ conn' = [conn EXCEPT ![c] = y2] /\ Callback(c, FALSE)
          /\ UNCHANGED <<ctl, up, down, executed>>
        BY <1>1 DEF OnAccept, ReadEnd, WriteFails
    <1>3. y2 \in Conn /\ y2.writer = y.writer /\ y2.reader = y.reader /\ y2.mode = mode
        BY <1>0 DEF Conn, ConnStates
    <1> HIDE DEF y2
    <1>4. ClientOK(ctl[c], y2, up[c], down[c], executed[c])
        BY <1>0, <1>1, <1>3, ModeChanges
    <1>5. down' = [down EXCEPT ![c] = down[c]]
        BY <1>2 DEF IpcInv, Fun
    <1> QED
        BY <1>2, <1>4, <1>5, ConnStep

LEMMA ReadStep ==
    ASSUME IpcInv, NEW c \in Clients, HandleRead(c)
    PROVE  Right
PROOF
    <1> DEFINE x == ctl[c]
               y == conn[c]
               R1(n) == Received(y.reader, SubSeq(up[c], 1, n))
    <1>0. x \in Ctl /\ y \in Conn /\ ClientOK(x, y, up[c], down[c], executed[c])
        BY DEF IpcInv, ClientOK
    <1>1. PICK n \in Recv(up[c]) :
             /\ up' = [up EXCEPT ![c] = Drop(@, n)]
             /\ IF ~Complete(R1(n))
                THEN conn' = [conn EXCEPT ![c].reader = R1(n)] /\ UNCHANGED executed
                ELSE IF ~Parses(R1(n))
                THEN conn' = [conn EXCEPT ![c].mode = "closed"] /\ UNCHANGED executed
                ELSE \E response \in OnCommand(Message(R1(n))) :
                       /\ conn' = [conn EXCEPT ![c].mode = "writing",
                                               ![c].kind = Message(R1(n)).kind,
                                               ![c].reader = Erased(R1(n)),
                                               ![c].writer = WriterOf(response)]
                       /\ executed' = [executed EXCEPT ![c] = @ + 1]
        BY DEF HandleRead
    <1> DEFINE q == R1(n)
               u2 == Drop(up[c], n)
    <1>2. up' = [up EXCEPT ![c] = u2] /\ UNCHANGED <<ctl, down>> /\ Callback(c, FALSE)
        BY <1>1 DEF HandleRead
    <1>3. LoopTypeOK' /\ due' \subseteq Clients
        BY <1>2, CallbackLoop DEF IpcInv
    <1>4. q = Received(y.reader, SubSeq(up[c], 1, n))
        OBVIOUS
    <1> HIDE DEF q
    <1>5. CASE ~Complete(q)
        <2> DEFINE y2 == [y EXCEPT !.reader = q]
        <2>1. conn' = [conn EXCEPT ![c] = y2] /\ UNCHANGED executed
            BY <1>1, <1>5 DEF q
        <2>2. ClientOK(x, y2, u2, down[c], executed[c])
            BY <1>0, <1>4, <1>5, RequestGrows
        <2> HIDE DEF y2, u2
        <2>3. RpcStep(x, executed[c], x, executed[c])
            BY DEF RpcStep, Stays
        <2>4. conn'[c] = y2 /\ up'[c] = u2 /\ AtClient(c)
            BY <1>2, <2>1, ExceptIsOnlyAt, SameIsOnlyAt DEF IpcInv, AtClient
        <2> QED
            BY <1>2, <1>3, <2>1, <2>2, <2>3, <2>4, ClientMoves
    <1>6. CASE Complete(q)
        <2>1. /\ Parses(q) /\ executed[c] < x.asked
              /\ \A response \in OnCommand(Message(q)) :
                    ClientOK(x, Executing(y, q, response), u2, down[c], executed[c] + 1)
            BY <1>0, <1>4, <1>6, RequestEnds
        <2>2. PICK response \in OnCommand(Message(q)) :
                 /\ conn' = [conn EXCEPT ![c].mode = "writing", ![c].kind = Message(q).kind,
                                         ![c].reader = Erased(q), ![c].writer = WriterOf(response)]
                 /\ executed' = [executed EXCEPT ![c] = @ + 1]
            BY <1>1, <1>6, <2>1 DEF q
        <2> DEFINE y2 == Executing(y, q, response)
                   e2 == executed[c] + 1
        <2>3. conn' = [conn EXCEPT ![c] = y2] /\ executed' = [executed EXCEPT ![c] = e2]
            BY <2>2 DEF Executing
        <2>4. ClientOK(x, y2, u2, down[c], e2)
            BY <2>1
        <2>5. RpcStep(x, executed[c], x, e2)
            BY <2>1 DEF RpcStep, Executes
        <2> HIDE DEF y2, u2, e2
        <2>6. conn'[c] = y2 /\ up'[c] = u2 /\ executed'[c] = e2 /\ AtClient(c)
            BY <1>2, <2>3, ExceptIsOnlyAt, SameIsOnlyAt DEF IpcInv, AtClient
        <2> QED
            BY <1>2, <1>3, <2>4, <2>5, <2>6, ClientMoves
    <1> QED
        BY <1>5, <1>6

LEMMA WriteStep ==
    ASSUME IpcInv, NEW c \in Clients, HandleWrite(c)
    PROVE  Right
PROOF
    <1> DEFINE y == conn[c]
    <1>0. ClientOK(ctl[c], y, up[c], down[c], executed[c])
        BY DEF IpcInv
    <1>1. PICK n \in Sendable(y.writer) :
             /\ down' = [down EXCEPT ![c] = @ \o BytesSent(y.writer, n)]
             /\ conn' = [conn EXCEPT ![c].writer = Written(@, n),
                                     ![c].mode = IF WriteEnds(y.writer, n) THEN "reading" ELSE @]
             /\ Callback(c, WriteEnds(y.writer, n) /\ y.kind = "terminate")
        BY DEF HandleWrite
    <1> DEFINE y2 == [y EXCEPT !.writer = Written(@, n),
                               !.mode = IF WriteEnds(y.writer, n) THEN "reading" ELSE @]
               d2 == down[c] \o BytesSent(y.writer, n)
    <1>2. /\ conn' = [conn EXCEPT ![c] = y2] /\ down' = [down EXCEPT ![c] = d2]
          /\ y.mode = "writing" /\ UNCHANGED <<ctl, up, executed>>
        BY <1>1 DEF HandleWrite
    <1>3. ClientOK(ctl[c], y2, up[c], d2, executed[c])
        BY <1>0, <1>2, AnswerSent
    <1> HIDE DEF y2, d2
    <1> QED
        BY <1>1, <1>2, <1>3, ConnStep

----------------------------------------------------------------------------
(***************************************************************************)
(* The steps of main of the daemon.                                        *)
(***************************************************************************)
LEMMA RpcStutters ==
    ASSUME UNCHANGED <<ctl, executed>>
    PROVE  [R!Next]_R!vars
PROOF
    <1>1. \A c \in Clients : CallState(c)' = CallState(c)
        BY DEF CallState
    <1> QED
        BY <1>1 DEF R!vars

LEMMA LoopStep ==
    ASSUME IpcInv, UNCHANGED <<ctl, conn, up, down, executed>>, LoopTypeOK', due' \subseteq Clients
    PROVE  Right
PROOF
    <1>1. \A c \in Clients : ClientOK(ctl'[c], conn'[c], up'[c], down'[c], executed'[c])
        BY DEF IpcInv
    <1>2. IpcInv'
        BY <1>1 DEF IpcInv, Fun, ClientOK, Idle, Request, Answering, Answers
    <1> QED
        BY <1>2, RpcStutters DEF Right

LEMMA ShutdownStep ==
    ASSUME IpcInv, Shutdown
    PROVE  Right
PROOF
    <1>1. LoopTypeOK' /\ due' \subseteq Clients
        BY MainLoopSteps DEF IpcInv, Shutdown
    <1>2. Fun(conn') /\ UNCHANGED <<ctl, up, down, executed>>
        BY DEF Shutdown, Fun
    <1>3. ASSUME NEW c \in Clients
          PROVE  ClientOK(ctl'[c], conn'[c], up'[c], down'[c], executed'[c])
        <2> DEFINE y == conn[c]
                   y2 == [y EXCEPT !.mode = "closed"]
        <2>1. y \in Conn /\ ClientOK(ctl[c], y, up[c], down[c], executed[c])
            BY DEF IpcInv, ClientOK
        <2>2. y2 \in Conn /\ y2.writer = y.writer /\ y2.reader = y.reader /\ y2.mode = "closed"
            BY <2>1 DEF Conn, ConnStates
        <2>3. conn'[c] = y \/ conn'[c] = y2
            BY DEF Shutdown
        <2> HIDE DEF y2
        <2>4. ClientOK(ctl[c], y2, up[c], down[c], executed[c])
            BY <2>1, <2>2, ModeChanges
        <2> QED
            BY <1>2, <2>1, <2>3, <2>4
    <1>4. IpcInv'
        BY <1>1, <1>2, <1>3 DEF IpcInv, Fun, ClientOK, Idle, Request, Answering, Answers
    <1> QED
        BY <1>2, <1>4, RpcStutters DEF Right

\* Children that inherit the sockets, or end, change nothing but who holds them.
LEMMA HeirsStep ==
    ASSUME IpcInv, Fork \/ \E c \in Clients : HeirsEnd(c)
    PROVE  Right
PROOF
    <1>1. LoopTypeOK' /\ due' \subseteq Clients /\ UNCHANGED <<ctl, up, down, executed>>
        BY DEF IpcInv, LoopTypeOK, Fork, HeirsEnd, loop
    <1>2. Fun(conn')
        BY DEF IpcInv, Fork, HeirsEnd, Fun
    <1>3. ASSUME NEW c \in Clients
          PROVE  ClientOK(ctl'[c], conn'[c], up'[c], down'[c], executed'[c])
        <2> DEFINE y == conn[c]
        <2>1. y \in Conn /\ ClientOK(ctl[c], y, up[c], down[c], executed[c])
            BY DEF IpcInv, ClientOK
        <2>2. PICK held \in BOOLEAN : conn'[c] = [y EXCEPT !.held = held]
            <3>1. y = [y EXCEPT !.held = y.held] /\ y.held \in BOOLEAN
                BY <2>1 DEF Conn
            <3>2. conn'[c] \in {y, [y EXCEPT !.held = TRUE], [y EXCEPT !.held = FALSE]}
                BY DEF IpcInv, Fun, Fork, HeirsEnd
            <3> QED
                BY <3>1, <3>2
        <2> DEFINE y2 == [y EXCEPT !.held = held]
        <2>3. y2 \in Conn /\ y2.writer = y.writer /\ y2.reader = y.reader /\ y2.mode = y.mode
            BY <2>1 DEF Conn
        <2> HIDE DEF y2
        <2>4. ClientOK(ctl[c], y2, up[c], down[c], executed[c])
            BY <2>1, <2>3 DEF ClientOK, Idle, Request, Answering, Answers
        <2> QED
            BY <1>1, <2>2, <2>4 DEF y2
    <1>4. IpcInv'
        BY <1>1, <1>2, <1>3 DEF IpcInv, Fun, ClientOK, Idle, Request, Answering, Answers
    <1> QED
        BY <1>1, <1>4, RpcStutters DEF Right

LEMMA NextStep ==
    ASSUME IpcInv, [Next]_vars
    PROVE  Right
PROOF
    <1>1. ASSUME NEW c \in Clients, CtlStep(c)  PROVE Right
        BY <1>1, ConnectStep, TypeStep, SendStep, AwaitStep, ThreadStep DEF CtlStep
    <1>2. ASSUME NEW c \in Clients, DaemonStep(c)  PROVE Right
        BY <1>2, ModeStep, ReadStep, WriteStep DEF DaemonStep
    <1>3. CASE Wake
        <2>1. PICK accepted \in IF Backlog = {} THEN {{}} ELSE {{c} : c \in Backlog} :
                WakeUp({c \in Clients : Ready(c)} \cup accepted)
            BY <1>3 DEF Wake
        <2>2. accepted \subseteq Clients
            BY DEF Backlog
        <2> DEFINE ready == {c \in Clients : Ready(c)} \cup accepted
        <2>3. ready \in SUBSET Clients /\ WakeUp(ready)
            BY <2>1, <2>2
        <2> HIDE DEF ready
        <2>4. LoopTypeOK' /\ due' \subseteq Clients
            BY <2>3, WakeLoop DEF IpcInv
        <2> QED
            BY <1>3, <2>4, LoopStep DEF Wake
    <1>4. CASE MainStep
        <2>1. LoopTypeOK' /\ due' \subseteq Clients
            BY <1>4, MainLoopSteps DEF IpcInv, MainStep
        <2> QED
            BY <1>4, <2>1, LoopStep DEF MainStep
    <1>5. CASE CatchSignal
        <2>1. LoopTypeOK' /\ due' \subseteq Clients
            BY <1>5, SignalLoop DEF IpcInv, CatchSignal
        <2> QED
            BY <1>5, <2>1, LoopStep DEF CatchSignal
    <1>6. CASE UNCHANGED vars
        <2>1. LoopTypeOK' /\ due' \subseteq Clients
            BY <1>6 DEF IpcInv, LoopTypeOK, vars, loop
        <2> QED
            BY <1>6, <2>1, LoopStep DEF vars
    <1> QED
        BY <1>1, <1>2, <1>3, <1>4, <1>5, <1>6, HeirsStep, ShutdownStep DEF Next

----------------------------------------------------------------------------
(***************************************************************************)
(* What the invariant says of the types.                                   *)
(***************************************************************************)
LEMMA PieceTyped ==
    ASSUME NEW m \in Messages, NEW start \in Nat, NEW s, Piece(s, m, start)
    PROVE  \A k \in DOMAIN s : IsByte(s[k])
PROOF
    <1>1. s \in Seq(Bytes) /\ Len(s) \in Nat /\ FrameSize(m) \in Nat /\ DOMAIN s = 1..Len(s)
        BY LenProperties, MessageSize DEF Piece
    <1>2. ASSUME NEW k \in 1..Len(s)  PROVE IsByte(s[k])
        <2>1. s[k] = Byte(m, start + k) /\ start + k \in 1..FrameSize(m)
            BY <1>1 DEF Piece
        <2>2. s[k].of = m /\ s[k].at = start + k
            BY <2>1 DEF Byte
        <2> QED
            BY <2>1, <2>2 DEF IsByte, Messages, FrameSize
    <1> QED
        BY <1>1, <1>2

LEMMA PartialTyped ==
    ASSUME NEW m \in Messages, NEW r, NEW stream, Under(r, stream, m)
    PROVE  ReaderOK(r) /\ \A k \in DOMAIN stream : IsByte(stream[k])
PROOF
    <1>1. \A k \in DOMAIN r.buffer : IsByte(r.buffer[k])
        BY PieceTyped DEF Under, Partial
    <1>2. Len(r.buffer) \in Nat
        BY LenProperties DEF Under, Partial, Piece
    <1>3. \A k \in DOMAIN stream : IsByte(stream[k])
        BY <1>2, PieceTyped DEF Under
    <1>4. r.size \in {NoSize, CommandSize, ResponseSize}
        BY DEF Under, Partial, Messages, Command, Response
    <1> QED
        BY <1>1, <1>3, <1>4 DEF ReaderOK

LEMMA WriterTyped ==
    ASSUME NEW M \in SUBSET Messages, NEW m \in M, NEW w \in Writer(M),
           w = IdleWriter \/ Writes(w, m)
    PROVE  WriterOK(w, M)
PROOF
    <1>1. CASE w = IdleWriter
        BY <1>1 DEF IdleWriter, NoMessage, WriterOK
    <1>2. CASE Writes(w, m)
        <2>1. w.message = m /\ w.bytesWritten \in Nat /\ w.bytesWritten < m.size /\ m.size \in Nat
            BY <1>2, MessageSize DEF Writes, Writer
        <2> QED
            BY <2>1 DEF WriterOK, Writer
    <1> QED
        BY <1>1, <1>2

LEMMA NothingTyped ==
    ReaderOK(NewReader) /\ WriterOK(IdleWriter, Command) /\ WriterOK(IdleWriter, Response)
PROOF
    <1>1. ReaderOK(NewReader)
        BY DEF ReaderOK, NewReader
    <1>2. WriterOK(IdleWriter, Command) /\ WriterOK(IdleWriter, Response)
        BY DEF WriterOK, IdleWriter, NoMessage
    <1> QED
        BY <1>1, <1>2

BytesOK(x, y, u, d, e) ==
    /\ WriterOK(x.writer, Command) /\ ReaderOK(x.reader)
    /\ WriterOK(y.writer, Response) /\ ReaderOK(y.reader)
    /\ (\A k \in DOMAIN u : IsByte(u[k])) /\ (\A k \in DOMAIN d : IsByte(d[k]))
    /\ e \in 0..MaxCommands

LEMMA ClientTyped ==
    ASSUME NEW x, NEW y, NEW u, NEW d, NEW e, ClientOK(x, y, u, d, e)
    PROVE  BytesOK(x, y, u, d, e)
PROOF
    <1>0. /\ x \in Ctl /\ x.asked \in 0..MaxCommands /\ x.writer \in Writer(Command)
          /\ y.writer \in Writer(Response)
        BY DEF ClientOK, Ctl, Conn
    <1>1. Command \in SUBSET Messages /\ Response \in SUBSET Messages /\ DOMAIN <<>> = {}
        BY DEF Messages
    <1>2. CASE Idle(x, y, u, d, e)
        BY <1>0, <1>1, <1>2, NothingTyped DEF Idle, BytesOK
    <1>3. CASE Request(x, y, u, d, e)
        <2>1. CommandOf(x) \in Command /\ CommandOf(x) \in Messages
            BY <1>0, <1>3, CommandIsMessage DEF Request
        <2>2. WriterOK(x.writer, Command)
            BY <1>0, <1>1, <1>3, <2>1, WriterTyped DEF Request
        <2>3. ReaderOK(y.reader) /\ \A k \in DOMAIN u : IsByte(u[k])
            BY <1>3, <2>1, PartialTyped DEF Request
        <2>4. e \in 0..MaxCommands
            BY <1>0, <1>3, SizesAssumption DEF Request
        <2>5. d = <<>> /\ x.reader = NewReader /\ y.writer = IdleWriter
            BY <1>3 DEF Request
        <2> QED
            BY <1>1, <2>2, <2>3, <2>4, <2>5, NothingTyped DEF BytesOK
    <1>4. ASSUME NEW m \in Response, Answers(x, y, u, d, e, m)
          PROVE  BytesOK(x, y, u, d, e)
        <2>1. m \in Messages
            BY DEF Messages
        <2>2. WriterOK(y.writer, Response)
            BY <1>0, <1>1, <1>4, WriterTyped DEF Answers
        <2>3. ReaderOK(x.reader) /\ \A k \in DOMAIN d : IsByte(d[k])
            BY <1>4, <2>1, PartialTyped DEF Answers
        <2>4. u = <<>> /\ y.reader = NewReader /\ x.writer = IdleWriter /\ e = x.asked
            BY <1>4 DEF Answers
        <2> QED
            BY <1>0, <1>1, <2>2, <2>3, <2>4, NothingTyped DEF BytesOK
    <1> QED
        BY <1>2, <1>3, <1>4 DEF ClientOK, Answering

LEMMA InitIpc == Init => IpcInv /\ R!Init
PROOF
    <1> SUFFICES ASSUME Init  PROVE IpcInv /\ R!Init
        OBVIOUS
    <1>0. Fun(ctl) /\ Fun(conn) /\ Fun(up) /\ Fun(down) /\ Fun(executed)
        BY DEF Init, Fun
    <1>1. LoopTypeOK /\ due \subseteq Clients
        <2>1. signals \in 0..MaxSignals
            BY SignalsAssumption DEF Init, LoopInit
        <2>2. lost \in BOOLEAN /\ slipped \in BOOLEAN
            BY DEF Init, LoopInit
        <2>3. g_state \in States /\ at \in Places /\ due \subseteq Clients
            BY DEF Init, LoopInit, States, Places
        <2> QED
            BY <2>1, <2>2, <2>3 DEF LoopTypeOK
    <1>2. NewReader \in Reader /\ IdleWriter \in Writer(Command) /\ IdleWriter \in Writer(Response)
        BY NewReaderIs DEF IdleWriter, Writer
    <1>3. NewCtl \in Ctl /\ NewConn \in Conn
        BY <1>2, SizesAssumption
           DEF NewCtl, NewConn, Ctl, Conn, CtlStates, CheckerStates, ConnStates, Kinds
    <1>4. ClientOK(NewCtl, NewConn, <<>>, <<>>, 0)
        <2>1. Idle(NewCtl, NewConn, <<>>, <<>>, 0)
            BY DEF Idle, NewCtl, NewConn
        <2>2. NewCtl.pc = "connect"
            BY DEF NewCtl
        <2> QED
            BY <1>3, <2>1, <2>2 DEF ClientOK
    <1>5. IpcInv
        BY <1>0, <1>1, <1>4 DEF IpcInv, Init
    <1>6. R!Init
        <2>1. \A c \in Clients : ctl[c] = NewCtl /\ CallState(c) = "idle"
            BY CallStateIs, CallOfIs DEF Init, NewCtl, IdleStates
        <2> QED
            BY <2>1 DEF Init, NewCtl, R!Init, R!Zero
    <1> QED
        BY <1>5, <1>6

----------------------------------------------------------------------------
(***************************************************************************)
(* Every connection is in one of the three cases: no command is under way, *)
(* or the pieces of exactly one command, or those of exactly one response, *)
(* lie between writer, socket and reader without a gap.                    *)
(***************************************************************************)
THEOREM IpcInvariant == Spec => []IpcInv
PROOF
    <1>1. Init => IpcInv
        BY InitIpc
    <1>2. IpcInv /\ [Next]_vars => IpcInv'
        BY NextStep DEF Right
    <1> QED
        BY <1>1, <1>2, PTL DEF Spec

(***************************************************************************)
(* A ProtoWriter never claims to have sent more than there is, a           *)
(* ProtoReader never takes a byte of one message for the size of another,  *)
(* and no command is executed that was not asked for.                      *)
(***************************************************************************)
THEOREM IpcTypes == Spec => []TypeOK
PROOF
    <1>1. ASSUME IpcInv  PROVE TypeOK
        <2>1. ASSUME NEW c \in Clients
              PROVE  /\ ctl[c] \in Ctl /\ conn[c] \in Conn
                     /\ BytesOK(ctl[c], conn[c], up[c], down[c], executed[c])
            BY <1>1, ClientTyped DEF IpcInv, ClientOK
        <2> QED
            BY <1>1, <2>1 DEF IpcInv, TypeOK, BytesOK, Ctl, Conn
    <1> QED
        BY <1>1, IpcInvariant, PTL

(***************************************************************************)
(* A taskmasterctl that prompts for a command has nothing in flight: no    *)
(* byte is left in a socket or in a ProtoReader, on either side, where the *)
(* next message would be appended to it.                                   *)
(***************************************************************************)
THEOREM PromptIsQuiet == Spec => []NothingInFlight
PROOF
    <1>1. IpcInv => NothingInFlight
        BY DEF IpcInv, ClientOK, Idle, NothingInFlight
    <1> QED
        BY <1>1, IpcInvariant, PTL

(***************************************************************************)
(* The connection implements the remote call of module Rpc: however send() *)
(* and recv() cut the messages, and whoever leaves when, each command is   *)
(* executed once at most and the response that main takes is the one to    *)
(* the command it sent.                                                    *)
(***************************************************************************)
THEOREM CallsAreRemote == Spec => ImplementsRpc
PROOF
    <1>1. Init => R!Init
        BY InitIpc
    <1>2. IpcInv /\ [Next]_vars => [R!Next]_(R!vars)
        BY NextStep DEF Right
    <1> QED
        BY <1>1, <1>2, IpcInvariant, PTL DEF Spec, ImplementsRpc, R!Spec
=============================================================================
