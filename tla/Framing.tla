------------------------------ MODULE Framing -------------------------------
(***************************************************************************)
(* ProtoWriter and ProtoReader: messages over a stream of bytes.  A byte   *)
(* is the message it is part of and its place in the frame, the size       *)
(* first; what is in the bytes is not looked at.                           *)
(***************************************************************************)
EXTENDS Integers, Sequences

CONSTANTS HeaderSize,  \* bytes of the size that precedes a message
          MaxWrite,    \* PROTOWRITER_MAX_WRITE_SIZE
          BufferSize   \* bytes one recv takes at most

ASSUME FramingAssumption ==
    HeaderSize \in Nat \ {0} /\ MaxWrite \in Nat \ {0} /\ BufferSize \in Nat \ {0}

Smaller(m, n) == IF m <= n THEN m ELSE n

Byte(message, k) == [of |-> message, at |-> k]

\* A message, serialized: its size, then message.size bytes.
Frame(message) == [k \in 1..(HeaderSize + message.size) |-> Byte(message, k)]

----------------------------------------------------------------------------
(***************************************************************************)
(* ProtoWriter.  A message has one byte at least: its type or status is    *)
(* always set.  The first call of write sends the size, each one after it  *)
(* as many bytes as the kernel takes.                                      *)
(***************************************************************************)
NoMessage == [size |-> 0]
IdleWriter == [message |-> NoMessage, sizeWritten |-> FALSE, bytesWritten |-> 0]

WriterOf(message) == [IdleWriter EXCEPT !.message = message]

\* How many bytes of the message a call of write may send.
Sendable(w) ==
    IF ~w.sizeWritten THEN {0}
    ELSE 1..Smaller(w.message.size - w.bytesWritten, MaxWrite)

BytesSent(w, n) ==
    LET from == HeaderSize + w.bytesWritten
    IN  IF ~w.sizeWritten THEN SubSeq(Frame(w.message), 1, HeaderSize)
        ELSE SubSeq(Frame(w.message), from + 1, from + n)

\* Whether the call returns true.
WriteEnds(w, n) == w.sizeWritten /\ w.bytesWritten + n = w.message.size

\* Mutant: what was asked for is counted, not what send() took.
WrittenAsAsked(w, n) ==
    IF ~w.sizeWritten THEN [w EXCEPT !.sizeWritten = TRUE]
    ELSE IF WriteEnds(w, n) THEN IdleWriter
    ELSE [w EXCEPT !.bytesWritten = @ + MaxWrite]

Written(w, n) ==
    IF ~w.sizeWritten THEN [w EXCEPT !.sizeWritten = TRUE]
    ELSE IF WriteEnds(w, n) THEN IdleWriter
    ELSE [w EXCEPT !.bytesWritten = @ + n]

----------------------------------------------------------------------------
(***************************************************************************)
(* ProtoReader::read of some bytes: the reader afterwards and the message  *)
(* it returns, NoMessage if there is none yet.  The bytes must be those of *)
(* one frame, or the parser of protobuf fails.                             *)
(***************************************************************************)
NoSize == -1
NewReader == [buffer |-> <<>>, size |-> NoSize]

Received(r, bytes) ==
    LET buffer == r.buffer \o bytes
    IN  [buffer |-> buffer,
         size   |-> IF r.size = NoSize /\ Len(buffer) >= HeaderSize
                    THEN buffer[1].of.size ELSE r.size]

Complete(r) == r.size # NoSize /\ Len(r.buffer) >= HeaderSize + r.size

FirstFrame(r) == SubSeq(r.buffer, 1, HeaderSize + r.size)

Parses(r) == FirstFrame(r) = Frame(r.buffer[1].of)

Message(r) == IF Complete(r) THEN r.buffer[1].of ELSE NoMessage

\* Mutant: the message is not erased from the buffer.
KeepMessage(r) == [r EXCEPT !.size = IF Complete(r) THEN NoSize ELSE @]

\* Mutant: the size of the size is forgotten when the message is erased.
EraseBody(r) ==
    IF Complete(r)
    THEN [buffer |-> SubSeq(r.buffer, r.size + 1, Len(r.buffer)), size |-> NoSize]
    ELSE r

\* The message is erased from the buffer; bytes after it stay.
Erased(r) ==
    IF Complete(r)
    THEN [buffer |-> SubSeq(r.buffer, HeaderSize + r.size + 1, Len(r.buffer)), size |-> NoSize]
    ELSE r
=============================================================================
