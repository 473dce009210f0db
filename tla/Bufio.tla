------------------------------- MODULE Bufio -------------------------------
(***************************************************************************)
(* A connection and the bufio.Reader over it, as util.PeekBuffered and the *)
(* parsers use them (external: the Go library).  A read of the connection  *)
(* returns any non-empty part of what has arrived, so a parser sees every  *)
(* way to cut a stream into fragments.                                     *)
(*                                                                         *)
(* A byte is a string: one character, or a whole token no property tells   *)
(* apart from a sequence of characters (the text of a header field).       *)
(***************************************************************************)
EXTENDS Integers, SequencesExt, FiniteSetsExt, TLC

CONSTANT BufSize   \* bytes the reader can hold

ASSUME BufSizeAssumption == BufSize \in Nat \ {0}

VARIABLES
    wire,      \* arrived at the connection and not yet read
    buf,       \* buffered in the reader
    closed,    \* the peer has closed: nothing follows what is on the wire
    p          \* the parser that reads: where it is, and n, the bytes it peeks for

Byte == STRING
From(s, i) == SubSeq(s, i, Len(s))

\* Peek(n) returns, or fails with io.EOF; when the buffer is full, asking for more
\* than it holds fails with bufio.ErrBufferFull.
Peeked == Len(buf) >= p.n
PeekEOF == Len(buf) < p.n /\ wire = <<>> /\ closed
BufferFull == Len(buf) >= BufSize

\* The parser blocks in Peek or ReadByte and the reader fills its buffer.
Fill ==
    /\ p.n > Len(buf)
    /\ \E k \in 1 .. Len(wire) :
          /\ Len(buf) + k <= BufSize
          /\ buf' = buf \o SubSeq(wire, 1, k)
          /\ wire' = From(wire, k + 1)
    /\ UNCHANGED <<closed, p>>

\* io.ReadFull on the connection itself, past the reader.
ReadFull(k) == Len(wire) >= k /\ wire' = From(wire, k + 1) /\ UNCHANGED <<buf, closed>>
ReadFullEOF(k) == Len(wire) < k /\ closed /\ UNCHANGED <<wire, buf, closed>>

\* The length of the first line of s with its line feed, 0 when it has none.
LineLen(s) == SelectInSeq(s, LAMBDA c : c = "\n")
IsEmptyLine(line) == line \in {<<"\n">>, <<"\r", "\n">>}
=============================================================================
