------------------------------ MODULE Framing ------------------------------
(***************************************************************************)
(* The framing of an HTTP message: http/header.go, http/body.go and        *)
(* util/hex.go.  The parser finds the header in the reader's buffer, takes *)
(* the body's type from its fields and passes the body, raw, to a writer.  *)
(***************************************************************************)
EXTENDS Bufio

CONSTANTS
    Lengths,          \* the number in a byte or in the text of a content-length field
    HexDigits,        \* hex2intTable: the value of a hex digit
    MaxHexIntChars,   \* maxHexIntChars
    MaxInt64          \* more than any stream holds

ASSUME LengthsAssumption == \A c \in DOMAIN Lengths : Lengths[c] \in Nat
ASSUME HexAssumption ==
    /\ \A c \in DOMAIN HexDigits : HexDigits[c] \in 0 .. 15
    /\ {"\r", "0xFF"} \cap DOMAIN HexDigits = {}
ASSUME LimitsAssumption == MaxHexIntChars \in Nat \ {0} /\ MaxInt64 \in Nat \ {0}

\* header.contentLength after the fields of Parse: a later field overrides an
\* earlier one, but no content length a transfer encoding; -1 is chunked, -2
\* identity.
ContentLength(fields) ==
    LET Encodings == {i \in DOMAIN fields : fields[i] \in {"chunked", "identity"}}
        Positive == {i \in DOMAIN fields : fields[i] \in DOMAIN Lengths /\ Lengths[fields[i]] > 0}
    IN  CASE Encodings # {} -> IF fields[Max(Encodings)] = "chunked" THEN -1 ELSE -2
          [] Encodings = {} /\ Positive # {} -> Lengths[fields[Max(Positive)]]
          [] OTHER -> 0

\* An empty line of b, LF or CRLF, ends at i.
EmptyLineEnds(b, i) ==
    LET LineStarts(j) == j = 1 \/ b[j - 1] = "\n"
    IN  b[i] = "\n" /\ (LineStarts(i) \/ (b[i - 1] = "\r" /\ LineStarts(i - 1)))

\* Header.Parse: the length of the header that starts b, 0 for errNeedMore.
HeaderLen(b) ==
    LET Ends == {i \in DOMAIN b : EmptyLineEnds(b, i)}
    IN  IF Ends = {} THEN 0 ELSE Min(Ends)

StartHeader == [at |-> "header", n |-> 1, left |-> 0, size |-> 0, digits |-> 0,
                chunk |-> <<>>, type |-> 0, out |-> <<>>]

\* The parser gives up: "failed" for what it read, "aborted" for its own side;
\* or it panics.
GiveUp(how) == p' = [p EXCEPT !.at = how] /\ UNCHANGED <<wire, buf, closed>>
Fails == GiveUp("failed")

\* A bug: the next peek asks for no more than there is.
NeedMoreAgain ==
    /\ p.at = "header" /\ Peeked /\ HeaderLen(buf) = 0 /\ ~BufferFull
    /\ p' = [p EXCEPT !.n = Len(buf)]
    /\ UNCHANGED <<wire, buf, closed>>

\* tryRead: no empty line in what is buffered, ask for one byte more.
NeedMore ==
    /\ p.at = "header" /\ Peeked /\ HeaderLen(buf) = 0 /\ ~BufferFull
    /\ p' = [p EXCEPT !.n = Len(buf) + 1]
    /\ UNCHANGED <<wire, buf, closed>>

\* There is no room for one byte more: bufio.ErrBufferFull.
HeaderTooLarge ==
    p.at = "header" /\ Peeked /\ HeaderLen(buf) = 0 /\ BufferFull /\ Fails

\* ParseHeaderFields returns, its caller discards the header and starts
\* Body.Parse by the type of the body.
HeaderDone ==
    LET len == HeaderLen(buf)
        length == ContentLength(SubSeq(buf, 1, len))
    IN  /\ p.at = "header" /\ Peeked /\ len > 0
        /\ buf' = From(buf, len + 1)
        /\ p' = [p EXCEPT !.type = length, !.n = 1,
                          !.at = CASE length > 0 -> "fixed"  [] length = 0 -> "done"
                                   [] length = -1 -> "hex"   [] length = -2 -> "fixed",
                          !.left = IF length = -2 THEN MaxInt64 ELSE Max({length, 0})]
        /\ UNCHANGED <<wire, closed>>

AfterFixed == IF p.type = -1 /\ p.size > 0 THEN "hex" ELSE "done"

\* A bug: all that is buffered is written, the next message's bytes too.
FixedTakesAll ==
    /\ p.at = "fixed" /\ Peeked
    /\ p' = [p EXCEPT !.out = @ \o buf, !.left = Max({0, @ - Len(buf)}),
                      !.at = IF p.left <= Len(buf) THEN AfterFixed ELSE @]
    /\ buf' = <<>>
    /\ UNCHANGED <<wire, closed>>

\* One round of parseBodyFixedSize: the writer gets what is buffered, up to
\* the bytes still needed, and they are discarded.
Fixed ==
    LET take == Min({p.left, Len(buf)})
        ended == p.left = take
    IN  /\ p.at = "fixed" /\ Peeked
        /\ p' = [p EXCEPT !.out = @ \o SubSeq(buf, 1, take), !.left = @ - take,
                          !.at = IF ended THEN AfterFixed ELSE @,
                          !.size = IF ended THEN 0 ELSE @, !.digits = 0]
        /\ buf' = From(buf, take + 1)
        /\ UNCHANGED <<wire, closed>>

\* The writer returns an error: nothing is discarded.
WriterFails == p.at \in {"fixed", "lf"} /\ Peeked /\ GiveUp("aborted")

\* io.EOF ends a body of type identity and no other.
FixedEOF ==
    /\ p.at = "fixed" /\ PeekEOF
    /\ p' = [p EXCEPT !.at = IF p.type = -2 THEN "done" ELSE "failed"]
    /\ UNCHANGED <<wire, buf, closed>>

\* ReadHexInt reads one byte.  A byte that is no digit is unread and ends the
\* number; hex2intTable has 255 entries and none for the byte 0xFF.
Hex ==
    LET c == Head(buf)
    IN  /\ p.at = "hex" /\ Peeked
        /\ \/ /\ c \in DOMAIN HexDigits /\ p.digits < MaxHexIntChars
              /\ p' = [p EXCEPT !.size = 16 * @ + HexDigits[c], !.digits = @ + 1,
                                !.chunk = Append(@, c)]
              /\ buf' = Tail(buf) /\ UNCHANGED <<wire, closed>>
           \/ c \in DOMAIN HexDigits /\ p.digits >= MaxHexIntChars /\ Fails
           \/ c = "0xFF" /\ GiveUp("panicked")
           \/ c \notin DOMAIN HexDigits \cup {"0xFF"} /\ p.digits = 0 /\ Fails
           \/ /\ c \notin DOMAIN HexDigits \cup {"0xFF"} /\ p.digits > 0
              /\ p' = [p EXCEPT !.at = "cr"] /\ UNCHANGED <<wire, buf, closed>>

\* parseChunkSize after the number: CR, then LF, then the chunk's header goes
\* to the writer and the chunk with its CRLF is copied.
SizeCR ==
    /\ p.at = "cr" /\ Peeked
    /\ \/ /\ Head(buf) = "\r"
          /\ p' = [p EXCEPT !.at = "lf"] /\ buf' = Tail(buf) /\ UNCHANGED <<wire, closed>>
       \/ Head(buf) # "\r" /\ Fails

SizeLF ==
    /\ p.at = "lf" /\ Peeked
    /\ \/ /\ Head(buf) = "\n"
          /\ p' = [p EXCEPT !.at = "fixed", !.left = p.size + 2, !.chunk = <<>>,
                            !.out = @ \o p.chunk \o <<"\r", "\n">>]
          /\ buf' = Tail(buf) /\ UNCHANGED <<wire, closed>>
       \/ Head(buf) # "\n" /\ Fails

\* io.EOF in a header or in a chunk's size line is an error of the message.
ParseEOF == p.at \in {"header", "hex", "cr", "lf"} /\ PeekEOF /\ Fails

FramingNext ==
    \/ NeedMore \/ HeaderTooLarge \/ HeaderDone \/ Fixed \/ WriterFails \/ FixedEOF
    \/ Hex \/ SizeCR \/ SizeLF \/ ParseEOF
=============================================================================
