--------------------------- MODULE ExchangeProofs ---------------------------
(***************************************************************************)
(* Proofs about Exchange: for all scripts, limits and fragmentations, a    *)
(* tunnel ends where the target's bytes begin, and a message that is taken *)
(* for whole is the message that was sent.                                 *)
(***************************************************************************)
EXTENDS Exchange, BasicLemmas

-----------------------------------------------------------------------------
(* The inductive invariant *)

R == Len(script.reply)
H == Len(script.header)
B == Len(script.body)
N == Len(script.next)

\* What is sent on the connection, and what follows the header in it.
Text == script.reply \o Message
Rest == script.body \o script.next

\* How much of it has been sent.
Arrived == IF sent THEN R + H + B + N ELSE R

MessagePhases == {"header", "fixed", "hex", "cr", "lf"}
Phases == HTTPPhases \cup SOCKS5Phases \cup MessagePhases \cup {"done", "failed", "aborted", "panicked"}

Parser == [at : Phases, n : Nat, left : Nat, size : Nat, digits : Nat,
           chunk : Seq(Byte), type : Int, out : Seq(Byte)]

ExTypeOK ==
    /\ wire \in Seq(Byte) /\ buf \in Seq(Byte)
    /\ closed \in BOOLEAN /\ open \in BOOLEAN /\ sent \in BOOLEAN /\ cut \in BOOLEAN
    /\ script \in Scripts
    /\ p \in Parser

\* The reader is after the first pos bytes: what is buffered and what is on the
\* wire follow them, up to the end of what was sent unless the connection broke.
Holds(pos) ==
    /\ pos + Len(buf) + Len(wire) <= Arrived
    /\ \A i \in 1 .. Len(buf) : buf[i] = Text[pos + i]
    /\ \A i \in 1 .. Len(wire) : wire[i] = Text[pos + Len(buf) + i]
    /\ cut \/ pos + Len(buf) + Len(wire) = Arrived

\* The handshake with an HTTP proxy has read whole lines and no empty one.
HTTPPlace(pos) ==
    LET line == LineLen(script.reply)
    IN  /\ script.proxy = "http" /\ ~sent
        /\ p.n >= 1
        /\ p.at = "http start line" => pos = 0
        /\ p.at = "http header" =>
              /\ line > 0 /\ "200" \in Range(SubSeq(script.reply, 1, line))
              /\ pos >= line /\ script.reply[pos] = "\n"
              /\ \A i \in 1 .. pos - line : ~EmptyLineEnds(From(script.reply, line + 1), i)

\* The handshake with a SOCKS5 proxy has read the parts before this one.
SOCKS5Place(pos) ==
    LET r == script.reply
        a == ReplyAt(r)
    IN  /\ script.proxy = "socks5" /\ buf = <<>> /\ p.n = 0
        /\ p.at = "greeting" => pos = 0
        /\ p.at = "auth" => pos = 2 /\ MethodGranted(r) /\ r[2] = "password"
        /\ p.at = "reply" => pos = a /\ LoggedIn(r)
        /\ p.at = "domain" => pos = a + 4 /\ SOCKS5Grants(r) /\ r[a + 4] = "domain"
        /\ p.at = "address" => SOCKS5Grants(r) /\ pos + p.left + 2 = R
        /\ p.at = "port" => SOCKS5Grants(r) /\ pos + 2 = R

\* The parser looks for the end of the header, which is not in what it has seen.
HeaderPlace(pos) ==
    /\ pos = R
    /\ p.out = <<>> /\ p.chunk = <<>> /\ p.digits = 0 /\ p.size = 0
    /\ p.n >= 1 /\ p.n - 1 <= Len(buf)
    /\ \A i \in 1 .. p.n - 1 : ~EmptyLineEnds(buf, i)

\* The bytes x are in s after the first m.
Occurs(s, m, x) == m + Len(x) <= Len(s) /\ \A i \in 1 .. Len(x) : x[i] = s[m + i]

\* What the writer got is what follows the header.
Passed == Occurs(Rest, 0, p.out)

\* How much is left, by the type of the body.  A chunk that ends in what is sent
\* leads to where the first one leads.
FixedPlace(pos) ==
    LET end == Len(p.out) + p.left
    IN  /\ pos = R + H + Len(p.out)
        /\ p.left >= 1
        /\ p.type # -1 => p.type # 0 /\ end = IF p.type = -2 THEN MaxInt64 ELSE B
        /\ p.type = -1 =>
              /\ p.chunk = <<>>
              /\ end > B + N => ChunkedLen(Rest) = 0
              /\ end <= B + N =>
                    ChunkedLen(Rest) = IF p.size = 0 THEN end ELSE ChunkedEnds(Rest)[end + 1]

\* The parser is in a size line, after some of its digits.
LinePlace(pos) ==
    LET c == Len(p.out)
        d == p.digits
    IN  /\ pos = R + H + c + d + (IF p.at = "lf" THEN 1 ELSE 0)
        /\ p.type = -1
        /\ d <= MaxHexIntChars /\ Len(p.chunk) = d /\ c + d <= B + N
        /\ \A i \in 1 .. d : p.chunk[i] = Rest[c + i] /\ p.chunk[i] \in DOMAIN HexDigits
        /\ p.size = HexValue(p.chunk)
        /\ ChunkedLen(Rest) = ChunkedEnds(Rest)[c + 1]
        /\ p.at # "hex" => d >= 1 /\ c + d + 1 <= B + N /\ Rest[c + d + 1] \notin DOMAIN HexDigits
        /\ p.at = "lf" => Rest[c + d + 1] = "\r"

BodyPlace(pos) ==
    /\ p.n = 1 /\ p.type = Type(script) /\ Passed
    /\ IF p.at = "fixed" THEN FixedPlace(pos) ELSE LinePlace(pos)

\* The message is over: the whole body was passed on, or all there was of it.
DonePlace(pos) ==
    /\ p.type = Type(script) /\ Passed
    /\ p.type = -2 => Len(p.out) = B \/ cut
    /\ p.type # -2 => Len(p.out) = B /\ pos = R + H + B

Place(pos) ==
    /\ p.at \in HTTPPhases => HTTPPlace(pos)
    /\ p.at \in SOCKS5Phases => SOCKS5Place(pos)
    /\ p.at \in MessagePhases \cup {"done"} => Accepts(script)
    /\ p.at = "header" => HeaderPlace(pos)
    /\ p.at \in MessagePhases \ {"header"} => BodyPlace(pos)
    /\ p.at = "done" => DonePlace(pos)

\* Why the parser has failed, or has panicked.
Failing ==
    /\ p.at = "failed" => cut \/ ~Accepts(script) \/ ~WellFormed(script) \/ ~Fits(script)
    /\ p.at = "panicked" => Accepts(script) /\ ~WellFormed(script) /\ "0xFF" \in Range(Rest)

ExInv ==
    /\ ExTypeOK
    /\ cut => closed
    /\ closed => sent \/ cut \/ ~Accepts(script)
    /\ Failing
    /\ p.at \notin {"failed", "aborted", "panicked"} =>
          \E pos \in 0 .. Arrived : Holds(pos) /\ Place(pos)

\* That is so unless the target spoke early through an HTTP proxy; it speaks only
\* when the proxy has accepted.
ExchangeInv ==
    /\ early => sent /\ Accepts(script)
    /\ Robbed \/ ExInv

-----------------------------------------------------------------------------
(* Hexadecimal digits *)

\* f is the function by which HexValue computes, over the first n digits of d.
HexSteps(d, f, n) ==
    /\ f[0] = 0
    /\ \A i \in 1 .. n : f[i] = 16 * f[i - 1] + HexDigits[d[i]]

\* The value of a digit.
LEMMA HexDigit ==
    ASSUME NEW c \in DOMAIN HexDigits
    PROVE  HexDigits[c] \in Nat
  <1>1. HexDigits[c] \in 0 .. 15
    BY HexAssumption
  <1> QED BY <1>1

\* There is such a function,
LEMMA HexStepsExist ==
    ASSUME NEW d, NEW n \in Nat, \A i \in 1 .. n : d[i] \in DOMAIN HexDigits
    PROVE  \E f \in [0 .. n -> Nat] : HexSteps(d, f, n)
  <1> DEFINE T == {k \in 0 .. n : \E f \in [0 .. k -> Nat] : HexSteps(d, f, k)}
  <1>1. 0 \in T
    <2>1. HexSteps(d, [i \in 0 .. 0 |-> 0], 0)
      BY DEF HexSteps
    <2> QED BY <2>1
  <1>2. ASSUME NEW k \in 0 .. n - 1, k \in T PROVE k + 1 \in T
    <2>1. PICK f \in [0 .. k -> Nat] : HexSteps(d, f, k)
      BY <1>2
    <2> DEFINE v == 16 * f[k] + HexDigits[d[k + 1]]
               g == [i \in 0 .. k + 1 |-> IF i = k + 1 THEN v ELSE f[i]]
    <2>2. v \in Nat
      <3>1. HexDigits[d[k + 1]] \in Nat
        BY HexDigit
      <3>2. f[k] \in Nat
        OBVIOUS
      <3> QED BY <3>1, <3>2
    <2>3. g \in [0 .. k + 1 -> Nat]
      <3> HIDE DEF v
      <3> QED BY <2>2
    <2>4. HexSteps(d, g, k + 1)
      <3>1. g[0] = 0
        BY <2>1 DEF HexSteps
      <3>2. ASSUME NEW i \in 1 .. k + 1 PROVE g[i] = 16 * g[i - 1] + HexDigits[d[i]]
        <4>1. g[i - 1] = f[i - 1]
          OBVIOUS
        <4>2. CASE i = k + 1
          BY <4>1, <4>2
        <4>3. CASE i \in 1 .. k
          <5>1. g[i] = f[i]
            BY <4>3
          <5> HIDE DEF g
          <5> QED BY <2>1, <4>1, <4>3, <5>1 DEF HexSteps
        <4> QED BY <4>2, <4>3
      <3> HIDE DEF g
      <3> QED BY <3>1, <3>2 DEF HexSteps
    <2> QED BY <2>3, <2>4
  <1>3. n \in T
    <2> HIDE DEF T
    <2> QED BY <1>1, <1>2, Upto
  <1> QED BY <1>3

\* and two of them agree where the digits do.
LEMMA HexStepsAgree ==
    ASSUME NEW d, NEW e, NEW f, NEW g, NEW n \in Nat,
           HexSteps(d, f, n), HexSteps(e, g, n), \A i \in 1 .. n : d[i] = e[i]
    PROVE  f[n] = g[n]
  <1> DEFINE T == {k \in 0 .. n : f[k] = g[k]}
  <1>1. 0 \in T
    BY DEF HexSteps
  <1>2. ASSUME NEW k \in 0 .. n - 1, k \in T PROVE k + 1 \in T
    <2>1. k + 1 \in 1 .. n /\ (k + 1) - 1 = k
      OBVIOUS
    <2>2. f[k + 1] = 16 * f[k] + HexDigits[d[k + 1]] /\ g[k + 1] = 16 * g[k] + HexDigits[e[k + 1]]
      BY <2>1 DEF HexSteps
    <2> QED BY <1>2, <2>1, <2>2
  <1>3. n \in T
    <2> HIDE DEF T
    <2> QED BY <1>1, <1>2, Upto
  <1> QED BY <1>3

LEMMA HexValueDef ==
    ASSUME NEW d \in Seq(Byte), \A i \in 1 .. Len(d) : d[i] \in DOMAIN HexDigits
    PROVE  \E f \in [0 .. Len(d) -> Nat] : HexSteps(d, f, Len(d)) /\ HexValue(d) = f[Len(d)]
  <1> DEFINE n == Len(d)
             Is(f) == f = [i \in 0 .. n |-> IF i = 0 THEN 0 ELSE 16 * f[i - 1] + HexDigits[d[i]]]
             v == CHOOSE f : Is(f)
  <1>1. PICK f \in [0 .. n -> Nat] : HexSteps(d, f, n)
    BY HexStepsExist
  <1>2. Is(f)
    BY <1>1 DEF HexSteps
  <1>3. Is(v)
    <2> HIDE DEF Is
    <2> QED BY <1>2
  <1>4. HexValue(d) = v[n]
    BY DEF HexValue
  <1>5. HexSteps(d, v, n)
    <2> HIDE DEF v
    <2> QED BY <1>3 DEF HexSteps
  <1>6. v[n] = f[n]
    <2> HIDE DEF v
    <2> QED BY <1>1, <1>5, HexStepsAgree
  <1> QED BY <1>1, <1>4, <1>6

\* ReadHexInt: no digit is 0, and one more digit counts 16 times what is before it.
LEMMA HexValueOfNone == HexValue(<<>>) = 0
  <1>1. <<>> \in Seq(Byte) /\ Len(<<>>) = 0
    OBVIOUS
  <1>2. PICK f \in [0 .. Len(<<>>) -> Nat] : HexSteps(<<>>, f, Len(<<>>)) /\ HexValue(<<>>) = f[Len(<<>>)]
    <2>1. \A i \in 1 .. Len(<<>>) : <<>>[i] \in DOMAIN HexDigits
      BY <1>1
    <2> QED BY <1>1, <2>1, HexValueDef, Zenon
  <1> QED BY <1>1, <1>2 DEF HexSteps

LEMMA HexValueOfMore ==
    ASSUME NEW d \in Seq(Byte), \A i \in 1 .. Len(d) : d[i] \in DOMAIN HexDigits,
           NEW c \in Byte, c \in DOMAIN HexDigits
    PROVE  /\ HexValue(d) \in Nat
           /\ HexValue(Append(d, c)) = 16 * HexValue(d) + HexDigits[c]
  <1> DEFINE n == Len(d)
             e == Append(d, c)
  <1>0. n \in Nat
    OBVIOUS
  <1>1. e \in Seq(Byte) /\ Len(e) = n + 1 /\ e[n + 1] = c /\ \A i \in 1 .. n : e[i] = d[i]
    OBVIOUS
  <1>2. PICK f \in [0 .. n -> Nat] : HexSteps(d, f, n) /\ HexValue(d) = f[n]
    BY HexValueDef
  <1>3. PICK g \in [0 .. n + 1 -> Nat] : HexSteps(e, g, n + 1) /\ HexValue(e) = g[n + 1]
    BY <1>1, HexValueDef
  <1>4. HexSteps(e, g, n)
    <2> HIDE DEF e, n
    <2>1. \A i \in 1 .. n : i \in 1 .. n + 1
      BY <1>0
    <2> QED BY <1>3, <2>1 DEF HexSteps
  <1>5. f[n] = g[n]
    <2> HIDE DEF e, n
    <2>1. \A i \in 1 .. n : d[i] = e[i]
      BY <1>1
    <2>2. ASSUME NEW u, NEW v, HexSteps(d, u, n), HexSteps(e, v, n) PROVE u[n] = v[n]
      BY <1>0, <2>1, <2>2, HexStepsAgree, SMT
    <2> QED BY <1>2, <1>4, <2>2, Zenon
  <1>6. g[n + 1] = 16 * g[n] + HexDigits[c]
    <2>1. n + 1 \in 1 .. n + 1 /\ (n + 1) - 1 = n
      OBVIOUS
    <2> HIDE DEF e
    <2> QED BY <1>1, <1>3, <2>1 DEF HexSteps
  <1> QED BY <1>2, <1>3, <1>5, <1>6

\* A function that at each place has its own value or the one it has further on.
Jumps(f, n, to, own) ==
    f = [i \in 1 .. n |-> IF to[i] \in i + 1 .. n THEN f[to[i]] ELSE own[i]]

LEMMA JumpsExist ==
    ASSUME NEW n \in Nat, NEW to, NEW own
    PROVE  \E f : Jumps(f, n, to, own)
  <1> DEFINE V == {own[i] : i \in 1 .. n}
             F == [i \in 1 .. n |-> [v \in V |-> v]]
  <1>1. \A i \in 1 .. n : own[i] \in V /\ \A v \in V : F[i][v] = v
    OBVIOUS
  <1> HIDE DEF V, F
  <1>2. PICK f \in [1 .. n -> V] : Recursive(f, n, to, own, F)
    <2>1. \A i \in 1 .. n : own[i] \in V /\ \A v \in V : F[i][v] \in V
      BY <1>1
    <2> QED BY <2>1, Recursion
  <1>3. ASSUME NEW i \in 1 .. n
        PROVE  f[i] = IF to[i] \in i + 1 .. n THEN f[to[i]] ELSE own[i]
    <2>1. to[i] \in i + 1 .. n => f[to[i]] \in V
      OBVIOUS
    <2> QED BY <1>1, <1>2, <2>1 DEF Recursive
  <1>4. f = [i \in 1 .. n |-> IF to[i] \in i + 1 .. n THEN f[to[i]] ELSE own[i]]
    BY <1>3
  <1> QED BY <1>4 DEF Jumps

-----------------------------------------------------------------------------
(* Chunks *)

\* A size line has one number of digits.
LEMMA SizeLineUnique ==
    ASSUME NEW s \in Seq(Byte), NEW i \in 1 .. Len(s) + 1, NEW k, NEW l,
           SizeLine(s, i, k), SizeLine(s, i, l)
    PROVE  k = l
  <1>1. k \in Nat /\ l \in Nat /\ k >= 1 /\ l >= 1 /\ i \in Nat
    BY LimitsAssumption DEF SizeLine
  <1>2. ASSUME NEW a \in Nat, NEW b \in Nat, a < b, a >= 1, SizeLine(s, i, a), SizeLine(s, i, b)
        PROVE  FALSE
    <2>1. i + a \in i .. i + b - 1
      BY <1>1, <1>2
    <2>2. s[i + a] = "\r" /\ s[i + a] \in DOMAIN HexDigits
      BY <1>2, <2>1 DEF SizeLine
    <2> QED BY <2>2, HexAssumption
  <1> QED BY <1>1, <1>2

\* The chunk of a size line with k digits.
LEMMA ChunkOf ==
    ASSUME NEW s \in Seq(Byte), NEW i \in 1 .. Len(s) + 1, NEW k, SizeLine(s, i, k)
    PROVE  /\ HasSizeLine(s, i) /\ SizeDigits(s, i) = k /\ k \in Nat /\ k >= 1
           /\ i + k + 1 <= Len(s)
           /\ SubSeq(s, i, i + k - 1) \in Seq(Byte)
           /\ ChunkSize(s, i) = HexValue(SubSeq(s, i, i + k - 1))
           /\ ChunkSize(s, i) \in Nat
           /\ ChunkAfter(s, i) = i + k + 2 + ChunkSize(s, i) + 2
  <1>1. HasSizeLine(s, i) /\ k \in 1 .. MaxHexIntChars
    BY DEF HasSizeLine, SizeLine
  <1>2. SizeDigits(s, i) = k
    <2>1. SizeLine(s, i, SizeDigits(s, i))
      BY <1>1 DEF SizeDigits, HasSizeLine
    <2> QED BY <2>1, SizeLineUnique
  <1>3. k \in Nat /\ k >= 1 /\ i + k + 1 <= Len(s)
    BY <1>1, LimitsAssumption DEF SizeLine
  <1> DEFINE d == SubSeq(s, i, i + k - 1)
  <1>4. d \in Seq(Byte) /\ Len(d) = k /\ \A j \in 1 .. k : d[j] = s[i + j - 1]
    BY <1>3
  <1>5. \A j \in 1 .. k : d[j] \in DOMAIN HexDigits
    <2> HIDE DEF d
    <2> QED BY <1>3, <1>4 DEF SizeLine
  <1>6. HexValue(d) \in Nat
    <2> HIDE DEF d
    <2> QED BY <1>3, <1>4, <1>5, HexValueDef
  <1> QED BY <1>1, <1>2, <1>3, <1>4, <1>6 DEF ChunkSize, ChunkAfter

\* The equation of ChunkedEnds.
LEMMA ChunkedEndsDef ==
    ASSUME NEW s \in Seq(Byte), NEW i \in 1 .. Len(s) + 1
    PROVE  ChunkedEnds(s)[i] =
               IF ~HasSizeLine(s, i) \/ ChunkAfter(s, i) > Len(s) + 1 THEN 0
               ELSE IF ChunkSize(s, i) = 0 THEN ChunkAfter(s, i) - 1
               ELSE ChunkedEnds(s)[ChunkAfter(s, i)]
  <1> DEFINE n == Len(s) + 1
             Ends(f, j) == IF ~HasSizeLine(s, j) \/ ChunkAfter(s, j) > n THEN 0
                           ELSE IF ChunkSize(s, j) = 0 THEN ChunkAfter(s, j) - 1
                           ELSE f[ChunkAfter(s, j)]
             Is(f) == f = [j \in 1 .. n |-> Ends(f, j)]
             Goes(j) == HasSizeLine(s, j) /\ ChunkSize(s, j) # 0
             to == [j \in 1 .. n |-> IF Goes(j) THEN ChunkAfter(s, j) ELSE 0]
             own == [j \in 1 .. n |-> IF ~HasSizeLine(s, j) \/ ChunkAfter(s, j) > n THEN 0
                                      ELSE ChunkAfter(s, j) - 1]
  <1>1. n \in Nat
    OBVIOUS
  <1>2. PICK f : Jumps(f, n, to, own)
    <2> HIDE DEF n, to, own
    <2> QED BY <1>1, JumpsExist
  <1>3. ASSUME NEW j \in 1 .. n
        PROVE  (IF to[j] \in j + 1 .. n THEN f[to[j]] ELSE own[j]) = Ends(f, j)
    <2>1. HasSizeLine(s, j) => ChunkAfter(s, j) \in Nat /\ ChunkAfter(s, j) > j
      <3>1. SUFFICES ASSUME HasSizeLine(s, j)
                     PROVE  ChunkAfter(s, j) \in Nat /\ ChunkAfter(s, j) > j
        OBVIOUS
      <3>2. PICK k : SizeLine(s, j, k)
        BY <3>1 DEF HasSizeLine
      <3> QED BY <3>2, ChunkOf
    <2>2. to[j] = IF Goes(j) THEN ChunkAfter(s, j) ELSE 0
      OBVIOUS
    <2>3. own[j] = IF ~HasSizeLine(s, j) \/ ChunkAfter(s, j) > n THEN 0 ELSE ChunkAfter(s, j) - 1
      OBVIOUS
    <2> HIDE DEF to, own
    <2> QED BY <1>1, <2>1, <2>2, <2>3
  <1>4. Is(f)
    <2> HIDE DEF to, own, Ends, n
    <2> QED BY <1>2, <1>3 DEF Jumps
  <1>5. Is(ChunkedEnds(s))
    <2>1. ChunkedEnds(s) = CHOOSE g : Is(g)
      BY DEF ChunkedEnds
    <2> HIDE DEF Is
    <2> QED BY <1>4, <2>1
  <1>6. ChunkedEnds(s)[i] = Ends(ChunkedEnds(s), i)
    <2> HIDE DEF Ends
    <2> QED BY <1>5
  <1> QED BY <1>6

-----------------------------------------------------------------------------
(* Lines and headers *)

\* Whether an empty line ends at i depends on the bytes up to i.
LEMMA EmptyLineLocal ==
    ASSUME NEW b, NEW c, NEW i \in Nat, i >= 1, \A j \in 1 .. i : b[j] = c[j]
    PROVE  EmptyLineEnds(b, i) <=> EmptyLineEnds(c, i)
  <1>1. i \in 1 .. i /\ (i > 1 => i - 1 \in 1 .. i) /\ (i > 2 => (i - 1) - 1 \in 1 .. i)
    OBVIOUS
  <1> QED BY <1>1 DEF EmptyLineEnds

LEMMA HeaderLenIs ==
    ASSUME NEW b \in Seq(Byte)
    PROVE  /\ HeaderLen(b) \in 0 .. Len(b)
           /\ HeaderLen(b) > 0 => EmptyLineEnds(b, HeaderLen(b))
           /\ HeaderLen(b) > 0 => \A i \in 1 .. HeaderLen(b) - 1 : ~EmptyLineEnds(b, i)
           /\ HeaderLen(b) = 0 => \A i \in 1 .. Len(b) : ~EmptyLineEnds(b, i)
  <1> DEFINE Ends == {i \in DOMAIN b : EmptyLineEnds(b, i)}
  <1>0. DOMAIN b = 1 .. Len(b)
    OBVIOUS
  <1>1. HeaderLen(b) = IF Ends = {} THEN 0 ELSE Min(Ends)
    BY DEF HeaderLen
  <1>2. CASE Ends = {}
    BY <1>0, <1>1, <1>2
  <1>3. CASE Ends # {}
    <2>1. Ends \subseteq Nat
      BY <1>0
    <2>2. HeaderLen(b) \in Ends /\ \A k \in Ends : HeaderLen(b) <= k
      <3> HIDE DEF Ends
      <3> QED BY <1>1, <1>3, <2>1, MinOf
    <2>3. HeaderLen(b) \in 1 .. Len(b) /\ EmptyLineEnds(b, HeaderLen(b))
      BY <1>0, <2>2
    <2>4. ASSUME NEW i \in 1 .. HeaderLen(b) - 1, EmptyLineEnds(b, i) PROVE FALSE
      <3>1. i \in Ends
        BY <1>0, <2>3, <2>4
      <3> QED BY <2>2, <2>3, <3>1
    <2> QED BY <2>3, <2>4
  <1> QED BY <1>2, <1>3

\* The header's end is where the first empty line ends.
LEMMA HeaderLenAt ==
    ASSUME NEW b \in Seq(Byte), NEW k \in 1 .. Len(b), EmptyLineEnds(b, k),
           \A i \in 1 .. k - 1 : ~EmptyLineEnds(b, i)
    PROVE  HeaderLen(b) = k
  <1>1. HeaderLen(b) # 0
    BY HeaderLenIs
  <1>2. HeaderLen(b) \in 1 .. Len(b) /\ EmptyLineEnds(b, HeaderLen(b))
        /\ \A i \in 1 .. HeaderLen(b) - 1 : ~EmptyLineEnds(b, i)
    BY <1>1, HeaderLenIs
  <1>3. ~(HeaderLen(b) < k)
    BY <1>2
  <1>4. ~(k < HeaderLen(b))
    BY <1>2
  <1> QED BY <1>2, <1>3, <1>4

LEMMA LineLenIs ==
    ASSUME NEW b \in Seq(Byte)
    PROVE  /\ LineLen(b) \in 0 .. Len(b)
           /\ LineLen(b) > 0 => b[LineLen(b)] = "\n"
           /\ LineLen(b) > 0 => \A i \in 1 .. LineLen(b) - 1 : b[i] # "\n"
           /\ LineLen(b) = 0 => \A i \in 1 .. Len(b) : b[i] # "\n"
  <1> DEFINE Ends == {i \in 1 .. Len(b) : b[i] = "\n"}
  <1>1. LineLen(b) = IF Ends # {} THEN Min(Ends) ELSE 0
    BY DEF LineLen, SelectInSeq
  <1>2. CASE Ends = {}
    BY <1>1, <1>2
  <1>3. CASE Ends # {}
    <2>1. Ends \subseteq Nat
      OBVIOUS
    <2>2. LineLen(b) \in Ends /\ \A k \in Ends : LineLen(b) <= k
      <3> HIDE DEF Ends
      <3> QED BY <1>1, <1>3, <2>1, MinOf
    <2>3. LineLen(b) \in 1 .. Len(b) /\ b[LineLen(b)] = "\n"
      BY <2>2
    <2>4. ASSUME NEW i \in 1 .. LineLen(b) - 1, b[i] = "\n" PROVE FALSE
      <3>1. i \in Ends
        BY <2>3, <2>4
      <3> QED BY <2>2, <2>3, <3>1
    <2> QED BY <2>3, <2>4
  <1> QED BY <1>2, <1>3

LEMMA LineLenAt ==
    ASSUME NEW b \in Seq(Byte), NEW k \in 1 .. Len(b), b[k] = "\n",
           \A i \in 1 .. k - 1 : b[i] # "\n"
    PROVE  LineLen(b) = k
  <1>1. LineLen(b) # 0
    BY LineLenIs
  <1>2. LineLen(b) \in 1 .. Len(b) /\ b[LineLen(b)] = "\n"
        /\ \A i \in 1 .. LineLen(b) - 1 : b[i] # "\n"
    BY <1>1, LineLenIs
  <1>3. ~(LineLen(b) < k)
    BY <1>2
  <1>4. ~(k < LineLen(b))
    BY <1>2
  <1> QED BY <1>2, <1>3, <1>4

\* A body's type: -1, -2 or a length.
LEMMA ContentLengthType ==
    ASSUME NEW fields \in Seq(Byte)
    PROVE  ContentLength(fields) \in Int /\ ContentLength(fields) >= -2
  <1> DEFINE Encodings == {i \in DOMAIN fields : fields[i] \in {"chunked", "identity"}}
             Positive == {i \in DOMAIN fields :
                             fields[i] \in DOMAIN Lengths /\ Lengths[fields[i]] > 0}
  <1>1. ContentLength(fields) =
            CASE Encodings # {} -> IF fields[Max(Encodings)] = "chunked" THEN -1 ELSE -2
              [] Encodings = {} /\ Positive # {} -> Lengths[fields[Max(Positive)]]
              [] OTHER -> 0
    BY DEF ContentLength
  <1>2. Positive # {} => Lengths[fields[Max(Positive)]] \in Nat
    <2>1. SUFFICES ASSUME Positive # {} PROVE Lengths[fields[Max(Positive)]] \in Nat
      OBVIOUS
    <2>2. Positive \subseteq 1 .. Len(fields) /\ Len(fields) \in Nat
      OBVIOUS
    <2>3. Max(Positive) \in Positive
      <3> HIDE DEF Positive
      <3> QED BY <2>1, <2>2, MaxOf
    <2>4. fields[Max(Positive)] \in DOMAIN Lengths
      BY <2>3
    <2> HIDE DEF Positive
    <2> QED BY <2>4, LengthsAssumption
  <1> HIDE DEF Encodings, Positive
  <1> QED BY <1>1, <1>2

-----------------------------------------------------------------------------
(* Where the parts of the text are *)

LEMMA ScriptFacts ==
    ASSUME ExTypeOK
    PROVE  /\ IsReply(script) /\ IsMessage(script)
           /\ script.reply \in Seq(Byte) /\ script.header \in Seq(Byte)
           /\ script.body \in Seq(Byte) /\ script.next \in Seq(Byte)
           /\ R \in Nat /\ H \in Nat /\ B \in Nat /\ N \in Nat /\ H >= 1
           /\ Arrived \in Nat
  <1>1. IsReply(script) /\ IsMessage(script)
    BY ScriptsAssumption DEF ExTypeOK
  <1>2. /\ script.reply \in Seq(Byte) /\ script.header \in Seq(Byte)
        /\ script.body \in Seq(Byte) /\ script.next \in Seq(Byte) /\ script.header # <<>>
    BY <1>1 DEF IsReply, IsMessage
  <1>3. R \in Nat /\ H \in Nat /\ B \in Nat /\ N \in Nat /\ H >= 1
    BY <1>2 DEF R, H, B, N
  <1> QED BY <1>1, <1>2, <1>3 DEF Arrived

LEMMA TextAt ==
    ASSUME ExTypeOK
    PROVE  /\ Rest \in Seq(Byte) /\ Len(Rest) = B + N
           /\ Message \in Seq(Byte) /\ Len(Message) = H + B + N
           /\ \A i \in 1 .. B : Rest[i] = script.body[i]
           /\ \A i \in 1 .. N : Rest[B + i] = script.next[i]
           /\ \A i \in 1 .. R : Text[i] = script.reply[i]
           /\ \A i \in 1 .. H : Text[R + i] = script.header[i]
           /\ \A i \in 1 .. H : Message[i] = script.header[i]
           /\ \A i \in 1 .. B + N : Text[R + H + i] = Rest[i]
           /\ \A i \in 1 .. H + B + N : Text[R + i] = Message[i]
  <1> DEFINE h == script.header
             b == script.body
             n == script.next
             r == script.reply
  <1>1. /\ r \in Seq(Byte) /\ h \in Seq(Byte) /\ b \in Seq(Byte) /\ n \in Seq(Byte)
        /\ R = Len(r) /\ H = Len(h) /\ B = Len(b) /\ N = Len(n)
        /\ R \in Nat /\ H \in Nat /\ B \in Nat /\ N \in Nat
    BY ScriptFacts DEF R, H, B, N
  <1>2. Rest = b \o n /\ Message = (h \o b) \o n /\ Text = r \o Message
    BY DEF Rest, Message, Text
  <1> HIDE DEF h, b, n, r
  <1>3. /\ Rest \in Seq(Byte) /\ Len(Rest) = B + N
        /\ \A i \in 1 .. B + N : Rest[i] = IF i <= B THEN b[i] ELSE n[i - B]
    BY <1>1, <1>2, ConcatProperties
  <1>4. /\ h \o b \in Seq(Byte) /\ Len(h \o b) = H + B
        /\ \A i \in 1 .. H + B : (h \o b)[i] = IF i <= H THEN h[i] ELSE b[i - H]
    BY <1>1, ConcatProperties
  <1>5. /\ Message \in Seq(Byte) /\ Len(Message) = H + B + N
        /\ \A i \in 1 .. H + B + N : Message[i] = IF i <= H + B THEN (h \o b)[i] ELSE n[i - (H + B)]
    BY <1>1, <1>2, <1>4, ConcatProperties
  <1>6. \A i \in 1 .. R + (H + B + N) : Text[i] = IF i <= R THEN r[i] ELSE Message[i - R]
    BY <1>1, <1>2, <1>5, ConcatProperties
  <1>7. \A i \in 1 .. H + B + N : Text[R + i] = Message[i]
    BY <1>1, <1>6
  <1>8. ASSUME NEW i \in 1 .. H PROVE Message[i] = h[i]
    <2>1. i \in 1 .. H + B + N /\ i \in 1 .. H + B /\ i <= H /\ i <= H + B
      BY <1>1
    <2> QED BY <1>4, <1>5, <2>1
  <1>9. ASSUME NEW i \in 1 .. B + N PROVE Text[R + H + i] = Rest[i]
    <2>1. H + i \in 1 .. H + B + N /\ R + (H + i) = R + H + i
      BY <1>1
    <2>2. Text[R + H + i] = Message[H + i]
      BY <1>7, <2>1
    <2>3. CASE i <= B
      <3>1. H + i \in 1 .. H + B /\ H + i <= H + B /\ ~(H + i <= H) /\ (H + i) - H = i
        BY <1>1, <2>3
      <3> QED BY <1>3, <1>4, <1>5, <2>1, <2>2, <2>3, <3>1
    <2>4. CASE i > B
      <3>1. ~(H + i <= H + B) /\ (H + i) - (H + B) = i - B /\ ~(i <= B)
        BY <1>1, <2>4
      <3> QED BY <1>3, <1>5, <2>1, <2>2, <3>1
    <2> QED BY <1>1, <2>3, <2>4
  <1>10. ASSUME NEW i \in 1 .. H PROVE Text[R + i] = h[i]
    <2>1. i \in 1 .. H + B + N
      BY <1>1
    <2> QED BY <1>7, <1>8, <2>1
  <1>11. ASSUME NEW i \in 1 .. R PROVE Text[i] = r[i]
    <2>1. i \in 1 .. R + (H + B + N) /\ i <= R
      BY <1>1
    <2> QED BY <1>6, <2>1
  <1>12. \A i \in 1 .. B : Rest[i] = b[i]
    BY <1>1, <1>3
  <1>13. ASSUME NEW i \in 1 .. N PROVE Rest[B + i] = n[i]
    <2>1. B + i \in 1 .. B + N /\ ~(B + i <= B) /\ (B + i) - B = i
      BY <1>1
    <2> QED BY <1>3, <2>1
  <1> QED BY <1>3, <1>5, <1>7, <1>8, <1>9, <1>10, <1>11, <1>12, <1>13 DEF h, b, n, r

\* The message's first empty line ends its header.
LEMMA MessageHeader ==
    ASSUME ExTypeOK
    PROVE  EmptyLineEnds(Message, H) /\ \A i \in 1 .. H - 1 : ~EmptyLineEnds(Message, i)
  <1>1. script.header \in Seq(Byte) /\ HeaderLen(script.header) = H /\ H \in Nat /\ H >= 1
    BY ScriptFacts DEF IsMessage, H
  <1>2. EmptyLineEnds(script.header, H) /\ \A i \in 1 .. H - 1 : ~EmptyLineEnds(script.header, i)
    BY <1>1, HeaderLenIs
  <1>3. ASSUME NEW i \in 1 .. H PROVE EmptyLineEnds(Message, i) <=> EmptyLineEnds(script.header, i)
    <2>1. i \in Nat /\ i >= 1 /\ \A j \in 1 .. i : Message[j] = script.header[j]
      BY <1>1, TextAt
    <2> QED BY <2>1, EmptyLineLocal
  <1> QED BY <1>1, <1>2, <1>3

-----------------------------------------------------------------------------
(* Moving on in the stream *)

\* Discard, ReadByte: the first k bytes of the buffer are consumed.
LEMMA Consume ==
    ASSUME ExTypeOK, NEW pos \in Nat, Holds(pos), NEW k \in 0 .. Len(buf),
           buf' = From(buf, k + 1), UNCHANGED <<wire, script, sent, cut>>
    PROVE  /\ buf' \in Seq(Byte) /\ Len(buf') = Len(buf) - k
           /\ \A i \in 1 .. Len(buf) - k : buf'[i] = buf[k + i]
           /\ pos + k \in 0 .. Arrived' /\ Holds(pos + k)'
  <1>1. /\ buf \in Seq(Byte) /\ wire \in Seq(Byte) /\ Len(buf) \in Nat /\ Len(wire) \in Nat
        /\ Arrived \in Nat
    BY ScriptFacts DEF ExTypeOK
  <1>2. /\ buf' \in Seq(Byte) /\ Len(buf') = Len(buf) - k
        /\ \A i \in 1 .. Len(buf) - k : buf'[i] = buf[k + i]
    BY <1>1 DEF From
  <1>3. Arrived' = Arrived /\ Text' = Text
    BY DEF Arrived, Text, Message, R, H, B, N
  <1>4. ASSUME NEW i \in 1 .. Len(buf') PROVE buf'[i] = Text[(pos + k) + i]
    <2>1. k + i \in 1 .. Len(buf) /\ pos + (k + i) = (pos + k) + i
      BY <1>1, <1>2
    <2> QED BY <1>2, <2>1 DEF Holds
  <1>5. (pos + k) + Len(buf') = pos + Len(buf) /\ k \in Nat
    <2>1. Len(buf') = Len(buf) - k /\ Len(buf) \in Nat
      BY <1>1, <1>2
    <2> QED BY <2>1
  <1>6. ASSUME NEW i \in 1 .. Len(wire') PROVE wire'[i] = Text[(pos + k) + Len(buf') + i]
    BY <1>5 DEF Holds
  <1>7. /\ (pos + k) + Len(buf') + Len(wire') <= Arrived
        /\ cut \/ (pos + k) + Len(buf') + Len(wire') = Arrived
    BY <1>5 DEF Holds
  <1>8. Holds(pos + k)'
    BY <1>3, <1>4, <1>6, <1>7 DEF Holds
  <1>9. pos + k \in 0 .. Arrived
    <2>1. Len(buf') \in Nat
      BY <1>2
    <2> QED BY <1>1, <1>5, <1>7, <2>1
  <1> QED BY <1>2, <1>3, <1>8, <1>9

\* io.ReadFull: the first k bytes of the wire are consumed.
LEMMA Read ==
    ASSUME ExTypeOK, NEW pos \in Nat, Holds(pos), buf = <<>>, NEW k \in Nat, ReadFull(k),
           UNCHANGED <<script, sent, cut>>
    PROVE  /\ wire' \in Seq(Byte) /\ buf' = <<>> /\ k <= Len(wire)
           /\ \A i \in 1 .. k : SubSeq(wire, 1, k)[i] = Text[pos + i]
           /\ pos + k <= Arrived
           /\ pos + k \in 0 .. Arrived' /\ Holds(pos + k)'
  <1>1. /\ wire \in Seq(Byte) /\ Len(wire) \in Nat /\ Len(buf) = 0 /\ Arrived \in Nat
        /\ k <= Len(wire) /\ buf' = <<>> /\ wire' = From(wire, k + 1)
    BY ScriptFacts DEF ExTypeOK, ReadFull
  <1>2. /\ wire' \in Seq(Byte) /\ Len(wire') = Len(wire) - k
        /\ \A i \in 1 .. Len(wire) - k : wire'[i] = wire[k + i]
    BY <1>1 DEF From
  <1>3. Arrived' = Arrived /\ Text' = Text
    BY DEF Arrived, Text, Message, R, H, B, N
  <1>4. \A i \in 1 .. Len(wire) : wire[i] = Text[pos + i]
    BY <1>1 DEF Holds
  <1>5. ASSUME NEW i \in 1 .. Len(wire') PROVE wire'[i] = Text[(pos + k) + 0 + i]
    <2>1. k + i \in 1 .. Len(wire) /\ pos + (k + i) = (pos + k) + 0 + i
      BY <1>1, <1>2
    <2> QED BY <1>2, <1>4, <2>1
  <1>6. \A i \in 1 .. k : SubSeq(wire, 1, k)[i] = Text[pos + i]
    <2>1. \A i \in 1 .. k : SubSeq(wire, 1, k)[i] = wire[i] /\ i \in 1 .. Len(wire)
      BY <1>1
    <2> QED BY <1>4, <2>1
  <1>7. Len(buf') = 0
    BY <1>1
  <1>8. pos + k <= Arrived /\ (pos + k) + 0 + Len(wire') = pos + 0 + Len(wire)
    <2>1. pos + 0 + Len(wire) <= Arrived
      BY <1>1 DEF Holds
    <2>2. Len(wire') = Len(wire) - k /\ Len(wire) \in Nat /\ k <= Len(wire) /\ Arrived \in Nat
      BY <1>1, <1>2
    <2> QED BY <2>1, <2>2
  <1>9. Holds(pos + k)'
    BY <1>1, <1>2, <1>3, <1>5, <1>7, <1>8 DEF Holds
  <1> QED BY <1>1, <1>2, <1>3, <1>6, <1>8, <1>9

-----------------------------------------------------------------------------
(* A step keeps the invariant *)

LEMMA Same ==
    ASSUME script' = script
    PROVE  /\ R' = R /\ H' = H /\ B' = B /\ N' = N
           /\ Text' = Text /\ Rest' = Rest /\ Message' = Message
           /\ sent' = sent => Arrived' = Arrived
  <1>1. R' = R /\ H' = H /\ B' = B /\ N' = N
    BY DEF R, H, B, N
  <1>2. Rest' = Rest /\ Message' = Message
    BY DEF Rest, Message
  <1>3. Text' = Text
    BY <1>2 DEF Text
  <1>4. sent' = sent => Arrived' = Arrived
    BY <1>1 DEF Arrived
  <1> QED BY <1>1, <1>2, <1>3, <1>4

\* The reader goes to q.
LEMMA Moves ==
    ASSUME ExInv, ExTypeOK', UNCHANGED <<closed, script, sent, cut>>,
           p'.at \notin {"failed", "aborted", "panicked"},
           NEW q \in 0 .. Arrived', Holds(q)', Place(q)'
    PROVE  ExInv'
  <1>1. Failing'
    BY DEF Failing
  <1> QED BY <1>1 DEF ExInv

LEMMA MovesToHTTP ==
    ASSUME ExInv, ExTypeOK', UNCHANGED <<closed, script, sent, cut>>,
           p'.at \in HTTPPhases, NEW q \in 0 .. Arrived', Holds(q)', HTTPPlace(q)'
    PROVE  ExInv'
  <1>1. Place(q)' /\ p'.at \notin {"failed", "aborted", "panicked"}
    BY DEF Place, HTTPPhases, SOCKS5Phases, MessagePhases
  <1> QED BY <1>1, Moves

LEMMA MovesToSOCKS5 ==
    ASSUME ExInv, ExTypeOK', UNCHANGED <<closed, script, sent, cut>>,
           p'.at \in SOCKS5Phases, NEW q \in 0 .. Arrived', Holds(q)', SOCKS5Place(q)'
    PROVE  ExInv'
  <1>1. Place(q)' /\ p'.at \notin {"failed", "aborted", "panicked"}
    BY DEF Place, HTTPPhases, SOCKS5Phases, MessagePhases
  <1> QED BY <1>1, Moves

LEMMA MovesToHeader ==
    ASSUME ExInv, ExTypeOK', UNCHANGED <<closed, script, sent, cut>>, Accepts(script),
           p'.at = "header", NEW q \in 0 .. Arrived', Holds(q)', HeaderPlace(q)'
    PROVE  ExInv'
  <1>1. Place(q)' /\ p'.at \notin {"failed", "aborted", "panicked"}
    BY DEF Place, HTTPPhases, SOCKS5Phases
  <1> QED BY <1>1, Moves

LEMMA MovesToBody ==
    ASSUME ExInv, ExTypeOK', UNCHANGED <<closed, script, sent, cut>>, Accepts(script),
           p'.at \in {"fixed", "hex", "cr", "lf"}, NEW q \in 0 .. Arrived', Holds(q)', BodyPlace(q)'
    PROVE  ExInv'
  <1>1. Place(q)' /\ p'.at \notin {"failed", "aborted", "panicked"}
    BY DEF Place, HTTPPhases, SOCKS5Phases
  <1> QED BY <1>1, Moves

LEMMA MovesToDone ==
    ASSUME ExInv, ExTypeOK', UNCHANGED <<closed, script, sent, cut>>, Accepts(script),
           p'.at = "done", NEW q \in 0 .. Arrived', Holds(q)', DonePlace(q)'
    PROVE  ExInv'
  <1>1. Place(q)' /\ p'.at \notin {"failed", "aborted", "panicked"}
    BY DEF Place, HTTPPhases, SOCKS5Phases, MessagePhases
  <1> QED BY <1>1, Moves

\* The parser gives up.
LEMMA GivesUp ==
    ASSUME ExInv, NEW how \in {"failed", "aborted", "panicked"}, p' = [p EXCEPT !.at = how],
           wire' \in Seq(Byte), buf' \in Seq(Byte), open' \in BOOLEAN,
           UNCHANGED <<closed, script, sent, cut>>,
           how = "panicked" => Accepts(script) /\ ~WellFormed(script) /\ "0xFF" \in Range(Rest),
           how = "failed" => cut \/ ~Accepts(script) \/ ~WellFormed(script) \/ ~Fits(script)
    PROVE  ExInv'
  <1>1. p \in Parser /\ how \in Phases
    BY DEF ExInv, ExTypeOK, Phases
  <1>2. p' \in Parser /\ p'.at = how
    BY <1>1 DEF Parser
  <1>3. ExTypeOK'
    BY <1>2 DEF ExInv, ExTypeOK
  <1>4. Failing'
    BY <1>2, Same DEF Failing
  <1> QED BY <1>2, <1>3, <1>4 DEF ExInv

\* Where the reader is.
LEMMA At ==
    ASSUME ExInv, p.at \notin {"failed", "aborted", "panicked"}
    PROVE  /\ ExTypeOK /\ p \in Parser /\ wire \in Seq(Byte) /\ buf \in Seq(Byte)
           /\ Len(wire) \in Nat /\ Len(buf) \in Nat /\ Arrived \in Nat
           /\ \E pos \in Nat : pos <= Arrived /\ Holds(pos) /\ Place(pos)
  <1>1. ExTypeOK /\ p \in Parser /\ wire \in Seq(Byte) /\ buf \in Seq(Byte)
    BY DEF ExInv, ExTypeOK
  <1>2. Arrived \in Nat
    BY <1>1, ScriptFacts
  <1>3. PICK pos \in 0 .. Arrived : Holds(pos) /\ Place(pos)
    BY DEF ExInv
  <1>4. pos \in Nat /\ pos <= Arrived
    BY <1>2
  <1> QED BY <1>1, <1>2, <1>3, <1>4

\* The place does not depend on the wire.
LEMMA PlaceSame ==
    ASSUME NEW pos, Place(pos), UNCHANGED <<p, buf, script, sent>>, cut => cut'
    PROVE  Place(pos)'
  <1>1. p.at \in HTTPPhases => HTTPPlace(pos)'
    BY DEF Place, HTTPPlace
  <1>2. p.at \in SOCKS5Phases => SOCKS5Place(pos)'
    BY Same DEF Place, SOCKS5Place
  <1>3. p.at = "header" => HeaderPlace(pos)'
    BY Same DEF Place, HeaderPlace
  <1>4. Passed' = Passed /\ FixedPlace(pos)' = FixedPlace(pos) /\ LinePlace(pos)' = LinePlace(pos)
    BY Same DEF Passed, FixedPlace, LinePlace
  <1>5. p.at \in MessagePhases \ {"header"} => BodyPlace(pos)'
    BY <1>4 DEF Place, BodyPlace
  <1>6. p.at = "done" => DonePlace(pos)'
    BY <1>4, Same DEF Place, DonePlace
  <1> QED BY <1>1, <1>2, <1>3, <1>5, <1>6 DEF Place

LEMMA StartHeaderType == StartHeader \in Parser
  <1>1. <<>> \in Seq(Byte) /\ "header" \in Phases
    BY DEF Phases, MessagePhases
  <1> QED BY <1>1 DEF StartHeader, Parser

LEMMA InitInv == Init => ExInv
  <1> SUFFICES ASSUME Init PROVE ExInv
    OBVIOUS
  <1>1. script \in Scripts
    BY DEF Init
  <1>2. IsReply(script) /\ IsMessage(script)
    BY <1>1, ScriptsAssumption
  <1>3. script.proxy \in {"none", "http", "socks5"} /\ script.reply \in Seq(Byte)
    BY <1>2 DEF IsReply
  <1>4. StartHeader \in Parser
    BY StartHeaderType
  <1>5. p \in Parser
    <2>1. "http start line" \in Phases /\ "greeting" \in Phases
      BY DEF Phases, HTTPPhases, SOCKS5Phases
    <2> QED BY <1>3, <1>4, <2>1 DEF Init, StartTunnel, Parser
  <1>6. ExTypeOK
    <2>1. wire \in Seq(Byte) /\ buf \in Seq(Byte)
      BY <1>3 DEF Init
    <2>2. closed \in BOOLEAN /\ open \in BOOLEAN /\ sent \in BOOLEAN /\ cut \in BOOLEAN
      BY DEF Init
    <2> QED BY <1>1, <1>5, <2>1, <2>2 DEF ExTypeOK
  <1>7. /\ Arrived = R /\ R \in Nat /\ wire = script.reply /\ buf = <<>> /\ ~cut /\ ~sent /\ ~closed
        /\ Len(wire) = R /\ Len(buf) = 0
    BY <1>6, ScriptFacts DEF Init, Arrived, R
  <1>8. Holds(0)
    <2>1. 0 + Len(buf) + Len(wire) = Arrived /\ 0 + Len(buf) + Len(wire) <= Arrived
      BY <1>7
    <2>2. \A i \in 1 .. Len(buf) : buf[i] = Text[0 + i]
      BY <1>7
    <2>3. ASSUME NEW i \in 1 .. Len(wire) PROVE wire[i] = Text[0 + Len(buf) + i]
      <3>1. 0 + Len(buf) + i = i /\ i \in 1 .. R
        BY <1>7
      <3> QED BY <1>6, <1>7, <3>1, TextAt
    <2> QED BY <2>1, <2>2, <2>3 DEF Holds
  <1>9. Place(0)
    <2>1. CASE script.proxy = "none"
      <3>1. p = StartHeader /\ p.at = "header" /\ p.n = 1 /\ p.out = <<>> /\ p.chunk = <<>>
            /\ p.digits = 0 /\ p.size = 0
        BY <2>1 DEF Init, StartTunnel, StartHeader
      <3>2. R = 0
        BY <1>2, <2>1 DEF IsReply, R
      <3>3. HeaderPlace(0)
        BY <1>7, <3>1, <3>2 DEF HeaderPlace
      <3> QED BY <2>1, <3>1, <3>3 DEF Place, Accepts, HTTPPhases, SOCKS5Phases
    <2>2. CASE script.proxy = "http"
      <3>1. p.at = "http start line" /\ p.n = 1
        BY <2>2 DEF Init, StartTunnel, StartHeader
      <3>2. HTTPPlace(0)
        <4>1. p.n >= 1
          <5>1. p.n = 1
            BY <3>1
          <5> QED BY <5>1
        <4>2. p.at # "http header"
          BY <3>1
        <4> QED BY <1>7, <2>2, <4>1, <4>2, Zenon DEF HTTPPlace
      <3> QED BY <3>1, <3>2 DEF Place, SOCKS5Phases, MessagePhases
    <2>3. CASE script.proxy = "socks5"
      <3>1. p.at = "greeting" /\ p.n = 0
        BY <2>3 DEF Init, StartTunnel, StartHeader
      <3>2. SOCKS5Place(0)
        BY <1>7, <2>3, <3>1 DEF SOCKS5Place
      <3> QED BY <3>1, <3>2 DEF Place, HTTPPhases, MessagePhases
    <2> QED BY <1>3, <2>1, <2>2, <2>3
  <1>10. p.at \notin {"failed", "panicked"}
    BY <1>3 DEF Init, StartTunnel, StartHeader
  <1> QED BY <1>6, <1>7, <1>8, <1>9, <1>10 DEF ExInv, Failing

-----------------------------------------------------------------------------
(* The peer and the network *)

\* The target sends: what is on the wire goes on with the message.
LEMMA TargetSendsInv ==
    ASSUME ExInv, TargetSends, ~Robbed'
    PROVE  ExInv'
  <1>1. /\ ~sent /\ ~closed /\ sent' /\ wire' = wire \o Message
        /\ UNCHANGED <<buf, closed, p, open, script, cut>>
    BY DEF TargetSends
  <1>2. ~cut /\ ExTypeOK /\ wire \in Seq(Byte) /\ buf \in Seq(Byte)
    BY <1>1 DEF ExInv, ExTypeOK
  <1>3. /\ Message \in Seq(Byte) /\ Len(Message) = H + B + N
        /\ \A i \in 1 .. H + B + N : Text[R + i] = Message[i]
        /\ R \in Nat /\ H \in Nat /\ B \in Nat /\ N \in Nat
    BY <1>2, TextAt, ScriptFacts
  <1>4. /\ wire' \in Seq(Byte) /\ Len(wire') = Len(wire) + (H + B + N)
        /\ \A i \in 1 .. Len(wire) + (H + B + N) :
              wire'[i] = IF i <= Len(wire) THEN wire[i] ELSE Message[i - Len(wire)]
    <2>1. /\ wire \o Message \in Seq(Byte) /\ Len(wire \o Message) = Len(wire) + Len(Message)
          /\ \A i \in 1 .. Len(wire) + Len(Message) :
                (wire \o Message)[i] = IF i <= Len(wire) THEN wire[i] ELSE Message[i - Len(wire)]
      BY <1>2, <1>3, ConcatProperties
    <2>2. Len(Message) = H + B + N /\ wire' = wire \o Message
      BY <1>1, <1>3
    <2> HIDE DEF Message
    <2> QED BY <2>1, <2>2, Zenon
  <1>5. ExTypeOK'
    BY <1>1, <1>2, <1>4 DEF ExTypeOK
  <1>6. Arrived = R /\ Arrived' = R + H + B + N /\ Text' = Text
    BY <1>1, Same DEF Arrived
  <1>7. Failing'
    BY <1>1, Same DEF ExInv, Failing
  <1>8. ASSUME p.at \notin {"failed", "aborted", "panicked"}
        PROVE  \E pos \in 0 .. Arrived' : Holds(pos)' /\ Place(pos)'
    <2>1. PICK pos \in Nat : pos <= Arrived /\ Holds(pos) /\ Place(pos)
      BY <1>8, At
    <2>2. Len(wire) \in Nat /\ Len(buf) \in Nat /\ pos + Len(buf) + Len(wire) = R
      BY <1>2, <1>6, <2>1 DEF Holds
    <2>3. pos + Len(buf) + Len(wire') = Arrived'
      <3>1. Len(wire') = Len(wire) + (H + B + N)
        BY <1>4
      <3> QED BY <1>3, <1>6, <2>2, <3>1
    <2>4. ASSUME NEW i \in 1 .. Len(wire') PROVE wire'[i] = Text[pos + Len(buf) + i]
      <3>1. i \in 1 .. Len(wire) + (H + B + N)
        BY <1>4
      <3>2. CASE i <= Len(wire)
        <4>1. i \in 1 .. Len(wire)
          BY <2>2, <3>1, <3>2
        <4> QED BY <1>4, <2>1, <3>1, <3>2, <4>1 DEF Holds
      <3>3. CASE ~(i <= Len(wire))
        <4>1. i - Len(wire) \in 1 .. H + B + N /\ R + (i - Len(wire)) = pos + Len(buf) + i
          BY <1>3, <2>2, <3>1, <3>3
        <4> QED BY <1>3, <1>4, <3>1, <3>3, <4>1
      <3> QED BY <3>2, <3>3
    <2>5. Holds(pos)'
      <3>1. \A i \in 1 .. Len(buf') : buf'[i] = Text'[pos + i]
        BY <1>1, <1>6, <2>1 DEF Holds
      <3>2. \A i \in 1 .. Len(wire') : wire'[i] = Text'[pos + Len(buf') + i]
        BY <1>1, <1>6, <2>4
      <3>3. pos + Len(buf') + Len(wire') = Arrived' /\ Arrived' \in Nat
        BY <1>1, <1>3, <1>6, <2>3
      <3> QED BY <3>1, <3>2, <3>3 DEF Holds
    <2>6. pos \in 0 .. Arrived'
      BY <1>3, <1>6, <2>1
    <2>7. p.at \notin HTTPPhases
      <3>1. SUFFICES ASSUME p.at \in HTTPPhases PROVE FALSE
        OBVIOUS
      <3>2. script.proxy = "http"
        BY <2>1, <3>1 DEF Place, HTTPPlace
      <3>3. early'
        BY <3>1 DEF TargetSends, InTunnel
      <3> QED BY <1>1, <3>2, <3>3 DEF Robbed
    <2>8. Place(pos)'
      BY <1>1, <2>1, <2>7, Same
         DEF Place, SOCKS5Place, HeaderPlace, BodyPlace, FixedPlace, LinePlace, DonePlace, Passed
    <2> QED BY <2>5, <2>6, <2>8
  <1> QED BY <1>1, <1>2, <1>5, <1>7, <1>8 DEF ExInv

LEMMA PeerClosesInv ==
    ASSUME ExInv, PeerCloses
    PROVE  ExInv'
  <1>1. /\ sent \/ ~Accepts(script)
        /\ closed' /\ UNCHANGED <<wire, buf, p, open, script, sent, cut>>
    BY DEF PeerCloses
  <1>2. ExTypeOK'
    BY <1>1 DEF ExInv, ExTypeOK
  <1>3. Failing'
    BY <1>1, Same DEF ExInv, Failing
  <1>4. ASSUME p.at \notin {"failed", "aborted", "panicked"}
        PROVE  \E pos \in 0 .. Arrived' : Holds(pos)' /\ Place(pos)'
    <2>1. PICK pos \in 0 .. Arrived : Holds(pos) /\ Place(pos)
      BY <1>4 DEF ExInv
    <2>2. Holds(pos)'
      BY <1>1, <2>1, Same DEF Holds
    <2>3. Place(pos)'
      BY <1>1, <2>1, PlaceSame
    <2> QED BY <1>1, <2>1, <2>2, <2>3, Same
  <1> QED BY <1>1, <1>2, <1>3, <1>4 DEF ExInv

\* The connection breaks: the wire keeps its first bytes.
LEMMA BreaksInv ==
    ASSUME ExInv, Breaks
    PROVE  ExInv'
  <1>1. closed' /\ cut' /\ UNCHANGED <<buf, p, open, script, sent>>
        /\ p.at \notin {"done", "failed", "aborted", "panicked"}
    BY DEF Breaks, Ended
  <1>2. PICK k \in 0 .. Len(wire) : wire' = SubSeq(wire, 1, k)
    BY DEF Breaks
  <1>3. /\ wire \in Seq(Byte) /\ Len(wire) \in Nat /\ Len(buf) \in Nat /\ Arrived \in Nat
    BY <1>1, At
  <1>4. wire' \in Seq(Byte) /\ Len(wire') = k /\ \A i \in 1 .. k : wire'[i] = wire[i]
    BY <1>2, <1>3
  <1>5. ExTypeOK'
    BY <1>1, <1>4 DEF ExInv, ExTypeOK
  <1>6. PICK pos \in 0 .. Arrived : Holds(pos) /\ Place(pos)
    BY <1>1 DEF ExInv
  <1>7. Holds(pos)'
    <2>1. pos + Len(buf) + Len(wire) <= Arrived
      BY <1>6 DEF Holds
    <2>2. pos + Len(buf) + Len(wire') <= Arrived
      <3>1. Len(wire') = k
        BY <1>4
      <3> QED BY <1>3, <2>1, <3>1
    <2>3. ASSUME NEW i \in 1 .. Len(wire') PROVE wire'[i] = Text[pos + Len(buf) + i]
      <3>1. i \in 1 .. k /\ i \in 1 .. Len(wire)
        BY <1>3, <1>4
      <3> QED BY <1>4, <1>6, <3>1 DEF Holds
    <2>4. \A i \in 1 .. Len(buf) : buf[i] = Text[pos + i]
      BY <1>6 DEF Holds
    <2> QED BY <1>1, <2>2, <2>3, <2>4, Same DEF Holds
  <1>8. Place(pos)'
    BY <1>1, <1>6, PlaceSame
  <1> QED BY <1>1, <1>5, <1>6, <1>7, <1>8, Same DEF ExInv, Failing

LEMMA Fields ==
    ASSUME p \in Parser
    PROVE  /\ p.at \in Phases /\ p.n \in Nat /\ p.left \in Nat /\ p.size \in Nat
           /\ p.digits \in Nat /\ p.chunk \in Seq(Byte) /\ p.type \in Int /\ p.out \in Seq(Byte)
           /\ Len(p.out) \in Nat /\ Len(p.chunk) \in Nat
  BY DEF Parser

\* The reader fills its buffer: bytes of the wire are behind those it has.
LEMMA FillInv ==
    ASSUME ExInv, Fill, UNCHANGED <<open, script, sent, cut>>, p.at \notin {"done", "failed", "aborted", "panicked"}
    PROVE  ExInv'
  <1>1. /\ ExTypeOK /\ p \in Parser /\ wire \in Seq(Byte) /\ buf \in Seq(Byte)
        /\ Len(wire) \in Nat /\ Len(buf) \in Nat /\ Arrived \in Nat
    BY At
  <1>2. PICK pos \in Nat : pos <= Arrived /\ Holds(pos) /\ Place(pos)
    BY At
  <1>3. PICK k \in 1 .. Len(wire) : buf' = buf \o SubSeq(wire, 1, k) /\ wire' = From(wire, k + 1)
    BY DEF Fill
  <1>4. UNCHANGED <<closed, p>> /\ p.n > Len(buf)
    BY DEF Fill
  <1> DEFINE part == SubSeq(wire, 1, k)
  <1>5. part \in Seq(Byte) /\ Len(part) = k /\ \A i \in 1 .. k : part[i] = wire[i]
    BY <1>1
  <1>6. /\ buf' \in Seq(Byte) /\ Len(buf') = Len(buf) + k
        /\ \A i \in 1 .. Len(buf) + k : buf'[i] = IF i <= Len(buf) THEN buf[i] ELSE wire[i - Len(buf)]
    <2>1. buf' = buf \o part
      BY <1>3
    <2> HIDE DEF part
    <2>2. /\ buf' \in Seq(Byte) /\ Len(buf') = Len(buf) + k
          /\ \A i \in 1 .. Len(buf) + k : buf'[i] = IF i <= Len(buf) THEN buf[i] ELSE part[i - Len(buf)]
      BY <1>1, <1>5, <2>1, ConcatProperties
    <2>3. ASSUME NEW i \in 1 .. Len(buf) + k, ~(i <= Len(buf)) PROVE part[i - Len(buf)] = wire[i - Len(buf)]
      <3>1. i - Len(buf) \in 1 .. k
        BY <1>1, <2>3
      <3> QED BY <1>5, <3>1
    <2> QED BY <2>2, <2>3
  <1>7. /\ wire' \in Seq(Byte) /\ Len(wire') = Len(wire) - k
        /\ \A i \in 1 .. Len(wire) - k : wire'[i] = wire[k + i]
    BY <1>1, <1>3 DEF From
  <1>8. Holds(pos)'
    <2>1. /\ pos + Len(buf) + Len(wire) <= Arrived
          /\ \A i \in 1 .. Len(buf) : buf[i] = Text[pos + i]
          /\ \A i \in 1 .. Len(wire) : wire[i] = Text[pos + Len(buf) + i]
          /\ cut \/ pos + Len(buf) + Len(wire) = Arrived
      BY <1>2 DEF Holds
    <2>2. pos + Len(buf') + Len(wire') = pos + Len(buf) + Len(wire)
      <3>1. Len(buf') = Len(buf) + k /\ Len(wire') = Len(wire) - k
        BY <1>6, <1>7
      <3> QED BY <1>1, <3>1
    <2>3. ASSUME NEW i \in 1 .. Len(buf') PROVE buf'[i] = Text[pos + i]
      <3>1. i \in 1 .. Len(buf) + k
        BY <1>6
      <3>2. CASE i <= Len(buf)
        <4>1. i \in 1 .. Len(buf)
          BY <1>1, <3>1, <3>2
        <4> QED BY <1>6, <2>1, <3>1, <3>2, <4>1
      <3>3. CASE ~(i <= Len(buf))
        <4>1. i - Len(buf) \in 1 .. Len(wire) /\ pos + Len(buf) + (i - Len(buf)) = pos + i
          BY <1>1, <3>1, <3>3
        <4> QED BY <1>6, <2>1, <3>1, <3>3, <4>1
      <3> QED BY <3>2, <3>3
    <2>4. ASSUME NEW i \in 1 .. Len(wire') PROVE wire'[i] = Text[pos + Len(buf') + i]
      <3>1. i \in 1 .. Len(wire) - k /\ Len(buf') = Len(buf) + k
        BY <1>6, <1>7
      <3>2. k + i \in 1 .. Len(wire) /\ pos + Len(buf) + (k + i) = pos + Len(buf') + i
        BY <1>1, <3>1
      <3> QED BY <1>7, <2>1, <3>1, <3>2
    <2> QED BY <2>1, <2>2, <2>3, <2>4, Same DEF Holds
  <1>9. ExTypeOK'
    BY <1>1, <1>4, <1>6, <1>7 DEF ExTypeOK
  <1>10. Place(pos)'
    <2>1. p.at \notin SOCKS5Phases
      <3>1. p.at \in SOCKS5Phases => p.n = 0
        BY <1>2 DEF Place, SOCKS5Place
      <3> QED BY <1>1, <1>4, <3>1
    <2>2. p.at \in HTTPPhases => HTTPPlace(pos)'
      BY <1>2, <1>4 DEF Place, HTTPPlace
    <2>3. p.at = "header" => HeaderPlace(pos)'
      <3>1. SUFFICES ASSUME p.at = "header" PROVE HeaderPlace(pos)'
        OBVIOUS
      <3>2. HeaderPlace(pos) /\ p.n \in Nat
        BY <1>1, <1>2, <3>1, Fields DEF Place
      <3>3. ASSUME NEW i \in 1 .. p.n - 1 PROVE ~EmptyLineEnds(buf', i)
        <4>1. p.n - 1 <= Len(buf) /\ ~EmptyLineEnds(buf, i)
          BY <3>2 DEF HeaderPlace
        <4>2. \A j \in 1 .. i : buf[j] = buf'[j]
          BY <1>1, <1>6, <3>2, <4>1
        <4> QED BY <3>2, <4>1, <4>2, EmptyLineLocal
      <3>4. p.n - 1 <= Len(buf')
        <4>1. p.n - 1 <= Len(buf) /\ Len(buf') = Len(buf) + k
          BY <1>6, <3>2 DEF HeaderPlace
        <4> QED BY <1>1, <3>2, <4>1
      <3> QED BY <1>4, <3>2, <3>3, <3>4, Same DEF HeaderPlace
    <2>4. p.at \in MessagePhases \ {"header"} => BodyPlace(pos)'
      <3>1. Passed' = Passed /\ FixedPlace(pos)' = FixedPlace(pos) /\ LinePlace(pos)' = LinePlace(pos)
        BY <1>4, Same DEF Passed, FixedPlace, LinePlace
      <3> QED BY <1>2, <1>4, <3>1 DEF Place, BodyPlace
    <2> QED BY <1>2, <1>4, <2>1, <2>2, <2>3, <2>4 DEF Place
  <1> QED BY <1>1, <1>2, <1>4, <1>8, <1>9, <1>10, Moves, Same

-----------------------------------------------------------------------------
(* The header *)

LEMMA NeedMoreInv ==
    ASSUME ExInv, NeedMore, UNCHANGED <<open, script, sent, cut>>
    PROVE  ExInv'
  <1>1. /\ p.at = "header" /\ HeaderLen(buf) = 0 /\ p' = [p EXCEPT !.n = Len(buf) + 1]
        /\ UNCHANGED <<wire, buf, closed>>
    BY DEF NeedMore
  <1>2. ExTypeOK /\ p \in Parser /\ buf \in Seq(Byte) /\ Len(buf) \in Nat /\ Arrived \in Nat
    BY <1>1, At
  <1>3. PICK pos \in Nat : pos <= Arrived /\ Holds(pos) /\ Place(pos)
    BY <1>1, At
  <1>4. /\ p' \in Parser /\ p'.at = p.at /\ p'.n = Len(buf) + 1 /\ p'.out = p.out
        /\ p'.chunk = p.chunk /\ p'.digits = p.digits /\ p'.size = p.size
    <2> DEFINE m == Len(buf) + 1
    <2>1. p' = [p EXCEPT !.n = m] /\ m \in Nat
      BY <1>1, <1>2
    <2> HIDE DEF m
    <2>2. p' \in Parser
      BY <1>2, <2>1 DEF Parser
    <2>3. /\ p'.at = p.at /\ p'.n = m /\ p'.out = p.out
          /\ p'.chunk = p.chunk /\ p'.digits = p.digits /\ p'.size = p.size
      BY <1>2, <2>1 DEF Parser
    <2> QED BY <2>2, <2>3 DEF m
  <1>5. HeaderPlace(pos)'
    <2>1. p'.n >= 1 /\ p'.n - 1 = Len(buf)
      BY <1>2, <1>4
    <2>2. \A i \in 1 .. Len(buf) : ~EmptyLineEnds(buf, i)
      BY <1>1, <1>2, HeaderLenIs
    <2> QED BY <1>1, <1>2, <1>3, <1>4, <2>1, <2>2, Same DEF Place, HeaderPlace
  <1>6. Place(pos)'
    BY <1>1, <1>3, <1>4, <1>5 DEF Place, HTTPPhases, SOCKS5Phases
  <1>7. Holds(pos)'
    BY <1>1, <1>3, Same DEF Holds
  <1>8. ExTypeOK'
    BY <1>1, <1>2, <1>4 DEF ExTypeOK
  <1> QED BY <1>1, <1>2, <1>3, <1>4, <1>6, <1>7, <1>8, Moves, Same

\* What is buffered at the header is the message.
LEMMA BufIsMessage ==
    ASSUME ExTypeOK, Holds(R)
    PROVE  /\ Len(buf) <= H + B + N
           /\ \A i \in 1 .. Len(buf) : buf[i] = Message[i]
  <1>1. R \in Nat /\ H \in Nat /\ B \in Nat /\ N \in Nat
    BY ScriptFacts
  <1>2. Len(buf) \in Nat /\ Len(wire) \in Nat
    BY DEF ExTypeOK
  <1>3. R + Len(buf) + Len(wire) <= Arrived /\ \A i \in 1 .. Len(buf) : buf[i] = Text[R + i]
    BY DEF Holds
  <1>4. Arrived <= R + H + B + N /\ Arrived \in Nat
    BY <1>1 DEF Arrived
  <1>5. Len(buf) <= H + B + N
    <2>1. R + Len(buf) + Len(wire) <= Arrived
      BY <1>3
    <2> QED BY <1>1, <1>2, <1>4, <2>1
  <1>6. ASSUME NEW i \in 1 .. Len(buf) PROVE buf[i] = Message[i]
    <2>1. i \in 1 .. H + B + N
      BY <1>1, <1>2, <1>5
    <2> QED BY <1>3, <2>1, TextAt
  <1> QED BY <1>5, <1>6

\* What is buffered m bytes after the header is the body and what follows it.
LEMMA BufIsRest ==
    ASSUME ExTypeOK, NEW m \in Nat, Holds(R + H + m)
    PROVE  /\ sent
           /\ m + Len(buf) + Len(wire) <= B + N
           /\ cut \/ m + Len(buf) + Len(wire) = B + N
           /\ \A i \in 1 .. Len(buf) : buf[i] = Rest[m + i]
  <1>1. R \in Nat /\ H \in Nat /\ B \in Nat /\ N \in Nat /\ H >= 1
    BY ScriptFacts
  <1>2. Len(buf) \in Nat /\ Len(wire) \in Nat
    BY DEF ExTypeOK
  <1>3. /\ R + H + m + Len(buf) + Len(wire) <= Arrived
        /\ cut \/ R + H + m + Len(buf) + Len(wire) = Arrived
    BY DEF Holds
  <1>4. sent
    <2>1. ~sent => Arrived = R
      BY DEF Arrived
    <2> QED BY <1>1, <1>2, <1>3, <2>1
  <1>5. Arrived = R + H + B + N
    BY <1>4 DEF Arrived
  <1>6. m + Len(buf) + Len(wire) <= B + N
    BY <1>1, <1>2, <1>3, <1>5
  <1>7. cut \/ m + Len(buf) + Len(wire) = B + N
    BY <1>1, <1>2, <1>3, <1>5
  <1>8. ASSUME NEW i \in 1 .. Len(buf) PROVE buf[i] = Rest[m + i]
    <2>1. m + i \in 1 .. B + N /\ R + H + m + i = R + H + (m + i)
      BY <1>1, <1>2, <1>6
    <2>2. buf[i] = Text[R + H + m + i]
      BY DEF Holds
    <2> QED BY <2>1, <2>2, TextAt
  <1> QED BY <1>4, <1>6, <1>7, <1>8

\* Fails, for a reason.
LEMMA FailsInv ==
    ASSUME ExInv, Fails, UNCHANGED <<open, script, sent, cut>>,
           cut \/ ~Accepts(script) \/ ~WellFormed(script) \/ ~Fits(script)
    PROVE  ExInv'
  <1>1. p' = [p EXCEPT !.at = "failed"] /\ UNCHANGED <<wire, buf, closed>>
    BY DEF Fails, GiveUp
  <1>2. wire' \in Seq(Byte) /\ buf' \in Seq(Byte) /\ open' \in BOOLEAN
    BY <1>1 DEF ExInv, ExTypeOK
  <1> QED BY <1>1, <1>2, GivesUp

\* A full buffer without an empty line: the header is larger than the buffer.
LEMMA HeaderTooLargeInv ==
    ASSUME ExInv, HeaderTooLarge, UNCHANGED <<open, script, sent, cut>>
    PROVE  ExInv'
  <1>1. p.at = "header" /\ HeaderLen(buf) = 0 /\ Len(buf) >= BufSize /\ Fails
    BY DEF HeaderTooLarge, BufferFull
  <1>2. ExTypeOK /\ buf \in Seq(Byte) /\ Len(buf) \in Nat /\ BufSize \in Nat
    BY <1>1, At, BufSizeAssumption
  <1>3. PICK pos \in Nat : Holds(pos) /\ Place(pos)
    BY <1>1, At
  <1>4. Holds(R) /\ H \in Nat /\ H >= 1
    BY <1>1, <1>2, <1>3, ScriptFacts DEF Place, HeaderPlace
  <1>5. ASSUME H <= BufSize PROVE FALSE
    <2>1. H \in 1 .. Len(buf) /\ \A j \in 1 .. H : j \in 1 .. Len(buf)
      BY <1>1, <1>2, <1>4, <1>5
    <2>2. ~EmptyLineEnds(buf, H)
      BY <1>1, <1>2, <2>1, HeaderLenIs
    <2>3. \A j \in 1 .. H : buf[j] = Message[j]
      BY <1>2, <1>4, <2>1, BufIsMessage
    <2>4. EmptyLineEnds(Message, H)
      BY <1>2, MessageHeader
    <2> QED BY <1>4, <2>2, <2>3, <2>4, EmptyLineLocal
  <1>6. ~Fits(script)
    BY <1>5 DEF Fits, H
  <1> QED BY <1>1, <1>6, FailsInv

\* The first empty line in the buffer ends the message's header.
LEMMA HeaderFound ==
    ASSUME ExTypeOK, Holds(R), HeaderLen(buf) > 0
    PROVE  HeaderLen(buf) = H /\ SubSeq(buf, 1, H) = script.header
  <1> DEFINE len == HeaderLen(buf)
  <1>1. /\ H \in Nat /\ H >= 1 /\ B \in Nat /\ N \in Nat /\ buf \in Seq(Byte) /\ Len(buf) \in Nat
        /\ script.header \in Seq(Byte)
    BY ScriptFacts DEF ExTypeOK
  <1>2. /\ len \in Nat /\ len >= 1 /\ len <= Len(buf) /\ EmptyLineEnds(buf, len)
        /\ \A i \in 1 .. len - 1 : ~EmptyLineEnds(buf, i)
    BY <1>1, HeaderLenIs
  <1> HIDE DEF len
  <1>3. ASSUME NEW i \in 1 .. Len(buf) PROVE EmptyLineEnds(buf, i) <=> EmptyLineEnds(Message, i)
    <2>1. i \in Nat /\ i >= 1 /\ \A j \in 1 .. i : j \in 1 .. Len(buf)
      BY <1>1
    <2>2. \A j \in 1 .. i : buf[j] = Message[j]
      BY <2>1, BufIsMessage
    <2> QED BY <2>1, <2>2, EmptyLineLocal
  <1>4. ~(len < H)
    <2>1. SUFFICES ASSUME len < H PROVE FALSE
      OBVIOUS
    <2>2. len \in 1 .. H - 1 /\ len \in 1 .. Len(buf)
      BY <1>1, <1>2, <2>1
    <2> QED BY <1>2, <1>3, <2>2, MessageHeader
  <1>5. ~(H < len)
    <2>1. SUFFICES ASSUME H < len PROVE FALSE
      OBVIOUS
    <2>2. H \in 1 .. len - 1 /\ H \in 1 .. Len(buf)
      BY <1>1, <1>2, <2>1
    <2> QED BY <1>2, <1>3, <2>2, MessageHeader
  <1>6. len = H
    BY <1>1, <1>2, <1>4, <1>5
  <1>7. SubSeq(buf, 1, H) = script.header
    <2> DEFINE s == SubSeq(buf, 1, H)
    <2>1. H <= Len(buf)
      BY <1>2, <1>6
    <2>2. s \in Seq(Byte) /\ Len(s) = H /\ \A i \in 1 .. H : s[i] = buf[i]
      BY <1>1, <2>1
    <2>3. Len(script.header) = H
      BY DEF H
    <2> HIDE DEF s
    <2>4. ASSUME NEW i \in 1 .. H PROVE s[i] = script.header[i]
      <3>1. i \in 1 .. Len(buf)
        BY <1>1, <2>1
      <3> QED BY <2>2, <3>1, BufIsMessage, TextAt
    <2>5. s = script.header
      BY <1>1, <2>2, <2>3, <2>4, SeqEqual
    <2> QED BY <2>5 DEF s
  <1> QED BY <1>6, <1>7 DEF len

LEMMA HeaderDoneInv ==
    ASSUME ExInv, HeaderDone, UNCHANGED <<open, script, sent, cut>>
    PROVE  ExInv'
  <1> DEFINE t == ContentLength(SubSeq(buf, 1, HeaderLen(buf)))
             at == CASE t > 0 -> "fixed" [] t = 0 -> "done" [] t = -1 -> "hex" [] t = -2 -> "fixed"
             left == IF t = -2 THEN MaxInt64 ELSE Max({t, 0})
  <1>1. /\ p.at = "header" /\ HeaderLen(buf) > 0 /\ buf' = From(buf, HeaderLen(buf) + 1)
        /\ p' = [p EXCEPT !.type = t, !.n = 1, !.at = at, !.left = left]
        /\ UNCHANGED <<wire, closed>>
    BY DEF HeaderDone
  <1>2. ExTypeOK /\ p \in Parser /\ wire \in Seq(Byte) /\ buf \in Seq(Byte) /\ Len(buf) \in Nat
    BY <1>1, At
  <1>3. PICK pos \in Nat : pos <= Arrived /\ Holds(pos) /\ Place(pos)
    BY <1>1, At
  <1>4. HeaderPlace(pos) /\ Accepts(script) /\ pos = R
    BY <1>1, <1>3 DEF Place, HeaderPlace, MessagePhases
  <1>5. HeaderLen(buf) = H /\ t = Type(script)
    BY <1>1, <1>2, <1>3, <1>4, HeaderFound DEF Type
  <1>6. t \in Int /\ t >= -2
    BY <1>2, <1>5, ScriptFacts, ContentLengthType DEF Type
  <1>7. /\ R \in Nat /\ H \in Nat /\ B \in Nat /\ N \in Nat /\ IsMessage(script)
    BY <1>2, ScriptFacts
  <1>8. PICK h \in 0 .. Len(buf) : h = H
    BY <1>2, <1>5, HeaderLenIs
  <1>8a. PICK q \in Nat : q = pos + h /\ q = R + H
    BY <1>2, <1>4, <1>7, <1>8
  <1> HIDE DEF t
  <1>9. left \in Nat /\ (t > 0 => left = t) /\ (t = -2 => left = MaxInt64)
    <2>1. t # -2 => Max({t, 0}) = IF t > 0 THEN t ELSE 0
      BY <1>6, MaxPair
    <2> QED BY <1>6, <2>1, LimitsAssumption
  <1>10. at \in Phases
    BY <1>6 DEF Phases, MessagePhases
  <1>11. (t > 0 \/ t = -2 => at = "fixed") /\ (t = 0 => at = "done") /\ (t = -1 => at = "hex")
    BY <1>6
  <1>11a. t > 0 \/ t = -2 \/ t = -1 \/ t = 0
    BY <1>6
  <1> HIDE DEF at, left
  <1>12. p' \in Parser
    BY <1>1, <1>2, <1>6, <1>9, <1>10 DEF Parser
  <1>13. /\ p'.type = t /\ p'.n = 1 /\ p'.at = at /\ p'.left = left
         /\ p'.out = p.out /\ p'.chunk = p.chunk /\ p'.digits = p.digits /\ p'.size = p.size
    BY <1>1, <1>2 DEF Parser
  <1>14. p.out = <<>> /\ p.chunk = <<>> /\ p.digits = 0 /\ p.size = 0
    BY <1>4 DEF HeaderPlace
  <1>15. /\ buf' \in Seq(Byte) /\ q \in 0 .. Arrived' /\ Holds(q)'
    <2>1. Holds(pos) /\ buf' = From(buf, h + 1) /\ UNCHANGED <<wire, script, sent, cut>>
      BY <1>1, <1>3, <1>5, <1>8
    <2>2. /\ buf' \in Seq(Byte) /\ pos + h \in 0 .. Arrived' /\ Holds(pos + h)'
      BY <1>2, <2>1, Consume
    <2> QED BY <1>8a, <2>2
  <1>16. ExTypeOK'
    BY <1>1, <1>2, <1>12, <1>15 DEF ExTypeOK
  <1>17. Passed' /\ Len(p'.out) = 0
    <2>1. Len(p'.out) = 0
      BY <1>13, <1>14
    <2>2. Len(Rest) = B + N
      BY <1>2, TextAt
    <2> QED BY <1>7, <2>1, <2>2, Same DEF Passed, Occurs
  <1>18. t >= 0 => B = t
    BY <1>5, <1>7 DEF IsMessage, B
  <1>19. CASE t = 0
    <2>1. DonePlace(q)'
      BY <1>5, <1>7, <1>8a, <1>13, <1>17, <1>18, <1>19, Same DEF DonePlace
    <2>2. p'.at = "done"
      BY <1>11, <1>13, <1>19
    <2> QED BY <1>1, <1>4, <1>15, <1>16, <2>1, <2>2, MovesToDone
  <1>20. CASE t > 0 \/ t = -2
    <2>1. FixedPlace(q)'
      <3>1. left >= 1
        BY <1>6, <1>9, <1>20, LimitsAssumption
      <3>2. 0 + left = IF t = -2 THEN MaxInt64 ELSE B
        BY <1>6, <1>9, <1>18, <1>20, LimitsAssumption
      <3>3. q = R + H + 0
        BY <1>7, <1>8a
      <3>4. t # -1 /\ t # 0
        BY <1>20
      <3> QED BY <1>13, <1>17, <3>1, <3>2, <3>3, <3>4, Same DEF FixedPlace
    <2>2. p'.at = "fixed"
      BY <1>11, <1>13, <1>20
    <2>3. BodyPlace(q)'
      BY <1>5, <1>13, <1>17, <2>1, <2>2 DEF BodyPlace
    <2> QED BY <1>1, <1>4, <1>15, <1>16, <2>2, <2>3, MovesToBody
  <1>21. CASE t = -1
    <2>1. p'.at = "hex"
      BY <1>11, <1>13, <1>21
    <2>2. LinePlace(q)'
      <3>1. q = R + H + 0 + 0 + 0 /\ 0 <= MaxHexIntChars /\ 0 + 0 <= B + N
        BY <1>7, <1>8a, LimitsAssumption
      <3>2. Len(p'.chunk) = 0 /\ p'.digits = 0 /\ p'.size = 0 /\ p'.chunk = <<>>
        BY <1>13, <1>14
      <3>3. p'.size = HexValue(p'.chunk)
        BY <3>2, HexValueOfNone
      <3>4. ChunkedLen(Rest) = ChunkedEnds(Rest)[0 + 1]
        BY DEF ChunkedLen
      <3>5. p'.type = -1
        BY <1>13, <1>21
      <3> QED BY <1>17, <2>1, <3>1, <3>2, <3>3, <3>4, <3>5, Same DEF LinePlace
    <2>3. BodyPlace(q)'
      BY <1>5, <1>13, <1>17, <2>1, <2>2 DEF BodyPlace
    <2> QED BY <1>1, <1>4, <1>15, <1>16, <2>1, <2>3, MovesToBody
  <1> QED BY <1>11a, <1>19, <1>20, <1>21

-----------------------------------------------------------------------------
(* The body *)

LEMMA BodyAt ==
    ASSUME ExInv, p.at \in {"fixed", "hex", "cr", "lf"}
    PROVE  /\ ExTypeOK /\ p \in Parser /\ wire \in Seq(Byte) /\ buf \in Seq(Byte)
           /\ Len(wire) \in Nat /\ Len(buf) \in Nat
           /\ R \in Nat /\ H \in Nat /\ B \in Nat /\ N \in Nat
           /\ Accepts(script) /\ p.n = 1 /\ p.type = Type(script) /\ Passed
           /\ IsMessage(script) /\ Rest \in Seq(Byte) /\ Len(Rest) = B + N
           /\ \E pos \in Nat : pos <= Arrived /\ Holds(pos)
                               /\ IF p.at = "fixed" THEN FixedPlace(pos) ELSE LinePlace(pos)
  <1>1. p.at \notin {"failed", "aborted", "panicked"}
    OBVIOUS
  <1>2. PICK pos \in Nat : pos <= Arrived /\ Holds(pos) /\ Place(pos)
    BY <1>1, At
  <1>3. /\ ExTypeOK /\ p \in Parser /\ wire \in Seq(Byte) /\ buf \in Seq(Byte)
        /\ Len(wire) \in Nat /\ Len(buf) \in Nat
    BY <1>1, At
  <1>4. Accepts(script) /\ BodyPlace(pos)
    BY <1>2 DEF Place, MessagePhases
  <1>5. p.n = 1 /\ p.type = Type(script) /\ Passed
    BY <1>4 DEF BodyPlace
  <1>6. IF p.at = "fixed" THEN FixedPlace(pos) ELSE LinePlace(pos)
    BY <1>4 DEF BodyPlace
  <1> QED BY <1>2, <1>3, <1>4, <1>5, <1>6, ScriptFacts, TextAt

\* The writer gets bytes that follow what it got.
LEMMA PassedOn ==
    ASSUME NEW s \in Seq(Byte), NEW o \in Seq(Byte), NEW x \in Seq(Byte),
           Occurs(s, 0, o), Occurs(s, Len(o), x)
    PROVE  o \o x \in Seq(Byte) /\ Len(o \o x) = Len(o) + Len(x) /\ Occurs(s, 0, o \o x)
  <1>1. Len(o) \in Nat /\ Len(x) \in Nat /\ Len(s) \in Nat /\ Len(o) + Len(x) <= Len(s)
    BY DEF Occurs
  <1>2. /\ o \o x \in Seq(Byte) /\ Len(o \o x) = Len(o) + Len(x)
        /\ \A i \in 1 .. Len(o) + Len(x) : (o \o x)[i] = IF i <= Len(o) THEN o[i] ELSE x[i - Len(o)]
    BY ConcatProperties
  <1>3. ASSUME NEW i \in 1 .. Len(o) + Len(x) PROVE (o \o x)[i] = s[0 + i]
    <2>1. CASE i <= Len(o)
      <3>1. i \in 1 .. Len(o)
        BY <1>1, <2>1
      <3> QED BY <1>2, <2>1, <3>1 DEF Occurs
    <2>2. CASE ~(i <= Len(o))
      <3>1. i - Len(o) \in 1 .. Len(x) /\ Len(o) + (i - Len(o)) = 0 + i
        BY <1>1, <2>2
      <3> QED BY <1>2, <2>2, <3>1 DEF Occurs
    <2> QED BY <2>1, <2>2
  <1>4. 0 + Len(o \o x) <= Len(s)
    <2>1. Len(o \o x) = Len(o) + Len(x)
      BY <1>2
    <2> QED BY <1>1, <2>1
  <1> QED BY <1>2, <1>3, <1>4 DEF Occurs

\* One round of parseBodyFixedSize.
LEMMA FixedInv ==
    ASSUME ExInv, Fixed, UNCHANGED <<open, script, sent, cut>>
    PROVE  ExInv'
  <1>1. p.at = "fixed" /\ Len(buf) >= p.n /\ UNCHANGED <<wire, closed>>
    BY DEF Fixed, Peeked
  <1>2. /\ ExTypeOK /\ p \in Parser /\ wire \in Seq(Byte) /\ buf \in Seq(Byte)
        /\ Len(wire) \in Nat /\ Len(buf) \in Nat
        /\ R \in Nat /\ H \in Nat /\ B \in Nat /\ N \in Nat
        /\ Accepts(script) /\ p.n = 1 /\ p.type = Type(script) /\ Passed
        /\ IsMessage(script) /\ Rest \in Seq(Byte) /\ Len(Rest) = B + N
    BY <1>1, BodyAt
  <1>3. PICK pos \in Nat : pos <= Arrived /\ Holds(pos) /\ FixedPlace(pos)
    BY <1>1, BodyAt
  <1>4. p.left \in Nat /\ p.left >= 1 /\ pos = R + H + Len(p.out) /\ p.out \in Seq(Byte)
        /\ Len(p.out) \in Nat /\ p.size \in Nat /\ p.type \in Int
    BY <1>2, <1>3, Fields DEF FixedPlace
  <1>5. PICK take \in Nat : /\ take = Min({p.left, Len(buf)})
                            /\ take >= 1 /\ take <= Len(buf) /\ take <= p.left
    <2>1. Len(buf) >= 1
      BY <1>1, <1>2
    <2>2. Min({p.left, Len(buf)}) = IF p.left <= Len(buf) THEN p.left ELSE Len(buf)
      <3>1. p.left \in Int /\ Len(buf) \in Int
        BY <1>2, <1>4
      <3> QED BY <3>1, MinPair
    <2> QED BY <1>2, <1>4, <2>1, <2>2
  <1> DEFINE ended == p.left = take
             at == IF ended THEN AfterFixed ELSE p.at
             size == IF ended THEN 0 ELSE p.size
             out == p.out \o SubSeq(buf, 1, take)
             c == Len(p.out)
  <1>6. /\ p' = [p EXCEPT !.out = out, !.left = p.left - take, !.at = at, !.size = size, !.digits = 0]
        /\ buf' = From(buf, take + 1)
    BY <1>1, <1>5 DEF Fixed
  <1>7. /\ sent /\ c + Len(buf) + Len(wire) <= B + N
        /\ \A i \in 1 .. Len(buf) : buf[i] = Rest[c + i]
    BY <1>2, <1>3, <1>4, BufIsRest
  <1>8. c + take <= B + N
    <2>1. c + Len(buf) + Len(wire) <= B + N
      BY <1>7
    <2> QED BY <1>2, <1>4, <1>5, <2>1
  <1>9. out \in Seq(Byte) /\ Len(out) = c + take /\ Occurs(Rest, 0, out)
    <2> DEFINE x == SubSeq(buf, 1, take)
    <2>1. x \in Seq(Byte) /\ Len(x) = take /\ \A i \in 1 .. take : x[i] = buf[i]
      <3>1. buf \in Seq(Byte) /\ take \in Nat /\ take <= Len(buf)
        BY <1>2, <1>5
      <3> QED BY <3>1
    <2>2. \A i \in 1 .. take : i \in 1 .. Len(buf)
      BY <1>2, <1>5
    <2> HIDE DEF x
    <2>3. Occurs(Rest, Len(p.out), x)
      <3>1. \A i \in 1 .. Len(x) : x[i] = Rest[c + i]
        BY <1>7, <2>1, <2>2
      <3>2. c + Len(x) <= Len(Rest)
        BY <1>2, <1>8, <2>1
      <3> QED BY <3>1, <3>2 DEF Occurs
    <2>4. Occurs(Rest, 0, p.out)
      BY <1>2 DEF Passed
    <2>5. p.out \in Seq(Byte) /\ Rest \in Seq(Byte) /\ x \in Seq(Byte)
      BY <1>2, <1>4, <2>1
    <2>6. p.out \o x \in Seq(Byte) /\ Len(p.out \o x) = Len(p.out) + Len(x) /\ Occurs(Rest, 0, p.out \o x)
      BY <2>3, <2>4, <2>5, PassedOn
    <2> QED BY <2>1, <2>6 DEF x
  <1>10. at \in Phases /\ size \in Nat /\ p.left - take \in Nat
    BY <1>1, <1>4, <1>5 DEF AfterFixed, Phases, MessagePhases
  <1>11. /\ (ended /\ p.type = -1 /\ p.size > 0 => at = "hex")
         /\ (ended /\ ~(p.type = -1 /\ p.size > 0) => at = "done")
         /\ (~ended => at = "fixed")
    BY <1>1 DEF AfterFixed
  <1>12. (ended => size = 0) /\ (~ended => size = p.size)
    OBVIOUS
  <1> HIDE DEF at, size, out
  <1>13. p' \in Parser
    <2> DEFINE l == p.left - take
    <2>1. l \in Nat
      BY <1>10
    <2>2. p' = [p EXCEPT !.out = out, !.left = l, !.at = at, !.size = size, !.digits = 0]
      BY <1>6
    <2> HIDE DEF l
    <2> QED BY <1>2, <1>9, <1>10, <2>1, <2>2 DEF Parser
  <1>14. /\ p'.at = at /\ p'.left = p.left - take /\ p'.out = out /\ p'.size = size /\ p'.digits = 0
         /\ p'.n = p.n /\ p'.type = p.type /\ p'.chunk = p.chunk
    BY <1>2, <1>6 DEF Parser
  <1>15. PICK q \in Nat : q = pos + take
    BY <1>5
  <1>16. /\ buf' \in Seq(Byte) /\ q \in 0 .. Arrived' /\ Holds(q)'
    <2>1. take \in 0 .. Len(buf) /\ UNCHANGED <<wire, script, sent, cut>>
      BY <1>1, <1>2, <1>5
    <2>2. /\ buf' \in Seq(Byte) /\ pos + take \in 0 .. Arrived' /\ Holds(pos + take)'
      BY <1>2, <1>3, <1>6, <2>1, Consume
    <2> QED BY <1>15, <2>2
  <1>17. ExTypeOK'
    BY <1>1, <1>2, <1>13, <1>16 DEF ExTypeOK
  <1>18. Passed' /\ Len(p'.out) = c + take /\ q = R + H + Len(p'.out)
    <2>1. Len(p'.out) = c + take
      BY <1>9, <1>14
    <2>2. q = R + H + Len(p'.out)
      <3>1. /\ R \in Nat /\ H \in Nat /\ c \in Nat /\ take \in Nat
            /\ q = (R + H + c) + take
        BY <1>2, <1>4, <1>15
      <3> HIDE DEF c
      <3>2. q = R + H + (c + take)
        BY <3>1
      <3> QED BY <2>1, <3>2
    <2>3. Passed'
      BY <1>9, <1>14, Same DEF Passed
    <2> QED BY <2>1, <2>2, <2>3
  <1>19. CASE ~ended
    <2>1. p'.at = "fixed"
      BY <1>11, <1>14, <1>19
    <2>2. p.left - take >= 1 /\ (c + take) + (p.left - take) = c + p.left
      BY <1>4, <1>5, <1>19
    <2>3. FixedPlace(q)'
      <3>1. p'.left >= 1 /\ Len(p'.out) + p'.left = Len(p.out) + p.left
        BY <1>14, <1>18, <2>2
      <3>2. p'.size = p.size
        BY <1>12, <1>14, <1>19
      <3> QED BY <1>3, <1>14, <1>18, <3>1, <3>2, Same DEF FixedPlace
    <2>4. BodyPlace(q)'
      BY <1>2, <1>14, <1>18, <2>1, <2>3 DEF BodyPlace
    <2> QED BY <1>1, <1>2, <1>16, <1>17, <2>1, <2>4, MovesToBody
  <1>20. CASE ended
    <2>1. Len(p.out) + p.left = Len(p'.out) /\ Len(p'.out) <= B + N /\ Len(p'.out) \in Nat
          /\ Len(p'.out) >= 1
      BY <1>4, <1>5, <1>8, <1>18, <1>20
    <2>2. CASE p.type = -1 /\ p.size > 0
      <3>1. p'.at = "hex"
        BY <1>11, <1>14, <1>20, <2>2
      <3>2. p.chunk = <<>> /\ ChunkedLen(Rest) = ChunkedEnds(Rest)[Len(p'.out) + 1]
        BY <1>3, <1>4, <2>1, <2>2 DEF FixedPlace
      <3>3. p'.chunk = <<>> /\ Len(p'.chunk) = 0 /\ p'.size = 0 /\ p'.digits = 0
        BY <1>12, <1>14, <1>20, <3>2
      <3>4. p'.size = HexValue(p'.chunk)
        BY <3>3, HexValueOfNone
      <3>5. q = R + H + Len(p'.out) + 0 + 0 /\ 0 <= MaxHexIntChars /\ Len(p'.out) + 0 <= B + N
        BY <1>2, <1>18, <2>1, LimitsAssumption
      <3>6. p'.type = -1
        BY <1>14, <2>2
      <3>7. LinePlace(q)'
        BY <3>1, <3>2, <3>3, <3>4, <3>5, <3>6, Same DEF LinePlace
      <3>8. BodyPlace(q)'
        BY <1>2, <1>14, <1>18, <3>1, <3>7 DEF BodyPlace
      <3> QED BY <1>1, <1>2, <1>16, <1>17, <3>1, <3>8, MovesToBody
    <2>3. CASE ~(p.type = -1 /\ p.size > 0)
      <3>1. p'.at = "done"
        BY <1>11, <1>14, <1>20, <2>3
      <3>2. CASE p.type = -1
        <4>1. p.size = 0
          BY <1>4, <2>3, <3>2
        <4>2. ChunkedLen(Rest) = Len(p'.out)
          BY <1>3, <2>1, <3>2, <4>1 DEF FixedPlace
        <4>3. ChunkedLen(Rest) \in {0, B}
          BY <1>2, <3>2 DEF IsMessage, Rest, B
        <4>4. Len(p'.out) = B
          BY <2>1, <4>2, <4>3
        <4>5. DonePlace(q)'
          BY <1>2, <1>14, <1>18, <3>2, <4>4, Same DEF DonePlace
        <4> QED BY <1>1, <1>2, <1>16, <1>17, <3>1, <4>5, MovesToDone
      <3>3. CASE p.type # -1
        <4>1. Len(p'.out) = IF p.type = -2 THEN MaxInt64 ELSE B
          BY <1>3, <2>1, <3>3 DEF FixedPlace
        <4>2. p.type # -2
          <5>1. SUFFICES ASSUME p.type = -2 PROVE FALSE
            OBVIOUS
          <5>2. B < MaxInt64 /\ N = 0
            BY <1>2, <5>1 DEF IsMessage, B, N
          <5> QED BY <1>2, <2>1, <4>1, <5>1, <5>2, LimitsAssumption
        <4>3. DonePlace(q)'
          BY <1>2, <1>14, <1>18, <4>1, <4>2, Same DEF DonePlace
        <4> QED BY <1>1, <1>2, <1>16, <1>17, <3>1, <4>3, MovesToDone
      <3> QED BY <3>2, <3>3
    <2> QED BY <2>2, <2>3
  <1> QED BY <1>19, <1>20

LEMMA WriterFailsInv ==
    ASSUME ExInv, WriterFails, UNCHANGED <<open, script, sent, cut>>
    PROVE  ExInv'
  <1>1. p' = [p EXCEPT !.at = "aborted"] /\ UNCHANGED <<wire, buf, closed>>
    BY DEF WriterFails, GiveUp
  <1>2. wire' \in Seq(Byte) /\ buf' \in Seq(Byte) /\ open' \in BOOLEAN
    BY <1>1 DEF ExInv, ExTypeOK
  <1> QED BY <1>1, <1>2, GivesUp

LEMMA FixedEOFInv ==
    ASSUME ExInv, FixedEOF, UNCHANGED <<open, script, sent, cut>>
    PROVE  ExInv'
  <1>1. /\ p.at = "fixed" /\ Len(buf) < p.n /\ wire = <<>> /\ closed
        /\ UNCHANGED <<wire, buf, closed>>
        /\ p' = [p EXCEPT !.at = IF p.type = -2 THEN "done" ELSE "failed"]
    BY DEF FixedEOF, PeekEOF
  <1>2. /\ ExTypeOK /\ p \in Parser /\ wire \in Seq(Byte) /\ buf \in Seq(Byte)
        /\ Len(wire) \in Nat /\ Len(buf) \in Nat
        /\ R \in Nat /\ H \in Nat /\ B \in Nat /\ N \in Nat
        /\ Accepts(script) /\ p.n = 1 /\ p.type = Type(script) /\ Passed
        /\ IsMessage(script) /\ Rest \in Seq(Byte) /\ Len(Rest) = B + N
    BY <1>1, BodyAt
  <1>3. PICK pos \in Nat : pos <= Arrived /\ Holds(pos) /\ FixedPlace(pos)
    BY <1>1, BodyAt
  <1>4. /\ p.left \in Nat /\ p.left >= 1 /\ pos = R + H + Len(p.out)
        /\ Len(p.out) \in Nat /\ p.type \in Int
    BY <1>2, <1>3, Fields DEF FixedPlace
  <1>5. Len(buf) = 0 /\ Len(wire) = 0
    BY <1>1, <1>2
  <1>6. cut \/ Len(p.out) = B + N
    <2>1. cut \/ Len(p.out) + Len(buf) + Len(wire) = B + N
      BY <1>2, <1>3, <1>4, BufIsRest
    <2> QED BY <1>2, <1>4, <1>5, <2>1
  <1>7. CASE p.type = -2
    <2>1. p' = [p EXCEPT !.at = "done"]
      BY <1>1, <1>7
    <2>2. p' \in Parser /\ p'.at = "done" /\ p'.type = p.type /\ p'.out = p.out
      <3>1. "done" \in Phases
        BY DEF Phases
      <3> QED BY <1>2, <2>1, <3>1 DEF Parser
    <2>3. N = 0
      BY <1>2, <1>7 DEF IsMessage, N
    <2>4. Len(p.out) = B \/ cut
      BY <1>2, <1>6, <2>3
    <2>5. DonePlace(pos)'
      BY <1>2, <1>7, <2>2, <2>4, Same DEF DonePlace, Passed
    <2>6. Holds(pos)'
      BY <1>1, <1>3, Same DEF Holds
    <2>7. ExTypeOK'
      BY <1>1, <1>2, <2>2 DEF ExTypeOK
    <2>8. pos \in 0 .. Arrived'
      BY <1>2, <1>3, ScriptFacts, Same
    <2> QED BY <1>1, <1>2, <2>2, <2>5, <2>6, <2>7, <2>8, MovesToDone
  <1>8. CASE p.type # -2
    <2>1. Fails
      BY <1>1, <1>8 DEF Fails, GiveUp
    <2>2. ASSUME ~cut PROVE ~WellFormed(script)
      <3>1. Len(p.out) + p.left > B + N
        BY <1>2, <1>4, <1>6, <2>2
      <3>2. p.type = -1
        <4>1. p.type # -1 => Len(p.out) + p.left = B
          BY <1>3, <1>8 DEF FixedPlace
        <4> QED BY <1>2, <3>1, <4>1
      <3>3. ChunkedLen(Rest) = 0
        BY <1>3, <3>1, <3>2 DEF FixedPlace
      <3> QED BY <1>2, <3>2, <3>3 DEF WellFormed, Rest
    <2> QED BY <2>1, <2>2, FailsInv
  <1> QED BY <1>7, <1>8

-----------------------------------------------------------------------------
(* The size line of a chunk *)

\* There are d digits in s after its first c bytes.
DigitsAt(s, c, d) == \A j \in 1 .. d : s[c + j] \in DOMAIN HexDigits

\* The digits of a size line are all that stand at its start.
LEMMA SizeLineDigits ==
    ASSUME NEW s \in Seq(Byte), NEW c \in Nat, NEW d \in Nat, NEW k, SizeLine(s, c + 1, k),
           DigitsAt(s, c, d)
    PROVE  /\ k \in Nat /\ k >= 1 /\ k <= MaxHexIntChars /\ k >= d
           /\ c + 1 + k + 1 <= Len(s)
           /\ s[c + d + 1] \notin DOMAIN HexDigits => k = d
           /\ k = d => s[c + d + 1] = "\r" /\ s[c + d + 2] = "\n"
  <1>1. /\ k \in Nat /\ k >= 1 /\ k <= MaxHexIntChars /\ c + 1 + k + 1 <= Len(s)
        /\ s[c + 1 + k] = "\r" /\ s[c + 1 + k + 1] = "\n"
        /\ \A j \in c + 1 .. c + 1 + k - 1 : s[j] \in DOMAIN HexDigits
    BY LimitsAssumption DEF SizeLine
  <1>2. k >= d
    <2>1. SUFFICES ASSUME k < d PROVE FALSE
      BY <1>1
    <2>2. k + 1 \in 1 .. d /\ c + (k + 1) = c + 1 + k
      BY <1>1, <2>1
    <2> QED BY <1>1, <2>2, HexAssumption DEF DigitsAt
  <1>3. ASSUME s[c + d + 1] \notin DOMAIN HexDigits PROVE k = d
    <2>1. SUFFICES ASSUME k > d PROVE FALSE
      BY <1>1, <1>2
    <2>2. c + d + 1 \in c + 1 .. c + 1 + k - 1
      BY <1>1, <2>1
    <2> QED BY <1>1, <1>3, <2>2
  <1>4. ASSUME k = d PROVE s[c + d + 1] = "\r" /\ s[c + d + 2] = "\n"
    <2>1. c + d + 1 = c + 1 + k /\ c + d + 2 = c + 1 + k + 1
      BY <1>1, <1>4
    <2> QED BY <1>1, <2>1
  <1> QED BY <1>1, <1>2, <1>3, <1>4

\* Where a chunk should start and no size line does, the body is malformed.
LEMMA Malformed ==
    ASSUME ExTypeOK, NEW c \in Nat, c <= B + N, Type(script) = -1,
           ChunkedLen(Rest) = ChunkedEnds(Rest)[c + 1],
           \A k : ~SizeLine(Rest, c + 1, k)
    PROVE  ~WellFormed(script)
  <1>1. Rest \in Seq(Byte) /\ Len(Rest) = B + N /\ B \in Nat /\ N \in Nat
    BY TextAt, ScriptFacts
  <1>2. c + 1 \in 1 .. Len(Rest) + 1
    BY <1>1
  <1>3. ~HasSizeLine(Rest, c + 1)
    BY DEF HasSizeLine
  <1>4. ChunkedEnds(Rest)[c + 1] = 0
    BY <1>1, <1>2, <1>3, ChunkedEndsDef
  <1> QED BY <1>4 DEF WellFormed, Rest

\* The reader is m bytes after the header, after d digits of the size line that
\* starts after c bytes.
AtLine(pos, m, c, d) ==
    /\ pos <= Arrived /\ Holds(pos) /\ LinePlace(pos) /\ pos = R + H + m
    /\ c = Len(p.out) /\ d = p.digits /\ m = c + d + (IF p.at = "lf" THEN 1 ELSE 0)
    /\ c <= B + N /\ m + Len(buf) + Len(wire) <= B + N
    /\ cut \/ m + Len(buf) + Len(wire) = B + N
    /\ DigitsAt(Rest, c, d)
    /\ Len(buf) >= 1 => m + 1 <= B + N /\ Head(buf) = Rest[m + 1]

LEMMA LineAt ==
    ASSUME ExInv, p.at \in {"hex", "cr", "lf"}
    PROVE  \E pos \in Nat, m \in Nat, c \in Nat, d \in Nat : AtLine(pos, m, c, d)
  <1>1. /\ ExTypeOK /\ p \in Parser /\ buf \in Seq(Byte) /\ Len(wire) \in Nat /\ Len(buf) \in Nat
        /\ R \in Nat /\ H \in Nat /\ B \in Nat /\ N \in Nat
    BY BodyAt
  <1>2. PICK pos \in Nat : pos <= Arrived /\ Holds(pos) /\ LinePlace(pos)
    BY BodyAt
  <1>3. PICK c \in Nat : c = Len(p.out)
    BY <1>1, Fields
  <1>4. PICK d \in Nat : d = p.digits
    BY <1>1, Fields
  <1>5. PICK e \in Nat : e = IF p.at = "lf" THEN 1 ELSE 0
    OBVIOUS
  <1>6. PICK m \in Nat : m = c + d + e
    OBVIOUS
  <1>7. pos = R + H + c + d + e /\ c + d <= B + N
    BY <1>2, <1>3, <1>4, <1>5 DEF LinePlace
  <1>8. pos = R + H + m
    BY <1>1, <1>6, <1>7
  <1>9. /\ m + Len(buf) + Len(wire) <= B + N
        /\ cut \/ m + Len(buf) + Len(wire) = B + N
        /\ \A i \in 1 .. Len(buf) : buf[i] = Rest[m + i]
    BY <1>1, <1>2, <1>8, BufIsRest
  <1>10. Len(buf) >= 1 => m + 1 <= B + N /\ Head(buf) = Rest[m + 1]
    <2>1. SUFFICES ASSUME Len(buf) >= 1 PROVE m + 1 <= B + N /\ Head(buf) = Rest[m + 1]
      OBVIOUS
    <2>2. m + 1 <= B + N
      <3>1. m + Len(buf) + Len(wire) <= B + N
        BY <1>9
      <3> QED BY <1>1, <2>1, <3>1
    <2>3. Head(buf) = buf[1] /\ 1 \in 1 .. Len(buf)
      BY <1>1, <2>1
    <2> QED BY <1>9, <2>2, <2>3
  <1>11. DigitsAt(Rest, c, d)
    BY <1>2, <1>3, <1>4 DEF LinePlace, DigitsAt
  <1>12. c <= B + N
    BY <1>1, <1>7
  <1>13. AtLine(pos, m, c, d)
    BY <1>2, <1>3, <1>4, <1>5, <1>6, <1>8, <1>9, <1>10, <1>11, <1>12 DEF AtLine
  <1> QED BY <1>13

\* ReadByte.
LEMMA ConsumeOne ==
    ASSUME ExTypeOK, NEW pos \in Nat, Holds(pos), Len(buf) >= 1, buf' = Tail(buf),
           UNCHANGED <<wire, script, sent, cut>>
    PROVE  buf' \in Seq(Byte) /\ pos + 1 \in 0 .. Arrived' /\ Holds(pos + 1)'
  <1>1. buf \in Seq(Byte)
    BY DEF ExTypeOK
  <1>2. 1 \in 0 .. Len(buf) /\ buf' = From(buf, 1 + 1)
    BY <1>1 DEF From
  <1> QED BY <1>2, Consume

\* ReadHexInt.
LEMMA HexInv ==
    ASSUME ExInv, Hex, UNCHANGED <<open, script, sent, cut>>
    PROVE  ExInv'
  <1> DEFINE ch == Head(buf)
  <1>1. p.at = "hex" /\ Len(buf) >= p.n
    BY DEF Hex, Peeked
  <1>2. /\ ExTypeOK /\ p \in Parser /\ buf \in Seq(Byte) /\ wire \in Seq(Byte)
        /\ Len(wire) \in Nat /\ Len(buf) \in Nat
        /\ R \in Nat /\ H \in Nat /\ B \in Nat /\ N \in Nat
        /\ Accepts(script) /\ p.n = 1 /\ p.type = Type(script) /\ Passed
        /\ Rest \in Seq(Byte) /\ Len(Rest) = B + N
    BY <1>1, BodyAt
  <1>3. PICK pos \in Nat, m \in Nat, c \in Nat, d \in Nat : AtLine(pos, m, c, d)
    BY <1>1, LineAt
  <1>4. Len(buf) >= 1 /\ p.digits = d /\ m = c + d
    <2>1. Len(buf) >= 1 /\ p.digits = d
      BY <1>1, <1>2, <1>3 DEF AtLine
    <2>2. m = c + d + 0
      BY <1>1, <1>3 DEF AtLine
    <2> QED BY <2>1, <2>2
  <1>5. ch = Rest[c + d + 1] /\ c + d + 1 <= B + N /\ ch \in Byte
    <2>1. ch = Rest[m + 1] /\ m + 1 <= B + N
      BY <1>3, <1>4 DEF AtLine
    <2>2. ch \in Byte
      BY <1>2, <1>4
    <2> QED BY <1>4, <2>1, <2>2
  <1>6. /\ LinePlace(pos) /\ Holds(pos) /\ pos <= Arrived /\ pos = R + H + m /\ c <= B + N
        /\ c = Len(p.out) /\ DigitsAt(Rest, c, d)
    BY <1>3 DEF AtLine
  <1>7. /\ p.type = -1 /\ d <= MaxHexIntChars /\ Len(p.chunk) = d
        /\ \A i \in 1 .. d : p.chunk[i] = Rest[c + i] /\ p.chunk[i] \in DOMAIN HexDigits
        /\ p.size = HexValue(p.chunk) /\ ChunkedLen(Rest) = ChunkedEnds(Rest)[c + 1]
    BY <1>4, <1>6 DEF LinePlace
  <1>8. p.chunk \in Seq(Byte) /\ p.size \in Nat /\ p.digits \in Nat
    BY <1>2, Fields
  <1> HIDE DEF ch
  <1>9. CASE /\ ch \in DOMAIN HexDigits /\ p.digits < MaxHexIntChars
             /\ p' = [p EXCEPT !.size = 16 * @ + HexDigits[ch], !.digits = @ + 1,
                               !.chunk = Append(@, ch)]
             /\ buf' = Tail(buf) /\ UNCHANGED <<wire, closed>>
    <2> DEFINE chunk == Append(p.chunk, ch)
               size == 16 * p.size + HexDigits[ch]
               digits == p.digits + 1
    <2>1. chunk \in Seq(Byte) /\ Len(chunk) = d + 1
          /\ (\A i \in 1 .. d : chunk[i] = p.chunk[i]) /\ chunk[d + 1] = ch
      BY <1>5, <1>7, <1>8, AppendProperties
    <2>2. HexDigits[ch] \in Nat
      BY <1>9, HexDigit
    <2>3. size \in Nat /\ digits \in Nat /\ digits = d + 1 /\ d + 1 <= MaxHexIntChars
      <3>1. p.digits < MaxHexIntChars /\ p.digits = d /\ p.size \in Nat /\ MaxHexIntChars \in Nat
        BY <1>4, <1>8, <1>9, LimitsAssumption
      <3> QED BY <2>2, <3>1
    <2>4. HexValue(chunk) = size
      <3>1. \A i \in 1 .. Len(p.chunk) : p.chunk[i] \in DOMAIN HexDigits
        BY <1>7
      <3>2. HexValue(chunk) = 16 * HexValue(p.chunk) + HexDigits[ch]
        BY <1>5, <1>8, <1>9, <3>1, HexValueOfMore
      <3> QED BY <1>7, <3>2
    <2>5. p' = [p EXCEPT !.size = size, !.digits = digits, !.chunk = chunk]
      BY <1>9
    <2> HIDE DEF chunk, size, digits
    <2>6. p' \in Parser
      BY <1>2, <2>1, <2>3, <2>5 DEF Parser
    <2>7. /\ p'.size = size /\ p'.digits = digits /\ p'.chunk = chunk
          /\ p'.at = p.at /\ p'.n = p.n /\ p'.type = p.type /\ p'.out = p.out
      BY <1>2, <2>5 DEF Parser
    <2>8. PICK q \in Nat : q = pos + 1
      OBVIOUS
    <2>9. buf' \in Seq(Byte) /\ q \in 0 .. Arrived' /\ Holds(q)'
      BY <1>2, <1>4, <1>6, <1>9, <2>8, ConsumeOne
    <2>10. ExTypeOK'
      BY <1>2, <1>9, <2>6, <2>9 DEF ExTypeOK
    <2>11. ASSUME NEW i \in 1 .. d + 1
           PROVE  chunk[i] = Rest[c + i] /\ chunk[i] \in DOMAIN HexDigits
      <3>1. CASE i \in 1 .. d
        BY <1>7, <2>1, <3>1
      <3>2. CASE i = d + 1
        <4>1. c + i = c + d + 1
          BY <3>2
        <4> QED BY <1>5, <1>9, <2>1, <3>2, <4>1
      <3> QED BY <3>1, <3>2
    <2>12. q = R + H + c + (d + 1) + 0 /\ c + (d + 1) <= B + N
      <3>1. q = (R + H + (c + d)) + 1 /\ R \in Nat /\ H \in Nat /\ c + d + 1 <= B + N
        BY <1>2, <1>4, <1>5, <1>6, <2>8
      <3>2. B \in Nat /\ N \in Nat
        BY <1>2
      <3> QED BY <3>1, <3>2
    <2>13. LinePlace(q)'
      BY <1>1, <1>6, <1>7, <2>1, <2>3, <2>4, <2>7, <2>11, <2>12, Same DEF LinePlace
    <2>14. Passed'
      BY <1>2, <2>7, Same DEF Passed
    <2>15. BodyPlace(q)'
      BY <1>1, <1>2, <2>7, <2>13, <2>14 DEF BodyPlace
    <2> QED BY <1>1, <1>2, <1>9, <2>7, <2>9, <2>10, <2>15, MovesToBody
  <1>10. CASE ch \in DOMAIN HexDigits /\ p.digits >= MaxHexIntChars /\ Fails
    <2>1. d = MaxHexIntChars
      BY <1>4, <1>7, <1>10, LimitsAssumption
    <2>2. ASSUME NEW k, SizeLine(Rest, c + 1, k) PROVE FALSE
      <3>1. Rest \in Seq(Byte) /\ DigitsAt(Rest, c, d)
        BY <1>2, <1>6
      <3>2. k \in Nat /\ k <= MaxHexIntChars /\ k >= d
        BY <2>2, <3>1, SizeLineDigits
      <3>3. k = d => Rest[c + d + 1] = "\r"
        BY <2>2, <3>1, SizeLineDigits
      <3>4. k = d
        BY <2>1, <3>2
      <3> QED BY <1>5, <1>10, <3>3, <3>4, HexAssumption
    <2>3. ~WellFormed(script)
      BY <1>2, <1>6, <1>7, <2>2, Malformed
    <2> QED BY <1>10, <2>3, FailsInv
  <1>11. CASE ch \notin DOMAIN HexDigits \cup {"0xFF"} /\ p.digits = 0 /\ Fails
    <2>1. d = 0
      BY <1>4, <1>11
    <2>2. ASSUME NEW k, SizeLine(Rest, c + 1, k) PROVE FALSE
      <3>1. k \in Nat /\ k >= 1 /\ (Rest[c + d + 1] \notin DOMAIN HexDigits => k = d)
        BY <1>2, <1>6, <2>2, SizeLineDigits
      <3> QED BY <1>5, <1>11, <2>1, <3>1
    <2>3. ~WellFormed(script)
      BY <1>2, <1>6, <1>7, <2>2, Malformed
    <2> QED BY <1>11, <2>3, FailsInv
  <1>12. CASE /\ ch \notin DOMAIN HexDigits \cup {"0xFF"} /\ p.digits > 0
              /\ p' = [p EXCEPT !.at = "cr"] /\ UNCHANGED <<wire, buf, closed>>
    <2>1. p' \in Parser
      <3>1. "cr" \in Phases
        BY DEF Phases, MessagePhases
      <3> QED BY <1>2, <1>12, <3>1 DEF Parser
    <2>2. /\ p'.at = "cr" /\ p'.size = p.size /\ p'.digits = p.digits /\ p'.chunk = p.chunk
          /\ p'.n = p.n /\ p'.type = p.type /\ p'.out = p.out
      BY <1>2, <1>12 DEF Parser
    <2>3. ExTypeOK'
      BY <1>2, <1>12, <2>1 DEF ExTypeOK
    <2>4. Holds(pos)'
      BY <1>6, <1>12, Same DEF Holds
    <2>5. pos \in 0 .. Arrived'
      BY <1>2, <1>6, ScriptFacts, Same
    <2>6. d >= 1 /\ pos = R + H + c + d + 0 /\ c + d <= B + N
      <3>1. pos = R + H + (c + d) /\ R \in Nat /\ H \in Nat /\ c + d + 1 <= B + N /\ d > 0
        BY <1>2, <1>4, <1>5, <1>6, <1>12
      <3>2. B \in Nat /\ N \in Nat
        BY <1>2
      <3> QED BY <3>1, <3>2
    <2>7. LinePlace(pos)'
      BY <1>4, <1>5, <1>6, <1>7, <1>12, <2>2, <2>6, Same DEF LinePlace
    <2>8. BodyPlace(pos)'
      BY <1>2, <2>2, <2>7, Same DEF BodyPlace, Passed
    <2> QED BY <1>1, <1>2, <1>12, <2>2, <2>3, <2>4, <2>5, <2>8, MovesToBody
  <1>13. CASE ch = "0xFF" /\ GiveUp("panicked")
    <2>1. ch \notin DOMAIN HexDigits /\ ch # "\r"
      BY <1>13, HexAssumption
    <2>2. ASSUME NEW k, SizeLine(Rest, c + 1, k) PROVE FALSE
      <3>1. Rest \in Seq(Byte) /\ DigitsAt(Rest, c, d)
        BY <1>2, <1>6
      <3>2. Rest[c + d + 1] \notin DOMAIN HexDigits => k = d
        BY <2>2, <3>1, SizeLineDigits
      <3>3. k = d => Rest[c + d + 1] = "\r"
        BY <2>2, <3>1, SizeLineDigits
      <3> QED BY <1>5, <2>1, <3>2, <3>3
    <2>3. ~WellFormed(script)
      BY <1>2, <1>6, <1>7, <2>2, Malformed
    <2>4. "0xFF" \in Range(Rest)
      <3>1. c + d + 1 \in DOMAIN Rest
        BY <1>2, <1>5
      <3> QED BY <1>5, <1>13, <3>1 DEF Range
    <2>5. p' = [p EXCEPT !.at = "panicked"] /\ UNCHANGED <<wire, buf, closed>>
      BY <1>13 DEF GiveUp
    <2>6. wire' \in Seq(Byte) /\ buf' \in Seq(Byte) /\ open' \in BOOLEAN
      BY <1>2, <2>5 DEF ExTypeOK
    <2> QED BY <1>2, <2>3, <2>4, <2>5, <2>6, GivesUp
  <1> QED BY <1>9, <1>10, <1>11, <1>12, <1>13 DEF Hex, ch

\* The CR of a size line.
LEMMA SizeCRInv ==
    ASSUME ExInv, SizeCR, UNCHANGED <<open, script, sent, cut>>
    PROVE  ExInv'
  <1>1. p.at = "cr" /\ Len(buf) >= p.n
    BY DEF SizeCR, Peeked
  <1>2. /\ ExTypeOK /\ p \in Parser /\ buf \in Seq(Byte) /\ wire \in Seq(Byte)
        /\ Len(wire) \in Nat /\ Len(buf) \in Nat
        /\ R \in Nat /\ H \in Nat /\ B \in Nat /\ N \in Nat
        /\ Accepts(script) /\ p.n = 1 /\ p.type = Type(script) /\ Passed
        /\ Rest \in Seq(Byte) /\ Len(Rest) = B + N
    BY <1>1, BodyAt
  <1>3. PICK pos \in Nat, m \in Nat, c \in Nat, d \in Nat : AtLine(pos, m, c, d)
    BY <1>1, LineAt
  <1>4. Len(buf) >= 1 /\ p.digits = d /\ m = c + d
    <2>1. Len(buf) >= 1 /\ p.digits = d
      BY <1>1, <1>2, <1>3 DEF AtLine
    <2>2. m = c + d + 0
      BY <1>1, <1>3 DEF AtLine
    <2> QED BY <2>1, <2>2
  <1>5. Head(buf) = Rest[c + d + 1] /\ c + d + 1 <= B + N
    <2>1. Head(buf) = Rest[m + 1] /\ m + 1 <= B + N
      BY <1>3, <1>4 DEF AtLine
    <2> QED BY <1>4, <2>1
  <1>6. /\ LinePlace(pos) /\ Holds(pos) /\ pos <= Arrived /\ pos = R + H + m /\ c <= B + N
        /\ c = Len(p.out) /\ DigitsAt(Rest, c, d)
    BY <1>3 DEF AtLine
  <1>7. /\ p.type = -1 /\ Rest[c + d + 1] \notin DOMAIN HexDigits
        /\ ChunkedLen(Rest) = ChunkedEnds(Rest)[c + 1]
    BY <1>1, <1>4, <1>6 DEF LinePlace
  <1>8. CASE /\ Head(buf) = "\r" /\ p' = [p EXCEPT !.at = "lf"]
             /\ buf' = Tail(buf) /\ UNCHANGED <<wire, closed>>
    <2>1. p' \in Parser
      <3>1. "lf" \in Phases
        BY DEF Phases, MessagePhases
      <3> QED BY <1>2, <1>8, <3>1 DEF Parser
    <2>2. /\ p'.at = "lf" /\ p'.size = p.size /\ p'.digits = p.digits /\ p'.chunk = p.chunk
          /\ p'.n = p.n /\ p'.type = p.type /\ p'.out = p.out
      BY <1>2, <1>8 DEF Parser
    <2>3. PICK q \in Nat : q = pos + 1
      OBVIOUS
    <2>4. buf' \in Seq(Byte) /\ q \in 0 .. Arrived' /\ Holds(q)'
      BY <1>2, <1>4, <1>6, <1>8, <2>3, ConsumeOne
    <2>5. ExTypeOK'
      BY <1>2, <1>8, <2>1, <2>4 DEF ExTypeOK
    <2>6. q = R + H + c + d + 1
      <3>1. q = (R + H + (c + d)) + 1 /\ R \in Nat /\ H \in Nat
        BY <1>2, <1>4, <1>6, <2>3
      <3> QED BY <3>1
    <2>7. LinePlace(q)'
      BY <1>1, <1>4, <1>5, <1>6, <1>8, <2>2, <2>6, Same DEF LinePlace
    <2>8. BodyPlace(q)'
      BY <1>2, <2>2, <2>7, Same DEF BodyPlace, Passed
    <2> QED BY <1>2, <1>8, <2>2, <2>4, <2>5, <2>8, MovesToBody
  <1>9. CASE Head(buf) # "\r" /\ Fails
    <2>1. ASSUME NEW k, SizeLine(Rest, c + 1, k) PROVE FALSE
      <3>1. Rest \in Seq(Byte) /\ DigitsAt(Rest, c, d)
        BY <1>2, <1>6
      <3>2. Rest[c + d + 1] \notin DOMAIN HexDigits => k = d
        BY <2>1, <3>1, SizeLineDigits
      <3>3. k = d => Rest[c + d + 1] = "\r"
        BY <2>1, <3>1, SizeLineDigits
      <3> QED BY <1>5, <1>7, <1>9, <3>2, <3>3
    <2>2. ~WellFormed(script)
      BY <1>2, <1>6, <1>7, <2>1, Malformed
    <2> QED BY <1>9, <2>2, FailsInv
  <1> QED BY <1>8, <1>9 DEF SizeCR

\* The LF of a size line: what was read is the size line of the chunk that
\* ChunkedEnds sees.
LEMMA SizeLFInv ==
    ASSUME ExInv, SizeLF, UNCHANGED <<open, script, sent, cut>>
    PROVE  ExInv'
  <1>1. p.at = "lf" /\ Len(buf) >= p.n
    BY DEF SizeLF, Peeked
  <1>2. /\ ExTypeOK /\ p \in Parser /\ buf \in Seq(Byte) /\ wire \in Seq(Byte)
        /\ Len(wire) \in Nat /\ Len(buf) \in Nat
        /\ R \in Nat /\ H \in Nat /\ B \in Nat /\ N \in Nat
        /\ Accepts(script) /\ p.n = 1 /\ p.type = Type(script) /\ Passed
        /\ Rest \in Seq(Byte) /\ Len(Rest) = B + N
    BY <1>1, BodyAt
  <1>3. PICK pos \in Nat, m \in Nat, c \in Nat, d \in Nat : AtLine(pos, m, c, d)
    BY <1>1, LineAt
  <1>4. Len(buf) >= 1 /\ p.digits = d /\ m = c + d + 1
    <2>1. Len(buf) >= 1 /\ p.digits = d
      BY <1>1, <1>2, <1>3 DEF AtLine
    <2>2. m = c + d + 1
      BY <1>1, <1>3 DEF AtLine
    <2> QED BY <2>1, <2>2
  <1>5. Head(buf) = Rest[c + d + 2] /\ c + d + 2 <= B + N
    <2>1. Head(buf) = Rest[m + 1] /\ m + 1 <= B + N
      BY <1>3, <1>4 DEF AtLine
    <2>2. m + 1 = c + d + 2
      BY <1>4
    <2> QED BY <2>1, <2>2
  <1>6. /\ LinePlace(pos) /\ Holds(pos) /\ pos <= Arrived /\ pos = R + H + m /\ c <= B + N
        /\ c = Len(p.out) /\ DigitsAt(Rest, c, d)
    BY <1>3 DEF AtLine
  <1>7. /\ p.type = -1 /\ Rest[c + d + 1] \notin DOMAIN HexDigits /\ Rest[c + d + 1] = "\r"
        /\ ChunkedLen(Rest) = ChunkedEnds(Rest)[c + 1]
    BY <1>1, <1>4, <1>6 DEF LinePlace
  <1>8. /\ d >= 1 /\ d <= MaxHexIntChars /\ Len(p.chunk) = d /\ p.size = HexValue(p.chunk)
        /\ \A i \in 1 .. d : p.chunk[i] = Rest[c + i]
    BY <1>1, <1>4, <1>6 DEF LinePlace
  <1>9. p.chunk \in Seq(Byte) /\ p.out \in Seq(Byte) /\ p.size \in Nat
    BY <1>2, Fields
  <1>10. CASE /\ Head(buf) = "\n"
              /\ p' = [p EXCEPT !.at = "fixed", !.left = p.size + 2, !.chunk = <<>>,
                                !.out = @ \o p.chunk \o <<"\r", "\n">>]
              /\ buf' = Tail(buf) /\ UNCHANGED <<wire, closed>>
    <2> DEFINE line == p.out \o p.chunk
               out == line \o <<"\r", "\n">>
               left == p.size + 2
    <2>1. line \in Seq(Byte) /\ Len(line) = c + d /\ Occurs(Rest, 0, line)
      <3>1. Occurs(Rest, 0, p.out)
        BY <1>2 DEF Passed
      <3>2. Occurs(Rest, Len(p.out), p.chunk)
        <4>1. c + Len(p.chunk) <= Len(Rest)
          BY <1>2, <1>5, <1>8
        <4>2. \A i \in 1 .. Len(p.chunk) : p.chunk[i] = Rest[c + i]
          BY <1>8
        <4> QED BY <1>6, <4>1, <4>2 DEF Occurs
      <3>3. Rest \in Seq(Byte) /\ p.out \in Seq(Byte) /\ p.chunk \in Seq(Byte)
        BY <1>2, <1>9
      <3>4. line \in Seq(Byte) /\ Len(line) = Len(p.out) + Len(p.chunk) /\ Occurs(Rest, 0, line)
        BY <3>1, <3>2, <3>3, PassedOn
      <3> QED BY <1>6, <1>8, <3>4
    <2> HIDE DEF line
    <2>2. <<"\r", "\n">> \in Seq(Byte) /\ Len(<<"\r", "\n">>) = 2
          /\ <<"\r", "\n">>[1] = "\r" /\ <<"\r", "\n">>[2] = "\n"
      <3>1. "\r" \in Byte /\ "\n" \in Byte
        <4>1. c + d + 1 \in 1 .. Len(Rest) /\ c + d + 2 \in 1 .. Len(Rest)
          BY <1>2, <1>5
        <4>2. Rest[c + d + 1] \in Byte /\ Rest[c + d + 2] \in Byte
          BY <1>2, <4>1
        <4> QED BY <1>5, <1>7, <1>10, <4>2
      <3> QED BY <3>1
    <2>3. out \in Seq(Byte) /\ Len(out) = c + d + 2 /\ Occurs(Rest, 0, out)
      <3> DEFINE crlf == <<"\r", "\n">>
      <3>1. crlf \in Seq(Byte) /\ Len(crlf) = 2 /\ crlf[1] = "\r" /\ crlf[2] = "\n"
        BY <2>2
      <3> HIDE DEF crlf
      <3>2. Occurs(Rest, Len(line), crlf)
        <4>1. Len(line) + Len(crlf) <= Len(Rest)
          BY <1>2, <1>5, <2>1, <3>1
        <4>2. ASSUME NEW i \in 1 .. Len(crlf) PROVE crlf[i] = Rest[Len(line) + i]
          <5>1. i = 1 \/ i = 2
            BY <3>1
          <5>2. Len(line) + 1 = c + d + 1 /\ Len(line) + 2 = c + d + 2
            BY <2>1
          <5> QED BY <1>5, <1>7, <1>10, <3>1, <5>1, <5>2
        <4> QED BY <4>1, <4>2 DEF Occurs
      <3>3. Rest \in Seq(Byte) /\ line \in Seq(Byte) /\ crlf \in Seq(Byte)
        BY <1>2, <2>1, <3>1
      <3>4. /\ line \o crlf \in Seq(Byte) /\ Len(line \o crlf) = Len(line) + Len(crlf)
            /\ Occurs(Rest, 0, line \o crlf)
        BY <2>1, <3>2, <3>3, PassedOn
      <3>5. Len(line) + Len(crlf) = c + d + 2
        BY <2>1, <3>1
      <3> QED BY <3>4, <3>5 DEF crlf
    <2>4. left \in Nat /\ left >= 1 /\ "fixed" \in Phases /\ <<>> \in Seq(Byte)
      BY <1>9 DEF Phases, MessagePhases
    <2>5. p' = [p EXCEPT !.at = "fixed", !.left = left, !.chunk = <<>>, !.out = out]
      BY <1>10 DEF line
    <2> HIDE DEF out, left
    <2>6. p' \in Parser
      BY <1>2, <2>3, <2>4, <2>5 DEF Parser
    <2>7. /\ p'.at = "fixed" /\ p'.left = left /\ p'.chunk = <<>> /\ p'.out = out
          /\ p'.size = p.size /\ p'.n = p.n /\ p'.type = p.type
      BY <1>2, <2>5 DEF Parser
    <2>8. PICK q \in Nat : q = pos + 1
      OBVIOUS
    <2>9. buf' \in Seq(Byte) /\ q \in 0 .. Arrived' /\ Holds(q)'
      BY <1>2, <1>4, <1>6, <1>10, <2>8, ConsumeOne
    <2>10. ExTypeOK'
      BY <1>2, <1>10, <2>6, <2>9 DEF ExTypeOK
    <2>11. q = R + H + Len(p'.out)
      <3>1. q = (R + H + (c + d + 1)) + 1 /\ R \in Nat /\ H \in Nat
        BY <1>2, <1>4, <1>6, <2>8
      <3>2. q = R + H + (c + d + 2)
        BY <3>1
      <3> QED BY <2>3, <2>7, <3>2
    <2>12. SizeLine(Rest, c + 1, d)
      <3>1. d \in 1 .. MaxHexIntChars /\ (c + 1) + d + 1 <= Len(Rest)
        BY <1>2, <1>5, <1>8, LimitsAssumption
      <3>2. ASSUME NEW j \in c + 1 .. (c + 1) + d - 1 PROVE Rest[j] \in DOMAIN HexDigits
        <4>1. j - c \in 1 .. d /\ c + (j - c) = j
          OBVIOUS
        <4> QED BY <1>6, <4>1 DEF DigitsAt
      <3>3. (c + 1) + d = c + d + 1 /\ (c + 1) + d + 1 = c + d + 2
        OBVIOUS
      <3> QED BY <1>5, <1>7, <1>10, <3>1, <3>2, <3>3 DEF SizeLine
    <2>13. c + 1 \in 1 .. Len(Rest) + 1
      BY <1>2, <1>6
    <2>14. SubSeq(Rest, c + 1, (c + 1) + d - 1) = p.chunk
      <3> DEFINE s == SubSeq(Rest, c + 1, (c + 1) + d - 1)
      <3>1. (c + 1) + d - 1 <= Len(Rest) /\ (c + 1) + d - 1 \in Nat
        BY <1>2, <1>5
      <3>2. s \in Seq(Byte) /\ Len(s) = d /\ \A i \in 1 .. d : s[i] = Rest[c + i]
        BY <1>2, <1>8, <3>1
      <3> HIDE DEF s
      <3>3. s = p.chunk
        <4>1. Len(s) = Len(p.chunk) /\ s \in Seq(Byte) /\ p.chunk \in Seq(Byte)
          BY <1>8, <1>9, <3>2
        <4>2. \A i \in 1 .. Len(s) : s[i] = p.chunk[i]
          BY <1>8, <3>2
        <4> QED BY <4>1, <4>2, SeqEqual
      <3> QED BY <3>3 DEF s
    <2>15. /\ HasSizeLine(Rest, c + 1) /\ ChunkSize(Rest, c + 1) = p.size
           /\ ChunkAfter(Rest, c + 1) = (c + 1) + d + 2 + p.size + 2
      <3>1. /\ HasSizeLine(Rest, c + 1)
            /\ ChunkSize(Rest, c + 1) = HexValue(SubSeq(Rest, c + 1, (c + 1) + d - 1))
            /\ ChunkAfter(Rest, c + 1) = (c + 1) + d + 2 + ChunkSize(Rest, c + 1) + 2
        BY <1>2, <2>12, <2>13, ChunkOf
      <3> QED BY <1>8, <2>14, <3>1
    <2>16. PICK end \in Nat : end = Len(p'.out) + p'.left /\ end + 1 = ChunkAfter(Rest, c + 1)
      <3>1. Len(p'.out) + p'.left = (c + d + 2) + (p.size + 2)
        BY <2>3, <2>7 DEF left
      <3>2. ChunkAfter(Rest, c + 1) = (c + 1) + d + 2 + p.size + 2
        BY <2>15
      <3> QED BY <1>9, <3>1, <3>2
    <2>17. ChunkedLen(Rest) =
              IF end + 1 > Len(Rest) + 1 THEN 0
              ELSE IF p.size = 0 THEN (end + 1) - 1 ELSE ChunkedEnds(Rest)[end + 1]
      <3>1. ChunkedEnds(Rest)[c + 1] =
               IF ~HasSizeLine(Rest, c + 1) \/ ChunkAfter(Rest, c + 1) > Len(Rest) + 1 THEN 0
               ELSE IF ChunkSize(Rest, c + 1) = 0 THEN ChunkAfter(Rest, c + 1) - 1
               ELSE ChunkedEnds(Rest)[ChunkAfter(Rest, c + 1)]
        BY <1>2, <2>13, ChunkedEndsDef
      <3> QED BY <1>7, <2>15, <2>16, <3>1
    <2>18. /\ end > B + N => ChunkedLen(Rest) = 0
           /\ end <= B + N => ChunkedLen(Rest) = IF p.size = 0 THEN end ELSE ChunkedEnds(Rest)[end + 1]
      <3>1. Len(Rest) = B + N /\ B \in Nat /\ N \in Nat
        BY <1>2
      <3>2. (end + 1 > (B + N) + 1 <=> end > B + N) /\ (end + 1) - 1 = end
            /\ (end <= B + N <=> ~(end > B + N))
        BY <3>1
      <3> QED BY <2>17, <3>1, <3>2
    <2>19. FixedPlace(q)'
      BY <1>7, <2>4, <2>7, <2>11, <2>16, <2>18, Same DEF FixedPlace
    <2>20. BodyPlace(q)'
      BY <1>2, <2>3, <2>7, <2>19, Same DEF BodyPlace, Passed
    <2> QED BY <1>2, <1>10, <2>7, <2>9, <2>10, <2>20, MovesToBody
  <1>11. CASE Head(buf) # "\n" /\ Fails
    <2>1. ASSUME NEW k, SizeLine(Rest, c + 1, k) PROVE FALSE
      <3>1. Rest \in Seq(Byte) /\ DigitsAt(Rest, c, d)
        BY <1>2, <1>6
      <3>2. Rest[c + d + 1] \notin DOMAIN HexDigits => k = d
        BY <2>1, <3>1, SizeLineDigits
      <3>3. k = d => Rest[c + d + 2] = "\n"
        BY <2>1, <3>1, SizeLineDigits
      <3> QED BY <1>5, <1>7, <1>11, <3>2, <3>3
    <2>2. ~WellFormed(script)
      BY <1>2, <1>6, <1>7, <2>1, Malformed
    <2> QED BY <1>11, <2>2, FailsInv
  <1> QED BY <1>10, <1>11 DEF SizeLF

\* io.EOF in a header or in a size line: the connection broke, or the sender's
\* message ends there.
LEMMA ParseEOFInv ==
    ASSUME ExInv, ParseEOF, UNCHANGED <<open, script, sent, cut>>
    PROVE  ExInv'
  <1>1. /\ p.at \in {"header", "hex", "cr", "lf"} /\ Fails
        /\ Len(buf) < p.n /\ wire = <<>> /\ closed
    BY DEF ParseEOF, PeekEOF
  <1>2. SUFFICES ASSUME ~cut PROVE ~WellFormed(script)
    BY <1>1, FailsInv
  <1>3. CASE p.at = "header"
    <2>1. ExTypeOK /\ p \in Parser /\ Len(buf) \in Nat /\ Arrived \in Nat
      BY <1>3, At
    <2>2. PICK pos \in Nat : pos <= Arrived /\ Holds(pos) /\ Place(pos)
      BY <1>3, At
    <2>3. HeaderPlace(pos) /\ pos = R /\ p.n \in Nat
      BY <1>3, <2>1, <2>2, Fields DEF Place, HeaderPlace
    <2>4. R \in Nat /\ H \in Nat /\ B \in Nat /\ N \in Nat /\ H >= 1
      BY <2>1, ScriptFacts
    <2>5. sent /\ Arrived = R + H + B + N
      <3>1. Accepts(script)
        BY <1>3, <2>2 DEF Place, MessagePhases
      <3> QED BY <1>1, <1>2, <3>1 DEF ExInv, Arrived
    <2>6. Len(buf) = H + B + N
      <3>1. R + Len(buf) + 0 = Arrived
        BY <1>1, <1>2, <2>2, <2>3 DEF Holds
      <3> QED BY <2>1, <2>4, <2>5, <3>1
    <2>7. p.n - 1 = Len(buf)
      <3>1. p.n - 1 <= Len(buf)
        BY <2>3 DEF HeaderPlace
      <3> QED BY <1>1, <2>1, <2>3, <3>1
    <2>8. ~EmptyLineEnds(buf, H)
      <3>1. H \in 1 .. p.n - 1
        BY <2>4, <2>6, <2>7
      <3> QED BY <2>3, <3>1 DEF HeaderPlace
    <2>9. EmptyLineEnds(buf, H)
      <3>1. \A j \in 1 .. H : j \in 1 .. Len(buf)
        BY <2>4, <2>6
      <3>2. \A j \in 1 .. H : buf[j] = Message[j]
        BY <2>1, <2>2, <2>3, <3>1, BufIsMessage
      <3>3. EmptyLineEnds(Message, H)
        BY <2>1, MessageHeader
      <3> QED BY <2>4, <3>2, <3>3, EmptyLineLocal
    <2> QED BY <2>8, <2>9
  <1>4. CASE p.at \in {"hex", "cr", "lf"}
    <2>1. /\ ExTypeOK /\ buf \in Seq(Byte) /\ Len(buf) \in Nat
          /\ B \in Nat /\ N \in Nat /\ p.n = 1 /\ p.type = Type(script)
          /\ Rest \in Seq(Byte) /\ Len(Rest) = B + N
      BY <1>4, BodyAt
    <2>2. PICK pos \in Nat, m \in Nat, c \in Nat, d \in Nat : AtLine(pos, m, c, d)
      BY <1>4, LineAt
    <2>3. Len(buf) = 0 /\ Len(wire) = 0
      BY <1>1, <2>1
    <2>4. m = B + N
      <3>1. m + Len(buf) + Len(wire) = B + N
        BY <1>2, <2>2 DEF AtLine
      <3> QED BY <2>1, <2>3, <3>1
    <2>5. m <= c + d + 1
      <3>1. m = c + d + (IF p.at = "lf" THEN 1 ELSE 0)
        BY <2>2 DEF AtLine
      <3>2. (IF p.at = "lf" THEN 1 ELSE 0) \in {0, 1}
        OBVIOUS
      <3> QED BY <3>1, <3>2
    <2>6. DigitsAt(Rest, c, d) /\ c <= B + N /\ LinePlace(pos) /\ c = Len(p.out)
      BY <2>2 DEF AtLine
    <2>7. p.type = -1 /\ ChunkedLen(Rest) = ChunkedEnds(Rest)[c + 1]
      BY <2>6 DEF LinePlace
    <2>8. ASSUME NEW k, SizeLine(Rest, c + 1, k) PROVE FALSE
      <3>1. k \in Nat /\ k >= d
        BY <2>1, <2>6, <2>8, SizeLineDigits
      <3>2. c + 1 + k + 1 <= Len(Rest)
        BY <2>1, <2>6, <2>8, SizeLineDigits
      <3> QED BY <2>1, <2>4, <2>5, <3>1, <3>2
    <2> QED BY <2>1, <2>6, <2>7, <2>8, Malformed
  <1> QED BY <1>1, <1>3, <1>4

-----------------------------------------------------------------------------
(* The answer of an HTTP proxy *)

LEMMA HTTPAt ==
    ASSUME ExInv, p.at \in HTTPPhases
    PROVE  /\ ExTypeOK /\ p \in Parser /\ buf \in Seq(Byte) /\ wire \in Seq(Byte)
           /\ Len(buf) \in Nat /\ Len(wire) \in Nat /\ R \in Nat /\ Arrived = R /\ ~sent
           /\ script.reply \in Seq(Byte) /\ Len(script.reply) = R
           /\ script.proxy = "http" /\ IsReply(script)
           /\ \E pos \in Nat : /\ pos <= Arrived /\ Holds(pos) /\ HTTPPlace(pos)
                               /\ pos + Len(buf) + Len(wire) <= R
                               /\ \A i \in 1 .. Len(buf) : buf[i] = script.reply[pos + i]
  <1>1. p.at \notin {"failed", "aborted", "panicked"}
    BY DEF HTTPPhases
  <1>2. /\ ExTypeOK /\ p \in Parser /\ buf \in Seq(Byte) /\ wire \in Seq(Byte)
        /\ Len(buf) \in Nat /\ Len(wire) \in Nat
    BY <1>1, At
  <1>3. PICK pos \in Nat : pos <= Arrived /\ Holds(pos) /\ Place(pos)
    BY <1>1, At
  <1>4. HTTPPlace(pos)
    BY <1>3 DEF Place
  <1>5. script.proxy = "http" /\ ~sent
    BY <1>4 DEF HTTPPlace
  <1>6. /\ R \in Nat /\ script.reply \in Seq(Byte) /\ Len(script.reply) = R /\ IsReply(script)
        /\ Arrived = R
    BY <1>2, <1>5, ScriptFacts DEF R, Arrived
  <1>7. pos + Len(buf) + Len(wire) <= R
    BY <1>3, <1>6 DEF Holds
  <1>8. ASSUME NEW i \in 1 .. Len(buf) PROVE buf[i] = script.reply[pos + i]
    <2>1. pos + i \in 1 .. R
      BY <1>2, <1>6, <1>7
    <2>2. buf[i] = Text[pos + i]
      BY <1>3 DEF Holds
    <2> QED BY <1>2, <2>1, <2>2, TextAt
  <1> QED BY <1>2, <1>3, <1>4, <1>5, <1>6, <1>7, <1>8

LEMMA HTTPNeedMoreInv ==
    ASSUME ExInv, HTTPNeedMore, UNCHANGED <<script, sent, cut>>
    PROVE  ExInv'
  <1>1. /\ p.at \in HTTPPhases /\ p' = [p EXCEPT !.n = Len(buf) + 1]
        /\ UNCHANGED <<wire, buf, closed, open>>
    BY DEF HTTPNeedMore
  <1>2. /\ ExTypeOK /\ p \in Parser /\ Len(buf) \in Nat /\ R \in Nat /\ Arrived = R
    BY <1>1, HTTPAt
  <1>3. PICK pos \in Nat : pos <= Arrived /\ Holds(pos) /\ HTTPPlace(pos)
    BY <1>1, HTTPAt
  <1>4. p' \in Parser /\ p'.at = p.at /\ p'.n >= 1
    <2> DEFINE m == Len(buf) + 1
    <2>1. p' = [p EXCEPT !.n = m] /\ m \in Nat /\ m >= 1
      BY <1>1, <1>2
    <2> HIDE DEF m
    <2>2. p' \in Parser
      BY <1>2, <2>1 DEF Parser
    <2>3. p'.at = p.at /\ p'.n = m
      BY <1>2, <2>1 DEF Parser
    <2> QED BY <2>1, <2>2, <2>3
  <1>5. ExTypeOK'
    BY <1>1, <1>2, <1>4 DEF ExTypeOK
  <1>6. Holds(pos)'
    BY <1>1, <1>3, Same DEF Holds
  <1>7. HTTPPlace(pos)'
    BY <1>1, <1>3, <1>4 DEF HTTPPlace
  <1>8. pos \in 0 .. Arrived'
    BY <1>2, <1>3, Same
  <1> QED BY <1>1, <1>4, <1>5, <1>6, <1>7, <1>8, MovesToHTTP

LEMMA HTTPFailsInv ==
    ASSUME ExInv, HTTPFails, UNCHANGED <<script, sent, cut>>
    PROVE  ExInv'
  <1>1. p.at \in HTTPPhases /\ UNCHANGED <<wire, buf, closed>>
    BY DEF HTTPFails
  <1>2. ExTypeOK /\ ~sent
    BY <1>1, HTTPAt
  <1>3. wire' \in Seq(Byte) /\ buf' \in Seq(Byte)
    BY <1>1, <1>2 DEF ExTypeOK
  <1>4. CASE PeekEOF /\ TunnelFails
    <2>1. cut \/ ~Accepts(script)
      BY <1>2, <1>4 DEF PeekEOF, ExInv
    <2>2. p' = [p EXCEPT !.at = "failed"] /\ open' \in BOOLEAN
      BY <1>4 DEF TunnelFails, TunnelEnds
    <2> QED BY <1>1, <1>3, <2>1, <2>2, GivesUp
  <1>5. CASE TunnelEnds("aborted")
    <2>1. p' = [p EXCEPT !.at = "aborted"] /\ open' \in BOOLEAN
      BY <1>5 DEF TunnelEnds
    <2> QED BY <1>1, <1>3, <2>1, GivesUp
  <1>6. CASE LineLen(buf) = 0 /\ BufferFull /\ TunnelFails
    <2>1. /\ buf \in Seq(Byte) /\ Len(buf) \in Nat /\ Len(wire) \in Nat /\ R \in Nat
          /\ Len(script.reply) = R /\ script.proxy = "http"
          /\ BufSize \in Nat /\ BufSize >= 1 /\ Len(buf) >= BufSize
      BY <1>1, <1>6, HTTPAt, BufSizeAssumption DEF BufferFull
    <2>2. PICK pos \in Nat : /\ pos + Len(buf) + Len(wire) <= R
                             /\ \A i \in 1 .. Len(buf) : buf[i] = script.reply[pos + i]
      BY <1>1, HTTPAt
    <2>3. \A i \in 1 .. Len(buf) : buf[i] # "\n"
      BY <1>6, <2>1, LineLenIs
    <2>4. pos + 1 \in 1 .. R - BufSize + 1
      BY <2>1, <2>2
    <2>5. ASSUME NEW j \in pos + 1 .. pos + 1 + BufSize - 1 PROVE script.reply[j] # "\n"
      <3>1. j - pos \in 1 .. Len(buf) /\ pos + (j - pos) = j
        BY <2>1
      <3> QED BY <2>2, <2>3, <3>1
    <2>6. ~Fits(script)
      BY <2>1, <2>4, <2>5 DEF Fits
    <2>7. p' = [p EXCEPT !.at = "failed"] /\ open' \in BOOLEAN
      BY <1>6 DEF TunnelFails, TunnelEnds
    <2> QED BY <1>1, <1>3, <2>6, <2>7, GivesUp
  <1> QED BY <1>4, <1>5, <1>6 DEF HTTPFails

\* The next line of s, read from a buffer b that holds what follows the first a
\* bytes of s: it ends the header exactly when it is empty.
LEMMA NextLine ==
    ASSUME NEW s \in Seq(Byte), NEW b \in Seq(Byte), NEW a \in Nat, NEW len, len = LineLen(b), len > 0,
           Occurs(s, a, b), a > 0 => s[a] = "\n",
           \A i \in 1 .. a : ~EmptyLineEnds(s, i)
    PROVE  /\ len \in Nat /\ len <= Len(b) /\ a + len <= Len(s) /\ s[a + len] = "\n"
           /\ \A i \in 1 .. a + len - 1 : ~EmptyLineEnds(s, i)
           /\ EmptyLineEnds(s, a + len) <=> IsEmptyLine(SubSeq(b, 1, len))
  <1>1. /\ len \in Nat /\ len >= 1 /\ len <= Len(b) /\ b[len] = "\n"
        /\ \A i \in 1 .. len - 1 : b[i] # "\n"
    BY LineLenIs
  <1>2. Len(b) \in Nat /\ Len(s) \in Nat /\ a + Len(b) <= Len(s)
    BY DEF Occurs
  <1>3. \A i \in 1 .. len : b[i] = s[a + i]
    <2>1. \A i \in 1 .. len : i \in 1 .. Len(b)
      BY <1>1, <1>2
    <2> QED BY <2>1 DEF Occurs
  <1>4. a + len <= Len(s) /\ s[a + len] = "\n"
    <2>1. len \in 1 .. len
      BY <1>1
    <2> QED BY <1>1, <1>2, <1>3, <2>1
  <1>5. ASSUME NEW i \in 1 .. a + len - 1 PROVE ~EmptyLineEnds(s, i)
    <2>1. CASE i <= a
      BY <2>1
    <2>2. CASE i > a
      <3>1. i - a \in 1 .. len /\ i - a \in 1 .. len - 1 /\ a + (i - a) = i
        BY <1>1, <2>2
      <3>2. s[i] # "\n"
        BY <1>1, <1>3, <3>1
      <3> QED BY <3>2 DEF EmptyLineEnds
    <2> QED BY <2>1, <2>2
  <1> DEFINE line == SubSeq(b, 1, len)
             k == a + len
  <1>6. line \in Seq(Byte) /\ Len(line) = len /\ \A i \in 1 .. len : line[i] = b[i]
    BY <1>1, <1>2
  <1>7. /\ Len(<<"\n">>) = 1 /\ <<"\n">>[1] = "\n"
        /\ Len(<<"\r", "\n">>) = 2 /\ <<"\r", "\n">>[1] = "\r" /\ <<"\r", "\n">>[2] = "\n"
    OBVIOUS
  <1>8. k \in Nat /\ k >= 1
    BY <1>1
  <1> HIDE DEF line
  <1>9. CASE len = 1
    <2>1. k = a + 1 /\ k - 1 = a
      BY <1>9
    <2>2. EmptyLineEnds(s, k)
      BY <1>4, <2>1 DEF EmptyLineEnds
    <2>3. line = <<"\n">>
      BY <1>1, <1>6, <1>9
    <2> QED BY <1>1, <1>4, <1>5, <2>2, <2>3 DEF IsEmptyLine, line
  <1>10. CASE len = 2
    <2>1. k - 1 = a + 1 /\ (k - 1) - 1 = a /\ k # 1
      BY <1>10
    <2>2. s[k - 1] = b[1] /\ b[1] # "\n" /\ b[2] = "\n"
      BY <1>1, <1>3, <1>10, <2>1
    <2>3. EmptyLineEnds(s, k) <=> b[1] = "\r"
      <3> DEFINE LineStarts(j) == j = 1 \/ s[j - 1] = "\n"
      <3>1. EmptyLineEnds(s, k) <=> s[k] = "\n" /\ (LineStarts(k) \/ (s[k - 1] = "\r" /\ LineStarts(k - 1)))
        BY DEF EmptyLineEnds
      <3>2. ~LineStarts(k)
        BY <2>1, <2>2
      <3>3. LineStarts(k - 1)
        <4>1. CASE a = 0
          BY <2>1, <4>1
        <4>2. CASE a > 0
          BY <2>1, <4>2, Zenon
        <4> QED BY <4>1, <4>2
      <3>4. s[k] = "\n"
        BY <1>4
      <3> HIDE DEF LineStarts, k
      <3> QED BY <2>2, <3>1, <3>2, <3>3, <3>4
    <2>4. b[1] = "\r" => line = <<"\r", "\n">>
      BY <1>6, <1>10, <2>2
    <2>5. IsEmptyLine(line) => b[1] = "\r"
      <3>1. line[1] = b[1]
        BY <1>6, <1>10
      <3>2. line # <<"\n">>
        BY <1>6, <1>7, <1>10
      <3> QED BY <1>7, <3>1, <3>2 DEF IsEmptyLine
    <2> QED BY <1>1, <1>4, <1>5, <2>3, <2>4, <2>5 DEF IsEmptyLine, line
  <1>11. CASE len > 2
    <2>1. /\ len - 1 \in 1 .. len - 1 /\ len - 2 \in 1 .. len - 1
          /\ len - 1 \in 1 .. len /\ len - 2 \in 1 .. len
          /\ k - 1 = a + (len - 1) /\ (k - 1) - 1 = a + (len - 2) /\ k # 1 /\ k - 1 # 1
      <3>1. len \in Nat /\ len > 2
        BY <1>1, <1>11
      <3> QED BY <3>1
    <2>2. s[k - 1] # "\n" /\ s[(k - 1) - 1] # "\n"
      BY <1>1, <1>3, <2>1
    <2>3. ~EmptyLineEnds(s, k)
      BY <2>1, <2>2 DEF EmptyLineEnds
    <2>4. ~IsEmptyLine(line)
      BY <1>6, <1>7, <1>11 DEF IsEmptyLine
    <2> QED BY <1>1, <1>4, <1>5, <2>3, <2>4 DEF line
  <1> QED BY <1>1, <1>9, <1>10, <1>11

LEMMA FromIs ==
    ASSUME NEW s \in Seq(Byte), NEW k \in Nat, k <= Len(s)
    PROVE  /\ From(s, k + 1) \in Seq(Byte) /\ Len(From(s, k + 1)) = Len(s) - k
           /\ \A i \in 1 .. Len(s) - k : From(s, k + 1)[i] = s[k + i]
  BY DEF From

\* The first line of a buffer is the first line of the answer it starts.
LEMMA FirstLine ==
    ASSUME NEW s \in Seq(Byte), NEW b \in Seq(Byte), Occurs(s, 0, b), LineLen(b) > 0
    PROVE  LineLen(s) = LineLen(b) /\ SubSeq(s, 1, LineLen(b)) = SubSeq(b, 1, LineLen(b))
  <1> DEFINE len == LineLen(b)
  <1>1. /\ len \in Nat /\ len >= 1 /\ len <= Len(b) /\ b[len] = "\n"
        /\ \A i \in 1 .. len - 1 : b[i] # "\n"
    BY LineLenIs
  <1> HIDE DEF len
  <1>2. Len(b) <= Len(s) /\ Len(b) \in Nat /\ Len(s) \in Nat /\ \A i \in 1 .. Len(b) : b[i] = s[i]
    BY DEF Occurs
  <1>3. \A i \in 1 .. len : b[i] = s[i]
    BY <1>1, <1>2
  <1>4. LineLen(s) = len
    <2>1. len \in 1 .. Len(s) /\ len \in 1 .. len
      BY <1>1, <1>2
    <2>2. s[len] = "\n"
      BY <1>1, <1>3, <2>1
    <2>3. \A i \in 1 .. len - 1 : s[i] # "\n"
      BY <1>1, <1>3
    <2> QED BY <2>1, <2>2, <2>3, LineLenAt
  <1> DEFINE x == SubSeq(s, 1, len)
             y == SubSeq(b, 1, len)
  <1>5. x \in Seq(Byte) /\ Len(x) = len /\ \A i \in 1 .. len : x[i] = s[i]
    BY <1>1, <1>2
  <1>6. y \in Seq(Byte) /\ Len(y) = len /\ \A i \in 1 .. len : y[i] = b[i]
    BY <1>1, <1>2
  <1> HIDE DEF x, y
  <1>7. Len(x) = Len(y) /\ \A i \in 1 .. Len(x) : x[i] = y[i]
    BY <1>3, <1>5, <1>6
  <1>8. x = y
    BY <1>5, <1>6, <1>7, SeqEqual
  <1> QED BY <1>4, <1>8 DEF x, y, len

\* readHTTPProxyResp reads a line.
LEMMA HTTPLineInv ==
    ASSUME ExInv, HTTPLine, UNCHANGED <<script, sent, cut>>
    PROVE  ExInv'
  <1> DEFINE r == script.reply
             read == SubSeq(buf, 1, LineLen(buf))
  <1>1. p.at \in HTTPPhases /\ LineLen(buf) > 0
    BY DEF HTTPLine
  <1>2. /\ ExTypeOK /\ p \in Parser /\ buf \in Seq(Byte) /\ wire \in Seq(Byte)
        /\ Len(buf) \in Nat /\ Len(wire) \in Nat /\ R \in Nat /\ Arrived = R /\ ~sent
        /\ r \in Seq(Byte) /\ Len(r) = R
        /\ script.proxy = "http" /\ IsReply(script)
    BY <1>1, HTTPAt
  <1>3. PICK pos \in Nat : /\ pos <= Arrived /\ Holds(pos) /\ HTTPPlace(pos)
                           /\ pos + Len(buf) + Len(wire) <= R
                           /\ \A i \in 1 .. Len(buf) : buf[i] = r[pos + i]
    BY <1>1, HTTPAt
  <1>4. PICK len \in Nat : len = LineLen(buf) /\ len >= 1 /\ len <= Len(buf)
    BY <1>1, <1>2, LineLenIs
  <1>5. Occurs(r, pos, buf)
    <2>1. pos + Len(buf) <= R
      <3>1. pos + Len(buf) + Len(wire) <= R
        BY <1>3
      <3> QED BY <1>2, <3>1
    <2> QED BY <1>2, <1>3, <2>1 DEF Occurs
  <1>6. PICK q \in Nat : q = pos + len
    OBVIOUS
  <1>7. ASSUME buf' = From(buf, LineLen(buf) + 1), UNCHANGED <<wire, closed>>
        PROVE  buf' \in Seq(Byte) /\ q \in 0 .. Arrived' /\ Holds(q)'
    <2>1. len \in 0 .. Len(buf) /\ buf' = From(buf, len + 1) /\ UNCHANGED <<wire, script, sent, cut>>
      BY <1>2, <1>4, <1>7
    <2>2. buf' \in Seq(Byte) /\ pos + len \in 0 .. Arrived' /\ Holds(pos + len)'
      BY <1>2, <1>3, <2>1, Consume
    <2> QED BY <1>6, <2>2
  <1>8. CASE p.at = "http start line"
    <2>1. pos = 0
      BY <1>3, <1>8 DEF HTTPPlace
    <2>2. LineLen(r) = len /\ SubSeq(r, 1, len) = read
      BY <1>1, <1>2, <1>4, <1>5, <2>1, FirstLine
    <2>3. CASE /\ "200" \in Range(read) /\ p' = [p EXCEPT !.at = "http header", !.n = 1]
               /\ buf' = From(buf, LineLen(buf) + 1) /\ UNCHANGED <<wire, closed, open>>
      <3>1. "http header" \in Phases /\ 1 \in Nat
        BY DEF Phases, HTTPPhases
      <3>2. p' \in Parser
        BY <1>2, <2>3, <3>1 DEF Parser
      <3>3. p'.at = "http header"
        BY <1>2, <2>3 DEF Parser
      <3>4. p'.n = 1
        BY <1>2, <2>3 DEF Parser
      <3>5. p'.n >= 1
        BY <3>4
      <3>6. buf' \in Seq(Byte) /\ q \in 0 .. Arrived' /\ Holds(q)'
        BY <1>7, <2>3
      <3>7. ExTypeOK'
        BY <1>2, <2>3, <3>2, <3>6 DEF ExTypeOK
      <3>8. q = len /\ len > 0 /\ q >= len /\ \A i \in 1 .. q - len : FALSE
        BY <1>4, <1>6, <2>1
      <3>9. r[q] = "\n"
        BY <1>2, <2>2, <3>8, LineLenIs
      <3>10. "200" \in Range(SubSeq(r, 1, len))
        BY <2>2, <2>3
      <3> HIDE DEF read
      <3>11. HTTPPlace(q)'
        BY <1>2, <2>2, <3>3, <3>5, <3>8, <3>9, <3>10 DEF HTTPPlace
      <3>12. p'.at \in HTTPPhases
        BY <3>3 DEF HTTPPhases
      <3> QED BY <2>3, <3>6, <3>7, <3>11, <3>12, MovesToHTTP
    <2>4. CASE "200" \notin Range(read) /\ TunnelFails /\ buf' = <<>> /\ UNCHANGED <<wire, closed>>
      <3>1. "200" \notin Range(SubSeq(r, 1, LineLen(r)))
        BY <2>2, <2>4
      <3>2. ~HTTPGrants(r)
        BY <3>1 DEF HTTPGrants
      <3>3. ~Accepts(script)
        BY <1>2, <3>2 DEF Accepts
      <3>4. p' = [p EXCEPT !.at = "failed"] /\ open' \in BOOLEAN
        BY <2>4 DEF TunnelFails, TunnelEnds
      <3>5. wire' \in Seq(Byte) /\ buf' \in Seq(Byte)
        BY <1>2, <2>4
      <3> QED BY <2>4, <3>3, <3>4, <3>5, GivesUp
    <2> QED BY <1>8, <2>3, <2>4 DEF HTTPLine
  <1>9. CASE p.at = "http header"
    <2> DEFINE start == LineLen(r)
               s == From(r, start + 1)
               a == pos - start
    <2>1. /\ start > 0 /\ "200" \in Range(SubSeq(r, 1, start))
          /\ pos >= start /\ r[pos] = "\n"
          /\ \A i \in 1 .. pos - start : ~EmptyLineEnds(s, i)
      BY <1>3, <1>9 DEF HTTPPlace
    <2>2. start \in Nat /\ start <= R /\ start <= Len(r)
      BY <1>2, LineLenIs
    <2>3. s \in Seq(Byte) /\ Len(s) = R - start /\ \A i \in 1 .. R - start : s[i] = r[start + i]
      BY <1>2, <2>2, FromIs
    <2>4. a \in Nat /\ start + a = pos
      BY <2>1, <2>2
    <2> HIDE DEF s, start
    <2>5. Occurs(s, a, buf)
      <3>1. pos + Len(buf) <= R /\ \A i \in 1 .. Len(buf) : buf[i] = r[pos + i]
        BY <1>2, <1>5 DEF Occurs
      <3>2. a + Len(buf) <= Len(s)
        <4>1. pos + Len(buf) <= R /\ Len(s) = R - start
          BY <2>3, <3>1
        <4> QED BY <1>2, <2>2, <4>1
      <3>3. ASSUME NEW i \in 1 .. Len(buf) PROVE buf[i] = s[a + i]
        <4>1. a + i \in 1 .. R - start /\ start + (a + i) = pos + i
          <5>1. pos + Len(buf) <= R
            BY <3>1
          <5> QED BY <1>2, <2>2, <2>4, <5>1
        <4> QED BY <2>3, <3>1, <4>1
      <3> QED BY <3>2, <3>3 DEF Occurs
    <2>6. a > 0 => s[a] = "\n"
      <3>1. a > 0 => a \in 1 .. R - start
        BY <1>2, <1>3, <2>2, <2>4
      <3> QED BY <2>1, <2>3, <2>4, <3>1
    <2>7. \A i \in 1 .. a : ~EmptyLineEnds(s, i)
      BY <2>1
    <2>8. PICK b \in Nat : b = a
      BY <2>4
    <2> HIDE DEF a
    <2>9. /\ b + len <= Len(s) /\ s[b + len] = "\n"
          /\ \A i \in 1 .. b + len - 1 : ~EmptyLineEnds(s, i)
          /\ EmptyLineEnds(s, b + len) <=> IsEmptyLine(SubSeq(buf, 1, len))
      BY <1>1, <1>2, <1>4, <2>3, <2>5, <2>6, <2>7, <2>8, NextLine
    <2>10. b + len \in 1 .. R - start /\ start + (b + len) = q
      <3>1. b + len <= R - start /\ start + b = pos
        BY <2>3, <2>4, <2>8, <2>9
      <3>2. R \in Nat /\ start \in Nat /\ len >= 1 /\ q = pos + len
        BY <1>2, <1>4, <1>6, <2>2
      <3> QED BY <3>1, <3>2
    <2>11. CASE /\ ~IsEmptyLine(read) /\ buf' = From(buf, LineLen(buf) + 1)
                /\ p' = [p EXCEPT !.n = 1] /\ UNCHANGED <<wire, closed, open>>
      <3>1. p' \in Parser
        BY <1>2, <2>11 DEF Parser
      <3>2. p'.at = "http header"
        BY <1>2, <1>9, <2>11 DEF Parser
      <3>3. p'.n = 1
        BY <1>2, <2>11 DEF Parser
      <3>4. p'.n >= 1
        BY <3>3
      <3>5. buf' \in Seq(Byte) /\ q \in 0 .. Arrived' /\ Holds(q)'
        BY <1>7, <2>11
      <3>6. ExTypeOK'
        BY <1>2, <2>11, <3>1, <3>5 DEF ExTypeOK
      <3>7. q >= start /\ q - start = b + len
        BY <2>2, <2>10
      <3>8. r[q] = "\n"
        BY <2>3, <2>9, <2>10
      <3>9. ASSUME NEW i \in 1 .. q - start PROVE ~EmptyLineEnds(s, i)
        <4>1. i = b + len \/ i \in 1 .. b + len - 1
          BY <3>7
        <4>2. ~EmptyLineEnds(s, b + len)
          BY <1>4, <2>9, <2>11
        <4> QED BY <2>9, <4>1, <4>2
      <3>10. HTTPPlace(q)'
        <4>1. start > 0 /\ "200" \in Range(SubSeq(r, 1, start))
          BY <2>1
        <4> QED BY <1>2, <3>2, <3>4, <3>7, <3>8, <3>9, <4>1 DEF HTTPPlace, s, start
      <3>11. p'.at \in HTTPPhases
        BY <3>2 DEF HTTPPhases
      <3> QED BY <2>11, <3>5, <3>6, <3>10, <3>11, MovesToHTTP
    <2>12. CASE IsEmptyLine(read) /\ Established /\ buf' = <<>> /\ UNCHANGED <<wire, closed, open>>
      <3>1. HeaderLen(s) = b + len
        <4>1. b + len \in 1 .. Len(s)
          BY <2>3, <2>10
        <4>2. EmptyLineEnds(s, b + len)
          BY <1>4, <2>9, <2>12
        <4> QED BY <2>3, <2>9, <4>1, <4>2, HeaderLenAt
      <3>2. HTTPGrants(r) /\ HTTPReplyLen(r) = q
        <4>1. HeaderLen(s) > 0
          BY <2>10, <3>1
        <4>2. HTTPGrants(r)
          BY <2>1, <4>1 DEF HTTPGrants, s, start
        <4>3. HTTPReplyLen(r) = q
          BY <2>10, <3>1 DEF HTTPReplyLen, s, start
        <4> QED BY <4>2, <4>3
      <3>3. Accepts(script)
        BY <1>2, <3>2 DEF Accepts
      <3>4. q = R
        BY <1>2, <3>2, <3>3 DEF IsReply
      <3>5. Len(buf) = len /\ Len(wire) = 0
        <4>1. pos + Len(buf) + Len(wire) <= R
          BY <1>3
        <4> QED BY <1>2, <1>4, <1>6, <3>4, <4>1
      <3>6. p' = StartHeader
        BY <2>12 DEF Established
      <3>7. /\ p'.at = "header" /\ p'.out = <<>> /\ p'.chunk = <<>> /\ p'.digits = 0 /\ p'.size = 0
            /\ p'.n = 1
        BY <3>6 DEF StartHeader
      <3>8. p' \in Parser
        BY <3>6, StartHeaderType
      <3>9. ExTypeOK'
        BY <1>2, <2>12, <3>8 DEF ExTypeOK
      <3>10. Len(buf') = 0 /\ Len(wire') = 0 /\ Arrived' = R
        BY <1>2, <2>12, <3>5, Same
      <3>11. Holds(q)' /\ q \in 0 .. Arrived'
        BY <1>2, <3>4, <3>10 DEF Holds
      <3>12. HeaderPlace(q)'
        BY <3>4, <3>7, <3>10, Same DEF HeaderPlace
      <3> QED BY <2>12, <3>3, <3>7, <3>9, <3>11, <3>12, MovesToHeader
    <2> QED BY <1>9, <2>11, <2>12 DEF HTTPLine
  <1> QED BY <1>1, <1>8, <1>9 DEF HTTPPhases

-----------------------------------------------------------------------------
(* The answers of a SOCKS5 proxy *)

\* An answer is long enough for what the handshake reads of it.
LEMMA SOCKS5Parts ==
    ASSUME NEW r \in Seq(Byte), SOCKS5Grants(r) \/ SOCKS5Refuses(r)
    PROVE  /\ ReplyAt(r) \in Nat /\ Len(r) \in Nat /\ Len(r) >= 2
           /\ r[2] = "password" => ReplyAt(r) = 4
           /\ r[2] # "password" => ReplyAt(r) = 2
           /\ MethodGranted(r) => Len(r) >= ReplyAt(r)
           /\ LoggedIn(r) => Len(r) >= ReplyAt(r) + 4
  <1>1. /\ ReplyAt(r) \in Nat /\ Len(r) \in Nat
        /\ r[2] = "password" => ReplyAt(r) = 4
        /\ r[2] # "password" => ReplyAt(r) = 2
    BY DEF ReplyAt
  <1>2. CASE SOCKS5Grants(r)
    <2>1. LoggedIn(r) /\ Len(r) > ReplyAt(r) + 4
      BY <1>2 DEF SOCKS5Grants
    <2>2. Len(r) >= 2 /\ Len(r) >= ReplyAt(r)
      BY <2>1 DEF LoggedIn, MethodGranted
    <2>3. Len(r) >= ReplyAt(r) + 4
      BY <1>1, <2>1
    <2> QED BY <1>1, <2>2, <2>3
  <1>3. CASE SOCKS5Refuses(r)
    <2>1. CASE Len(r) >= 2 /\ ~MethodGranted(r)
      BY <1>1, <2>1 DEF LoggedIn
    <2>2. CASE MethodGranted(r) /\ Len(r) >= ReplyAt(r) /\ ~LoggedIn(r)
      BY <1>1, <2>2 DEF MethodGranted
    <2>3. CASE LoggedIn(r) /\ Len(r) >= ReplyAt(r) + 4
      <3>1. Len(r) >= 2 /\ Len(r) >= ReplyAt(r)
        BY <2>3 DEF LoggedIn, MethodGranted
      <3> QED BY <1>1, <2>3, <3>1
    <2> QED BY <1>3, <2>1, <2>2, <2>3 DEF SOCKS5Refuses
  <1> QED BY <1>2, <1>3

\* What the handshake reads next is in the proxy's answer.
LEMMA SOCKS5At ==
    ASSUME ExInv, p.at \in SOCKS5Phases
    PROVE  /\ ExTypeOK /\ p \in Parser /\ wire \in Seq(Byte) /\ Len(wire) \in Nat /\ buf = <<>>
           /\ R \in Nat /\ Arrived \in Nat /\ R <= Arrived
           /\ script.reply \in Seq(Byte) /\ Len(script.reply) = R
           /\ script.proxy = "socks5" /\ (SOCKS5Grants(script.reply) \/ SOCKS5Refuses(script.reply))
           /\ \E pos \in Nat, k \in Nat : /\ pos <= Arrived /\ Holds(pos) /\ SOCKS5Place(pos)
                                          /\ k = ReadLen /\ pos + k <= R
  <1> DEFINE r == script.reply
             a == ReplyAt(r)
  <1>1. p.at \notin {"failed", "aborted", "panicked"}
    BY DEF SOCKS5Phases
  <1>2. ExTypeOK /\ p \in Parser /\ wire \in Seq(Byte) /\ Len(wire) \in Nat /\ Arrived \in Nat
    BY <1>1, At
  <1>3. PICK pos \in Nat : pos <= Arrived /\ Holds(pos) /\ Place(pos)
    BY <1>1, At
  <1>4. SOCKS5Place(pos)
    BY <1>3 DEF Place
  <1>5. script.proxy = "socks5" /\ buf = <<>>
    BY <1>4 DEF SOCKS5Place
  <1>6. /\ r \in Seq(Byte) /\ Len(r) = R /\ R \in Nat /\ IsReply(script)
        /\ H \in Nat /\ B \in Nat /\ N \in Nat
    BY <1>2, ScriptFacts DEF R
  <1>7. SOCKS5Grants(r) \/ SOCKS5Refuses(r)
    BY <1>5, <1>6 DEF IsReply, Accepts
  <1>8. R <= Arrived
    BY <1>6 DEF Arrived
  <1>9. /\ a \in Nat /\ R >= 2 /\ (r[2] = "password" => a = 4) /\ (r[2] # "password" => a = 2)
        /\ (MethodGranted(r) => R >= a) /\ (LoggedIn(r) => R >= a + 4)
    BY <1>6, <1>7, SOCKS5Parts
  <1>10. SOCKS5Grants(r) => R > a + 4
    BY <1>6 DEF SOCKS5Grants
  <1> HIDE DEF r, a
  <1>11. PICK k \in Nat : k = ReadLen /\ pos + k <= R
    <2>1. CASE p.at = "greeting"
      <3>1. ReadLen = 2 /\ pos = 0
        BY <1>4, <2>1 DEF ReadLen, SOCKS5Place
      <3> QED BY <1>6, <1>9, <3>1
    <2>2. CASE p.at = "auth"
      <3>1. ReadLen = 2 /\ pos = 2 /\ MethodGranted(r) /\ r[2] = "password"
        BY <1>4, <2>2 DEF ReadLen, SOCKS5Place, r
      <3> QED BY <1>6, <1>9, <3>1
    <2>3. CASE p.at = "reply"
      <3>1. ReadLen = 4 /\ pos = a /\ LoggedIn(r)
        BY <1>4, <2>3 DEF ReadLen, SOCKS5Place, r, a
      <3> QED BY <1>6, <1>9, <3>1
    <2>4. CASE p.at = "domain"
      <3>1. ReadLen = 1 /\ pos = a + 4 /\ SOCKS5Grants(r)
        BY <1>4, <2>4 DEF ReadLen, SOCKS5Place, r, a
      <3> QED BY <1>6, <1>9, <1>10, <3>1
    <2>5. CASE p.at = "address"
      <3>1. ReadLen = p.left /\ pos + p.left + 2 = R /\ p.left \in Nat
        BY <1>2, <1>4, <2>5, Fields DEF ReadLen, SOCKS5Place
      <3> QED BY <1>6, <3>1
    <2>6. CASE p.at = "port"
      <3>1. ReadLen = 2 /\ pos + 2 = R
        BY <1>4, <2>6 DEF ReadLen, SOCKS5Place
      <3> QED BY <1>6, <3>1
    <2> QED BY <2>1, <2>2, <2>3, <2>4, <2>5, <2>6 DEF SOCKS5Phases
  <1> QED BY <1>2, <1>3, <1>4, <1>5, <1>6, <1>7, <1>8, <1>11 DEF r

LEMMA SOCKS5FailsInv ==
    ASSUME ExInv, SOCKS5Fails, UNCHANGED <<script, sent, cut>>
    PROVE  ExInv'
  <1>1. p.at \in SOCKS5Phases
    BY DEF SOCKS5Fails
  <1>2. /\ ExTypeOK /\ wire \in Seq(Byte) /\ Len(wire) \in Nat /\ buf = <<>>
        /\ R \in Nat /\ Arrived \in Nat /\ R <= Arrived
    BY <1>1, SOCKS5At
  <1>3. PICK pos \in Nat, k \in Nat : Holds(pos) /\ k = ReadLen /\ pos + k <= R
    BY <1>1, SOCKS5At
  <1>4. CASE ReadFullEOF(ReadLen) /\ TunnelFails
    <2>1. Len(wire) < k /\ UNCHANGED <<wire, buf, closed>>
      BY <1>3, <1>4 DEF ReadFullEOF
    <2>2. cut
      <3>1. cut \/ pos + 0 + Len(wire) = Arrived
        BY <1>2, <1>3 DEF Holds
      <3> QED BY <1>2, <1>3, <2>1, <3>1
    <2>3. p' = [p EXCEPT !.at = "failed"] /\ open' \in BOOLEAN
      BY <1>4 DEF TunnelFails, TunnelEnds
    <2>4. wire' \in Seq(Byte) /\ buf' \in Seq(Byte)
      BY <1>2, <2>1
    <2> QED BY <2>1, <2>2, <2>3, <2>4, GivesUp
  <1>5. CASE TunnelEnds("aborted") /\ UNCHANGED <<wire, buf, closed>>
    <2>1. p' = [p EXCEPT !.at = "aborted"] /\ open' \in BOOLEAN
      BY <1>5 DEF TunnelEnds
    <2>2. wire' \in Seq(Byte) /\ buf' \in Seq(Byte)
      BY <1>2, <1>5
    <2> QED BY <1>5, <2>1, <2>2, GivesUp
  <1> QED BY <1>4, <1>5 DEF SOCKS5Fails

\* connectSOCKS5Proxy reads a part of the answers.
LEMMA SOCKS5ReadInv ==
    ASSUME ExInv, SOCKS5Read, UNCHANGED <<script, sent, cut>>
    PROVE  ExInv'
  <1> DEFINE r == script.reply
             a == ReplyAt(r)
             b == SubSeq(wire, 1, ReadLen)
  <1>1. p.at \in SOCKS5Phases /\ ReadFull(ReadLen)
    BY DEF SOCKS5Read
  <1>2. /\ ExTypeOK /\ p \in Parser /\ wire \in Seq(Byte) /\ Len(wire) \in Nat /\ buf = <<>>
        /\ R \in Nat /\ Arrived \in Nat /\ R <= Arrived /\ r \in Seq(Byte) /\ Len(r) = R
        /\ script.proxy = "socks5" /\ (SOCKS5Grants(r) \/ SOCKS5Refuses(r))
    BY <1>1, SOCKS5At
  <1>3. PICK pos \in Nat, k \in Nat : /\ Holds(pos) /\ SOCKS5Place(pos)
                                      /\ k = ReadLen /\ pos + k <= R
    BY <1>1, SOCKS5At
  <1>4. PICK q \in Nat : q = pos + k
    OBVIOUS
  <1>5. /\ wire' \in Seq(Byte) /\ buf' = <<>> /\ closed' = closed
        /\ \A i \in 1 .. k : b[i] = Text[pos + i]
        /\ q \in 0 .. Arrived' /\ Holds(q)'
    <2>1. ReadFull(k) /\ closed' = closed
      BY <1>1, <1>3 DEF ReadFull
    <2>2. /\ wire' \in Seq(Byte) /\ buf' = <<>>
          /\ \A i \in 1 .. k : SubSeq(wire, 1, k)[i] = Text[pos + i]
          /\ pos + k \in 0 .. Arrived' /\ Holds(pos + k)'
      BY <1>2, <1>3, <2>1, Read
    <2> QED BY <1>3, <1>4, <2>1, <2>2
  <1>6. ASSUME NEW i \in 1 .. k PROVE b[i] = r[pos + i]
    <2>1. pos + i \in 1 .. R
      BY <1>2, <1>3
    <2> QED BY <1>2, <1>5, <2>1, TextAt
  <1>7. /\ a \in Nat /\ R >= 2 /\ (r[2] = "password" => a = 4) /\ (r[2] # "password" => a = 2)
        /\ (MethodGranted(r) => R >= a) /\ (LoggedIn(r) => R >= a + 4)
    BY <1>2, SOCKS5Parts
  <1>8. p.n = 0 /\ p.left \in Nat
    BY <1>2, <1>3, Fields DEF SOCKS5Place
  <1>9. ASSUME TunnelFails, ~SOCKS5Grants(r) PROVE ExInv'
    <2>1. ~Accepts(script)
      BY <1>2, <1>9 DEF Accepts
    <2>2. p' = [p EXCEPT !.at = "failed"] /\ open' \in BOOLEAN
      BY <1>9 DEF TunnelFails, TunnelEnds
    <2>3. buf' \in Seq(Byte)
      BY <1>5
    <2> QED BY <1>5, <2>1, <2>2, <2>3, GivesUp
  <1>10. ASSUME NEW at \in SOCKS5Phases, To(at)
         PROVE  /\ ExTypeOK' /\ p'.at = at /\ p'.n = 0 /\ p'.left = p.left
                /\ SOCKS5Place(q)' => ExInv'
    <2>1. p' = [p EXCEPT !.at = at] /\ open' = open /\ at \in Phases
      BY <1>10 DEF To, Phases
    <2>2. p' \in Parser
      BY <1>2, <2>1 DEF Parser
    <2>3. p'.at = at /\ p'.n = p.n /\ p'.left = p.left
      BY <1>2, <2>1 DEF Parser
    <2>4. ExTypeOK'
      <3>1. <<>> \in Seq(Byte)
        OBVIOUS
      <3> QED BY <1>2, <1>5, <2>1, <2>2, <3>1 DEF ExTypeOK
    <2> QED BY <1>5, <1>8, <2>3, <2>4, MovesToSOCKS5
  <1>11. ASSUME NEW len \in Nat, ToAddress(len), SOCKS5Grants(r), q + len + 2 = R
         PROVE  ExInv'
    <2>1. p' = [p EXCEPT !.at = "address", !.left = len] /\ open' = open
      BY <1>11 DEF ToAddress
    <2>2. "address" \in Phases /\ "address" \in SOCKS5Phases
      BY DEF Phases, SOCKS5Phases
    <2>3. p' \in Parser
      BY <1>2, <2>1, <2>2 DEF Parser
    <2>4. p'.at = "address" /\ p'.n = p.n /\ p'.left = len
      BY <1>2, <2>1 DEF Parser
    <2>5. ExTypeOK'
      <3>1. <<>> \in Seq(Byte)
        OBVIOUS
      <3> QED BY <1>2, <1>5, <2>1, <2>3, <3>1 DEF ExTypeOK
    <2>6. SOCKS5Place(q)'
      BY <1>2, <1>5, <1>8, <1>11, <2>4, Same DEF SOCKS5Place
    <2> QED BY <1>5, <2>2, <2>4, <2>5, <2>6, MovesToSOCKS5
  <1> HIDE DEF b
  <1>12. CASE p.at = "greeting"
    <2>1. k = 2 /\ pos = 0 /\ q = 2
      BY <1>3, <1>4, <1>12 DEF ReadLen, SOCKS5Place
    <2>2. b[1] = r[1] /\ b[2] = r[2]
      BY <1>6, <2>1
    <2>3. CASE (b[1] # "5" \/ b[2] = "no method") /\ TunnelFails
      <3>1. ~SOCKS5Grants(r)
        BY <2>2, <2>3 DEF SOCKS5Grants, LoggedIn, MethodGranted
      <3> QED BY <1>9, <2>3, <3>1
    <2>4. CASE b[1] = "5" /\ b[2] = "password" /\ To("auth")
      <3>1. MethodGranted(r) /\ r[2] = "password"
        BY <1>2, <1>7, <2>2, <2>4 DEF MethodGranted
      <3>2. "auth" \in SOCKS5Phases
        BY DEF SOCKS5Phases
      <3>3. p'.at = "auth" /\ p'.n = 0
        BY <1>10, <2>4, <3>2
      <3>4. SOCKS5Place(q)'
        BY <1>2, <1>5, <2>1, <3>1, <3>3 DEF SOCKS5Place
      <3> QED BY <1>10, <2>4, <3>2, <3>4
    <2>5. CASE b[1] = "5" /\ b[2] \notin {"password", "no method"} /\ To("reply")
      <3>1. MethodGranted(r) /\ r[2] # "password"
        BY <1>2, <1>7, <2>2, <2>5 DEF MethodGranted
      <3>2. LoggedIn(r) /\ a = 2
        BY <1>2, <1>7, <3>1 DEF LoggedIn
      <3>3. "reply" \in SOCKS5Phases
        BY DEF SOCKS5Phases
      <3>4. p'.at = "reply" /\ p'.n = 0
        BY <1>10, <2>5, <3>3
      <3>5. SOCKS5Place(q)'
        BY <1>2, <1>5, <2>1, <3>2, <3>4 DEF SOCKS5Place
      <3> QED BY <1>10, <2>5, <3>3, <3>5
    <2> QED BY <1>12, <2>3, <2>4, <2>5 DEF SOCKS5Read, b
  <1>13. CASE p.at = "auth"
    <2>1. /\ k = 2 /\ pos = 2 /\ q = 4 /\ MethodGranted(r) /\ r[2] = "password"
      BY <1>3, <1>4, <1>13 DEF ReadLen, SOCKS5Place
    <2>2. b[2] = r[4] /\ a = 4 /\ R >= 4
      BY <1>6, <1>7, <2>1
    <2>3. CASE b[2] = "ok" /\ To("reply")
      <3>1. LoggedIn(r)
        BY <1>2, <2>1, <2>2, <2>3 DEF LoggedIn
      <3>2. "reply" \in SOCKS5Phases
        BY DEF SOCKS5Phases
      <3>3. p'.at = "reply" /\ p'.n = 0
        BY <1>10, <2>3, <3>2
      <3>4. SOCKS5Place(q)'
        BY <1>2, <1>5, <2>1, <2>2, <3>1, <3>3 DEF SOCKS5Place
      <3> QED BY <1>10, <2>3, <3>2, <3>4
    <2>4. CASE b[2] # "ok" /\ TunnelFails
      <3>1. ~SOCKS5Grants(r)
        BY <2>1, <2>2, <2>4 DEF SOCKS5Grants, LoggedIn
      <3> QED BY <1>9, <2>4, <3>1
    <2> QED BY <1>13, <2>3, <2>4 DEF SOCKS5Read, b
  <1>14. CASE p.at = "reply"
    <2>1. k = 4 /\ pos = a /\ q = a + 4 /\ LoggedIn(r)
      BY <1>3, <1>4, <1>14 DEF ReadLen, SOCKS5Place
    <2>2. b[2] = r[a + 2] /\ b[4] = r[a + 4]
      BY <1>6, <2>1
    <2>3. CASE (b[2] # "ok" \/ b[4] \notin {"ip4", "ip6", "domain"}) /\ TunnelFails
      <3>1. ~SOCKS5Grants(r)
        BY <2>2, <2>3 DEF SOCKS5Grants, AddressTypes
      <3> QED BY <1>9, <2>3, <3>1
    <2>4. ASSUME b[2] = "ok", b[4] \in {"ip4", "ip6", "domain"} PROVE SOCKS5Grants(r)
      <3>1. MethodGranted(r)
        BY <2>1 DEF LoggedIn
      <3>2. ~SOCKS5Refuses(r)
        BY <2>1, <2>2, <2>4, <3>1 DEF SOCKS5Refuses, AddressTypes
      <3> QED BY <1>2, <3>2
    <2>5. CASE b[2] = "ok" /\ b[4] = "ip4" /\ ToAddress(IPv4len)
      <3>1. SOCKS5Grants(r) /\ R = a + 4 + IPv4len + 2 /\ IPv4len \in Nat
        BY <1>2, <2>2, <2>4, <2>5, AddressAssumption DEF SOCKS5Grants
      <3> QED BY <1>11, <2>1, <2>5, <3>1
    <2>6. CASE b[2] = "ok" /\ b[4] = "ip6" /\ ToAddress(IPv6len)
      <3>1. SOCKS5Grants(r) /\ R = a + 4 + IPv6len + 2 /\ IPv6len \in Nat
        BY <1>2, <2>2, <2>4, <2>6, AddressAssumption DEF SOCKS5Grants
      <3> QED BY <1>11, <2>1, <2>6, <3>1
    <2>7. CASE b[2] = "ok" /\ b[4] = "domain" /\ To("domain")
      <3>1. SOCKS5Grants(r) /\ r[a + 4] = "domain"
        BY <2>2, <2>4, <2>7
      <3>2. "domain" \in SOCKS5Phases
        BY DEF SOCKS5Phases
      <3>3. p'.at = "domain" /\ p'.n = 0
        BY <1>10, <2>7, <3>2
      <3>4. SOCKS5Place(q)'
        BY <1>2, <1>5, <2>1, <3>1, <3>3 DEF SOCKS5Place
      <3> QED BY <1>10, <2>7, <3>2, <3>4
    <2> QED BY <1>14, <2>3, <2>5, <2>6, <2>7 DEF SOCKS5Read, b
  <1>15. CASE p.at = "domain"
    <2>1. k = 1 /\ pos = a + 4 /\ q = a + 5 /\ SOCKS5Grants(r) /\ r[a + 4] = "domain"
      BY <1>3, <1>4, <1>7, <1>15 DEF ReadLen, SOCKS5Place
    <2>2. b[1] = r[a + 5]
      <3>1. b[1] = r[pos + 1] /\ pos + 1 = a + 5
        BY <1>6, <1>7, <2>1
      <3> QED BY <3>1
    <2>3. r[a + 5] \in DOMAIN Lengths /\ R = a + 5 + Lengths[r[a + 5]] + 2
      BY <1>2, <2>1 DEF SOCKS5Grants
    <2>4. Lengths[b[1]] \in Nat /\ q + Lengths[b[1]] + 2 = R
      BY <2>1, <2>2, <2>3, LengthsAssumption
    <2>5. ToAddress(Lengths[b[1]])
      BY <1>15 DEF SOCKS5Read, b
    <2>6. PICK len \in Nat : len = Lengths[b[1]]
      BY <2>4
    <2>7. ToAddress(len)
      BY <2>5, <2>6
    <2> QED BY <1>11, <2>1, <2>4, <2>6, <2>7
  <1>16. CASE p.at = "address"
    <2>1. SOCKS5Grants(r) /\ q + 2 = R
      <3>1. k = p.left /\ pos + p.left + 2 = R /\ SOCKS5Grants(r)
        BY <1>3, <1>16 DEF ReadLen, SOCKS5Place
      <3> QED BY <1>4, <3>1
    <2>2. To("port") /\ "port" \in SOCKS5Phases
      BY <1>16 DEF SOCKS5Read, SOCKS5Phases
    <2>3. p'.at = "port" /\ p'.n = 0
      BY <1>10, <2>2
    <2>4. SOCKS5Place(q)'
      BY <1>2, <1>5, <2>1, <2>3, Same DEF SOCKS5Place
    <2> QED BY <1>10, <2>2, <2>4
  <1>17. CASE p.at = "port"
    <2>1. SOCKS5Grants(r) /\ q = R
      <3>1. k = 2 /\ pos + 2 = R /\ SOCKS5Grants(r)
        BY <1>3, <1>17 DEF ReadLen, SOCKS5Place
      <3> QED BY <1>4, <3>1
    <2>2. p' = StartHeader /\ open' = open
      BY <1>17 DEF SOCKS5Read, Established
    <2>3. /\ p'.at = "header" /\ p'.out = <<>> /\ p'.chunk = <<>> /\ p'.digits = 0 /\ p'.size = 0
          /\ p'.n = 1
      BY <2>2 DEF StartHeader
    <2>4. ExTypeOK'
      <3>1. <<>> \in Seq(Byte) /\ p' \in Parser
        BY <2>2, StartHeaderType
      <3> QED BY <1>2, <1>5, <2>2, <3>1 DEF ExTypeOK
    <2>5. Len(buf') = 0
      BY <1>5
    <2>6. HeaderPlace(q)'
      BY <2>1, <2>3, <2>5, Same DEF HeaderPlace
    <2>7. Accepts(script)
      BY <1>2, <2>1 DEF Accepts
    <2> QED BY <1>5, <2>3, <2>4, <2>6, <2>7, MovesToHeader
  <1> QED BY <1>1, <1>12, <1>13, <1>14, <1>15, <1>16, <1>17 DEF SOCKS5Phases

-----------------------------------------------------------------------------
(* The theorems *)

\* A step of the exchange keeps the invariant, unless the target now speaks early.
LEMMA NextInv ==
    ASSUME ExInv, [Next]_vars, ~Robbed'
    PROVE  ExInv'
  <1>1. CASE TargetSends
    BY <1>1, TargetSendsInv
  <1>2. CASE PeerCloses
    BY <1>2, PeerClosesInv
  <1>3. CASE Breaks
    BY <1>3, BreaksInv
  <1>4. CASE Step
    <2>1. UNCHANGED <<script, sent, cut>> /\ p.at \notin {"done", "failed", "aborted", "panicked"}
      BY <1>4 DEF Step, Ended
    <2>2. CASE Fill /\ UNCHANGED open
      BY <2>1, <2>2, FillInv
    <2>3. CASE FramingNext /\ UNCHANGED open
      BY <2>1, <2>3, NeedMoreInv, HeaderTooLargeInv, HeaderDoneInv, FixedInv, WriterFailsInv,
         FixedEOFInv, HexInv, SizeCRInv, SizeLFInv, ParseEOFInv DEF FramingNext
    <2>4. CASE TunnelNext
      BY <2>1, <2>4, HTTPLineInv, HTTPNeedMoreInv, HTTPFailsInv, SOCKS5ReadInv, SOCKS5FailsInv
         DEF TunnelNext
    <2> QED BY <1>4, <2>2, <2>3, <2>4 DEF Step
  <1>5. CASE UNCHANGED vars
    <2>1. UNCHANGED <<wire, buf, closed, p, open, script, sent, cut>>
      BY <1>5 DEF vars
    <2>2. ExTypeOK' /\ Failing'
      BY <2>1, Same DEF ExInv, ExTypeOK, Failing
    <2>3. ASSUME p.at \notin {"failed", "aborted", "panicked"}
          PROVE  \E pos \in 0 .. Arrived' : Holds(pos)' /\ Place(pos)'
      <3>1. PICK pos \in 0 .. Arrived : Holds(pos) /\ Place(pos)
        BY <2>3 DEF ExInv
      <3>2. Holds(pos)'
        BY <2>1, <3>1, Same DEF Holds
      <3>3. Place(pos)'
        BY <2>1, <3>1, PlaceSame
      <3> QED BY <2>1, <3>1, <3>2, <3>3, Same
    <2> QED BY <2>1, <2>2, <2>3 DEF ExInv
  <1> QED BY <1>1, <1>2, <1>3, <1>4, <1>5 DEF Next

\* The invariant of the exchange, for every set of scripts, every size of the
\* reader's buffer and every way to cut the stream into fragments: where the
\* reader is in what was sent, and what the parser knows of it (MakeTunnel,
\* ParseHeaderFields, Body.Parse).  It is given up when the target of an HTTP
\* proxy speaks before the tunnel is handed out.
THEOREM ExchangeInvariant == Spec => []ExchangeInv
  <1>1. Init => ExchangeInv
    BY InitInv DEF Init, ExchangeInv
  <1>2. ExchangeInv /\ [Next]_vars => ExchangeInv'
    <2> SUFFICES ASSUME ExchangeInv, [Next]_vars PROVE ExchangeInv'
      OBVIOUS
    <2>1. script' = script /\ (sent => UNCHANGED <<sent, early>>)
      BY DEF Next, TargetSends, PeerCloses, Breaks, Step, vars
    <2>2. early' => sent' /\ Accepts(script)
      BY DEF ExchangeInv, Next, TargetSends, PeerCloses, Breaks, Step, vars
    <2>3. ASSUME ~Robbed' PROVE ExInv'
      <3>1. ~Robbed
        BY <2>1, <2>3 DEF ExchangeInv, Robbed
      <3> QED BY <2>3, <3>1, NextInv DEF ExchangeInv
    <2> QED BY <2>1, <2>2, <2>3 DEF ExchangeInv
  <1> QED BY <1>1, <1>2, PTL DEF Spec

LEMMA PrefixIs ==
    ASSUME NEW s \in Seq(Byte), NEW u \in Seq(Byte), Len(s) <= Len(u),
           \A i \in 1 .. Len(s) : s[i] = u[i]
    PROVE  IsPrefix(s, u)
  <1> DEFINE x == SubSeq(s, 1, Len(s))
             y == SubSeq(u, 1, Len(s))
  <1>1. Len(s) \in Nat /\ Len(u) \in Nat
    OBVIOUS
  <1>2. x \in Seq(Byte) /\ Len(x) = Len(s) /\ \A i \in 1 .. Len(s) : x[i] = s[i]
    BY <1>1
  <1>3. y \in Seq(Byte) /\ Len(y) = Len(s) /\ \A i \in 1 .. Len(s) : y[i] = u[i]
    BY <1>1
  <1> HIDE DEF x, y
  <1>4. Len(x) = Len(y) /\ \A i \in 1 .. Len(x) : x[i] = y[i]
    BY <1>2, <1>3
  <1>5. x = y
    BY <1>2, <1>3, <1>4, SeqEqual
  <1> QED BY <1>5 DEF IsPrefix, x, y

\* What is still to be read.
LEMMA Unread ==
    ASSUME ExTypeOK, NEW pos \in Nat, Holds(pos)
    PROVE  /\ buf \o wire \in Seq(Byte) /\ Len(buf \o wire) \in Nat
           /\ pos + Len(buf \o wire) <= Arrived
           /\ \A i \in 1 .. Len(buf \o wire) : (buf \o wire)[i] = Text[pos + i]
  <1>1. buf \in Seq(Byte) /\ wire \in Seq(Byte) /\ Len(buf) \in Nat /\ Len(wire) \in Nat
    BY DEF ExTypeOK
  <1>2. /\ buf \o wire \in Seq(Byte) /\ Len(buf \o wire) = Len(buf) + Len(wire)
        /\ \A i \in 1 .. Len(buf) + Len(wire) :
              (buf \o wire)[i] = IF i <= Len(buf) THEN buf[i] ELSE wire[i - Len(buf)]
    BY <1>1, ConcatProperties
  <1>3. ASSUME NEW i \in 1 .. Len(buf) + Len(wire) PROVE (buf \o wire)[i] = Text[pos + i]
    <2>1. CASE i <= Len(buf)
      <3>1. i \in 1 .. Len(buf)
        BY <1>1, <2>1
      <3> QED BY <1>2, <2>1, <3>1 DEF Holds
    <2>2. CASE ~(i <= Len(buf))
      <3>1. i - Len(buf) \in 1 .. Len(wire) /\ pos + Len(buf) + (i - Len(buf)) = pos + i
        BY <1>1, <2>2
      <3> QED BY <1>2, <2>2, <3>1 DEF Holds
    <2> QED BY <2>1, <2>2
  <1>4. pos + Len(buf) + Len(wire) <= Arrived
    BY DEF Holds
  <1>5. pos + (Len(buf) + Len(wire)) <= Arrived
    <2>1. pos + (Len(buf) + Len(wire)) = pos + Len(buf) + Len(wire)
      BY <1>1
    <2> QED BY <1>4, <2>1
  <1> QED BY <1>1, <1>2, <1>3, <1>5

\* Body.Parse and ParseHeaderFields: a message taken for whole was passed on byte
\* for byte, and what follows it is what the reader has; a message fails only
\* when the connection broke, the proxy refused, it is malformed or its header is
\* larger than the buffer, and the parser panics only on the byte 0xFF.
THEOREM MessagesAreFramed == Spec => []MessageFramed
  <1>1. ExchangeInv => MessageFramed
    <2> SUFFICES ASSUME ExInv PROVE MessageFramed
      BY DEF ExchangeInv, MessageFramed
    <2>1. p.at = "failed" => cut \/ ~Accepts(script) \/ ~WellFormed(script) \/ ~Fits(script)
      BY DEF ExInv, Failing
    <2>2. ASSUME p.at = "done"
          PROVE  IF p.type = -2
                 THEN IsPrefix(p.out, script.body) /\ (p.out = script.body \/ cut)
                 ELSE p.out = script.body /\ IsPrefix(buf \o wire, script.next)
      <3>1. ExTypeOK /\ p \in Parser
        BY <2>2, At
      <3>2. PICK pos \in Nat : pos <= Arrived /\ Holds(pos) /\ Place(pos)
        BY <2>2, At
      <3>3. DonePlace(pos)
        BY <2>2, <3>2 DEF Place
      <3>4. p.out \in Seq(Byte) /\ Len(p.out) \in Nat
        BY <3>1, Fields
      <3>5. /\ script.body \in Seq(Byte) /\ script.next \in Seq(Byte)
            /\ Len(script.body) = B /\ Len(script.next) = N
            /\ R \in Nat /\ H \in Nat /\ B \in Nat /\ N \in Nat /\ IsMessage(script)
        BY <3>1, ScriptFacts DEF B, N
      <3>6. Len(p.out) <= B + N /\ \A i \in 1 .. Len(p.out) : p.out[i] = Rest[i]
        BY <3>1, <3>3, TextAt DEF DonePlace, Passed, Occurs
      <3>7. ASSUME Len(p.out) <= B
            PROVE  /\ IsPrefix(p.out, script.body)
                   /\ Len(p.out) = B => p.out = script.body
        <4>1. ASSUME NEW i \in 1 .. Len(p.out) PROVE p.out[i] = script.body[i]
          <5>1. i \in 1 .. B
            BY <3>4, <3>5, <3>7
          <5> QED BY <3>1, <3>6, <5>1, TextAt
        <4>2. IsPrefix(p.out, script.body)
          BY <3>4, <3>5, <3>7, <4>1, PrefixIs
        <4>3. Len(p.out) = B => p.out = script.body
          BY <3>4, <3>5, <4>1, SeqEqual
        <4> QED BY <4>2, <4>3
      <3>8. CASE p.type = -2
        <4>1. N = 0
          BY <3>3, <3>5, <3>8 DEF DonePlace, IsMessage
        <4>2. Len(p.out) <= B
          BY <3>4, <3>5, <3>6, <4>1
        <4>3. Len(p.out) = B \/ cut
          BY <3>3, <3>8 DEF DonePlace
        <4> QED BY <3>7, <3>8, <4>2, <4>3
      <3>9. CASE p.type # -2
        <4>1. Len(p.out) = B /\ pos = R + H + B
          BY <3>3, <3>9 DEF DonePlace
        <4>2. p.out = script.body
          BY <3>5, <3>7, <4>1
        <4> DEFINE s == buf \o wire
        <4>3. /\ s \in Seq(Byte) /\ Len(s) \in Nat /\ pos + Len(s) <= Arrived
              /\ \A i \in 1 .. Len(s) : s[i] = Text[pos + i]
          BY <3>1, <3>2, Unread
        <4> HIDE DEF s
        <4>4. Len(s) <= N
          <5>1. Arrived <= R + H + B + N /\ Arrived \in Nat
            BY <3>5 DEF Arrived
          <5>2. pos + Len(s) <= Arrived /\ Len(s) \in Nat
            BY <4>3
          <5> QED BY <3>5, <4>1, <5>1, <5>2
        <4>5. ASSUME NEW i \in 1 .. Len(s) PROVE s[i] = script.next[i]
          <5>1. i \in 1 .. N /\ B + i \in 1 .. B + N /\ pos + i = R + H + (B + i)
            BY <3>5, <4>1, <4>3, <4>4
          <5>2. s[i] = Text[R + H + (B + i)]
            BY <4>3, <5>1
          <5> QED BY <3>1, <5>1, <5>2, TextAt
        <4>6. IsPrefix(s, script.next)
          BY <3>5, <4>3, <4>4, <4>5, PrefixIs
        <4> QED BY <3>9, <4>2, <4>6 DEF s
      <3> QED BY <3>8, <3>9
    <2>3. p.at = "panicked" => ~WellFormed(script) /\ "0xFF" \in Range(script.body \o script.next)
      BY DEF ExInv, Failing, Rest
    <2> QED BY <2>1, <2>2, <2>3 DEF MessageFramed
  <1> QED BY <1>1, ExchangeInvariant, PTL

\* MakeTunnel: a tunnel is handed out only when the proxy accepted, and then what
\* the reader has is the start of the target's message, unless the target spoke
\* early through an HTTP proxy.
THEOREM TunnelsAreAligned == Spec => []TunnelAligned
  <1>1. ExchangeInv => TunnelAligned
    <2> SUFFICES ASSUME ExInv PROVE TunnelAligned
      BY DEF ExchangeInv, Robbed, TunnelAligned
    <2>1. ASSUME ~InTunnel, p.at \notin {"failed", "aborted"} PROVE Accepts(script)
      <3>1. CASE p.at = "panicked"
        BY <3>1 DEF ExInv, Failing
      <3>2. CASE p.at # "panicked"
        <4>1. p \in Parser
          BY <2>1, <3>2, At
        <4>2. PICK pos \in Nat : pos <= Arrived /\ Holds(pos) /\ Place(pos)
          BY <2>1, <3>2, At
        <4>3. p.at \in MessagePhases \cup {"done"}
          BY <2>1, <3>2, <4>1, Fields DEF InTunnel, Phases
        <4> QED BY <4>2, <4>3 DEF Place
      <3> QED BY <3>1, <3>2
    <2>2. ASSUME p.at = "header" PROVE IsPrefix(buf \o wire, Message)
      <3>1. ExTypeOK
        BY <2>2, At
      <3>2. PICK pos \in Nat : pos <= Arrived /\ Holds(pos) /\ Place(pos)
        BY <2>2, At
      <3>3. pos = R
        BY <2>2, <3>2 DEF Place, HeaderPlace
      <3> DEFINE s == buf \o wire
      <3>4. /\ s \in Seq(Byte) /\ Len(s) \in Nat /\ pos + Len(s) <= Arrived
            /\ \A i \in 1 .. Len(s) : s[i] = Text[pos + i]
        BY <3>1, <3>2, Unread
      <3>5. /\ R \in Nat /\ H \in Nat /\ B \in Nat /\ N \in Nat
            /\ Message \in Seq(Byte) /\ Len(Message) = H + B + N
        BY <3>1, ScriptFacts, TextAt
      <3> HIDE DEF s
      <3>6. Len(s) <= H + B + N
        <4>1. Arrived <= R + H + B + N /\ Arrived \in Nat
          BY <3>5 DEF Arrived
        <4>2. R + Len(s) <= Arrived /\ Len(s) \in Nat
          BY <3>3, <3>4
        <4> QED BY <3>5, <4>1, <4>2
      <3>7. ASSUME NEW i \in 1 .. Len(s) PROVE s[i] = Message[i]
        <4>1. i \in 1 .. H + B + N
          BY <3>4, <3>5, <3>6
        <4> QED BY <3>1, <3>3, <3>4, <4>1, TextAt
      <3>8. IsPrefix(s, Message)
        BY <3>4, <3>5, <3>6, <3>7, PrefixIs
      <3> QED BY <3>8 DEF s
    <2> QED BY <2>1, <2>2 DEF TunnelAligned
  <1> QED BY <1>1, ExchangeInvariant, PTL
=============================================================================
