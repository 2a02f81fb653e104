--------------------------- MODULE EnsSigningProofs ---------------------------
(***************************************************************************)
(* Proof that what the user is shown of a supported transaction is what    *)
(* README.md says of the calldata that arrived, that the limits of         *)
(* README.md are enforced, and that the plugin and its host keep the       *)
(* promise of ClearSigning.                                                *)
(*                                                                         *)
(* The argument: when the calldata ends, what the parser has kept (Parses, *)
(* in EnsDisplayProofs) is what every screen of the function needs; that   *)
(* is AllShown.  DisplayInv carries it through the review.                 *)
(***************************************************************************)
EXTENDS EnsDisplayProofs

(***************************************************************************)
(* The screens.                                                            *)
(***************************************************************************)

\* Screen s shows what the words before the next one bring of promise p, and
\* all of it after the last word.
Shows(s, p) ==
    /\ s = ScreenLeft(call, p, Position(WordNumber))
    /\ WordNumber = Len(Encode(call)) + 1 => s = p

\* The bytes before position `end`, 0 for the others, and only them.
Arrived(b, end) == [j \in DOMAIN b |-> IF b[j] < end THEN b[j] ELSE 0]
Received(b, end) == [j \in { x \in DOMAIN b : b[x] < end } |-> b[j]]

\* The last k bytes of a word, from its byte `first` on.
LastBytes(first, k) == first \in 0 .. 31 /\ k \in 1 .. 32 /\ first + k = 32

\* What is left of a promise.
LEMMA Remainder ==
  ASSUME NEW t, NEW f, NEW b, NEW d, NEW end, NEW p, p = Promise(t, f, b, d),
         NEW left, left = BytesLeft(call, p, end)
  PROVE  ScreenLeft(call, p, end) = Screen(t, f, left, d /\ b[1] < end)
  <1>1. p.title = t /\ p.format = f /\ p.bytes = b /\ p.dots = d
    BY DEF Promise
  <1>2. ScreenLeft(call, p, end)
          = Promise(p.title, p.format, BytesLeft(call, p, end), p.dots /\ p.bytes[1] < end)
    BY DEF ScreenLeft
  <1>3. ScreenLeft(call, p, end) = Promise(t, f, left, d /\ b[1] < end)
    BY <1>1, <1>2, Zenon
  <1>4. QED
    BY <1>3 DEF Screen, Promise

\* One without dots.
Plain(p, t, f, b) == p = [title |-> t, format |-> f, bytes |-> b, dots |-> FALSE]

LEMMA PlainRemainder ==
  ASSUME NEW t, NEW f, NEW b, NEW end, NEW p, Plain(p, t, f, b),
         NEW left, left = BytesLeft(call, p, end)
  PROVE  Plain(ScreenLeft(call, p, end), t, f, left)
  <1>1. p.title = t /\ p.format = f /\ p.bytes = b /\ p.dots = FALSE
    BY DEF Plain
  <1>2. PICK d : d = (p.dots /\ p.bytes[1] < end)
    OBVIOUS
  <1>3. d = FALSE
    BY <1>1, <1>2
  <1>4. ScreenLeft(call, p, end) = Promise(p.title, p.format, BytesLeft(call, p, end), d)
    BY <1>2, Zenon DEF ScreenLeft
  <1>5. QED
    BY <1>1, <1>3, <1>4 DEF Plain, Promise

LEMMA BytesOf ==
  ASSUME NEW p, NEW end, NEW b, b = p.bytes
  PROVE  /\ p.format = "string" => BytesLeft(call, p, end) = Received(b, end)
         /\ p.format # "string" /\ ~(p.format = "hex" /\ NoLength(call, b, end))
              => BytesLeft(call, p, end) = Arrived(b, end)
         /\ p.format = "hex" /\ NoLength(call, b, end) => BytesLeft(call, p, end) = << >>
  BY DEF BytesLeft, RestrictValues, Restrict, Arrived, Received

LEMMA SpanShown ==
  ASSUME NEW f, NEW i \in Nat \ {0}, NEW first, NEW k, LastBytes(first, k),
         WordNumber \in Nat \ {0}, WordKept(f, i, first),
         NEW b, b = Interval(Position(i) + first, k)
  PROVE  /\ Span(f, k) = Arrived(b, Position(WordNumber))
         /\ i < WordNumber => Span(f, k) = b
         /\ DOMAIN b = 1 .. k /\ b[1] = Position(i) + first
  <1>0. first \in 0 .. 31 /\ k \in 1 .. 32 /\ first + k = 32
    BY DEF LastBytes
  <1>1. PICK n \in Nat \ {0} : n = WordNumber
    OBVIOUS
  <1>2. PICK a : a = statics[f].at
    OBVIOUS
  <1>3. a = IF i < n THEN 4 + 32 * (i - 1) + first ELSE 0
    BY <1>1, <1>2 DEF WordKept, Position, SELECTOR_SIZE, PARAMETER_LENGTH
  <1>4. b = [j \in 1 .. k |-> 4 + 32 * (i - 1) + first + j - 1]
    BY DEF Interval, Position, SELECTOR_SIZE, PARAMETER_LENGTH
  <1>5. Position(n) = 4 + 32 * (n - 1)
    BY DEF Position, SELECTOR_SIZE, PARAMETER_LENGTH
  <1>6. Span(f, k) = [j \in 1 .. k |-> IF a = 0 THEN 0 ELSE a + j - 1]
    BY <1>2 DEF Span
  <1>7. \A j \in 1 .. k :
           (IF a = 0 THEN 0 ELSE a + j - 1)
             = IF 4 + 32 * (i - 1) + first + j - 1 < 4 + 32 * (n - 1)
               THEN 4 + 32 * (i - 1) + first + j - 1 ELSE 0
    BY <1>0, <1>3
  <1>8. i < n => \A j \in 1 .. k :
           (IF a = 0 THEN 0 ELSE a + j - 1) = 4 + 32 * (i - 1) + first + j - 1
    BY <1>0, <1>3
  <1>9. DOMAIN b = 1 .. k /\ \A j \in 1 .. k : b[j] = 4 + 32 * (i - 1) + first + j - 1
    BY <1>0, <1>4
  <1>10. b[1] = Position(i) + first
    BY <1>0, <1>9 DEF Position, SELECTOR_SIZE, PARAMETER_LENGTH
  <1>11. Span(f, k) = Arrived(b, Position(n))
    <2>1. \A j \in 1 .. k : (IF a = 0 THEN 0 ELSE a + j - 1) = IF b[j] < Position(n) THEN b[j] ELSE 0
      BY <1>0, <1>5, <1>7, <1>9
    <2>2. QED
      BY <1>6, <1>9, <2>1 DEF Arrived
  <1>12. i < n => Span(f, k) = b
    BY <1>4, <1>6, <1>8
  <1>13. QED
    BY <1>1, <1>9, <1>10, <1>11, <1>12

\* A parameter of fixed size.
LEMMA StaticShown ==
  ASSUME call \in Transactions, Supported(call), WordNumber \in Nat \ {0},
         NEW f, NEW i \in Nat \ {0}, NEW first, NEW k, LastBytes(first, k),
         WordKept(f, i, first), i <= Len(Encode(call)),
         NEW t, NEW format \in {"hex", "address", "integer", "seconds"},
         format = "hex" => i <= Len(Signature(call.selector)),
         NEW p, Plain(p, t, format, Interval(Position(i) + first, k)),
         NEW s, Plain(s, t, format, Span(f, k))
  PROVE  Shows(s, p)
  <1>1. PICK b : b = Interval(Position(i) + first, k)
    OBVIOUS
  <1>2. /\ Span(f, k) = Arrived(b, Position(WordNumber))
        /\ i < WordNumber => Span(f, k) = b
        /\ DOMAIN b = 1 .. k /\ b[1] = Position(i) + first
    <2>1. PICK q : q = Position(i) + first
      OBVIOUS
    <2>2. b = Interval(Position(i) + first, k)
      BY <1>1
    <2>3. QED
      BY <2>2, SpanShown
  <1>3. Plain(p, t, format, b)
    BY <1>1
  <1>4. format = "hex" => ~NoLength(call, b, Position(WordNumber))
    <2>1. ASSUME format = "hex" PROVE InHead(call, b)
      <3>1. PICK h \in Nat : h = Len(Signature(call.selector))
        BY CallWords
      <3>2. i <= h
        BY <2>1, <3>1
      <3>3. Position(i) + first < 4 + 32 * h
        <4>1. \A x \in 0 .. 31 : 4 + 32 * (i - 1) + x < 4 + 32 * h
          BY <3>2
        <4>2. QED
          BY <4>1 DEF LastBytes, Position, SELECTOR_SIZE, PARAMETER_LENGTH
      <3>4. b # << >>
        BY <1>2 DEF LastBytes
      <3>5. QED
        BY <1>2, <3>1, <3>3, <3>4 DEF InHead, SizeOf, SELECTOR_SIZE, PARAMETER_LENGTH
    <2>2. QED
      BY <2>1 DEF NoLength
  <1>5. BytesLeft(call, p, Position(WordNumber)) = Span(f, k)
    <2>1. p.bytes = b /\ p.format = format /\ format # "string"
      <3>1. p.bytes = b /\ p.format = format
        BY <1>3 DEF Plain
      <3>2. format # "string"
        OBVIOUS
      <3>3. QED
        BY <3>1, <3>2
    <2>2. BytesLeft(call, p, Position(WordNumber))
            = Arrived(b, Position(WordNumber))
      <3>1. p.format # "string" /\ ~(p.format = "hex" /\ NoLength(call, b, Position(WordNumber)))
        BY <1>4, <2>1
      <3>2. QED
        BY <2>1, <3>1, BytesOf, Zenon
    <2>3. QED
      BY <1>2, <2>2
  <1>6. Plain(ScreenLeft(call, p, Position(WordNumber)), t, format, Span(f, k))
    BY <1>3, <1>5, PlainRemainder
  <1>7. WordNumber = Len(Encode(call)) + 1 => i < WordNumber
    BY CallWords
  <1>8. s = ScreenLeft(call, p, Position(WordNumber))
    BY <1>6 DEF Plain
  <1>9. i < WordNumber => s = p
    BY <1>2, <1>3 DEF Plain
  <1>10. QED
    BY <1>7, <1>8, <1>9 DEF Shows

\* The positions of the bytes shown of a field of v bytes whose length is in
\* word a.
Pieces(a, v) == [j \in 1 .. Least(v, PARAMETER_LENGTH) |-> ByteSource(a, v, j - 1)]

\* One sequence after the other.
Glued(z, x, y) ==
    /\ Len(z) = Len(x) + Len(y)
    /\ \A j \in 1 .. Len(x) + Len(y) : z[j] = IF j <= Len(x) THEN x[j] ELSE y[j - Len(x)]

LEMMA Concatenation ==
  ASSUME NEW T, NEW x \in Seq(T), NEW y \in Seq(T), NEW z, z = x \o y
  PROVE  z \in Seq(T) /\ Glued(z, x, y)
  BY DEF Glued

\* Two halves.
LEMMA HalvesJoined ==
  ASSUME NEW x \in Seq(Int), NEW y \in Seq(Int), Len(x) = 16, Len(y) = 16
  PROVE  x \o y = [j \in 1 .. 32 |-> IF j <= 16 THEN x[j] ELSE y[j - 16]]
  <1>1. PICK z : z = x \o y
    OBVIOUS
  <1>2. /\ z \in Seq(Int) /\ Len(z) = Len(x) + Len(y)
        /\ \A j \in 1 .. Len(x) + Len(y) : z[j] = IF j <= Len(x) THEN x[j] ELSE y[j - Len(x)]
    <2>1. z \in Seq(Int) /\ Glued(z, x, y)
      BY <1>1, Concatenation, Zenon
    <2>2. QED
      BY <2>1 DEF Glued
  <1>3. /\ z \in Seq(Int) /\ Len(z) = 16 + 16
        /\ \A j \in 1 .. 16 + 16 : z[j] = IF j <= 16 THEN x[j] ELSE y[j - 16]
    BY <1>2
  <1>4. z = [j \in 1 .. 32 |-> IF j <= 16 THEN x[j] ELSE y[j - 16]]
    BY <1>3
  <1>5. QED
    BY <1>1, <1>4

\* What is promised of it.
LEMMA AbbreviatedPieces ==
  ASSUME NEW a \in Nat, NEW v \in Nat, NEW t, NEW m,
         NEW p, p = Abbreviated(Position(a + 1), v, t, m)
  PROVE  /\ v <= 32 => p = [title |-> t, format |-> m, bytes |-> Pieces(a, v), dots |-> FALSE]
         /\ 32 < v => p = [title |-> t, format |-> m, bytes |-> Pieces(a, v), dots |-> TRUE]
  <1>1. PICK at \in Int : at = Position(a + 1)
    BY Positions
  <1>2. CASE v <= 32
    <2>1. p = [title |-> t, format |-> m, bytes |-> Interval(at, v), dots |-> FALSE]
      BY <1>1, <1>2 DEF Abbreviated, Promise
    <2>2. Pieces(a, v) = [j \in 1 .. v |-> at + (j - 1)]
      <3>1. Least(v, PARAMETER_LENGTH) = v
        BY <1>2 DEF Least, PARAMETER_LENGTH
      <3>2. \A j \in 1 .. v : ByteSource(a, v, j - 1) = at + (j - 1)
        BY <1>1, <1>2 DEF ByteSource, PARAMETER_LENGTH
      <3>3. QED
        BY <3>1, <3>2 DEF Pieces
    <2>3. Interval(at, v) = [j \in 1 .. v |-> at + (j - 1)]
      BY DEF Interval
    <2>4. Pieces(a, v) = Interval(at, v)
      BY <2>2, <2>3
    <2>5. p = [title |-> t, format |-> m, bytes |-> Pieces(a, v), dots |-> FALSE]
      BY <2>1, <2>4
    <2>6. ~(32 < v)
      BY <1>2
    <2>7. QED
      BY <2>5, <2>6, Zenon
  <1>3. CASE 32 < v
    <2> DEFINE x == Interval(at, 16)
               y == Interval(at + v - 16, 16)
    <2>1. p = [title |-> t, format |-> m, bytes |-> x \o y, dots |-> TRUE]
      BY <1>1, <1>3 DEF Abbreviated, Promise
    <2>2. /\ x \in Seq(Int) /\ Len(x) = 16 /\ \A j \in 1 .. 16 : x[j] = at + (j - 1)
          /\ y \in Seq(Int) /\ Len(y) = 16 /\ \A j \in 1 .. 16 : y[j] = at + v - 16 + (j - 1)
      BY DEF Interval
    <2> HIDE DEF x, y
    <2>3. x \o y = [j \in 1 .. 32 |-> IF j <= 16 THEN x[j] ELSE y[j - 16]]
      BY <2>2, HalvesJoined
    <2>4. \A j \in 1 .. 32 : ByteSource(a, v, j - 1) = IF j <= 16 THEN x[j] ELSE y[j - 16]
      <3>1. \A j \in 1 .. 16 : ByteSource(a, v, j - 1) = at + (j - 1)
        BY <1>1, <1>3 DEF ByteSource, PARAMETER_LENGTH, HALF_PARAMETER_LENGTH
      <3>2. \A j \in 17 .. 32 : ByteSource(a, v, j - 1) = at + (j - 1) + (v - 32)
        BY <1>1, <1>3 DEF ByteSource, PARAMETER_LENGTH, HALF_PARAMETER_LENGTH
      <3>3. ASSUME NEW j \in 17 .. 32
            PROVE  ByteSource(a, v, j - 1) = y[j - 16]
        <4>1. j - 16 \in 1 .. 16
          OBVIOUS
        <4>2. y[j - 16] = at + v - 16 + (j - 16 - 1)
          BY <2>2, <4>1
        <4>3. at + v - 16 + (j - 16 - 1) = at + (j - 1) + (v - 32)
          OBVIOUS
        <4>4. QED
          BY <3>2, <4>2, <4>3
      <3>4. \A j \in 1 .. 32 : (j <= 16 => j \in 1 .. 16) /\ (~(j <= 16) => j \in 17 .. 32)
        OBVIOUS
      <3>5. QED
        BY <2>2, <3>1, <3>3, <3>4
    <2>5. Least(v, PARAMETER_LENGTH) = 32
      BY <1>3 DEF Least, PARAMETER_LENGTH
    <2>6. Pieces(a, v) = x \o y
      BY <2>3, <2>4, <2>5 DEF Pieces
    <2>7. p = [title |-> t, format |-> m, bytes |-> Pieces(a, v), dots |-> TRUE]
      BY <2>1, <2>6
    <2>8. ~(v <= 32)
      BY <1>3
    <2>9. QED
      BY <2>7, <2>8, Zenon
  <1>4. QED
    BY <1>2, <1>3

\* The dots there are.
DotsLeft(p, end) == IF p.dots /\ p.bytes[1] < end THEN TRUE ELSE FALSE

\* A screen that has the title, format and bytes of what is left of a promise,
\* and dots where its first byte arrived.
LEMMA DottedRemainder ==
  ASSUME NEW p, NEW end, NEW t, NEW m, p.title = t, p.format = m,
         NEW s, NEW left, left = BytesLeft(call, p, end), NEW dots,
         s = [title |-> t, format |-> m, bytes |-> left, dots |-> dots],
         dots = DotsLeft(p, end)
  PROVE  s = ScreenLeft(call, p, end)
  <1>1. PICK d : d = (p.dots /\ p.bytes[1] < end)
    OBVIOUS
  <1>2. d = dots
    BY <1>1 DEF DotsLeft
  <1>3. ScreenLeft(call, p, end) = Promise(p.title, p.format, BytesLeft(call, p, end), d)
    BY <1>1, Zenon DEF ScreenLeft
  <1>4. QED
    BY <1>2, <1>3 DEF Promise

\* The first byte, and the last ones.
LEMMA PiecePlaces ==
  ASSUME NEW a \in Nat, NEW v \in Nat, NEW n \in Nat
  PROVE  /\ \A j \in 1 .. Least(v, PARAMETER_LENGTH) : ByteSource(a, v, j - 1) \in Int
         /\ v # 0 => Pieces(a, v)[1] = Position(a + 1) /\ Pieces(a, v) # << >>
         /\ a + WordsFor(v) < n =>
               \A j \in 1 .. Least(v, PARAMETER_LENGTH) : ByteSource(a, v, j - 1) < Position(n)
         /\ Position(a + 1) < Position(n) <=> a + 1 < n
  <1>1. Position(a + 1) = 4 + 32 * a /\ Position(n) = 4 + 32 * (n - 1)
    BY DEF Position, SELECTOR_SIZE, PARAMETER_LENGTH
  <1>2. DOMAIN Pieces(a, v) = 1 .. Least(v, PARAMETER_LENGTH)
    BY DEF Pieces
  <1>3. \A j \in 1 .. Least(v, PARAMETER_LENGTH) :
           /\ Pieces(a, v)[j] = ByteSource(a, v, j - 1)
           /\ ByteSource(a, v, j - 1) \in Int
           /\ 4 + 32 * a <= ByteSource(a, v, j - 1)
           /\ ByteSource(a, v, j - 1) <= 4 + 32 * a + v - 1
    BY <1>1 DEF Pieces, ByteSource, Least, PARAMETER_LENGTH, HALF_PARAMETER_LENGTH
  <1>4. v # 0 => Pieces(a, v)[1] = Position(a + 1) /\ Pieces(a, v) # << >>
    <2> SUFFICES ASSUME v # 0 PROVE Pieces(a, v)[1] = Position(a + 1) /\ Pieces(a, v) # << >>
      OBVIOUS
    <2>1. PICK j : j = 1
      OBVIOUS
    <2>2. j \in 1 .. Least(v, PARAMETER_LENGTH)
      BY <2>1 DEF Least, PARAMETER_LENGTH
    <2>3. ByteSource(a, v, j - 1) = 4 + 32 * a
      BY <1>1, <2>1 DEF ByteSource, PARAMETER_LENGTH, HALF_PARAMETER_LENGTH
    <2>4. Pieces(a, v)[j] = ByteSource(a, v, j - 1)
      BY <1>3, <2>2
    <2>5. Pieces(a, v) # << >>
      <3>1. ~(j \in DOMAIN << >>)
        OBVIOUS
      <3>2. j \in DOMAIN Pieces(a, v)
        BY <1>2, <2>2
      <3>3. QED
        BY <3>1, <3>2, Zenon
    <2>6. QED
      BY <1>1, <2>1, <2>3, <2>4, <2>5
  <1>5. v <= 32 * WordsFor(v)
    BY DEF WordsFor, PARAMETER_LENGTH
  <1>6. WordsFor(v) \in Nat
    BY DEF WordsFor, PARAMETER_LENGTH
  <1>7. a + WordsFor(v) < n => 4 + 32 * a + v - 1 < 4 + 32 * (n - 1)
    BY <1>5, <1>6
  <1>8. a + WordsFor(v) < n =>
          \A j \in 1 .. Least(v, PARAMETER_LENGTH) : ByteSource(a, v, j - 1) < Position(n)
    BY <1>1, <1>3, <1>7
  <1>9. Position(a + 1) < Position(n) <=> a + 1 < n
    BY <1>1
  <1>10. QED
    BY <1>3, <1>4, <1>8, <1>9

\* Field f is where promise p says, behind the word with its length, of v
\* bytes, which is after the head.
Behind(a, v) ==
    /\ a \in Nat /\ v \in Nat
    /\ Len(Signature(call.selector)) < a
    /\ a + WordsFor(v) <= Len(Encode(call))

\* A byte array.
LEMMA HexShown ==
  ASSUME call \in Transactions, Supported(call), WordNumber \in Nat \ {0},
         NEW f, NEW a, NEW v, Behind(a, v), DataKept(f, a, v),
         NEW t, NEW p, p = Abbreviated(Position(a + 1), v, t, "hex"),
         NEW s, s = set_bytes_ui(f.slot, t)
  PROVE  Shows(s, p)
  <1>1. PICK n \in Nat : n = WordNumber
    OBVIOUS
  <1>2. /\ a \in Nat /\ v \in Nat /\ Len(Signature(call.selector)) < a
        /\ a + WordsFor(v) <= Len(Encode(call)) /\ Len(Encode(call)) \in Nat
        /\ Len(Signature(call.selector)) \in Nat
    BY CallWords DEF Behind
  <1>3. PICK b : b = Pieces(a, v)
    OBVIOUS
  <1>4. /\ v <= 32 => p = [title |-> t, format |-> "hex", bytes |-> b, dots |-> FALSE]
        /\ 32 < v => p = [title |-> t, format |-> "hex", bytes |-> b, dots |-> TRUE]
    BY <1>2, <1>3, AbbreviatedPieces
  <1>5. p.title = t /\ p.format = "hex" /\ p.bytes = b /\ (p.dots <=> 32 < v)
    BY <1>2, <1>4
  <1>6. PICK l, x, d : l = len[f.slot] /\ x = text[f.slot] /\ d = ellipsis[f.slot]
    OBVIOUS
  <1>7. /\ l = IF a < n THEN v ELSE 0
        /\ d = IF v > PARAMETER_LENGTH /\ a + 1 < n THEN TRUE ELSE FALSE
        /\ \A j \in 0 .. PARAMETER_LENGTH - 1 :
              j < v => x[j] = IF ByteSource(a, v, j) < Position(n) THEN ByteSource(a, v, j) ELSE 0
    BY <1>1, <1>6 DEF DataKept
  <1>8. PICK z : z = [j \in 1 .. Least(l, PARAMETER_LENGTH) |-> x[j - 1]]
    OBVIOUS
  <1>9. s = [title |-> t, format |-> "hex", bytes |-> z, dots |-> d]
    BY <1>6, <1>8 DEF set_bytes_ui, Screen
  <1>10. DOMAIN b = 1 .. Least(v, PARAMETER_LENGTH)
         /\ \A j \in 1 .. Least(v, PARAMETER_LENGTH) : b[j] = ByteSource(a, v, j - 1)
    BY <1>3 DEF Pieces
  <1>11. \A j \in 1 .. Least(v, PARAMETER_LENGTH) : j - 1 \in 0 .. PARAMETER_LENGTH - 1 /\ j - 1 < v
    BY <1>2 DEF Least, PARAMETER_LENGTH
  <1>12. /\ v # 0 => b[1] = Position(a + 1) /\ b # << >>
         /\ Position(a + 1) < Position(n) <=> a + 1 < n
         /\ a + WordsFor(v) < n =>
               \A j \in 1 .. Least(v, PARAMETER_LENGTH) : ByteSource(a, v, j - 1) < Position(n)
    BY <1>2, <1>3, PiecePlaces
  <1>13. v = 0 => b = << >>
    <2>1. v = 0 => Least(v, PARAMETER_LENGTH) = 0
      BY DEF Least, PARAMETER_LENGTH
    <2>2. QED
      BY <1>3, <2>1 DEF Pieces
  <1>14. a < n => z = Arrived(b, Position(n))
    <2>1. a < n => l = v
      BY <1>7
    <2>2. \A j \in 1 .. Least(v, PARAMETER_LENGTH) :
             x[j - 1] = IF b[j] < Position(n) THEN b[j] ELSE 0
      BY <1>7, <1>10, <1>11
    <2>3. QED
      BY <1>8, <1>10, <2>1, <2>2 DEF Arrived
  <1>15. ~(a < n) => z = << >>
    <2>1. ~(a < n) => Least(l, PARAMETER_LENGTH) = 0
      BY <1>7 DEF Least, PARAMETER_LENGTH
    <2>2. QED
      BY <1>8, <2>1
  <1>16. NoLength(call, b, Position(n)) <=> v # 0 /\ ~(a < n)
    <2>1. v # 0 => ~InHead(call, b)
      <3>1. PICK h \in Nat : h = Len(Signature(call.selector)) /\ h < a
        BY <1>2
      <3>2. ~(Position(a + 1) < 4 + 32 * h)
        BY <1>2, <3>1 DEF Position, SELECTOR_SIZE, PARAMETER_LENGTH
      <3>3. QED
        BY <1>12, <3>1, <3>2 DEF InHead, SizeOf, SELECTOR_SIZE, PARAMETER_LENGTH
    <2>2. Position(a + 1) - PARAMETER_LENGTH >= Position(n) <=> ~(a < n)
      BY <1>2 DEF Position, SELECTOR_SIZE, PARAMETER_LENGTH
    <2>3. QED
      BY <1>12, <1>13, <2>1, <2>2 DEF NoLength
  <1>17. z = BytesLeft(call, p, Position(n))
    <2>1. CASE v # 0 /\ ~(a < n)
      BY <1>5, <1>15, <1>16, <2>1, BytesOf
    <2>2. CASE a < n
      <3>1. p.format # "string" /\ ~(p.format = "hex" /\ NoLength(call, b, Position(n)))
        BY <1>5, <1>16, <2>2
      <3>2. QED
        BY <1>5, <1>14, <2>2, <3>1, BytesOf
    <2>3. CASE v = 0 /\ ~(a < n)
      <3>1. p.format # "string" /\ ~(p.format = "hex" /\ NoLength(call, b, Position(n)))
        BY <1>5, <1>16, <2>3
      <3>2. BytesLeft(call, p, Position(n)) = Arrived(b, Position(n))
        BY <1>5, <3>1, BytesOf
      <3>3. Arrived(b, Position(n)) = << >>
        BY <1>13, <2>3 DEF Arrived
      <3>4. QED
        BY <1>15, <2>3, <3>2, <3>3
    <2>4. QED
      BY <2>1, <2>2, <2>3
  <1>18. d = DotsLeft(p, Position(n))
    <2>1. 32 < v => p.bytes[1] = Position(a + 1)
      BY <1>2, <1>5, <1>12
    <2>2. QED
      BY <1>2, <1>5, <1>7, <1>12, <2>1 DEF PARAMETER_LENGTH, DotsLeft
  <1>19. s = ScreenLeft(call, p, Position(n))
    <2>1. p.title = t /\ p.format = "hex"
      BY <1>5
    <2>2. QED
      BY <1>9, <1>17, <1>18, <2>1, DottedRemainder
  <1>20. ASSUME n = Len(Encode(call)) + 1 PROVE s = p
    <2>1. a + WordsFor(v) < n /\ a < n /\ a + 1 <= n /\ (v # 0 => a + 1 < n)
      <3>1. WordsFor(v) \in Nat /\ (v # 0 => 1 <= WordsFor(v))
        BY <1>2 DEF WordsFor, PARAMETER_LENGTH
      <3>2. QED
        BY <1>2, <1>20, <3>1
    <2>2. z = b
      <3>1. \A j \in DOMAIN b : b[j] < Position(n)
        BY <1>10, <1>12, <2>1
      <3>2. z = [j \in DOMAIN b |-> b[j]]
        BY <1>14, <2>1, <3>1 DEF Arrived
      <3>3. b = [j \in DOMAIN b |-> b[j]]
        BY <1>3 DEF Pieces
      <3>4. QED
        BY <3>2, <3>3
    <2>3. CASE v <= 32
      <3>1. d = FALSE
        BY <1>2, <1>7, <2>3 DEF PARAMETER_LENGTH
      <3>2. QED
        BY <1>4, <1>9, <2>2, <2>3, <3>1
    <2>4. CASE 32 < v
      <3>1. d = TRUE
        BY <1>2, <1>7, <2>1, <2>4 DEF PARAMETER_LENGTH
      <3>2. QED
        BY <1>4, <1>9, <2>2, <2>4, <3>1
    <2>5. QED
      BY <1>2, <2>3, <2>4
  <1>21. QED
    BY <1>1, <1>19, <1>20 DEF Shows

\* m cells of a buffer, from cell `first` on.
Part(c, first, m) == [j \in 1 .. m |-> c[first + j - 1]]

\* They are the ones before the first 0.
Leading(c, first, last, m) ==
    /\ first \in Nat /\ last \in Nat /\ m \in Nat /\ m <= last - first + 1
    /\ \A j \in first .. last : c[j] = 0 <=> first + m <= j

\* "%s" prints these.
LEMMA PrintedCells ==
  ASSUME NEW k, NEW first, NEW last, NEW m, Leading(text[k], first, last, m)
  PROVE  Printed(k, first, last) = Part(text[k], first, m)
  <1> DEFINE nuls == { j \in first .. last : text[k][j] = 0 }
             c == CHOOSE j \in nuls : \A i \in nuls : j <= i
             size == IF nuls = {} THEN last - first + 1 ELSE c - first
  <1>0. /\ first \in Nat /\ last \in Nat /\ m \in Nat /\ m <= last - first + 1
        /\ \A j \in first .. last : text[k][j] = 0 <=> first + m <= j
    BY DEF Leading
  <1>1. size = m
    <2>1. CASE m = last - first + 1
      <3>1. \A j \in first .. last : ~(first + m <= j)
        BY <1>0, <2>1
      <3>2. nuls = {}
        BY <1>0, <3>1
      <3>3. QED
        BY <1>0, <2>1, <3>2
    <2>2. CASE m # last - first + 1
      <3>1. first + m \in first .. last
        BY <1>0, <2>2
      <3>2. first + m \in nuls
        BY <1>0, <3>1
      <3>3. \A i \in nuls : first + m <= i /\ i \in Int
        BY <1>0
      <3> HIDE DEF nuls
      <3>4. c \in nuls /\ \A i \in nuls : c <= i
        BY <1>0, <3>2, <3>3
      <3>5. c = first + m
        BY <1>0, <3>2, <3>3, <3>4
      <3> HIDE DEF c
      <3>6. nuls # {}
        BY <3>2
      <3>7. QED
        BY <1>0, <3>5, <3>6
    <2>3. QED
      BY <2>1, <2>2
  <1>2. Printed(k, first, last) = [j \in 1 .. size |-> text[k][first + j - 1]]
    BY Zenon DEF Printed
  <1> HIDE DEF size
  <1>3. QED
    BY <1>1, <1>2, Zenon DEF Part

\* Of the bytes shown of a field, the first m arrived.
LEMMA PiecesArrived ==
  ASSUME NEW a \in Nat, NEW v \in Nat, NEW n \in Nat
  PROVE  \E m \in 0 .. Least(v, PARAMETER_LENGTH) :
            /\ \A j \in 1 .. Least(v, PARAMETER_LENGTH) :
                  ByteSource(a, v, j - 1) < Position(n) <=> j <= m
            /\ ~(a + 1 < n) => m = 0
            /\ a + 1 < n /\ v <= 32 => m = v
            /\ a + 1 < n /\ 32 < v => m \in 16 .. 32
  <1>1. Position(a + 1) = 4 + 32 * a /\ Position(n) = 4 + 32 * (n - 1)
    BY DEF Position, SELECTOR_SIZE, PARAMETER_LENGTH
  <1>2. \A j \in 1 .. 32 : /\ v <= 32 => ByteSource(a, v, j - 1) = 4 + 32 * a + j - 1
                           /\ j <= 16 => ByteSource(a, v, j - 1) = 4 + 32 * a + j - 1
                           /\ 32 < v /\ 16 < j
                                => ByteSource(a, v, j - 1) = 4 + 32 * a + j - 1 + (v - 32)
    BY <1>1 DEF ByteSource, PARAMETER_LENGTH, HALF_PARAMETER_LENGTH
  <1>3. Least(v, PARAMETER_LENGTH) = IF v <= 32 THEN v ELSE 32
    BY DEF Least, PARAMETER_LENGTH
  <1>4. CASE ~(a + 1 < n)
    <2>1. \A j \in 1 .. Least(v, PARAMETER_LENGTH) :
             ~(ByteSource(a, v, j - 1) < Position(n)) /\ ~(j <= 0)
      <3>1. ASSUME NEW j \in 1 .. 32
            PROVE  ~(ByteSource(a, v, j - 1) < Position(n)) /\ ~(j <= 0)
        <4>1. 4 + 32 * a <= ByteSource(a, v, j - 1) /\ ByteSource(a, v, j - 1) \in Int
          BY <1>2
        <4>2. 4 + 32 * (n - 1) <= 4 + 32 * a
          BY <1>4
        <4>3. QED
          BY <1>1, <4>1, <4>2
      <3>2. QED
        BY <1>3, <3>1
    <2>2. 0 \in 0 .. Least(v, PARAMETER_LENGTH)
      BY <1>3
    <2>3. QED
      BY <1>4, <2>1, <2>2
  <1>5. CASE a + 1 < n /\ v <= 32
    <2>1. \A j \in 1 .. Least(v, PARAMETER_LENGTH) :
             ByteSource(a, v, j - 1) < Position(n) /\ j <= v
      <3>1. ASSUME NEW j \in 1 .. v
            PROVE  ByteSource(a, v, j - 1) < Position(n) /\ j <= v
        <4>1. ByteSource(a, v, j - 1) = 4 + 32 * a + j - 1 /\ j <= 32
          BY <1>2, <1>5
        <4>2. 4 + 32 * a + 31 < 4 + 32 * (n - 1)
          BY <1>5
        <4>3. QED
          BY <1>1, <4>1, <4>2
      <3>2. QED
        BY <1>3, <1>5, <3>1
    <2>2. v \in 0 .. Least(v, PARAMETER_LENGTH)
      BY <1>3, <1>5
    <2>3. QED
      BY <1>5, <2>1, <2>2
  <1>6. CASE a + 1 < n /\ 32 < v
    <2>1. PICK k \in Int : k = 32 * (n - 1) - 32 * a - v + 32
      <3>1. 32 * (n - 1) - 32 * a - v + 32 \in Int
        OBVIOUS
      <3>2. QED
        BY <3>1, Zenon
    <2>2. PICK m \in 16 .. 32 : m = IF k <= 16 THEN 16 ELSE IF 32 <= k THEN 32 ELSE k
      OBVIOUS
    <2>3. ASSUME NEW j \in 1 .. 32
          PROVE  ByteSource(a, v, j - 1) < Position(n) <=> j <= m
      <3>1. CASE j <= 16
        <4>1. ByteSource(a, v, j - 1) = 4 + 32 * a + j - 1
          BY <1>2, <3>1
        <4>2. 4 + 32 * a + 15 < 4 + 32 * (n - 1)
          BY <1>6
        <4>3. QED
          BY <1>1, <2>2, <3>1, <4>1, <4>2
      <3>2. CASE 16 < j
        <4>1. ByteSource(a, v, j - 1) = 4 + 32 * a + j - 1 + (v - 32)
          BY <1>2, <1>6, <3>2
        <4>2. 4 + 32 * a + j - 1 + (v - 32) < 4 + 32 * (n - 1) <=> j <= k
          BY <2>1
        <4>3. j <= k <=> j <= m
          BY <2>2, <3>2
        <4>4. QED
          BY <1>1, <4>1, <4>2, <4>3
      <3>3. QED
        BY <3>1, <3>2
    <2>4. m \in 0 .. Least(v, PARAMETER_LENGTH)
      BY <1>3, <1>6
    <2>5. \A j \in 1 .. Least(v, PARAMETER_LENGTH) :
             ByteSource(a, v, j - 1) < Position(n) <=> j <= m
      BY <1>3, <1>6, <2>3
    <2>6. QED
      BY <1>6, <2>4, <2>5
  <1>7. QED
    BY <1>4, <1>5, <1>6

\* Two parts of a buffer.
LEMMA PartsJoined ==
  ASSUME NEW c, NEW m \in 16 .. 32
  PROVE  Part(c, 0, 16) \o Part(c, 16, m - 16) = Part(c, 0, m)
  <1> DEFINE T == { c[i] : i \in 0 .. 31 }
  <1>a. \A j \in 1 .. m - 16 : 16 + j - 1 \in 0 .. 31
    OBVIOUS
  <1>b. PICK x, y : x = Part(c, 0, 16) /\ y = Part(c, 16, m - 16)
    OBVIOUS
  <1>c. /\ x = [j \in 1 .. 16 |-> c[0 + j - 1]]
        /\ y = [j \in 1 .. m - 16 |-> c[16 + j - 1]]
    BY <1>b DEF Part
  <1>1. \A j \in 1 .. 16 : x[j] = c[j - 1] /\ x[j] \in T
    <2>1. \A j \in 1 .. 16 : 0 + j - 1 = j - 1 /\ j - 1 \in 0 .. 31
      OBVIOUS
    <2>2. QED
      BY <1>c, <2>1
  <1>2. \A j \in 1 .. m - 16 : y[j] = c[16 + j - 1] /\ y[j] \in T
    BY <1>a, <1>c
  <1>3. DOMAIN x = 1 .. 16 /\ DOMAIN y = 1 .. m - 16
    BY <1>c
  <1>4. x = [j \in 1 .. 16 |-> x[j]] /\ y = [j \in 1 .. m - 16 |-> y[j]]
    BY <1>c
  <1> HIDE DEF T
  <1>5. PICK l \in Nat : l = m - 16
    OBVIOUS
  <1>6. x \in Seq(T) /\ Len(x) = 16
    BY <1>1, <1>3, <1>4
  <1>7. y \in Seq(T) /\ Len(y) = l
    <2>1. y = [j \in 1 .. l |-> y[j]] /\ \A j \in 1 .. l : y[j] \in T
      BY <1>2, <1>4, <1>5
    <2>2. QED
      BY <2>1
  <1>8. PICK z : z = x \o y
    OBVIOUS
  <1>9. /\ z \in Seq(T) /\ Len(z) = Len(x) + Len(y)
        /\ \A j \in 1 .. Len(x) + Len(y) : z[j] = IF j <= Len(x) THEN x[j] ELSE y[j - Len(x)]
    <2>1. z \in Seq(T) /\ Glued(z, x, y)
      BY <1>6, <1>7, <1>8, Concatenation, Zenon
    <2>2. QED
      BY <2>1 DEF Glued
  <1>10. Len(x) + Len(y) = m
    BY <1>5, <1>6, <1>7
  <1>11. Len(z) = m /\ \A j \in 1 .. m : z[j] = IF j <= 16 THEN x[j] ELSE y[j - 16]
    BY <1>6, <1>9, <1>10
  <1>12. ASSUME NEW j \in 1 .. m PROVE z[j] = c[j - 1]
    <2>1. CASE j <= 16
      <3>1. j \in 1 .. 16
        BY <2>1
      <3>2. z[j] = x[j]
        BY <1>11, <2>1
      <3>3. QED
        BY <1>1, <3>1, <3>2
    <2>2. CASE ~(j <= 16)
      <3>1. PICK i \in 1 .. m - 16 : i = j - 16
        <4>1. j - 16 \in 1 .. m - 16
          BY <2>2
        <4>2. QED
          BY <4>1, Zenon
      <3>2. z[j] = y[j - 16]
        BY <1>11, <2>2
      <3>3. y[i] = c[16 + i - 1]
        BY <1>2
      <3>4. 16 + i - 1 = j - 1
        BY <3>1
      <3>5. QED
        BY <3>1, <3>2, <3>3, <3>4
    <2>3. QED
      BY <2>1, <2>2
  <1>13. z = [j \in 1 .. m |-> z[j]]
    BY <1>9, <1>11
  <1>14. QED
    <2>1. z = [j \in 1 .. m |-> c[j - 1]]
      BY <1>12, <1>13
    <2>2. \A j \in 1 .. m : 0 + j - 1 = j - 1
      OBVIOUS
    <2>3. Part(c, 0, m) = [j \in 1 .. m |-> c[j - 1]]
      BY <2>2 DEF Part
    <2>4. QED
      BY <1>b, <1>8, <2>1, <2>3, Zenon

\* The cells of a string of v bytes, before word n.
NameCells(c, a, v, n) ==
    \A j \in 0 .. PARAMETER_LENGTH - 1 :
        c[j] = IF ByteSource(a, v, j) < Position(n) /\ j < v THEN ByteSource(a, v, j) ELSE 0

\* What set_name_ui prints.
PrintedName(k) ==
    IF ellipsis[k]
    THEN Printed(k, 0, HALF_PARAMETER_LENGTH - 1) \o
         Printed(k, HALF_PARAMETER_LENGTH, PARAMETER_LENGTH - 1)
    ELSE Printed(k, 0, PARAMETER_LENGTH - 1)

\* Its dots.
NameDots(k, a, v, n) == ellipsis[k] = IF v > PARAMETER_LENGTH /\ a + 1 < n THEN TRUE ELSE FALSE

\* It prints what arrived.
LEMMA NamePrinted ==
  ASSUME NEW a \in Nat, NEW v \in Nat, NEW n \in Nat, NEW k, NameCells(text[k], a, v, n),
         NameDots(k, a, v, n)
  PROVE  PrintedName(k) = Received(Pieces(a, v), Position(n))
  <1>1. PICK c : c = text[k]
    OBVIOUS
  <1>2. PICK m \in 0 .. Least(v, PARAMETER_LENGTH) :
            /\ \A j \in 1 .. Least(v, PARAMETER_LENGTH) :
                  ByteSource(a, v, j - 1) < Position(n) <=> j <= m
            /\ ~(a + 1 < n) => m = 0
            /\ a + 1 < n /\ v <= 32 => m = v
            /\ a + 1 < n /\ 32 < v => m \in 16 .. 32
    BY PiecesArrived
  <1>3. Least(v, PARAMETER_LENGTH) = IF v <= 32 THEN v ELSE 32
    BY DEF Least, PARAMETER_LENGTH
  <1>4. \A j \in 0 .. 31 : ByteSource(a, v, j) \in Int /\ 0 < ByteSource(a, v, j)
    BY DEF ByteSource, Position, SELECTOR_SIZE, PARAMETER_LENGTH, HALF_PARAMETER_LENGTH
  <1>5. \A j \in 0 .. 31 : /\ c[j] = 0 <=> m <= j
                           /\ j < m => c[j] = ByteSource(a, v, j)
    <2>1. ASSUME NEW j \in 0 .. 31
          PROVE  (c[j] = 0 <=> m <= j) /\ (j < m => c[j] = ByteSource(a, v, j))
      <3>1. c[j] = IF ByteSource(a, v, j) < Position(n) /\ j < v THEN ByteSource(a, v, j) ELSE 0
        BY <1>1 DEF NameCells, PARAMETER_LENGTH
      <3>2. PICK i \in 1 .. 32 : i = j + 1
        OBVIOUS
      <3>3. ByteSource(a, v, i - 1) = ByteSource(a, v, j)
        BY <3>2
      <3>4. j < v => i \in 1 .. Least(v, PARAMETER_LENGTH)
        BY <1>3, <3>2
      <3>5. j < v => (ByteSource(a, v, j) < Position(n) <=> i <= m)
        BY <1>2, <3>3, <3>4
      <3>6. m \in Int /\ m <= v
        BY <1>2, <1>3
      <3>7. ByteSource(a, v, j) \in Int /\ 0 < ByteSource(a, v, j)
        BY <1>4
      <3>8. i <= m <=> j < m
        BY <3>2, <3>6
      <3>9. j < m => j < v
        BY <3>6
      <3>10. c[j] = IF j < m THEN ByteSource(a, v, j) ELSE 0
        BY <3>1, <3>5, <3>8, <3>9
      <3>11. QED
        BY <3>6, <3>7, <3>10
    <2>2. QED
      BY <2>1
  <1>6. m \in Nat /\ m <= 32
    BY <1>2, <1>3
  <1>7. Received(Pieces(a, v), Position(n)) = Part(c, 0, m)
    <2>1. DOMAIN Pieces(a, v) = 1 .. Least(v, PARAMETER_LENGTH)
          /\ \A j \in 1 .. Least(v, PARAMETER_LENGTH) : Pieces(a, v)[j] = ByteSource(a, v, j - 1)
      BY DEF Pieces
    <2>2. { x \in 1 .. Least(v, PARAMETER_LENGTH) : Pieces(a, v)[x] < Position(n) } = 1 .. m
      <3>1. \A x : x \in 1 .. m <=> x \in 1 .. Least(v, PARAMETER_LENGTH) /\ x <= m
        BY <1>2, <1>3
      <3>2. \A x \in 1 .. Least(v, PARAMETER_LENGTH) : Pieces(a, v)[x] < Position(n) <=> x <= m
        BY <1>2, <2>1
      <3>3. QED
        BY <3>1, <3>2
    <2>3. \A j \in 1 .. m : Pieces(a, v)[j] = c[j - 1]
      <3>1. ASSUME NEW j \in 1 .. m PROVE Pieces(a, v)[j] = c[j - 1]
        <4>1. j \in 1 .. Least(v, PARAMETER_LENGTH)
          BY <1>2, <1>3
        <4>2. PICK i \in 0 .. 31 : i = j - 1 /\ i < m
          <5>1. j - 1 \in 0 .. 31 /\ j - 1 < m
            BY <1>6
          <5>2. QED
            BY <5>1, Zenon
        <4>3. c[i] = ByteSource(a, v, i)
          BY <1>5, <4>2
        <4>4. QED
          BY <2>1, <4>1, <4>2, <4>3
      <3>2. QED
        BY <3>1
    <2>4. QED
      <3>1. \A j \in 1 .. m : 0 + j - 1 = j - 1
        BY <1>6
      <3>2. QED
        BY <2>1, <2>2, <2>3, <3>1 DEF Received, Part
  <1>8. CASE ~(v > PARAMETER_LENGTH /\ a + 1 < n)
    <2>1. PrintedName(k) = Printed(k, 0, 31)
      <3>1. ellipsis[k] = FALSE
        BY <1>8 DEF NameDots
      <3>2. PARAMETER_LENGTH - 1 = 31
        BY DEF PARAMETER_LENGTH
      <3>3. QED
        BY <3>1, <3>2 DEF PrintedName
    <2>2. Leading(c, 0, 31, m)
      BY <1>5, <1>6 DEF Leading
    <2>3. QED
      BY <1>1, <1>7, <2>1, <2>2, PrintedCells, Zenon
  <1>9. CASE v > PARAMETER_LENGTH /\ a + 1 < n
    <2>1. PrintedName(k) = Printed(k, 0, 15) \o Printed(k, 16, 31)
      <3>1. ellipsis[k] = TRUE
        BY <1>9 DEF NameDots
      <3>2. PARAMETER_LENGTH - 1 = 31 /\ HALF_PARAMETER_LENGTH = 16 /\ HALF_PARAMETER_LENGTH - 1 = 15
        BY DEF PARAMETER_LENGTH, HALF_PARAMETER_LENGTH
      <3>3. QED
        BY <3>1, <3>2, Zenon DEF PrintedName
    <2>2. m \in 16 .. 32
      BY <1>2, <1>9 DEF PARAMETER_LENGTH
    <2>3. Leading(c, 0, 15, 16)
      <3>1. \A j \in 0 .. 15 : (c[j] = 0 <=> m <= j) /\ ~(m <= j) /\ ~(0 + 16 <= j)
        BY <1>5, <2>2
      <3>2. QED
        BY <3>1 DEF Leading
    <2>4. Leading(c, 16, 31, m - 16)
      <3>1. \A j \in 16 .. 31 : (c[j] = 0 <=> m <= j) /\ (m <= j <=> 16 + (m - 16) <= j)
        BY <1>5, <2>2
      <3>2. QED
        BY <2>2, <3>1 DEF Leading
    <2>5. QED
      <3>1. Printed(k, 0, 15) = Part(c, 0, 16)
        BY <1>1, <2>3, PrintedCells
      <3>2. Printed(k, 16, 31) = Part(c, 16, m - 16)
        BY <1>1, <2>4, PrintedCells
      <3>3. QED
        BY <1>7, <2>1, <2>2, <3>1, <3>2, PartsJoined, Zenon
  <1>10. QED
    BY <1>8, <1>9

\* A string.
LEMMA NameShown ==
  ASSUME call \in Transactions, Supported(call), WordNumber \in Nat \ {0},
         NEW f, f.byLength, NEW a, NEW v, Behind(a, v), DataKept(f, a, v),
         NEW t, NEW p, p = Abbreviated(Position(a + 1), v, t, "string"),
         NEW s, s = set_name_ui(f.slot, t)
  PROVE  Shows(s, p)
  <1>1. PICK n \in Nat : n = WordNumber
    OBVIOUS
  <1>2. /\ a \in Nat /\ v \in Nat
        /\ a + WordsFor(v) <= Len(Encode(call)) /\ Len(Encode(call)) \in Nat
    BY CallWords DEF Behind
  <1>3. PICK b : b = Pieces(a, v)
    OBVIOUS
  <1>4. /\ v <= 32 => p = [title |-> t, format |-> "string", bytes |-> b, dots |-> FALSE]
        /\ 32 < v => p = [title |-> t, format |-> "string", bytes |-> b, dots |-> TRUE]
    BY <1>2, <1>3, AbbreviatedPieces
  <1>5. p.title = t /\ p.format = "string" /\ p.bytes = b /\ (p.dots <=> 32 < v)
    BY <1>2, <1>4
  <1>6. PICK k, d : k = f.slot /\ d = ellipsis[k]
    OBVIOUS
  <1>7. /\ d = IF v > PARAMETER_LENGTH /\ a + 1 < n THEN TRUE ELSE FALSE
        /\ NameCells(text[k], a, v, n)
    BY <1>1, <1>6 DEF DataKept, NameCells
  <1>8. PICK z : z = PrintedName(k)
    OBVIOUS
  <1>9. s = [title |-> t, format |-> "string", bytes |-> z, dots |-> d]
    BY <1>6, <1>8, Zenon DEF set_name_ui, Screen, PrintedName
  <1>10. z = Received(b, Position(n))
    <2>1. NameDots(k, a, v, n)
      BY <1>6, <1>7 DEF NameDots
    <2>2. QED
      <3>1. a \in Nat /\ v \in Nat /\ n \in Nat /\ NameCells(text[k], a, v, n)
        BY <1>2, <1>7
      <3>2. PrintedName(k) = Received(Pieces(a, v), Position(n))
        BY <2>1, <3>1, NamePrinted
      <3>3. QED
        BY <1>3, <1>8, <3>2, Zenon
  <1>11. /\ DOMAIN b = 1 .. Least(v, PARAMETER_LENGTH)
         /\ \A j \in 1 .. Least(v, PARAMETER_LENGTH) : b[j] = ByteSource(a, v, j - 1)
    BY <1>3 DEF Pieces
  <1>12. /\ v # 0 => b[1] = Position(a + 1) /\ b # << >>
         /\ Position(a + 1) < Position(n) <=> a + 1 < n
         /\ a + WordsFor(v) < n =>
               \A j \in 1 .. Least(v, PARAMETER_LENGTH) : ByteSource(a, v, j - 1) < Position(n)
    BY <1>2, <1>3, PiecePlaces
  <1>13. z = BytesLeft(call, p, Position(n))
    BY <1>5, <1>10, BytesOf
  <1>14. d = DotsLeft(p, Position(n))
    <2>1. 32 < v => p.bytes[1] = Position(a + 1)
      BY <1>2, <1>5, <1>12
    <2>2. QED
      BY <1>2, <1>5, <1>7, <1>12, <2>1 DEF PARAMETER_LENGTH, DotsLeft
  <1>15. s = ScreenLeft(call, p, Position(n))
    <2>1. p.title = t /\ p.format = "string"
      BY <1>5
    <2>2. QED
      BY <1>9, <1>13, <1>14, <2>1, DottedRemainder
  <1>16. ASSUME n = Len(Encode(call)) + 1 PROVE s = p
    <2>1. a + WordsFor(v) < n /\ (v # 0 => a + 1 < n)
      <3>1. WordsFor(v) \in Nat /\ (v # 0 => 1 <= WordsFor(v))
        BY <1>2 DEF WordsFor, PARAMETER_LENGTH
      <3>2. QED
        BY <1>2, <1>16, <3>1
    <2>2. z = b
      <3>1. \A j \in DOMAIN b : b[j] < Position(n)
        BY <1>11, <1>12, <2>1
      <3>2. { x \in DOMAIN b : b[x] < Position(n) } = DOMAIN b
        BY <3>1
      <3>3. z = [j \in DOMAIN b |-> b[j]]
        BY <1>10, <3>2 DEF Received
      <3>4. b = [j \in DOMAIN b |-> b[j]]
        BY <1>3 DEF Pieces
      <3>5. QED
        BY <3>3, <3>4
    <2>3. CASE v <= 32
      <3>1. d = FALSE
        BY <1>2, <1>7, <2>3 DEF PARAMETER_LENGTH
      <3>2. QED
        BY <1>4, <1>9, <2>2, <2>3, <3>1
    <2>4. CASE 32 < v
      <3>1. d = TRUE
        BY <1>2, <1>7, <2>1, <2>4 DEF PARAMETER_LENGTH
      <3>2. QED
        BY <1>4, <1>9, <2>2, <2>4, <3>1
    <2>5. QED
      BY <1>2, <2>3, <2>4
  <1>17. QED
    BY <1>1, <1>15, <1>16 DEF Shows

(***************************************************************************)
(* The screens of a transaction, after the last word that arrived.         *)
(***************************************************************************)

\* The words that arrived have been read.
Complete ==
    /\ call \in Transactions /\ Supported(call) /\ call.large = 0
    /\ WordNumber = Len(Sent(call)) + 1
    /\ Times

LEMMA EndPlace ==
  ASSUME Complete
  PROVE  /\ WordNumber \in Nat \ {0}
         /\ EndOf(call) = Position(WordNumber)
         /\ call.cut = 0 => WordNumber = Len(Encode(call)) + 1
  <1>1. call \in Transactions /\ Supported(call) /\ call.large = 0 /\ WordNumber = Len(Sent(call)) + 1
    BY DEF Complete
  <1>2. PICK n \in Nat : n = Len(Sent(call))
    BY <1>1, SentWords
  <1>3. EndOf(call) = Position(n + 1)
    BY <1>2 DEF EndOf, SizeOf, Position, SELECTOR_SIZE, PARAMETER_LENGTH
  <1>4. ASSUME call.cut = 0 PROVE Len(Sent(call)) = Len(Encode(call))
    <2>1. PICK words : words = Encode(call)
      OBVIOUS
    <2>2. words \in Seq(Word) /\ Len(words) \in Nat
      BY <1>1, <2>1, CallWords
    <2>3. Sent(call) = SubSeq(words, 1, Len(words))
      <3>1. Len(words) - call.cut = Len(words)
        BY <1>4, <2>2
      <3>2. QED
        BY <1>1, <2>1, <3>1 DEF Sent
    <2>4. QED
      BY <2>1, <2>2, <2>3
  <1>5. QED
    BY <1>1, <1>2, <1>3, <1>4

\* Screens S are what is left of promises D.
Remains(S, D) ==
    S = IF call.cut = 0 THEN D ELSE [i \in DOMAIN D |-> ScreenLeft(call, D[i], EndOf(call))]

\* Screen by screen.
LEMMA ShownLeft ==
  ASSUME Complete, NEW s, NEW p, Shows(s, p)
  PROVE  s = IF call.cut = 0 THEN p ELSE ScreenLeft(call, p, EndOf(call))
  BY EndPlace DEF Shows

LEMMA OneRemains ==
  ASSUME Complete, NEW a, NEW p, Shows(a, p)
  PROVE  Remains(<< a >>, << p >>)
  <1>1. PICK z : z = EndOf(call)
    OBVIOUS
  <1>2. a = IF call.cut = 0 THEN p ELSE ScreenLeft(call, p, z)
    BY <1>1, ShownLeft
  <1>3. [i \in DOMAIN << p >> |-> ScreenLeft(call, << p >>[i], z)] = << ScreenLeft(call, p, z) >>
    OBVIOUS
  <1>4. QED
    BY <1>1, <1>2, <1>3 DEF Remains

LEMMA TwoRemain ==
  ASSUME Complete, NEW a, NEW b, NEW p, NEW q, Shows(a, p), Shows(b, q)
  PROVE  Remains(<< a, b >>, << p, q >>)
  <1>1. PICK z : z = EndOf(call)
    OBVIOUS
  <1>2. /\ a = IF call.cut = 0 THEN p ELSE ScreenLeft(call, p, z)
        /\ b = IF call.cut = 0 THEN q ELSE ScreenLeft(call, q, z)
    BY <1>1, ShownLeft
  <1>3. [i \in DOMAIN << p, q >> |-> ScreenLeft(call, << p, q >>[i], z)]
          = << ScreenLeft(call, p, z), ScreenLeft(call, q, z) >>
    OBVIOUS
  <1>4. QED
    BY <1>1, <1>2, <1>3 DEF Remains

LEMMA ThreeRemain ==
  ASSUME Complete, NEW a, NEW b, NEW c, NEW p, NEW q, NEW r, Shows(a, p), Shows(b, q), Shows(c, r)
  PROVE  Remains(<< a, b, c >>, << p, q, r >>)
  <1>1. PICK z : z = EndOf(call)
    OBVIOUS
  <1>2. /\ a = IF call.cut = 0 THEN p ELSE ScreenLeft(call, p, z)
        /\ b = IF call.cut = 0 THEN q ELSE ScreenLeft(call, q, z)
        /\ c = IF call.cut = 0 THEN r ELSE ScreenLeft(call, r, z)
    BY <1>1, ShownLeft
  <1>3. [i \in DOMAIN << p, q, r >> |-> ScreenLeft(call, << p, q, r >>[i], z)]
          = << ScreenLeft(call, p, z), ScreenLeft(call, q, z), ScreenLeft(call, r, z) >>
    OBVIOUS
  <1>4. QED
    BY <1>1, <1>2, <1>3 DEF Remains

LEMMA FourRemain ==
  ASSUME Complete, NEW a, NEW b, NEW c, NEW d, NEW p, NEW q, NEW r, NEW s,
         Shows(a, p), Shows(b, q), Shows(c, r), Shows(d, s)
  PROVE  Remains(<< a, b, c, d >>, << p, q, r, s >>)
  <1>1. PICK z : z = EndOf(call)
    OBVIOUS
  <1>2. /\ a = IF call.cut = 0 THEN p ELSE ScreenLeft(call, p, z)
        /\ b = IF call.cut = 0 THEN q ELSE ScreenLeft(call, q, z)
        /\ c = IF call.cut = 0 THEN r ELSE ScreenLeft(call, r, z)
        /\ d = IF call.cut = 0 THEN s ELSE ScreenLeft(call, s, z)
    BY <1>1, ShownLeft
  <1>3. [i \in DOMAIN << p, q, r, s >> |-> ScreenLeft(call, << p, q, r, s >>[i], z)]
          = << ScreenLeft(call, p, z), ScreenLeft(call, q, z), ScreenLeft(call, r, z),
               ScreenLeft(call, s, z) >>
    OBVIOUS
  <1>4. QED
    BY <1>1, <1>2, <1>3 DEF Remains

LEMMA FiveRemain ==
  ASSUME Complete, NEW a, NEW b, NEW c, NEW d, NEW e, NEW p, NEW q, NEW r, NEW s, NEW t,
         Shows(a, p), Shows(b, q), Shows(c, r), Shows(d, s), Shows(e, t)
  PROVE  Remains(<< a, b, c, d, e >>, << p, q, r, s, t >>)
  <1>1. PICK z : z = EndOf(call)
    OBVIOUS
  <1>2. /\ a = IF call.cut = 0 THEN p ELSE ScreenLeft(call, p, z)
        /\ b = IF call.cut = 0 THEN q ELSE ScreenLeft(call, q, z)
        /\ c = IF call.cut = 0 THEN r ELSE ScreenLeft(call, r, z)
        /\ d = IF call.cut = 0 THEN s ELSE ScreenLeft(call, s, z)
        /\ e = IF call.cut = 0 THEN t ELSE ScreenLeft(call, t, z)
    BY <1>1, ShownLeft
  <1>3. [i \in DOMAIN << p, q, r, s, t >> |-> ScreenLeft(call, << p, q, r, s, t >>[i], z)]
          = << ScreenLeft(call, p, z), ScreenLeft(call, q, z), ScreenLeft(call, r, z),
               ScreenLeft(call, s, z), ScreenLeft(call, t, z) >>
    OBVIOUS
  <1>4. QED
    BY <1>1, <1>2, <1>3 DEF Remains

\* Where no array is, the display is complete.
LEMMA NothingSkipped ==
  ASSUME \A i \in DOMAIN Signature(call.selector) : Signature(call.selector)[i] # "array",
         NEW S, Remains(S, Display(call))
  PROVE  S = DisplayLeft(call)
  <1>1. ElementsKnown(call, EndOf(call))
    BY DEF ElementsKnown
  <1>2. QED
    BY <1>1 DEF Remains, DisplayLeft

(***************************************************************************)
(* Screen by screen.                                                       *)
(***************************************************************************)

\* The tails are behind the head.
LEMMA HeadInCall ==
  ASSUME NEW c \in Transactions, Supported(c)
  PROVE  LET h == Len(Signature(c.selector))
         IN /\ h \in 1 .. 6 /\ Len(Encode(c)) \in Nat /\ h <= Len(Encode(c))
            /\ \A i \in 1 .. h : h <= TailWord(c, i)
  <1>1. PICK h : h = Len(Signature(c.selector))
    OBVIOUS
  <1>2. /\ h \in 1 .. 6 /\ Len(Encode(c)) \in Nat /\ TailWord(c, 1) = h
        /\ \A i \in 1 .. h : /\ TailWord(c, i) \in Nat
                             /\ TailWord(c, i + 1) = TailWord(c, i) + Len(TailOf(c, i))
                             /\ Len(TailOf(c, i)) \in Nat
    BY <1>1, CallWords
  <1>3. Len(Encode(c)) = TailWord(c, h + 1)
    BY <1>1, EncodeShape
  <1>4. \A i \in 1 .. h : h <= TailWord(c, i) => h <= TailWord(c, i + 1)
    <2>1. \A m, x, y \in Nat : m <= x => m <= x + y
      OBVIOUS
    <2>2. h \in Nat
      BY <1>2
    <2>3. QED
      BY <1>2, <2>1, <2>2
  <1>5. h <= TailWord(c, 1)
    BY <1>2
  <1>6. 1 <= h => h <= TailWord(c, 2)
    BY <1>2, <1>4, <1>5
  <1>7. 2 <= h => h <= TailWord(c, 3)
    BY <1>2, <1>4, <1>6
  <1>8. 3 <= h => h <= TailWord(c, 4)
    BY <1>2, <1>4, <1>7
  <1>9. 4 <= h => h <= TailWord(c, 5)
    BY <1>2, <1>4, <1>8
  <1>10. 5 <= h => h <= TailWord(c, 6)
    BY <1>2, <1>4, <1>9
  <1>11. 6 <= h => h <= TailWord(c, 7)
    BY <1>2, <1>4, <1>10
  <1>12. h \in {1, 2, 3, 4, 5, 6}
    BY <1>2
  <1>13. h <= TailWord(c, h + 1)
    BY <1>6, <1>7, <1>8, <1>9, <1>10, <1>11, <1>12
  <1>14. \A i \in 1 .. h : h <= TailWord(c, i)
    <2>1. ASSUME NEW i \in 1 .. h PROVE h <= TailWord(c, i)
      <3>1. /\ i \in {1, 2, 3, 4, 5, 6} /\ i <= h
            /\ i = 2 => 1 <= h
        BY <1>2
      <3>2. CASE i = 1
        BY <1>5, <3>2
      <3>3. CASE i = 2
        BY <1>6, <3>1, <3>3
      <3>4. CASE i = 3
        <4>1. 2 <= h
          BY <1>2, <3>4
        <4>2. QED
          BY <1>7, <3>4, <4>1
      <3>5. CASE i = 4
        <4>1. 3 <= h
          BY <1>2, <3>5
        <4>2. QED
          BY <1>8, <3>5, <4>1
      <3>6. CASE i = 5
        <4>1. 4 <= h
          BY <1>2, <3>6
        <4>2. QED
          BY <1>9, <3>6, <4>1
      <3>7. CASE i = 6
        <4>1. 5 <= h
          BY <1>2, <3>7
        <4>2. QED
          BY <1>10, <3>7, <4>1
      <3>8. QED
        BY <3>1, <3>2, <3>3, <3>4, <3>5, <3>6, <3>7
    <2>2. QED
      BY <2>1
  <1>15. QED
    BY <1>1, <1>2, <1>3, <1>13, <1>14

\* Parameters of fixed size, of the head.
LEMMA HeadShown ==
  ASSUME Complete, NEW f, NEW i \in 1 .. Len(Signature(call.selector)), NEW t
  PROVE  /\ WordKept(f, i, 0) => Shows(set_bytes32_ui(f, t), Bytes32(i, t))
         /\ WordKept(f, i, 12) => Shows(set_addr_ui(f, t), Address(i, t))
         /\ WordKept(f, i, 0) => Shows(set_bytes32_as_int_ui(f, t), Integer(i, t))
         /\ WordKept(f, i, 0) /\ f \in {"duration", "ttl"}
              => Shows(set_bytes32_as_int_unit_ui(f, t), Seconds(i, t))
  <1>1. call \in Transactions /\ Supported(call) /\ WordNumber \in Nat \ {0} /\ Times
    BY EndPlace DEF Complete
  <1>2. i \in Nat \ {0} /\ i <= Len(Encode(call)) /\ i <= Len(Signature(call.selector))
    <2>1. PICK h, l : h = Len(Signature(call.selector)) /\ l = Len(Encode(call))
      OBVIOUS
    <2>2. h \in 1 .. 6 /\ l \in Nat /\ h <= l
      BY <1>1, <2>1, HeadInCall
    <2>3. i \in 1 .. h
      BY <2>1
    <2>4. QED
      BY <2>1, <2>2, <2>3
  <1>3. LastBytes(0, 32) /\ LastBytes(12, 20)
    BY DEF LastBytes
  <1>4. /\ Interval(HeadAt(i), 32) = Interval(Position(i) + 0, 32)
        /\ Interval(HeadAt(i) + 12, 20) = Interval(Position(i) + 12, 20)
    <2>1. HeadAt(i) = Position(i) /\ Position(i) + 0 = Position(i)
      BY DEF HeadAt, Position, SELECTOR_SIZE, PARAMETER_LENGTH
    <2>2. QED
      BY <2>1
  <1>5. ASSUME NEW format \in {"hex", "address", "integer", "seconds"}, NEW first, NEW k,
               LastBytes(first, k), WordKept(f, i, first),
               NEW p, Plain(p, t, format, Interval(Position(i) + first, k)),
               NEW s, Plain(s, t, format, Span(f, k))
        PROVE  Shows(s, p)
    BY <1>1, <1>2, <1>5, StaticShown
  <1>6. ASSUME WordKept(f, i, 0) PROVE Shows(set_bytes32_ui(f, t), Bytes32(i, t))
    <2>1. Plain(set_bytes32_ui(f, t), t, "hex", Span(f, 32))
      BY DEF set_bytes32_ui, Screen, Plain, PARAMETER_LENGTH
    <2>2. Plain(Bytes32(i, t), t, "hex", Interval(Position(i) + 0, 32))
      BY <1>4 DEF Bytes32, Promise, Plain
    <2>3. QED
      BY <1>3, <1>5, <1>6, <2>1, <2>2
  <1>7. ASSUME WordKept(f, i, 12) PROVE Shows(set_addr_ui(f, t), Address(i, t))
    <2>1. Plain(set_addr_ui(f, t), t, "address", Span(f, 20))
      BY DEF set_addr_ui, Screen, Plain
    <2>2. Plain(Address(i, t), t, "address", Interval(Position(i) + 12, 20))
      BY <1>4 DEF Address, Promise, Plain
    <2>3. QED
      BY <1>3, <1>5, <1>7, <2>1, <2>2
  <1>8. ASSUME WordKept(f, i, 0) PROVE Shows(set_bytes32_as_int_ui(f, t), Integer(i, t))
    <2>1. Plain(set_bytes32_as_int_ui(f, t), t, "integer", Span(f, 32))
      BY DEF set_bytes32_as_int_ui, Screen, Plain, PARAMETER_LENGTH
    <2>2. Plain(Integer(i, t), t, "integer", Interval(Position(i) + 0, 32))
      BY <1>4 DEF Integer, Promise, Plain
    <2>3. QED
      BY <1>3, <1>5, <1>8, <2>1, <2>2
  <1>9. ASSUME WordKept(f, i, 0), f \in {"duration", "ttl"}
        PROVE  Shows(set_bytes32_as_int_unit_ui(f, t), Seconds(i, t))
    <2>1. UnitFormat(statics[f].digits) = "seconds"
      <3>1. \A d \in 1 .. 76 : UnitFormat(d) = "seconds"
        <4>1. \A d \in 1 .. 76 : ~(d + 2 > 79) /\ ~(d + 2 = 79)
          OBVIOUS
        <4>2. QED
          BY <4>1, Zenon DEF UnitFormat, MSG_LENGTH
      <3>2. statics[f].digits \in 1 .. 76
        BY <1>1, <1>9 DEF Times
      <3>3. QED
        BY <3>1, <3>2
    <2>2. Plain(set_bytes32_as_int_unit_ui(f, t), t, "seconds", Span(f, 32))
      BY <2>1 DEF set_bytes32_as_int_unit_ui, Screen, Plain, PARAMETER_LENGTH
    <2>3. Plain(Seconds(i, t), t, "seconds", Interval(Position(i) + 0, 32))
      BY <1>4 DEF Seconds, Promise, Plain
    <2>4. QED
      BY <1>3, <1>5, <1>9, <2>2, <2>3
  <1>10. QED
    BY <1>6, <1>7, <1>8, <1>9

\* Where the number a dynamic parameter starts with is.
LEMMA NumberPlace ==
  ASSUME Complete, NEW i \in 1 .. Len(Signature(call.selector)),
         Signature(call.selector)[i] # "word"
  PROVE  /\ NumberWord(i) \in Nat \ {0} /\ Len(Signature(call.selector)) < NumberWord(i)
         /\ NumberWord(i) <= Len(Encode(call))
         /\ SELECTOR_SIZE + TailAt(call, i) = Position(NumberWord(i))
         /\ SELECTOR_SIZE + TailAt(call, i) + 32 = Position(NumberWord(i) + 1)
  <1>1. call \in Transactions /\ Supported(call)
    BY DEF Complete
  <1>2. PICK h, l : h = Len(Signature(call.selector)) /\ l = Len(Encode(call))
    OBVIOUS
  <1>3. PICK a, b : a = TailWord(call, i) /\ b = Len(TailOf(call, i))
    OBVIOUS
  <1>4. h \in 1 .. 6 /\ l \in Nat /\ a \in Nat /\ b \in Nat /\ 1 <= b /\ a + b <= l
    BY <1>1, <1>2, <1>3, CallWords
  <1>5. TailAt(call, i) = 32 * a
    BY <1>1, <1>2, <1>3, TailWords DEF PARAMETER_LENGTH
  <1>6. h <= a
    BY <1>1, <1>2, <1>3, HeadInCall
  <1>7. NumberWord(i) = a + 1
    BY <1>3 DEF NumberWord
  <1>8. 4 + 32 * a = Position(a + 1) /\ 4 + 32 * a + 32 = Position(a + 1 + 1)
    BY <1>4 DEF Position, SELECTOR_SIZE, PARAMETER_LENGTH
  <1>9. a + 1 \in Nat \ {0} /\ h < a + 1 /\ a + 1 <= l
    BY <1>4, <1>6
  <1>10. QED
    BY <1>2, <1>5, <1>7, <1>8, <1>9 DEF SELECTOR_SIZE

\* Strings and byte arrays.
LEMMA DynamicShown ==
  ASSUME Complete, NEW i \in 1 .. Len(Signature(call.selector)),
         Signature(call.selector)[i] = "data",
         NEW v, v = call.lens[DataIndex(call, i)],
         NEW f, DataKept(f, NumberWord(i), v), NEW k, k = f.slot, NEW t
  PROVE  /\ f.byLength => Shows(set_name_ui(k, t), Dynamic(call, i, t, "string"))
         /\ Shows(set_bytes_ui(k, t), Dynamic(call, i, t, "hex"))
  <1>1. call \in Transactions /\ Supported(call) /\ WordNumber \in Nat \ {0}
    BY EndPlace DEF Complete
  <1>2. PICK a : a = NumberWord(i)
    OBVIOUS
  <1>3. /\ a \in Nat /\ Len(Signature(call.selector)) < a
        /\ SELECTOR_SIZE + TailAt(call, i) + 32 = Position(a + 1)
    BY <1>2, NumberPlace
  <1>4. v \in Nat /\ a + WordsFor(v) <= Len(Encode(call))
    <2>1. PICK x : x = TailWord(call, i)
      OBVIOUS
    <2>2. /\ v \in Nat /\ WordsFor(v) \in Nat /\ TailWord(call, i + 1) = x + 1 + WordsFor(v)
          /\ TailWord(call, i + 1) <= Len(Encode(call))
      BY <1>1, <2>1, DataWords
    <2>3. a = x + 1
      BY <1>2, <2>1 DEF NumberWord
    <2>4. QED
      BY <2>2, <2>3
  <1>5. Behind(a, v)
    BY <1>3, <1>4 DEF Behind
  <1>6. \A format : Dynamic(call, i, t, format) = Abbreviated(Position(a + 1), v, t, format)
    BY <1>3 DEF Dynamic
  <1>7. DataKept(f, a, v)
    BY <1>2
  <1>8. ASSUME f.byLength PROVE Shows(set_name_ui(k, t), Dynamic(call, i, t, "string"))
    BY <1>1, <1>5, <1>6, <1>7, <1>8, NameShown
  <1>9. Shows(set_bytes_ui(k, t), Dynamic(call, i, t, "hex"))
    BY <1>1, <1>5, <1>6, <1>7, HexShown
  <1>10. QED
    BY <1>8, <1>9

\* The number of inputs.
LEMMA InputsShown ==
  ASSUME Complete, 2 \in 1 .. Len(Signature(call.selector)), Signature(call.selector)[2] = "tuples",
         NEW f, WordKept(f, NumberWord(2), 0), NEW t
  PROVE  Shows(set_bytes32_as_int_ui(f, t), Inputs(call, 2, t))
  <1>1. call \in Transactions /\ Supported(call) /\ WordNumber \in Nat \ {0}
    BY EndPlace DEF Complete
  <1>2. PICK a : a = NumberWord(2)
    OBVIOUS
  <1>3. /\ a \in Nat \ {0} /\ a <= Len(Encode(call))
        /\ SELECTOR_SIZE + TailAt(call, 2) = Position(a)
    BY <1>2, NumberPlace
  <1>4. LastBytes(0, 32)
    BY DEF LastBytes
  <1>5. Plain(set_bytes32_as_int_ui(f, t), t, "integer", Span(f, 32))
    BY DEF set_bytes32_as_int_ui, Screen, Plain, PARAMETER_LENGTH
  <1>6. Plain(Inputs(call, 2, t), t, "integer", Interval(Position(a) + 0, 32))
    <2>1. Position(a) + 0 = Position(a)
      BY <1>3 DEF Position, SELECTOR_SIZE, PARAMETER_LENGTH
    <2>2. QED
      BY <1>3, <2>1 DEF Inputs, Promise, Plain
  <1>7. WordKept(f, a, 0)
    BY <1>2
  <1>8. QED
    BY <1>1, <1>3, <1>4, <1>5, <1>6, <1>7, StaticShown

(***************************************************************************)
(* Selector by selector.                                                   *)
(***************************************************************************)

\* Where the strings and byte arrays are.
LEMMA FirstNumber ==
  ASSUME Complete, NEW h, h = Len(Signature(call.selector))
  PROVE  NumberWord(1) = h + 1
  <1>1. call \in Transactions /\ Supported(call)
    BY DEF Complete
  <1>2. TailWord(call, 1) = h
    BY <1>1, CallWords
  <1>3. QED
    BY <1>2 DEF NumberWord

LEMMA NumberAfterWord ==
  ASSUME Complete, NEW i \in 1 .. Len(Signature(call.selector)),
         Signature(call.selector)[i] = "word", NEW j, j = i + 1
  PROVE  NumberWord(j) = NumberWord(i)
  <1>1. call \in Transactions /\ Supported(call)
    BY DEF Complete
  <1>2. TailWord(call, i) \in Nat /\ TailWord(call, j) = TailWord(call, i) + 0
    BY <1>1, CallWords
  <1>3. QED
    BY <1>2 DEF NumberWord

LEMMA NumberAfterData ==
  ASSUME Complete, NEW i \in 1 .. Len(Signature(call.selector)),
         Signature(call.selector)[i] = "data", NEW j, j = i + 1,
         NEW v, v = call.lens[DataIndex(call, i)]
  PROVE  NumberWord(j) = NumberWord(i) + WordsFor(v) + 1
  <1>1. call \in Transactions /\ Supported(call)
    BY DEF Complete
  <1>2. TailWord(call, i) \in Nat
    BY <1>1, CallWords
  <1>3. PICK n : n = WordsFor(v)
    OBVIOUS
  <1>4. n \in Nat /\ TailWord(call, j) = TailWord(call, i) + 1 + n
    BY <1>1, <1>3, DataWords
  <1>5. QED
    BY <1>2, <1>3, <1>4 DEF NumberWord

\* The screens show what README.md says of the calldata that arrived.
Showing == ScreensOf = DisplayLeft(call) /\ FinalizeScreens = Len(ScreensOf)

LEMMA CommitShowing ==
  ASSUME Complete, call.selector = "f14fcbc8", selectorIndex = "COMMIT", Parses
  PROVE  Showing
  <1>1. ParsesCommit
    BY DEF Parses
  <1>2. PICK kinds : kinds = Signature(call.selector)
    OBVIOUS
  <1>3. kinds = << "word" >>
    BY <1>2, Signatures
  <1>4. /\ Len(kinds) = 1 /\ DOMAIN kinds = 1 .. 1
        /\ kinds[1] = "word"
    BY <1>3
  <1>5. \A i \in DOMAIN kinds : kinds[i] # "array"
    BY <1>3
  <1>6. PICK a :
            /\ a = set_bytes32_ui("commitment", "Commitment")
    OBVIOUS
  <1>7. PICK p :
            /\ p = Bytes32(1, "Commitment")
    OBVIOUS
  <1>8. ScreensOf = << a >>
    BY <1>6 DEF ScreensOf, CommitScreens
  <1>9. Display(call) = << p >>
    BY <1>7 DEF Display
  <1>10. Shows(a, p)
    <2>1. 1 \in 1 .. Len(Signature(call.selector))
      BY <1>2, <1>4
    <2>2. WordKept("commitment", 1, 0)
      BY <1>1 DEF ParsesCommit
    <2>3. QED
      BY <1>6, <1>7, <2>1, <2>2, HeadShown
  <1>11. Remains(<< a >>, << p >>)
    BY <1>10, OneRemains
  <1>12. ScreensOf = DisplayLeft(call)
    BY <1>2, <1>5, <1>8, <1>9, <1>11, NothingSkipped
  <1>13. Len(ScreensOf) = 1
    BY <1>8
  <1>14. FinalizeScreens = 1
    BY DEF FinalizeScreens
  <1>15. QED
    BY <1>12, <1>13, <1>14 DEF Showing

LEMMA RegisterShowing ==
  ASSUME Complete, call.selector = "85f6d155", selectorIndex = "REGISTER", Parses
  PROVE  Showing
  <1>1. ParsesRegister
    BY DEF Parses
  <1>2. PICK kinds : kinds = Signature(call.selector)
    OBVIOUS
  <1>3. kinds = << "data", "word", "word", "word" >>
    BY <1>2, Signatures
  <1>4. /\ Len(kinds) = 4 /\ DOMAIN kinds = 1 .. 4
        /\ kinds[1] = "data" /\ kinds[2] = "word" /\ kinds[3] = "word" /\ kinds[4] = "word"
    BY <1>3
  <1>5. \A i \in DOMAIN kinds : kinds[i] # "array"
    BY <1>3
  <1>6. PICK a, b, c, d :
            /\ a = set_name_ui(Name, "Name")
            /\ b = set_addr_ui("owner", "Owner")
            /\ c = set_bytes32_as_int_unit_ui("duration", "Duration")
            /\ d = set_bytes32_ui("secret", "Secret")
    OBVIOUS
  <1>7. PICK p, q, r, s :
            /\ p = Dynamic(call, 1, "Name", "string")
            /\ q = Address(2, "Owner")
            /\ r = Seconds(3, "Duration")
            /\ s = Bytes32(4, "Secret")
    OBVIOUS
  <1>8. ScreensOf = << a, b, c, d >>
    BY <1>6 DEF ScreensOf, RegisterScreens
  <1>9. Display(call) = << p, q, r, s >>
    BY <1>7 DEF Display
  <1>10. Shows(a, p)
    <2>1. 1 \in 1 .. Len(Signature(call.selector)) /\ Signature(call.selector)[1] = "data"
      BY <1>2, <1>4
    <2>2. call.lens[1] = call.lens[DataIndex(call, 1)]
      BY DataIndexes
    <2>3. NumberWord(1) = 5
      <3>1. NumberWord(1) = 4 + 1
        BY <1>2, <1>4, FirstNumber
      <3>2. QED
        BY <3>1
    <2>4. DataKept(NameField, NumberWord(1), call.lens[DataIndex(call, 1)])
      <3>1. DataKept(NameField, 5, call.lens[1])
        BY <1>1 DEF ParsesRegister
      <3>2. QED
        BY <2>2, <2>3, <3>1
    <2>5. Name = NameField.slot /\ NameField.byLength
      BY FieldsType DEF Name
    <2>6. QED
      BY <1>6, <1>7, <2>1, <2>4, <2>5, DynamicShown
  <1>11. Shows(b, q)
    <2>1. 2 \in 1 .. Len(Signature(call.selector))
      BY <1>2, <1>4
    <2>2. WordKept("owner", 2, 12)
      BY <1>1 DEF ParsesRegister
    <2>3. QED
      BY <1>6, <1>7, <2>1, <2>2, HeadShown
  <1>12. Shows(c, r)
    <2>1. 3 \in 1 .. Len(Signature(call.selector))
      BY <1>2, <1>4
    <2>2. WordKept("duration", 3, 0)
      BY <1>1 DEF ParsesRegister
    <2>3. QED
      BY <1>6, <1>7, <2>1, <2>2, HeadShown
  <1>13. Shows(d, s)
    <2>1. 4 \in 1 .. Len(Signature(call.selector))
      BY <1>2, <1>4
    <2>2. WordKept("secret", 4, 0)
      BY <1>1 DEF ParsesRegister
    <2>3. QED
      BY <1>6, <1>7, <2>1, <2>2, HeadShown
  <1>14. Remains(<< a, b, c, d >>, << p, q, r, s >>)
    BY <1>10, <1>11, <1>12, <1>13, FourRemain
  <1>15. ScreensOf = DisplayLeft(call)
    BY <1>2, <1>5, <1>8, <1>9, <1>14, NothingSkipped
  <1>16. Len(ScreensOf) = 4
    BY <1>8
  <1>17. FinalizeScreens = 4
    BY DEF FinalizeScreens
  <1>18. QED
    BY <1>15, <1>16, <1>17 DEF Showing

LEMMA RegisterWithConfigShowing ==
  ASSUME Complete, call.selector = "f7a16963", selectorIndex = "REGISTER_WITH_CONFIG", Parses
  PROVE  Showing
  <1>1. ParsesRegisterWithConfig
    BY DEF Parses
  <1>2. PICK kinds : kinds = Signature(call.selector)
    OBVIOUS
  <1>3. kinds = << "data", "word", "word", "word", "word", "word" >>
    BY <1>2, Signatures
  <1>4. /\ Len(kinds) = 6 /\ DOMAIN kinds = 1 .. 6
        /\ kinds[1] = "data" /\ kinds[2] = "word" /\ kinds[3] = "word" /\ kinds[4] = "word"
        /\ kinds[5] = "word" /\ kinds[6] = "word"
    BY <1>3
  <1>5. \A i \in DOMAIN kinds : kinds[i] # "array"
    BY <1>3
  <1>6. PICK a, b, c, d, e :
            /\ a = set_name_ui(Name, "Name")
            /\ b = set_addr_ui("owner", "Owner")
            /\ c = set_bytes32_ui("secret", "Secret")
            /\ d = set_addr_ui("resolver", "Resolver")
            /\ e = set_addr_ui("addr", "Addr")
    OBVIOUS
  <1>7. PICK p, q, r, s, t :
            /\ p = Dynamic(call, 1, "Name", "string")
            /\ q = Address(2, "Owner")
            /\ r = Bytes32(4, "Secret")
            /\ s = Address(5, "Resolver")
            /\ t = Address(6, "Addr")
    OBVIOUS
  <1>8. ScreensOf = << a, b, c, d, e >>
    BY <1>6 DEF ScreensOf, RegisterWithConfigScreens
  <1>9. Display(call) = << p, q, r, s, t >>
    BY <1>7 DEF Display
  <1>10. Shows(a, p)
    <2>1. 1 \in 1 .. Len(Signature(call.selector)) /\ Signature(call.selector)[1] = "data"
      BY <1>2, <1>4
    <2>2. call.lens[1] = call.lens[DataIndex(call, 1)]
      BY DataIndexes
    <2>3. NumberWord(1) = 7
      <3>1. NumberWord(1) = 6 + 1
        BY <1>2, <1>4, FirstNumber
      <3>2. QED
        BY <3>1
    <2>4. DataKept(NameField, NumberWord(1), call.lens[DataIndex(call, 1)])
      <3>1. DataKept(NameField, 7, call.lens[1])
        BY <1>1 DEF ParsesRegisterWithConfig
      <3>2. QED
        BY <2>2, <2>3, <3>1
    <2>5. Name = NameField.slot /\ NameField.byLength
      BY FieldsType DEF Name
    <2>6. QED
      BY <1>6, <1>7, <2>1, <2>4, <2>5, DynamicShown
  <1>11. Shows(b, q)
    <2>1. 2 \in 1 .. Len(Signature(call.selector))
      BY <1>2, <1>4
    <2>2. WordKept("owner", 2, 12)
      BY <1>1 DEF ParsesRegisterWithConfig
    <2>3. QED
      BY <1>6, <1>7, <2>1, <2>2, HeadShown
  <1>12. Shows(c, r)
    <2>1. 4 \in 1 .. Len(Signature(call.selector))
      BY <1>2, <1>4
    <2>2. WordKept("secret", 4, 0)
      BY <1>1 DEF ParsesRegisterWithConfig
    <2>3. QED
      BY <1>6, <1>7, <2>1, <2>2, HeadShown
  <1>13. Shows(d, s)
    <2>1. 5 \in 1 .. Len(Signature(call.selector))
      BY <1>2, <1>4
    <2>2. WordKept("resolver", 5, 12)
      BY <1>1 DEF ParsesRegisterWithConfig
    <2>3. QED
      BY <1>6, <1>7, <2>1, <2>2, HeadShown
  <1>14. Shows(e, t)
    <2>1. 6 \in 1 .. Len(Signature(call.selector))
      BY <1>2, <1>4
    <2>2. WordKept("addr", 6, 12)
      BY <1>1 DEF ParsesRegisterWithConfig
    <2>3. QED
      BY <1>6, <1>7, <2>1, <2>2, HeadShown
  <1>15. Remains(<< a, b, c, d, e >>, << p, q, r, s, t >>)
    BY <1>10, <1>11, <1>12, <1>13, <1>14, FiveRemain
  <1>16. ScreensOf = DisplayLeft(call)
    BY <1>2, <1>5, <1>8, <1>9, <1>15, NothingSkipped
  <1>17. Len(ScreensOf) = 5
    BY <1>8
  <1>18. FinalizeScreens = 5
    BY DEF FinalizeScreens
  <1>19. QED
    BY <1>16, <1>17, <1>18 DEF Showing

LEMMA RenewShowing ==
  ASSUME Complete, call.selector = "acf1a841", selectorIndex = "RENEW", Parses
  PROVE  Showing
  <1>1. ParsesRenew
    BY DEF Parses
  <1>2. PICK kinds : kinds = Signature(call.selector)
    OBVIOUS
  <1>3. kinds = << "data", "word" >>
    BY <1>2, Signatures
  <1>4. /\ Len(kinds) = 2 /\ DOMAIN kinds = 1 .. 2
        /\ kinds[1] = "data" /\ kinds[2] = "word"
    BY <1>3
  <1>5. \A i \in DOMAIN kinds : kinds[i] # "array"
    BY <1>3
  <1>6. PICK a, b :
            /\ a = set_name_ui(Name, "Name")
            /\ b = set_bytes32_as_int_unit_ui("duration", "Duration")
    OBVIOUS
  <1>7. PICK p, q :
            /\ p = Dynamic(call, 1, "Name", "string")
            /\ q = Seconds(2, "Duration")
    OBVIOUS
  <1>8. ScreensOf = << a, b >>
    BY <1>6 DEF ScreensOf, RenewScreens
  <1>9. Display(call) = << p, q >>
    BY <1>7 DEF Display
  <1>10. Shows(a, p)
    <2>1. 1 \in 1 .. Len(Signature(call.selector)) /\ Signature(call.selector)[1] = "data"
      BY <1>2, <1>4
    <2>2. call.lens[1] = call.lens[DataIndex(call, 1)]
      BY DataIndexes
    <2>3. NumberWord(1) = 3
      <3>1. NumberWord(1) = 2 + 1
        BY <1>2, <1>4, FirstNumber
      <3>2. QED
        BY <3>1
    <2>4. DataKept(NameField, NumberWord(1), call.lens[DataIndex(call, 1)])
      <3>1. DataKept(NameField, 3, call.lens[1])
        BY <1>1 DEF ParsesRenew
      <3>2. QED
        BY <2>2, <2>3, <3>1
    <2>5. Name = NameField.slot /\ NameField.byLength
      BY FieldsType DEF Name
    <2>6. QED
      BY <1>6, <1>7, <2>1, <2>4, <2>5, DynamicShown
  <1>11. Shows(b, q)
    <2>1. 2 \in 1 .. Len(Signature(call.selector))
      BY <1>2, <1>4
    <2>2. WordKept("duration", 2, 0)
      BY <1>1 DEF ParsesRenew
    <2>3. QED
      BY <1>6, <1>7, <2>1, <2>2, HeadShown
  <1>12. Remains(<< a, b >>, << p, q >>)
    BY <1>10, <1>11, TwoRemain
  <1>13. ScreensOf = DisplayLeft(call)
    BY <1>2, <1>5, <1>8, <1>9, <1>12, NothingSkipped
  <1>14. Len(ScreensOf) = 2
    BY <1>8
  <1>15. FinalizeScreens = 2
    BY DEF FinalizeScreens
  <1>16. QED
    BY <1>13, <1>14, <1>15 DEF Showing

LEMMA SetNameShowing ==
  ASSUME Complete, call.selector = "c47f0027", selectorIndex = "SET_NAME", Parses
  PROVE  Showing
  <1>1. ParsesSetName
    BY DEF Parses
  <1>2. PICK kinds : kinds = Signature(call.selector)
    OBVIOUS
  <1>3. kinds = << "data" >>
    BY <1>2, Signatures
  <1>4. /\ Len(kinds) = 1 /\ DOMAIN kinds = 1 .. 1
        /\ kinds[1] = "data"
    BY <1>3
  <1>5. \A i \in DOMAIN kinds : kinds[i] # "array"
    BY <1>3
  <1>6. PICK a :
            /\ a = set_name_ui(Name, "Name")
    OBVIOUS
  <1>7. PICK p :
            /\ p = Dynamic(call, 1, "Name", "string")
    OBVIOUS
  <1>8. ScreensOf = << a >>
    BY <1>6 DEF ScreensOf, SetNameScreens
  <1>9. Display(call) = << p >>
    BY <1>7 DEF Display
  <1>10. Shows(a, p)
    <2>1. 1 \in 1 .. Len(Signature(call.selector)) /\ Signature(call.selector)[1] = "data"
      BY <1>2, <1>4
    <2>2. call.lens[1] = call.lens[DataIndex(call, 1)]
      BY DataIndexes
    <2>3. NumberWord(1) = 2
      <3>1. NumberWord(1) = 1 + 1
        BY <1>2, <1>4, FirstNumber
      <3>2. QED
        BY <3>1
    <2>4. DataKept(NameField, NumberWord(1), call.lens[DataIndex(call, 1)])
      <3>1. DataKept(NameField, 2, call.lens[1])
        BY <1>1 DEF ParsesSetName
      <3>2. QED
        BY <2>2, <2>3, <3>1
    <2>5. Name = NameField.slot /\ NameField.byLength
      BY FieldsType DEF Name
    <2>6. QED
      BY <1>6, <1>7, <2>1, <2>4, <2>5, DynamicShown
  <1>11. Remains(<< a >>, << p >>)
    BY <1>10, OneRemains
  <1>12. ScreensOf = DisplayLeft(call)
    BY <1>2, <1>5, <1>8, <1>9, <1>11, NothingSkipped
  <1>13. Len(ScreensOf) = 1
    BY <1>8
  <1>14. FinalizeScreens = 1
    BY DEF FinalizeScreens
  <1>15. QED
    BY <1>12, <1>13, <1>14 DEF Showing

LEMMA SetOwnerShowing ==
  ASSUME Complete, call.selector = "5b0fc9c3", selectorIndex = "SET_OWNER", Parses
  PROVE  Showing
  <1>1. ParsesSetOwner
    BY DEF Parses
  <1>2. PICK kinds : kinds = Signature(call.selector)
    OBVIOUS
  <1>3. kinds = << "word", "word" >>
    BY <1>2, Signatures
  <1>4. /\ Len(kinds) = 2 /\ DOMAIN kinds = 1 .. 2
        /\ kinds[1] = "word" /\ kinds[2] = "word"
    BY <1>3
  <1>5. \A i \in DOMAIN kinds : kinds[i] # "array"
    BY <1>3
  <1>6. PICK a, b :
            /\ a = set_bytes32_ui("node", "Node")
            /\ b = set_addr_ui("owner", "Owner")
    OBVIOUS
  <1>7. PICK p, q :
            /\ p = Bytes32(1, "Node")
            /\ q = Address(2, "Owner")
    OBVIOUS
  <1>8. ScreensOf = << a, b >>
    BY <1>6 DEF ScreensOf, SetOwnerScreens
  <1>9. Display(call) = << p, q >>
    BY <1>7 DEF Display
  <1>10. Shows(a, p)
    <2>1. 1 \in 1 .. Len(Signature(call.selector))
      BY <1>2, <1>4
    <2>2. WordKept("node", 1, 0)
      BY <1>1 DEF ParsesSetOwner
    <2>3. QED
      BY <1>6, <1>7, <2>1, <2>2, HeadShown
  <1>11. Shows(b, q)
    <2>1. 2 \in 1 .. Len(Signature(call.selector))
      BY <1>2, <1>4
    <2>2. WordKept("owner", 2, 12)
      BY <1>1 DEF ParsesSetOwner
    <2>3. QED
      BY <1>6, <1>7, <2>1, <2>2, HeadShown
  <1>12. Remains(<< a, b >>, << p, q >>)
    BY <1>10, <1>11, TwoRemain
  <1>13. ScreensOf = DisplayLeft(call)
    BY <1>2, <1>5, <1>8, <1>9, <1>12, NothingSkipped
  <1>14. Len(ScreensOf) = 2
    BY <1>8
  <1>15. FinalizeScreens = 2
    BY DEF FinalizeScreens
  <1>16. QED
    BY <1>13, <1>14, <1>15 DEF Showing

LEMMA SetResolverShowing ==
  ASSUME Complete, call.selector = "1896f70a", selectorIndex = "SET_RESOLVER", Parses
  PROVE  Showing
  <1>1. ParsesSetResolver
    BY DEF Parses
  <1>2. PICK kinds : kinds = Signature(call.selector)
    OBVIOUS
  <1>3. kinds = << "word", "word" >>
    BY <1>2, Signatures
  <1>4. /\ Len(kinds) = 2 /\ DOMAIN kinds = 1 .. 2
        /\ kinds[1] = "word" /\ kinds[2] = "word"
    BY <1>3
  <1>5. \A i \in DOMAIN kinds : kinds[i] # "array"
    BY <1>3
  <1>6. PICK a, b :
            /\ a = set_bytes32_ui("node", "Node")
            /\ b = set_addr_ui("resolver", "Resolver")
    OBVIOUS
  <1>7. PICK p, q :
            /\ p = Bytes32(1, "Node")
            /\ q = Address(2, "Resolver")
    OBVIOUS
  <1>8. ScreensOf = << a, b >>
    BY <1>6 DEF ScreensOf, SetResolverScreens
  <1>9. Display(call) = << p, q >>
    BY <1>7 DEF Display
  <1>10. Shows(a, p)
    <2>1. 1 \in 1 .. Len(Signature(call.selector))
      BY <1>2, <1>4
    <2>2. WordKept("node", 1, 0)
      BY <1>1 DEF ParsesSetResolver
    <2>3. QED
      BY <1>6, <1>7, <2>1, <2>2, HeadShown
  <1>11. Shows(b, q)
    <2>1. 2 \in 1 .. Len(Signature(call.selector))
      BY <1>2, <1>4
    <2>2. WordKept("resolver", 2, 12)
      BY <1>1 DEF ParsesSetResolver
    <2>3. QED
      BY <1>6, <1>7, <2>1, <2>2, HeadShown
  <1>12. Remains(<< a, b >>, << p, q >>)
    BY <1>10, <1>11, TwoRemain
  <1>13. ScreensOf = DisplayLeft(call)
    BY <1>2, <1>5, <1>8, <1>9, <1>12, NothingSkipped
  <1>14. Len(ScreensOf) = 2
    BY <1>8
  <1>15. FinalizeScreens = 2
    BY DEF FinalizeScreens
  <1>16. QED
    BY <1>13, <1>14, <1>15 DEF Showing

LEMMA SetSubnodeShowing ==
  ASSUME Complete, call.selector = "5ef2c7f0", selectorIndex = "SET_SUBNODE", Parses
  PROVE  Showing
  <1>1. ParsesSetSubnode
    BY DEF Parses
  <1>2. PICK kinds : kinds = Signature(call.selector)
    OBVIOUS
  <1>3. kinds = << "word", "word", "word", "word", "word" >>
    BY <1>2, Signatures
  <1>4. /\ Len(kinds) = 5 /\ DOMAIN kinds = 1 .. 5
        /\ kinds[1] = "word" /\ kinds[2] = "word" /\ kinds[3] = "word" /\ kinds[4] = "word"
        /\ kinds[5] = "word"
    BY <1>3
  <1>5. \A i \in DOMAIN kinds : kinds[i] # "array"
    BY <1>3
  <1>6. PICK a, b, c, d, e :
            /\ a = set_bytes32_ui("node", "Node")
            /\ b = set_bytes32_ui("label", "Label")
            /\ c = set_addr_ui("owner", "Owner")
            /\ d = set_addr_ui("resolver", "Resolver")
            /\ e = set_bytes32_as_int_unit_ui("ttl", "TTL")
    OBVIOUS
  <1>7. PICK p, q, r, s, t :
            /\ p = Bytes32(1, "Node")
            /\ q = Bytes32(2, "Label")
            /\ r = Address(3, "Owner")
            /\ s = Address(4, "Resolver")
            /\ t = Seconds(5, "TTL")
    OBVIOUS
  <1>8. ScreensOf = << a, b, c, d, e >>
    BY <1>6 DEF ScreensOf, SetSubnodeScreens
  <1>9. Display(call) = << p, q, r, s, t >>
    BY <1>7 DEF Display
  <1>10. Shows(a, p)
    <2>1. 1 \in 1 .. Len(Signature(call.selector))
      BY <1>2, <1>4
    <2>2. WordKept("node", 1, 0)
      BY <1>1 DEF ParsesSetSubnode
    <2>3. QED
      BY <1>6, <1>7, <2>1, <2>2, HeadShown
  <1>11. Shows(b, q)
    <2>1. 2 \in 1 .. Len(Signature(call.selector))
      BY <1>2, <1>4
    <2>2. WordKept("label", 2, 0)
      BY <1>1 DEF ParsesSetSubnode
    <2>3. QED
      BY <1>6, <1>7, <2>1, <2>2, HeadShown
  <1>12. Shows(c, r)
    <2>1. 3 \in 1 .. Len(Signature(call.selector))
      BY <1>2, <1>4
    <2>2. WordKept("owner", 3, 12)
      BY <1>1 DEF ParsesSetSubnode
    <2>3. QED
      BY <1>6, <1>7, <2>1, <2>2, HeadShown
  <1>13. Shows(d, s)
    <2>1. 4 \in 1 .. Len(Signature(call.selector))
      BY <1>2, <1>4
    <2>2. WordKept("resolver", 4, 12)
      BY <1>1 DEF ParsesSetSubnode
    <2>3. QED
      BY <1>6, <1>7, <2>1, <2>2, HeadShown
  <1>14. Shows(e, t)
    <2>1. 5 \in 1 .. Len(Signature(call.selector))
      BY <1>2, <1>4
    <2>2. WordKept("ttl", 5, 0)
      BY <1>1 DEF ParsesSetSubnode
    <2>3. QED
      BY <1>6, <1>7, <2>1, <2>2, HeadShown
  <1>15. Remains(<< a, b, c, d, e >>, << p, q, r, s, t >>)
    BY <1>10, <1>11, <1>12, <1>13, <1>14, FiveRemain
  <1>16. ScreensOf = DisplayLeft(call)
    BY <1>2, <1>5, <1>8, <1>9, <1>15, NothingSkipped
  <1>17. Len(ScreensOf) = 5
    BY <1>8
  <1>18. FinalizeScreens = 5
    BY DEF FinalizeScreens
  <1>19. QED
    BY <1>16, <1>17, <1>18 DEF Showing

LEMMA SetAddrShowing ==
  ASSUME Complete, call.selector = "8b95dd71", selectorIndex = "SET_ADDR", Parses
  PROVE  Showing
  <1>1. ParsesSetAddr
    BY DEF Parses
  <1>2. PICK kinds : kinds = Signature(call.selector)
    OBVIOUS
  <1>3. kinds = << "word", "word", "data" >>
    BY <1>2, Signatures
  <1>4. /\ Len(kinds) = 3 /\ DOMAIN kinds = 1 .. 3
        /\ kinds[1] = "word" /\ kinds[2] = "word" /\ kinds[3] = "data"
    BY <1>3
  <1>5. \A i \in DOMAIN kinds : kinds[i] # "array"
    BY <1>3
  <1>6. PICK a, b, c :
            /\ a = set_bytes32_ui("node", "Node")
            /\ b = set_bytes32_as_int_ui("coinType", "Coin Type")
            /\ c = set_bytes_ui(Hash, "a")
    OBVIOUS
  <1>7. PICK p, q, r :
            /\ p = Bytes32(1, "Node")
            /\ q = Integer(2, "Coin Type")
            /\ r = Dynamic(call, 3, "a", "hex")
    OBVIOUS
  <1>8. ScreensOf = << a, b, c >>
    BY <1>6 DEF ScreensOf, SetAddrScreens
  <1>9. Display(call) = << p, q, r >>
    BY <1>7 DEF Display
  <1>10. Shows(a, p)
    <2>1. 1 \in 1 .. Len(Signature(call.selector))
      BY <1>2, <1>4
    <2>2. WordKept("node", 1, 0)
      BY <1>1 DEF ParsesSetAddr
    <2>3. QED
      BY <1>6, <1>7, <2>1, <2>2, HeadShown
  <1>11. Shows(b, q)
    <2>1. 2 \in 1 .. Len(Signature(call.selector))
      BY <1>2, <1>4
    <2>2. WordKept("coinType", 2, 0)
      BY <1>1 DEF ParsesSetAddr
    <2>3. QED
      BY <1>6, <1>7, <2>1, <2>2, HeadShown
  <1>12. Shows(c, r)
    <2>1. 3 \in 1 .. Len(Signature(call.selector)) /\ Signature(call.selector)[3] = "data"
      BY <1>2, <1>4
    <2>2. call.lens[1] = call.lens[DataIndex(call, 3)]
      BY DataIndexes
    <2>3. NumberWord(3) = 4
      <3>1. NumberWord(1) = 3 + 1
        BY <1>2, <1>4, FirstNumber
      <3>2. 1 \in 1 .. Len(Signature(call.selector)) /\ Signature(call.selector)[1] = "word" /\ 2 = 1 + 1
        BY <1>2, <1>4
      <3>3. NumberWord(2) = NumberWord(1)
        BY <3>2, NumberAfterWord
      <3>4. 2 \in 1 .. Len(Signature(call.selector)) /\ Signature(call.selector)[2] = "word" /\ 3 = 2 + 1
        BY <1>2, <1>4
      <3>5. NumberWord(3) = NumberWord(2)
        BY <3>4, NumberAfterWord
      <3>6. QED
        BY <3>1, <3>2, <3>3, <3>4, <3>5
    <2>4. DataKept(HashField, NumberWord(3), call.lens[DataIndex(call, 3)])
      <3>1. DataKept(HashField, 4, call.lens[1])
        BY <1>1 DEF ParsesSetAddr
      <3>2. QED
        BY <2>2, <2>3, <3>1
    <2>5. Hash = HashField.slot
      BY FieldsType DEF Hash
    <2>6. QED
      BY <1>6, <1>7, <2>1, <2>4, <2>5, DynamicShown
  <1>13. Remains(<< a, b, c >>, << p, q, r >>)
    BY <1>10, <1>11, <1>12, ThreeRemain
  <1>14. ScreensOf = DisplayLeft(call)
    BY <1>2, <1>5, <1>8, <1>9, <1>13, NothingSkipped
  <1>15. Len(ScreensOf) = 3
    BY <1>8
  <1>16. FinalizeScreens = 3
    BY DEF FinalizeScreens
  <1>17. QED
    BY <1>14, <1>15, <1>16 DEF Showing

LEMMA SetContentHashShowing ==
  ASSUME Complete, call.selector = "304e6ade", selectorIndex = "SET_CONTENT_HASH", Parses
  PROVE  Showing
  <1>1. ParsesSetContentHash
    BY DEF Parses
  <1>2. PICK kinds : kinds = Signature(call.selector)
    OBVIOUS
  <1>3. kinds = << "word", "data" >>
    BY <1>2, Signatures
  <1>4. /\ Len(kinds) = 2 /\ DOMAIN kinds = 1 .. 2
        /\ kinds[1] = "word" /\ kinds[2] = "data"
    BY <1>3
  <1>5. \A i \in DOMAIN kinds : kinds[i] # "array"
    BY <1>3
  <1>6. PICK a, b :
            /\ a = set_bytes32_ui("node", "Node")
            /\ b = set_bytes_ui(Hash, "Hash")
    OBVIOUS
  <1>7. PICK p, q :
            /\ p = Bytes32(1, "Node")
            /\ q = Dynamic(call, 2, "Hash", "hex")
    OBVIOUS
  <1>8. ScreensOf = << a, b >>
    BY <1>6 DEF ScreensOf, SetContentHashScreens
  <1>9. Display(call) = << p, q >>
    BY <1>7 DEF Display
  <1>10. Shows(a, p)
    <2>1. 1 \in 1 .. Len(Signature(call.selector))
      BY <1>2, <1>4
    <2>2. WordKept("node", 1, 0)
      BY <1>1 DEF ParsesSetContentHash
    <2>3. QED
      BY <1>6, <1>7, <2>1, <2>2, HeadShown
  <1>11. Shows(b, q)
    <2>1. 2 \in 1 .. Len(Signature(call.selector)) /\ Signature(call.selector)[2] = "data"
      BY <1>2, <1>4
    <2>2. call.lens[1] = call.lens[DataIndex(call, 2)]
      BY DataIndexes
    <2>3. NumberWord(2) = 3
      <3>1. NumberWord(1) = 2 + 1
        BY <1>2, <1>4, FirstNumber
      <3>2. 1 \in 1 .. Len(Signature(call.selector)) /\ Signature(call.selector)[1] = "word" /\ 2 = 1 + 1
        BY <1>2, <1>4
      <3>3. NumberWord(2) = NumberWord(1)
        BY <3>2, NumberAfterWord
      <3>4. QED
        BY <3>1, <3>2, <3>3
    <2>4. DataKept(HashField, NumberWord(2), call.lens[DataIndex(call, 2)])
      <3>1. DataKept(HashField, 3, call.lens[1])
        BY <1>1 DEF ParsesSetContentHash
      <3>2. QED
        BY <2>2, <2>3, <3>1
    <2>5. Hash = HashField.slot
      BY FieldsType DEF Hash
    <2>6. QED
      BY <1>6, <1>7, <2>1, <2>4, <2>5, DynamicShown
  <1>12. Remains(<< a, b >>, << p, q >>)
    BY <1>10, <1>11, TwoRemain
  <1>13. ScreensOf = DisplayLeft(call)
    BY <1>2, <1>5, <1>8, <1>9, <1>12, NothingSkipped
  <1>14. Len(ScreensOf) = 2
    BY <1>8
  <1>15. FinalizeScreens = 2
    BY DEF FinalizeScreens
  <1>16. QED
    BY <1>13, <1>14, <1>15 DEF Showing

LEMMA SetTextShowing ==
  ASSUME Complete, call.selector = "10f13a8c", selectorIndex = "SET_TEXT", Parses
  PROVE  Showing
  <1>1. ParsesSetText
    BY DEF Parses
  <1>2. PICK kinds : kinds = Signature(call.selector)
    OBVIOUS
  <1>3. kinds = << "word", "data", "data" >>
    BY <1>2, Signatures
  <1>4. /\ Len(kinds) = 3 /\ DOMAIN kinds = 1 .. 3
        /\ kinds[1] = "word" /\ kinds[2] = "data" /\ kinds[3] = "data"
    BY <1>3
  <1>5. \A i \in DOMAIN kinds : kinds[i] # "array"
    BY <1>3
  <1>6. PICK a, b, c :
            /\ a = set_bytes32_ui("node", "Node")
            /\ b = set_name_ui(Key, "Key")
            /\ c = set_name_ui(Value, "Value")
    OBVIOUS
  <1>7. PICK p, q, r :
            /\ p = Bytes32(1, "Node")
            /\ q = Dynamic(call, 2, "Key", "string")
            /\ r = Dynamic(call, 3, "Value", "string")
    OBVIOUS
  <1>8. ScreensOf = << a, b, c >>
    BY <1>6 DEF ScreensOf, SetTextScreens
  <1>9. Display(call) = << p, q, r >>
    BY <1>7 DEF Display
  <1>10. Shows(a, p)
    <2>1. 1 \in 1 .. Len(Signature(call.selector))
      BY <1>2, <1>4
    <2>2. WordKept("node", 1, 0)
      BY <1>1 DEF ParsesSetText
    <2>3. QED
      BY <1>6, <1>7, <2>1, <2>2, HeadShown
  <1>11. Shows(b, q)
    <2>1. 2 \in 1 .. Len(Signature(call.selector)) /\ Signature(call.selector)[2] = "data"
      BY <1>2, <1>4
    <2>2. call.lens[1] = call.lens[DataIndex(call, 2)]
      BY DataIndexes
    <2>3. NumberWord(2) = 4
      <3>1. NumberWord(1) = 3 + 1
        BY <1>2, <1>4, FirstNumber
      <3>2. 1 \in 1 .. Len(Signature(call.selector)) /\ Signature(call.selector)[1] = "word" /\ 2 = 1 + 1
        BY <1>2, <1>4
      <3>3. NumberWord(2) = NumberWord(1)
        BY <3>2, NumberAfterWord
      <3>4. QED
        BY <3>1, <3>2, <3>3
    <2>4. DataKept(KeyField, NumberWord(2), call.lens[DataIndex(call, 2)])
      <3>1. DataKept(KeyField, 4, call.lens[1])
        BY <1>1 DEF ParsesSetText
      <3>2. QED
        BY <2>2, <2>3, <3>1
    <2>5. Key = KeyField.slot /\ KeyField.byLength
      BY FieldsType DEF Key
    <2>6. QED
      BY <1>6, <1>7, <2>1, <2>4, <2>5, DynamicShown
  <1>12. Shows(c, r)
    <2>1. 3 \in 1 .. Len(Signature(call.selector)) /\ Signature(call.selector)[3] = "data"
      BY <1>2, <1>4
    <2>2. call.lens[2] = call.lens[DataIndex(call, 3)]
      BY DataIndexes
    <2>3. NumberWord(3) = 4 + WordsFor(call.lens[1]) + 1
      <3>1. NumberWord(1) = 3 + 1
        BY <1>2, <1>4, FirstNumber
      <3>2. 1 \in 1 .. Len(Signature(call.selector)) /\ Signature(call.selector)[1] = "word" /\ 2 = 1 + 1
        BY <1>2, <1>4
      <3>3. NumberWord(2) = NumberWord(1)
        BY <3>2, NumberAfterWord
      <3>4. 2 \in 1 .. Len(Signature(call.selector)) /\ Signature(call.selector)[2] = "data" /\ 3 = 2 + 1
        BY <1>2, <1>4
      <3>5. NumberWord(3) = NumberWord(2) + WordsFor(call.lens[1]) + 1
        <4>1. call.lens[1] = call.lens[DataIndex(call, 2)]
          BY DataIndexes
        <4>2. QED
          BY <3>4, <4>1, NumberAfterData
      <3>6. QED
        BY <3>1, <3>2, <3>3, <3>4, <3>5
    <2>4. DataKept(ValueField, NumberWord(3), call.lens[DataIndex(call, 3)])
      <3>1. DataKept(ValueField, 4 + WordsFor(call.lens[1]) + 1, call.lens[2])
        BY <1>1 DEF ParsesSetText
      <3>2. QED
        BY <2>2, <2>3, <3>1
    <2>5. Value = ValueField.slot /\ ValueField.byLength
      BY FieldsType DEF Value
    <2>6. QED
      BY <1>6, <1>7, <2>1, <2>4, <2>5, DynamicShown
  <1>13. Remains(<< a, b, c >>, << p, q, r >>)
    BY <1>10, <1>11, <1>12, ThreeRemain
  <1>14. ScreensOf = DisplayLeft(call)
    BY <1>2, <1>5, <1>8, <1>9, <1>13, NothingSkipped
  <1>15. Len(ScreensOf) = 3
    BY <1>8
  <1>16. FinalizeScreens = 3
    BY DEF FinalizeScreens
  <1>17. QED
    BY <1>14, <1>15, <1>16 DEF Showing

LEMMA ProveClaimShowing ==
  ASSUME Complete, call.selector = "8bbedf75", selectorIndex = "PROVE_AND_CLAIM", Parses
  PROVE  Showing
  <1>1. ParsesProveClaim
    BY DEF Parses
  <1>2. PICK kinds : kinds = Signature(call.selector)
    OBVIOUS
  <1>3. kinds = << "data", "tuples", "data" >>
    BY <1>2, Signatures
  <1>4. /\ Len(kinds) = 3 /\ DOMAIN kinds = 1 .. 3
        /\ kinds[1] = "data" /\ kinds[2] = "tuples" /\ kinds[3] = "data"
    BY <1>3
  <1>5. \A i \in DOMAIN kinds : kinds[i] # "array"
    BY <1>3
  <1>6. PICK a, b, c :
            /\ a = set_bytes_ui(Name, "Name")
            /\ b = set_bytes32_as_int_ui("n_inputs", "Total Inputs")
            /\ c = set_bytes_ui(Proof, "Proof")
    OBVIOUS
  <1>7. PICK p, q, r :
            /\ p = Dynamic(call, 1, "Name", "hex")
            /\ q = Inputs(call, 2, "Total Inputs")
            /\ r = Dynamic(call, 3, "Proof", "hex")
    OBVIOUS
  <1>8. ScreensOf = << a, b, c >>
    BY <1>6 DEF ScreensOf, ClaimScreens
  <1>9. Display(call) = << p, q, r >>
    BY <1>7 DEF Display
  <1>10. Shows(a, p)
    <2>1. 1 \in 1 .. Len(Signature(call.selector)) /\ Signature(call.selector)[1] = "data"
      BY <1>2, <1>4
    <2>2. call.lens[1] = call.lens[DataIndex(call, 1)]
      BY DataIndexes
    <2>3. NumberWord(1) = 3 + 1
      <3>1. NumberWord(1) = 3 + 1
        BY <1>2, <1>4, FirstNumber
      <3>2. QED
        BY <3>1
    <2>4. DataKept(NameField, NumberWord(1), call.lens[DataIndex(call, 1)])
      <3>1. DataKept(NameField, 3 + 1, call.lens[1])
        BY <1>1 DEF ParsesProveClaim, ParsesClaimKept
      <3>2. QED
        BY <2>2, <2>3, <3>1
    <2>5. Name = NameField.slot
      BY FieldsType DEF Name
    <2>6. QED
      BY <1>6, <1>7, <2>1, <2>4, <2>5, DynamicShown
  <1>11. Shows(b, q)
    <2>1. 2 \in 1 .. Len(Signature(call.selector)) /\ Signature(call.selector)[2] = "tuples"
      BY <1>2, <1>4
    <2>2. WordKept("n_inputs", NumberWord(2), 0)
      BY <1>1 DEF ParsesProveClaim, ParsesClaimKept
    <2>3. QED
      BY <1>6, <1>7, <2>1, <2>2, InputsShown
  <1>12. Shows(c, r)
    <2>1. 3 \in 1 .. Len(Signature(call.selector)) /\ Signature(call.selector)[3] = "data"
      BY <1>2, <1>4
    <2>2. call.lens[2] = call.lens[DataIndex(call, 3)]
      BY DataIndexes
    <2>4. DataKept(ProofField, NumberWord(3), call.lens[DataIndex(call, 3)])
      <3>1. DataKept(ProofField, NumberWord(3), call.lens[2])
        BY <1>1 DEF ParsesProveClaim, ParsesClaimKept
      <3>2. QED
        BY <2>2, <3>1
    <2>5. Proof = ProofField.slot
      BY FieldsType DEF Proof
    <2>6. QED
      BY <1>6, <1>7, <2>1, <2>4, <2>5, DynamicShown
  <1>13. Remains(<< a, b, c >>, << p, q, r >>)
    BY <1>10, <1>11, <1>12, ThreeRemain
  <1>14. ScreensOf = DisplayLeft(call)
    BY <1>2, <1>5, <1>8, <1>9, <1>13, NothingSkipped
  <1>15. Len(ScreensOf) = 3
    BY <1>8
  <1>16. FinalizeScreens = 3
    BY DEF FinalizeScreens
  <1>17. QED
    BY <1>14, <1>15, <1>16 DEF Showing

LEMMA ProveClaimResolverShowing ==
  ASSUME Complete, call.selector = "224199c2", selectorIndex = "PROVE_AND_CLAIM_RESOLVER", Parses
  PROVE  Showing
  <1>1. ParsesProveClaimResolver
    BY DEF Parses
  <1>2. PICK kinds : kinds = Signature(call.selector)
    OBVIOUS
  <1>3. kinds = << "data", "tuples", "data", "word", "word" >>
    BY <1>2, Signatures
  <1>4. /\ Len(kinds) = 5 /\ DOMAIN kinds = 1 .. 5
        /\ kinds[1] = "data" /\ kinds[2] = "tuples" /\ kinds[3] = "data"
        /\ kinds[4] = "word" /\ kinds[5] = "word"
    BY <1>3
  <1>5. \A i \in DOMAIN kinds : kinds[i] # "array"
    BY <1>3
  <1>6. PICK a, b, c, d, e :
            /\ a = set_bytes_ui(Name, "Name")
            /\ b = set_bytes32_as_int_ui("n_inputs", "Total Inputs")
            /\ c = set_bytes_ui(Proof, "Proof")
            /\ d = set_addr_ui("resolver", "Resolver")
            /\ e = set_addr_ui("addr", "Addr")
    OBVIOUS
  <1>7. PICK p, q, r, s, t :
            /\ p = Dynamic(call, 1, "Name", "hex")
            /\ q = Inputs(call, 2, "Total Inputs")
            /\ r = Dynamic(call, 3, "Proof", "hex")
            /\ s = Address(4, "Resolver")
            /\ t = Address(5, "Addr")
    OBVIOUS
  <1>8. ScreensOf = << a, b, c, d, e >>
    BY <1>6 DEF ScreensOf, ClaimResolverScreens
  <1>9. Display(call) = << p, q, r, s, t >>
    BY <1>7 DEF Display
  <1>10. Shows(a, p)
    <2>1. 1 \in 1 .. Len(Signature(call.selector)) /\ Signature(call.selector)[1] = "data"
      BY <1>2, <1>4
    <2>2. call.lens[1] = call.lens[DataIndex(call, 1)]
      BY DataIndexes
    <2>3. NumberWord(1) = 5 + 1
      <3>1. NumberWord(1) = 5 + 1
        BY <1>2, <1>4, FirstNumber
      <3>2. QED
        BY <3>1
    <2>4. DataKept(NameField, NumberWord(1), call.lens[DataIndex(call, 1)])
      <3>1. DataKept(NameField, 5 + 1, call.lens[1])
        BY <1>1 DEF ParsesProveClaimResolver, ParsesClaimKept
      <3>2. QED
        BY <2>2, <2>3, <3>1
    <2>5. Name = NameField.slot
      BY FieldsType DEF Name
    <2>6. QED
      BY <1>6, <1>7, <2>1, <2>4, <2>5, DynamicShown
  <1>11. Shows(b, q)
    <2>1. 2 \in 1 .. Len(Signature(call.selector)) /\ Signature(call.selector)[2] = "tuples"
      BY <1>2, <1>4
    <2>2. WordKept("n_inputs", NumberWord(2), 0)
      BY <1>1 DEF ParsesProveClaimResolver, ParsesClaimKept
    <2>3. QED
      BY <1>6, <1>7, <2>1, <2>2, InputsShown
  <1>12. Shows(c, r)
    <2>1. 3 \in 1 .. Len(Signature(call.selector)) /\ Signature(call.selector)[3] = "data"
      BY <1>2, <1>4
    <2>2. call.lens[2] = call.lens[DataIndex(call, 3)]
      BY DataIndexes
    <2>4. DataKept(ProofField, NumberWord(3), call.lens[DataIndex(call, 3)])
      <3>1. DataKept(ProofField, NumberWord(3), call.lens[2])
        BY <1>1 DEF ParsesProveClaimResolver, ParsesClaimKept
      <3>2. QED
        BY <2>2, <3>1
    <2>5. Proof = ProofField.slot
      BY FieldsType DEF Proof
    <2>6. QED
      BY <1>6, <1>7, <2>1, <2>4, <2>5, DynamicShown
  <1>13. Shows(d, s)
    <2>1. 4 \in 1 .. Len(Signature(call.selector))
      BY <1>2, <1>4
    <2>2. WordKept("resolver", 4, 12)
      BY <1>1 DEF ParsesProveClaimResolver
    <2>3. QED
      BY <1>6, <1>7, <2>1, <2>2, HeadShown
  <1>14. Shows(e, t)
    <2>1. 5 \in 1 .. Len(Signature(call.selector))
      BY <1>2, <1>4
    <2>2. WordKept("addr", 5, 12)
      BY <1>1 DEF ParsesProveClaimResolver
    <2>3. QED
      BY <1>6, <1>7, <2>1, <2>2, HeadShown
  <1>15. Remains(<< a, b, c, d, e >>, << p, q, r, s, t >>)
    BY <1>10, <1>11, <1>12, <1>13, <1>14, FiveRemain
  <1>16. ScreensOf = DisplayLeft(call)
    BY <1>2, <1>5, <1>8, <1>9, <1>15, NothingSkipped
  <1>17. Len(ScreensOf) = 5
    BY <1>8
  <1>18. FinalizeScreens = 5
    BY DEF FinalizeScreens
  <1>19. QED
    BY <1>16, <1>17, <1>18 DEF Showing

(***************************************************************************)
(* The arrays.                                                             *)
(***************************************************************************)

\* An array of size elements is the first parameter of h.
ArrayCall(h, size) ==
    /\ call.selector \in OneArray
    /\ h = Len(Signature(call.selector)) /\ size = Len(call.lens)

\* Where the data of an element is.
LEMMA ElementPlace ==
  ASSUME Complete, NEW h, NEW size, ArrayCall(h, size), NEW e \in 1 .. size
  PROVE  /\ SELECTOR_SIZE + ElementAt(call, 1, e) + 32 = Position(ElementWord(call, e) + 1)
         /\ Behind(ElementWord(call, e), call.lens[e])
  <1>1. call \in Transactions /\ Supported(call)
    BY DEF Complete
  <1>2. /\ h \in 1 .. 2 /\ size \in Nat /\ TailWord(call, 1) = h
        /\ ElementWord(call, e) \in Nat /\ h + 1 + size < ElementWord(call, e)
        /\ call.lens[e] \in Nat
        /\ ElementWord(call, e) + WordsFor(call.lens[e]) <= Len(Encode(call))
    BY <1>1, ArrayWords DEF ArrayCall
  <1>3. TailAt(call, 1) = PARAMETER_LENGTH * h
    <2>1. 1 \in 1 .. h
      BY <1>2
    <2>2. QED
      BY <1>1, <1>2, <2>1, TailWords DEF ArrayCall
  <1>4. PICK b \in Nat : b = Before(ElementParts(call), e - 1)
    <2>1. ElementParts(call) \in Seq(Seq(Word)) /\ Len(ElementParts(call)) = size
      BY <1>1, ElementsType DEF ArrayCall
    <2>2. e - 1 \in 0 .. size
      BY <1>2
    <2>3. QED
      BY <2>1, <2>2, PartStarts
  <1>5. ElementWord(call, e) = h + 2 + size + b
    BY <1>2, <1>4 DEF ElementWord, ArrayCall
  <1>6. ElementAt(call, 1, e) = 32 * h + 32 + 32 * size + 32 * b
    <2>1. SizeUpTo(ElementParts(call), e - 1) = 32 * b
      BY <1>4 DEF SizeUpTo, SizeOf, Before, PARAMETER_LENGTH
    <2>2. QED
      BY <1>3, <2>1 DEF ElementAt, ArrayCall, PARAMETER_LENGTH
  <1>7. \A x \in 1 .. 2 : \A y, z \in Nat :
           /\ 4 + (32 * x + 32 + 32 * y + 32 * z) + 32 = 4 + 32 * (x + 2 + y + z + 1 - 1)
           /\ x + 1 + y < x + 2 + y + z => x < x + 2 + y + z
    OBVIOUS
  <1>8. SELECTOR_SIZE + ElementAt(call, 1, e) + 32 = Position(ElementWord(call, e) + 1)
    <2>1. 4 + (32 * h + 32 + 32 * size + 32 * b) + 32 = 4 + 32 * (h + 2 + size + b + 1 - 1)
      BY <1>2, <1>7
    <2>2. PICK x, y : x = ElementAt(call, 1, e) /\ y = ElementWord(call, e)
      OBVIOUS
    <2>3. 4 + x + 32 = 4 + 32 * (y + 1 - 1)
      <3>1. x = 32 * h + 32 + 32 * size + 32 * b
        BY <1>6, <2>2
      <3>2. y = h + 2 + size + b
        BY <1>5, <2>2
      <3>3. QED
        BY <1>2, <3>1, <3>2
    <2>4. SELECTOR_SIZE + x + 32 = Position(y + 1)
      <3>1. Position(y + 1) = 4 + 32 * (y + 1 - 1)
        BY <1>2, <2>2 DEF Position, SELECTOR_SIZE, PARAMETER_LENGTH
      <3>2. SELECTOR_SIZE + x + 32 = 4 + x + 32
        BY DEF SELECTOR_SIZE
      <3>3. QED
        BY <2>3, <3>1, <3>2
    <2>5. QED
      BY <2>2, <2>4
  <1>9. Len(Signature(call.selector)) < ElementWord(call, e)
    <2>1. h < h + 2 + size + b
      BY <1>2, <1>5, <1>7
    <2>2. QED
      BY <1>5, <2>1 DEF ArrayCall
  <1>10. QED
    BY <1>2, <1>8, <1>9 DEF Behind

\* An element.
LEMMA ElementDisplayed ==
  ASSUME Complete, NEW h, NEW size, ArrayCall(h, size), NEW e \in 1 .. size, e \in {1, 2, 3},
         NEW k, k = e - 1, NEW f, f \in {NameField, CallField}, ElementsKept(f), NEW t
  PROVE  /\ f.byLength => Shows(set_name_ui(k, t), Element(call, 1, e, t, "string"))
         /\ Shows(set_bytes_ui(k, t), Element(call, 1, e, t, "hex"))
  <1>1. call \in Transactions /\ Supported(call) /\ WordNumber \in Nat \ {0}
    BY EndPlace DEF Complete
  <1>2. PICK a, v : a = ElementWord(call, e) /\ v = call.lens[e]
    OBVIOUS
  <1>3. Behind(a, v) /\ SELECTOR_SIZE + ElementAt(call, 1, e) + 32 = Position(a + 1)
    BY <1>2, ElementPlace
  <1>4. PICK g : g = [f EXCEPT !.slot = e - 1]
    OBVIOUS
  <1>5. g.slot = k /\ g.byLength = f.byLength
    BY <1>4 DEF NameField, CallField
  <1>6. DataKept(g, a, v)
    BY <1>2, <1>4 DEF ElementsKept, ArrayCall
  <1>7. \A format : Element(call, 1, e, t, format) = Abbreviated(Position(a + 1), v, t, format)
    BY <1>2, <1>3 DEF Element
  <1>8. ASSUME f.byLength PROVE Shows(set_name_ui(k, t), Element(call, 1, e, t, "string"))
    BY <1>1, <1>3, <1>5, <1>6, <1>7, <1>8, NameShown
  <1>9. Shows(set_bytes_ui(k, t), Element(call, 1, e, t, "hex"))
    BY <1>1, <1>3, <1>5, <1>6, <1>7, HexShown
  <1>10. QED
    BY <1>8, <1>9

\* When the number of elements has been read.
LEMMA NumberRemains ==
  ASSUME Complete, NEW h, NEW size, ArrayCall(h, size)
  PROVE  /\ ElementsKnown(call, EndOf(call)) <=> h + 1 < WordNumber
         /\ ~(h + 1 < WordNumber) => call.cut # 0
  <1>1. call \in Transactions /\ Supported(call)
    BY DEF Complete
  <1>2. PICK n \in Nat \ {0} : n = WordNumber
    BY EndPlace
  <1>3. EndOf(call) = Position(n) /\ (call.cut = 0 => n = Len(Encode(call)) + 1)
    BY <1>2, EndPlace
  <1>4. h \in 1 .. 2 /\ h + 1 <= Len(Encode(call)) /\ Len(Encode(call)) \in Nat /\ TailWord(call, 1) = h
    BY <1>1, ArrayWords DEF ArrayCall
  <1>5. SELECTOR_SIZE + TailAt(call, 1) = Position(h + 1)
    <2>1. 1 \in 1 .. h
      BY <1>4
    <2>2. TailAt(call, 1) = PARAMETER_LENGTH * h
      BY <1>1, <1>4, <2>1, TailWords DEF ArrayCall
    <2>3. QED
      BY <1>4, <2>2 DEF Position, SELECTOR_SIZE, PARAMETER_LENGTH
  <1>6. ElementsKnown(call, EndOf(call)) <=> Position(h + 1) < Position(n)
    <2>1. /\ 1 \in DOMAIN Signature(call.selector) /\ Signature(call.selector)[1] = "array"
          /\ \A i \in DOMAIN Signature(call.selector) : i # 1 => Signature(call.selector)[i] # "array"
      BY Signatures DEF ArrayCall, OneArray
    <2>2. QED
      BY <1>3, <1>5, <2>1 DEF ElementsKnown
  <1>7. Position(h + 1) < Position(n) <=> h + 1 < n
    BY <1>4 DEF Position, SELECTOR_SIZE, PARAMETER_LENGTH
  <1>8. call.cut = 0 => h + 1 < n
    BY <1>3, <1>4
  <1>9. QED
    BY <1>2, <1>6, <1>7, <1>8

\* One more.
LEMMA Extended ==
  /\ \A a : << >> \o << a >> = << a >>
  /\ \A a, b : << a >> \o << b >> = << a, b >>
  /\ \A a, b, c : << a, b >> \o << c >> = << a, b, c >>
  <1>1. ASSUME NEW a PROVE << >> \o << a >> = << a >>
    OBVIOUS
  <1>2. ASSUME NEW a, NEW b PROVE << a >> \o << b >> = << a, b >>
    <2>1. PICK x, y : x = << a >> /\ y = << b >>
      OBVIOUS
    <2>2. x \in Seq({a, b}) /\ y \in Seq({a, b}) /\ Len(x) = 1 /\ Len(y) = 1 /\ x[1] = a /\ y[1] = b
      BY <2>1
    <2>3. PICK z : z = x \o y
      OBVIOUS
    <2>4. z \in Seq({a, b}) /\ Glued(z, x, y)
      BY <2>2, <2>3, Concatenation, Zenon
    <2>5. Len(z) = 2 /\ z[1] = a /\ z[2] = b
      <3>1. Len(z) = 1 + 1 /\ \A j \in 1 .. 1 + 1 : z[j] = IF j <= 1 THEN x[j] ELSE y[j - 1]
        BY <2>2, <2>4 DEF Glued
      <3>2. QED
        BY <2>2, <3>1
    <2>6. z = << a, b >>
      BY <2>4, <2>5
    <2>7. QED
      BY <2>1, <2>3, <2>6
  <1>3. ASSUME NEW a, NEW b, NEW c PROVE << a, b >> \o << c >> = << a, b, c >>
    <2>1. PICK x, y : x = << a, b >> /\ y = << c >>
      OBVIOUS
    <2>2. /\ x \in Seq({a, b, c}) /\ y \in Seq({a, b, c}) /\ Len(x) = 2 /\ Len(y) = 1
          /\ x[1] = a /\ x[2] = b /\ y[1] = c
      BY <2>1
    <2>3. PICK z : z = x \o y
      OBVIOUS
    <2>4. z \in Seq({a, b, c}) /\ Glued(z, x, y)
      BY <2>2, <2>3, Concatenation, Zenon
    <2>5. Len(z) = 3 /\ z[1] = a /\ z[2] = b /\ z[3] = c
      <3>1. Len(z) = 2 + 1 /\ \A j \in 1 .. 2 + 1 : z[j] = IF j <= 2 THEN x[j] ELSE y[j - 2]
        BY <2>2, <2>4 DEF Glued
      <3>2. QED
        BY <2>2, <3>1
    <2>6. z = << a, b, c >>
      BY <2>4, <2>5
    <2>7. QED
      BY <2>1, <2>3, <2>6
  <1>4. QED
    BY <1>1, <1>2, <1>3

\* What is behind the elements.
LEMMA Behinds ==
  /\ \A a, b : SubSeq(<< a, b >>, 2, 2) = << b >>
  /\ \A a, b, c : SubSeq(<< a, b, c >>, 3, 3) = << c >>
  /\ \A a : SubSeq(<< a >>, 2, 1) = << >>
  /\ \A a, b : SubSeq(<< a, b >>, 3, 2) = << >>
  /\ \A a, b, c : SubSeq(<< a, b, c >>, 4, 3) = << >>
  <1>1. ASSUME NEW a, NEW b PROVE SubSeq(<< a, b >>, 2, 2) = << b >>
    <2>1. PICK s : s = << a, b >>
      OBVIOUS
    <2>2. s \in Seq({a, b}) /\ Len(s) = 2 /\ s[2] = b
      BY <2>1
    <2>3. PICK z : z = SubSeq(s, 2, 2)
      OBVIOUS
    <2>4. z \in Seq({a, b}) /\ Len(z) = 1 /\ z[1] = s[2]
      BY <2>2, <2>3
    <2>5. z = << b >>
      BY <2>2, <2>4
    <2>6. QED
      BY <2>1, <2>3, <2>5
  <1>2. ASSUME NEW a, NEW b, NEW c PROVE SubSeq(<< a, b, c >>, 3, 3) = << c >>
    <2>1. PICK s : s = << a, b, c >>
      OBVIOUS
    <2>2. s \in Seq({a, b, c}) /\ Len(s) = 3 /\ s[3] = c
      BY <2>1
    <2>3. PICK z : z = SubSeq(s, 3, 3)
      OBVIOUS
    <2>4. z \in Seq({a, b, c}) /\ Len(z) = 1 /\ z[1] = s[3]
      BY <2>2, <2>3
    <2>5. z = << c >>
      BY <2>2, <2>4
    <2>6. QED
      BY <2>1, <2>3, <2>5
  <1>3. ASSUME NEW a PROVE SubSeq(<< a >>, 2, 1) = << >>
    OBVIOUS
  <1>4. ASSUME NEW a, NEW b PROVE SubSeq(<< a, b >>, 3, 2) = << >>
    OBVIOUS
  <1>5. ASSUME NEW a, NEW b, NEW c PROVE SubSeq(<< a, b, c >>, 4, 3) = << >>
    OBVIOUS
  <1>6. QED
    BY <1>1, <1>2, <1>3, <1>4, <1>5

\* The names and the duration of renewAll.
LEMMA RenewAllShowing ==
  ASSUME Complete, call.selector = "e8d6dbb4", selectorIndex = "RENEW_ALL", Parses
  PROVE  Showing
  <1>1. ParsesRenewAll
    BY DEF Parses
  <1>2. PICK kinds : kinds = Signature(call.selector)
    OBVIOUS
  <1>3. kinds = << "array", "word" >>
    BY <1>2, Signatures
  <1>4. Len(kinds) = 2
    BY <1>3
  <1>5. PICK size : size = Len(call.lens)
    OBVIOUS
  <1>6. size \in {1, 2} /\ ArrayCall(2, size)
    <2>1. size \in Nat /\ size > 0 /\ ~(size > 2)
      BY <1>5 DEF Complete, Transactions, Supported, OverLimit
    <2>2. size \in {1, 2}
      BY <2>1
    <2>3. QED
      BY <1>2, <1>4, <1>5, <2>2 DEF ArrayCall, OneArray
  <1>7. DOMAIN call.lens = 1 .. size
    BY <1>5 DEF Complete, Transactions
  <1>8. PICK d, z : d = set_bytes32_as_int_unit_ui("duration", "Duration") /\ z = Seconds(2, "Duration")
    OBVIOUS
  <1>9. Shows(d, z)
    <2>1. 2 \in 1 .. Len(Signature(call.selector))
      <3>1. Len(Signature(call.selector)) = 2
        BY <1>2, <1>4
      <3>2. QED
        BY <3>1
    <2>2. WordKept("duration", 2, 0)
      BY <1>1 DEF ParsesRenewAll
    <2>3. QED
      BY <1>8, <2>1, <2>2, HeadShown
  <1>10. ElementsKept(NameField)
    BY <1>1 DEF ParsesRenewAll, ParsesArray
  <1>11. NameField \in {NameField, CallField} /\ NameField.byLength
    BY FieldsType
  <1>12. PICK a, b : a = set_name_ui(0, "Name") /\ b = set_name_ui(1, "Name")
    OBVIOUS
  <1>13. PICK p, q : p = Element(call, 1, 1, "Name", "string") /\ q = Element(call, 1, 2, "Name", "string")
    OBVIOUS
  <1>14. Shows(a, p)
    <2>1. 1 \in 1 .. size /\ 1 \in {1, 2, 3} /\ 0 = 1 - 1
      BY <1>6
    <2>2. QED
      BY <1>6, <1>10, <1>11, <1>12, <1>13, <2>1, ElementDisplayed
  <1>15. size = 2 => Shows(b, q)
    <2>1. size = 2 => 2 \in 1 .. size /\ 2 \in {1, 2, 3} /\ 1 = 2 - 1
      OBVIOUS
    <2>2. QED
      BY <1>6, <1>10, <1>11, <1>12, <1>13, <2>1, ElementDisplayed
  <1>16. ScreensOf = [i \in 1 .. count |-> set_name_ui(i - 1, "Name")] \o << d >>
    BY <1>8 DEF ScreensOf, RenewAllScreens
  <1>17. Display(call) = [e \in 1 .. size |-> Element(call, 1, e, "Name", "string")] \o << z >>
    BY <1>7, <1>8 DEF Display
  <1>18. /\ size = 1 => [e \in 1 .. size |-> Element(call, 1, e, "Name", "string")] = << p >>
         /\ size = 2 => [e \in 1 .. size |-> Element(call, 1, e, "Name", "string")] = << p, q >>
    BY <1>13
  <1>19. /\ size = 1 => Display(call) = << p, z >>
         /\ size = 2 => Display(call) = << p, q, z >>
    <2>1. CASE size = 1
      <3>1. Display(call) = << p >> \o << z >>
        BY <1>17, <1>18, <2>1
      <3>2. QED
        BY <2>1, <3>1, Extended
    <2>2. CASE size = 2
      <3>1. Display(call) = << p, q >> \o << z >>
        BY <1>17, <1>18, <2>2
      <3>2. QED
        BY <2>2, <3>1, Extended
    <2>3. QED
      BY <1>6, <2>1, <2>2
  <1>20. count = IF 2 + 1 < WordNumber THEN size ELSE 0
    BY <1>1, <1>5 DEF ParsesRenewAll, ParsesArray
  <1>21. /\ ElementsKnown(call, EndOf(call)) <=> 2 + 1 < WordNumber
         /\ ~(2 + 1 < WordNumber) => call.cut # 0
    BY <1>6, NumberRemains
  <1>22. FinalizeScreens = 1 + count
    <2>1. count \in {0, 1, 2}
      BY <1>6, <1>20
    <2>2. QED
      BY <2>1 DEF FinalizeScreens, U8, UINT8_MAX
  <1>23. CASE ~(2 + 1 < WordNumber)
    <2>1. ScreensOf = << d >>
      <3>1. [i \in 1 .. 0 |-> set_name_ui(i - 1, "Name")] = << >>
        OBVIOUS
      <3>2. count = 0
        BY <1>20, <1>23
      <3>3. QED
        BY <1>16, <3>1, <3>2, Extended
    <2>2. Remains(<< d >>, << z >>)
      BY <1>9, OneRemains
    <2>3. SubSeq(Display(call), Len(call.lens) + 1, Len(Display(call))) = << z >>
      <3>1. CASE size = 1
        <4>1. Display(call) = << p, z >>
          BY <1>19, <3>1
        <4>2. Len(<< p, z >>) = 2
          OBVIOUS
        <4>3. Len(call.lens) + 1 = 2
          BY <1>5, <3>1
        <4>4. SubSeq(<< p, z >>, 2, 2) = << z >>
          BY Behinds
        <4>5. QED
          BY <4>1, <4>2, <4>3, <4>4
      <3>2. CASE size = 2
        <4>1. Display(call) = << p, q, z >>
          BY <1>19, <3>2
        <4>2. Len(<< p, q, z >>) = 3
          OBVIOUS
        <4>3. Len(call.lens) + 1 = 3
          BY <1>5, <3>2
        <4>4. SubSeq(<< p, q, z >>, 3, 3) = << z >>
          BY Behinds
        <4>5. QED
          BY <4>1, <4>2, <4>3, <4>4
      <3>3. QED
        BY <1>6, <3>1, <3>2
    <2>4. DisplayLeft(call) = << d >>
      BY <1>21, <1>23, <2>2, <2>3 DEF Remains, DisplayLeft
    <2>5. FinalizeScreens = 1
      BY <1>20, <1>22, <1>23
    <2>6. QED
      BY <2>1, <2>4, <2>5 DEF Showing
  <1>24. CASE 2 + 1 < WordNumber /\ size = 1
    <2>1. ScreensOf = << a, d >>
      <3>1. [i \in 1 .. 1 |-> set_name_ui(i - 1, "Name")] = << a >>
        BY <1>12
      <3>2. count = 1
        BY <1>20, <1>24
      <3>3. QED
        BY <1>16, <3>1, <3>2, Extended
    <2>2. Remains(<< a, d >>, << p, z >>)
      BY <1>9, <1>14, TwoRemain
    <2>3. DisplayLeft(call) = << a, d >>
      BY <1>19, <1>21, <1>24, <2>2 DEF Remains, DisplayLeft
    <2>4. FinalizeScreens = 2
      BY <1>20, <1>22, <1>24
    <2>5. QED
      BY <2>1, <2>3, <2>4 DEF Showing
  <1>25. CASE 2 + 1 < WordNumber /\ size = 2
    <2>1. ScreensOf = << a, b, d >>
      <3>1. [i \in 1 .. 2 |-> set_name_ui(i - 1, "Name")] = << a, b >>
        BY <1>12
      <3>2. count = 2
        BY <1>20, <1>25
      <3>3. QED
        BY <1>16, <3>1, <3>2, Extended
    <2>2. Remains(<< a, b, d >>, << p, q, z >>)
      BY <1>9, <1>14, <1>15, <1>25, ThreeRemain
    <2>3. DisplayLeft(call) = << a, b, d >>
      BY <1>19, <1>21, <1>25, <2>2 DEF Remains, DisplayLeft
    <2>4. FinalizeScreens = 3
      BY <1>20, <1>22, <1>25
    <2>5. QED
      BY <2>1, <2>3, <2>4 DEF Showing
  <1>26. QED
    BY <1>6, <1>23, <1>24, <1>25

\* The calls of multicall.
LEMMA MulticallShowing ==
  ASSUME Complete, call.selector = "ac9650d8", selectorIndex = "MULTICALL", Parses
  PROVE  Showing
  <1>1. ParsesMulticall
    BY DEF Parses
  <1>2. PICK kinds : kinds = Signature(call.selector)
    OBVIOUS
  <1>3. kinds = << "array" >>
    BY <1>2, Signatures
  <1>4. Len(kinds) = 1
    BY <1>3
  <1>5. PICK size : size = Len(call.lens)
    OBVIOUS
  <1>6. size \in {1, 2, 3} /\ ArrayCall(1, size)
    <2>1. size \in Nat /\ size > 0 /\ ~(size > 3)
      BY <1>5 DEF Complete, Transactions, Supported, OverLimit
    <2>2. size \in {1, 2, 3}
      BY <2>1
    <2>3. QED
      BY <1>2, <1>4, <1>5, <2>2 DEF ArrayCall, OneArray
  <1>7. DOMAIN call.lens = 1 .. size
    BY <1>5 DEF Complete, Transactions
  <1>8. ElementsKept(CallField) /\ CallField \in {NameField, CallField}
    BY <1>1 DEF ParsesMulticall, ParsesArray
  <1>9. PICK a, b, c : /\ a = set_bytes_ui(0, "Call") /\ b = set_bytes_ui(1, "Call")
                       /\ c = set_bytes_ui(2, "Call")
    OBVIOUS
  <1>10. PICK p, q, r : /\ p = Element(call, 1, 1, "Call", "hex")
                        /\ q = Element(call, 1, 2, "Call", "hex")
                        /\ r = Element(call, 1, 3, "Call", "hex")
    OBVIOUS
  <1>11. Shows(a, p)
    <2>1. 1 \in 1 .. size /\ 1 \in {1, 2, 3} /\ 0 = 1 - 1
      BY <1>6
    <2>2. QED
      BY <1>6, <1>8, <1>9, <1>10, <2>1, ElementDisplayed
  <1>12. size \in {2, 3} => Shows(b, q)
    <2>1. size \in {2, 3} => 2 \in 1 .. size /\ 2 \in {1, 2, 3} /\ 1 = 2 - 1
      OBVIOUS
    <2>2. QED
      BY <1>6, <1>8, <1>9, <1>10, <2>1, ElementDisplayed
  <1>13. size = 3 => Shows(c, r)
    <2>1. size = 3 => 3 \in 1 .. size /\ 3 \in {1, 2, 3} /\ 2 = 3 - 1
      OBVIOUS
    <2>2. QED
      BY <1>6, <1>8, <1>9, <1>10, <2>1, ElementDisplayed
  <1>14. ScreensOf = [i \in 1 .. count |-> set_bytes_ui(i - 1, "Call")]
    BY DEF ScreensOf, MulticallScreens
  <1>15. Display(call) = [e \in 1 .. size |-> Element(call, 1, e, "Call", "hex")]
    BY <1>7 DEF Display
  <1>16. /\ size = 1 => Display(call) = << p >>
         /\ size = 2 => Display(call) = << p, q >>
         /\ size = 3 => Display(call) = << p, q, r >>
    BY <1>10, <1>15
  <1>17. count = IF 1 + 1 < WordNumber THEN size ELSE 0
    BY <1>1, <1>5 DEF ParsesMulticall, ParsesArray
  <1>18. /\ ElementsKnown(call, EndOf(call)) <=> 1 + 1 < WordNumber
         /\ ~(1 + 1 < WordNumber) => call.cut # 0
    BY <1>6, NumberRemains
  <1>19. FinalizeScreens = count
    <2>1. count \in {0, 1, 2, 3}
      BY <1>6, <1>17
    <2>2. QED
      BY <2>1 DEF FinalizeScreens, U8, UINT8_MAX
  <1>20. CASE ~(1 + 1 < WordNumber)
    <2>1. count = 0 /\ call.cut # 0 /\ ~ElementsKnown(call, EndOf(call))
      BY <1>17, <1>18, <1>20
    <2>2. ScreensOf = << >>
      <3>1. [i \in 1 .. 0 |-> set_bytes_ui(i - 1, "Call")] = << >>
        OBVIOUS
      <3>2. QED
        BY <1>14, <2>1, <3>1
    <2>3. SubSeq(Display(call), Len(call.lens) + 1, Len(Display(call))) = << >>
      <3>1. CASE size = 1
        <4>1. Display(call) = << p >>
          BY <1>16, <3>1
        <4>2. Len(<< p >>) = 1
          OBVIOUS
        <4>3. Len(call.lens) + 1 = 2
          BY <1>5, <3>1
        <4>4. SubSeq(<< p >>, 2, 1) = << >>
          BY Behinds
        <4>5. QED
          BY <4>1, <4>2, <4>3, <4>4
      <3>2. CASE size = 2
        <4>1. Display(call) = << p, q >>
          BY <1>16, <3>2
        <4>2. Len(<< p, q >>) = 2
          OBVIOUS
        <4>3. Len(call.lens) + 1 = 3
          BY <1>5, <3>2
        <4>4. SubSeq(<< p, q >>, 3, 2) = << >>
          BY Behinds
        <4>5. QED
          BY <4>1, <4>2, <4>3, <4>4
      <3>3. CASE size = 3
        <4>1. Display(call) = << p, q, r >>
          BY <1>16, <3>3
        <4>2. Len(<< p, q, r >>) = 3
          OBVIOUS
        <4>3. Len(call.lens) + 1 = 4
          BY <1>5, <3>3
        <4>4. SubSeq(<< p, q, r >>, 4, 3) = << >>
          BY Behinds
        <4>5. QED
          BY <4>1, <4>2, <4>3, <4>4
      <3>4. QED
        BY <1>6, <3>1, <3>2, <3>3
    <2>4. DisplayLeft(call) = << >>
      <3>1. DisplayLeft(call) = [i \in DOMAIN << >> |-> ScreenLeft(call, << >>[i], EndOf(call))]
        BY <2>1, <2>3 DEF DisplayLeft
      <3>2. [i \in DOMAIN << >> |-> ScreenLeft(call, << >>[i], EndOf(call))] = << >>
        OBVIOUS
      <3>3. QED
        BY <3>1, <3>2
    <2>5. QED
      BY <1>19, <2>1, <2>2, <2>4 DEF Showing
  <1>21. CASE 1 + 1 < WordNumber
    <2>1. count = size /\ ElementsKnown(call, EndOf(call))
      BY <1>17, <1>18, <1>21
    <2>2. ScreensOf = IF size = 1 THEN << a >> ELSE IF size = 2 THEN << a, b >> ELSE << a, b, c >>
      <3>1. /\ [i \in 1 .. 1 |-> set_bytes_ui(i - 1, "Call")] = << a >>
            /\ [i \in 1 .. 2 |-> set_bytes_ui(i - 1, "Call")] = << a, b >>
            /\ [i \in 1 .. 3 |-> set_bytes_ui(i - 1, "Call")] = << a, b, c >>
        BY <1>9
      <3>2. QED
        BY <1>6, <1>14, <2>1, <3>1
    <2>3. Remains(ScreensOf, Display(call))
      <3>1. CASE size = 1
        <4>1. Remains(<< a >>, << p >>)
          BY <1>11, OneRemains
        <4>2. QED
          BY <1>16, <2>2, <3>1, <4>1
      <3>2. CASE size = 2
        <4>1. Remains(<< a, b >>, << p, q >>)
          BY <1>11, <1>12, <3>2, TwoRemain
        <4>2. QED
          BY <1>16, <2>2, <3>2, <4>1
      <3>3. CASE size = 3
        <4>1. Remains(<< a, b, c >>, << p, q, r >>)
          BY <1>11, <1>12, <1>13, <3>3, ThreeRemain
        <4>2. QED
          BY <1>16, <2>2, <3>3, <4>1
      <3>4. QED
        BY <1>6, <3>1, <3>2, <3>3
    <2>4. ScreensOf = DisplayLeft(call)
      BY <2>1, <2>3 DEF Remains, DisplayLeft
    <2>5. Len(ScreensOf) = size
      BY <1>6, <2>2
    <2>6. QED
      BY <1>19, <2>1, <2>4, <2>5 DEF Showing
  <1>22. QED
    BY <1>20, <1>21

\* And so for every selector.
LEMMA AllShown ==
  ASSUME Complete, selectorIndex = find_selector(call.selector), Parses
  PROVE  Showing /\ Version = Operation(call)
  <1>1. call \in Transactions
    BY DEF Complete
  <1>2. call.selector \in OneData \cup TwoData \cup OneArray \cup NoData
    BY <1>1, SelectorFound
  <1>3. Showing
    BY <1>2, Handlers, CommitShowing, RegisterShowing, RegisterWithConfigShowing, RenewShowing,
       SetNameShowing, SetOwnerShowing, SetResolverShowing, SetSubnodeShowing, SetAddrShowing,
       SetContentHashShowing, SetTextShowing, ProveClaimShowing, ProveClaimResolverShowing,
       RenewAllShowing, MulticallShowing
    DEF OneData, TwoData, OneArray, NoData
  <1>4. Version = Operation(call)
    BY <1>2, Handlers DEF OneData, TwoData, OneArray, NoData, Version, Operation
  <1>5. QED
    BY <1>3, <1>4

(***************************************************************************)
(* The start of a session.                                                 *)
(***************************************************************************)

\* handle_init_contract has cleared the context for a transaction.
Fresh ==
    /\ call \in Transactions /\ Supported(call)
    /\ WordNumber = 1
    /\ selectorIndex = find_selector(call.selector)
    /\ next_param = FirstParam(selectorIndex) /\ go_to_offset = FALSE
    /\ statics = [f \in Statics |-> NoStatic]
    /\ len = [k \in Slots |-> 0]
    /\ text = [k \in Slots |-> NoBytes]
    /\ ellipsis = [k \in Slots |-> FALSE]
    /\ count = 0 /\ id = 0

\* Nothing has been kept.
LEMMA NoWordKept ==
  ASSUME Fresh, NEW f \in Statics, NEW i \in Nat \ {0}, NEW first
  PROVE  WordKept(f, i, first)
  <1>1. ~(i < WordNumber)
    BY DEF Fresh
  <1>2. statics[f].at = 0
    BY DEF Fresh, NoStatic
  <1>3. QED
    BY <1>1, <1>2 DEF WordKept

LEMMA NoDataKept ==
  ASSUME Fresh, NEW f, f.slot \in Slots, NEW a \in Nat \ {0}, NEW v \in Nat
  PROVE  DataKept(f, a, v)
  <1>1. PICK k : k = f.slot
    OBVIOUS
  <1>2. /\ len[k] = 0 /\ ellipsis[k] = FALSE /\ text[k] = NoBytes
    BY <1>1 DEF Fresh
  <1>3. ~(a < WordNumber) /\ ~(a + 1 < WordNumber)
    BY DEF Fresh
  <1>4. DOMAIN text[k] = 0 .. PARAMETER_LENGTH - 1 /\ \A j \in 0 .. PARAMETER_LENGTH - 1 : text[k][j] = 0
    BY <1>2 DEF NoBytes
  <1>5. ASSUME NEW j \in 0 .. PARAMETER_LENGTH - 1
        PROVE  ~(ByteSource(a, v, j) < Position(WordNumber))
    <2>1. j \in 0 .. 31
      BY DEF PARAMETER_LENGTH
    <2>2. Position(WordNumber) = 4 /\ Position(a + 1) = 4 + 32 * a
      BY DEF Fresh, Position, PARAMETER_LENGTH, SELECTOR_SIZE
    <2>3. PICK x : x = IF v > PARAMETER_LENGTH /\ j >= HALF_PARAMETER_LENGTH
                       THEN v - PARAMETER_LENGTH ELSE 0
      OBVIOUS
    <2>4. x \in Nat
      BY <2>3 DEF PARAMETER_LENGTH
    <2>5. ByteSource(a, v, j) = 4 + 32 * a + j + x
      BY <2>2, <2>3 DEF ByteSource
    <2>6. QED
      BY <2>1, <2>2, <2>4, <2>5
  <1>6. len[f.slot] = IF a < WordNumber THEN v ELSE 0
    BY <1>1, <1>2, <1>3
  <1>7. ellipsis[f.slot] = IF v > PARAMETER_LENGTH /\ a + 1 < WordNumber THEN TRUE ELSE FALSE
    BY <1>1, <1>2, <1>3
  <1>8. ASSUME NEW j \in 0 .. PARAMETER_LENGTH - 1
        PROVE  text[f.slot][j] = IF ByteSource(a, v, j) < Position(WordNumber) /\ (f.byLength => j < v)
                                 THEN ByteSource(a, v, j) ELSE 0
    BY <1>1, <1>4, <1>5
  <1>9. QED
    BY <1>1, <1>4, <1>6, <1>7, <1>8 DEF DataKept

\* Nor of an array.
LEMMA NoElementsKept ==
  ASSUME Fresh, call.selector \in OneArray, Len(call.lens) \in 1 .. 3,
         NEW f \in {NameField, CallField}
  PROVE  ElementsKept(f)
  <1>1. SUFFICES ASSUME NEW e \in 1 .. Len(call.lens)
                 PROVE  DataKept([f EXCEPT !.slot = e - 1], ElementWord(call, e), call.lens[e])
    BY DEF ElementsKept
  <1>2. PICK a, v : a = ElementWord(call, e) /\ v = call.lens[e]
    OBVIOUS
  <1>3. a \in Nat \ {0} /\ v \in Nat
    <2>1. PICK h, n : h = Len(Signature(call.selector)) /\ n = Len(call.lens)
      OBVIOUS
    <2>2. h \in 1 .. 2 /\ n \in Nat /\ a \in Nat /\ h + 1 + n < a /\ v \in Nat
      BY <1>2, <2>1, ArrayWords DEF Fresh
    <2>3. a # 0
      BY <2>2
    <2>4. QED
      BY <2>2, <2>3
  <1>4. PICK g : g = [f EXCEPT !.slot = e - 1]
    OBVIOUS
  <1>5. g.slot \in Slots
    <2>1. e - 1 \in 0 .. 2
      <3>1. PICK n \in 1 .. 3 : n = Len(call.lens)
        OBVIOUS
      <3>2. e \in 1 .. n
        BY <3>1
      <3>3. QED
        BY <3>2
    <2>2. g.slot = e - 1
      BY <1>4 DEF NameField, CallField
    <2>3. QED
      BY <2>1, <2>2 DEF Slots
  <1>6. DataKept(g, a, v)
    BY <1>3, <1>5, NoDataKept
  <1>7. QED
    BY <1>2, <1>4, <1>6

\* Where the data of a call is.
LEMMA DataPlaces ==
  ASSUME Fresh, call.selector \in OneData \cup TwoData
  PROVE  /\ call.lens[1] \in Nat
         /\ call.selector \in TwoData =>
              /\ call.lens[2] \in Nat
              /\ NumberWord(2) \in Nat \ {0} /\ NumberWord(3) \in Nat \ {0}
  <1>1. call \in Transactions /\ Supported(call)
    BY DEF Fresh
  <1>2. PICK d : d = DataIndex(call, Len(Signature(call.selector)))
    OBVIOUS
  <1>3. ~\E i \in DOMAIN Signature(call.selector) : Signature(call.selector)[i] = "array"
    BY Signatures DEF OneData, TwoData
  <1>4. call.lens \in Seq(Nat) /\ Len(call.lens) = d
    BY <1>1, <1>2, <1>3 DEF Transactions
  <1>5. (call.selector \in OneData => d = 1) /\ (call.selector \in TwoData => d = 2)
    BY <1>2, DataIndexes
  <1>6. call.lens[1] \in Nat /\ (call.selector \in TwoData => call.lens[2] \in Nat)
    BY <1>4, <1>5
  <1>7. ASSUME call.selector \in TwoData
        PROVE  NumberWord(2) \in Nat \ {0} /\ NumberWord(3) \in Nat \ {0}
    <2>1. PICK h : h = Len(Signature(call.selector))
      OBVIOUS
    <2>2. 2 \in 1 .. h /\ 3 \in 1 .. h
      <3>1. h = 3 \/ h = 5
        <4>1. PICK kinds : kinds = Signature(call.selector)
          OBVIOUS
        <4>2. \/ kinds = << "data", "tuples", "data" >>
              \/ kinds = << "data", "tuples", "data", "word", "word" >>
              \/ kinds = << "word", "data", "data" >>
          BY <1>7, <4>1, Signatures DEF TwoData
        <4>3. Len(kinds) = 3 \/ Len(kinds) = 5
          BY <4>2
        <4>4. QED
          BY <2>1, <4>1, <4>3
      <3>2. QED
        BY <3>1
    <2>3. TailWord(call, 2) \in Nat /\ TailWord(call, 3) \in Nat
      BY <1>1, <2>1, <2>2, CallWords
    <2>4. QED
      BY <2>3 DEF NumberWord
  <1>8. QED
    BY <1>6, <1>7

\* A session starts on the first word.
LEMMA Begins == Fresh => Parses
  <1> SUFFICES ASSUME Fresh PROVE Parses
    OBVIOUS
  <1>1. /\ call \in Transactions /\ Supported(call) /\ WordNumber = 1 /\ go_to_offset = FALSE
        /\ selectorIndex = find_selector(call.selector)
        /\ next_param = FirstParam(selectorIndex)
        /\ count = 0 /\ id = 0
    BY DEF Fresh
  <1>2. \A p : next_param = p => Now(1, p)
    BY <1>1 DEF Now
  <1>3. \A f \in Statics, i \in Nat \ {0} : WordKept(f, i, 0) /\ WordKept(f, i, 12)
    BY NoWordKept
  <1>4. Field(NameField) /\ Field(ProofField) /\ Field(HashField) /\ Field(KeyField) /\ Field(ValueField)
    BY FieldsType
  <1>5. /\ NameField.slot \in Slots /\ ProofField.slot \in Slots /\ HashField.slot \in Slots
        /\ KeyField.slot \in Slots /\ ValueField.slot \in Slots
    BY <1>4 DEF Field
  <1>6. /\ "commitment" \in Statics /\ "owner" \in Statics /\ "duration" \in Statics
        /\ "secret" \in Statics /\ "resolver" \in Statics /\ "addr" \in Statics
        /\ "n_inputs" \in Statics /\ "node" \in Statics /\ "label" \in Statics
        /\ "ttl" \in Statics /\ "coinType" \in Statics
    BY DEF Statics
  <1>7. /\ 1 \in Nat \ {0} /\ 2 \in Nat \ {0} /\ 3 \in Nat \ {0} /\ 4 \in Nat \ {0}
        /\ 5 \in Nat \ {0} /\ 6 \in Nat \ {0} /\ 7 \in Nat \ {0}
    OBVIOUS
  <1>8. CASE call.selector = "85f6d155"
    <2>1. selectorIndex = "REGISTER" /\ next_param = "NAME_OFFSET"
      BY <1>1, <1>8, Handlers DEF FirstParam
    <2>2. call.lens[1] \in Nat
      BY <1>8, DataPlaces DEF OneData
    <2>3. DataKept(NameField, 5, call.lens[1])
      BY <1>5, <1>7, <2>2, NoDataKept
    <2>4. ParsesRegister
      BY <1>2, <1>3, <1>6, <1>7, <2>1, <2>3 DEF ParsesRegister
    <2>5. QED
      BY <2>1, <2>4 DEF Parses
  <1>9. CASE call.selector = "f7a16963"
    <2>1. selectorIndex = "REGISTER_WITH_CONFIG" /\ next_param = "NAME_OFFSET"
      BY <1>1, <1>9, Handlers DEF FirstParam
    <2>2. call.lens[1] \in Nat
      BY <1>9, DataPlaces DEF OneData
    <2>3. DataKept(NameField, 7, call.lens[1])
      BY <1>5, <1>7, <2>2, NoDataKept
    <2>4. ParsesRegisterWithConfig
      BY <1>2, <1>3, <1>6, <1>7, <2>1, <2>3 DEF ParsesRegisterWithConfig
    <2>5. QED
      BY <2>1, <2>4 DEF Parses
  <1>10. CASE call.selector = "acf1a841"
    <2>1. selectorIndex = "RENEW" /\ next_param = "NAME_OFFSET"
      BY <1>1, <1>10, Handlers DEF FirstParam
    <2>2. call.lens[1] \in Nat
      BY <1>10, DataPlaces DEF OneData
    <2>3. DataKept(NameField, 3, call.lens[1])
      BY <1>5, <1>7, <2>2, NoDataKept
    <2>4. ParsesRenew
      BY <1>2, <1>3, <1>6, <1>7, <2>1, <2>3 DEF ParsesRenew
    <2>5. QED
      BY <2>1, <2>4 DEF Parses
  <1>11. CASE call.selector = "c47f0027"
    <2>1. selectorIndex = "SET_NAME" /\ next_param = "NAME_OFFSET"
      BY <1>1, <1>11, Handlers DEF FirstParam
    <2>2. call.lens[1] \in Nat
      BY <1>11, DataPlaces DEF OneData
    <2>3. DataKept(NameField, 2, call.lens[1])
      BY <1>5, <1>7, <2>2, NoDataKept
    <2>4. ParsesSetName
      BY <1>2, <1>3, <1>6, <1>7, <2>1, <2>3 DEF ParsesSetName
    <2>5. QED
      BY <2>1, <2>4 DEF Parses
  <1>12. CASE call.selector = "8b95dd71"
    <2>1. selectorIndex = "SET_ADDR" /\ next_param = "NODE"
      BY <1>1, <1>12, Handlers DEF FirstParam
    <2>2. call.lens[1] \in Nat
      BY <1>12, DataPlaces DEF OneData
    <2>3. DataKept(HashField, 4, call.lens[1])
      BY <1>5, <1>7, <2>2, NoDataKept
    <2>4. ParsesSetAddr
      BY <1>2, <1>3, <1>6, <1>7, <2>1, <2>3 DEF ParsesSetAddr
    <2>5. QED
      BY <2>1, <2>4 DEF Parses
  <1>13. CASE call.selector = "304e6ade"
    <2>1. selectorIndex = "SET_CONTENT_HASH" /\ next_param = "NODE"
      BY <1>1, <1>13, Handlers DEF FirstParam
    <2>2. call.lens[1] \in Nat
      BY <1>13, DataPlaces DEF OneData
    <2>3. DataKept(HashField, 3, call.lens[1])
      BY <1>5, <1>7, <2>2, NoDataKept
    <2>4. ParsesSetContentHash
      BY <1>2, <1>3, <1>6, <1>7, <2>1, <2>3 DEF ParsesSetContentHash
    <2>5. QED
      BY <2>1, <2>4 DEF Parses
  <1>14. CASE call.selector = "f14fcbc8"
    <2>1. selectorIndex = "COMMIT" /\ next_param = "COMMITMENT"
      BY <1>1, <1>14, Handlers DEF FirstParam
    <2>2. ParsesCommit
      BY <1>2, <1>3, <1>6, <1>7, <2>1 DEF ParsesCommit
    <2>3. QED
      BY <2>1, <2>2 DEF Parses
  <1>15. CASE call.selector = "5b0fc9c3"
    <2>1. selectorIndex = "SET_OWNER" /\ next_param = "NODE"
      BY <1>1, <1>15, Handlers DEF FirstParam
    <2>2. ParsesSetOwner
      BY <1>2, <1>3, <1>6, <1>7, <2>1 DEF ParsesSetOwner
    <2>3. QED
      BY <2>1, <2>2 DEF Parses
  <1>16. CASE call.selector = "1896f70a"
    <2>1. selectorIndex = "SET_RESOLVER" /\ next_param = "NODE"
      BY <1>1, <1>16, Handlers DEF FirstParam
    <2>2. ParsesSetResolver
      BY <1>2, <1>3, <1>6, <1>7, <2>1 DEF ParsesSetResolver
    <2>3. QED
      BY <2>1, <2>2 DEF Parses
  <1>17. CASE call.selector = "5ef2c7f0"
    <2>1. selectorIndex = "SET_SUBNODE" /\ next_param = "NODE"
      BY <1>1, <1>17, Handlers DEF FirstParam
    <2>2. ParsesSetSubnode
      BY <1>2, <1>3, <1>6, <1>7, <2>1 DEF ParsesSetSubnode
    <2>3. QED
      BY <2>1, <2>2 DEF Parses
  <1>18. CASE call.selector = "8bbedf75"
    <2>1. selectorIndex = "PROVE_AND_CLAIM" /\ next_param = "NAME_OFFSET"
      BY <1>1, <1>18, Handlers DEF FirstParam
    <2>2. /\ call.lens[1] \in Nat /\ call.lens[2] \in Nat
          /\ NumberWord(2) \in Nat \ {0} /\ NumberWord(3) \in Nat \ {0}
      BY <1>18, DataPlaces DEF TwoData
    <2>3. 3 + 1 \in Nat \ {0}
      OBVIOUS
    <2>4. DataKept(NameField, 3 + 1, call.lens[1])
      BY <1>5, <2>2, <2>3, NoDataKept
    <2>5. DataKept(ProofField, NumberWord(3), call.lens[2])
      BY <1>5, <2>2, NoDataKept
    <2>6. WordKept("n_inputs", NumberWord(2), 0)
      BY <1>3, <1>6, <2>2
    <2>7. ParsesClaimKept(3)
      BY <2>4, <2>5, <2>6 DEF ParsesClaimKept
    <2>8. ParsesProveClaim
      BY <1>2, <1>3, <1>6, <1>7, <2>1, <2>7 DEF ParsesProveClaim
    <2>9. QED
      BY <2>1, <2>8 DEF Parses
  <1>19. CASE call.selector = "224199c2"
    <2>1. selectorIndex = "PROVE_AND_CLAIM_RESOLVER" /\ next_param = "NAME_OFFSET"
      BY <1>1, <1>19, Handlers DEF FirstParam
    <2>2. /\ call.lens[1] \in Nat /\ call.lens[2] \in Nat
          /\ NumberWord(2) \in Nat \ {0} /\ NumberWord(3) \in Nat \ {0}
      BY <1>19, DataPlaces DEF TwoData
    <2>3. 5 + 1 \in Nat \ {0}
      OBVIOUS
    <2>4. DataKept(NameField, 5 + 1, call.lens[1])
      BY <1>5, <2>2, <2>3, NoDataKept
    <2>5. DataKept(ProofField, NumberWord(3), call.lens[2])
      BY <1>5, <2>2, NoDataKept
    <2>6. WordKept("n_inputs", NumberWord(2), 0)
      BY <1>3, <1>6, <2>2
    <2>7. ParsesClaimKept(5)
      BY <2>4, <2>5, <2>6 DEF ParsesClaimKept
    <2>8. ParsesProveClaimResolver
      BY <1>2, <1>3, <1>6, <1>7, <2>1, <2>7 DEF ParsesProveClaimResolver
    <2>9. QED
      BY <2>1, <2>8 DEF Parses
  <1>20. CASE call.selector = "10f13a8c"
    <2>1. selectorIndex = "SET_TEXT" /\ next_param = "NODE"
      BY <1>1, <1>20, Handlers DEF FirstParam
    <2>2. call.lens[1] \in Nat /\ call.lens[2] \in Nat
      BY <1>20, DataPlaces DEF TwoData
    <2>3. PICK a : a = 4 + WordsFor(call.lens[1]) + 1
      OBVIOUS
    <2>4. a \in Nat \ {0}
      <3>1. WordsFor(call.lens[1]) \in Nat
        BY <2>2, DataShape
      <3>2. QED
        BY <2>3, <3>1
    <2>5. DataKept(KeyField, 4, call.lens[1])
      BY <1>5, <1>7, <2>2, NoDataKept
    <2>6. DataKept(ValueField, a, call.lens[2])
      BY <1>5, <2>2, <2>4, NoDataKept
    <2>7. ParsesSetText
      BY <1>2, <1>3, <1>6, <1>7, <2>1, <2>3, <2>5, <2>6 DEF ParsesSetText
    <2>8. QED
      BY <2>1, <2>7 DEF Parses
  <1>21. CASE call.selector = "e8d6dbb4"
    <2>1. selectorIndex = "RENEW_ALL" /\ next_param = "NAME_OFFSET"
      BY <1>1, <1>21, Handlers DEF FirstParam
    <2>2. Len(call.lens) \in 1 .. 3
      <3>1. PICK n : n = Len(call.lens)
        OBVIOUS
      <3>2. n \in Nat /\ n > 0 /\ ~(n > 2)
        BY <3>1, <1>1, <1>21 DEF Transactions, Supported, OverLimit
      <3>3. n \in 1 .. 3
        BY <3>2
      <3>4. QED
        BY <3>1, <3>3
    <2>3. ElementsKept(NameField)
      BY <1>21, <2>2, NoElementsKept DEF OneArray
    <2>4. ~(2 + 1 < WordNumber) /\ WordNumber <= 2 + 1
      BY <1>1
    <2>5. ParsesArray(2, "NAME_LENGTH", NameField)
      BY <1>1, <2>3, <2>4 DEF ParsesArray
    <2>6. ParsesRenewAll
      BY <1>1, <1>2, <1>3, <1>6, <1>7, <2>1, <2>5 DEF ParsesRenewAll
    <2>7. QED
      BY <2>1, <2>6 DEF Parses
  <1>22. CASE call.selector = "ac9650d8"
    <2>1. selectorIndex = "MULTICALL" /\ next_param = "CALL_OFFSET"
      BY <1>1, <1>22, Handlers DEF FirstParam
    <2>2. Len(call.lens) \in 1 .. 3
      <3>1. PICK n : n = Len(call.lens)
        OBVIOUS
      <3>2. n \in Nat /\ n > 0 /\ ~(n > 3)
        BY <3>1, <1>1, <1>22 DEF Transactions, Supported, OverLimit
      <3>3. n \in 1 .. 3
        BY <3>2
      <3>4. QED
        BY <3>1, <3>3
    <2>3. ElementsKept(CallField)
      BY <1>22, <2>2, NoElementsKept DEF OneArray
    <2>4. ~(1 + 1 < WordNumber) /\ WordNumber <= 1 + 1
      BY <1>1
    <2>5. ParsesArray(1, "CALL_LEN", CallField)
      BY <1>1, <2>3, <2>4 DEF ParsesArray
    <2>6. ParsesMulticall
      BY <1>1, <1>2, <1>3, <1>6, <1>7, <2>1, <2>5 DEF ParsesMulticall
    <2>7. QED
      BY <2>1, <2>6 DEF Parses
  <1>23. QED
    BY <1>1, <1>8, <1>9, <1>10, <1>11, <1>12, <1>13, <1>14, <1>15, <1>16, <1>17, <1>18, <1>19,
       <1>20, <1>21, <1>22, SelectorFound
    DEF OneData, TwoData, OneArray, NoData

(***************************************************************************)
(* The invariant of the display.                                           *)
(***************************************************************************)

\* The review of a transaction shows the screens there are for what arrived of
\* it, one after the other.
Reviews ==
    /\ ScreensOf = DisplayLeft(call)
    /\ Version = Operation(call)
    /\ numScreens = Len(ScreensOf)
    /\ Len(shown) <= numScreens
    /\ \A i \in 1 .. Len(shown) : shown[i] = ScreensOf[i]
    /\ phase = "reviewed" => Len(shown) = numScreens
    /\ phase \in {"review", "reviewed"} => version = Version

\* Of a supported transaction the context has what arrived of each parameter,
\* word by word, and then the review shows it.
DisplayInv ==
    /\ Buffers
    /\ IsSupported(call) =>
         \/ phase = "idle"
         \/ phase = "parsing" /\ WordNumber <= Len(Sent(call)) + 1 /\ Parses
         \/ phase \in {"finalized", "resolved", "review", "reviewed"} /\ Reviews

\* What ServedInv says of a supported transaction.
ServedState ==
    \/ phase = "idle"
    \/ /\ phase = "parsing"
       /\ WordNumber \in Nat \ {0} /\ parameterOffset = Position(WordNumber)
       /\ shown = << >>
       /\ Presentable /\ OnTrack
    \/ Presentable /\ Finished

LEMMA ServedNow ==
  ServedInv /\ IsSupported(call) => ServedState /\ call \in Transactions /\ Readable(call) /\ Shaped
  <1> SUFFICES ASSUME ServedInv, IsSupported(call)
               PROVE  ServedState /\ call \in Transactions /\ Readable(call) /\ Shaped
    OBVIOUS
  <1>1. Readable(call) /\ call \in Transactions /\ call.large = 0 /\ Shaped
    BY CallsAssumption DEF ServedInv, IsSupported, Readable
  <1>2. ~Oversized(call)
    <2>1. SUFFICES ASSUME Oversized(call) PROVE FALSE
      OBVIOUS
    <2>2. 0 \in Numbers(call)
      BY <1>1, <2>1 DEF Oversized
    <2>3. 0 \in 1 .. Len(Encode(call)) /\ Len(Encode(call)) \in Nat
      BY <1>1, <2>2, NumberInCall, CallWords DEF Readable
    <2>4. QED
      BY <2>3
  <1>3. QED
    BY <1>1, <1>2 DEF ServedInv, ServedState

LEMMA ServedNext ==
  (ServedInv /\ IsSupported(call) => ServedState /\ call \in Transactions /\ Readable(call) /\ Shaped)'
  BY ServedNow, PTL

LEMMA BeginsNext == (Fresh => Parses)'
  BY Begins, PTL

(***************************************************************************)
(* Sequences of screens.                                                   *)
(***************************************************************************)

LEMMA SequenceIs ==
  ASSUME NEW T, NEW s \in Seq(T)
  PROVE  IsSequence(s)
  BY DEF IsSequence

LEMMA SameSequence ==
  ASSUME NEW s, NEW t, IsSequence(s), IsSequence(t), Len(s) = Len(t),
         \A i \in 1 .. Len(s) : s[i] = t[i]
  PROVE  s = t
  BY DEF IsSequence

LEMMA TuplesAre ==
  /\ \A a : IsSequence(<< a >>)
  /\ \A a, b : IsSequence(<< a, b >>)
  /\ \A a, b, c : IsSequence(<< a, b, c >>)
  /\ \A a, b, c, d : IsSequence(<< a, b, c, d >>)
  /\ \A a, b, c, d, e : IsSequence(<< a, b, c, d, e >>)
  <1>1. ASSUME NEW a PROVE IsSequence(<< a >>)
    <2>1. << a >> \in Seq({a})
      OBVIOUS
    <2>2. QED
      BY <2>1, SequenceIs
  <1>2. ASSUME NEW a, NEW b PROVE IsSequence(<< a, b >>)
    <2>1. << a, b >> \in Seq({a, b})
      OBVIOUS
    <2>2. QED
      BY <2>1, SequenceIs
  <1>3. ASSUME NEW a, NEW b, NEW c PROVE IsSequence(<< a, b, c >>)
    <2>1. << a, b, c >> \in Seq({a, b, c})
      OBVIOUS
    <2>2. QED
      BY <2>1, SequenceIs
  <1>4. ASSUME NEW a, NEW b, NEW c, NEW d PROVE IsSequence(<< a, b, c, d >>)
    <2>1. << a, b, c, d >> \in Seq({a, b, c, d})
      OBVIOUS
    <2>2. QED
      BY <2>1, SequenceIs
  <1>5. ASSUME NEW a, NEW b, NEW c, NEW d, NEW e PROVE IsSequence(<< a, b, c, d, e >>)
    <2>1. << a, b, c, d, e >> \in Seq({a, b, c, d, e})
      OBVIOUS
    <2>2. QED
      BY <2>1, SequenceIs
  <1>6. QED
    BY <1>1, <1>2, <1>3, <1>4, <1>5

\* The screens are a sequence.
LEMMA ScreensSequence ==
  ASSUME selectorIndex \in SelectorIndexes,
         selectorIndex \in {"RENEW_ALL", "MULTICALL"} => count \in 0 .. 3
  PROVE  IsSequence(ScreensOf)
  <1>1. CASE selectorIndex = "RENEW_ALL"
    <2>1. PICK n \in 0 .. 3 : n = count
      BY <1>1
    <2>2. PICK names, d : /\ names = [i \in 1 .. n |-> set_name_ui(i - 1, "Name")]
                          /\ d = << set_bytes32_as_int_unit_ui("duration", "Duration") >>
      OBVIOUS
    <2>3. ScreensOf = names \o d
      BY <1>1, <2>1, <2>2 DEF ScreensOf, RenewAllScreens
    <2>4. PICK T : T = { names[i] : i \in 1 .. n } \cup { set_bytes32_as_int_unit_ui("duration", "Duration") }
      OBVIOUS
    <2>5. names \in Seq(T) /\ d \in Seq(T)
      <3>1. \A i \in 1 .. n : names[i] \in T
        BY <2>4
      <3>2. names = [i \in 1 .. n |-> names[i]] /\ n \in Nat
        BY <2>2
      <3>3. names \in Seq(T)
        BY <3>1, <3>2
      <3>4. d \in Seq(T)
        BY <2>2, <2>4
      <3>5. QED
        BY <3>3, <3>4
    <2>6. names \o d \in Seq(T)
      BY <2>5
    <2>7. QED
      BY <2>3, <2>6, SequenceIs
  <1>2. CASE selectorIndex = "MULTICALL"
    <2>1. PICK n \in 0 .. 3 : n = count
      BY <1>2
    <2>2. PICK s : s = [i \in 1 .. n |-> set_bytes_ui(i - 1, "Call")]
      OBVIOUS
    <2>3. ScreensOf = s
      BY <1>2, <2>1, <2>2 DEF ScreensOf, MulticallScreens
    <2>4. s \in Seq({ s[i] : i \in 1 .. n })
      <3>1. PICK T : T = { s[i] : i \in 1 .. n }
        OBVIOUS
      <3>2. \A i \in 1 .. n : s[i] \in T
        BY <3>1
      <3>3. s = [i \in 1 .. n |-> s[i]] /\ n \in Nat
        BY <2>2
      <3>4. QED
        BY <3>1, <3>2, <3>3
    <2>5. QED
      BY <2>3, <2>4, SequenceIs
  <1>3. CASE selectorIndex \in {"COMMIT", "SET_NAME"}
    BY <1>3, TuplesAre DEF ScreensOf, CommitScreens, SetNameScreens
  <1>4. CASE selectorIndex \in {"RENEW", "SET_OWNER", "SET_RESOLVER", "SET_CONTENT_HASH"}
    BY <1>4, TuplesAre
    DEF ScreensOf, RenewScreens, SetOwnerScreens, SetResolverScreens, SetContentHashScreens
  <1>5. CASE selectorIndex \in {"SET_TEXT", "SET_ADDR", "PROVE_AND_CLAIM"}
    BY <1>5, TuplesAre DEF ScreensOf, SetTextScreens, SetAddrScreens, ClaimScreens
  <1>6. CASE selectorIndex = "REGISTER"
    BY <1>6, TuplesAre DEF ScreensOf, RegisterScreens
  <1>7. CASE selectorIndex \in {"REGISTER_WITH_CONFIG", "SET_SUBNODE", "PROVE_AND_CLAIM_RESOLVER"}
    BY <1>7, TuplesAre
    DEF ScreensOf, RegisterWithConfigScreens, SetSubnodeScreens, ClaimResolverScreens
  <1>8. QED
    BY <1>1, <1>2, <1>3, <1>4, <1>5, <1>6, <1>7 DEF SelectorIndexes, selector_t

(***************************************************************************)
(* The steps.                                                              *)
(***************************************************************************)

\* What is shown of the context when it is left alone.
LEMMA ContextKept ==
  ASSUME UNCHANGED context
  PROVE  ScreensOf' = ScreensOf /\ Version' = Version
  <1>1. /\ selectorIndex' = selectorIndex /\ statics' = statics /\ len' = len
        /\ text' = text /\ ellipsis' = ellipsis /\ count' = count
    BY DEF context, cursor, fields
  <1>2. \A k, i, j : Printed(k, i, j)' = Printed(k, i, j)
    BY <1>1 DEF Printed
  <1>3. \A k, t : set_name_ui(k, t)' = set_name_ui(k, t)
    BY <1>1, <1>2 DEF set_name_ui
  <1>4. \A k, t : set_bytes_ui(k, t)' = set_bytes_ui(k, t)
    BY <1>1 DEF set_bytes_ui
  <1>5. \A f, n : Span(f, n)' = Span(f, n)
    BY <1>1 DEF Span
  <1>6. \A f, t : /\ set_bytes32_ui(f, t)' = set_bytes32_ui(f, t)
                  /\ set_addr_ui(f, t)' = set_addr_ui(f, t)
                  /\ set_bytes32_as_int_ui(f, t)' = set_bytes32_as_int_ui(f, t)
                  /\ set_bytes32_as_int_unit_ui(f, t)' = set_bytes32_as_int_unit_ui(f, t)
    BY <1>1, <1>5
    DEF set_bytes32_ui, set_addr_ui, set_bytes32_as_int_ui, set_bytes32_as_int_unit_ui
  <1>7. /\ CommitScreens' = CommitScreens /\ SetNameScreens' = SetNameScreens
        /\ RenewScreens' = RenewScreens /\ SetOwnerScreens' = SetOwnerScreens
        /\ SetResolverScreens' = SetResolverScreens
        /\ SetContentHashScreens' = SetContentHashScreens
    BY <1>3, <1>4, <1>6
    DEF CommitScreens, SetNameScreens, RenewScreens, SetOwnerScreens, SetResolverScreens,
        SetContentHashScreens
  <1>8. /\ SetTextScreens' = SetTextScreens /\ SetAddrScreens' = SetAddrScreens
        /\ ClaimScreens' = ClaimScreens /\ RegisterScreens' = RegisterScreens
    BY <1>3, <1>4, <1>6 DEF SetTextScreens, SetAddrScreens, ClaimScreens, RegisterScreens
  <1>9. /\ RegisterWithConfigScreens' = RegisterWithConfigScreens
        /\ SetSubnodeScreens' = SetSubnodeScreens
        /\ ClaimResolverScreens' = ClaimResolverScreens
    BY <1>3, <1>4, <1>6 DEF RegisterWithConfigScreens, SetSubnodeScreens, ClaimResolverScreens
  <1>10. MulticallScreens' = MulticallScreens
    BY <1>1, <1>4 DEF MulticallScreens
  <1>11. RenewAllScreens' = RenewAllScreens
    BY <1>1, <1>3, <1>6 DEF RenewAllScreens
  <1>12. ScreensOf' = ScreensOf
    BY <1>1, <1>7, <1>8, <1>9, <1>10, <1>11 DEF ScreensOf
  <1>13. QED
    BY <1>1, <1>12 DEF Version

\* What the transaction says does not change with the state.
LEMMA CallKept ==
  ASSUME call' = call
  PROVE  /\ IsSupported(call)' = IsSupported(call)
         /\ DisplayLeft(call)' = DisplayLeft(call)
         /\ Operation(call)' = Operation(call)
         /\ Sent(call)' = Sent(call)
  OBVIOUS

\* A session starts.
LEMMA SignShown ==
  ASSUME ServedInv', NEW c \in Calls, Sign(c)
  PROVE  DisplayInv'
  <1>1. /\ call' = c /\ c \in Transactions
        /\ parameterOffset' = SELECTOR_SIZE
        /\ phase' = IF result' = "OK" THEN "parsing" ELSE "refused"
    BY CallsAssumption DEF Sign, InitContract, Continue
  <1>2. result' = "OK" /\ ClearContext(find_selector(c.selector), FirstParam(find_selector(c.selector)))
    BY <1>1, SelectorFound DEF Sign, InitContract, handle_init_contract
  <1>3. /\ selectorIndex' = find_selector(c.selector)
        /\ next_param' = FirstParam(find_selector(c.selector))
        /\ go_to_offset' = FALSE
        /\ statics' = [f \in Statics |-> NoStatic]
        /\ len' = [k \in Slots |-> 0]
        /\ text' = [k \in Slots |-> NoBytes]
        /\ ellipsis' = [k \in Slots |-> FALSE]
        /\ count' = 0 /\ id' = 0
    BY <1>2 DEF ClearContext
  <1>4. Buffers'
    BY <1>3 DEF Buffers
  <1>5. ASSUME IsSupported(c)
        PROVE  phase' = "parsing" /\ WordNumber' <= Len(Sent(c)) + 1 /\ Parses'
    <2>1. WordNumber' = 1
      BY <1>1 DEF WordNumber, PARAMETER_LENGTH, SELECTOR_SIZE
    <2>2. Len(Sent(c)) \in Nat
      BY <1>1, <1>5, SentWords DEF IsSupported
    <2>3. 1 <= Len(Sent(c)) + 1
      BY <2>2
    <2>4. Fresh'
      BY <1>1, <1>3, <1>5, <2>1 DEF Fresh, IsSupported
    <2>5. Parses'
      BY <2>4, BeginsNext
    <2>6. QED
      BY <1>1, <1>2, <2>1, <2>3, <2>5
  <1>6. QED
    BY <1>1, <1>4, <1>5 DEF DisplayInv

\* A word is handed over.
LEMMA SendWordShown ==
  ASSUME ServedInv, ServedInv', DisplayInv, SendWord
  PROVE  DisplayInv'
  <1>1. PICK w : w = Sent(call)[WordNumber]
    OBVIOUS
  <1>2. PICK n : n = WordNumber
    OBVIOUS
  <1>3. /\ phase = "parsing" /\ call' = call /\ n \in DOMAIN Sent(call)
        /\ handle_provide_parameter(w)
        /\ phase' = IF result' = "OK" THEN "parsing" ELSE "refused"
        /\ parameterOffset' = parameterOffset + PARAMETER_LENGTH
    BY <1>1, <1>2 DEF SendWord, ProvideParameter, Continue
  <1>4. Buffers /\ Buffers'
    BY <1>3, BuffersOfHandler DEF DisplayInv
  <1>5. ASSUME IsSupported(call)
        PROVE  phase' = "parsing" /\ WordNumber' <= Len(Sent(call)) + 1 /\ Parses'
    <2>1. /\ n \in Nat \ {0} /\ parameterOffset = Position(n) /\ Presentable /\ OnTrack
          /\ Shaped /\ call \in Transactions /\ Readable(call)
      BY <1>2, <1>3, <1>5, ServedNow DEF ServedState, Finished
    <2>2. Parses
      BY <1>3, <1>5 DEF DisplayInv
    <2>3. call.large = 0 /\ Supported(call)
      BY <1>5 DEF IsSupported
    <2>4. /\ n \in 1 .. Len(Encode(call)) /\ n <= Len(Sent(call)) /\ Len(Sent(call)) \in Nat
          /\ w = Encode(call)[n] /\ n # call.large
      BY <1>1, <1>2, <1>3, <2>1, <2>3, SentWords
    <2>5. WordNumber' = n + 1
      BY <1>3, <2>1 DEF WordNumber, Position, PARAMETER_LENGTH, SELECTOR_SIZE
    <2>6. Reads(w, n)
      BY <1>2, <1>3, <2>1, <2>4, <2>5 DEF Reads
    <2>7. IsSupported(call)'
      BY <1>3, <1>5
    <2>8. ServedState'
      BY <2>7, ServedNext
    <2>9. phase' # "refused"
      BY <2>8 DEF ServedState, Finished
    <2>10. result' = "OK" /\ phase' = "parsing"
      BY <1>3, <2>9
    <2>11. OnTrack'
      BY <2>8, <2>10 DEF ServedState, Finished
    <2>12. Takes(w, n)
      BY <1>4, <2>1, <2>3, <2>6, <2>10 DEF Takes
    <2>13. selectorIndex = find_selector(call.selector)
      BY <2>1 DEF Presentable
    <2>14. Parses'
      BY <1>3, <2>1, <2>2, <2>11, <2>12, <2>13, WordShown
    <2>15. n + 1 <= Len(Sent(call)) + 1
      BY <2>1, <2>4
    <2>16. QED
      BY <2>5, <2>10, <2>14, <2>15
  <1>6. QED
    BY <1>3, <1>4, <1>5 DEF DisplayInv

\* The calldata ends.
LEMMA EndShown ==
  ASSUME ServedInv, DisplayInv, EndOfCalldata
  PROVE  DisplayInv'
  <1>1. /\ phase = "parsing" /\ call' = call /\ WordNumber \notin DOMAIN Sent(call)
        /\ numScreens' = FinalizeScreens
        /\ phase' = "finalized" /\ shown' = shown /\ UNCHANGED context
    BY DEF EndOfCalldata, Finalize, Continue
  <1>2. Buffers'
    BY <1>1 DEF DisplayInv, Buffers, context, fields
  <1>3. ASSUME IsSupported(call) PROVE Reviews'
    <2>1. /\ WordNumber \in Nat \ {0} /\ shown = << >> /\ Presentable
          /\ call \in Transactions
      BY <1>1, <1>3, ServedNow DEF ServedState, Finished
    <2>2. Parses /\ WordNumber <= Len(Sent(call)) + 1
      BY <1>1, <1>3 DEF DisplayInv
    <2>3. call.large = 0 /\ Supported(call)
      BY <1>3 DEF IsSupported
    <2>4. Len(Sent(call)) \in Nat /\ DOMAIN Sent(call) = 1 .. Len(Sent(call))
      BY <2>1, <2>3, SentWords
    <2>5. WordNumber = Len(Sent(call)) + 1
      BY <1>1, <2>1, <2>2, <2>4
    <2>6. Complete
      BY <2>1, <2>3, <2>5 DEF Complete, Presentable
    <2>7. Showing /\ Version = Operation(call)
      BY <2>1, <2>2, <2>6, AllShown DEF Presentable
    <2>8. ScreensOf' = ScreensOf /\ Version' = Version
      BY <1>1, ContextKept
    <2>9. /\ ScreensOf' = DisplayLeft(call)' /\ Version' = Operation(call)'
      BY <1>1, <2>7, <2>8 DEF Showing
    <2>10. numScreens' = Len(ScreensOf')
      BY <1>1, <2>7, <2>8 DEF Showing
    <2>11. Len(shown') = 0
      BY <1>1, <2>1
    <2>12. FinalizeScreens \in Nat
      <3>1. selectorIndex \in SelectorIndexes
        BY <2>1, Handlers, SelectorFound
        DEF Presentable, OneData, TwoData, OneArray, NoData, SelectorIndexes, selector_t
      <3>2. QED
        BY <2>1, <3>1, ScreensReady DEF Presentable
    <2>13. Len(shown') <= numScreens' /\ \A i \in 1 .. Len(shown') : shown'[i] = ScreensOf'[i]
      BY <1>1, <2>11, <2>12
    <2>14. QED
      BY <1>1, <2>9, <2>10, <2>13 DEF Reviews
  <1>4. QED
    BY <1>1, <1>2, <1>3 DEF DisplayInv

\* The review goes on.
LEMMA ReviewShown ==
  ASSUME ServedInv, ServedInv', DisplayInv, Review
  PROVE  DisplayInv'
  <1>1. /\ call' = call /\ phase \in {"finalized", "resolved", "review"}
        /\ UNCHANGED <<context, numScreens>>
    BY DEF Review, ProvideToken, QueryContractId, QueryContractUi
  <1>2. Buffers'
    BY <1>1 DEF DisplayInv, Buffers, context, fields
  <1>3. ASSUME IsSupported(call)
        PROVE  phase' \in {"resolved", "review", "reviewed"} /\ Reviews'
    <2>1. Reviews /\ Presentable /\ Finished
      BY <1>1, <1>3, ServedNow DEF DisplayInv, ServedState
    <2>2. IsSupported(call)'
      BY <1>1, <1>3
    <2>3. ServedState'
      BY <2>2, ServedNext
    <2>4. phase' # "refused"
      BY <2>3 DEF ServedState, Finished
    <2>5. ScreensOf' = ScreensOf /\ Version' = Version
      BY <1>1, ContextKept
    <2>6. /\ ScreensOf' = DisplayLeft(call)' /\ Version' = Operation(call)'
          /\ numScreens' = Len(ScreensOf')
      BY <1>1, <2>1, <2>5 DEF Reviews
    <2>7. IsSequence(shown) /\ Len(shown) \in Nat
      BY <2>1, OneMore DEF Finished
    <2>8. CASE ProvideToken
      <3>1. phase' = "resolved" /\ shown' = shown
        BY <2>8 DEF ProvideToken, Continue
      <3>2. QED
        BY <1>1, <2>1, <2>5, <2>6, <3>1 DEF Reviews
    <2>9. CASE QueryContractId
      <3>1. /\ phase' = IF numScreens = 0 THEN "reviewed" ELSE "review"
            /\ shown' = shown /\ shown = << >> /\ version' = Version
        BY <2>1, <2>9 DEF QueryContractId, Continue, Finished
      <3>2. Len(shown') = 0
        BY <3>1
      <3>3. phase' = "reviewed" => Len(shown') = numScreens'
        BY <1>1, <3>1, <3>2
      <3>4. QED
        BY <1>1, <2>1, <2>5, <2>6, <3>1, <3>3 DEF Reviews
    <2>10. CASE QueryContractUi
      <3>1. PICK k \in Nat : k = Len(shown)
        BY <2>7
      <3>2. PICK m : m = numScreens
        OBVIOUS
      <3>3. phase = "review" /\ k < m
        BY <2>1, <2>10, <3>1, <3>2 DEF QueryContractUi, Finished
      <3>4. ~(result' # "OK")
        BY <2>4, <2>10 DEF QueryContractUi, Continue
      <3>5. /\ shown' = Append(shown, ScreensOf[k + 1])
            /\ phase' = IF k + 1 = m THEN "reviewed" ELSE "review"
            /\ version' = version
        BY <2>10, <3>1, <3>2, <3>4 DEF QueryContractUi, Continue
      <3>6. m \in Nat
        <4>1. selectorIndex \in SelectorIndexes
          BY <2>1, <1>1, <1>3, ServedNow, Handlers, SelectorFound
          DEF Presentable, OneData, TwoData, OneArray, NoData, SelectorIndexes, selector_t
        <4>2. FinalizeScreens \in Nat
          BY <2>1, <4>1, ScreensReady DEF Presentable
        <4>3. QED
          BY <2>1, <3>2, <4>2 DEF Finished
      <3>7. Len(shown') = k + 1
        BY <2>7, <3>1, <3>5, OneMore
      <3>8. \A i \in 1 .. k + 1 : shown'[i] = ScreensOf[i]
        <4>1. \A i \in 1 .. k : shown[i] = ScreensOf[i]
          BY <2>1, <3>1 DEF Reviews
        <4>2. PICK x, S : x = ScreensOf[k + 1] /\ S = { shown[i] : i \in DOMAIN shown } \cup {x}
          OBVIOUS
        <4>3. shown \in Seq(S) /\ x \in S
          BY <2>7, <4>2 DEF IsSequence
        <4>4. PICK t : t = Append(shown, x)
          OBVIOUS
        <4>5. /\ \A i \in 1 .. k : t[i] = shown[i]
              /\ t[k + 1] = x
          BY <3>1, <4>3, <4>4
        <4>6. ASSUME NEW i \in 1 .. k + 1 PROVE t[i] = ScreensOf[i]
          <5>1. CASE i = k + 1
            BY <4>2, <4>5, <5>1
          <5>2. CASE i # k + 1
            <6>1. i \in 1 .. k
              BY <3>1, <5>2
            <6>2. QED
              BY <4>1, <4>5, <6>1
          <5>3. QED
            BY <5>1, <5>2
        <4>7. QED
          BY <3>5, <4>2, <4>4, <4>6
      <3>9. k + 1 <= m /\ numScreens' = m
        BY <1>1, <3>2, <3>3, <3>6
      <3>10. version' = Version'
        BY <2>1, <2>5, <3>3, <3>5 DEF Reviews
      <3>11. QED
        BY <1>1, <2>5, <2>6, <3>5, <3>7, <3>8, <3>9, <3>10 DEF Reviews
    <2>11. QED
      BY <2>8, <2>9, <2>10 DEF Review
  <1>4. QED
    BY <1>1, <1>2, <1>3 DEF DisplayInv

\* Nothing happens.
LEMMA StutterShown ==
  ASSUME DisplayInv, UNCHANGED signing
  PROVE  DisplayInv'
  <1>1. /\ call' = call /\ phase' = phase /\ shown' = shown /\ numScreens' = numScreens
        /\ version' = version /\ parameterOffset' = parameterOffset
        /\ next_param' = next_param /\ offset' = offset /\ go_to_offset' = go_to_offset
        /\ selectorIndex' = selectorIndex /\ statics' = statics /\ len' = len
        /\ text' = text /\ ellipsis' = ellipsis /\ count' = count /\ id' = id
        /\ bytes_missing' = bytes_missing
        /\ UNCHANGED context
    BY DEF signing, vars, host, context, cursor, fields, globals
  <1>2. WordNumber' = WordNumber /\ (\A i : NumberWord(i)' = NumberWord(i))
    BY <1>1 DEF WordNumber, NumberWord
  <1>3. /\ \A f, i, b : WordKept(f, i, b)' = WordKept(f, i, b)
        /\ \A f, a, v : DataKept(f, a, v)' = DataKept(f, a, v)
        /\ \A n, p : Now(n, p)' = Now(n, p)
        /\ \A n, p : Sought(n, p)' = Sought(n, p)
    BY <1>1, <1>2 DEF WordKept, DataKept, Now, Sought
  <1>4. \A f, a, v : InData(f, a, v)' = InData(f, a, v)
    BY <1>1, <1>2, <1>3 DEF InData
  <1>5. \A f, p, a, v : InLast(f, p, a, v)' = InLast(f, p, a, v)
    BY <1>3, <1>4 DEF InLast
  <1>6. /\ ParsesCommit' = ParsesCommit /\ ParsesSetOwner' = ParsesSetOwner
        /\ ParsesSetResolver' = ParsesSetResolver /\ ParsesSetSubnode' = ParsesSetSubnode
    BY <1>3 DEF ParsesCommit, ParsesSetOwner, ParsesSetResolver, ParsesSetSubnode
  <1>7. ParsesRegister' = ParsesRegister
    BY <1>1, <1>2, <1>3, <1>5 DEF ParsesRegister
  <1>8. ParsesRegisterWithConfig' = ParsesRegisterWithConfig
    BY <1>1, <1>2, <1>3, <1>5 DEF ParsesRegisterWithConfig
  <1>9. ParsesRenew' = ParsesRenew /\ ParsesSetName' = ParsesSetName
    BY <1>1, <1>2, <1>3, <1>5 DEF ParsesRenew, ParsesSetName
  <1>10. ParsesSetAddr' = ParsesSetAddr /\ ParsesSetContentHash' = ParsesSetContentHash
    BY <1>1, <1>2, <1>3, <1>5 DEF ParsesSetAddr, ParsesSetContentHash
  <1>11. ParsesSetText' = ParsesSetText
    BY <1>1, <1>2, <1>3, <1>4, <1>5 DEF ParsesSetText
  <1>12. \A h : ParsesClaim(h)' = ParsesClaim(h) /\ ParsesClaimKept(h)' = ParsesClaimKept(h)
    BY <1>1, <1>2, <1>3, <1>4, <1>5 DEF ParsesClaim, ParsesClaimKept
  <1>13. ParsesProveClaim' = ParsesProveClaim /\ ParsesProveClaimResolver' = ParsesProveClaimResolver
    BY <1>3, <1>12 DEF ParsesProveClaim, ParsesProveClaimResolver
  <1>14. \A f : ElementsKept(f)' = ElementsKept(f)
    BY <1>1, <1>3 DEF ElementsKept
  <1>15. \A h, p, f, e : ParsesElement(h, p, f, e)' = ParsesElement(h, p, f, e)
    BY <1>1, <1>2, <1>3, <1>4 DEF ParsesElement
  <1>16. \A h, p, f : ParsesArray(h, p, f)' = ParsesArray(h, p, f)
    BY <1>1, <1>2, <1>3, <1>14, <1>15 DEF ParsesArray
  <1>17. ParsesRenewAll' = ParsesRenewAll /\ ParsesMulticall' = ParsesMulticall
    BY <1>1, <1>2, <1>3, <1>16 DEF ParsesRenewAll, ParsesMulticall
  <1>18. Parses' = Parses
    BY <1>1, <1>6, <1>7, <1>8, <1>9, <1>10, <1>11, <1>13, <1>17 DEF Parses
  <1>19. ScreensOf' = ScreensOf /\ Version' = Version
    BY <1>1, ContextKept
  <1>20. Reviews' = Reviews
    BY <1>1, <1>19 DEF Reviews
  <1>21. Buffers' = Buffers
    BY <1>1 DEF Buffers
  <1>22. QED
    BY <1>1, <1>2, <1>18, <1>20, <1>21 DEF DisplayInv

\* Every step keeps what is shown of a supported transaction.
LEMMA NextShown == ServedInv /\ ServedInv' /\ DisplayInv /\ [Next]_signing => DisplayInv'
  <1> SUFFICES ASSUME ServedInv, ServedInv', DisplayInv, [Next]_signing PROVE DisplayInv'
    OBVIOUS
  <1>1. ASSUME NEW c \in Calls, Sign(c) PROVE DisplayInv'
    BY <1>1, SignShown
  <1>2. CASE SendWord
    BY <1>2, SendWordShown
  <1>3. CASE EndOfCalldata
    BY <1>3, EndShown
  <1>4. CASE Review
    BY <1>4, ReviewShown
  <1>5. CASE UNCHANGED signing
    BY <1>5, StutterShown
  <1>6. QED
    BY <1>1, <1>2, <1>3, <1>4, <1>5 DEF Next, Step

\* The context is blank before the first session.
LEMMA InitShown == Init => DisplayInv
  BY DEF Init, HostInit, DisplayInv, Buffers

LEMMA AlwaysShown == Spec => [](ServedInv /\ DisplayInv)
  <1>1. Init => ServedInv /\ DisplayInv
    BY InitServed, InitShown
  <1>2. ServedInv /\ DisplayInv /\ [Next]_signing => (ServedInv /\ DisplayInv)'
    BY NextServed, NextShown
  <1>3. QED
    BY <1>1, <1>2, PTL DEF Spec

\* What has been shown at the end of a review is the whole display.
LEMMA AllOfDisplay ==
  ASSUME ServedInv, DisplayInv, phase = "reviewed", IsSupported(call)
  PROVE  shown = DisplayLeft(call) /\ version = Operation(call)
  <1>1. Reviews /\ Presentable /\ Finished /\ call \in Transactions
    BY ServedNow DEF DisplayInv, ServedState
  <1>2. IsSequence(shown)
    BY <1>1 DEF Finished
  <1>3. IsSequence(ScreensOf)
    <2>1. selectorIndex \in SelectorIndexes
      BY <1>1, Handlers, SelectorFound
      DEF Presentable, OneData, TwoData, OneArray, NoData, SelectorIndexes, selector_t
    <2>2. QED
      BY <1>1, <2>1, ScreensSequence DEF Presentable
  <1>4. Len(shown) = Len(ScreensOf) /\ \A i \in 1 .. Len(shown) : shown[i] = ScreensOf[i]
    BY <1>1 DEF Reviews
  <1>5. shown = ScreensOf
    BY <1>2, <1>3, <1>4, SameSequence
  <1>6. QED
    BY <1>1, <1>5 DEF Reviews

\* A supported transaction whose calldata ends early is reviewed for what
\* arrived of it: handle_finalize does not know, but every screen shows the
\* bytes of its own parameter that were read in this session, and no others.
THEOREM TruncatedIsShown == Spec => []TruncatedDisplay
  <1>1. ServedInv /\ DisplayInv => TruncatedDisplay
    BY AllOfDisplay DEF TruncatedDisplay
  <1>2. QED
    BY <1>1, AlwaysShown, PTL

\* When a supported transaction, sent whole, has been reviewed, the user has
\* seen every parameter README.md lists for its function (but the proof of
\* renewAll, which no screen shows), in order, each byte from its place in the
\* calldata, and the name of the operation: whatever the lengths, the offsets
\* and the number of elements, and whatever was signed before.
THEOREM SupportedIsShown == Spec => []ReadmeDisplay
  <1>1. ASSUME ServedInv, DisplayInv PROVE ReadmeDisplay
    <2>1. SUFFICES ASSUME phase = "reviewed", IsSupported(call), Intact(call)
                   PROVE  shown = Display(call) /\ version = Operation(call)
      BY DEF ReadmeDisplay
    <2>2. DisplayLeft(call) = Display(call)
      BY <2>1 DEF DisplayLeft, Intact
    <2>3. QED
      BY <1>1, <2>1, <2>2, AllOfDisplay
  <1>2. QED
    BY <1>1, AlwaysShown, PTL

(***************************************************************************)
(* The calldata of an array.                                               *)
(***************************************************************************)

\* The number of words before an array's.
HeadWords(c) == IF c.selector = "e8d6dbb4" THEN 2 ELSE 1

\* The number of elements of an array comes after the head.
LEMMA CountWord ==
  ASSUME NEW c \in Transactions, c.selector \in {"e8d6dbb4", "ac9650d8"}
  PROVE  /\ Encode(c) \in Seq(Word)
         /\ HeadWords(c) < Len(Encode(c))
         /\ Encode(c)[HeadWords(c) + 1] = Quantity(Len(c.lens))
  <1> DEFINE kinds == Signature(c.selector)
             h     == HeadWords(c)
             n     == Len(c.lens)
             t     == TailOf(c, 1)
             words == Encode(c)
  <1>1. h \in 1 .. 2 /\ Len(kinds) = h /\ 1 \in DOMAIN kinds /\ kinds[1] = "array"
    <2>1. \/ kinds = << "array", "word" >> /\ h = 2
          \/ kinds = << "array" >> /\ h = 1
      BY Signatures DEF HeadWords
    <2> HIDE DEF kinds, h
    <2>2. CASE kinds = << "array", "word" >> /\ h = 2
      <3>1. Len(kinds) = 2 /\ kinds[1] = "array" /\ DOMAIN kinds = 1 .. 2
        BY <2>2
      <3>2. QED
        BY <2>2, <3>1
    <2>3. CASE kinds = << "array" >> /\ h = 1
      <3>1. Len(kinds) = 1 /\ kinds[1] = "array" /\ DOMAIN kinds = 1 .. 1
        BY <2>3
      <3>2. QED
        BY <2>3, <3>1
    <2>4. QED
      BY <2>1, <2>2, <2>3
  <1>2. /\ t[1] = Quantity(n)
        /\ Len(t) = 1 + n + Before(ElementParts(c), n)
    BY <1>1, ArrayTail
  <1>3. n \in Nat /\ Before(ElementParts(c), n) \in Nat
    <2>1. ElementParts(c) \in Seq(Seq(Word)) /\ Len(ElementParts(c)) = n /\ n \in Nat
      BY <1>1, ElementsType, KindType
    <2> HIDE DEF n
    <2>2. Before(ElementParts(c), n) \in Nat
      BY <2>1, PartStarts
    <2>3. QED
      BY <2>1, <2>2
  <1>4. words \in Seq(Word) /\ Len(words) \in Nat
    BY EncodeShape
  <1>5. /\ TailWord(c, 1) + 1 <= Len(words)
        /\ words[TailWord(c, 1) + 1] = t[1]
    <2>1. 1 \in 1 .. Len(kinds)
      BY <1>1
    <2>2. 1 \in 1 .. Len(t)
      <3> HIDE DEF n, t
      <3>1. QED
        BY <1>2, <1>3
    <2>3. QED
      BY <2>1, <2>2, EncodeShape
  <1>6. TailWord(c, 1) = h
    BY <1>1, TailWords
  <1> HIDE DEF h, n, t, words
  <1>7. h < Len(words) /\ words[h + 1] = Quantity(n)
    BY <1>1, <1>2, <1>4, <1>5, <1>6
  <1>8. QED
    BY <1>4, <1>7 DEF h, n, words

\* An intact call is sent as it was encoded.
LEMMA IntactSent ==
  ASSUME NEW c \in Transactions, Encode(c) \in Seq(Word), Intact(c)
  PROVE  Sent(c) = Encode(c)
  <1>1. Sent(c) = SubSeq(Encode(c), 1, Len(Encode(c)))
    BY DEF Sent, Intact
  <1>2. QED
    BY <1>1

(***************************************************************************)
(* The specification.                                                      *)
(***************************************************************************)

\* The host is about to hand over word n, which p expects.
Reading(n, p) ==
    /\ phase = "parsing"
    /\ next_param = p
    /\ go_to_offset = FALSE
    /\ parameterOffset = SELECTOR_SIZE + PARAMETER_LENGTH * (n - 1)

\* The words of a call that is over the limit are read up to the one with the
\* number of its elements.
ReadingRenewAll ==
    /\ call.selector = "e8d6dbb4"
    /\ selectorIndex = "RENEW_ALL"
    /\ Reading(1, "NAME_OFFSET") \/ Reading(2, "DURATION") \/ Reading(3, "N_NAME")

ReadingMulticall ==
    /\ call.selector = "ac9650d8"
    /\ selectorIndex = "MULTICALL"
    /\ Reading(1, "CALL_OFFSET") \/ Reading(2, "N_CALL")

LimitInv ==
    OverLimit(call) /\ Intact(call)
      => phase \in {"idle", "refused"} \/ ReadingRenewAll \/ ReadingMulticall

LimitsInv == call \in Calls /\ LimitInv

\* The handlers of the functions with an array.
LEMMA ArraySelectors ==
  /\ find_selector("e8d6dbb4") = "RENEW_ALL"
  /\ find_selector("ac9650d8") = "MULTICALL"
  /\ FirstParam("RENEW_ALL") = "NAME_OFFSET"
  /\ FirstParam("MULTICALL") = "CALL_OFFSET"
  <1>1. SelectorMatches("e8d6dbb4") = {6} /\ SelectorMatches("ac9650d8") = {14}
    BY DEF SelectorMatches, ENS_SELECTORS
  <1>2. (CHOOSE i \in {6} : \A j \in {6} : i <= j) = 6
    OBVIOUS
  <1>3. (CHOOSE i \in {14} : \A j \in {14} : i <= j) = 14
    OBVIOUS
  <1>4. QED
    BY <1>1, <1>2, <1>3 DEF find_selector, selector_t, FirstParam

\* A session of a call over the limit starts before its first word.
LEMMA SignLimit ==
  ASSUME LimitsInv, NEW c \in Calls, Sign(c)
  PROVE  LimitsInv'
  <1>1. call' = c
    BY DEF Sign
  <1> SUFFICES ASSUME OverLimit(c), phase' # "refused"
               PROVE  ReadingRenewAll' \/ ReadingMulticall'
    BY <1>1 DEF LimitsInv, LimitInv
  <1>2. /\ result' = "OK" /\ phase' = "parsing"
        /\ parameterOffset' = SELECTOR_SIZE
    BY DEF Sign, InitContract, Continue
  <1>3. ClearContext(find_selector(c.selector), FirstParam(find_selector(c.selector)))
    BY <1>2 DEF Sign, InitContract, handle_init_contract
  <1>4. CASE c.selector = "e8d6dbb4"
    BY <1>1, <1>2, <1>3, <1>4, ArraySelectors
    DEF ClearContext, ReadingRenewAll, Reading, SELECTOR_SIZE, PARAMETER_LENGTH
  <1>5. CASE c.selector = "ac9650d8"
    BY <1>1, <1>2, <1>3, <1>5, ArraySelectors
    DEF ClearContext, ReadingMulticall, Reading, SELECTOR_SIZE, PARAMETER_LENGTH
  <1>6. QED
    BY <1>4, <1>5 DEF OverLimit

\* The cases of a name's data in renewAll.
LEMMA NameCases ==
  ReadField(NameElement, len[id], NextElement("NAME_LENGTH"))
    => next_param \in {"NAME", "NAME_OFFSET_1", "NAME_OFFSET_2"}
  BY DEF ReadField, NameElement, NameField

\* And those of a call's.
LEMMA CallCases ==
  ReadField(CallElement, len[id], NextElement("CALL_LEN"))
    => next_param \in {"CALL", "CALL_1", "CALL_2"}
  BY DEF ReadField, CallElement

\* A number of elements over the limit is refused, whatever its width.
LEMMA CountRefused ==
  ASSUME NEW n \in Nat, NEW limit \in Nat, n > limit, ReadCount(Quantity(n), limit)
  PROVE  result' # "OK"
  <1> SUFFICES ~(Quantity(n).small /\ Quantity(n).low \in 1 .. limit)
    BY DEF ReadCount, Refuse
  <1>1. CASE n <= UINT16_MAX
    <2>1. Quantity(n).low = n
      BY <1>1 DEF Quantity, U16, UINT16_MAX
    <2>2. QED
      BY <2>1
  <1>2. CASE ~(n <= UINT16_MAX)
    <2>1. ~Quantity(n).small
      BY <1>2, Zenon DEF Quantity
    <2>2. QED
      BY <2>1
  <1>3. QED
    BY <1>1, <1>2

\* The host has a word for each case up to that of the number of elements,
\* which is the one with that number.
LEMMA WordsThere ==
  ASSUME LimitsInv, OverLimit(call), Intact(call), NEW n \in 1 .. 3,
         n <= HeadWords(call) + 1,
         parameterOffset = SELECTOR_SIZE + PARAMETER_LENGTH * (n - 1)
  PROVE  /\ WordNumber = n
         /\ n \in DOMAIN Sent(call)
         /\ n = HeadWords(call) + 1 => Sent(call)[n] = Quantity(Len(call.lens))
  <1>1. call \in Transactions /\ call.selector \in {"e8d6dbb4", "ac9650d8"}
    BY CallsAssumption DEF LimitsInv, OverLimit
  <1>2. /\ Encode(call) \in Seq(Word)
        /\ HeadWords(call) < Len(Encode(call))
        /\ Encode(call)[HeadWords(call) + 1] = Quantity(Len(call.lens))
    BY <1>1, CountWord
  <1>3. Sent(call) = Encode(call)
    BY <1>1, <1>2, IntactSent
  <1>4. WordNumber = n
    BY DEF WordNumber, SELECTOR_SIZE, PARAMETER_LENGTH
  <1>5. HeadWords(call) \in 1 .. 2 /\ Len(Encode(call)) \in Nat
    BY <1>2 DEF HeadWords
  <1>6. QED
    BY <1>2, <1>3, <1>4, <1>5

\* The words of renewAll up to its number of names.
LEMMA RenewAllLimit ==
  ASSUME LimitsInv, OverLimit(call), Intact(call), ReadingRenewAll, SendWord
  PROVE  phase' = "refused" \/ ReadingRenewAll'
  <1> DEFINE w == Sent(call)[WordNumber]
  <1>1. /\ ProvideParameter(w) /\ UNCHANGED call /\ UNCHANGED selectorIndex
        /\ call.selector = "e8d6dbb4" /\ selectorIndex = "RENEW_ALL"
    BY DEF SendWord, ProvideParameter, handle_provide_parameter, ReadingRenewAll
  <1>2. /\ phase' = IF result' = "OK" THEN "parsing" ELSE "refused"
        /\ parameterOffset' = parameterOffset + PARAMETER_LENGTH
        /\ handle_provide_parameter(w)
        /\ go_to_offset = FALSE
    BY <1>1 DEF ProvideParameter, Continue, ReadingRenewAll, Reading
  <1> HIDE DEF w
  <1>3. result' # "OK" \/ handle_renew_all(w)
    BY <1>1, <1>2 DEF handle_provide_parameter, ParseWord, Refuse
  <1>4. CASE Reading(1, "NAME_OFFSET")
    <2>1. result' # "OK" \/ SaveArrayOffset(w, "DURATION")
      BY <1>2, <1>3, <1>4, NameCases
      DEF handle_renew_all, Reading, SkipToOffset, IgnoreWord
    <2>2. result' # "OK" \/ (next_param' = "DURATION" /\ go_to_offset' = FALSE)
      BY <2>1 DEF SaveArrayOffset, Refuse, Advance
    <2>3. QED
      BY <1>1, <1>2, <1>4, <2>2
      DEF ReadingRenewAll, Reading, SELECTOR_SIZE, PARAMETER_LENGTH
  <1>5. CASE Reading(2, "DURATION")
    <2>1. result' # "OK" \/ CopyParameter(w, "duration", "N_NAME")
      BY <1>2, <1>3, <1>5, NameCases
      DEF handle_renew_all, Reading, SkipToOffset, IgnoreWord
    <2>2. result' # "OK" \/ (next_param' = "N_NAME" /\ go_to_offset' = FALSE)
      BY <2>1 DEF CopyParameter, Advance
    <2>3. QED
      BY <1>1, <1>2, <1>5, <2>2
      DEF ReadingRenewAll, Reading, SELECTOR_SIZE, PARAMETER_LENGTH
  <1>6. CASE Reading(3, "N_NAME")
    <2>1. result' # "OK" \/ ReadCount(w, 2)
      BY <1>2, <1>3, <1>6, NameCases
      DEF handle_renew_all, Reading, SkipToOffset, IgnoreWord
    <2>2. HeadWords(call) = 2 /\ parameterOffset = SELECTOR_SIZE + PARAMETER_LENGTH * (3 - 1)
      BY <1>1, <1>6 DEF HeadWords, Reading
    <2>3. w = Quantity(Len(call.lens))
      BY <2>2, WordsThere DEF w
    <2>4. Len(call.lens) \in Nat /\ Len(call.lens) > 2
      BY <1>1, CallsAssumption DEF LimitsInv, Transactions, OverLimit
    <2>5. result' # "OK"
      BY <2>1, <2>3, <2>4, CountRefused
    <2>6. QED
      BY <1>2, <2>5
  <1>7. QED
    BY <1>4, <1>5, <1>6 DEF ReadingRenewAll

\* The words of multicall up to its number of calls.
LEMMA MulticallLimit ==
  ASSUME LimitsInv, OverLimit(call), Intact(call), ReadingMulticall, SendWord
  PROVE  phase' = "refused" \/ ReadingMulticall'
  <1> DEFINE w == Sent(call)[WordNumber]
  <1>1. /\ ProvideParameter(w) /\ UNCHANGED call /\ UNCHANGED selectorIndex
        /\ call.selector = "ac9650d8" /\ selectorIndex = "MULTICALL"
    BY DEF SendWord, ProvideParameter, handle_provide_parameter, ReadingMulticall
  <1>2. /\ phase' = IF result' = "OK" THEN "parsing" ELSE "refused"
        /\ parameterOffset' = parameterOffset + PARAMETER_LENGTH
        /\ handle_provide_parameter(w)
        /\ go_to_offset = FALSE
    BY <1>1 DEF ProvideParameter, Continue, ReadingMulticall, Reading
  <1> HIDE DEF w
  <1>3. result' # "OK" \/ handle_multicall(w)
    BY <1>1, <1>2 DEF handle_provide_parameter, ParseWord, Refuse
  <1>4. CASE Reading(1, "CALL_OFFSET")
    <2>1. result' # "OK" \/ SaveArrayOffset(w, "N_CALL")
      BY <1>2, <1>3, <1>4, CallCases
      DEF handle_multicall, Reading, SkipToOffset, IgnoreWord
    <2>2. result' # "OK" \/ (next_param' = "N_CALL" /\ go_to_offset' = FALSE)
      BY <2>1 DEF SaveArrayOffset, Refuse, Advance
    <2>3. QED
      BY <1>1, <1>2, <1>4, <2>2
      DEF ReadingMulticall, Reading, SELECTOR_SIZE, PARAMETER_LENGTH
  <1>5. CASE Reading(2, "N_CALL")
    <2>1. result' # "OK" \/ ReadCount(w, 3)
      BY <1>2, <1>3, <1>5, CallCases
      DEF handle_multicall, Reading, SkipToOffset, IgnoreWord
    <2>2. HeadWords(call) = 1 /\ parameterOffset = SELECTOR_SIZE + PARAMETER_LENGTH * (2 - 1)
      BY <1>1, <1>5 DEF HeadWords, Reading
    <2>3. w = Quantity(Len(call.lens))
      BY <2>2, WordsThere DEF w
    <2>4. Len(call.lens) \in Nat /\ Len(call.lens) > 3
      BY <1>1, CallsAssumption DEF LimitsInv, Transactions, OverLimit
    <2>5. result' # "OK"
      BY <2>1, <2>3, <2>4, CountRefused
    <2>6. QED
      BY <1>2, <2>5
  <1>6. QED
    BY <1>4, <1>5 DEF ReadingMulticall

\* The calldata does not end before the number of elements.
LEMMA NotOver ==
  ASSUME LimitsInv, OverLimit(call), Intact(call), ReadingRenewAll \/ ReadingMulticall
  PROVE  WordNumber \in DOMAIN Sent(call)
  <1>1. PICK n \in 1 .. 3 : /\ n <= HeadWords(call) + 1
                            /\ parameterOffset = SELECTOR_SIZE + PARAMETER_LENGTH * (n - 1)
    BY DEF ReadingRenewAll, ReadingMulticall, Reading, HeadWords
  <1>2. QED
    BY <1>1, WordsThere

\* Every step keeps a call over the limit on its way to being refused.
LEMMA NextLimit == LimitsInv /\ [Next]_signing => LimitsInv'
  <1> SUFFICES ASSUME LimitsInv, [Next]_signing PROVE LimitsInv'
    OBVIOUS
  <1>1. ASSUME NEW c \in Calls, Sign(c) PROVE LimitsInv'
    BY <1>1, SignLimit
  <1>2. CASE SendWord
    <2>1. UNCHANGED call /\ phase = "parsing"
      BY <1>2 DEF SendWord, ProvideParameter
    <2>2. QED
      BY <1>2, <2>1, RenewAllLimit, MulticallLimit DEF LimitsInv, LimitInv
  <1>3. CASE EndOfCalldata
    <2>1. UNCHANGED call /\ phase = "parsing" /\ WordNumber \notin DOMAIN Sent(call)
      BY <1>3 DEF EndOfCalldata, Finalize
    <2>2. QED
      BY <2>1, NotOver DEF LimitsInv, LimitInv
  <1>4. CASE Review
    <2>1. UNCHANGED call /\ phase \in {"finalized", "resolved", "review"}
      BY <1>4 DEF Review, ProvideToken, QueryContractId, QueryContractUi
    <2>2. QED
      BY <2>1 DEF LimitsInv, LimitInv, ReadingRenewAll, ReadingMulticall, Reading
  <1>5. CASE UNCHANGED signing
    BY <1>5
    DEF signing, vars, context, cursor, host, LimitsInv, LimitInv, ReadingRenewAll,
        ReadingMulticall, Reading
  <1>6. QED
    BY <1>1, <1>2, <1>3, <1>4, <1>5 DEF Next, Step

\* renewAll with more than 2 names and multicall with more than 3 calls are
\* refused before anything is shown, whatever was signed before: the number of
\* elements ReadCount is given is the one that was encoded, and the host ends
\* the session when handle_provide_parameter.c reports an error, although its
\* handlers move on.
THEOREM LimitsEnforced == Spec => []OverLimitRefused
  <1>1. Init => LimitsInv
    BY DEF Init, HostInit, LimitsInv, LimitInv
  <1>2. LimitsInv => OverLimitRefused
    BY DEF LimitsInv, LimitInv, OverLimitRefused, ReadingRenewAll, ReadingMulticall, Reading
  <1>3. QED
    BY <1>1, <1>2, NextLimit, PTL DEF Spec

(***************************************************************************)
(* The promise of a clear-signing plugin.                                  *)
(***************************************************************************)

\* What holds of a transaction, and of its answer, in every state.
PromiseInv ==
    /\ ServedInv /\ DisplayInv
    /\ SupportedAccepted /\ OversizedRefused /\ OverLimitRefused

LEMMA AlwaysPromise == Spec => []PromiseInv
  <1>1. ServedInv /\ DisplayInv /\ SupportedAccepted /\ OversizedRefused /\ OverLimitRefused
          => PromiseInv
    BY DEF PromiseInv
  <1>2. QED
    BY <1>1, AlwaysShown, SupportedIsAccepted, OversizedIsRefused, LimitsEnforced, PTL

\* The first state.
LEMMA InitPromised == Init => Abstract!Init
  BY DEF Init, HostInit, Abstract!Init, Status

\* Under review, it is a supported one.
LEMMA ReviewedServed ==
  ASSUME \A c \in Calls : Answered(c), PromiseInv, phase \in {"finalized", "resolved", "review", "reviewed"}
  PROVE  IsSupported(call) /\ Reviews /\ Presentable /\ Finished
  <1>1. Answered(call)
    BY DEF PromiseInv, ServedInv
  <1>2. IsSupported(call)
    BY <1>1 DEF Answered, PromiseInv, OversizedRefused, OverLimitRefused
  <1>3. QED
    BY <1>2, ServedNow DEF PromiseInv, DisplayInv, ServedState

\* A step of the host is one of the promise, or none.
LEMMA StepPromised ==
  ASSUME \A c \in Calls : Answered(c), PromiseInv, PromiseInv', [Next]_signing
  PROVE  [Abstract!Next]_(Abstract!vars)
  <1>1. ASSUME NEW c \in Calls, Sign(c) PROVE Abstract!Open
    <2>1. /\ call' = c /\ c \in Transactions /\ shown' = << >> /\ Ended
          /\ phase' = IF result' = "OK" THEN "parsing" ELSE "refused"
      BY <1>1, CallsAssumption DEF Sign, InitContract, Continue
    <2>2. result' = "OK"
      BY <1>1, <2>1, SelectorFound DEF Sign, InitContract, handle_init_contract
    <2>3. Status # "open"
      BY <2>1 DEF Ended, Status
    <2>4. Status' = "open"
      BY <2>1, <2>2 DEF Status
    <2>5. QED
      BY <2>1, <2>3, <2>4 DEF Abstract!Open
  <1>2. CASE SendWord
    <2>1. /\ phase = "parsing" /\ call' = call /\ shown' = shown
          /\ phase' \in {"parsing", "refused"}
      BY <1>2 DEF SendWord, ProvideParameter, Continue
    <2>2. Status = "open"
      BY <2>1 DEF Status
    <2>3. CASE phase' = "parsing"
      <3>1. Status' = Status
        BY <2>2, <2>3 DEF Status
      <3>2. QED
        BY <2>1, <3>1 DEF Abstract!vars
    <2>4. CASE phase' = "refused"
      <3>1. Status' = "refused"
        BY <2>4 DEF Status
      <3>2. ~IsSupported(call)
        BY <2>1, <2>4 DEF PromiseInv, SupportedAccepted
      <3>3. Abstract!Refuse
        BY <2>1, <2>2, <3>1, <3>2 DEF Abstract!Refuse
      <3>4. QED
        BY <3>3 DEF Abstract!Next
    <2>5. QED
      BY <2>1, <2>3, <2>4
  <1>3. CASE EndOfCalldata
    <2>1. phase = "parsing" /\ phase' = "finalized" /\ call' = call /\ shown' = shown
      BY <1>3 DEF EndOfCalldata, Finalize, Continue
    <2>2. Status' = Status
      BY <2>1 DEF Status
    <2>3. QED
      BY <2>1, <2>2 DEF Abstract!vars
  <1>4. CASE Review
    <2>1. call' = call /\ phase \in {"finalized", "resolved", "review"} /\ numScreens' = numScreens
      BY <1>4 DEF Review, ProvideToken, QueryContractId, QueryContractUi
    <2>2. IsSupported(call) /\ Reviews /\ Presentable /\ Finished
      BY <2>1, ReviewedServed
    <2>3. Status = "open"
      BY <2>1 DEF Status
    <2>4. ScreensOf = DisplayLeft(call) /\ numScreens = Len(DisplayLeft(call))
      BY <2>2 DEF Reviews
    <2>5. IsSequence(DisplayLeft(call))
      <3>1. selectorIndex \in SelectorIndexes
        BY <2>1, <2>2, ServedNow, Handlers, SelectorFound
        DEF PromiseInv, Presentable, OneData, TwoData, OneArray, NoData, SelectorIndexes,
           selector_t
      <3>2. QED
        BY <2>2, <2>4, <3>1, ScreensSequence DEF Presentable
    <2>6. IsSupported(call)' /\ phase' # "refused"
      BY <2>1, <2>2 DEF PromiseInv, SupportedAccepted
    <2>7. CASE ProvideToken
      <3>1. phase' = "resolved" /\ shown' = shown
        BY <2>7 DEF ProvideToken, Continue
      <3>2. Status' = Status
        BY <2>3, <3>1 DEF Status
      <3>3. QED
        BY <2>1, <3>1, <3>2 DEF Abstract!vars
    <2>8. CASE QueryContractId
      <3>1. phase' = (IF numScreens = 0 THEN "reviewed" ELSE "review") /\ shown' = shown
        BY <2>8 DEF QueryContractId, Continue
      <3>2. CASE numScreens = 0
        <4>1. DisplayLeft(call) = << >>
          <5>1. PICK s : s = DisplayLeft(call)
            OBVIOUS
          <5>2. Len(s) = 0 /\ s \in Seq({ s[i] : i \in DOMAIN s })
            BY <2>4, <2>5, <3>2, <5>1 DEF IsSequence
          <5>3. s = << >>
            BY <5>2
          <5>4. QED
            BY <5>1, <5>3
        <4>2. Status' = "shown"
          BY <3>1, <3>2 DEF Status
        <4>3. Abstract!ShowNothing
          BY <2>1, <2>2, <2>3, <3>1, <4>1, <4>2 DEF Abstract!ShowNothing
        <4>4. QED
          BY <4>3 DEF Abstract!Next
      <3>3. CASE numScreens # 0
        <4>1. Status' = Status
          BY <2>3, <3>1, <3>3 DEF Status
        <4>2. QED
          BY <2>1, <3>1, <4>1 DEF Abstract!vars
      <3>4. QED
        BY <3>2, <3>3
    <2>9. CASE QueryContractUi
      <3>1. PICK m, k : m = numScreens /\ k = Len(shown)
        OBVIOUS
      <3>2. phase = "review" /\ k < m /\ m = Len(DisplayLeft(call))
        BY <2>2, <2>4, <2>9, <3>1 DEF QueryContractUi, Finished
      <3>3. ~(result' # "OK")
        BY <2>6, <2>9 DEF QueryContractUi, Continue
      <3>4. /\ shown' = Append(shown, DisplayLeft(call)[k + 1])
            /\ phase' = IF k + 1 = m THEN "reviewed" ELSE "review"
        BY <2>4, <2>9, <3>1, <3>3 DEF QueryContractUi, Continue
      <3>5. Len(shown') = k + 1
        BY <2>2, <3>1, <3>4, OneMore DEF Finished
      <3>6. Status' = IF Len(shown') = Len(DisplayLeft(call)) THEN "shown" ELSE "open"
        BY <3>2, <3>4, <3>5 DEF Status
      <3>7. Abstract!Show
        BY <2>1, <2>2, <2>3, <3>1, <3>2, <3>4, <3>6 DEF Abstract!Show
      <3>8. QED
        BY <3>7 DEF Abstract!Next
    <2>10. QED
      BY <2>7, <2>8, <2>9, <1>4 DEF Review
  <1>5. CASE UNCHANGED signing
    BY <1>5 DEF signing, vars, host, Abstract!vars, Status
  <1>6. QED
    BY <1>1, <1>2, <1>3, <1>4, <1>5 DEF Next, Step, Abstract!Next

\* The plugin and its host keep the promise of a clear-signing plugin, step by
\* step: of a transaction it serves the screens are shown in order, each with
\* what arrived of its parameter and nothing else, and the review ends only
\* after the last; one it does not serve is refused before a screen.  (That an
\* answer is given at all, the fairness of ClearSigning, is left to the runs.)
THEOREM ClearSigningKept ==
  ASSUME \A c \in Calls : Answered(c)
  PROVE  Spec => Abstract!Init /\ [][Abstract!Next]_(Abstract!vars)
  <1>1. PromiseInv /\ PromiseInv' /\ [Next]_signing => [Abstract!Next]_(Abstract!vars)
    BY StepPromised
  <1>2. QED
    BY <1>1, InitPromised, AlwaysPromise, PTL DEF Spec
=============================================================================
