--------------------------- MODULE EnsDisplayProofs ---------------------------
(***************************************************************************)
(* What the parser keeps of a supported transaction, word by word.         *)
(*                                                                         *)
(* Parses says, for each function, which word the parser takes next and    *)
(* what the context holds of the words before it: of a parameter of fixed  *)
(* size its word or nothing (WordKept), of a string or byte array the      *)
(* first 16 and the last 16 bytes, as far as they arrived (DataKept).  One *)
(* lemma for each handler, <function>Shown, says that the next word keeps  *)
(* it; WordShown puts them together.                                       *)
(***************************************************************************)
EXTENDS EnsServedProofs

(***************************************************************************)
(* What the words before the next one leave in the context.                *)
(***************************************************************************)

\* Field f of fixed size has word i, from its byte `first` on.
WordKept(f, i, first) ==
    statics[f].at = IF i < WordNumber THEN Position(i) + first ELSE 0

\* Where byte j of the buffer comes from, of a field of v bytes whose length is
\* in word a.
ByteSource(a, v, j) ==
    Position(a + 1) + j
      + (IF v > PARAMETER_LENGTH /\ j >= HALF_PARAMETER_LENGTH THEN v - PARAMETER_LENGTH ELSE 0)

\* Field f has what arrived of it.
DataKept(f, a, v) ==
    /\ len[f.slot] = IF a < WordNumber THEN v ELSE 0
    /\ ellipsis[f.slot] = IF v > PARAMETER_LENGTH /\ a + 1 < WordNumber THEN TRUE ELSE FALSE
    /\ DOMAIN text[f.slot] = 0 .. PARAMETER_LENGTH - 1
    /\ \A j \in 0 .. PARAMETER_LENGTH - 1 :
          text[f.slot][j] = IF ByteSource(a, v, j) < Position(WordNumber) /\ (f.byLength => j < v)
                            THEN ByteSource(a, v, j) ELSE 0

(***************************************************************************)
(* Which word the parser takes next, and for which parameter.              *)
(***************************************************************************)

\* Word n, for parameter p.
Now(n, p) == WordNumber = n /\ next_param = p /\ go_to_offset = FALSE

\* Word n, which it may have to skip others to reach.
Sought(n, p) ==
    \/ Now(n, p)
    \/ /\ WordNumber <= n /\ next_param = p
       /\ go_to_offset = TRUE /\ offset = Position(n)

\* A word of field f, of v bytes, whose length is in word a.
InData(f, a, v) ==
    LET q == v \div PARAMETER_LENGTH
        r == v % PARAMETER_LENGTH
    IN \/ Now(a + 1, f.data)
       \/ /\ v > PARAMETER_LENGTH /\ bytes_missing = r /\ a + 1 < WordNumber
          /\ \/ q >= 2 /\ r < HALF_PARAMETER_LENGTH /\ Sought(a + q, f.second)
             \/ /\ r < HALF_PARAMETER_LENGTH => a + q < WordNumber
                /\ Sought(a + q + 1, f.last)

\* A field that comes last: its length for parameter p, its data, its end.
InLast(f, p, a, v) ==
    Sought(a, p) \/ InData(f, a, v) \/ Now(a + WordsFor(v) + 1, "NONE")

(***************************************************************************)
(* A word that is taken.                                                   *)
(***************************************************************************)

Buffers == DOMAIN text = Slots /\ DOMAIN ellipsis = Slots

\* Word n of a call the plugin handles, which is w, is handed over and not
\* refused.
Takes(w, n) ==
    /\ Reads(w, n) /\ call.large = 0
    /\ Shaped /\ Buffers
    /\ result' = "OK"

\* The fields of the handlers.
Field(f) ==
    /\ f.slot \in Slots
    /\ f.byLength \in BOOLEAN
    /\ f.data # f.second /\ f.data # f.last /\ f.second # f.last

\* Its place.
LEMMA TakesType ==
  ASSUME NEW w, NEW n, Takes(w, n)
  PROVE  /\ n \in Nat /\ 1 <= n /\ n <= Len(Encode(call)) /\ Len(Encode(call)) \in Nat
         /\ w = Encode(call)[n]
         /\ WordNumber = n /\ WordNumber' = n + 1
         /\ parameterOffset = Position(n)
         /\ call' = call /\ call \in Transactions /\ Supported(call)
         /\ Position(n) \in Int /\ Position(n + 1) = Position(n) + PARAMETER_LENGTH
  <1>1. n \in Nat /\ Len(Encode(call)) \in Nat /\ n <= Len(Encode(call))
    BY LargeType DEF Takes
  <1>2. 1 <= n /\ n # 0
    BY <1>1 DEF Takes, Reads
  <1>3. Position(n) \in Int /\ Position(n + 1) = Position(n) + PARAMETER_LENGTH
    BY <1>1, Positions
  <1>4. QED
    BY <1>1, <1>2, <1>3 DEF Takes, Reads, Readable

\* A position of the calldata is a 16-bit number.
LEMMA SeekExact ==
  ASSUME NEW w, NEW n, Takes(w, n), NEW m \in Nat \ {0}, m <= Len(Encode(call)) + 1
  PROVE  U16(Position(m)) = Position(m)
  <1>1. Position(m) <= UINT16_MAX
    BY TakesType, PositionFits
  <1>2. Position(m) \in Nat
    BY Positions
  <1>3. QED
    BY <1>1, <1>2, U16Small

\* The word a parameter is read from.
LEMMA NowStep ==
  ASSUME NEW w, NEW n, Takes(w, n), NEW m, NEW p, Now(m, p)
  PROVE  m = n /\ next_param = p /\ AtOffset /\ ~SkipToOffset
  BY TakesType DEF Now, AtOffset, SkipToOffset

\* One that is sought.
LEMMA SoughtStep ==
  ASSUME NEW w, NEW n, Takes(w, n), NEW m \in Nat, NEW p, Sought(m, p)
  PROVE  /\ next_param = p
         /\ n <= m
         /\ SkipToOffset => n < m /\ Sought(m, p)' /\ UNCHANGED <<fields, bytes_missing>>
         /\ AtOffset => n = m
  <1>1. n \in Nat /\ parameterOffset = Position(n) /\ WordNumber = n /\ WordNumber' = n + 1
    BY TakesType
  <1>2. CASE Now(m, p)
    BY <1>1, <1>2, NowStep
  <1>3. CASE WordNumber <= m /\ next_param = p /\ go_to_offset = TRUE /\ offset = Position(m)
    <2>1. n = m <=> parameterOffset = offset
      <3>1. n \in Int /\ m \in Int
        BY <1>1
      <3>2. Position(n) = Position(m) => n = m
        BY <3>1, Positions
      <3>3. QED
        BY <1>1, <1>3, <3>2
    <2>2. AtOffset => n = m
      BY <1>3, <2>1 DEF AtOffset
    <2>3. SkipToOffset => n # m /\ UNCHANGED <<cursor, fields, bytes_missing>>
      BY <1>3, <2>1 DEF SkipToOffset
    <2>4. SkipToOffset => n < m /\ Sought(m, p)'
      BY <1>1, <1>3, <2>3 DEF Sought, cursor, Position
    <2>5. QED
      BY <1>1, <1>3, <2>2, <2>3, <2>4
  <1>4. QED
    BY <1>2, <1>3 DEF Sought

\* Advance takes the next word, Seek one further on.
LEMMA AdvanceStep ==
  ASSUME NEW w, NEW n, Takes(w, n), NEW p, Advance(p)
  PROVE  Now(n + 1, p)'
  BY TakesType DEF Now, Advance

LEMMA SeekStep ==
  ASSUME NEW w, NEW n, Takes(w, n), NEW m \in Nat, n < m, m <= Len(Encode(call)) + 1,
         NEW p, NEW o, o = Position(m), Seek(o, p)
  PROVE  Sought(m, p)'
  <1>1. n \in Nat /\ WordNumber' = n + 1
    BY TakesType
  <1>2. m \in Nat \ {0} /\ n + 1 <= m
    BY <1>1
  <1>3. offset' = Position(m) /\ go_to_offset' = TRUE /\ next_param' = p
    BY <1>2, SeekExact DEF Seek
  <1>4. QED
    BY <1>1, <1>2, <1>3 DEF Sought, Position

(***************************************************************************)
(* What is kept stays.                                                     *)
(***************************************************************************)

\* Another word than that of a field of fixed size.
LEMMA WordStays ==
  ASSUME NEW w, NEW n, Takes(w, n), NEW f, NEW i \in Nat, NEW first, i # n,
         WordKept(f, i, first), statics'[f] = statics[f]
  PROVE  WordKept(f, i, first)'
  <1>1. n \in Nat /\ WordNumber = n /\ WordNumber' = n + 1
    BY TakesType
  <1>2. i < n <=> i < n + 1
    BY <1>1
  <1>3. QED
    BY <1>1, <1>2 DEF WordKept, Position

\* A field of v bytes behind the word.
LEMMA DataAhead ==
  ASSUME NEW w, NEW n, Takes(w, n), NEW f, NEW a \in Nat, NEW v \in Nat, n < a,
         DataKept(f, a, v),
         UNCHANGED <<len[f.slot], text[f.slot], ellipsis[f.slot]>>
  PROVE  DataKept(f, a, v)'
  <1>1. n \in Nat /\ WordNumber = n /\ WordNumber' = n + 1
    BY TakesType
  <1>2. \A j \in 0 .. PARAMETER_LENGTH - 1 :
          ~(ByteSource(a, v, j) < Position(n)) /\ ~(ByteSource(a, v, j) < Position(n + 1))
    BY <1>1 DEF ByteSource, Position, PARAMETER_LENGTH, HALF_PARAMETER_LENGTH, SELECTOR_SIZE
  <1>3. ~(a < n) /\ ~(a < n + 1) /\ ~(a + 1 < n) /\ ~(a + 1 < n + 1)
    BY <1>1
  <1>4. \A j \in 0 .. PARAMETER_LENGTH - 1 : ByteSource(a, v, j)' = ByteSource(a, v, j)
    BY DEF ByteSource, Position
  <1>5. QED
    BY <1>1, <1>2, <1>3, <1>4 DEF DataKept

\* How many words there are.
LEMMA WordCount ==
  ASSUME NEW v \in Nat
  PROVE  \E q, r \in Nat :
           /\ v = PARAMETER_LENGTH * q + r /\ r < PARAMETER_LENGTH
           /\ q = v \div PARAMETER_LENGTH /\ r = v % PARAMETER_LENGTH
           /\ WordsFor(v) = IF r = 0 THEN q ELSE q + 1
  <1> DEFINE q == v \div PARAMETER_LENGTH
             r == v % PARAMETER_LENGTH
  <1>1. q \in Nat /\ r \in Nat /\ v = PARAMETER_LENGTH * q + r /\ r < PARAMETER_LENGTH
    BY DEF PARAMETER_LENGTH
  <1>2. WordsFor(v) = IF r = 0 THEN q ELSE q + 1
    BY DEF WordsFor, PARAMETER_LENGTH
  <1> HIDE DEF q, r
  <1>3. QED
    BY <1>1, <1>2 DEF q, r

\* A field that is behind the word.
LEMMA DataBehind ==
  ASSUME NEW w, NEW n, Takes(w, n), NEW f, NEW a \in Nat, NEW v \in Nat,
         a + WordsFor(v) < n, f.byLength \/ 1 <= v,
         DataKept(f, a, v),
         UNCHANGED <<len[f.slot], text[f.slot], ellipsis[f.slot]>>
  PROVE  DataKept(f, a, v)'
  <1>1. n \in Nat /\ WordNumber = n /\ WordNumber' = n + 1
    BY TakesType
  <1>2. PICK q, r \in Nat :
           /\ v = PARAMETER_LENGTH * q + r /\ r < PARAMETER_LENGTH
           /\ WordsFor(v) = IF r = 0 THEN q ELSE q + 1
    BY WordCount
  <1>3. a < n /\ a < n + 1 /\ (v > PARAMETER_LENGTH => a + 1 < n /\ a + 1 < n + 1)
    BY <1>1, <1>2 DEF PARAMETER_LENGTH
  <1>4. \A j \in 0 .. PARAMETER_LENGTH - 1 :
          (f.byLength => j < v)
            => ByteSource(a, v, j) < Position(n) /\ ByteSource(a, v, j) < Position(n + 1)
    BY <1>1, <1>2
    DEF ByteSource, Position, PARAMETER_LENGTH, HALF_PARAMETER_LENGTH, SELECTOR_SIZE
  <1>5. \A j \in 0 .. PARAMETER_LENGTH - 1 : ByteSource(a, v, j)' = ByteSource(a, v, j)
    BY DEF ByteSource, Position
  <1>6. QED
    BY <1>1, <1>3, <1>4, <1>5 DEF DataKept

(***************************************************************************)
(* Switch cases.                                                           *)
(***************************************************************************)

\* A field of fixed size is copied.
LEMMA WordCopiedTo ==
  ASSUME NEW w, NEW n, Takes(w, n), NEW f \in Statics, NEW first, CopyWord(w, f, first)
  PROVE  /\ WordKept(f, n, first)'
         /\ \A g \in Statics : \A i \in Nat : \A b :
               g # f /\ i # n /\ WordKept(g, i, b) => WordKept(g, i, b)'
         /\ UNCHANGED <<len, text, ellipsis, count, id>>
  <1>1. /\ statics' = [statics EXCEPT ![f] = [at |-> parameterOffset + first, digits |-> w.digits,
                                               alias |-> w.alias]]
        /\ UNCHANGED <<len, text, ellipsis, count, id>>
    BY DEF CopyWord
  <1>2. DOMAIN statics = Statics
    BY DEF Takes, Shaped
  <1>3. statics'[f].at = parameterOffset + first /\ \A g \in Statics \ {f} : statics'[g] = statics[g]
    BY <1>1, <1>2
  <1>4. n < n + 1 /\ parameterOffset = Position(n) /\ WordNumber' = n + 1
    BY TakesType
  <1>5. WordKept(f, n, first)'
    BY <1>3, <1>4 DEF WordKept, Position
  <1>6. ASSUME NEW g \in Statics, NEW i \in Nat, NEW b, g # f, i # n, WordKept(g, i, b)
        PROVE  WordKept(g, i, b)'
    BY <1>3, <1>6, WordStays
  <1>7. QED
    BY <1>1, <1>5, <1>6

\* The length of a field is read.
LEMMA LengthTaken ==
  ASSUME NEW w, NEW n, Takes(w, n), NEW f, Field(f), NEW v \in Nat, v <= UINT16_MAX,
         Encode(call)[n] = Quantity(v), DataKept(f, n, v),
         NEW p, ReadLength(w, f.slot, p)
  PROVE  /\ DataKept(f, n, v)' /\ Now(n + 1, p)'
         /\ \A k \in Slots \ {f.slot} : len'[k] = len[k]
         /\ UNCHANGED <<statics, text, ellipsis, count, id>>
  <1>1. w.small /\ w.low = v
    BY TakesType, QuantityRead
  <1>2. /\ len' = [len EXCEPT ![f.slot] = v] /\ Advance(p)
        /\ UNCHANGED <<statics, text, ellipsis, count, id>>
    BY <1>1 DEF ReadLength
  <1>3. Now(n + 1, p)'
    BY <1>2, AdvanceStep
  <1>4. len'[f.slot] = v /\ \A k \in Slots \ {f.slot} : len'[k] = len[k]
    BY <1>2 DEF Takes, Shaped, Field
  <1>5. n \in Nat /\ WordNumber = n /\ WordNumber' = n + 1
    BY TakesType
  <1>6. \A j \in 0 .. PARAMETER_LENGTH - 1 :
          ~(ByteSource(n, v, j) < Position(n)) /\ ~(ByteSource(n, v, j) < Position(n + 1))
    BY <1>5 DEF ByteSource, Position, PARAMETER_LENGTH, HALF_PARAMETER_LENGTH, SELECTOR_SIZE
  <1>7. ~(n + 1 < n) /\ ~(n + 1 < n + 1) /\ n < n + 1
    BY <1>5
  <1>8. \A j \in 0 .. PARAMETER_LENGTH - 1 : ByteSource(n, v, j)' = ByteSource(n, v, j)
    BY DEF ByteSource, Position
  <1>9. DataKept(f, n, v)'
    BY <1>2, <1>4, <1>5, <1>6, <1>7, <1>8 DEF DataKept
  <1>10. QED
    BY <1>2, <1>3, <1>4, <1>9

(***************************************************************************)
(* The copies of a field.                                                  *)
(***************************************************************************)
Cells == 0 .. PARAMETER_LENGTH - 1

\* The copy of d bytes, but at most m, to the cells from dst on.
Copies(new, buffer, dst, d, m, src) ==
    /\ DOMAIN new = Cells
    /\ \A j \in Cells :
         new[j] = IF dst <= j /\ j < dst + d /\ j < dst + m THEN src + (j - dst) ELSE buffer[j]

LEMMA CellsCopied ==
  ASSUME NEW buffer, DOMAIN buffer = Cells, NEW dst \in Nat, NEW src \in Int,
         NEW d \in Nat, NEW m \in Nat, d <= UINT16_MAX, m <= UINT16_MAX
  PROVE  Copies(copy_text(buffer, dst, d, m, src), buffer, dst, d, m, src)
  <1>1. U16(d) = d /\ U16(m) = m
    BY U16Small
  <1>2. \A j \in Cells : j \in dst .. dst + Least(d, m) - 1 <=> dst <= j /\ j < dst + d /\ j < dst + m
    BY DEF Least, Cells, PARAMETER_LENGTH
  <1>3. QED
    BY <1>1, <1>2 DEF copy_text, Copies

\* A field of at most 32 bytes.
LEMMA ShortCells ==
  ASSUME NEW w, NEW n, Takes(w, n), NEW f, Field(f), NEW v \in Nat, len[f.slot] = v,
         v <= PARAMETER_LENGTH, NEW buffer, DOMAIN buffer = Cells
  PROVE  LET new == copy_text(buffer, 0, Size(f), PARAMETER_LENGTH, parameterOffset)
         IN /\ DOMAIN new = Cells
            /\ \A j \in Cells :
                 new[j] = IF f.byLength => j < v THEN parameterOffset + j ELSE buffer[j]
  <1>1. PICK d : d = Size(f)
    OBVIOUS
  <1>2. d \in Nat /\ d <= UINT16_MAX /\ d = IF f.byLength THEN v ELSE PARAMETER_LENGTH
    BY <1>1 DEF Size, Field, PARAMETER_LENGTH, UINT16_MAX
  <1>3. parameterOffset \in Int
    BY TakesType
  <1>4. PARAMETER_LENGTH \in Nat /\ PARAMETER_LENGTH <= UINT16_MAX /\ 0 \in Nat
    BY DEF PARAMETER_LENGTH, UINT16_MAX
  <1>5. PICK new : new = copy_text(buffer, 0, d, PARAMETER_LENGTH, parameterOffset)
    OBVIOUS
  <1>6. Copies(new, buffer, 0, d, PARAMETER_LENGTH, parameterOffset)
    BY <1>2, <1>3, <1>4, <1>5, CellsCopied
  <1>7. \A j \in Cells : (0 <= j /\ j < 0 + d /\ j < 0 + PARAMETER_LENGTH <=> (f.byLength => j < v))
                         /\ j - 0 = j
    BY <1>2 DEF Cells, PARAMETER_LENGTH
  <1>8. QED
    BY <1>1, <1>5, <1>6, <1>7 DEF Copies

\* The parts of a longer one.
LEMMA PartCells ==
  ASSUME NEW w, NEW n, Takes(w, n), NEW f, Field(f), NEW v \in Nat, len[f.slot] = v,
         PARAMETER_LENGTH < v, v <= UINT16_MAX, NEW r \in 0 .. PARAMETER_LENGTH - 1,
         NEW buffer, DOMAIN buffer = Cells
  PROVE  /\ DOMAIN FirstHalf(f, buffer) = Cells
         /\ \A j \in Cells :
              FirstHalf(f, buffer)[j] = IF j < HALF_PARAMETER_LENGTH THEN parameterOffset + j
                                        ELSE buffer[j]
         /\ r < HALF_PARAMETER_LENGTH =>
              /\ DOMAIN SecondLastPart(f, r, buffer) = Cells
              /\ \A j \in Cells :
                   SecondLastPart(f, r, buffer)[j] =
                     IF HALF_PARAMETER_LENGTH <= j /\ j + r < PARAMETER_LENGTH
                     THEN parameterOffset + j + r ELSE buffer[j]
         /\ 1 <= r =>
              /\ DOMAIN LastPart(f, r, buffer) = Cells
              /\ \A j \in Cells :
                   LastPart(f, r, buffer)[j] =
                     IF HALF_PARAMETER_LENGTH <= j /\ PARAMETER_LENGTH <= j + r
                     THEN parameterOffset + j + r - PARAMETER_LENGTH ELSE buffer[j]
  <1>1. PICK d : d = Size(f)
    OBVIOUS
  <1>2. d \in Nat /\ d <= UINT16_MAX /\ PARAMETER_LENGTH <= d
    BY <1>1 DEF Size, Field, PARAMETER_LENGTH, UINT16_MAX
  <1>3. parameterOffset \in Int
    BY TakesType
  <1>4. /\ HALF_PARAMETER_LENGTH \in Nat /\ HALF_PARAMETER_LENGTH <= UINT16_MAX /\ 0 \in Nat
        /\ d - HALF_PARAMETER_LENGTH \in Nat /\ d - HALF_PARAMETER_LENGTH <= UINT16_MAX
        /\ r \in Nat /\ r <= UINT16_MAX /\ d - r \in Nat /\ d - r <= UINT16_MAX
        /\ PARAMETER_LENGTH - r \in Nat
    BY <1>2 DEF PARAMETER_LENGTH, HALF_PARAMETER_LENGTH, UINT16_MAX
  <1>5. /\ DOMAIN FirstHalf(f, buffer) = Cells
        /\ \A j \in Cells :
             FirstHalf(f, buffer)[j] = IF j < HALF_PARAMETER_LENGTH THEN parameterOffset + j
                                       ELSE buffer[j]
    <2>1. PICK new : new = copy_text(buffer, 0, d, HALF_PARAMETER_LENGTH, parameterOffset)
      OBVIOUS
    <2>2. Copies(new, buffer, 0, d, HALF_PARAMETER_LENGTH, parameterOffset)
      BY <1>2, <1>3, <1>4, <2>1, CellsCopied
    <2>3. \A j \in Cells :
            (0 <= j /\ j < 0 + d /\ j < 0 + HALF_PARAMETER_LENGTH <=> j < HALF_PARAMETER_LENGTH)
            /\ j - 0 = j
      BY <1>2 DEF Cells, PARAMETER_LENGTH, HALF_PARAMETER_LENGTH
    <2>4. QED
      BY <1>1, <2>1, <2>2, <2>3 DEF FirstHalf, Copies
  <1>6. ASSUME r < HALF_PARAMETER_LENGTH
        PROVE  /\ DOMAIN SecondLastPart(f, r, buffer) = Cells
               /\ \A j \in Cells :
                    SecondLastPart(f, r, buffer)[j] =
                      IF HALF_PARAMETER_LENGTH <= j /\ j + r < PARAMETER_LENGTH
                      THEN parameterOffset + j + r ELSE buffer[j]
    <2>1. /\ HALF_PARAMETER_LENGTH - r \in Nat /\ HALF_PARAMETER_LENGTH - r <= UINT16_MAX
          /\ parameterOffset + HALF_PARAMETER_LENGTH + r \in Int
      BY <1>3, <1>6 DEF HALF_PARAMETER_LENGTH, UINT16_MAX, PARAMETER_LENGTH
    <2>2. PICK new : new = copy_text(buffer, HALF_PARAMETER_LENGTH, d - HALF_PARAMETER_LENGTH,
                                     HALF_PARAMETER_LENGTH - r,
                                     parameterOffset + HALF_PARAMETER_LENGTH + r)
      OBVIOUS
    <2>3. Copies(new, buffer, HALF_PARAMETER_LENGTH, d - HALF_PARAMETER_LENGTH,
                 HALF_PARAMETER_LENGTH - r, parameterOffset + HALF_PARAMETER_LENGTH + r)
      BY <1>4, <2>1, <2>2, CellsCopied
    <2>4. \A j \in Cells :
            /\ /\ HALF_PARAMETER_LENGTH <= j
               /\ j < HALF_PARAMETER_LENGTH + (d - HALF_PARAMETER_LENGTH)
               /\ j < HALF_PARAMETER_LENGTH + (HALF_PARAMETER_LENGTH - r)
               <=> HALF_PARAMETER_LENGTH <= j /\ j + r < PARAMETER_LENGTH
            /\ (parameterOffset + HALF_PARAMETER_LENGTH + r) + (j - HALF_PARAMETER_LENGTH)
                 = parameterOffset + j + r
      BY <1>2, <1>3, <1>6 DEF Cells, PARAMETER_LENGTH, HALF_PARAMETER_LENGTH
    <2>5. QED
      BY <1>1, <2>2, <2>3, <2>4 DEF SecondLastPart, Copies
  <1>7. ASSUME 1 <= r
        PROVE  /\ DOMAIN LastPart(f, r, buffer) = Cells
               /\ \A j \in Cells :
                    LastPart(f, r, buffer)[j] =
                      IF HALF_PARAMETER_LENGTH <= j /\ PARAMETER_LENGTH <= j + r
                      THEN parameterOffset + j + r - PARAMETER_LENGTH ELSE buffer[j]
    <2>1. CASE r <= HALF_PARAMETER_LENGTH
      <3>1. PICK new : new = copy_text(buffer, PARAMETER_LENGTH - r, d - r, r, parameterOffset)
        OBVIOUS
      <3>2. Copies(new, buffer, PARAMETER_LENGTH - r, d - r, r, parameterOffset)
        BY <1>3, <1>4, <3>1, CellsCopied
      <3>3. \A j \in Cells :
              /\ /\ PARAMETER_LENGTH - r <= j
                 /\ j < (PARAMETER_LENGTH - r) + (d - r)
                 /\ j < (PARAMETER_LENGTH - r) + r
                 <=> HALF_PARAMETER_LENGTH <= j /\ PARAMETER_LENGTH <= j + r
              /\ parameterOffset + (j - (PARAMETER_LENGTH - r))
                   = parameterOffset + j + r - PARAMETER_LENGTH
        BY <1>2, <1>3, <2>1 DEF Cells, PARAMETER_LENGTH, HALF_PARAMETER_LENGTH
      <3>4. LastPart(f, r, buffer) = new
        BY <1>1, <2>1, <3>1 DEF LastPart
      <3>5. QED
        BY <3>2, <3>3, <3>4 DEF Copies
    <2>2. CASE ~(r <= HALF_PARAMETER_LENGTH)
      <3>1. PICK new : new = copy_text(buffer, HALF_PARAMETER_LENGTH, d - HALF_PARAMETER_LENGTH,
                                       HALF_PARAMETER_LENGTH,
                                       parameterOffset + (r - HALF_PARAMETER_LENGTH))
        OBVIOUS
      <3>2. parameterOffset + (r - HALF_PARAMETER_LENGTH) \in Int
        BY <1>3 DEF HALF_PARAMETER_LENGTH, PARAMETER_LENGTH
      <3>3. Copies(new, buffer, HALF_PARAMETER_LENGTH, d - HALF_PARAMETER_LENGTH,
                   HALF_PARAMETER_LENGTH, parameterOffset + (r - HALF_PARAMETER_LENGTH))
        BY <1>4, <3>1, <3>2, CellsCopied
      <3>4. \A j \in Cells :
              /\ /\ HALF_PARAMETER_LENGTH <= j
                 /\ j < HALF_PARAMETER_LENGTH + (d - HALF_PARAMETER_LENGTH)
                 /\ j < HALF_PARAMETER_LENGTH + HALF_PARAMETER_LENGTH
                 <=> HALF_PARAMETER_LENGTH <= j /\ PARAMETER_LENGTH <= j + r
              /\ (parameterOffset + (r - HALF_PARAMETER_LENGTH)) + (j - HALF_PARAMETER_LENGTH)
                   = parameterOffset + j + r - PARAMETER_LENGTH
        BY <1>2, <1>3, <2>2 DEF Cells, PARAMETER_LENGTH, HALF_PARAMETER_LENGTH
      <3>5. LastPart(f, r, buffer) = new
        BY <1>1, <2>2, <3>1 DEF LastPart
      <3>6. QED
        BY <3>3, <3>4, <3>5 DEF Copies
    <2>3. QED
      BY <2>1, <2>2
  <1>8. QED
    BY <1>5, <1>6, <1>7

(***************************************************************************)
(* The words of a field.                                                   *)
(***************************************************************************)

\* A field of v bytes whose length is in word a.
FieldOf(f, a, v) ==
    /\ Field(f) /\ a \in Nat /\ v \in Nat /\ v <= UINT16_MAX
    /\ a + WordsFor(v) <= Len(Encode(call))

\* What a word of field f leaves alone.
OtherFields(f) ==
    /\ UNCHANGED <<statics, len, count>>
    /\ \A k \in Slots \ {f.slot} : text'[k] = text[k] /\ ellipsis'[k] = ellipsis[k]

LEMMA FieldReadOthers ==
  ASSUME Buffers, NEW f, NEW length, NEW ACTION Done, ReadField(f, length, Done)
  PROVE  OtherFields(f)
  <1>1. UNCHANGED <<statics, len, count>>
    BY DEF ReadField
  <1>2. ReadShort(f, Done) \/ ReadLong(f, length) \/ ReadSecondLast(f) \/ ReadLast(f, Done)
    BY DEF ReadField
  <1>3. /\ (\E b : text' = [text EXCEPT ![f.slot] = b])
        /\ (\E b : ellipsis' = [ellipsis EXCEPT ![f.slot] = b]) \/ ellipsis' = ellipsis
    BY <1>2 DEF ReadShort, ReadLong, ReadSecondLast, ReadLast
  <1>4. QED
    BY <1>1, <1>3 DEF OtherFields, Buffers

\* What is kept of a field whose length was read.
LEMMA FieldLength ==
  ASSUME NEW w, NEW n, Takes(w, n), NEW f, NEW a, NEW v, FieldOf(f, a, v), a < n,
         DataKept(f, a, v)
  PROVE  /\ len[f.slot] = v
         /\ DOMAIN text[f.slot] = Cells
         /\ \A j \in Cells : ~(ByteSource(a, v, j) < Position(n)) => text[f.slot][j] = 0
         /\ \A j \in Cells : ByteSource(a, v, j)' = ByteSource(a, v, j)
  <1>1. WordNumber = n
    BY TakesType
  <1>2. \A j \in Cells : ByteSource(a, v, j)' = ByteSource(a, v, j)
    BY DEF ByteSource, Position
  <1>3. QED
    BY <1>1, <1>2 DEF DataKept, Cells

\* The cells of a field after a word.
LEMMA FieldCells ==
  ASSUME NEW w, NEW n, Takes(w, n), NEW f, NEW a, NEW v, FieldOf(f, a, v), a < n,
         DataKept(f, a, v), UNCHANGED len,
         ellipsis'[f.slot] = IF v > PARAMETER_LENGTH THEN TRUE ELSE FALSE,
         v > PARAMETER_LENGTH => a + 1 < n + 1,
         DOMAIN text'[f.slot] = Cells,
         \A j \in Cells : text'[f.slot][j] = IF ByteSource(a, v, j) < Position(n + 1)
                                                /\ (f.byLength => j < v)
                                             THEN ByteSource(a, v, j) ELSE 0
  PROVE  DataKept(f, a, v)'
  <1>1. WordNumber' = n + 1 /\ n \in Nat
    BY TakesType
  <1>2. a < n + 1 /\ len'[f.slot] = v
    BY <1>1, FieldLength DEF FieldOf
  <1>3. \A j \in Cells : ByteSource(a, v, j)' = ByteSource(a, v, j)
    BY FieldLength
  <1>4. Position(n + 1)' = Position(n + 1)
    BY DEF Position
  <1>5. QED
    BY <1>1, <1>2, <1>3, <1>4 DEF DataKept, Cells

\* The word of a field of at most 32 bytes.
LEMMA ShortStep ==
  ASSUME NEW w, NEW n, Takes(w, n), NEW f, NEW a, NEW v, FieldOf(f, a, v),
         n = a + 1, n <= a + WordsFor(v),
         DataKept(f, a, v), NEW ACTION Done, ReadShort(f, Done), UNCHANGED len
  PROVE  DataKept(f, a, v)' /\ n = a + WordsFor(v) /\ Done
  <1>1. a \in Nat /\ v \in Nat /\ f.slot \in Slots /\ a < n
    BY DEF FieldOf, Field
  <1>2. /\ len[f.slot] = v /\ DOMAIN text[f.slot] = Cells
        /\ \A j \in Cells : ~(ByteSource(a, v, j) < Position(n)) => text[f.slot][j] = 0
    BY <1>1, FieldLength
  <1>3. /\ v <= PARAMETER_LENGTH
        /\ text' = [text EXCEPT ![f.slot] =
                      copy_text(text[f.slot], 0, Size(f), PARAMETER_LENGTH, parameterOffset)]
        /\ ellipsis' = [ellipsis EXCEPT ![f.slot] = FALSE]
        /\ Done
    BY <1>2 DEF ReadShort
  <1>4. n = a + WordsFor(v)
    <2>1. PICK q, r \in Nat :
             /\ v = PARAMETER_LENGTH * q + r /\ r < PARAMETER_LENGTH
             /\ WordsFor(v) = IF r = 0 THEN q ELSE q + 1
      BY <1>1, WordCount
    <2>2. QED
      BY <1>1, <1>3, <2>1 DEF PARAMETER_LENGTH
  <1>5. /\ text'[f.slot] = copy_text(text[f.slot], 0, Size(f), PARAMETER_LENGTH, parameterOffset)
        /\ ellipsis'[f.slot] = FALSE
    BY <1>1, <1>3 DEF Takes, Buffers
  <1>6. /\ DOMAIN text'[f.slot] = Cells
        /\ \A j \in Cells :
             text'[f.slot][j] = IF f.byLength => j < v THEN parameterOffset + j ELSE text[f.slot][j]
    BY <1>1, <1>2, <1>3, <1>5, ShortCells DEF FieldOf
  <1>7. \A j \in Cells : /\ ByteSource(a, v, j) = parameterOffset + j
                         /\ ByteSource(a, v, j) < Position(n + 1)
                         /\ ~(ByteSource(a, v, j) < Position(n))
    <2>1. parameterOffset = Position(n)
      BY TakesType
    <2>2. QED
      BY <1>1, <1>3, <2>1
      DEF ByteSource, Position, Cells, PARAMETER_LENGTH, HALF_PARAMETER_LENGTH, SELECTOR_SIZE
  <1>8. ~(v > PARAMETER_LENGTH)
    BY <1>1, <1>3 DEF PARAMETER_LENGTH
  <1>9. DataKept(f, a, v)'
    <2>1. \A j \in Cells : text'[f.slot][j] = IF ByteSource(a, v, j) < Position(n + 1)
                                                 /\ (f.byLength => j < v)
                                              THEN ByteSource(a, v, j) ELSE 0
      BY <1>2, <1>6, <1>7
    <2>2. ellipsis'[f.slot] = IF v > PARAMETER_LENGTH THEN TRUE ELSE FALSE
      BY <1>5, <1>8
    <2>3. QED
      BY <1>1, <1>6, <1>8, <2>1, <2>2, FieldCells
  <1>10. QED
    BY <1>3, <1>4, <1>9

\* The parts of the number of bytes of a longer field.
Parts(v, q, r) ==
    /\ q \in Nat \ {0} /\ r \in 0 .. PARAMETER_LENGTH - 1 /\ v = PARAMETER_LENGTH * q + r
    /\ q = v \div PARAMETER_LENGTH /\ r = v % PARAMETER_LENGTH
    /\ WordsFor(v) = IF r = 0 THEN q ELSE q + 1
    /\ r < HALF_PARAMETER_LENGTH => q >= 2 \/ 1 <= r

LEMMA LongParts ==
  ASSUME NEW v \in Nat, PARAMETER_LENGTH < v
  PROVE  \E q, r \in Nat : Parts(v, q, r)
  <1>1. PICK q, r \in Nat :
           /\ v = PARAMETER_LENGTH * q + r /\ r < PARAMETER_LENGTH
           /\ q = v \div PARAMETER_LENGTH /\ r = v % PARAMETER_LENGTH
           /\ WordsFor(v) = IF r = 0 THEN q ELSE q + 1
    BY WordCount
  <1>2. q # 0 /\ (q >= 2 \/ 1 <= r) /\ r \in 0 .. PARAMETER_LENGTH - 1
    BY <1>1 DEF PARAMETER_LENGTH
  <1>3. Parts(v, q, r)
    BY <1>1, <1>2 DEF Parts
  <1>4. QED
    BY <1>3

\* The stages of a longer field.
LEMMA InLong ==
  ASSUME NEW v, NEW q, NEW r, Parts(v, q, r), NEW f, NEW a
  PROVE  InData(f, a, v) <=>
           \/ Now(a + 1, f.data)
           \/ /\ v > PARAMETER_LENGTH /\ bytes_missing = r /\ a + 1 < WordNumber
              /\ \/ q >= 2 /\ r < HALF_PARAMETER_LENGTH /\ Sought(a + q, f.second)
                 \/ /\ r < HALF_PARAMETER_LENGTH => a + q < WordNumber
                    /\ Sought(a + q + 1, f.last)
  BY DEF InData, Parts

LEMMA InLongNext ==
  ASSUME NEW w, NEW n, Takes(w, n),
         NEW v, NEW q, NEW r, Parts(v, q, r), NEW f, NEW a \in Nat, a < n,
         v > PARAMETER_LENGTH, bytes_missing' = r,
         \/ q >= 2 /\ r < HALF_PARAMETER_LENGTH /\ Sought(a + q, f.second)'
         \/ /\ r < HALF_PARAMETER_LENGTH => a + q < n + 1
            /\ Sought(a + q + 1, f.last)'
  PROVE  InData(f, a, v)'
  <1>1. WordNumber' = n + 1 /\ n \in Nat
    BY TakesType
  <1>2. a + 1 < WordNumber'
    BY <1>1
  <1>3. QED
    BY <1>1, <1>2 DEF InData, Parts

\* Where its bytes come from: the first half of what is kept from its first
\* word, the second from its last one, or last two.
Sources(a, v, q, r) ==
    \A j \in Cells :
        /\ j < HALF_PARAMETER_LENGTH
             => ByteSource(a, v, j) = Position(a + 1) + j
        /\ HALF_PARAMETER_LENGTH <= j
             => ByteSource(a, v, j) = Position(a + q) + j + r
        /\ \A m \in Nat : a + 1 < m =>
             (ByteSource(a, v, j) < Position(m)
                <=> \/ j < HALF_PARAMETER_LENGTH
                    \/ a + q + 1 < m
                    \/ a + q + 1 = m /\ j + r < PARAMETER_LENGTH)

LEMMA LongSources ==
  ASSUME NEW v \in Nat, PARAMETER_LENGTH < v, NEW q, NEW r, Parts(v, q, r), NEW a \in Nat
  PROVE  Sources(a, v, q, r)
  BY DEF Sources, Parts, ByteSource, Position, Cells, PARAMETER_LENGTH, HALF_PARAMETER_LENGTH,
         SELECTOR_SIZE

\* The cells of a longer field, after word n.
LEMMA LongCells ==
  ASSUME NEW w, NEW n, Takes(w, n), NEW f, NEW a, NEW v, FieldOf(f, a, v), a < n,
         PARAMETER_LENGTH < v, NEW q, NEW r, Parts(v, q, r),
         DataKept(f, a, v), UNCHANGED len, ellipsis'[f.slot] = TRUE,
         DOMAIN text'[f.slot] = Cells,
         \A j \in Cells : text'[f.slot][j] = IF ByteSource(a, v, j) < Position(n + 1)
                                             THEN ByteSource(a, v, j) ELSE 0
  PROVE  DataKept(f, a, v)'
  <1>1. /\ a + 1 < n + 1
        /\ v > PARAMETER_LENGTH
        /\ \A j \in Cells : j < v
    <2>1. n \in Nat /\ a \in Nat /\ v \in Nat
      BY TakesType DEF FieldOf
    <2>2. QED
      BY <2>1 DEF Cells, PARAMETER_LENGTH
  <1>2. QED
    BY <1>1, FieldCells

\* The first word of a longer field.
LEMMA LongStep ==
  ASSUME NEW w, NEW n, Takes(w, n), NEW f, NEW a, NEW v, FieldOf(f, a, v),
         n = a + 1, DataKept(f, a, v), NEW length, v > PARAMETER_LENGTH => length = v,
         ReadLong(f, length), UNCHANGED len
  PROVE  DataKept(f, a, v)' /\ InData(f, a, v)' /\ UNCHANGED id
  <1>1. a \in Nat /\ v \in Nat /\ f.slot \in Slots /\ a < n /\ n \in Nat /\ Field(f)
        /\ v <= UINT16_MAX /\ a + WordsFor(v) <= Len(Encode(call)) /\ Len(Encode(call)) \in Nat
        /\ parameterOffset = Position(n)
    BY TakesType DEF FieldOf, Field
  <1>2. /\ len[f.slot] = v /\ DOMAIN text[f.slot] = Cells
        /\ \A j \in Cells : ~(ByteSource(a, v, j) < Position(n)) => text[f.slot][j] = 0
    BY <1>1, FieldLength
  <1>3. PARAMETER_LENGTH < v /\ v > PARAMETER_LENGTH /\ length = v
    BY <1>1, <1>2 DEF ReadLong, PARAMETER_LENGTH
  <1>4. PICK q, r \in Nat : Parts(v, q, r)
    BY <1>1, <1>3, LongParts
  <1>5. v \div PARAMETER_LENGTH = q /\ MissingBytes(v) = r
    BY <1>4 DEF Parts, MissingBytes
  <1> DEFINE b == text[f.slot]
  <1>6. /\ bytes_missing' = r
        /\ ellipsis' = [ellipsis EXCEPT ![f.slot] = TRUE]
        /\ UNCHANGED id
        /\ \/ /\ r < HALF_PARAMETER_LENGTH
              /\ q < 2
              /\ text' = [text EXCEPT ![f.slot] = SecondLastPart(f, r, FirstHalf(f, b))]
              /\ Seek(parameterOffset + PARAMETER_LENGTH, f.last)
           \/ /\ r < HALF_PARAMETER_LENGTH
              /\ q >= 2
              /\ text' = [text EXCEPT ![f.slot] = FirstHalf(f, b)]
              /\ Seek(parameterOffset + (q - 1) * PARAMETER_LENGTH, f.second)
           \/ /\ r >= HALF_PARAMETER_LENGTH
              /\ text' = [text EXCEPT ![f.slot] = FirstHalf(f, b)]
              /\ Seek(parameterOffset + q * PARAMETER_LENGTH, f.last)
    BY <1>3, <1>5 DEF ReadLong
  <1>7. ellipsis'[f.slot] = TRUE /\ \A x : text' = [text EXCEPT ![f.slot] = x] => text'[f.slot] = x
    BY <1>1, <1>6 DEF Takes, Buffers
  <1> HIDE DEF b
  <1>8. /\ DOMAIN FirstHalf(f, b) = Cells
        /\ \A j \in Cells :
             FirstHalf(f, b)[j] = IF j < HALF_PARAMETER_LENGTH THEN parameterOffset + j ELSE b[j]
    <2>1. r \in 0 .. PARAMETER_LENGTH - 1
      BY <1>4 DEF Parts
    <2>2. QED
      BY <1>1, <1>2, <1>3, <2>1, PartCells DEF b
  <1>9. /\ q \in Nat /\ 1 <= q /\ r \in Nat /\ r < PARAMETER_LENGTH
        /\ a + q + 1 \in Nat /\ a + q \in Nat /\ n < a + q + 1
        /\ WordsFor(v) = IF r = 0 THEN q ELSE q + 1
        /\ r < HALF_PARAMETER_LENGTH => q >= 2 \/ 1 <= r
        /\ a + q <= Len(Encode(call))
        /\ a + q + 1 <= Len(Encode(call)) + 1
    <2>1. q \in Nat \ {0} /\ r \in 0 .. PARAMETER_LENGTH - 1
          /\ WordsFor(v) = (IF r = 0 THEN q ELSE q + 1)
          /\ (r < HALF_PARAMETER_LENGTH => q >= 2 \/ 1 <= r)
      BY <1>4 DEF Parts
    <2>2. QED
      BY <1>1, <2>1 DEF PARAMETER_LENGTH
  <1>10. \A j \in Cells :
           /\ j < HALF_PARAMETER_LENGTH => /\ ByteSource(a, v, j) = parameterOffset + j
                                           /\ ByteSource(a, v, j) < Position(n + 1)
           /\ HALF_PARAMETER_LENGTH <= j
                => /\ ByteSource(a, v, j) = Position(a + q) + j + r
                   /\ b[j] = 0
                   /\ ByteSource(a, v, j) < Position(n + 1)
                        <=> q = 1 /\ j + r < PARAMETER_LENGTH
    <2>1. ASSUME NEW j \in Cells
          PROVE  /\ j < HALF_PARAMETER_LENGTH => /\ ByteSource(a, v, j) = parameterOffset + j
                                                 /\ ByteSource(a, v, j) < Position(n + 1)
                 /\ HALF_PARAMETER_LENGTH <= j
                      => /\ ByteSource(a, v, j) = Position(a + q) + j + r
                         /\ ~(ByteSource(a, v, j) < Position(n))
                         /\ ByteSource(a, v, j) < Position(n + 1)
                              <=> q = 1 /\ j + r < PARAMETER_LENGTH
      <3>1. /\ j < HALF_PARAMETER_LENGTH
                 => ByteSource(a, v, j) = Position(a + 1) + j
            /\ HALF_PARAMETER_LENGTH <= j
                 => ByteSource(a, v, j) = Position(a + q) + j + r
            /\ \A m \in Nat : a + 1 < m =>
                 (ByteSource(a, v, j) < Position(m)
                    <=> \/ j < HALF_PARAMETER_LENGTH
                        \/ a + q + 1 < m
                        \/ a + q + 1 = m /\ j + r < PARAMETER_LENGTH)
        <4>1. Sources(a, v, q, r)
          BY <1>1, <1>3, <1>4, LongSources
        <4>2. QED
          BY <4>1 DEF Sources
      <3>2. n + 1 \in Nat /\ a + 1 < n + 1 /\ ~(a + q + 1 < n + 1) /\ (a + q + 1 = n + 1 <=> q = 1)
        BY <1>1, <1>9
      <3>3. HALF_PARAMETER_LENGTH <= j => ~(j < HALF_PARAMETER_LENGTH)
        BY DEF HALF_PARAMETER_LENGTH, Cells, PARAMETER_LENGTH
      <3>4. HALF_PARAMETER_LENGTH <= j => ~(Position(a + q) + j + r < Position(n))
        BY <1>1, <1>9 DEF Position, PARAMETER_LENGTH, SELECTOR_SIZE, HALF_PARAMETER_LENGTH,
           Cells
      <3>5. Position(a + 1) = parameterOffset
        BY <1>1
      <3>6. ByteSource(a, v, j) < Position(n + 1)
              <=> j < HALF_PARAMETER_LENGTH \/ (q = 1 /\ j + r < PARAMETER_LENGTH)
        BY <3>1, <3>2
      <3>7. CASE j < HALF_PARAMETER_LENGTH
        <4>1. ~(HALF_PARAMETER_LENGTH <= j)
          BY <3>3, <3>7
        <4>2. QED
          BY <3>1, <3>5, <3>6, <3>7, <4>1
      <3>8. CASE ~(j < HALF_PARAMETER_LENGTH)
        BY <3>1, <3>4, <3>6, <3>8
      <3>9. QED
        BY <3>7, <3>8
    <2>2. QED
      BY <1>2, <2>1 DEF b
  <1>11. \A j \in Cells : j < HALF_PARAMETER_LENGTH \/ HALF_PARAMETER_LENGTH <= j
    BY DEF Cells, HALF_PARAMETER_LENGTH, PARAMETER_LENGTH
  <1>12. CASE /\ r < HALF_PARAMETER_LENGTH
              /\ q < 2
              /\ text' = [text EXCEPT ![f.slot] = SecondLastPart(f, r, FirstHalf(f, b))]
              /\ Seek(parameterOffset + PARAMETER_LENGTH, f.last)
    <2>1. q = 1 /\ a + q = n /\ r \in 0 .. PARAMETER_LENGTH - 1
      BY <1>1, <1>9, <1>12 DEF PARAMETER_LENGTH
    <2>2. PICK c : c = FirstHalf(f, b)
      OBVIOUS
    <2>3. /\ DOMAIN SecondLastPart(f, r, c) = Cells
          /\ \A j \in Cells :
               SecondLastPart(f, r, c)[j] =
                 IF HALF_PARAMETER_LENGTH <= j /\ j + r < PARAMETER_LENGTH
                 THEN parameterOffset + j + r ELSE c[j]
      BY <1>1, <1>2, <1>3, <1>8, <1>12, <2>1, <2>2, PartCells
    <2>4. text'[f.slot] = SecondLastPart(f, r, c)
      BY <1>7, <1>12, <2>2
    <2>5. ASSUME NEW j \in Cells
          PROVE  text'[f.slot][j] = IF ByteSource(a, v, j) < Position(n + 1)
                                    THEN ByteSource(a, v, j) ELSE 0
      <3>1. Position(a + q) = parameterOffset
        BY <1>1, <2>1
      <3>2. c[j] = IF j < HALF_PARAMETER_LENGTH THEN parameterOffset + j ELSE b[j]
        BY <1>8, <2>2
      <3>3. text'[f.slot][j] = IF HALF_PARAMETER_LENGTH <= j /\ j + r < PARAMETER_LENGTH
                               THEN parameterOffset + j + r ELSE c[j]
        BY <2>3, <2>4
      <3>4. ~(j < HALF_PARAMETER_LENGTH /\ HALF_PARAMETER_LENGTH <= j)
        BY DEF Cells, HALF_PARAMETER_LENGTH, PARAMETER_LENGTH
      <3>5. CASE j < HALF_PARAMETER_LENGTH
        BY <1>10, <3>2, <3>3, <3>4, <3>5
      <3>6. CASE ~(j < HALF_PARAMETER_LENGTH)
        <4>1. /\ HALF_PARAMETER_LENGTH <= j
              /\ ByteSource(a, v, j) = parameterOffset + j + r
              /\ b[j] = 0
              /\ ByteSource(a, v, j) < Position(n + 1) <=> j + r < PARAMETER_LENGTH
          BY <1>10, <1>11, <2>1, <3>1, <3>6
        <4>2. QED
          BY <3>2, <3>3, <3>6, <4>1
      <3>7. QED
        BY <3>5, <3>6
    <2>6. DataKept(f, a, v)'
      BY <1>1, <1>3, <1>4, <1>7, <2>3, <2>4, <2>5, LongCells
    <2>7. parameterOffset + PARAMETER_LENGTH = Position(a + q + 1)
      BY <1>1, <2>1, Positions
    <2>8. Sought(a + q + 1, f.last)'
      BY <1>9, <1>12, <2>7, SeekStep
    <2>9. a + q < n + 1
      BY <1>1, <2>1
    <2>10. QED
      BY <1>1, <1>3, <1>4, <1>6, <2>6, <2>8, <2>9, InLongNext
  <1>13. ASSUME ~(r < HALF_PARAMETER_LENGTH /\ q < 2), text'[f.slot] = FirstHalf(f, b)
         PROVE  DataKept(f, a, v)'
    <2>1. \A j \in Cells : HALF_PARAMETER_LENGTH <= j => ~(q = 1 /\ j + r < PARAMETER_LENGTH)
      <3>1. q = 1 => HALF_PARAMETER_LENGTH <= r
        BY <1>9, <1>13 DEF HALF_PARAMETER_LENGTH
      <3>2. QED
        BY <3>1 DEF Cells, HALF_PARAMETER_LENGTH, PARAMETER_LENGTH
    <2>2. \A j \in Cells : text'[f.slot][j] = IF ByteSource(a, v, j) < Position(n + 1)
                                              THEN ByteSource(a, v, j) ELSE 0
      BY <1>8, <1>10, <1>11, <1>13, <2>1
    <2>3. QED
      BY <1>1, <1>3, <1>4, <1>7, <1>8, <1>13, <2>2, LongCells
  <1>14. CASE /\ r < HALF_PARAMETER_LENGTH
              /\ q >= 2
              /\ text' = [text EXCEPT ![f.slot] = FirstHalf(f, b)]
              /\ Seek(parameterOffset + (q - 1) * PARAMETER_LENGTH, f.second)
    <2>1. DataKept(f, a, v)'
      <3>1. ~(q < 2)
        BY <1>9, <1>14
      <3>2. QED
        BY <1>7, <1>13, <1>14, <3>1
    <2>2. n + (q - 1) = a + q /\ n < a + q /\ q - 1 \in Int /\ a + q <= Len(Encode(call)) + 1
      BY <1>1, <1>9, <1>14
    <2>3. parameterOffset + (q - 1) * PARAMETER_LENGTH = Position(a + q)
      BY <1>1, <2>2, Positions
    <2>4. Sought(a + q, f.second)'
      BY <1>9, <1>14, <2>2, <2>3, SeekStep
    <2>5. QED
      BY <1>1, <1>3, <1>4, <1>6, <1>14, <2>1, <2>4, InLongNext
  <1>15. CASE /\ r >= HALF_PARAMETER_LENGTH
              /\ text' = [text EXCEPT ![f.slot] = FirstHalf(f, b)]
              /\ Seek(parameterOffset + q * PARAMETER_LENGTH, f.last)
    <2>1. ~(r < HALF_PARAMETER_LENGTH)
      BY <1>9, <1>15 DEF HALF_PARAMETER_LENGTH
    <2>2. DataKept(f, a, v)'
      BY <1>7, <1>13, <1>15, <2>1
    <2>3. n + q = a + q + 1
      BY <1>1, <1>9
    <2>4. parameterOffset + q * PARAMETER_LENGTH = Position(a + q + 1)
      BY <1>1, <1>9, <2>3, Positions
    <2>5. Sought(a + q + 1, f.last)'
      BY <1>9, <1>15, <2>4, SeekStep
    <2>6. QED
      BY <1>1, <1>3, <1>4, <1>6, <2>1, <2>2, <2>5, InLongNext
  <1>16. QED
    BY <1>6, <1>12, <1>14, <1>15

\* Its cells before word n, behind its first word.
Filled(f, a, v, q, r, n) ==
    \A j \in Cells :
        /\ j < HALF_PARAMETER_LENGTH
             => /\ text[f.slot][j] = ByteSource(a, v, j)
                /\ ByteSource(a, v, j) < Position(n + 1)
        /\ ~(j < HALF_PARAMETER_LENGTH)
             => /\ HALF_PARAMETER_LENGTH <= j
                /\ ByteSource(a, v, j) = Position(a + q) + j + r
                /\ text[f.slot][j] = IF a + q + 1 < n \/ (a + q + 1 = n /\ j + r < PARAMETER_LENGTH)
                                     THEN ByteSource(a, v, j) ELSE 0
                /\ ByteSource(a, v, j) < Position(n + 1)
                     <=> a + q + 1 < n + 1 \/ (a + q + 1 = n + 1 /\ j + r < PARAMETER_LENGTH)

LEMMA LongFilled ==
  ASSUME NEW w, NEW n, Takes(w, n), NEW f, NEW a, NEW v, FieldOf(f, a, v), a + 1 < n,
         PARAMETER_LENGTH < v, NEW q, NEW r, Parts(v, q, r), DataKept(f, a, v)
  PROVE  Filled(f, a, v, q, r, n)
  <1>1. a \in Nat /\ v \in Nat /\ n \in Nat /\ WordNumber = n /\ n + 1 \in Nat /\ a + 1 < n + 1
    BY TakesType DEF FieldOf
  <1>2. Sources(a, v, q, r)
    BY <1>1, LongSources
  <1>3. \A j \in Cells : HALF_PARAMETER_LENGTH <= j <=> ~(j < HALF_PARAMETER_LENGTH)
    BY DEF Cells, HALF_PARAMETER_LENGTH, PARAMETER_LENGTH
  <1>4. \A j \in Cells : j < v
    BY <1>1 DEF Cells, PARAMETER_LENGTH
  <1>5. \A j \in Cells : text[f.slot][j] = IF ByteSource(a, v, j) < Position(n)
                                           THEN ByteSource(a, v, j) ELSE 0
    BY <1>1, <1>4 DEF DataKept, Cells
  <1>6. ASSUME NEW j \in Cells
        PROVE  /\ ByteSource(a, v, j) < Position(n)
                    <=> \/ j < HALF_PARAMETER_LENGTH
                        \/ a + q + 1 < n \/ (a + q + 1 = n /\ j + r < PARAMETER_LENGTH)
               /\ ByteSource(a, v, j) < Position(n + 1)
                    <=> \/ j < HALF_PARAMETER_LENGTH
                        \/ a + q + 1 < n + 1 \/ (a + q + 1 = n + 1 /\ j + r < PARAMETER_LENGTH)
    BY <1>1, <1>2 DEF Sources
  <1>7. \A j \in Cells : HALF_PARAMETER_LENGTH <= j => ByteSource(a, v, j) = Position(a + q) + j + r
    BY <1>2 DEF Sources
  <1>8. QED
    BY <1>3, <1>5, <1>6, <1>7 DEF Filled

\* Its second-last word, when the last one has not all of the second half.
LEMMA SecondStep ==
  ASSUME NEW w, NEW n, Takes(w, n), NEW f, NEW a, NEW v, FieldOf(f, a, v), a + 1 < n,
         PARAMETER_LENGTH < v, NEW q, NEW r, Parts(v, q, r), DataKept(f, a, v),
         n = a + q, r < HALF_PARAMETER_LENGTH, bytes_missing = r,
         ReadSecondLast(f), UNCHANGED len
  PROVE  DataKept(f, a, v)' /\ InData(f, a, v)' /\ UNCHANGED id
  <1>1. /\ a \in Nat /\ v \in Nat /\ n \in Nat /\ a < n /\ v <= UINT16_MAX /\ Field(f)
        /\ f.slot \in Slots /\ parameterOffset = Position(n) /\ v > PARAMETER_LENGTH
        /\ q \in Nat /\ r \in 0 .. PARAMETER_LENGTH - 1 /\ r \in Nat
    <2>1. a \in Nat /\ v \in Nat /\ n \in Nat /\ v <= UINT16_MAX /\ Field(f) /\ f.slot \in Slots
          /\ parameterOffset = Position(n) /\ q \in Nat /\ r \in 0 .. PARAMETER_LENGTH - 1
      BY TakesType DEF FieldOf, Field, Parts
    <2>2. QED
      BY <2>1 DEF PARAMETER_LENGTH
  <1>2. len[f.slot] = v /\ DOMAIN text[f.slot] = Cells
    BY <1>1, FieldLength
  <1>3. Filled(f, a, v, q, r, n)
    BY LongFilled
  <1>4. PICK b : b = text[f.slot]
    OBVIOUS
  <1>5. /\ text' = [text EXCEPT ![f.slot] = SecondLastPart(f, r, b)]
        /\ UNCHANGED <<ellipsis, id, bytes_missing>> /\ Advance(f.last)
    BY <1>4 DEF ReadSecondLast
  <1>6. text'[f.slot] = SecondLastPart(f, r, b)
    BY <1>1, <1>5 DEF Takes, Buffers
  <1>7. /\ DOMAIN text'[f.slot] = Cells
        /\ \A j \in Cells :
             text'[f.slot][j] = IF HALF_PARAMETER_LENGTH <= j /\ j + r < PARAMETER_LENGTH
                                THEN parameterOffset + j + r ELSE b[j]
    BY <1>1, <1>2, <1>4, <1>6, PartCells
  <1>8. ASSUME NEW j \in Cells
        PROVE  text'[f.slot][j] = IF ByteSource(a, v, j) < Position(n + 1)
                                  THEN ByteSource(a, v, j) ELSE 0
    <2>1. CASE j < HALF_PARAMETER_LENGTH
      <3>1. ~(HALF_PARAMETER_LENGTH <= j)
        BY <2>1 DEF Cells, HALF_PARAMETER_LENGTH, PARAMETER_LENGTH
      <3>2. QED
        BY <1>3, <1>4, <1>7, <2>1, <3>1 DEF Filled
    <2>2. CASE ~(j < HALF_PARAMETER_LENGTH)
      <3>1. /\ HALF_PARAMETER_LENGTH <= j
            /\ ByteSource(a, v, j) = parameterOffset + j + r
            /\ b[j] = IF a + q + 1 < n \/ (a + q + 1 = n /\ j + r < PARAMETER_LENGTH)
                      THEN ByteSource(a, v, j) ELSE 0
            /\ ByteSource(a, v, j) < Position(n + 1)
                 <=> a + q + 1 < n + 1 \/ (a + q + 1 = n + 1 /\ j + r < PARAMETER_LENGTH)
        BY <1>1, <1>3, <1>4, <2>2 DEF Filled
      <3>2. ~(a + q + 1 < n) /\ ~(a + q + 1 = n) /\ ~(a + q + 1 < n + 1) /\ a + q + 1 = n + 1
        BY <1>1
      <3>3. QED
        BY <1>7, <3>1, <3>2
    <2>3. QED
      BY <2>1, <2>2
  <1>9. ellipsis'[f.slot] = TRUE
    BY <1>1, <1>5 DEF DataKept, Takes, Reads
  <1>10. DataKept(f, a, v)'
    BY <1>1, <1>7, <1>8, <1>9, LongCells
  <1>11. Sought(a + q + 1, f.last)'
    <2>1. Now(n + 1, f.last)'
      BY <1>5, AdvanceStep
    <2>2. QED
      BY <2>1 DEF Sought
  <1>12. bytes_missing' = r /\ a + q < n + 1
    BY <1>1, <1>5
  <1>13. InData(f, a, v)'
    BY <1>1, <1>11, <1>12, InLongNext
  <1>14. QED
    BY <1>5, <1>10, <1>13

\* Its last word.
LEMMA LastWordStep ==
  ASSUME NEW w, NEW n, Takes(w, n), NEW f, NEW a, NEW v, FieldOf(f, a, v), a + 1 < n,
         PARAMETER_LENGTH < v, NEW q, NEW r, Parts(v, q, r), DataKept(f, a, v),
         n = a + q + 1, n <= a + WordsFor(v), bytes_missing = r,
         NEW ACTION Done, ReadLast(f, Done), UNCHANGED len
  PROVE  DataKept(f, a, v)' /\ n = a + WordsFor(v) /\ Done
  <1>1. /\ a \in Nat /\ v \in Nat /\ n \in Nat /\ a < n /\ v <= UINT16_MAX /\ Field(f)
        /\ f.slot \in Slots /\ parameterOffset = Position(n) /\ v > PARAMETER_LENGTH
        /\ q \in Nat /\ r \in 0 .. PARAMETER_LENGTH - 1 /\ r \in Nat
        /\ 1 <= r /\ n = a + WordsFor(v)
    <2>1. a \in Nat /\ v \in Nat /\ n \in Nat /\ v <= UINT16_MAX /\ Field(f) /\ f.slot \in Slots
          /\ parameterOffset = Position(n) /\ q \in Nat /\ r \in 0 .. PARAMETER_LENGTH - 1
          /\ WordsFor(v) = IF r = 0 THEN q ELSE q + 1
      BY TakesType DEF FieldOf, Field, Parts
    <2>2. QED
      BY <2>1 DEF PARAMETER_LENGTH
  <1>2. len[f.slot] = v /\ DOMAIN text[f.slot] = Cells
    BY <1>1, FieldLength
  <1>3. Filled(f, a, v, q, r, n)
    BY LongFilled
  <1>4. PICK b : b = text[f.slot]
    OBVIOUS
  <1>5. /\ text' = [text EXCEPT ![f.slot] = LastPart(f, r, b)]
        /\ UNCHANGED ellipsis /\ Done
    BY <1>4 DEF ReadLast
  <1>6. text'[f.slot] = LastPart(f, r, b)
    BY <1>1, <1>5 DEF Takes, Buffers
  <1>7. /\ DOMAIN text'[f.slot] = Cells
        /\ \A j \in Cells :
             text'[f.slot][j] = IF HALF_PARAMETER_LENGTH <= j /\ PARAMETER_LENGTH <= j + r
                                THEN parameterOffset + j + r - PARAMETER_LENGTH ELSE b[j]
    BY <1>1, <1>2, <1>4, <1>6, PartCells
  <1>8. ASSUME NEW j \in Cells
        PROVE  text'[f.slot][j] = IF ByteSource(a, v, j) < Position(n + 1)
                                  THEN ByteSource(a, v, j) ELSE 0
    <2>1. CASE j < HALF_PARAMETER_LENGTH
      <3>1. ~(HALF_PARAMETER_LENGTH <= j)
        BY <2>1 DEF Cells, HALF_PARAMETER_LENGTH, PARAMETER_LENGTH
      <3>2. QED
        BY <1>3, <1>4, <1>7, <2>1, <3>1 DEF Filled
    <2>2. CASE ~(j < HALF_PARAMETER_LENGTH)
      <3>1. /\ HALF_PARAMETER_LENGTH <= j
            /\ ByteSource(a, v, j) = Position(a + q) + j + r
            /\ b[j] = IF a + q + 1 < n \/ (a + q + 1 = n /\ j + r < PARAMETER_LENGTH)
                      THEN ByteSource(a, v, j) ELSE 0
            /\ ByteSource(a, v, j) < Position(n + 1)
                 <=> a + q + 1 < n + 1 \/ (a + q + 1 = n + 1 /\ j + r < PARAMETER_LENGTH)
        BY <1>3, <1>4, <2>2 DEF Filled
      <3>2. a + q + 1 = n /\ a + q + 1 < n + 1
        BY <1>1
      <3>3. parameterOffset = Position(a + q) + PARAMETER_LENGTH
        BY <1>1, Positions
      <3>4. Position(a + q) \in Int /\ j \in Int
        BY <1>1, Positions DEF Cells
      <3>5. CASE j + r < PARAMETER_LENGTH
        <4>1. ~(PARAMETER_LENGTH <= j + r)
          BY <1>1, <3>4, <3>5 DEF PARAMETER_LENGTH
        <4>2. QED
          BY <1>7, <3>1, <3>2, <3>5, <4>1
      <3>6. CASE ~(j + r < PARAMETER_LENGTH)
        <4>1. PARAMETER_LENGTH <= j + r
              /\ parameterOffset + j + r - PARAMETER_LENGTH = Position(a + q) + j + r
          BY <1>1, <3>3, <3>4, <3>6 DEF PARAMETER_LENGTH
        <4>2. QED
          BY <1>7, <3>1, <3>2, <4>1
      <3>7. QED
        BY <3>5, <3>6
    <2>3. QED
      BY <2>1, <2>2
  <1>9. ellipsis'[f.slot] = TRUE
    BY <1>1, <1>5 DEF DataKept, Takes, Reads
  <1>10. DataKept(f, a, v)'
    BY <1>1, <1>7, <1>8, <1>9, LongCells
  <1>11. QED
    BY <1>1, <1>5, <1>10

\* A word before the one that is sought.
LEMMA FieldSkipped ==
  ASSUME NEW w, NEW n, Takes(w, n), NEW f, NEW a, NEW v, FieldOf(f, a, v),
         InData(f, a, v), DataKept(f, a, v), SkipToOffset
  PROVE  DataKept(f, a, v)' /\ InData(f, a, v)'
  <1>1. a \in Nat /\ v \in Nat /\ n \in Nat /\ WordNumber = n /\ v <= UINT16_MAX
    BY TakesType DEF FieldOf
  <1>2. ~Now(a + 1, f.data)
    BY NowStep
  <1>3. v > PARAMETER_LENGTH /\ PARAMETER_LENGTH < v /\ a + 1 < n /\ a < n
    BY <1>1, <1>2 DEF InData, PARAMETER_LENGTH
  <1>4. PICK q, r \in Nat : Parts(v, q, r)
    BY <1>1, <1>3, LongParts
  <1>5. /\ bytes_missing = r
        /\ \/ q >= 2 /\ r < HALF_PARAMETER_LENGTH /\ Sought(a + q, f.second)
           \/ /\ r < HALF_PARAMETER_LENGTH => a + q < n
              /\ Sought(a + q + 1, f.last)
    BY <1>1, <1>2, <1>4, InLong
  <1>6. q \in Nat /\ r \in Nat /\ r < PARAMETER_LENGTH /\ a + q \in Nat /\ a + q + 1 \in Nat
    BY <1>1, <1>4 DEF Parts, PARAMETER_LENGTH
  <1>7. UNCHANGED <<text, len, ellipsis, bytes_missing>>
    BY DEF SkipToOffset, fields
  <1>8. \/ q >= 2 /\ r < HALF_PARAMETER_LENGTH /\ n < a + q /\ Sought(a + q, f.second)'
        \/ HALF_PARAMETER_LENGTH <= r /\ n < a + q + 1 /\ Sought(a + q + 1, f.last)'
    <2>1. CASE q >= 2 /\ r < HALF_PARAMETER_LENGTH /\ Sought(a + q, f.second)
      BY <1>6, <2>1, SoughtStep
    <2>2. CASE (r < HALF_PARAMETER_LENGTH => a + q < n) /\ Sought(a + q + 1, f.last)
      <3>1. n < a + q + 1 /\ Sought(a + q + 1, f.last)'
        BY <1>6, <2>2, SoughtStep
      <3>2. HALF_PARAMETER_LENGTH <= r
        BY <1>1, <1>6, <2>2, <3>1 DEF HALF_PARAMETER_LENGTH
      <3>3. QED
        BY <3>1, <3>2
    <2>3. QED
      BY <1>5, <2>1, <2>2
  <1>9. InData(f, a, v)'
    <2>1. r < HALF_PARAMETER_LENGTH => ~(HALF_PARAMETER_LENGTH <= r)
      BY <1>6 DEF HALF_PARAMETER_LENGTH
    <2>2. QED
      BY <1>1, <1>3, <1>4, <1>5, <1>7, <1>8, <2>1, InLongNext
  <1>10. Filled(f, a, v, q, r, n)
    BY <1>3, <1>4, LongFilled
  <1>11. ASSUME NEW j \in Cells
         PROVE  text'[f.slot][j] = IF ByteSource(a, v, j) < Position(n + 1)
                                   THEN ByteSource(a, v, j) ELSE 0
    <2>1. CASE j < HALF_PARAMETER_LENGTH
      BY <1>7, <1>10, <2>1 DEF Filled
    <2>2. CASE ~(j < HALF_PARAMETER_LENGTH)
      <3>1. /\ HALF_PARAMETER_LENGTH <= j
            /\ text[f.slot][j] = IF a + q + 1 < n \/ (a + q + 1 = n /\ j + r < PARAMETER_LENGTH)
                                 THEN ByteSource(a, v, j) ELSE 0
            /\ ByteSource(a, v, j) < Position(n + 1)
                 <=> a + q + 1 < n + 1 \/ (a + q + 1 = n + 1 /\ j + r < PARAMETER_LENGTH)
        BY <1>10, <2>2 DEF Filled
      <3>2. /\ ~(a + q + 1 < n) /\ a + q + 1 # n /\ ~(a + q + 1 < n + 1)
            /\ ~(a + q + 1 = n + 1 /\ j + r < PARAMETER_LENGTH)
        BY <1>1, <1>6, <1>8, <3>1 DEF Cells, HALF_PARAMETER_LENGTH, PARAMETER_LENGTH
      <3>3. QED
        BY <1>7, <3>1, <3>2
    <2>3. QED
      BY <2>1, <2>2
  <1>12. ellipsis'[f.slot] = TRUE /\ DOMAIN text'[f.slot] = Cells
    BY <1>1, <1>3, <1>7 DEF DataKept, Cells
  <1>13. DataKept(f, a, v)'
    BY <1>3, <1>4, <1>7, <1>11, <1>12, LongCells
  <1>14. QED
    BY <1>9, <1>13

\* A word of a field: it stays in the field, or was the last one.
LEMMA FieldStep ==
  ASSUME NEW w, NEW n, Takes(w, n), NEW f, NEW a, NEW v, FieldOf(f, a, v),
         InData(f, a, v), DataKept(f, a, v), n <= a + WordsFor(v), AtOffset,
         NEW length, v > PARAMETER_LENGTH => length = v,
         NEW ACTION Done, ReadField(f, length, Done)
  PROVE  /\ DataKept(f, a, v)' /\ OtherFields(f)
         /\ \/ InData(f, a, v)' /\ UNCHANGED id
            \/ n = a + WordsFor(v) /\ Done
  <1>1. a \in Nat /\ v \in Nat /\ n \in Nat /\ WordNumber = n /\ Field(f) /\ v <= UINT16_MAX
    BY TakesType DEF FieldOf
  <1>2. OtherFields(f)
    BY FieldReadOthers DEF Takes
  <1>3. UNCHANGED len
    BY <1>2 DEF OtherFields
  <1>4. CASE Now(a + 1, f.data)
    <2>1. n = a + 1 /\ next_param = f.data
      BY <1>4, NowStep
    <2>2. ReadShort(f, Done) \/ ReadLong(f, length)
      BY <1>1, <2>1 DEF ReadField, Field
    <2>3. CASE ReadShort(f, Done)
      <3>1. DataKept(f, a, v)' /\ n = a + WordsFor(v) /\ Done
        BY <1>3, <2>1, <2>3, ShortStep
      <3>2. QED
        BY <1>2, <3>1
    <2>4. CASE ReadLong(f, length)
      BY <1>2, <1>3, <2>1, <2>4, LongStep
    <2>5. QED
      BY <2>2, <2>3, <2>4
  <1>5. CASE ~Now(a + 1, f.data)
    <2>1. v > PARAMETER_LENGTH /\ PARAMETER_LENGTH < v /\ a + 1 < n
      BY <1>1, <1>5 DEF InData, PARAMETER_LENGTH
    <2>2. PICK q, r \in Nat : Parts(v, q, r)
      BY <1>1, <2>1, LongParts
    <2>3. /\ bytes_missing = r
          /\ \/ q >= 2 /\ r < HALF_PARAMETER_LENGTH /\ Sought(a + q, f.second)
             \/ Sought(a + q + 1, f.last)
      BY <1>1, <1>5, <2>2, InLong
    <2>4. a + q \in Nat /\ a + q + 1 \in Nat
      BY <1>1, <2>2
    <2>5. CASE r < HALF_PARAMETER_LENGTH /\ Sought(a + q, f.second)
      <3>1. n = a + q /\ next_param = f.second
        BY <2>4, <2>5, SoughtStep
      <3>2. ReadSecondLast(f)
        BY <1>1, <3>1 DEF ReadField, Field
      <3>3. QED
        BY <1>2, <1>3, <2>1, <2>2, <2>3, <2>5, <3>1, <3>2, SecondStep
    <2>6. CASE Sought(a + q + 1, f.last)
      <3>1. n = a + q + 1 /\ next_param = f.last
        BY <2>4, <2>6, SoughtStep
      <3>2. ReadLast(f, Done)
        BY <1>1, <3>1 DEF ReadField, Field
      <3>3. DataKept(f, a, v)' /\ n = a + WordsFor(v) /\ Done
        BY <1>3, <2>1, <2>2, <2>3, <3>1, <3>2, LastWordStep
      <3>4. QED
        BY <1>2, <3>3
    <2>7. QED
      BY <2>3, <2>5, <2>6
  <1>6. QED
    BY <1>4, <1>5

(***************************************************************************)
(* A field that comes last.                                                *)
(***************************************************************************)

\* The parameter of a field.
LEMMA DataParam ==
  ASSUME NEW f, NEW a, NEW v, InData(f, a, v)
  PROVE  next_param \in {f.data, f.second, f.last}
  BY DEF InData, Now, Sought

\* A word of a field behind which the parameter is p.
LEMMA FieldStepThen ==
  ASSUME NEW w, NEW n, Takes(w, n), NEW f, NEW a, NEW v, FieldOf(f, a, v),
         InData(f, a, v), DataKept(f, a, v), n <= a + WordsFor(v), AtOffset,
         NEW length, v > PARAMETER_LENGTH => length = v,
         NEW p, ReadField(f, length, Then(p))
  PROVE  /\ DataKept(f, a, v)' /\ OtherFields(f)
         /\ \/ InData(f, a, v)' /\ UNCHANGED id
            \/ n = a + WordsFor(v) /\ Then(p)
  BY FieldStep

\* It is behind its length.
LEMMA DataBegun ==
  ASSUME NEW w, NEW n, Takes(w, n), NEW f, NEW a \in Nat, NEW v, InData(f, a, v)
  PROVE  a < n
  <1>1. WordNumber = n /\ n \in Nat
    BY TakesType
  <1>2. CASE Now(a + 1, f.data)
    BY <1>1, <1>2 DEF Now
  <1>3. CASE a + 1 < WordNumber
    BY <1>1, <1>3
  <1>4. QED
    BY <1>2, <1>3 DEF InData

\* What the words of field f leave alone.
OtherSlots(f) ==
    /\ UNCHANGED <<statics, count, id>>
    /\ \A k \in Slots \ {f.slot} :
          len'[k] = len[k] /\ text'[k] = text[k] /\ ellipsis'[k] = ellipsis[k]

\* The words of field f, the last one of a call: its length is parameter p.
ReadsLast(w, f, p, o, length) ==
    \/ SkipToOffset
    \/ /\ AtOffset
       /\ \/ next_param = p /\ ReadLengthAt(o, w, f.slot, f.data)
          \/ ReadField(f, length, Then("NONE"))

\* A field that is last, of v bytes, whose length is in word a.
LastField(f, p, a, v) ==
    /\ FieldOf(f, a, v)
    /\ a + WordsFor(v) = Len(Encode(call)) /\ Encode(call)[a] = Quantity(v)
    /\ p \notin {f.data, f.second, f.last}

LEMMA LastStep ==
  ASSUME NEW w, NEW n, Takes(w, n), NEW f, NEW p, NEW a, NEW v, LastField(f, p, a, v),
         InLast(f, p, a, v), DataKept(f, a, v),
         NEW length, length = len[f.slot] \/ v <= PARAMETER_LENGTH,
         NEW o, ReadsLast(w, f, p, o, length)
  PROVE  InLast(f, p, a, v)' /\ DataKept(f, a, v)' /\ OtherSlots(f)
  <1>1. /\ a \in Nat /\ v \in Nat /\ n \in Nat /\ WordNumber = n /\ v <= UINT16_MAX /\ Field(f)
        /\ FieldOf(f, a, v) /\ a + WordsFor(v) = Len(Encode(call))
        /\ Encode(call)[a] = Quantity(v)
        /\ Len(Encode(call)) \in Nat /\ n <= Len(Encode(call)) /\ call' = call
        /\ p \notin {f.data, f.second, f.last}
    BY TakesType DEF FieldOf, LastField
  <1>2. ~Now(a + WordsFor(v) + 1, "NONE")
    <2>1. a + WordsFor(v) + 1 # n
      BY <1>1
    <2>2. QED
      BY <2>1, NowStep
  <1>3. CASE Sought(a, p)
    <2>1. next_param = p /\ n <= a
          /\ (SkipToOffset => n < a /\ Sought(a, p)' /\ UNCHANGED <<fields, bytes_missing>>)
          /\ (AtOffset => n = a)
      BY <1>1, <1>3, SoughtStep
    <2>2. CASE SkipToOffset
      <3>1. n < a /\ Sought(a, p)' /\ UNCHANGED <<statics, count, id, len, text, ellipsis>>
        BY <2>1, <2>2 DEF fields
      <3>2. DataKept(f, a, v)'
        BY <1>1, <3>1, DataAhead
      <3>3. QED
        BY <3>1, <3>2 DEF InLast, OtherSlots
    <2>3. CASE ~SkipToOffset
      <3>1. n = a /\ ReadLengthAt(o, w, f.slot, f.data)
        BY <1>1, <2>1, <2>3 DEF ReadsLast, ReadField
      <3>2. ReadLength(w, f.slot, f.data)
        BY <3>1 DEF ReadLengthAt, Refuse, Takes
      <3>3. /\ DataKept(f, a, v)' /\ Now(n + 1, f.data)'
            /\ \A k \in Slots \ {f.slot} : len'[k] = len[k]
            /\ UNCHANGED <<statics, text, ellipsis, count, id>>
        BY <1>1, <3>1, <3>2, LengthTaken
      <3>4. InData(f, a, v)'
        BY <3>1, <3>3 DEF InData
      <3>5. QED
        BY <3>3, <3>4 DEF InLast, OtherSlots
    <2>4. QED
      BY <2>2, <2>3
  <1>4. CASE InData(f, a, v)
    <2>1. CASE SkipToOffset
      <3>1. UNCHANGED <<statics, count, id, len, text, ellipsis>>
        BY <2>1 DEF SkipToOffset, fields
      <3>2. DataKept(f, a, v)' /\ InData(f, a, v)'
        BY <1>1, <1>4, <2>1, FieldSkipped
      <3>3. QED
        BY <3>1, <3>2 DEF InLast, OtherSlots
    <2>2. CASE ~SkipToOffset
      <3>1. next_param # p
        BY <1>1, <1>4, DataParam
      <3>2. AtOffset /\ ReadField(f, length, Then("NONE"))
        BY <2>2, <3>1 DEF ReadsLast
      <3>3. len[f.slot] = v
        BY <1>1, <1>4, DataBegun, FieldLength
      <3>4. v > PARAMETER_LENGTH => length = v
        BY <1>1, <3>3 DEF PARAMETER_LENGTH
      <3>5. /\ DataKept(f, a, v)' /\ OtherFields(f)
            /\ \/ InData(f, a, v)' /\ UNCHANGED id
               \/ n = a + WordsFor(v) /\ Then("NONE")
        BY <1>1, <1>4, <3>2, <3>4, FieldStepThen
      <3>6. OtherFields(f) /\ UNCHANGED id => OtherSlots(f)
        BY DEF OtherFields, OtherSlots
      <3>7. CASE n = a + WordsFor(v) /\ Then("NONE")
        <4>1. Now(n + 1, "NONE")' /\ UNCHANGED id
          BY <3>7, AdvanceStep DEF Then
        <4>2. QED
          BY <3>5, <3>6, <3>7, <4>1 DEF InLast
      <3>8. QED
        BY <3>5, <3>6, <3>7 DEF InLast
    <2>3. QED
      BY <2>1, <2>2
  <1>5. QED
    BY <1>2, <1>3, <1>4 DEF InLast

(***************************************************************************)
(* What a word leaves of the rest.                                         *)
(***************************************************************************)

\* Fields of fixed size in other words, but for field f; fields behind word n.
WordsStay(f, n) ==
    \A g \in Statics : \A i \in Nat : \A b : g # f /\ i # n /\ WordKept(g, i, b) => WordKept(g, i, b)'
DataStay(n) ==
    \A g : \A a, v \in Nat : n < a /\ DataKept(g, a, v) => DataKept(g, a, v)'

LEMMA Unmoved ==
  ASSUME NEW w, NEW n, Takes(w, n), UNCHANGED <<len, text, ellipsis>>
  PROVE  DataStay(n)
  BY DataAhead DEF DataStay

LEMMA SameWords ==
  ASSUME NEW w, NEW n, Takes(w, n), UNCHANGED statics
  PROVE  \A f : WordsStay(f, n)
  BY WordStays DEF WordsStay

\* A parameter of fixed size.
LEMMA WordStep ==
  ASSUME NEW w, NEW n, Takes(w, n), NEW f \in Statics, NEW first, NEW p,
         CopyWord(w, f, first), Advance(p)
  PROVE  /\ Now(n + 1, p)' /\ WordKept(f, n, first)' /\ WordsStay(f, n) /\ DataStay(n)
         /\ UNCHANGED <<count, id>>
  <1>1. /\ WordKept(f, n, first)'
        /\ \A g \in Statics : \A i \in Nat : \A b :
               g # f /\ i # n /\ WordKept(g, i, b) => WordKept(g, i, b)'
        /\ UNCHANGED <<len, text, ellipsis, count, id>>
    BY WordCopiedTo
  <1>2. Now(n + 1, p)'
    BY AdvanceStep
  <1>3. DataStay(n)
    BY <1>1, Unmoved
  <1>4. QED
    BY <1>1, <1>2, <1>3 DEF WordsStay

\* An offset.
LEMMA OffsetStep ==
  ASSUME NEW w, NEW n, Takes(w, n), NEW k, NEW p,
         SaveOffset(w, k, p) \/ SaveOffsetAnyway(w, k, p) \/ SaveArrayOffset(w, p)
  PROVE  /\ Now(n + 1, p)' /\ DataStay(n) /\ (\A f : WordsStay(f, n))
         /\ UNCHANGED <<count, id>>
  <1>1. Advance(p) /\ UNCHANGED <<statics, len, text, ellipsis, count, id>>
    BY DEF Takes, SaveOffset, SaveOffsetAnyway, SaveArrayOffset, Refuse
  <1>2. QED
    BY <1>1, AdvanceStep, Unmoved, SameWords

\* A word of another field.
LEMMA OthersStay ==
  ASSUME NEW w, NEW n, Takes(w, n), NEW f, OtherSlots(f) \/ OtherFields(f)
  PROVE  /\ \A g : WordsStay(g, n)
         /\ \A g : \A a, v \in Nat :
              /\ DataKept(g, a, v) /\ g.slot \in Slots \ {f.slot}
              /\ n < a \/ (a + WordsFor(v) < n /\ (g.byLength \/ 1 <= v))
              => DataKept(g, a, v)'
  <1>1. /\ UNCHANGED statics
        /\ \A k \in Slots \ {f.slot} :
              len'[k] = len[k] /\ text'[k] = text[k] /\ ellipsis'[k] = ellipsis[k]
    BY DEF OtherSlots, OtherFields
  <1>2. \A g : WordsStay(g, n)
    BY <1>1, SameWords
  <1>3. ASSUME NEW g, NEW a \in Nat, NEW v \in Nat, DataKept(g, a, v), g.slot \in Slots \ {f.slot},
               n < a \/ (a + WordsFor(v) < n /\ (g.byLength \/ 1 <= v))
        PROVE  DataKept(g, a, v)'
    BY <1>1, <1>3, DataAhead, DataBehind
  <1>4. QED
    BY <1>2, <1>3

(***************************************************************************)
(* Where the only field of a call is.                                      *)
(***************************************************************************)

\* The parameters of a field that is last.
LEMMA LastParam ==
  ASSUME NEW w, NEW n, Takes(w, n), NEW f, NEW p, NEW a, NEW v, LastField(f, p, a, v),
         InLast(f, p, a, v)
  PROVE  next_param \in {p, f.data, f.second, f.last}
  <1>1. a + WordsFor(v) + 1 # n
    BY TakesType DEF LastField, FieldOf
  <1>2. ~Now(a + WordsFor(v) + 1, "NONE")
    BY <1>1, NowStep
  <1>3. Sought(a, p) => next_param = p
    BY DEF Sought, Now
  <1>4. QED
    BY <1>2, <1>3, DataParam DEF InLast

LEMMA LastWords ==
  ASSUME NEW w, NEW n, Takes(w, n), call.selector \in OneData,
         NEW i \in 1 .. Len(Signature(call.selector)), Signature(call.selector)[i] = "data",
         \A j \in 1 .. Len(Signature(call.selector)) :
            j # i => Signature(call.selector)[j] = "word",
         DataIndex(call, i) = 1,
         NEW f, Field(f), NEW p, p \notin {f.data, f.second, f.last}
  PROVE  LastField(f, p, Len(Signature(call.selector)) + 1, call.lens[1])
         /\ Len(Encode(call)) = Len(Signature(call.selector)) + 1 + WordsFor(call.lens[1])
         /\ WordsFor(call.lens[1]) \in Nat /\ call.lens[1] \in Nat
  <1> DEFINE h == Len(Signature(call.selector))
             v == call.lens[1]
  <1>1. call \in Transactions /\ Supported(call) /\ Reads(w, n)
    BY TakesType DEF Takes
  <1>2. /\ h \in 1 .. 6
        /\ \A j \in 1 .. h :
             /\ TailWord(call, j) \in Nat
             /\ TailWord(call, j + 1) = TailWord(call, j) + Len(TailOf(call, j))
             /\ Signature(call.selector)[j] = "word" => Len(TailOf(call, j)) = 0
    BY <1>1, CallWords
  <1>3. /\ v \in Nat /\ v <= UINT16_MAX /\ WordsFor(v) \in Nat
        /\ Encode(call)[TailWord(call, i) + 1] = Quantity(v)
        /\ TailWord(call, i + 1) = TailWord(call, i) + 1 + WordsFor(v)
    BY <1>1, DataWords
  <1>4. NumberWord(i) = h + 1
    BY <1>1, OneDataWords
  <1>5. Len(Encode(call)) = TailWord(call, h + 1)
    BY <1>1, EncodeShape
  <1>6. Len(Encode(call)) \in Nat
    BY <1>1, CallWords
  <1>7. TailWord(call, h + 1) = TailWord(call, i + 1)
    <2>1. i \in 1 .. h /\ \A j \in 1 .. h : j # i => TailWord(call, j + 1) = TailWord(call, j)
      <3>1. \A j \in 1 .. h : j # i => TailWord(call, j + 1) = TailWord(call, j) + 0
        BY <1>2
      <3>2. QED
        BY <1>2, <3>1
    <2>11. h \in 1 .. 6 /\ i \in 1 .. h
      BY <1>2
    <2> HIDE DEF h, v
    <2>2. i \in Nat /\ 1 <= i /\ i <= h /\ h \in 1 .. 6
      BY <2>11
    <2>3. i < 2 /\ 2 <= h => TailWord(call, 3) = TailWord(call, 2)
      <3>1. i < 2 /\ 2 <= h => 2 \in 1 .. h /\ 2 # i /\ 2 + 1 = 3
        BY <2>2
      <3>2. 2 \in 1 .. h /\ 2 # i => TailWord(call, 2 + 1) = TailWord(call, 2)
        BY <2>1
      <3>3. QED
        BY <3>1, <3>2
    <2>4. i < 3 /\ 3 <= h => TailWord(call, 4) = TailWord(call, 3)
      BY <2>1, <2>2
    <2>5. i < 4 /\ 4 <= h => TailWord(call, 5) = TailWord(call, 4)
      BY <2>1, <2>2
    <2>6. i < 5 /\ 5 <= h => TailWord(call, 6) = TailWord(call, 5)
      BY <2>1, <2>2
    <2>7. i < 6 /\ 6 <= h => TailWord(call, 7) = TailWord(call, 6)
      BY <2>1, <2>2
    <2>8. h = 1 \/ h = 2 \/ h = 3 \/ h = 4 \/ h = 5 \/ h = 6
      BY <2>2
    <2>9. i = 1 \/ i = 2 \/ i = 3 \/ i = 4 \/ i = 5 \/ i = 6
      BY <2>2
    <2>10. QED
      BY <2>2, <2>3, <2>4, <2>5, <2>6, <2>7, <2>8, <2>9
  <1> HIDE DEF h, v
  <1>8. Len(Encode(call)) = h + 1 + WordsFor(v) /\ Encode(call)[h + 1] = Quantity(v)
    BY <1>2, <1>3, <1>4, <1>5, <1>7 DEF NumberWord
  <1>9. LastField(f, p, h + 1, v)
    BY <1>2, <1>3, <1>6, <1>8 DEF LastField, FieldOf
  <1>10. QED
    BY <1>3, <1>8, <1>9 DEF h, v

\* The fields there are.
LEMMA FieldsType ==
  /\ Field(NameField) /\ NameField.slot = 0 /\ NameField.data = "NAME"
  /\ NameField.second = "NAME_OFFSET_1" /\ NameField.last = "NAME_OFFSET_2"
  /\ NameField.byLength
  /\ Field(ProofField) /\ ProofField.slot = 1 /\ ProofField.data = "PROOF"
  /\ ProofField.second = "PROOF_1" /\ ProofField.last = "PROOF_2" /\ ~ProofField.byLength
  /\ Field(HashField) /\ HashField.slot = 0 /\ HashField.data = "HASH"
  /\ HashField.second = "HASH_1" /\ HashField.last = "HASH_2" /\ ~HashField.byLength
  /\ Field(KeyField) /\ KeyField.slot = 0 /\ KeyField.data = "KEY"
  /\ KeyField.second = "KEY_1" /\ KeyField.last = "KEY_2" /\ KeyField.byLength
  /\ Field(ValueField) /\ ValueField.slot = 1 /\ ValueField.data = "VALUE"
  /\ ValueField.second = "VALUE_1" /\ ValueField.last = "VALUE_2" /\ ValueField.byLength
  /\ Field(CallField) /\ CallField.slot = 0 /\ CallField.data = "CALL"
  /\ CallField.second = "CALL_1" /\ CallField.last = "CALL_2" /\ ~CallField.byLength
  BY DEF Field, NameField, ProofField, HashField, KeyField, ValueField, CallField, Slots,
         Name, Proof, Hash, Key, Value

ParsesCommit ==
    /\ Now(1, "COMMITMENT") \/ Now(2, "NONE")
    /\ WordKept("commitment", 1, 0)

ParsesRegister ==
    /\ \/ Now(1, "NAME_OFFSET") \/ Now(2, "OWNER") \/ Now(3, "DURATION") \/ Now(4, "SECRET")
       \/ WordNumber >= 5 /\ InLast(NameField, "NAME_LENGTH", 5, call.lens[1])
    /\ WordKept("owner", 2, 12) /\ WordKept("duration", 3, 0) /\ WordKept("secret", 4, 0)
    /\ DataKept(NameField, 5, call.lens[1])

ParsesRegisterWithConfig ==
    /\ \/ Now(1, "NAME_OFFSET") \/ Now(2, "OWNER") \/ (WordNumber > 2 /\ Sought(4, "SECRET"))
       \/ Now(5, "RESOLVER") \/ Now(6, "ADDR")
       \/ WordNumber >= 7 /\ InLast(NameField, "NAME_LENGTH", 7, call.lens[1])
    /\ WordKept("owner", 2, 12) /\ WordKept("secret", 4, 0)
    /\ WordKept("resolver", 5, 12) /\ WordKept("addr", 6, 12)
    /\ DataKept(NameField, 7, call.lens[1])

ParsesRenew ==
    /\ \/ Now(1, "NAME_OFFSET") \/ Now(2, "DURATION")
       \/ WordNumber >= 3 /\ InLast(NameField, "NAME_LENGTH", 3, call.lens[1])
    /\ WordKept("duration", 2, 0)
    /\ DataKept(NameField, 3, call.lens[1])

ParsesSetName ==
    /\ \/ Now(1, "NAME_OFFSET")
       \/ WordNumber >= 2 /\ InLast(NameField, "NAME_LENGTH", 2, call.lens[1])
    /\ DataKept(NameField, 2, call.lens[1])

ParsesSetOwner ==
    /\ Now(1, "NODE") \/ Now(2, "OWNER") \/ Now(3, "NONE")
    /\ WordKept("node", 1, 0) /\ WordKept("owner", 2, 12)

ParsesSetResolver ==
    /\ Now(1, "NODE") \/ Now(2, "RESOLVER") \/ Now(3, "NONE")
    /\ WordKept("node", 1, 0) /\ WordKept("resolver", 2, 12)

ParsesSetSubnode ==
    /\ \/ Now(1, "NODE") \/ Now(2, "LABEL") \/ Now(3, "OWNER") \/ Now(4, "RESOLVER")
       \/ Now(5, "TTL") \/ Now(6, "NONE")
    /\ WordKept("node", 1, 0) /\ WordKept("label", 2, 0) /\ WordKept("owner", 3, 12)
    /\ WordKept("resolver", 4, 12) /\ WordKept("ttl", 5, 0)

ParsesSetAddr ==
    /\ \/ Now(1, "NODE") \/ Now(2, "COINTYPE") \/ Now(3, "HASH_OFFSET")
       \/ WordNumber >= 4 /\ InLast(HashField, "HASH_LEN", 4, call.lens[1])
    /\ WordKept("node", 1, 0) /\ WordKept("coinType", 2, 0)
    /\ DataKept(HashField, 4, call.lens[1])

ParsesSetContentHash ==
    /\ \/ Now(1, "NODE") \/ Now(2, "HASH_OFFSET")
       \/ WordNumber >= 3 /\ InLast(HashField, "HASH_LEN", 3, call.lens[1])
    /\ WordKept("node", 1, 0)
    /\ DataKept(HashField, 3, call.lens[1])

ParsesSetText ==
    LET a == 4 + WordsFor(call.lens[1]) + 1
    IN /\ \/ Now(1, "NODE") \/ Now(2, "KEY_OFFSET") \/ Now(3, "VALUE_OFFSET")
          \/ Now(4, "KEY_LENGTH") \/ InData(KeyField, 4, call.lens[1])
          \/ WordNumber >= a /\ InLast(ValueField, "VALUE_LENGTH", a, call.lens[2])
       /\ WordKept("node", 1, 0)
       /\ DataKept(KeyField, 4, call.lens[1])
       /\ DataKept(ValueField, a, call.lens[2])

\* The name, the inputs and the proof of a claim, behind a head of h words.
ParsesClaim(h) ==
    /\ \/ Now(h + 1, "NAME_LENGTH")
       \/ InData(NameField, h + 1, call.lens[1])
       \/ Now(NumberWord(2), "INPUT")
       \/ NumberWord(2) < WordNumber /\ InLast(ProofField, "PROOF_LEN", NumberWord(3), call.lens[2])

ParsesClaimKept(h) ==
    /\ DataKept(NameField, h + 1, call.lens[1])
    /\ WordKept("n_inputs", NumberWord(2), 0)
    /\ DataKept(ProofField, NumberWord(3), call.lens[2])

ParsesProveClaim ==
    /\ \/ Now(1, "NAME_OFFSET") \/ Now(2, "INPUT_OFFSET") \/ Now(3, "PROOF_OFFSET")
       \/ ParsesClaim(3)
    /\ ParsesClaimKept(3)

ParsesProveClaimResolver ==
    /\ \/ Now(1, "NAME_OFFSET") \/ Now(2, "INPUT_OFFSET") \/ Now(3, "PROOF_OFFSET")
       \/ Now(4, "RESOLVER") \/ Now(5, "ADDR")
       \/ ParsesClaim(5)
    /\ WordKept("resolver", 4, 12) /\ WordKept("addr", 5, 12)
    /\ ParsesClaimKept(5)

ParsesElement(h, p, field, e) ==
    LET g == [field EXCEPT !.slot = e - 1]
        m == ElementWord(call, e)
    IN /\ id = e - 1
       /\ \/ Now(h + 1 + e, "OFFSETS")
          \/ WordNumber = m /\ Sought(m, p)
          \/ InData(g, m, call.lens[e])

ElementsKept(field) ==
    \A e \in 1 .. Len(call.lens) :
        DataKept([field EXCEPT !.slot = e - 1], ElementWord(call, e), call.lens[e])

ParsesArray(h, p, field) ==
    /\ \/ WordNumber <= h + 1
       \/ \E e \in 1 .. Len(call.lens) : ParsesElement(h, p, field, e)
       \/ Now(Len(Encode(call)) + 1, "NONE")
    /\ count = IF h + 1 < WordNumber THEN Len(call.lens) ELSE 0
    /\ ElementsKept(field)

ParsesRenewAll ==
    /\ WordNumber <= 3 => id = 0 /\ (Now(1, "NAME_OFFSET") \/ Now(2, "DURATION") \/ Now(3, "N_NAME"))
    /\ ParsesArray(2, "NAME_LENGTH", NameField)
    /\ WordKept("duration", 2, 0)

ParsesMulticall ==
    /\ WordNumber <= 2 => id = 0 /\ (Now(1, "CALL_OFFSET") \/ Now(2, "N_CALL"))
    /\ ParsesArray(1, "CALL_LEN", CallField)

Parses ==
    \/ selectorIndex = "COMMIT" /\ ParsesCommit
    \/ selectorIndex = "REGISTER" /\ ParsesRegister
    \/ selectorIndex = "REGISTER_WITH_CONFIG" /\ ParsesRegisterWithConfig
    \/ selectorIndex = "RENEW" /\ ParsesRenew
    \/ selectorIndex = "SET_NAME" /\ ParsesSetName
    \/ selectorIndex = "RENEW_ALL" /\ ParsesRenewAll
    \/ selectorIndex = "PROVE_AND_CLAIM" /\ ParsesProveClaim
    \/ selectorIndex = "PROVE_AND_CLAIM_RESOLVER" /\ ParsesProveClaimResolver
    \/ selectorIndex = "SET_OWNER" /\ ParsesSetOwner
    \/ selectorIndex = "SET_RESOLVER" /\ ParsesSetResolver
    \/ selectorIndex = "SET_SUBNODE" /\ ParsesSetSubnode
    \/ selectorIndex = "SET_ADDR" /\ ParsesSetAddr
    \/ selectorIndex = "SET_TEXT" /\ ParsesSetText
    \/ selectorIndex = "SET_CONTENT_HASH" /\ ParsesSetContentHash
    \/ selectorIndex = "MULTICALL" /\ ParsesMulticall

(***************************************************************************)
(* The handlers of the functions with one string or byte array.            *)
(***************************************************************************)

\* The only field of a call, behind the head.
LEMMA OnlyField ==
  ASSUME NEW w, NEW n, Takes(w, n), NEW v, v = call.lens[1]
  PROVE  /\ call.selector = "85f6d155" => LastField(NameField, "NAME_LENGTH", 5, v)
         /\ call.selector = "f7a16963" => LastField(NameField, "NAME_LENGTH", 7, v)
         /\ call.selector = "acf1a841" => LastField(NameField, "NAME_LENGTH", 3, v)
         /\ call.selector = "c47f0027" => LastField(NameField, "NAME_LENGTH", 2, v)
         /\ call.selector = "8b95dd71" => LastField(HashField, "HASH_LEN", 4, v)
         /\ call.selector = "304e6ade" => LastField(HashField, "HASH_LEN", 3, v)
         /\ call.selector \in OneData => v \in Nat /\ WordsFor(v) \in Nat
         /\ v = call'.lens[1]
  <1>1. /\ "NAME_LENGTH" \notin {NameField.data, NameField.second, NameField.last}
        /\ "HASH_LEN" \notin {HashField.data, HashField.second, HashField.last}
        /\ Field(NameField) /\ Field(HashField)
    BY FieldsType
  <1>2. call' = call
    BY TakesType
  <1>3. CASE call.selector = "85f6d155"
    <2>1. PICK kinds : kinds = Signature(call.selector)
      OBVIOUS
    <2>2. kinds = << "data", "word", "word", "word" >>
      BY <1>3, <2>1, Signatures
    <2>3. /\ 1 \in 1 .. Len(kinds) /\ kinds[1] = "data" /\ Len(kinds) + 1 = 5
          /\ \A j \in 1 .. Len(kinds) : j # 1 => kinds[j] = "word"
      BY <2>2
    <2>4. call.selector \in OneData /\ DataIndex(call, 1) = 1
      BY <1>3, DataIndexes DEF OneData
    <2>5. LastField(NameField, "NAME_LENGTH", Len(kinds) + 1, v) /\ v \in Nat /\ WordsFor(v) \in Nat
      BY <1>1, <2>1, <2>3, <2>4, LastWords
    <2>6. LastField(NameField, "NAME_LENGTH", 5, v) /\ v \in Nat /\ WordsFor(v) \in Nat
      BY <2>3, <2>5
    <2>7. QED
      BY <1>2, <1>3, <2>6
  <1>4. CASE call.selector = "f7a16963"
    <2>1. PICK kinds : kinds = Signature(call.selector)
      OBVIOUS
    <2>2. kinds = << "data", "word", "word", "word", "word", "word" >>
      BY <1>4, <2>1, Signatures
    <2>3. /\ 1 \in 1 .. Len(kinds) /\ kinds[1] = "data" /\ Len(kinds) + 1 = 7
          /\ \A j \in 1 .. Len(kinds) : j # 1 => kinds[j] = "word"
      BY <2>2
    <2>4. call.selector \in OneData /\ DataIndex(call, 1) = 1
      BY <1>4, DataIndexes DEF OneData
    <2>5. LastField(NameField, "NAME_LENGTH", Len(kinds) + 1, v) /\ v \in Nat /\ WordsFor(v) \in Nat
      BY <1>1, <2>1, <2>3, <2>4, LastWords
    <2>6. LastField(NameField, "NAME_LENGTH", 7, v) /\ v \in Nat /\ WordsFor(v) \in Nat
      BY <2>3, <2>5
    <2>7. QED
      BY <1>2, <1>4, <2>6
  <1>5. CASE call.selector = "acf1a841"
    <2>1. PICK kinds : kinds = Signature(call.selector)
      OBVIOUS
    <2>2. kinds = << "data", "word" >>
      BY <1>5, <2>1, Signatures
    <2>3. /\ 1 \in 1 .. Len(kinds) /\ kinds[1] = "data" /\ Len(kinds) + 1 = 3
          /\ \A j \in 1 .. Len(kinds) : j # 1 => kinds[j] = "word"
      BY <2>2
    <2>4. call.selector \in OneData /\ DataIndex(call, 1) = 1
      BY <1>5, DataIndexes DEF OneData
    <2>5. LastField(NameField, "NAME_LENGTH", Len(kinds) + 1, v) /\ v \in Nat /\ WordsFor(v) \in Nat
      BY <1>1, <2>1, <2>3, <2>4, LastWords
    <2>6. LastField(NameField, "NAME_LENGTH", 3, v) /\ v \in Nat /\ WordsFor(v) \in Nat
      BY <2>3, <2>5
    <2>7. QED
      BY <1>2, <1>5, <2>6
  <1>6. CASE call.selector = "c47f0027"
    <2>1. PICK kinds : kinds = Signature(call.selector)
      OBVIOUS
    <2>2. kinds = << "data" >>
      BY <1>6, <2>1, Signatures
    <2>3. /\ 1 \in 1 .. Len(kinds) /\ kinds[1] = "data" /\ Len(kinds) + 1 = 2
          /\ \A j \in 1 .. Len(kinds) : j # 1 => kinds[j] = "word"
      BY <2>2
    <2>4. call.selector \in OneData /\ DataIndex(call, 1) = 1
      BY <1>6, DataIndexes DEF OneData
    <2>5. LastField(NameField, "NAME_LENGTH", Len(kinds) + 1, v) /\ v \in Nat /\ WordsFor(v) \in Nat
      BY <1>1, <2>1, <2>3, <2>4, LastWords
    <2>6. LastField(NameField, "NAME_LENGTH", 2, v) /\ v \in Nat /\ WordsFor(v) \in Nat
      BY <2>3, <2>5
    <2>7. QED
      BY <1>2, <1>6, <2>6
  <1>7. CASE call.selector = "8b95dd71"
    <2>1. PICK kinds : kinds = Signature(call.selector)
      OBVIOUS
    <2>2. kinds = << "word", "word", "data" >>
      BY <1>7, <2>1, Signatures
    <2>3. /\ 3 \in 1 .. Len(kinds) /\ kinds[3] = "data" /\ Len(kinds) + 1 = 4
          /\ \A j \in 1 .. Len(kinds) : j # 3 => kinds[j] = "word"
      BY <2>2
    <2>4. call.selector \in OneData /\ DataIndex(call, 3) = 1
      BY <1>7, DataIndexes DEF OneData
    <2>5. LastField(HashField, "HASH_LEN", Len(kinds) + 1, v) /\ v \in Nat /\ WordsFor(v) \in Nat
      BY <1>1, <2>1, <2>3, <2>4, LastWords
    <2>6. LastField(HashField, "HASH_LEN", 4, v) /\ v \in Nat /\ WordsFor(v) \in Nat
      BY <2>3, <2>5
    <2>7. QED
      BY <1>2, <1>7, <2>6
  <1>8. CASE call.selector = "304e6ade"
    <2>1. PICK kinds : kinds = Signature(call.selector)
      OBVIOUS
    <2>2. kinds = << "word", "data" >>
      BY <1>8, <2>1, Signatures
    <2>3. /\ 2 \in 1 .. Len(kinds) /\ kinds[2] = "data" /\ Len(kinds) + 1 = 3
          /\ \A j \in 1 .. Len(kinds) : j # 2 => kinds[j] = "word"
      BY <2>2
    <2>4. call.selector \in OneData /\ DataIndex(call, 2) = 1
      BY <1>8, DataIndexes DEF OneData
    <2>5. LastField(HashField, "HASH_LEN", Len(kinds) + 1, v) /\ v \in Nat /\ WordsFor(v) \in Nat
      BY <1>1, <2>1, <2>3, <2>4, LastWords
    <2>6. LastField(HashField, "HASH_LEN", 3, v) /\ v \in Nat /\ WordsFor(v) \in Nat
      BY <2>3, <2>5
    <2>7. QED
      BY <1>2, <1>8, <2>6
  <1>9. QED
    BY <1>2, <1>3, <1>4, <1>5, <1>6, <1>7, <1>8 DEF OneData

\* register.
LEMMA RegisterShown ==
  ASSUME NEW w, NEW n, Takes(w, n), call.selector = "85f6d155",
         ParsesRegister, handle_register(w)
  PROVE  ParsesRegister'
  <1>1. PICK v : v = call.lens[1]
    OBVIOUS
  <1>2. LastField(NameField, "NAME_LENGTH", 5, v) /\ v = call'.lens[1] /\ v \in Nat
    BY <1>1, OnlyField DEF OneData
  <1>3. n \in Nat /\ WordNumber = n /\ WordNumber' = n + 1 /\ Name \in Slots /\ NameField.slot = Name
    BY TakesType, FieldsType DEF Name, Slots
  <1>4. /\ DataStay(n) => (n < 5 => DataKept(NameField, 5, v)')
        /\ \A f : WordsStay(f, n) =>
             /\ n # 2 /\ f # "owner" => WordKept("owner", 2, 12)'
             /\ n # 3 /\ f # "duration" => WordKept("duration", 3, 0)'
             /\ n # 4 /\ f # "secret" => WordKept("secret", 4, 0)'
    <2>1. /\ DataKept(NameField, 5, v)
          /\ WordKept("owner", 2, 12)
          /\ WordKept("duration", 3, 0)
          /\ WordKept("secret", 4, 0)
      BY <1>1 DEF ParsesRegister
    <2>2. QED
      BY <1>2, <2>1 DEF DataStay, WordsStay, Statics
  <1>5. CASE WordNumber >= 5 /\ InLast(NameField, "NAME_LENGTH", 5, v)
    <2>1. next_param \in {"NAME_LENGTH", NameField.data, NameField.second, NameField.last}
      BY <1>2, <1>5, LastParam
    <2>2. ReadsLast(w, NameField, "NAME_LENGTH", offsets[Name], len[Name])
      BY <1>3, <2>1, FieldsType DEF handle_register, ReadsLast, IgnoreWord
    <2>3. DataKept(NameField, 5, v)
      BY <1>1 DEF ParsesRegister
    <2>4. /\ InLast(NameField, "NAME_LENGTH", 5, v)' /\ DataKept(NameField, 5, v)'
          /\ OtherSlots(NameField)
      BY <1>2, <1>3, <1>5, <2>2, <2>3, LastStep
    <2>5. (\A f : WordsStay(f, n)) /\ n # 2 /\ n # 3 /\ n # 4 /\ WordNumber' >= 5
      BY <1>3, <1>5, <2>4, OthersStay
    <2>6. QED
      BY <1>2, <1>4, <2>4, <2>5 DEF ParsesRegister
  <1>6. CASE Now(1, "NAME_OFFSET")
    <2>1. n = 1 /\ SaveOffset(w, Name, "OWNER")
      BY <1>6, NowStep, FieldsType DEF handle_register, IgnoreWord, ReadField
    <2>2. Now(2, "OWNER")' /\ DataStay(n) /\ (\A f : WordsStay(f, n))
      BY <2>1, OffsetStep
    <2>3. QED
      BY <1>2, <1>4, <2>1, <2>2 DEF ParsesRegister
  <1>7. CASE Now(2, "OWNER")
    <2>1. n = 2 /\ CopyAddress(w, "owner", "DURATION")
      BY <1>7, NowStep, FieldsType DEF handle_register, IgnoreWord, ReadField
    <2>2. /\ Now(3, "DURATION")' /\ WordKept("owner", 2, 12)' /\ WordsStay("owner", n)
          /\ DataStay(n)
      BY <2>1, WordStep DEF CopyAddress, Statics
    <2>3. QED
      BY <1>2, <1>4, <2>1, <2>2 DEF ParsesRegister
  <1>8. CASE Now(3, "DURATION")
    <2>1. n = 3 /\ CopyParameter(w, "duration", "SECRET")
      BY <1>8, NowStep, FieldsType DEF handle_register, IgnoreWord, ReadField
    <2>2. /\ Now(4, "SECRET")' /\ WordKept("duration", 3, 0)' /\ WordsStay("duration", n)
          /\ DataStay(n)
      BY <2>1, WordStep DEF CopyParameter, Statics
    <2>3. QED
      BY <1>2, <1>4, <2>1, <2>2 DEF ParsesRegister
  <1>9. CASE Now(4, "SECRET")
    <2>1. n = 4 /\ CopyParameter(w, "secret", "NAME_LENGTH")
      BY <1>9, NowStep, FieldsType DEF handle_register, IgnoreWord, ReadField
    <2>2. /\ Now(5, "NAME_LENGTH")' /\ WordKept("secret", 4, 0)' /\ WordsStay("secret", n)
          /\ DataStay(n)
      BY <2>1, WordStep DEF CopyParameter, Statics
    <2>3. WordNumber' >= 5 /\ InLast(NameField, "NAME_LENGTH", 5, v)'
      BY <1>3, <2>1, <2>2 DEF InLast, Sought
    <2>4. QED
      BY <1>2, <1>4, <2>1, <2>2, <2>3 DEF ParsesRegister
  <1>10. QED
    BY <1>1, <1>5, <1>6, <1>7, <1>8, <1>9 DEF ParsesRegister

\* registerWithConfig.
LEMMA RegisterWithConfigShown ==
  ASSUME NEW w, NEW n, Takes(w, n), call.selector = "f7a16963",
         ParsesRegisterWithConfig, handle_register_with_config(w)
  PROVE  ParsesRegisterWithConfig'
  <1>1. PICK v : v = call.lens[1]
    OBVIOUS
  <1>2. LastField(NameField, "NAME_LENGTH", 7, v) /\ v = call'.lens[1] /\ v \in Nat
    BY <1>1, OnlyField DEF OneData
  <1>3. n \in Nat /\ WordNumber = n /\ WordNumber' = n + 1 /\ Name \in Slots /\ NameField.slot = Name
    BY TakesType, FieldsType DEF Name, Slots
  <1>4. /\ DataStay(n) => (n < 7 => DataKept(NameField, 7, v)')
        /\ \A f : WordsStay(f, n) =>
             /\ n # 2 /\ f # "owner" => WordKept("owner", 2, 12)'
             /\ n # 4 /\ f # "secret" => WordKept("secret", 4, 0)'
             /\ n # 5 /\ f # "resolver" => WordKept("resolver", 5, 12)'
             /\ n # 6 /\ f # "addr" => WordKept("addr", 6, 12)'
    <2>1. /\ DataKept(NameField, 7, v)
          /\ WordKept("owner", 2, 12)
          /\ WordKept("secret", 4, 0)
          /\ WordKept("resolver", 5, 12)
          /\ WordKept("addr", 6, 12)
      BY <1>1 DEF ParsesRegisterWithConfig
    <2>2. QED
      BY <1>2, <2>1 DEF DataStay, WordsStay, Statics
  <1>5. CASE WordNumber >= 7 /\ InLast(NameField, "NAME_LENGTH", 7, v)
    <2>1. next_param \in {"NAME_LENGTH", NameField.data, NameField.second, NameField.last}
      BY <1>2, <1>5, LastParam
    <2>2. ReadsLast(w, NameField, "NAME_LENGTH", offsets[Name], len[Name])
      BY <1>3, <2>1, FieldsType DEF handle_register_with_config, ReadsLast, IgnoreWord
    <2>3. DataKept(NameField, 7, v)
      BY <1>1 DEF ParsesRegisterWithConfig
    <2>4. /\ InLast(NameField, "NAME_LENGTH", 7, v)' /\ DataKept(NameField, 7, v)'
          /\ OtherSlots(NameField)
      BY <1>2, <1>3, <1>5, <2>2, <2>3, LastStep
    <2>5. (\A f : WordsStay(f, n)) /\ n # 2 /\ n # 4 /\ n # 5 /\ n # 6 /\ WordNumber' >= 7
      BY <1>3, <1>5, <2>4, OthersStay
    <2>6. QED
      BY <1>2, <1>4, <2>4, <2>5 DEF ParsesRegisterWithConfig
  <1>6. CASE Now(1, "NAME_OFFSET")
    <2>1. n = 1 /\ SaveOffset(w, Name, "OWNER")
      BY <1>6, NowStep, FieldsType DEF handle_register_with_config, IgnoreWord, ReadField
    <2>2. Now(2, "OWNER")' /\ DataStay(n) /\ (\A f : WordsStay(f, n))
      BY <2>1, OffsetStep
    <2>3. QED
      BY <1>2, <1>4, <2>1, <2>2 DEF ParsesRegisterWithConfig
  <1>7. CASE Now(2, "OWNER")
    <2>1. n = 2 /\ CopyWord(w, "owner", 12) /\ Seek(parameterOffset + 2 * PARAMETER_LENGTH, "SECRET")
      BY <1>7, NowStep, FieldsType DEF handle_register_with_config, IgnoreWord, ReadField
    <2>2. /\ WordKept("owner", 2, 12)' /\ WordsStay("owner", n) /\ DataStay(n)
      BY <2>1, WordCopiedTo, Unmoved DEF WordsStay, Statics
    <2>3. Sought(4, "SECRET")'
      <3>1. 4 <= Len(Encode(call)) + 1 /\ parameterOffset + 2 * PARAMETER_LENGTH = Position(4)
        <4>1. 7 + WordsFor(v) = Len(Encode(call)) /\ parameterOffset = Position(2)
          BY <1>2, <2>1, TakesType DEF LastField
        <4>2. WordsFor(v) \in Nat
          BY <1>1, OnlyField DEF OneData
        <4>3. QED
          BY <4>1, <4>2 DEF Position, PARAMETER_LENGTH, SELECTOR_SIZE
      <3>2. QED
        BY <2>1, <3>1, SeekStep
    <2>4. QED
      BY <1>2, <1>3, <1>4, <2>1, <2>2, <2>3 DEF ParsesRegisterWithConfig
  <1>8. CASE WordNumber > 2 /\ Sought(4, "SECRET")
    <2>1. /\ next_param = "SECRET" /\ n <= 4
          /\ SkipToOffset => n < 4 /\ Sought(4, "SECRET")' /\ UNCHANGED <<fields, bytes_missing>>
          /\ AtOffset => n = 4
      BY <1>8, SoughtStep
    <2>2. CASE SkipToOffset
      <3>1. n = 3 /\ WordNumber' > 2 /\ Sought(4, "SECRET")'
        BY <1>3, <1>8, <2>1, <2>2
      <3>2. (\A f : WordsStay(f, n)) /\ DataStay(n)
        BY <2>1, <2>2, SameWords, Unmoved DEF fields
      <3>3. QED
        BY <1>2, <1>4, <3>1, <3>2 DEF ParsesRegisterWithConfig
    <2>3. CASE ~SkipToOffset
      <3>1. n = 4 /\ CopyParameter(w, "secret", "RESOLVER")
        BY <2>1, <2>3, FieldsType DEF handle_register_with_config, IgnoreWord, ReadField
      <3>2. /\ Now(5, "RESOLVER")' /\ WordKept("secret", 4, 0)' /\ WordsStay("secret", n)
            /\ DataStay(n)
        BY <3>1, WordStep DEF CopyParameter, Statics
      <3>3. QED
        BY <1>2, <1>4, <3>1, <3>2 DEF ParsesRegisterWithConfig
    <2>4. QED
      BY <2>2, <2>3
  <1>9. CASE Now(5, "RESOLVER")
    <2>1. n = 5 /\ CopyAddress(w, "resolver", "ADDR")
      BY <1>9, NowStep, FieldsType DEF handle_register_with_config, IgnoreWord, ReadField
    <2>2. /\ Now(6, "ADDR")' /\ WordKept("resolver", 5, 12)' /\ WordsStay("resolver", n)
          /\ DataStay(n)
      BY <2>1, WordStep DEF CopyAddress, Statics
    <2>3. QED
      BY <1>2, <1>4, <2>1, <2>2 DEF ParsesRegisterWithConfig
  <1>10. CASE Now(6, "ADDR")
    <2>1. n = 6 /\ CopyAddress(w, "addr", "NAME_LENGTH")
      BY <1>10, NowStep, FieldsType DEF handle_register_with_config, IgnoreWord, ReadField
    <2>2. /\ Now(7, "NAME_LENGTH")' /\ WordKept("addr", 6, 12)' /\ WordsStay("addr", n)
          /\ DataStay(n)
      BY <2>1, WordStep DEF CopyAddress, Statics
    <2>3. WordNumber' >= 7 /\ InLast(NameField, "NAME_LENGTH", 7, v)'
      BY <1>3, <2>1, <2>2 DEF InLast, Sought
    <2>4. QED
      BY <1>2, <1>4, <2>1, <2>2, <2>3 DEF ParsesRegisterWithConfig
  <1>11. QED
    BY <1>1, <1>5, <1>6, <1>7, <1>8, <1>9, <1>10 DEF ParsesRegisterWithConfig

\* renew.
LEMMA RenewShown ==
  ASSUME NEW w, NEW n, Takes(w, n), call.selector = "acf1a841",
         ParsesRenew, handle_renew(w)
  PROVE  ParsesRenew'
  <1>1. PICK v : v = call.lens[1]
    OBVIOUS
  <1>2. LastField(NameField, "NAME_LENGTH", 3, v) /\ v = call'.lens[1] /\ v \in Nat
    BY <1>1, OnlyField DEF OneData
  <1>3. n \in Nat /\ WordNumber = n /\ WordNumber' = n + 1 /\ Name \in Slots /\ NameField.slot = Name
    BY TakesType, FieldsType DEF Name, Slots
  <1>4. /\ DataStay(n) => (n < 3 => DataKept(NameField, 3, v)')
        /\ \A f : WordsStay(f, n) =>
             /\ n # 2 /\ f # "duration" => WordKept("duration", 2, 0)'
    <2>1. /\ DataKept(NameField, 3, v)
          /\ WordKept("duration", 2, 0)
      BY <1>1 DEF ParsesRenew
    <2>2. QED
      BY <1>2, <2>1 DEF DataStay, WordsStay, Statics
  <1>5. CASE WordNumber >= 3 /\ InLast(NameField, "NAME_LENGTH", 3, v)
    <2>1. next_param \in {"NAME_LENGTH", NameField.data, NameField.second, NameField.last}
      BY <1>2, <1>5, LastParam
    <2>2. ReadsLast(w, NameField, "NAME_LENGTH", offsets[Name], len[Name])
      BY <1>3, <2>1, FieldsType DEF handle_renew, ReadsLast, IgnoreWord
    <2>3. DataKept(NameField, 3, v)
      BY <1>1 DEF ParsesRenew
    <2>4. /\ InLast(NameField, "NAME_LENGTH", 3, v)' /\ DataKept(NameField, 3, v)'
          /\ OtherSlots(NameField)
      BY <1>2, <1>3, <1>5, <2>2, <2>3, LastStep
    <2>5. (\A f : WordsStay(f, n)) /\ n # 2 /\ WordNumber' >= 3
      BY <1>3, <1>5, <2>4, OthersStay
    <2>6. QED
      BY <1>2, <1>4, <2>4, <2>5 DEF ParsesRenew
  <1>6. CASE Now(1, "NAME_OFFSET")
    <2>1. n = 1 /\ SaveOffset(w, Name, "DURATION")
      BY <1>6, NowStep, FieldsType DEF handle_renew, IgnoreWord, ReadField
    <2>2. Now(2, "DURATION")' /\ DataStay(n) /\ (\A f : WordsStay(f, n))
      BY <2>1, OffsetStep
    <2>3. QED
      BY <1>2, <1>4, <2>1, <2>2 DEF ParsesRenew
  <1>7. CASE Now(2, "DURATION")
    <2>1. n = 2 /\ CopyParameter(w, "duration", "NAME_LENGTH")
      BY <1>7, NowStep, FieldsType DEF handle_renew, IgnoreWord, ReadField
    <2>2. /\ Now(3, "NAME_LENGTH")' /\ WordKept("duration", 2, 0)' /\ WordsStay("duration", n)
          /\ DataStay(n)
      BY <2>1, WordStep DEF CopyParameter, Statics
    <2>3. WordNumber' >= 3 /\ InLast(NameField, "NAME_LENGTH", 3, v)'
      BY <1>3, <2>1, <2>2 DEF InLast, Sought
    <2>4. QED
      BY <1>2, <1>4, <2>1, <2>2, <2>3 DEF ParsesRenew
  <1>8. QED
    BY <1>1, <1>5, <1>6, <1>7 DEF ParsesRenew

\* setName.
LEMMA SetNameShown ==
  ASSUME NEW w, NEW n, Takes(w, n), call.selector = "c47f0027",
         ParsesSetName, handle_set_name(w)
  PROVE  ParsesSetName'
  <1>1. PICK v : v = call.lens[1]
    OBVIOUS
  <1>2. LastField(NameField, "NAME_LENGTH", 2, v) /\ v = call'.lens[1] /\ v \in Nat
    BY <1>1, OnlyField DEF OneData
  <1>3. n \in Nat /\ WordNumber = n /\ WordNumber' = n + 1 /\ Name \in Slots /\ NameField.slot = Name
    BY TakesType, FieldsType DEF Name, Slots
  <1>4. /\ DataStay(n) => (n < 2 => DataKept(NameField, 2, v)')
    <2>1. /\ DataKept(NameField, 2, v)
      BY <1>1 DEF ParsesSetName
    <2>2. QED
      BY <1>2, <2>1 DEF DataStay, WordsStay, Statics
  <1>5. CASE WordNumber >= 2 /\ InLast(NameField, "NAME_LENGTH", 2, v)
    <2>1. next_param \in {"NAME_LENGTH", NameField.data, NameField.second, NameField.last}
      BY <1>2, <1>5, LastParam
    <2>2. ReadsLast(w, NameField, "NAME_LENGTH", offsets[Name], len[Name])
      BY <1>3, <2>1, FieldsType DEF handle_set_name, ReadsLast, IgnoreWord
    <2>3. DataKept(NameField, 2, v)
      BY <1>1 DEF ParsesSetName
    <2>4. /\ InLast(NameField, "NAME_LENGTH", 2, v)' /\ DataKept(NameField, 2, v)'
          /\ OtherSlots(NameField)
      BY <1>2, <1>3, <1>5, <2>2, <2>3, LastStep
    <2>5. (\A f : WordsStay(f, n)) /\ WordNumber' >= 2
      BY <1>3, <1>5, <2>4, OthersStay
    <2>6. QED
      BY <1>2, <1>4, <2>4, <2>5 DEF ParsesSetName
  <1>6. CASE Now(1, "NAME_OFFSET")
    <2>1. n = 1 /\ SaveOffset(w, Name, "NAME_LENGTH")
      BY <1>6, NowStep, FieldsType DEF handle_set_name, IgnoreWord, ReadField
    <2>2. Now(2, "NAME_LENGTH")' /\ DataStay(n) /\ (\A f : WordsStay(f, n))
      BY <2>1, OffsetStep
    <2>3. WordNumber' >= 2 /\ InLast(NameField, "NAME_LENGTH", 2, v)'
      BY <1>3, <2>1, <2>2 DEF InLast, Sought
    <2>4. QED
      BY <1>2, <1>4, <2>1, <2>2, <2>3 DEF ParsesSetName
  <1>7. QED
    BY <1>1, <1>5, <1>6 DEF ParsesSetName

\* setAddr.
LEMMA SetAddrShown ==
  ASSUME NEW w, NEW n, Takes(w, n), call.selector = "8b95dd71",
         ParsesSetAddr, handle_set_addr(w)
  PROVE  ParsesSetAddr'
  <1>1. PICK v : v = call.lens[1]
    OBVIOUS
  <1>2. LastField(HashField, "HASH_LEN", 4, v) /\ v = call'.lens[1] /\ v \in Nat
    BY <1>1, OnlyField DEF OneData
  <1>3. n \in Nat /\ WordNumber = n /\ WordNumber' = n + 1 /\ Hash \in Slots /\ HashField.slot = Hash
    BY TakesType, FieldsType DEF Hash, Slots
  <1>4. /\ DataStay(n) => (n < 4 => DataKept(HashField, 4, v)')
        /\ \A f : WordsStay(f, n) =>
             /\ n # 1 /\ f # "node" => WordKept("node", 1, 0)'
             /\ n # 2 /\ f # "coinType" => WordKept("coinType", 2, 0)'
    <2>1. /\ DataKept(HashField, 4, v)
          /\ WordKept("node", 1, 0)
          /\ WordKept("coinType", 2, 0)
      BY <1>1 DEF ParsesSetAddr
    <2>2. QED
      BY <1>2, <2>1 DEF DataStay, WordsStay, Statics
  <1>5. CASE WordNumber >= 4 /\ InLast(HashField, "HASH_LEN", 4, v)
    <2>1. next_param \in {"HASH_LEN", HashField.data, HashField.second, HashField.last}
      BY <1>2, <1>5, LastParam
    <2>2. ReadsLast(w, HashField, "HASH_LEN", offsets[Hash], statics["coinType"].alias)
      BY <1>3, <2>1, FieldsType DEF handle_set_addr, ReadsLast, IgnoreWord
    <2>3. DataKept(HashField, 4, v)
      BY <1>1 DEF ParsesSetAddr
    <2>4. v <= PARAMETER_LENGTH
      BY <1>1, TakesType DEF Supported
    <2>5. /\ InLast(HashField, "HASH_LEN", 4, v)' /\ DataKept(HashField, 4, v)'
          /\ OtherSlots(HashField)
      BY <1>2, <1>3, <1>5, <2>2, <2>3, <2>4, LastStep
    <2>6. (\A f : WordsStay(f, n)) /\ n # 1 /\ n # 2 /\ WordNumber' >= 4
      BY <1>3, <1>5, <2>5, OthersStay
    <2>7. QED
      BY <1>2, <1>4, <2>5, <2>6 DEF ParsesSetAddr
  <1>6. CASE Now(1, "NODE")
    <2>1. n = 1 /\ CopyParameter(w, "node", "COINTYPE")
      BY <1>6, NowStep, FieldsType DEF handle_set_addr, IgnoreWord, ReadField
    <2>2. /\ Now(2, "COINTYPE")' /\ WordKept("node", 1, 0)' /\ WordsStay("node", n)
          /\ DataStay(n)
      BY <2>1, WordStep DEF CopyParameter, Statics
    <2>3. QED
      BY <1>2, <1>4, <2>1, <2>2 DEF ParsesSetAddr
  <1>7. CASE Now(2, "COINTYPE")
    <2>1. n = 2 /\ CopyParameter(w, "coinType", "HASH_OFFSET")
      BY <1>7, NowStep, FieldsType DEF handle_set_addr, IgnoreWord, ReadField
    <2>2. /\ Now(3, "HASH_OFFSET")' /\ WordKept("coinType", 2, 0)' /\ WordsStay("coinType", n)
          /\ DataStay(n)
      BY <2>1, WordStep DEF CopyParameter, Statics
    <2>3. QED
      BY <1>2, <1>4, <2>1, <2>2 DEF ParsesSetAddr
  <1>8. CASE Now(3, "HASH_OFFSET")
    <2>1. n = 3 /\ SaveOffset(w, Hash, "HASH_LEN")
      BY <1>8, NowStep, FieldsType DEF handle_set_addr, IgnoreWord, ReadField
    <2>2. Now(4, "HASH_LEN")' /\ DataStay(n) /\ (\A f : WordsStay(f, n))
      BY <2>1, OffsetStep
    <2>3. WordNumber' >= 4 /\ InLast(HashField, "HASH_LEN", 4, v)'
      BY <1>3, <2>1, <2>2 DEF InLast, Sought
    <2>4. QED
      BY <1>2, <1>4, <2>1, <2>2, <2>3 DEF ParsesSetAddr
  <1>9. QED
    BY <1>1, <1>5, <1>6, <1>7, <1>8 DEF ParsesSetAddr

\* setContenthash.
LEMMA SetContentHashShown ==
  ASSUME NEW w, NEW n, Takes(w, n), call.selector = "304e6ade",
         ParsesSetContentHash, handle_set_content_hash(w)
  PROVE  ParsesSetContentHash'
  <1>1. PICK v : v = call.lens[1]
    OBVIOUS
  <1>2. LastField(HashField, "HASH_LEN", 3, v) /\ v = call'.lens[1] /\ v \in Nat
    BY <1>1, OnlyField DEF OneData
  <1>3. n \in Nat /\ WordNumber = n /\ WordNumber' = n + 1 /\ Hash \in Slots /\ HashField.slot = Hash
    BY TakesType, FieldsType DEF Hash, Slots
  <1>4. /\ DataStay(n) => (n < 3 => DataKept(HashField, 3, v)')
        /\ \A f : WordsStay(f, n) =>
             /\ n # 1 /\ f # "node" => WordKept("node", 1, 0)'
    <2>1. /\ DataKept(HashField, 3, v)
          /\ WordKept("node", 1, 0)
      BY <1>1 DEF ParsesSetContentHash
    <2>2. QED
      BY <1>2, <2>1 DEF DataStay, WordsStay, Statics
  <1>5. CASE WordNumber >= 3 /\ InLast(HashField, "HASH_LEN", 3, v)
    <2>1. next_param \in {"HASH_LEN", HashField.data, HashField.second, HashField.last}
      BY <1>2, <1>5, LastParam
    <2>2. ReadsLast(w, HashField, "HASH_LEN", offsets[Hash], len[Hash])
      BY <1>3, <2>1, FieldsType DEF handle_set_content_hash, ReadsLast, IgnoreWord
    <2>3. DataKept(HashField, 3, v)
      BY <1>1 DEF ParsesSetContentHash
    <2>4. /\ InLast(HashField, "HASH_LEN", 3, v)' /\ DataKept(HashField, 3, v)'
          /\ OtherSlots(HashField)
      BY <1>2, <1>3, <1>5, <2>2, <2>3, LastStep
    <2>5. (\A f : WordsStay(f, n)) /\ n # 1 /\ WordNumber' >= 3
      BY <1>3, <1>5, <2>4, OthersStay
    <2>6. QED
      BY <1>2, <1>4, <2>4, <2>5 DEF ParsesSetContentHash
  <1>6. CASE Now(1, "NODE")
    <2>1. n = 1 /\ CopyParameter(w, "node", "HASH_OFFSET")
      BY <1>6, NowStep, FieldsType DEF handle_set_content_hash, IgnoreWord, ReadField
    <2>2. /\ Now(2, "HASH_OFFSET")' /\ WordKept("node", 1, 0)' /\ WordsStay("node", n)
          /\ DataStay(n)
      BY <2>1, WordStep DEF CopyParameter, Statics
    <2>3. QED
      BY <1>2, <1>4, <2>1, <2>2 DEF ParsesSetContentHash
  <1>7. CASE Now(2, "HASH_OFFSET")
    <2>1. n = 2 /\ SaveOffset(w, Hash, "HASH_LEN")
      BY <1>7, NowStep, FieldsType DEF handle_set_content_hash, IgnoreWord, ReadField
    <2>2. Now(3, "HASH_LEN")' /\ DataStay(n) /\ (\A f : WordsStay(f, n))
      BY <2>1, OffsetStep
    <2>3. WordNumber' >= 3 /\ InLast(HashField, "HASH_LEN", 3, v)'
      BY <1>3, <2>1, <2>2 DEF InLast, Sought
    <2>4. QED
      BY <1>2, <1>4, <2>1, <2>2, <2>3 DEF ParsesSetContentHash
  <1>8. QED
    BY <1>1, <1>5, <1>6, <1>7 DEF ParsesSetContentHash

(***************************************************************************)
(* The handlers of the functions with static parameters only.              *)
(***************************************************************************)
LEMMA HeadOnly ==
  ASSUME NEW w, NEW n, Takes(w, n)
  PROVE  /\ call.selector = "f14fcbc8" => Len(Encode(call)) = 1
         /\ call.selector \in {"5b0fc9c3", "1896f70a"} => Len(Encode(call)) = 2
         /\ call.selector = "5ef2c7f0" => Len(Encode(call)) = 5
  <1>1. PICK kinds : kinds = Signature(call.selector)
    OBVIOUS
  <1>2. call \in Transactions /\ Supported(call)
    BY TakesType
  <1>3. /\ TailWord(call, 1) = Len(kinds)
        /\ \A j \in 1 .. Len(kinds) :
             /\ TailWord(call, j) \in Nat
             /\ TailWord(call, j + 1) = TailWord(call, j) + Len(TailOf(call, j))
             /\ kinds[j] = "word" => Len(TailOf(call, j)) = 0
        /\ Len(Encode(call)) = TailWord(call, Len(kinds) + 1)
    BY <1>1, <1>2, CallWords, EncodeShape
  <1>4. ASSUME NEW j \in 1 .. Len(kinds), kinds[j] = "word"
        PROVE  TailWord(call, j + 1) = TailWord(call, j)
    BY <1>3, <1>4
  <1>5. CASE call.selector = "f14fcbc8"
    <2>1. kinds = << "word" >>
      BY <1>1, <1>5, Signatures
    <2>2. Len(kinds) = 1 /\ \A j \in 1 .. 1 : kinds[j] = "word"
      BY <2>1
    <2>3. TailWord(call, 1 + 1) = TailWord(call, 1)
      BY <1>4, <2>2
    <2>4. QED
      BY <1>3, <1>5, <2>2, <2>3
  <1>6. CASE call.selector \in {"5b0fc9c3", "1896f70a"}
    <2>1. kinds = << "word", "word" >>
      BY <1>1, <1>6, Signatures
    <2>2. Len(kinds) = 2 /\ \A j \in 1 .. 2 : kinds[j] = "word"
      BY <2>1
    <2>3. TailWord(call, 1 + 1) = TailWord(call, 1) /\ TailWord(call, 2 + 1) = TailWord(call, 2)
      BY <1>4, <2>2
    <2>4. QED
      BY <1>3, <1>6, <2>2, <2>3
  <1>7. CASE call.selector = "5ef2c7f0"
    <2>1. kinds = << "word", "word", "word", "word", "word" >>
      BY <1>1, <1>7, Signatures
    <2>2. Len(kinds) = 5 /\ \A j \in 1 .. 5 : kinds[j] = "word"
      BY <2>1
    <2>3. /\ TailWord(call, 1 + 1) = TailWord(call, 1)
          /\ TailWord(call, 2 + 1) = TailWord(call, 2)
          /\ TailWord(call, 3 + 1) = TailWord(call, 3)
          /\ TailWord(call, 4 + 1) = TailWord(call, 4)
          /\ TailWord(call, 5 + 1) = TailWord(call, 5)
      BY <1>4, <2>2
    <2>4. QED
      BY <1>3, <1>7, <2>2, <2>3
  <1>8. QED
    BY <1>5, <1>6, <1>7

\* commit.
LEMMA CommitShown ==
  ASSUME NEW w, NEW n, Takes(w, n), call.selector = "f14fcbc8",
         ParsesCommit, handle_commit(w)
  PROVE  ParsesCommit'
  <1>1. Len(Encode(call)) = 1
    BY HeadOnly
  <1>2. ~Now(2, "NONE")
    BY <1>1, NowStep, TakesType
  <1>3. \A f : WordsStay(f, n) =>
             /\ n # 1 /\ f # "commitment" => WordKept("commitment", 1, 0)'
    BY DEF ParsesCommit, WordsStay, Statics
  <1>4. CASE Now(1, "COMMITMENT")
    <2>1. n = 1 /\ CopyParameter(w, "commitment", "NONE")
      BY <1>4, NowStep DEF handle_commit, IgnoreWord
    <2>2. /\ Now(2, "NONE")' /\ WordKept("commitment", 1, 0)' /\ WordsStay("commitment", n)
      BY <2>1, WordStep DEF CopyParameter, Statics
    <2>3. QED
      BY <1>3, <2>1, <2>2 DEF ParsesCommit
  <1>5. QED
    BY <1>2, <1>4 DEF ParsesCommit

\* setOwner.
LEMMA SetOwnerShown ==
  ASSUME NEW w, NEW n, Takes(w, n), call.selector = "5b0fc9c3",
         ParsesSetOwner, handle_owner(w)
  PROVE  ParsesSetOwner'
  <1>1. Len(Encode(call)) = 2
    BY HeadOnly
  <1>2. ~Now(3, "NONE")
    BY <1>1, NowStep, TakesType
  <1>3. \A f : WordsStay(f, n) =>
             /\ n # 1 /\ f # "node" => WordKept("node", 1, 0)'
             /\ n # 2 /\ f # "owner" => WordKept("owner", 2, 12)'
    BY DEF ParsesSetOwner, WordsStay, Statics
  <1>4. CASE Now(1, "NODE")
    <2>1. n = 1 /\ CopyParameter(w, "node", "OWNER")
      BY <1>4, NowStep DEF handle_owner, IgnoreWord
    <2>2. /\ Now(2, "OWNER")' /\ WordKept("node", 1, 0)' /\ WordsStay("node", n)
      BY <2>1, WordStep DEF CopyParameter, Statics
    <2>3. QED
      BY <1>3, <2>1, <2>2 DEF ParsesSetOwner
  <1>5. CASE Now(2, "OWNER")
    <2>1. n = 2 /\ CopyAddress(w, "owner", "NONE")
      BY <1>5, NowStep DEF handle_owner, IgnoreWord
    <2>2. /\ Now(3, "NONE")' /\ WordKept("owner", 2, 12)' /\ WordsStay("owner", n)
      BY <2>1, WordStep DEF CopyAddress, Statics
    <2>3. QED
      BY <1>3, <2>1, <2>2 DEF ParsesSetOwner
  <1>6. QED
    BY <1>2, <1>4, <1>5 DEF ParsesSetOwner

\* setResolver.
LEMMA SetResolverShown ==
  ASSUME NEW w, NEW n, Takes(w, n), call.selector = "1896f70a",
         ParsesSetResolver, handle_resolver(w)
  PROVE  ParsesSetResolver'
  <1>1. Len(Encode(call)) = 2
    BY HeadOnly
  <1>2. ~Now(3, "NONE")
    BY <1>1, NowStep, TakesType
  <1>3. \A f : WordsStay(f, n) =>
             /\ n # 1 /\ f # "node" => WordKept("node", 1, 0)'
             /\ n # 2 /\ f # "resolver" => WordKept("resolver", 2, 12)'
    BY DEF ParsesSetResolver, WordsStay, Statics
  <1>4. CASE Now(1, "NODE")
    <2>1. n = 1 /\ CopyParameter(w, "node", "RESOLVER")
      BY <1>4, NowStep DEF handle_resolver, IgnoreWord
    <2>2. /\ Now(2, "RESOLVER")' /\ WordKept("node", 1, 0)' /\ WordsStay("node", n)
      BY <2>1, WordStep DEF CopyParameter, Statics
    <2>3. QED
      BY <1>3, <2>1, <2>2 DEF ParsesSetResolver
  <1>5. CASE Now(2, "RESOLVER")
    <2>1. n = 2 /\ CopyAddress(w, "resolver", "NONE")
      BY <1>5, NowStep DEF handle_resolver, IgnoreWord
    <2>2. /\ Now(3, "NONE")' /\ WordKept("resolver", 2, 12)' /\ WordsStay("resolver", n)
      BY <2>1, WordStep DEF CopyAddress, Statics
    <2>3. QED
      BY <1>3, <2>1, <2>2 DEF ParsesSetResolver
  <1>6. QED
    BY <1>2, <1>4, <1>5 DEF ParsesSetResolver

\* setSubnodeRecord.
LEMMA SetSubnodeShown ==
  ASSUME NEW w, NEW n, Takes(w, n), call.selector = "5ef2c7f0",
         ParsesSetSubnode, handle_subnode(w)
  PROVE  ParsesSetSubnode'
  <1>1. Len(Encode(call)) = 5
    BY HeadOnly
  <1>2. ~Now(6, "NONE")
    BY <1>1, NowStep, TakesType
  <1>3. \A f : WordsStay(f, n) =>
             /\ n # 1 /\ f # "node" => WordKept("node", 1, 0)'
             /\ n # 2 /\ f # "label" => WordKept("label", 2, 0)'
             /\ n # 3 /\ f # "owner" => WordKept("owner", 3, 12)'
             /\ n # 4 /\ f # "resolver" => WordKept("resolver", 4, 12)'
             /\ n # 5 /\ f # "ttl" => WordKept("ttl", 5, 0)'
    BY DEF ParsesSetSubnode, WordsStay, Statics
  <1>4. CASE Now(1, "NODE")
    <2>1. n = 1 /\ CopyParameter(w, "node", "LABEL")
      BY <1>4, NowStep DEF handle_subnode, IgnoreWord
    <2>2. /\ Now(2, "LABEL")' /\ WordKept("node", 1, 0)' /\ WordsStay("node", n)
      BY <2>1, WordStep DEF CopyParameter, Statics
    <2>3. QED
      BY <1>3, <2>1, <2>2 DEF ParsesSetSubnode
  <1>5. CASE Now(2, "LABEL")
    <2>1. n = 2 /\ CopyParameter(w, "label", "OWNER")
      BY <1>5, NowStep DEF handle_subnode, IgnoreWord
    <2>2. /\ Now(3, "OWNER")' /\ WordKept("label", 2, 0)' /\ WordsStay("label", n)
      BY <2>1, WordStep DEF CopyParameter, Statics
    <2>3. QED
      BY <1>3, <2>1, <2>2 DEF ParsesSetSubnode
  <1>6. CASE Now(3, "OWNER")
    <2>1. n = 3 /\ CopyAddress(w, "owner", "RESOLVER")
      BY <1>6, NowStep DEF handle_subnode, IgnoreWord
    <2>2. /\ Now(4, "RESOLVER")' /\ WordKept("owner", 3, 12)' /\ WordsStay("owner", n)
      BY <2>1, WordStep DEF CopyAddress, Statics
    <2>3. QED
      BY <1>3, <2>1, <2>2 DEF ParsesSetSubnode
  <1>7. CASE Now(4, "RESOLVER")
    <2>1. n = 4 /\ CopyAddress(w, "resolver", "TTL")
      BY <1>7, NowStep DEF handle_subnode, IgnoreWord
    <2>2. /\ Now(5, "TTL")' /\ WordKept("resolver", 4, 12)' /\ WordsStay("resolver", n)
      BY <2>1, WordStep DEF CopyAddress, Statics
    <2>3. QED
      BY <1>3, <2>1, <2>2 DEF ParsesSetSubnode
  <1>8. CASE Now(5, "TTL")
    <2>1. n = 5 /\ CopyParameter(w, "ttl", "NONE")
      BY <1>8, NowStep DEF handle_subnode, IgnoreWord
    <2>2. /\ Now(6, "NONE")' /\ WordKept("ttl", 5, 0)' /\ WordsStay("ttl", n)
      BY <2>1, WordStep DEF CopyParameter, Statics
    <2>3. QED
      BY <1>3, <2>1, <2>2 DEF ParsesSetSubnode
  <1>9. QED
    BY <1>2, <1>4, <1>5, <1>6, <1>7, <1>8 DEF ParsesSetSubnode

(***************************************************************************)
(* The handlers of the functions with two fields.                          *)
(***************************************************************************)

\* A field that others follow is taken in its own words.
LEMMA DataWithin ==
  ASSUME NEW w, NEW n, Takes(w, n), NEW f, NEW a, NEW v, FieldOf(f, a, v), SelfContained(v),
         InData(f, a, v)
  PROVE  n <= a + WordsFor(v)
  <1>1. a \in Nat /\ v \in Nat /\ n \in Nat
    BY TakesType DEF FieldOf
  <1>2. 1 <= WordsFor(v) /\ WordsFor(v) \in Nat
        /\ (v > PARAMETER_LENGTH => WordsFor(v) = v \div PARAMETER_LENGTH + 1)
        /\ v \div PARAMETER_LENGTH \in Nat
    BY <1>1, FieldWords
  <1>3. CASE Now(a + 1, f.data)
    <2>1. n = a + 1
      BY <1>3, NowStep
    <2>2. QED
      BY <1>1, <1>2, <2>1
  <1>4. CASE ~Now(a + 1, f.data)
    <2>1. PICK k : k = v \div PARAMETER_LENGTH
      OBVIOUS
    <2>2. v > PARAMETER_LENGTH /\ (Sought(a + k, f.second) \/ Sought(a + k + 1, f.last))
      BY <1>4, <2>1 DEF InData
    <2>3. k \in Nat /\ a + k \in Nat /\ a + k + 1 \in Nat
      BY <1>1, <1>2, <2>1
    <2>4. n <= a + k \/ n <= a + k + 1
      BY <2>2, <2>3, SoughtStep
    <2>5. QED
      BY <1>1, <1>2, <2>1, <2>2, <2>3, <2>4
  <1>5. QED
    BY <1>3, <1>4

\* Where the two fields are.
LEMMA TwoFields ==
  ASSUME NEW w, NEW n, Takes(w, n), call.selector \in TwoData,
         NEW i, i = IF call.selector = "10f13a8c" THEN 2 ELSE 1,
         NEW f, Field(f), NEW g, Field(g), NEW p, p \notin {g.data, g.second, g.last}
  PROVE  /\ FieldOf(f, NumberWord(i), call.lens[1])
         /\ Encode(call)[NumberWord(i)] = Quantity(call.lens[1])
         /\ LastField(g, p, NumberWord(3), call.lens[2])
         /\ call.lens[2] \in Nat /\ WordsFor(call.lens[2]) \in Nat
  <1>1. call \in Transactions /\ Supported(call)
    BY TakesType
  <1>2. PICK kinds : kinds = Signature(call.selector)
    OBVIOUS
  <1>3. \/ kinds = << "word", "data", "data" >> /\ i = 2 /\ DataIndex(call, 2) = 1
        \/ kinds = << "data", "tuples", "data" >> /\ i = 1 /\ DataIndex(call, 1) = 1
        \/ kinds = << "data", "tuples", "data", "word", "word" >> /\ i = 1 /\ DataIndex(call, 1) = 1
    BY <1>2, Signatures, DataIndexes DEF TwoData
  <1>4. /\ \/ Len(kinds) = 3
           \/ Len(kinds) = 5 /\ kinds[4] = "word" /\ kinds[5] = "word"
        /\ kinds[i] = "data" /\ kinds[3] = "data" /\ i \in {1, 2} /\ DataIndex(call, i) = 1
    BY <1>3
  <1>5. DataIndex(call, 3) = 2
    BY DataIndexes DEF TwoData
  <1>6. i \in 1 .. Len(kinds) /\ 3 \in 1 .. Len(kinds)
    BY <1>4
  <1>7. /\ call.lens[1] \in Nat /\ call.lens[1] <= UINT16_MAX /\ WordsFor(call.lens[1]) \in Nat
        /\ Encode(call)[TailWord(call, i) + 1] = Quantity(call.lens[1])
        /\ TailWord(call, i + 1) = TailWord(call, i) + 1 + WordsFor(call.lens[1])
        /\ TailWord(call, i + 1) <= Len(Encode(call))
    BY <1>1, <1>2, <1>4, <1>6, DataWords
  <1>8. /\ call.lens[2] \in Nat /\ call.lens[2] <= UINT16_MAX /\ WordsFor(call.lens[2]) \in Nat
        /\ Encode(call)[TailWord(call, 3) + 1] = Quantity(call.lens[2])
        /\ TailWord(call, 3 + 1) = TailWord(call, 3) + 1 + WordsFor(call.lens[2])
        /\ TailWord(call, 3 + 1) <= Len(Encode(call))
    BY <1>1, <1>2, <1>4, <1>5, <1>6, DataWords
  <1>9. /\ \A j \in 1 .. Len(kinds) :
             /\ TailWord(call, j) \in Nat
             /\ TailWord(call, j + 1) = TailWord(call, j) + Len(TailOf(call, j))
             /\ kinds[j] = "word" => Len(TailOf(call, j)) = 0
        /\ Len(Encode(call)) \in Nat
        /\ Len(Encode(call)) = TailWord(call, Len(kinds) + 1)
    BY <1>1, <1>2, CallWords, EncodeShape
  <1>10. TailWord(call, Len(kinds) + 1) = TailWord(call, 3 + 1)
    <2>1. CASE Len(kinds) = 3
      BY <2>1
    <2>2. CASE Len(kinds) = 5 /\ kinds[4] = "word" /\ kinds[5] = "word"
      <3>1. 4 \in 1 .. Len(kinds) /\ 5 \in 1 .. Len(kinds)
        BY <2>2
      <3>2. TailWord(call, 4 + 1) = TailWord(call, 4) + 0 /\ TailWord(call, 5 + 1) = TailWord(call, 5) + 0
            /\ TailWord(call, 4) \in Nat /\ TailWord(call, 5) \in Nat
        BY <1>9, <2>2, <3>1
      <3>3. QED
        BY <2>2, <3>2
    <2>3. QED
      BY <1>4, <2>1, <2>2
  <1>11. TailWord(call, i) \in Nat /\ TailWord(call, 3) \in Nat
    BY <1>6, <1>9
  <1>12. /\ NumberWord(i) \in Nat /\ NumberWord(3) \in Nat
         /\ NumberWord(i) + WordsFor(call.lens[1]) <= Len(Encode(call))
         /\ NumberWord(3) + WordsFor(call.lens[2]) = Len(Encode(call))
    <2>1. Len(Encode(call)) = TailWord(call, 3) + 1 + WordsFor(call.lens[2])
      BY <1>8, <1>9, <1>10
    <2>2. TailWord(call, i) + 1 + WordsFor(call.lens[1]) <= Len(Encode(call))
      BY <1>7
    <2>3. QED
      BY <1>7, <1>8, <1>11, <2>1, <2>2 DEF NumberWord
  <1>13. /\ Encode(call)[NumberWord(i)] = Quantity(call.lens[1])
         /\ Encode(call)[NumberWord(3)] = Quantity(call.lens[2])
    BY <1>7, <1>8 DEF NumberWord
  <1>14. NumberWord(3) + WordsFor(call.lens[2]) <= Len(Encode(call))
    BY <1>9, <1>12
  <1>15. QED
    BY <1>7, <1>8, <1>12, <1>13, <1>14 DEF LastField, FieldOf

\* The first of them: its length is read, then its words, then parameter p.
LEMMA FirstLength ==
  ASSUME NEW w, NEW n, Takes(w, n), NEW f, NEW v, FieldOf(f, n, v), NEW o,
         Encode(call)[n] = Quantity(v), DataKept(f, n, v), ReadLengthAt(o, w, f.slot, f.data)
  PROVE  InData(f, n, v)' /\ DataKept(f, n, v)' /\ OtherSlots(f)
  <1>1. ReadLength(w, f.slot, f.data)
    BY DEF ReadLengthAt, Refuse, Takes
  <1>2. v \in Nat /\ v <= UINT16_MAX /\ Field(f)
    BY DEF FieldOf
  <1>3. /\ DataKept(f, n, v)' /\ Now(n + 1, f.data)'
        /\ \A k \in Slots \ {f.slot} : len'[k] = len[k]
        /\ UNCHANGED <<statics, text, ellipsis, count, id>>
    BY <1>1, <1>2, LengthTaken
  <1>4. QED
    BY <1>3 DEF InData, OtherSlots

LEMMA FirstStep ==
  ASSUME NEW w, NEW n, Takes(w, n), NEW f, NEW a, NEW v, FieldOf(f, a, v), SelfContained(v),
         InData(f, a, v), DataKept(f, a, v), NEW p,
         SkipToOffset \/ (AtOffset /\ ReadField(f, len[f.slot], Then(p)))
  PROVE  /\ DataKept(f, a, v)' /\ OtherSlots(f) /\ n <= a + WordsFor(v)
         /\ InData(f, a, v)' \/ (n = a + WordsFor(v) /\ Now(n + 1, p)')
  <1>1. n <= a + WordsFor(v)
    BY DataWithin
  <1>2. CASE SkipToOffset
    <2>1. DataKept(f, a, v)' /\ InData(f, a, v)'
      BY <1>2, FieldSkipped
    <2>2. OtherSlots(f)
      BY <1>2 DEF SkipToOffset, fields, OtherSlots
    <2>3. QED
      BY <1>1, <2>1, <2>2
  <1>3. CASE AtOffset /\ ReadField(f, len[f.slot], Then(p))
    <2>1. len[f.slot] = v
      BY DataBegun, FieldLength DEF FieldOf
    <2>2. /\ DataKept(f, a, v)' /\ OtherFields(f)
          /\ \/ InData(f, a, v)' /\ UNCHANGED id
             \/ n = a + WordsFor(v) /\ Then(p)
      BY <1>1, <1>3, <2>1, FieldStepThen
    <2>3. Then(p) => Now(n + 1, p)' /\ UNCHANGED id
      BY AdvanceStep DEF Then
    <2>4. OtherFields(f) /\ UNCHANGED id => OtherSlots(f)
      BY DEF OtherFields, OtherSlots
    <2>5. QED
      BY <1>1, <2>2, <2>3, <2>4
  <1>4. QED
    BY <1>2, <1>3

\* setText.
LEMMA SetTextShown ==
  ASSUME NEW w, NEW n, Takes(w, n), call.selector = "10f13a8c",
         ParsesSetText, handle_set_text(w)
  PROVE  ParsesSetText'
  <1>1. PICK v, u, a : v = call.lens[1] /\ u = call.lens[2] /\ a = 4 + WordsFor(v) + 1
    OBVIOUS
  <1>2. Reads(w, n) /\ call' = call /\ n \in Nat /\ WordNumber = n /\ WordNumber' = n + 1
    BY TakesType DEF Takes
  <1>3. v \in Nat /\ SelfContained(v) /\ WordsFor(v) \in Nat /\ NumberWord(2) = 4 /\ NumberWord(3) = a
    BY <1>1, <1>2, SetTextWords
  <1>4. /\ FieldOf(KeyField, 4, v) /\ Encode(call)[4] = Quantity(v)
        /\ LastField(ValueField, "VALUE_LENGTH", a, u) /\ u \in Nat
    <2>1. "VALUE_LENGTH" \notin {ValueField.data, ValueField.second, ValueField.last}
      BY FieldsType
    <2>2. QED
      BY <1>1, <1>3, <2>1, TwoFields, FieldsType DEF TwoData
  <1>5. /\ v = call'.lens[1] /\ u = call'.lens[2] /\ a \in Nat /\ 4 + WordsFor(v) < a /\ 4 < a
        /\ Key \in Slots /\ KeyField.slot = Key /\ Value \in Slots /\ ValueField.slot = Value
        /\ Key # Value
    BY <1>1, <1>2, <1>3, FieldsType DEF Key, Value, Slots
  <1>6. WordKept("node", 1, 0) /\ DataKept(KeyField, 4, v) /\ DataKept(ValueField, a, u)
    BY <1>1 DEF ParsesSetText
  <1>7. /\ \A f : WordsStay(f, n) => (n # 1 /\ f # "node" => WordKept("node", 1, 0)')
        /\ DataStay(n) => (n < 4 => DataKept(KeyField, 4, v)' /\ DataKept(ValueField, a, u)')
    <2>1. n < 4 => n < a
      BY <1>2, <1>5
    <2>2. QED
      BY <1>3, <1>4, <1>5, <1>6, <2>1 DEF WordsStay, DataStay, Statics
  <1>8. SUFFICES
          /\ \/ Now(1, "NODE") \/ Now(2, "KEY_OFFSET") \/ Now(3, "VALUE_OFFSET")
             \/ Now(4, "KEY_LENGTH") \/ InData(KeyField, 4, v)
             \/ WordNumber >= a /\ InLast(ValueField, "VALUE_LENGTH", a, u)
          => (/\ \/ Now(1, "NODE") \/ Now(2, "KEY_OFFSET") \/ Now(3, "VALUE_OFFSET")
                 \/ Now(4, "KEY_LENGTH") \/ InData(KeyField, 4, v)
                 \/ WordNumber >= a /\ InLast(ValueField, "VALUE_LENGTH", a, u)
              /\ WordKept("node", 1, 0) /\ DataKept(KeyField, 4, v)
              /\ DataKept(ValueField, a, u))'
    BY <1>1, <1>5 DEF ParsesSetText
  <1>9. CASE Now(1, "NODE")
    <2>1. n = 1 /\ CopyParameter(w, "node", "KEY_OFFSET")
      BY <1>9, NowStep, FieldsType DEF handle_set_text, IgnoreWord, ReadField
    <2>2. /\ Now(2, "KEY_OFFSET")' /\ WordKept("node", 1, 0)' /\ DataStay(n)
      BY <2>1, WordStep DEF CopyParameter, Statics
    <2>3. QED
      BY <1>7, <2>1, <2>2
  <1>10. CASE Now(2, "KEY_OFFSET")
    <2>1. n = 2 /\ SaveOffset(w, Key, "VALUE_OFFSET")
      BY <1>10, NowStep, FieldsType DEF handle_set_text, IgnoreWord, ReadField
    <2>2. Now(3, "VALUE_OFFSET")' /\ DataStay(n) /\ (\A f : WordsStay(f, n))
      BY <2>1, OffsetStep
    <2>3. QED
      BY <1>7, <2>1, <2>2
  <1>11. CASE Now(3, "VALUE_OFFSET")
    <2>1. n = 3 /\ SaveOffset(w, Value, "KEY_LENGTH")
      BY <1>11, NowStep, FieldsType DEF handle_set_text, IgnoreWord, ReadField
    <2>2. Now(4, "KEY_LENGTH")' /\ DataStay(n) /\ (\A f : WordsStay(f, n))
      BY <2>1, OffsetStep
    <2>3. QED
      BY <1>7, <2>1, <2>2
  <1>12. ASSUME OtherSlots(KeyField), n < a, n # 1
         PROVE  WordKept("node", 1, 0)' /\ DataKept(ValueField, a, u)'
    <2>1. \A f : WordsStay(f, n)
      BY <1>12, OthersStay
    <2>2. DataKept(ValueField, a, u)'
      BY <1>4, <1>5, <1>6, <1>12, OthersStay
    <2>3. QED
      BY <1>7, <1>12, <2>1, <2>2
  <1>13. CASE Now(4, "KEY_LENGTH")
    <2>1. n = 4 /\ ReadLengthAt(offsets[Key], w, Key, "KEY")
      BY <1>13, NowStep, FieldsType DEF handle_set_text, IgnoreWord, ReadField
    <2>2. InData(KeyField, 4, v)' /\ DataKept(KeyField, 4, v)' /\ OtherSlots(KeyField)
      BY <1>4, <1>5, <1>6, <2>1, FirstLength, FieldsType
    <2>3. QED
      BY <1>5, <1>12, <2>1, <2>2
  <1>14. CASE InData(KeyField, 4, v)
    <2>1. next_param \in {"KEY", "KEY_1", "KEY_2"}
      BY <1>14, DataParam, FieldsType
    <2>2. SkipToOffset \/ (AtOffset /\ ReadField(KeyField, len[KeyField.slot], Then("VALUE_LENGTH")))
      BY <1>5, <2>1, FieldsType DEF handle_set_text, IgnoreWord, ReadField
    <2>3. /\ DataKept(KeyField, 4, v)' /\ OtherSlots(KeyField) /\ n <= 4 + WordsFor(v)
          /\ InData(KeyField, 4, v)' \/ (n = 4 + WordsFor(v) /\ Now(n + 1, "VALUE_LENGTH")')
      BY <1>3, <1>4, <1>6, <1>14, <2>2, FirstStep
    <2>4. n < a /\ n # 1
      <3>1. 4 < n
        BY <1>14, DataBegun
      <3>2. QED
        BY <1>2, <1>3, <1>5, <2>3, <3>1
    <2>5. n = 4 + WordsFor(v) /\ Now(n + 1, "VALUE_LENGTH")'
            => WordNumber' >= a /\ InLast(ValueField, "VALUE_LENGTH", a, u)'
      <3>1. n = 4 + WordsFor(v) => n + 1 = a /\ WordNumber' >= a
        BY <1>1, <1>2, <1>3
      <3>2. QED
        BY <3>1 DEF InLast, Sought
    <2>6. QED
      BY <1>12, <2>3, <2>4, <2>5
  <1>15. CASE WordNumber >= a /\ InLast(ValueField, "VALUE_LENGTH", a, u)
    <2>1. next_param \in {"VALUE_LENGTH", ValueField.data, ValueField.second, ValueField.last}
      BY <1>4, <1>15, LastParam
    <2>2. ReadsLast(w, ValueField, "VALUE_LENGTH", offsets[Value], len[Value])
      BY <1>5, <2>1, FieldsType DEF handle_set_text, ReadsLast, IgnoreWord, ReadField
    <2>3. /\ InLast(ValueField, "VALUE_LENGTH", a, u)' /\ DataKept(ValueField, a, u)'
          /\ OtherSlots(ValueField)
      BY <1>4, <1>5, <1>6, <1>15, <2>2, LastStep
    <2>4. WordNumber' >= a /\ 4 + WordsFor(v) < n /\ n # 1
      BY <1>2, <1>3, <1>5, <1>15
    <2>5. \A f : WordsStay(f, n)
      BY <2>3, OthersStay
    <2>6. DataKept(KeyField, 4, v)'
      BY <1>3, <1>5, <1>6, <2>3, <2>4, OthersStay, FieldsType
    <2>7. QED
      BY <1>7, <2>3, <2>4, <2>5, <2>6
  <1>16. QED
    BY <1>9, <1>10, <1>11, <1>13, <1>14, <1>15

(***************************************************************************)
(* The name, the inputs and the proof of a claim.                          *)
(***************************************************************************)
ReadsClaim(w, o, oInput) ==
    \/ SkipToOffset
    \/ /\ AtOffset
       /\ \/ next_param = "NAME_LENGTH" /\ ReadLengthAt(o, w, Name, "NAME")
          \/ ReadField(NameField, len[Name], Then("INPUT"))
          \/ next_param = "INPUT" /\ ReadInputs(oInput, w)
          \/ next_param = "PROOF_LEN" /\ ReadLength(w, Proof, "PROOF")
          \/ ReadField(ProofField, len[Proof], Then("NONE"))

\* What they leave of the words of the head.
HeadStays(h) ==
    \A g \in Statics : \A i \in Nat : \A b :
        g # "n_inputs" /\ i <= h /\ WordKept(g, i, b) => WordKept(g, i, b)'

\* The claims, and how many words their heads have.
ClaimHead(h) ==
    \/ call.selector = "8bbedf75" /\ h = 3
    \/ call.selector = "224199c2" /\ h = 5

\* The places of the fields of a claim.
ClaimPlaces(h, v, u, k, m) ==
    /\ v = call.lens[1] /\ u = call.lens[2] /\ k = NumberWord(2) /\ m = NumberWord(3)
    /\ v = call'.lens[1] /\ u = call'.lens[2] /\ k = NumberWord(2)' /\ m = NumberWord(3)'
    /\ h \in Nat /\ v \in Nat /\ u \in Nat /\ k \in Nat /\ m \in Nat /\ WordsFor(v) \in Nat
    /\ k = h + 1 + WordsFor(v) + 1 /\ k < m /\ m <= Len(Encode(call)) /\ h < k
    /\ SelfContained(v)
    /\ FieldOf(NameField, h + 1, v) /\ Encode(call)[h + 1] = Quantity(v)
    /\ LastField(ProofField, "PROOF_LEN", m, u)

LEMMA ClaimFields ==
  ASSUME NEW w, NEW n, Takes(w, n), NEW h, ClaimHead(h)
  PROVE  \E v, u, k, m : ClaimPlaces(h, v, u, k, m)
  <1> DEFINE v == call.lens[1]
             u == call.lens[2]
             k == NumberWord(2)
             m == NumberWord(3)
  <1>1. Reads(w, n) /\ call' = call
    BY DEF Takes, Reads
  <1>2. /\ v \in Nat /\ SelfContained(v) /\ WordsFor(v) \in Nat
        /\ h + 1 + WordsFor(v) <= Len(Encode(call))
        /\ NumberWord(1) = h + 1
        /\ k = h + 1 + WordsFor(v) + 1
        /\ m \in Nat /\ k < m /\ m <= Len(Encode(call))
    BY <1>1, ClaimWords DEF ClaimHead
  <1>3. /\ FieldOf(NameField, NumberWord(1), v) /\ Encode(call)[NumberWord(1)] = Quantity(v)
        /\ LastField(ProofField, "PROOF_LEN", m, u) /\ u \in Nat
    <2>1. "PROOF_LEN" \notin {ProofField.data, ProofField.second, ProofField.last}
      BY FieldsType
    <2>2. call.selector \in TwoData /\ 1 = IF call.selector = "10f13a8c" THEN 2 ELSE 1
      BY DEF TwoData, ClaimHead
    <2>3. QED
      BY <2>1, <2>2, TwoFields, FieldsType
  <1>4. h \in Nat
    BY DEF ClaimHead
  <1>5. v = call'.lens[1] /\ u = call'.lens[2] /\ k = NumberWord(2)' /\ m = NumberWord(3)'
    BY <1>1 DEF NumberWord
  <1>6. WITNESS v, u, k, m
  <1> HIDE DEF v, u, k, m
  <1>7. k \in Nat /\ h < k
    BY <1>2, <1>4
  <1>8. v = call.lens[1] /\ u = call.lens[2] /\ k = NumberWord(2) /\ m = NumberWord(3)
    BY DEF v, u, k, m
  <1>9. QED
    BY <1>2, <1>3, <1>4, <1>5, <1>7, <1>8 DEF ClaimPlaces

\* A word of them.
LEMMA ClaimStep ==
  ASSUME NEW w, NEW n, Takes(w, n), NEW h, ClaimHead(h), h < n,
         ParsesClaim(h), ParsesClaimKept(h),
         next_param = "INPUT" => Saved(Proof, 3),
         NEW o, NEW oInput, ReadsClaim(w, o, oInput)
  PROVE  ParsesClaim(h)' /\ ParsesClaimKept(h)' /\ HeadStays(h)
  <1>1. PICK v, u, k, m : ClaimPlaces(h, v, u, k, m)
    BY ClaimFields
  <1>2. /\ v = call.lens[1] /\ u = call.lens[2] /\ k = NumberWord(2) /\ m = NumberWord(3)
        /\ v = call'.lens[1] /\ u = call'.lens[2] /\ k = NumberWord(2)' /\ m = NumberWord(3)'
    BY <1>1 DEF ClaimPlaces
  <1>3. /\ h \in Nat /\ v \in Nat /\ u \in Nat /\ k \in Nat /\ m \in Nat /\ WordsFor(v) \in Nat
        /\ k = h + 1 + WordsFor(v) + 1 /\ k < m /\ m <= Len(Encode(call)) /\ h < k
        /\ h + 1 \in Nat
    BY <1>1 DEF ClaimPlaces
  <1>4. /\ SelfContained(v)
        /\ FieldOf(NameField, h + 1, v) /\ Encode(call)[h + 1] = Quantity(v)
        /\ LastField(ProofField, "PROOF_LEN", m, u)
    BY <1>1 DEF ClaimPlaces
  <1>5. /\ Reads(w, n) /\ call' = call /\ n \in Nat /\ WordNumber = n /\ WordNumber' = n + 1
        /\ n <= Len(Encode(call)) /\ Len(Encode(call)) \in Nat /\ parameterOffset = Position(n)
        /\ call \in Transactions /\ Supported(call)
    BY TakesType DEF Takes
  <1>6. /\ Name \in Slots /\ NameField.slot = Name /\ Proof \in Slots /\ ProofField.slot = Proof
        /\ Name # Proof
    BY FieldsType DEF Name, Proof, Slots
  <1>7. /\ DataKept(NameField, h + 1, v) /\ WordKept("n_inputs", k, 0)
        /\ DataKept(ProofField, m, u)
        /\ "n_inputs" \in Statics
    BY <1>2 DEF ParsesClaimKept, Statics
  <1>8. /\ WordsStay("n_inputs", n) => HeadStays(h)
        /\ WordsStay("", n) => HeadStays(h)
        /\ WordsStay("", n) /\ n # k => WordKept("n_inputs", k, 0)'
    <2>1. \A i \in Nat : i <= h => i # n
      BY <1>3, <1>5
    <2>2. ASSUME NEW f, WordsStay(f, n), f \in {"", "n_inputs"}
          PROVE  HeadStays(h)
      <3>1. "" \notin Statics
        BY DEF Statics
      <3>2. QED
        BY <2>1, <2>2, <3>1 DEF WordsStay, HeadStays
    <2>3. QED
      BY <1>3, <1>7, <2>2 DEF WordsStay
  <1>9. SUFFICES
          /\ \/ Now(h + 1, "NAME_LENGTH")
             \/ InData(NameField, h + 1, v)
             \/ Now(k, "INPUT")
             \/ k < WordNumber /\ InLast(ProofField, "PROOF_LEN", m, u)
          => /\ HeadStays(h)
             /\ (/\ \/ Now(h + 1, "NAME_LENGTH")
                    \/ InData(NameField, h + 1, v)
                    \/ Now(k, "INPUT")
                    \/ k < WordNumber /\ InLast(ProofField, "PROOF_LEN", m, u)
                 /\ DataKept(NameField, h + 1, v) /\ WordKept("n_inputs", k, 0)
                 /\ DataKept(ProofField, m, u))'
    BY <1>2 DEF ParsesClaim, ParsesClaimKept
  <1>10. ASSUME OtherSlots(NameField), n < k
         PROVE  HeadStays(h) /\ WordKept("n_inputs", k, 0)' /\ DataKept(ProofField, m, u)'
    <2>1. \A f : WordsStay(f, n)
      BY <1>10, OthersStay
    <2>2. n < m /\ n # k
      BY <1>3, <1>5, <1>10
    <2>3. DataKept(ProofField, m, u)'
      BY <1>3, <1>6, <1>7, <1>10, <2>2, OthersStay
    <2>4. WordsStay("", n)
      BY <2>1
    <2>5. QED
      BY <1>8, <2>2, <2>3, <2>4
  <1>11. CASE Now(h + 1, "NAME_LENGTH")
    <2>1. n = h + 1 /\ ReadLengthAt(o, w, Name, "NAME")
      BY <1>11, NowStep, FieldsType DEF ReadsClaim, ReadField
    <2>2. InData(NameField, h + 1, v)' /\ DataKept(NameField, h + 1, v)' /\ OtherSlots(NameField)
      BY <1>4, <1>6, <1>7, <2>1, FirstLength, FieldsType
    <2>3. n < k
      BY <1>3, <2>1
    <2>4. QED
      BY <1>10, <2>2, <2>3
  <1>12. CASE InData(NameField, h + 1, v)
    <2>1. next_param \in {"NAME", "NAME_OFFSET_1", "NAME_OFFSET_2"}
      BY <1>12, DataParam, FieldsType
    <2>2. SkipToOffset \/ (AtOffset /\ ReadField(NameField, len[NameField.slot], Then("INPUT")))
      BY <1>6, <2>1, FieldsType DEF ReadsClaim, ReadField
    <2>3. /\ DataKept(NameField, h + 1, v)' /\ OtherSlots(NameField) /\ n <= h + 1 + WordsFor(v)
          /\ InData(NameField, h + 1, v)' \/ (n = h + 1 + WordsFor(v) /\ Now(n + 1, "INPUT")')
      BY <1>4, <1>7, <1>12, <2>2, FirstStep
    <2>4. n < k /\ (n = h + 1 + WordsFor(v) => n + 1 = k)
      BY <1>3, <1>5, <2>3
    <2>5. n = h + 1 + WordsFor(v) /\ Now(n + 1, "INPUT")' => Now(k, "INPUT")'
      BY <2>4
    <2>6. QED
      BY <1>10, <2>3, <2>4, <2>5
  <1>13. CASE Now(k, "INPUT")
    <2>1. n = k /\ next_param = "INPUT" /\ ReadInputs(oInput, w)
      BY <1>13, NowStep, FieldsType DEF ReadsClaim, ReadField
    <2>2. CopyWord(w, "n_inputs", 0) /\ Seek(offsets[Proof] + SELECTOR_SIZE, "PROOF_LEN")
      BY <2>1 DEF ReadInputs, Refuse, Takes
    <2>3. offsets[Proof] + SELECTOR_SIZE = Position(m)
      <3>1. 3 \in 1 .. Len(Signature(call.selector)) /\ Signature(call.selector)[3] # "word"
        BY <1>5, ClaimWords DEF ClaimHead
      <3>2. QED
        BY <1>2, <1>5, <2>1, <3>1, OffsetWords DEF NumberWord, Saved
    <2>4. n < m /\ m <= Len(Encode(call)) + 1
      BY <1>3, <1>5, <2>1
    <2>5. Sought(m, "PROOF_LEN")'
      BY <1>3, <2>2, <2>3, <2>4, SeekStep
    <2>6. /\ WordKept("n_inputs", k, 0)' /\ WordsStay("n_inputs", n)
          /\ UNCHANGED <<len, text, ellipsis>>
      BY <1>7, <2>1, <2>2, WordCopiedTo DEF WordsStay
    <2>7. DataKept(ProofField, m, u)'
      BY <1>3, <1>7, <2>4, <2>6, Unmoved DEF DataStay
    <2>8. DataKept(NameField, h + 1, v)'
      <3>1. h + 1 + WordsFor(v) < n
        BY <1>3, <2>1
      <3>2. QED
        BY <1>3, <1>7, <2>6, <3>1, DataBehind, FieldsType
    <2>9. k < WordNumber'
      BY <1>3, <1>5, <2>1
    <2>10. QED
      BY <1>8, <2>5, <2>6, <2>7, <2>8, <2>9 DEF InLast
  <1>14. CASE k < WordNumber /\ InLast(ProofField, "PROOF_LEN", m, u)
    <2>1. next_param \in {"PROOF_LEN", ProofField.data, ProofField.second, ProofField.last}
      BY <1>4, <1>14, LastParam
    <2>2. PICK p : p = parameterOffset - SELECTOR_SIZE
      OBVIOUS
    <2>3. p + SELECTOR_SIZE = parameterOffset
      <3>1. parameterOffset \in Int
        BY TakesType
      <3>2. QED
        BY <2>2, <3>1 DEF SELECTOR_SIZE
    <2>4. ReadsLast(w, ProofField, "PROOF_LEN", p, len[Proof])
      BY <1>6, <2>1, <2>3, FieldsType DEF ReadsClaim, ReadsLast, ReadLengthAt, ReadField
    <2>5. /\ InLast(ProofField, "PROOF_LEN", m, u)' /\ DataKept(ProofField, m, u)'
          /\ OtherSlots(ProofField)
      BY <1>4, <1>6, <1>7, <1>14, <2>4, LastStep
    <2>6. k < WordNumber' /\ h + 1 + WordsFor(v) < n /\ n # k
      BY <1>3, <1>5, <1>14
    <2>7. WordsStay("", n)
      <3>1. \A f : WordsStay(f, n)
        BY <2>5, OthersStay
      <3>2. QED
        BY <3>1
    <2>8. DataKept(NameField, h + 1, v)'
      BY <1>3, <1>6, <1>7, <2>5, <2>6, OthersStay, FieldsType
    <2>9. QED
      BY <1>8, <2>5, <2>6, <2>7, <2>8
  <1>15. QED
    BY <1>9, <1>11, <1>12, <1>13, <1>14

\* The words of the head, before those of the claim.
LEMMA ClaimAhead ==
  ASSUME NEW w, NEW n, Takes(w, n), NEW h, ClaimHead(h), n <= h, ParsesClaimKept(h),
         DataStay(n), NEW f, f # "n_inputs", WordsStay(f, n)
  PROVE  ParsesClaimKept(h)'
  <1>1. PICK v, u, k, m : ClaimPlaces(h, v, u, k, m)
    BY ClaimFields
  <1>2. /\ v = call.lens[1] /\ u = call.lens[2] /\ k = NumberWord(2) /\ m = NumberWord(3)
        /\ v = call'.lens[1] /\ u = call'.lens[2] /\ k = NumberWord(2)' /\ m = NumberWord(3)'
        /\ h \in Nat /\ v \in Nat /\ u \in Nat /\ k \in Nat /\ m \in Nat
        /\ k < m /\ h < k
    BY <1>1 DEF ClaimPlaces
  <1>8. h \in Nat /\ m \in Nat /\ k \in Nat /\ k < m /\ h < k
    BY <1>2
  <1>3. DataKept(NameField, h + 1, v) /\ WordKept("n_inputs", k, 0) /\ DataKept(ProofField, m, u)
    BY <1>2 DEF ParsesClaimKept
  <1>4. h + 1 \in Nat /\ n < h + 1 /\ n < m /\ n # k
    <2>1. n \in Nat
      BY TakesType
    <2>2. QED
      BY <1>8, <2>1
  <1>5. DataKept(NameField, h + 1, v)' /\ DataKept(ProofField, m, u)'
    BY <1>2, <1>3, <1>4 DEF DataStay
  <1>6. WordKept("n_inputs", k, 0)'
    <2>1. "n_inputs" \in Statics /\ "n_inputs" # f
      BY DEF Statics
    <2>2. QED
      BY <1>2, <1>3, <1>4, <2>1 DEF WordsStay
  <1>7. QED
    BY <1>2, <1>5, <1>6 DEF ParsesClaimKept

\* What comes next is no word of the head.
LEMMA ClaimBegun ==
  ASSUME NEW w, NEW n, Takes(w, n), NEW h, ClaimHead(h), ParsesClaim(h)
  PROVE  /\ h < n
         /\ next_param \in {"NAME_LENGTH", "NAME", "NAME_OFFSET_1", "NAME_OFFSET_2", "INPUT",
                            "PROOF_LEN", "PROOF", "PROOF_1", "PROOF_2"}
  <1>1. PICK v, u, k, m : ClaimPlaces(h, v, u, k, m)
    BY ClaimFields
  <1>2. /\ v = call.lens[1] /\ u = call.lens[2] /\ k = NumberWord(2) /\ m = NumberWord(3)
        /\ h \in Nat /\ k \in Nat /\ h < k /\ h + 1 \in Nat
        /\ LastField(ProofField, "PROOF_LEN", m, u)
    BY <1>1 DEF ClaimPlaces
  <1>3. n \in Nat /\ WordNumber = n
    BY TakesType
  <1>4. CASE Now(h + 1, "NAME_LENGTH")
    BY <1>2, <1>3, <1>4 DEF Now
  <1>5. CASE InData(NameField, h + 1, v)
    <2>1. h + 1 < n
      BY <1>2, <1>5, DataBegun
    <2>2. h < n
      BY <1>2, <1>3, <2>1
    <2>3. next_param \in {NameField.data, NameField.second, NameField.last}
      BY <1>5, DataParam
    <2>4. QED
      BY <2>2, <2>3, FieldsType
  <1>6. CASE Now(k, "INPUT")
    BY <1>2, <1>3, <1>6 DEF Now
  <1>7. CASE k < WordNumber /\ InLast(ProofField, "PROOF_LEN", m, u)
    <2>1. next_param \in {"PROOF_LEN", ProofField.data, ProofField.second, ProofField.last}
      BY <1>2, <1>7, LastParam
    <2>2. QED
      BY <1>2, <1>3, <1>7, <2>1, FieldsType
  <1>8. QED
    BY <1>2, <1>4, <1>5, <1>6, <1>7 DEF ParsesClaim

\* proveAndClaim.
LEMMA ProveClaimShown ==
  ASSUME NEW w, NEW n, Takes(w, n), call.selector = "8bbedf75", OnProveClaim,
         ParsesProveClaim, handle_prove_claim(w)
  PROVE  ParsesProveClaim'
  <1>1. ClaimHead(3) /\ ParsesClaimKept(3)
    BY DEF ClaimHead, ParsesProveClaim
  <1>2. ASSUME NEW i \in 1 .. 3, NEW p, Now(i, p), NEW q, NEW k, SaveOffsetAnyway(w, k, q)
        PROVE  Now(i + 1, q)' /\ ParsesClaimKept(3)'
    <2>1. n = i /\ n <= 3
      BY <1>2, NowStep
    <2>2. Now(n + 1, q)' /\ DataStay(n) /\ \A f : WordsStay(f, n)
      BY <1>2, OffsetStep
    <2>3. ParsesClaimKept(3)'
      BY <1>1, <2>1, <2>2, ClaimAhead
    <2>4. QED
      BY <2>1, <2>2, <2>3
  <1>3. CASE Now(1, "NAME_OFFSET")
    <2>1. SaveOffsetAnyway(w, Name, "INPUT_OFFSET")
      BY <1>3, NowStep, FieldsType DEF handle_prove_claim, IgnoreWord, ReadField
    <2>2. Now(2, "INPUT_OFFSET")' /\ ParsesClaimKept(3)'
      BY <1>2, <1>3, <2>1
    <2>3. QED
      BY <2>2 DEF ParsesProveClaim
  <1>4. CASE Now(2, "INPUT_OFFSET")
    <2>1. SaveOffsetAnyway(w, Input, "PROOF_OFFSET")
      BY <1>4, NowStep, FieldsType DEF handle_prove_claim, IgnoreWord, ReadField
    <2>2. Now(3, "PROOF_OFFSET")' /\ ParsesClaimKept(3)'
      BY <1>2, <1>4, <2>1
    <2>3. QED
      BY <2>2 DEF ParsesProveClaim
  <1>5. CASE Now(3, "PROOF_OFFSET")
    <2>1. SaveOffsetAnyway(w, Proof, "NAME_LENGTH")
      BY <1>5, NowStep, FieldsType DEF handle_prove_claim, IgnoreWord, ReadField
    <2>2. Now(4, "NAME_LENGTH")' /\ ParsesClaimKept(3)'
      BY <1>2, <1>5, <2>1
    <2>3. QED
      BY <2>2 DEF ParsesProveClaim, ParsesClaim
  <1>6. CASE ParsesClaim(3)
    <2>1. /\ 3 < n
          /\ next_param \in {"NAME_LENGTH", "NAME", "NAME_OFFSET_1", "NAME_OFFSET_2", "INPUT",
                             "PROOF_LEN", "PROOF", "PROOF_1", "PROOF_2"}
      BY <1>1, <1>6, ClaimBegun
    <2>2. next_param = "INPUT" => Saved(Proof, 3)
      BY FieldsType DEF OnProveClaim, Due, Here, InField, Trailing, ProofData
    <2>3. ReadsClaim(w, offsets[Name], offsets[Input])
      BY <2>1 DEF handle_prove_claim, IgnoreWord, ReadsClaim
    <2>4. ParsesClaim(3)' /\ ParsesClaimKept(3)'
      BY <1>1, <1>6, <2>1, <2>2, <2>3, ClaimStep
    <2>5. QED
      BY <2>4 DEF ParsesProveClaim
  <1>7. QED
    BY <1>3, <1>4, <1>5, <1>6 DEF ParsesProveClaim

\* proveAndClaimWithResolver.
LEMMA ProveClaimResolverShown ==
  ASSUME NEW w, NEW n, Takes(w, n), call.selector = "224199c2", OnProveClaimResolver,
         ParsesProveClaimResolver, handle_prove_claim_resolver(w)
  PROVE  ParsesProveClaimResolver'
  <1>1. /\ ClaimHead(5) /\ ParsesClaimKept(5)
        /\ WordKept("resolver", 4, 12) /\ WordKept("addr", 5, 12)
        /\ "resolver" \in Statics \ {"n_inputs"} /\ "addr" \in Statics \ {"n_inputs"}
    BY DEF ClaimHead, ParsesProveClaimResolver, Statics
  <1>2. n <= 5 => (DataStay(n) =>
          /\ WordsStay("", n) => ParsesClaimKept(5)'
          /\ WordsStay("resolver", n) => ParsesClaimKept(5)'
          /\ WordsStay("addr", n) => ParsesClaimKept(5)')
    BY <1>1, ClaimAhead
  <1>3. /\ WordsStay("", n) =>
             (n # 4 => WordKept("resolver", 4, 12)') /\ (n # 5 => WordKept("addr", 5, 12)')
        /\ WordsStay("resolver", n) => (n # 5 => WordKept("addr", 5, 12)')
        /\ WordsStay("addr", n) => (n # 4 => WordKept("resolver", 4, 12)')
    BY <1>1 DEF WordsStay, Statics
  <1>4. ASSUME NEW i \in 1 .. 3, NEW p, Now(i, p), NEW q,
               UNCHANGED <<statics, len, text, ellipsis>>, Advance(q)
        PROVE  /\ Now(i + 1, q)' /\ ParsesClaimKept(5)'
               /\ WordKept("resolver", 4, 12)' /\ WordKept("addr", 5, 12)'
    <2>1. n = i /\ n <= 5 /\ n # 4 /\ n # 5
      BY <1>4, NowStep
    <2>2. Now(n + 1, q)' /\ DataStay(n)
      BY <1>4, AdvanceStep, Unmoved
    <2>3. WordsStay("", n)
      BY <1>4, SameWords
    <2>4. QED
      BY <1>2, <1>3, <2>1, <2>2, <2>3
  <1>5. CASE Now(1, "NAME_OFFSET")
    <2>1. SaveNameOffset(w)
      BY <1>5, NowStep, FieldsType
      DEF handle_prove_claim_resolver, IgnoreWord, ReadField, ReadNameLength, ReadInputsLength
    <2>2. UNCHANGED <<statics, len, text, ellipsis>> /\ Advance("INPUT_OFFSET")
      BY <2>1 DEF SaveNameOffset, fields
    <2>3. /\ Now(1 + 1, "INPUT_OFFSET")' /\ ParsesClaimKept(5)'
          /\ WordKept("resolver", 4, 12)' /\ WordKept("addr", 5, 12)'
      BY <1>4, <1>5, <2>2
    <2>4. QED
      BY <2>3 DEF ParsesProveClaimResolver
  <1>6. CASE Now(2, "INPUT_OFFSET")
    <2>1. SaveInputOffset(w)
      BY <1>6, NowStep, FieldsType
      DEF handle_prove_claim_resolver, IgnoreWord, ReadField, ReadNameLength, ReadInputsLength
    <2>2. UNCHANGED <<statics, len, text, ellipsis>> /\ Advance("PROOF_OFFSET")
      BY <2>1 DEF SaveInputOffset, fields
    <2>3. /\ Now(2 + 1, "PROOF_OFFSET")' /\ ParsesClaimKept(5)'
          /\ WordKept("resolver", 4, 12)' /\ WordKept("addr", 5, 12)'
      BY <1>4, <1>6, <2>2
    <2>4. QED
      BY <2>3 DEF ParsesProveClaimResolver
  <1>7. CASE Now(3, "PROOF_OFFSET")
    <2>1. SaveOffsetAnyway(w, Proof, "RESOLVER")
      BY <1>7, NowStep, FieldsType
      DEF handle_prove_claim_resolver, IgnoreWord, ReadField, ReadNameLength, ReadInputsLength
    <2>2. UNCHANGED <<statics, len, text, ellipsis>> /\ Advance("RESOLVER")
      BY <2>1 DEF SaveOffsetAnyway
    <2>3. /\ Now(3 + 1, "RESOLVER")' /\ ParsesClaimKept(5)'
          /\ WordKept("resolver", 4, 12)' /\ WordKept("addr", 5, 12)'
      BY <1>4, <1>7, <2>2
    <2>4. QED
      BY <2>3 DEF ParsesProveClaimResolver
  <1>8. CASE Now(4, "RESOLVER")
    <2>1. n = 4 /\ CopyAddress(w, "resolver", "ADDR")
      BY <1>8, NowStep, FieldsType
      DEF handle_prove_claim_resolver, IgnoreWord, ReadField, ReadNameLength, ReadInputsLength
    <2>2. /\ Now(5, "ADDR")' /\ WordKept("resolver", 4, 12)'
          /\ WordsStay("resolver", n) /\ DataStay(n)
      BY <1>1, <2>1, WordStep DEF CopyAddress
    <2>3. n <= 5 /\ n # 5
      BY <2>1
    <2>5. ParsesClaimKept(5)'
      BY <1>2, <2>2, <2>3
    <2>6. WordKept("addr", 5, 12)'
      BY <1>3, <2>2, <2>3
    <2>4. QED
      BY <2>2, <2>5, <2>6 DEF ParsesProveClaimResolver
  <1>9. CASE Now(5, "ADDR")
    <2>1. n = 5 /\ CopyAddress(w, "addr", "NAME_LENGTH")
      BY <1>9, NowStep, FieldsType
      DEF handle_prove_claim_resolver, IgnoreWord, ReadField, ReadNameLength, ReadInputsLength
    <2>2. /\ Now(5 + 1, "NAME_LENGTH")' /\ WordKept("addr", 5, 12)'
          /\ WordsStay("addr", n) /\ DataStay(n)
      BY <1>1, <2>1, WordStep DEF CopyAddress
    <2>3. n <= 5 /\ n # 4
      BY <2>1
    <2>5. ParsesClaimKept(5)'
      BY <1>2, <2>2, <2>3
    <2>6. WordKept("resolver", 4, 12)'
      BY <1>3, <2>2, <2>3
    <2>4. QED
      BY <2>2, <2>5, <2>6 DEF ParsesProveClaimResolver, ParsesClaim
  <1>10. CASE ParsesClaim(5)
    <2>1. /\ 5 < n
          /\ next_param \in {"NAME_LENGTH", "NAME", "NAME_OFFSET_1", "NAME_OFFSET_2", "INPUT",
                             "PROOF_LEN", "PROOF", "PROOF_1", "PROOF_2"}
      BY <1>1, <1>10, ClaimBegun
    <2>2. next_param = "INPUT" => Saved(Proof, 3)
      BY FieldsType DEF OnProveClaimResolver, Due, Here, InField, Trailing, ProofData
    <2>3. ReadsClaim(w, name_offset, input_offset)
      BY <2>1
      DEF handle_prove_claim_resolver, IgnoreWord, ReadsClaim, ReadNameLength, ReadInputsLength
    <2>4. ParsesClaim(5)' /\ ParsesClaimKept(5)' /\ HeadStays(5)
      BY <1>1, <1>10, <2>1, <2>2, <2>3, ClaimStep
    <2>5. WordKept("resolver", 4, 12)' /\ WordKept("addr", 5, 12)'
      BY <1>1, <2>4 DEF HeadStays
    <2>6. QED
      BY <2>4, <2>5 DEF ParsesProveClaimResolver
  <1>11. QED
    BY <1>5, <1>6, <1>7, <1>8, <1>9, <1>10 DEF ParsesProveClaimResolver

(***************************************************************************)
(* The arrays.                                                             *)
(***************************************************************************)

\* The last word of element e.
ElementEnd(e) == ElementWord(call, e) + WordsFor(call.lens[e])

\* Where the elements are, behind a head of h words.
ElementPlaced(h, size, e) ==
    /\ ElementWord(call, e) \in Nat /\ call.lens[e] \in Nat /\ call.lens[e] <= UINT16_MAX
    /\ ElementEnd(e) \in Nat /\ ElementWord(call, e) <= ElementEnd(e)
    /\ ElementEnd(e) <= Len(Encode(call))
    /\ Encode(call)[ElementWord(call, e)] = Quantity(call.lens[e])
    /\ h + 1 + size < ElementWord(call, e)

ElementsPlaced(h, size) ==
    /\ h \in {1, 2} /\ size \in {1, 2, 3} /\ size = Len(call.lens)
    /\ \A e \in 1 .. size : ElementPlaced(h, size, e)
    /\ ElementWord(call, 1) = h + 1 + size + 1
    /\ \A e \in 1 .. size - 1 :
          SelfContained(call.lens[e]) /\ ElementWord(call, e + 1) = ElementEnd(e) + 1
    /\ ElementEnd(size) = Len(Encode(call))

LEMMA ArrayFields ==
  ASSUME NEW w, NEW n, Takes(w, n), call.selector \in OneArray,
         NEW h, h = Len(Signature(call.selector)),
         NEW size, size = Len(call.lens)
  PROVE  ElementsPlaced(h, size)
  <1>1. call \in Transactions /\ Supported(call) /\ Reads(w, n)
    BY TakesType DEF Takes
  <1>2. /\ h = IF call.selector = "e8d6dbb4" THEN 2 ELSE 1
        /\ size \in 1 .. 3 /\ \A e \in 1 .. size - 1 : SelfContained(call.lens[e])
        /\ Signature(call.selector)[1] = "array"
    BY <1>1, ElementPlaces
  <1>3. h \in {1, 2} /\ size \in {1, 2, 3}
    BY <1>2
  <1>14. h \in Nat /\ size \in Nat
    BY <1>3
  <1>4. /\ TailWord(call, 1) = h
        /\ Len(Encode(call)) \in Nat
        /\ \A e \in 1 .. size :
             /\ ElementWord(call, e) \in Nat
             /\ h + 1 + size < ElementWord(call, e)
             /\ call.lens[e] \in Nat
             /\ call.lens[e] <= UINT16_MAX
             /\ WordsFor(call.lens[e]) \in Nat
             /\ ElementWord(call, e) + WordsFor(call.lens[e]) <= Len(Encode(call))
             /\ Encode(call)[ElementWord(call, e)] = Quantity(call.lens[e])
             /\ ElementWord(call, e + 1) = ElementWord(call, e) + 1 + WordsFor(call.lens[e])
    BY <1>1, ArrayWords
  <1>5. /\ ElementParts(call) \in Seq(Seq(Word)) /\ Len(ElementParts(call)) = size
    BY <1>1, ElementsType
  <1>6. Before(ElementParts(call), 0) = 0
        /\ \A e \in 0 .. size : Before(ElementParts(call), e) \in Nat
    BY <1>5, PartStarts
  <1>7. ElementWord(call, 1) = h + 1 + size + 1
    <2>1. ElementWord(call, 1) = h + 2 + size + 0
      <3>1. 1 - 1 = 0
        OBVIOUS
      <3>2. QED
        BY <1>4, <1>6, <3>1 DEF ElementWord
    <2>2. PICK a, s : a = h /\ s = size
      OBVIOUS
    <2>3. a \in Nat /\ s \in Nat
      BY <1>14, <2>2
    <2>4. a + 2 + s + 0 = a + 1 + s + 1
      BY <2>3
    <2>5. QED
      BY <2>1, <2>2, <2>4
  <1>13. ASSUME NEW e \in 1 .. size
         PROVE  ElementPlaced(h, size, e) /\ ElementWord(call, e + 1) = ElementEnd(e) + 1
    <2>1. PICK a, v, k : a = ElementWord(call, e) /\ v = call.lens[e] /\ k = WordsFor(v)
      OBVIOUS
    <2>2. a \in Nat /\ k \in Nat /\ a + k <= Len(Encode(call)) /\ ElementWord(call, e + 1) = a + 1 + k
          /\ v \in Nat /\ v <= UINT16_MAX /\ Encode(call)[a] = Quantity(v) /\ h + 1 + size < a
      BY <1>4, <2>1
    <2>3. ElementEnd(e) = a + k
      BY <2>1 DEF ElementEnd
    <2>4. ElementEnd(e) \in Nat /\ a <= ElementEnd(e) /\ ElementWord(call, e + 1) = ElementEnd(e) + 1
      BY <2>2, <2>3
    <2>5. QED
      BY <2>1, <2>2, <2>3, <2>4 DEF ElementPlaced
  <1>8. \A e \in 1 .. size : ElementPlaced(h, size, e)
    BY <1>13
  <1>9. \A e \in 1 .. size : ElementWord(call, e + 1) = ElementEnd(e) + 1
    BY <1>13
  <1>10. ElementEnd(size) = Len(Encode(call))
    <2>1. ElementWord(call, size + 1) = ElementEnd(size) + 1 /\ ElementEnd(size) \in Nat
      <3>1. size \in 1 .. size
        BY <1>3
      <3>2. QED
        BY <1>8, <1>9, <3>1 DEF ElementPlaced
    <2>2. Len(TailOf(call, 1)) = 1 + size + Before(ElementParts(call), size)
      <3>1. 1 \in DOMAIN Signature(call.selector)
        BY Signatures DEF OneArray
      <3>2. QED
        BY <1>1, <1>2, <3>1, ArrayTail
    <2>3. ElementWord(call, size + 1) = h + 2 + size + Before(ElementParts(call), size)
      <3>1. (size + 1) - 1 = size
        BY <1>3
      <3>2. QED
        BY <1>4, <3>1 DEF ElementWord
    <2>4. Len(Encode(call)) = h + Len(TailOf(call, 1))
      <3>1. /\ Len(Encode(call)) = TailWord(call, h + 1)
            /\ \A j \in 1 .. h :
                 /\ TailWord(call, j) \in Nat /\ Len(TailOf(call, j)) \in Nat
                 /\ TailWord(call, j + 1) = TailWord(call, j) + Len(TailOf(call, j))
                 /\ Signature(call.selector)[j] = "word" => Len(TailOf(call, j)) = 0
        BY <1>1, CallWords, EncodeShape
      <3>2. CASE h = 1
        <4>1. TailWord(call, 1 + 1) = TailWord(call, 1) + Len(TailOf(call, 1))
          BY <3>1, <3>2
        <4>2. QED
          BY <1>4, <3>1, <3>2, <4>1
      <3>3. CASE h = 2
        <4>1. Signature(call.selector)[2] = "word"
          BY <1>1, <1>2, <3>3, ElementPlaces
        <4>2. /\ TailWord(call, 1 + 1) = TailWord(call, 1) + Len(TailOf(call, 1))
              /\ TailWord(call, 2 + 1) = TailWord(call, 2) + Len(TailOf(call, 2))
              /\ Len(TailOf(call, 2)) = 0 /\ TailWord(call, 2) \in Nat
          BY <3>1, <3>3, <4>1
        <4>3. QED
          BY <1>4, <3>1, <3>3, <4>2
      <3>4. QED
        BY <1>3, <3>2, <3>3
    <2>5. PICK b, l, m : b = Before(ElementParts(call), size) /\ l = Len(Encode(call))
                         /\ m = ElementEnd(size)
      OBVIOUS
    <2>6. b \in Nat /\ m \in Nat
      BY <1>3, <1>6, <2>1, <2>5
    <2>7. h + 2 + size + b = m + 1 /\ l = h + (1 + size + b)
      BY <2>1, <2>2, <2>3, <2>4, <2>5
    <2>8. m = l
      <3>1. PICK a, s : a = h /\ s = size
        OBVIOUS
      <3>2. a \in Nat /\ s \in Nat /\ a + 2 + s + b = m + 1 /\ l = a + (1 + s + b)
        BY <1>14, <2>7, <3>1
      <3>3. QED
        BY <2>6, <3>2
    <2>9. QED
      BY <2>5, <2>8
  <1>11. \A e \in 1 .. size - 1 :
            SelfContained(call.lens[e]) /\ ElementWord(call, e + 1) = ElementEnd(e) + 1
    BY <1>2, <1>3, <1>9
  <1>12. QED
    BY <1>3, <1>7, <1>8, <1>10, <1>11 DEF ElementsPlaced

\* An element is behind the ones before it.
LEMMA ElementsApart ==
  ASSUME NEW h, NEW size, ElementsPlaced(h, size), NEW d \in 1 .. size, NEW e \in 1 .. size, d < e
  PROVE  ElementEnd(d) < ElementWord(call, e) /\ SelfContained(call.lens[d])
  <1>1. size \in {1, 2, 3} /\ \A k \in 1 .. size - 1 :
          SelfContained(call.lens[k]) /\ ElementWord(call, k + 1) = ElementEnd(k) + 1
    BY DEF ElementsPlaced
  <1>2. \A k \in 1 .. size :
          ElementEnd(k) \in Nat /\ ElementWord(call, k) \in Nat /\ ElementWord(call, k) <= ElementEnd(k)
    BY DEF ElementsPlaced, ElementPlaced
  <1>3. d \in 1 .. size - 1 /\ ElementWord(call, d + 1) = ElementEnd(d) + 1
    BY <1>1
  <1>4. e = d + 1 \/ (d = 1 /\ e = 3 /\ size = 3)
    BY <1>1
  <1>5. CASE e = d + 1
    BY <1>1, <1>2, <1>3, <1>5
  <1>6. CASE d = 1 /\ e = 3 /\ size = 3
    <2>1. 1 \in 1 .. size - 1 /\ 2 \in 1 .. size - 1 /\ 1 + 1 = 2 /\ 2 + 1 = 3
          /\ 1 \in 1 .. size /\ 2 \in 1 .. size
      BY <1>6
    <2>2. ElementWord(call, 2) = ElementEnd(1) + 1 /\ ElementWord(call, 3) = ElementEnd(2) + 1
      BY <1>1, <2>1
    <2>3. ElementEnd(1) \in Nat /\ ElementEnd(2) \in Nat /\ ElementWord(call, 2) <= ElementEnd(2)
      BY <1>2, <2>1
    <2>4. ElementEnd(1) < ElementWord(call, 3)
      BY <2>2, <2>3
    <2>5. QED
      BY <1>1, <1>3, <1>6, <2>4
  <1>7. QED
    BY <1>4, <1>5, <1>6

\* The field of element e.
LEMMA ElementOf ==
  ASSUME NEW h, NEW size, ElementsPlaced(h, size), NEW e \in 1 .. size,
         NEW f, f \in {NameField, CallField}, NEW g, g = [f EXCEPT !.slot = e - 1]
  PROVE  /\ FieldOf(g, ElementWord(call, e), call.lens[e])
         /\ g.slot = e - 1 /\ e - 1 \in Slots /\ g.byLength = f.byLength
         /\ g.data = f.data /\ g.second = f.second /\ g.last = f.last
  <1>1. size \in {1, 2, 3} /\ ElementPlaced(h, size, e)
    BY DEF ElementsPlaced
  <1>2. e - 1 \in Slots
    BY <1>1 DEF Slots
  <1>3. /\ g.slot = e - 1 /\ g.byLength = f.byLength
        /\ g.data = f.data /\ g.second = f.second /\ g.last = f.last
    BY DEF NameField, CallField
  <1>4. Field(g)
    BY <1>2, <1>3, FieldsType DEF Field
  <1>5. QED
    BY <1>1, <1>2, <1>3, <1>4 DEF FieldOf, ElementPlaced, ElementEnd

\* An array has at most three elements.
LEMMA ElementIndex ==
  ASSUME NEW h, NEW size, ElementsPlaced(h, size), NEW e \in 1 .. size
  PROVE  e \in {1, 2, 3}
  <1>1. size \in {1, 2, 3}
    BY DEF ElementsPlaced
  <1>2. CASE size = 1
    BY <1>2
  <1>3. CASE size = 2
    BY <1>3
  <1>4. CASE size = 3
    BY <1>4
  <1>5. QED
    BY <1>1, <1>2, <1>3, <1>4

\* What is kept of the elements, when word n is one of element e.
LEMMA ElementsStay ==
  ASSUME NEW w, NEW n, Takes(w, n), NEW h, NEW size, ElementsPlaced(h, size),
         NEW f, f \in {NameField, CallField}, ElementsKept(f),
         NEW e \in 1 .. size, NEW g, g = [f EXCEPT !.slot = e - 1],
         OtherSlots(g) \/ OtherFields(g),
         ElementWord(call, e) <= n, n <= ElementEnd(e),
         DataKept(g, ElementWord(call, e), call.lens[e])'
  PROVE  ElementsKept(f)'
  <1>1. call' = call /\ n \in Nat /\ size = Len(call.lens)
    BY TakesType DEF ElementsPlaced
  <1>2. SUFFICES ASSUME NEW d \in 1 .. size, d # e, NEW k, k = [f EXCEPT !.slot = d - 1]
                 PROVE  DataKept(k, ElementWord(call, d), call.lens[d])'
    <2>1. ASSUME NEW d \in 1 .. size
          PROVE  DataKept([f EXCEPT !.slot = d - 1], ElementWord(call, d), call.lens[d])'
      BY <1>2
    <2>2. QED
      BY <1>1, <2>1 DEF ElementsKept
  <1>3. PICK a, v : a = ElementWord(call, d) /\ v = call.lens[d]
    OBVIOUS
  <1>4. a \in Nat /\ v \in Nat /\ k.slot = d - 1 /\ d - 1 \in Slots /\ k.byLength = f.byLength
    <2>1. FieldOf(k, ElementWord(call, d), call.lens[d]) /\ k.slot = d - 1 /\ d - 1 \in Slots
          /\ k.byLength = f.byLength
      BY <1>2, ElementOf
    <2>2. QED
      BY <1>3, <2>1 DEF FieldOf
  <1>5. DataKept(k, a, v)
    <2>1. DataKept([f EXCEPT !.slot = d - 1], ElementWord(call, d), call.lens[d])
      BY <1>1 DEF ElementsKept
    <2>2. QED
      BY <1>2, <1>3, <2>1
  <1>6. k.slot \in Slots \ {g.slot}
    <2>1. g.slot = e - 1
      BY ElementOf
    <2>2. d \in {1, 2, 3} /\ e \in {1, 2, 3} /\ d # e
      BY <1>2, ElementIndex
    <2>3. \A x, y \in {1, 2, 3} : x # y => x - 1 # y - 1
      OBVIOUS
    <2>4. QED
      BY <1>4, <2>1, <2>2, <2>3
  <1>7. n < a \/ (a + WordsFor(v) < n /\ (k.byLength \/ 1 <= v))
    <2>1. /\ ElementEnd(e) \in Nat /\ ElementWord(call, e) \in Nat
          /\ ElementEnd(d) = a + WordsFor(v) /\ ElementEnd(d) \in Nat
      BY <1>3 DEF ElementsPlaced, ElementPlaced, ElementEnd
    <2>2. d \in {1, 2, 3} /\ e \in {1, 2, 3} /\ d # e
      BY <1>2, ElementIndex
    <2>6. \A x, y \in {1, 2, 3} : x # y => (x < y \/ y < x)
      OBVIOUS
    <2>3. CASE e < d
      <3>1. ElementEnd(e) < a
        BY <1>3, <2>3, ElementsApart
      <3>2. QED
        BY <1>1, <1>4, <2>1, <3>1
    <2>4. CASE d < e
      <3>1. ElementEnd(d) < ElementWord(call, e) /\ SelfContained(v)
        BY <1>3, <2>4, ElementsApart
      <3>2. 1 <= v
        BY <1>4, <3>1 DEF SelfContained, PARAMETER_LENGTH
      <3>3. QED
        BY <1>1, <2>1, <3>1, <3>2
    <2>5. QED
      BY <2>2, <2>3, <2>4, <2>6
  <1>8. DataKept(k, a, v)'
    BY <1>4, <1>5, <1>6, <1>7, OthersStay
  <1>9. QED
    BY <1>1, <1>3, <1>8

\* When word n is before them.
LEMMA ElementsAhead ==
  ASSUME NEW w, NEW n, Takes(w, n), NEW h, NEW size, ElementsPlaced(h, size),
         NEW f, f \in {NameField, CallField}, ElementsKept(f),
         n <= h + 1 + size, DataStay(n)
  PROVE  ElementsKept(f)'
  <1>1. call' = call /\ n \in Nat /\ size = Len(call.lens)
    BY TakesType DEF ElementsPlaced
  <1>2. ASSUME NEW d \in 1 .. size, NEW k, k = [f EXCEPT !.slot = d - 1]
        PROVE  DataKept(k, ElementWord(call, d), call.lens[d])'
    <2>1. PICK a, v : a = ElementWord(call, d) /\ v = call.lens[d]
      OBVIOUS
    <2>2. a \in Nat /\ v \in Nat /\ h + 1 + size < a
      BY <2>1 DEF ElementsPlaced, ElementPlaced
    <2>3. n < a
      <3>1. h \in Nat /\ size \in Nat
        BY DEF ElementsPlaced
      <3>2. PICK b : b = h + 1 + size
        OBVIOUS
      <3>3. b \in Nat /\ n <= b /\ b < a
        BY <2>2, <3>1, <3>2
      <3>4. QED
        BY <1>1, <2>2, <3>3
    <2>4. DataKept(k, a, v)
      BY <1>1, <1>2, <2>1 DEF ElementsKept
    <2>5. DataKept(k, a, v)'
      BY <2>2, <2>3, <2>4 DEF DataStay
    <2>6. QED
      BY <1>1, <2>1, <2>5
  <1>3. ASSUME NEW d \in 1 .. size
        PROVE  DataKept([f EXCEPT !.slot = d - 1], ElementWord(call, d), call.lens[d])'
    BY <1>2
  <1>4. QED
    BY <1>1, <1>3 DEF ElementsKept

\* The length of element e comes next.
LEMMA LengthNext ==
  ASSUME NEW w, NEW n, Takes(w, n), NEW h, NEW size, ElementsPlaced(h, size),
         NEW f, f \in {NameField, CallField}, NEW p, p \in {"NAME_LENGTH", "CALL_LEN"},
         (InArray(h, p, f) \/ Trailing({}))', next_param' = p,
         NEW e \in 1 .. size, id' = e - 1, WordNumber' = ElementWord(call, e)
  PROVE  ParsesElement(h, p, f, e)'
  <1>1. call' = call /\ size = Len(call.lens) /\ size \in {1, 2, 3}
    BY TakesType DEF ElementsPlaced
  <1>2. PICK d \in 1 .. size : AtElement(h, p, f, d)'
    <2>1. ~Trailing({})'
      BY DEF Trailing
    <2>2. QED
      BY <1>1, <2>1 DEF InArray
  <1>3. d = e
    <2>1. id' = d - 1
      BY <1>2 DEF AtElement
    <2>2. d \in Int /\ e \in Int
      BY <1>1
    <2>3. QED
      BY <2>1, <2>2
  <1>4. PICK g, m : g = [f EXCEPT !.slot = e - 1] /\ m = ElementWord(call, e)
    OBVIOUS
  <1>5. Due(p, m)'
    <2>1. ~Due("OFFSETS", h + 1 + e)'
      BY DEF Due, Here
    <2>2. InElement(e, p, g)'
      BY <1>2, <1>3, <1>4, <2>1 DEF AtElement
    <2>3. p \notin {g.data, g.second, g.last}
      BY <1>4, ElementOf, FieldsType
    <2>4. /\ ~InField(g, ElementWord(call, e), call.lens[e])'
          /\ next_param' \notin {g.data, g.second, g.last}
      BY <2>3 DEF InField, Due, Here
    <2>5. QED
      BY <1>1, <1>4, <2>2, <2>4 DEF InElement
  <1>6. Sought(m, p)' /\ WordNumber' = m
    <2>1. m \in Nat
      BY <1>4 DEF ElementsPlaced, ElementPlaced
    <2>2. QED
      BY <1>4, <1>5, <2>1 DEF Due, Here, Sought, Now, Position
  <1>7. QED
    BY <1>1, <1>4, <1>6 DEF ParsesElement

(***************************************************************************)
(* A word of an array.                                                     *)
(***************************************************************************)

\* The word of an element, behind which the next one is sought, if any.
LEMMA FieldStepNext ==
  ASSUME NEW w, NEW n, Takes(w, n), NEW f, NEW a, NEW v, FieldOf(f, a, v),
         InData(f, a, v), DataKept(f, a, v), n <= a + WordsFor(v), AtOffset,
         NEW length, v > PARAMETER_LENGTH => length = v,
         NEW p, ReadField(f, length, NextElement(p))
  PROVE  /\ DataKept(f, a, v)' /\ OtherFields(f)
         /\ \/ InData(f, a, v)' /\ UNCHANGED id
            \/ n = a + WordsFor(v) /\ NextElement(p)
  BY FieldStep

\* What the handler of an array does with a word of it.
ReadsArray(w, p, f) ==
    \/ SkipToOffset
    \/ /\ AtOffset
       /\ \/ next_param \notin {"OFFSETS", p, f.data, f.second, f.last}
          \/ next_param = "OFFSETS" /\ ReadElementOffset(w, p)
          \/ next_param = p /\ ReadLength(w, id, f.data)
          \/ ReadField([f EXCEPT !.slot = id], len[id], NextElement(p))

\* Somewhere in it, or behind it.
InElements(h, p, f) == \E e \in 1 .. Len(call.lens) : ParsesElement(h, p, f, e)
PastElements == Now(Len(Encode(call)) + 1, "NONE")

\* The numbers of the elements.
LEMMA ElementNumbers ==
  ASSUME NEW h, NEW size, ElementsPlaced(h, size), NEW e \in 1 .. size
  PROVE  /\ e \in Nat /\ e <= size /\ size \in Nat /\ U8(e) = e /\ h \in Nat
         /\ U8(e - 1 + 1) = e /\ 1 \in 1 .. size
         /\ e # size => e + 1 \in 1 .. size /\ e \in 1 .. size - 1
         /\ e - 1 # size - 1 => e # size
  <1>1. e \in {1, 2, 3} /\ size \in {1, 2, 3} /\ h \in {1, 2}
    BY ElementIndex DEF ElementsPlaced
  <1>2. e <= size
    BY <1>1
  <1>3. \A x, y \in {1, 2, 3} : x <= y =>
          /\ U8(x) = x /\ U8(x - 1 + 1) = x /\ 1 \in 1 .. y
          /\ x # y => x + 1 \in 1 .. y /\ x \in 1 .. y - 1
          /\ x - 1 # y - 1 => x # y
    <2>1. \A x \in {1, 2, 3} : U8(x) = x /\ x - 1 + 1 = x
      <3>1. U8(1) = 1 /\ U8(2) = 2 /\ U8(3) = 3
        BY DEF U8, UINT8_MAX
      <3>2. QED
        BY <3>1
    <2>2. \A x, y \in {1, 2, 3} : x <= y => 1 \in 1 .. y
      OBVIOUS
    <2>3. \A x, y \in {1, 2, 3} : x <= y =>
            /\ x # y => x + 1 \in 1 .. y /\ x \in 1 .. y - 1
            /\ x - 1 # y - 1 => x # y
      OBVIOUS
    <2>4. QED
      BY <2>1, <2>2, <2>3
  <1>4. QED
    BY <1>1, <1>2, <1>3

\* The offset of element e is saved.
LEMMA OffsetShown ==
  ASSUME NEW w, NEW n, Takes(w, n), NEW h, NEW size, ElementsPlaced(h, size),
         NEW f, f \in {NameField, CallField}, ElementsKept(f),
         NEW p, p \in {"NAME_LENGTH", "CALL_LEN"}, count = size,
         NEW e \in 1 .. size, id = e - 1, Now(h + 1 + e, "OFFSETS"),
         ReadsArray(w, p, f), (InArray(h, p, f) \/ Trailing({}))'
  PROVE  InElements(h, p, f)' /\ ElementsKept(f)' /\ UNCHANGED <<statics, count>>
  <1>1. n = h + 1 + e /\ next_param = "OFFSETS" /\ AtOffset /\ ~SkipToOffset
    BY NowStep
  <1>2. /\ call' = call /\ n \in Nat /\ result' = "OK" /\ WordNumber' = n + 1
        /\ size = Len(call.lens)
    BY TakesType DEF Takes, ElementsPlaced
  <1>3. /\ e \in Nat /\ e <= size /\ size \in Nat /\ h \in Nat
        /\ U8(e - 1 + 1) = e /\ 1 \in 1 .. size
        /\ e # size => e + 1 \in 1 .. size
    BY ElementNumbers
  <1>4. ReadElementOffset(w, p)
    <2>1. ~ReadField([f EXCEPT !.slot = id], len[id], NextElement(p))
      <3>1. /\ [f EXCEPT !.slot = id].data = f.data /\ [f EXCEPT !.slot = id].second = f.second
            /\ [f EXCEPT !.slot = id].last = f.last
        BY DEF NameField, CallField
      <3>2. next_param \notin {f.data, f.second, f.last}
        BY <1>1, FieldsType
      <3>3. QED
        BY <3>1, <3>2 DEF ReadField
    <2>2. next_param # p /\ next_param \in {"OFFSETS", p, f.data, f.second, f.last}
      BY <1>1
    <2>3. QED
      BY <1>1, <2>1, <2>2 DEF ReadsArray
  <1>5. /\ UNCHANGED <<statics, len, text, ellipsis, count>>
        /\ \/ U8(id + 1) # count /\ id' = U8(id + 1) /\ Advance("OFFSETS")
           \/ /\ U8(id + 1) = count /\ id' = 0 /\ next_param' = p
    <2>1. ~Refuse
      BY <1>2 DEF Refuse
    <2>2. QED
      BY <1>4, <2>1 DEF ReadElementOffset, Seek
  <1>6. ElementsKept(f)'
    <2>1. DataStay(n)
      BY <1>5, Unmoved
    <2>2. n <= h + 1 + size
      BY <1>1, <1>3
    <2>3. QED
      BY <2>1, <2>2, ElementsAhead
  <1>7. U8(id + 1) = e
    BY <1>3
  <1>8. CASE e # size /\ id' = e /\ Advance("OFFSETS")
    <2>1. Now(n + 1, "OFFSETS")'
      BY <1>8, AdvanceStep
    <2>2. PICK d \in 1 .. size : d = e + 1
      BY <1>3, <1>8
    <2>3. n + 1 = h + 1 + d /\ d - 1 = e
      BY <1>1, <1>3, <2>2
    <2>4. Now(h + 1 + d, "OFFSETS")' /\ id' = d - 1
      BY <1>8, <2>1, <2>3
    <2>5. ParsesElement(h, p, f, d)'
      BY <2>4 DEF ParsesElement
    <2>6. QED
      BY <1>2, <1>5, <1>6, <2>5 DEF InElements
  <1>9. CASE e = size /\ id' = 0 /\ next_param' = p
    <2>1. WordNumber' = ElementWord(call, 1)
      <3>1. n = h + 1 + size
        BY <1>1, <1>9
      <3>2. QED
        BY <1>2, <3>1 DEF ElementsPlaced
    <2>2. id' = 1 - 1
      BY <1>9
    <2>3. ParsesElement(h, p, f, 1)'
      BY <1>3, <1>9, <2>1, <2>2, LengthNext
    <2>4. QED
      BY <1>2, <1>3, <1>5, <1>6, <2>3 DEF InElements
  <1>10. QED
    BY <1>5, <1>7, <1>8, <1>9

\* The length of element e is read.
LEMMA ElementLengthShown ==
  ASSUME NEW w, NEW n, Takes(w, n), NEW h, NEW size, ElementsPlaced(h, size),
         NEW f, f \in {NameField, CallField}, ElementsKept(f),
         NEW p, p \in {"NAME_LENGTH", "CALL_LEN"}, count = size,
         NEW e \in 1 .. size, id = e - 1,
         WordNumber = ElementWord(call, e), Sought(ElementWord(call, e), p),
         ReadsArray(w, p, f)
  PROVE  InElements(h, p, f)' /\ ElementsKept(f)' /\ UNCHANGED <<statics, count>>
  <1>1. PICK g, m, v : /\ g = [f EXCEPT !.slot = e - 1]
                       /\ m = ElementWord(call, e) /\ v = call.lens[e]
    OBVIOUS
  <1>2. /\ call' = call /\ n \in Nat /\ WordNumber = n /\ size = Len(call.lens)
        /\ m = ElementWord(call', e) /\ v = call'.lens[e]
    BY <1>1, TakesType DEF ElementsPlaced
  <1>3. /\ m \in Nat /\ v \in Nat /\ v <= UINT16_MAX /\ Encode(call)[m] = Quantity(v)
        /\ m <= ElementEnd(e)
    BY <1>1 DEF ElementsPlaced, ElementPlaced
  <1>4. /\ FieldOf(g, m, v) /\ g.slot = e - 1 /\ Field(g)
        /\ g.data = f.data /\ g.second = f.second /\ g.last = f.last
    <2>1. /\ FieldOf(g, ElementWord(call, e), call.lens[e])
          /\ g.slot = e - 1 /\ g.data = f.data /\ g.second = f.second /\ g.last = f.last
      BY <1>1, ElementOf
    <2>2. QED
      BY <1>1, <2>1 DEF FieldOf
  <1>5. n = m /\ next_param = p /\ ~SkipToOffset
    <2>1. n = m
      BY <1>1, <1>2
    <2>2. next_param = p /\ (SkipToOffset => n < m)
      BY <1>1, <1>3, SoughtStep
    <2>3. QED
      BY <1>2, <2>1, <2>2
  <1>6. ReadLength(w, g.slot, f.data)
    <2>1. ~ReadField([f EXCEPT !.slot = id], len[id], NextElement(p))
      <3>1. /\ [f EXCEPT !.slot = id].data = f.data /\ [f EXCEPT !.slot = id].second = f.second
            /\ [f EXCEPT !.slot = id].last = f.last
        BY DEF NameField, CallField
      <3>2. next_param \notin {f.data, f.second, f.last}
        BY <1>5, FieldsType
      <3>3. QED
        BY <3>1, <3>2 DEF ReadField
    <2>2. next_param # "OFFSETS" /\ next_param \in {"OFFSETS", p, f.data, f.second, f.last}
      BY <1>5
    <2>3. ReadLength(w, id, f.data)
      BY <1>5, <2>1, <2>2 DEF ReadsArray
    <2>4. QED
      BY <1>4, <2>3
  <1>7. DataKept(g, m, v)
    <2>1. DataKept([f EXCEPT !.slot = e - 1], ElementWord(call, e), call.lens[e])
      BY <1>2 DEF ElementsKept
    <2>2. QED
      BY <1>1, <2>1
  <1>8. /\ DataKept(g, m, v)' /\ Now(m + 1, g.data)'
        /\ \A k \in Slots \ {g.slot} : len'[k] = len[k]
        /\ UNCHANGED <<statics, text, ellipsis, count, id>>
    BY <1>3, <1>4, <1>5, <1>6, <1>7, LengthTaken
  <1>9. ElementsKept(f)'
    <2>1. OtherSlots(g)
      BY <1>8 DEF OtherSlots
    <2>2. ElementWord(call, e) <= n /\ n <= ElementEnd(e)
      BY <1>1, <1>2, <1>3, <1>5
    <2>3. DataKept(g, ElementWord(call, e), call.lens[e])'
      BY <1>1, <1>2, <1>8
    <2>4. QED
      BY <1>1, <2>1, <2>2, <2>3, ElementsStay
  <1>10. InData(g, m, v)'
    BY <1>8 DEF InData
  <1>11. ParsesElement(h, p, f, e)'
    BY <1>1, <1>2, <1>8, <1>10 DEF ParsesElement
  <1>12. QED
    BY <1>2, <1>8, <1>9, <1>11 DEF InElements

\* A word of the data of element e.
LEMMA ElementDataShown ==
  ASSUME NEW w, NEW n, Takes(w, n), NEW h, NEW size, ElementsPlaced(h, size),
         NEW f, f \in {NameField, CallField}, ElementsKept(f),
         NEW p, p \in {"NAME_LENGTH", "CALL_LEN"}, count = size,
         NEW e \in 1 .. size, id = e - 1, NEW g, g = [f EXCEPT !.slot = e - 1],
         InData(g, ElementWord(call, e), call.lens[e]),
         ReadsArray(w, p, f), (InArray(h, p, f) \/ Trailing({}))'
  PROVE  /\ InElements(h, p, f)' \/ PastElements'
         /\ ElementsKept(f)' /\ UNCHANGED <<statics, count>>
  <1>1. PICK m, v : m = ElementWord(call, e) /\ v = call.lens[e]
    OBVIOUS
  <1>2. /\ call' = call /\ n \in Nat /\ WordNumber = n /\ WordNumber' = n + 1
        /\ size = Len(call.lens) /\ n <= Len(Encode(call))
        /\ m = ElementWord(call', e) /\ v = call'.lens[e]
    BY <1>1, TakesType DEF ElementsPlaced
  <1>3. /\ m \in Nat /\ m <= ElementEnd(e) /\ ElementEnd(e) \in Nat
        /\ ElementEnd(e) = m + WordsFor(v)
    BY <1>1 DEF ElementsPlaced, ElementPlaced, ElementEnd
  <1>4. /\ FieldOf(g, m, v) /\ g.slot = e - 1 /\ v \in Nat
        /\ g.data = f.data /\ g.second = f.second /\ g.last = f.last
    <2>1. /\ FieldOf(g, ElementWord(call, e), call.lens[e])
          /\ g.slot = e - 1 /\ g.data = f.data /\ g.second = f.second /\ g.last = f.last
      BY ElementOf
    <2>2. QED
      BY <1>1, <2>1 DEF FieldOf
  <1>5. InData(g, m, v)
    BY <1>1
  <1>6. DataKept(g, m, v)
    <2>1. DataKept([f EXCEPT !.slot = e - 1], ElementWord(call, e), call.lens[e])
      BY <1>2 DEF ElementsKept
    <2>2. QED
      BY <1>1, <2>1
  <1>7. m < n
    BY <1>3, <1>5, DataBegun
  <1>8. /\ e \in Nat /\ e <= size /\ size \in Nat /\ U8(e - 1 + 1) = e
        /\ e # size => e + 1 \in 1 .. size /\ e \in 1 .. size - 1
        /\ e - 1 # size - 1 => e # size
    BY ElementNumbers
  <1>9. n <= m + WordsFor(v)
    <2>1. CASE e = size
      BY <1>2, <1>3, <2>1 DEF ElementsPlaced
    <2>2. CASE e # size
      <3>1. SelfContained(v)
        BY <1>1, <1>8, <2>2 DEF ElementsPlaced
      <3>2. QED
        BY <1>4, <1>5, <3>1, DataWithin
    <2>3. QED
      BY <2>1, <2>2
  <1>10. ASSUME DataKept(g, m, v)', OtherSlots(g) \/ OtherFields(g)
         PROVE  ElementsKept(f)' /\ UNCHANGED <<statics, count>>
    <2>1. ElementWord(call, e) <= n /\ n <= ElementEnd(e)
      BY <1>1, <1>2, <1>3, <1>7, <1>9
    <2>2. DataKept(g, ElementWord(call, e), call.lens[e])'
      BY <1>1, <1>2, <1>10
    <2>3. ElementsKept(f)'
      BY <1>10, <2>1, <2>2, ElementsStay
    <2>4. QED
      BY <1>10, <2>3 DEF OtherSlots, OtherFields
  <1>11. ASSUME InData(g, m, v)', UNCHANGED id
         PROVE  InElements(h, p, f)'
    <2>1. ParsesElement(h, p, f, e)'
      BY <1>1, <1>2, <1>11 DEF ParsesElement
    <2>2. QED
      BY <1>2, <2>1 DEF InElements
  <1>12. CASE SkipToOffset
    <2>1. DataKept(g, m, v)' /\ InData(g, m, v)'
      BY <1>4, <1>5, <1>6, <1>12, FieldSkipped
    <2>2. OtherSlots(g)
      BY <1>12 DEF SkipToOffset, fields, OtherSlots
    <2>3. QED
      BY <1>10, <1>11, <2>1, <2>2 DEF OtherSlots
  <1>13. CASE ~SkipToOffset
    <2>1. AtOffset /\ ReadField(g, len[g.slot], NextElement(p))
      <3>1. [f EXCEPT !.slot = id] = g
        OBVIOUS
      <3>2. next_param \in {f.data, f.second, f.last}
        BY <1>4, <1>5, DataParam
      <3>3. next_param # "OFFSETS" /\ next_param # p
        BY <3>2, FieldsType
      <3>4. AtOffset /\ ReadField([f EXCEPT !.slot = id], len[id], NextElement(p))
        BY <1>13, <3>2, <3>3 DEF ReadsArray
      <3>5. QED
        BY <1>4, <3>1, <3>4
    <2>2. len[g.slot] = v
      <3>1. FieldOf(g, m, v) /\ m < n /\ DataKept(g, m, v)
        BY <1>4, <1>6, <1>7
      <3>2. QED
        BY <3>1, FieldLength
    <2>3. /\ DataKept(g, m, v)' /\ OtherFields(g)
          /\ \/ InData(g, m, v)' /\ UNCHANGED id
             \/ n = m + WordsFor(v) /\ NextElement(p)
      BY <1>4, <1>5, <1>6, <1>9, <2>1, <2>2, FieldStepNext
    <2>4. CASE InData(g, m, v)' /\ UNCHANGED id
      BY <1>10, <1>11, <2>3, <2>4
    <2>5. CASE n = m + WordsFor(v) /\ NextElement(p)
      <3>1. n = ElementEnd(e)
        BY <1>3, <2>5
      <3>2. CASE id = count - 1 /\ Advance("NONE")
        <4>1. e = size
          BY <1>8, <3>2
        <4>2. n = Len(Encode(call))
          BY <3>1, <4>1 DEF ElementsPlaced
        <4>3. Now(n + 1, "NONE")'
          BY <3>2, AdvanceStep
        <4>4. PastElements'
          BY <1>2, <4>2, <4>3 DEF PastElements
        <4>5. QED
          BY <1>10, <2>3, <4>4
      <3>3. CASE id # count - 1 /\ id' = U8(id + 1) /\ next_param' = p
        <4>1. e # size /\ id' = e
          BY <1>8, <3>3
        <4>2. PICK d \in 1 .. size : d = e + 1
          BY <1>8, <4>1
        <4>3. id' = d - 1
          BY <1>8, <4>1, <4>2
        <4>4. WordNumber' = ElementWord(call, d)
          BY <1>2, <1>8, <3>1, <4>1, <4>2 DEF ElementsPlaced
        <4>5. ParsesElement(h, p, f, d)'
          BY <3>3, <4>3, <4>4, LengthNext
        <4>6. InElements(h, p, f)'
          BY <1>2, <4>5 DEF InElements
        <4>7. QED
          BY <1>10, <2>3, <4>6
      <3>4. QED
        BY <2>5, <3>2, <3>3 DEF NextElement, Seek
    <2>6. QED
      BY <2>3, <2>4, <2>5
  <1>14. QED
    BY <1>12, <1>13

\* A word of an array.
LEMMA ElementShown ==
  ASSUME NEW w, NEW n, Takes(w, n), NEW h, NEW size, ElementsPlaced(h, size),
         NEW f, f \in {NameField, CallField}, ElementsKept(f),
         NEW p, p \in {"NAME_LENGTH", "CALL_LEN"}, count = size,
         InElements(h, p, f), ReadsArray(w, p, f), (InArray(h, p, f) \/ Trailing({}))'
  PROVE  /\ InElements(h, p, f)' \/ PastElements'
         /\ ElementsKept(f)' /\ UNCHANGED <<statics, count>>
  <1>1. PICK e \in 1 .. size : ParsesElement(h, p, f, e)
    BY DEF InElements, ElementsPlaced
  <1>2. PICK g : g = [f EXCEPT !.slot = e - 1]
    OBVIOUS
  <1>3. /\ id = e - 1
        /\ \/ Now(h + 1 + e, "OFFSETS")
           \/ WordNumber = ElementWord(call, e) /\ Sought(ElementWord(call, e), p)
           \/ InData(g, ElementWord(call, e), call.lens[e])
    BY <1>1, <1>2 DEF ParsesElement
  <1>4. CASE Now(h + 1 + e, "OFFSETS")
    BY <1>3, <1>4, OffsetShown
  <1>5. CASE WordNumber = ElementWord(call, e) /\ Sought(ElementWord(call, e), p)
    BY <1>3, <1>5, ElementLengthShown
  <1>6. CASE InData(g, ElementWord(call, e), call.lens[e])
    BY <1>2, <1>3, <1>6, ElementDataShown
  <1>7. QED
    BY <1>3, <1>4, <1>5, <1>6

\* A word behind the number of elements.
LEMMA ArrayShown ==
  ASSUME NEW w, NEW n, Takes(w, n), NEW h, NEW size, ElementsPlaced(h, size),
         NEW f, f \in {NameField, CallField}, NEW p, p \in {"NAME_LENGTH", "CALL_LEN"},
         ParsesArray(h, p, f), h + 1 < n,
         ReadsArray(w, p, f), (InArray(h, p, f) \/ Trailing({}))'
  PROVE  ParsesArray(h, p, f)' /\ UNCHANGED statics
  <1>1. /\ n \in Nat /\ WordNumber = n /\ WordNumber' = n + 1 /\ call' = call
        /\ n <= Len(Encode(call)) /\ Len(Encode(call)) \in Nat /\ size = Len(call.lens)
        /\ h \in Nat
    <2>1. h \in Nat /\ size = Len(call.lens)
      BY DEF ElementsPlaced
    <2>2. QED
      BY <2>1, TakesType
  <1>2. /\ ~(n <= h + 1) /\ h + 1 < n + 1 /\ n # Len(Encode(call)) + 1
    BY <1>1
  <1>3. count = size /\ ElementsKept(f) /\ InElements(h, p, f)
    BY <1>1, <1>2 DEF ParsesArray, InElements, Now
  <1>4. /\ InElements(h, p, f)' \/ PastElements'
        /\ ElementsKept(f)' /\ UNCHANGED <<statics, count>>
    BY <1>3, ElementShown
  <1>5. ParsesArray(h, p, f)'
    BY <1>1, <1>2, <1>3, <1>4 DEF ParsesArray, InElements, PastElements
  <1>6. QED
    BY <1>4, <1>5

\* One before it.
LEMMA ArrayAhead ==
  ASSUME NEW w, NEW n, Takes(w, n), NEW h, NEW size, ElementsPlaced(h, size),
         NEW f, f \in {NameField, CallField}, NEW p,
         ParsesArray(h, p, f), n <= h, DataStay(n), UNCHANGED count
  PROVE  ParsesArray(h, p, f)'
  <1>1. /\ n \in Nat /\ WordNumber = n /\ WordNumber' = n + 1 /\ h \in Nat /\ size \in Nat
    <2>1. h \in Nat /\ size \in {1, 2, 3}
      BY DEF ElementsPlaced
    <2>2. QED
      BY <2>1, TakesType
  <1>2. ~(h + 1 < n) /\ ~(h + 1 < n + 1) /\ n + 1 <= h + 1 /\ n <= h + 1 + size
    BY <1>1
  <1>3. ElementsKept(f)'
    BY <1>2, ElementsAhead DEF ParsesArray
  <1>4. QED
    BY <1>1, <1>2, <1>3 DEF ParsesArray

\* The number of elements.
LEMMA CountShown ==
  ASSUME NEW w, NEW n, Takes(w, n), NEW h, NEW size, ElementsPlaced(h, size),
         NEW f, f \in {NameField, CallField}, NEW p,
         ParsesArray(h, p, f), n = h + 1, id = 0, NEW limit, ReadCount(w, limit),
         (InArray(h, p, f) \/ Trailing({}))'
  PROVE  ParsesArray(h, p, f)' /\ UNCHANGED statics
  <1>1. /\ n \in Nat /\ WordNumber' = n + 1 /\ h \in Nat /\ size \in {1, 2, 3}
        /\ call' = call /\ size = Len(call.lens) /\ result' = "OK"
    <2>1. h \in Nat /\ size \in {1, 2, 3} /\ size = Len(call.lens)
      BY DEF ElementsPlaced
    <2>2. QED
      BY <2>1, TakesType DEF Takes
  <1>7. h + 1 < n + 1 /\ 1 \in 1 .. size /\ n <= h + 1 + size
    <2>1. \A x \in Nat, y \in {1, 2, 3} :
            x + 1 < x + 1 + 1 /\ 1 \in 1 .. y /\ x + 1 <= x + 1 + y
      OBVIOUS
    <2>2. QED
      BY <1>1, <2>1
  <1>2. UNCHANGED <<statics, len, text, ellipsis, id>> /\ Advance("OFFSETS")
    <2>1. ~Refuse
      BY <1>1 DEF Refuse
    <2>2. QED
      BY <2>1 DEF ReadCount
  <1>3. Now(n + 1, "OFFSETS")'
    BY <1>2, AdvanceStep
  <1>4. count' = size
    <2>1. ~Trailing({})'
      BY <1>3 DEF Trailing, Now
    <2>2. InArray(h, p, f)'
      BY <2>1
    <2>3. QED
      BY <1>1, <2>2 DEF InArray, AtElement
  <1>5. ElementsKept(f)'
    <2>1. DataStay(n)
      BY <1>2, Unmoved
    <2>2. n <= h + 1 + size
      BY <1>1, <1>7
    <2>3. QED
      BY <2>1, <2>2, ElementsAhead DEF ParsesArray
  <1>6. ParsesElement(h, p, f, 1)'
    <2>1. n + 1 = h + 1 + 1 /\ id' = 1 - 1
      BY <1>1, <1>2
    <2>2. Now(h + 1 + 1, "OFFSETS")'
      BY <1>3, <2>1
    <2>3. QED
      BY <2>1, <2>2 DEF ParsesElement
  <1>8. QED
    BY <1>1, <1>2, <1>4, <1>5, <1>6, <1>7 DEF ParsesArray

\* renewAll.
LEMMA RenewAllShown ==
  ASSUME NEW w, NEW n, Takes(w, n), call.selector = "e8d6dbb4", OnRenewAll',
         ParsesRenewAll, handle_renew_all(w)
  PROVE  ParsesRenewAll'
  <1>1. PICK h, size : h = Len(Signature(call.selector)) /\ size = Len(call.lens)
    OBVIOUS
  <1>2. ElementsPlaced(h, size) /\ h = 2
    <2>1. call.selector \in OneArray
      BY DEF OneArray
    <2>2. ElementsPlaced(h, size)
      BY <1>1, <2>1, ArrayFields
    <2>3. h = 2
      BY <1>1, <2>1, ElementPlaces DEF Takes
    <2>4. QED
      BY <2>2, <2>3
  <1>3. ElementsPlaced(2, size) /\ NameField \in {NameField, CallField}
        /\ "NAME_LENGTH" \in {"NAME_LENGTH", "CALL_LEN"}
    BY <1>2
  <1>4. /\ n \in Nat /\ WordNumber = n /\ WordNumber' = n + 1
    BY TakesType
  <1>5. /\ n <= 3 => id = 0 /\ (Now(1, "NAME_OFFSET") \/ Now(2, "DURATION") \/ Now(3, "N_NAME"))
        /\ ParsesArray(2, "NAME_LENGTH", NameField)
        /\ WordKept("duration", 2, 0)
    BY <1>4 DEF ParsesRenewAll
  <1>6. 3 <= n => (InArray(2, "NAME_LENGTH", NameField) \/ Trailing({}))'
    <2>1. ASSUME 3 <= n, NEW i \in 1 .. 3, NEW q
          PROVE  ~Due(q, i)'
      <3>1. ~(n + 1 <= i)
        BY <1>4, <2>1
      <3>2. n + 1 \in Int /\ i \in Int
        BY <1>4
      <3>3. n + 1 # i
        BY <3>1, <3>2
      <3>4. QED
        BY <1>4, <3>1, <3>3 DEF Due, Here
    <2>2. 3 <= n => ~Due("NAME_OFFSET", 1)' /\ ~Due("DURATION", 2)' /\ ~Due("N_NAME", 3)'
      BY <2>1
    <2>3. QED
      BY <2>2 DEF OnRenewAll
  <1>7. ~SkipToOffset => AtOffset
    BY DEF handle_renew_all
  <1>8. CASE Now(1, "NAME_OFFSET")
    <2>1. n = 1 /\ next_param = "NAME_OFFSET" /\ ~SkipToOffset
      BY <1>8, NowStep
    <2>2. SaveArrayOffset(w, "DURATION")
      BY <2>1 DEF handle_renew_all, IgnoreWord, ReadField, NameElement, NameField
    <2>3. Now(n + 1, "DURATION")' /\ DataStay(n) /\ (\A f : WordsStay(f, n)) /\ UNCHANGED <<count, id>>
      BY <2>2, OffsetStep
    <2>4. ParsesArray(2, "NAME_LENGTH", NameField)'
      BY <1>3, <1>5, <2>1, <2>3, ArrayAhead
    <2>5. WordKept("duration", 2, 0)'
      <3>1. WordsStay("", n)
        BY <2>3
      <3>2. QED
        BY <1>5, <2>1, <3>1 DEF WordsStay, Statics
    <2>6. QED
      BY <1>4, <1>5, <2>1, <2>3, <2>4, <2>5 DEF ParsesRenewAll
  <1>9. CASE Now(2, "DURATION")
    <2>1. n = 2 /\ next_param = "DURATION" /\ ~SkipToOffset
      BY <1>9, NowStep
    <2>2. CopyWord(w, "duration", 0) /\ Advance("N_NAME")
      BY <2>1 DEF handle_renew_all, IgnoreWord, ReadField, NameElement, NameField, CopyParameter
    <2>3. /\ Now(n + 1, "N_NAME")' /\ WordKept("duration", n, 0)' /\ DataStay(n)
          /\ UNCHANGED <<count, id>>
      <3>1. "duration" \in Statics
        BY DEF Statics
      <3>2. QED
        BY <2>2, <3>1, WordStep
    <2>4. ParsesArray(2, "NAME_LENGTH", NameField)'
      BY <1>3, <1>5, <2>1, <2>3, ArrayAhead
    <2>5. QED
      BY <1>4, <1>5, <2>1, <2>3, <2>4 DEF ParsesRenewAll
  <1>10. CASE Now(3, "N_NAME")
    <2>1. n = 3 /\ next_param = "N_NAME" /\ ~SkipToOffset
      BY <1>10, NowStep
    <2>2. ReadCount(w, 2)
      BY <2>1 DEF handle_renew_all, IgnoreWord, ReadField, NameElement, NameField
    <2>3. n = 2 + 1 /\ 3 <= n /\ id = 0
      BY <1>5, <2>1
    <2>4. ParsesArray(2, "NAME_LENGTH", NameField)' /\ UNCHANGED statics
      BY <1>3, <1>5, <1>6, <2>2, <2>3, CountShown
    <2>5. WordKept("duration", 2, 0)'
      <3>1. WordsStay("", n)
        BY <2>4, SameWords
      <3>2. QED
        BY <1>5, <2>1, <3>1 DEF WordsStay, Statics
    <2>6. QED
      BY <1>4, <2>1, <2>4, <2>5 DEF ParsesRenewAll
  <1>11. CASE 3 < n
    <2>1. 2 + 1 < n /\ 3 <= n /\ n # 2 /\ ~(n + 1 <= 3)
      BY <1>4, <1>11
    <2>2. ReadsArray(w, "NAME_LENGTH", NameField)
      <3>1. NameElement = [NameField EXCEPT !.slot = id]
        BY DEF NameElement
      <3>2. NameField.data = "NAME" /\ NameField.second = "NAME_OFFSET_1"
            /\ NameField.last = "NAME_OFFSET_2"
        BY FieldsType
      <3>3. QED
        BY <3>1, <3>2 DEF handle_renew_all, ReadsArray, IgnoreWord
    <2>3. ParsesArray(2, "NAME_LENGTH", NameField)' /\ UNCHANGED statics
      BY <1>3, <1>5, <1>6, <2>1, <2>2, ArrayShown
    <2>4. WordKept("duration", 2, 0)'
      <3>1. WordsStay("", n)
        BY <2>3, SameWords
      <3>2. QED
        BY <1>5, <2>1, <3>1 DEF WordsStay, Statics
    <2>5. QED
      BY <1>4, <2>1, <2>3, <2>4 DEF ParsesRenewAll
  <1>12. n <= 3 \/ 3 < n
    BY <1>4
  <1>13. QED
    BY <1>5, <1>8, <1>9, <1>10, <1>11, <1>12

\* multicall.
LEMMA MulticallShown ==
  ASSUME NEW w, NEW n, Takes(w, n), call.selector = "ac9650d8", OnMulticall',
         ParsesMulticall, handle_multicall(w)
  PROVE  ParsesMulticall'
  <1>1. PICK h, size : h = Len(Signature(call.selector)) /\ size = Len(call.lens)
    OBVIOUS
  <1>2. ElementsPlaced(h, size) /\ h = 1
    <2>1. call.selector \in OneArray /\ call.selector # "e8d6dbb4"
      BY DEF OneArray
    <2>2. ElementsPlaced(h, size)
      BY <1>1, <2>1, ArrayFields
    <2>3. h = 1
      BY <1>1, <2>1, ElementPlaces DEF Takes
    <2>4. QED
      BY <2>2, <2>3
  <1>3. ElementsPlaced(1, size) /\ CallField \in {NameField, CallField}
        /\ "CALL_LEN" \in {"NAME_LENGTH", "CALL_LEN"}
    BY <1>2
  <1>4. /\ n \in Nat /\ WordNumber = n /\ WordNumber' = n + 1
    BY TakesType
  <1>5. /\ n <= 2 => id = 0 /\ (Now(1, "CALL_OFFSET") \/ Now(2, "N_CALL"))
        /\ ParsesArray(1, "CALL_LEN", CallField)
    BY <1>4 DEF ParsesMulticall
  <1>6. 2 <= n => (InArray(1, "CALL_LEN", CallField) \/ Trailing({}))'
    <2>1. ASSUME 2 <= n, NEW i \in 1 .. 2, NEW q
          PROVE  ~Due(q, i)'
      <3>1. ~(n + 1 <= i)
        BY <1>4, <2>1
      <3>2. n + 1 \in Int /\ i \in Int
        BY <1>4
      <3>3. n + 1 # i
        BY <3>1, <3>2
      <3>4. QED
        BY <1>4, <3>1, <3>3 DEF Due, Here
    <2>2. 2 <= n => ~Due("CALL_OFFSET", 1)' /\ ~Due("N_CALL", 2)'
      BY <2>1
    <2>3. QED
      BY <2>2 DEF OnMulticall
  <1>7. ReadField(CallElement, len[id], NextElement("CALL_LEN"))
          => next_param \in {"CALL", "CALL_1", "CALL_2"}
    BY DEF ReadField, CallElement
  <1>8. CASE Now(1, "CALL_OFFSET")
    <2>1. n = 1 /\ next_param = "CALL_OFFSET" /\ ~SkipToOffset
      BY <1>8, NowStep
    <2>2. SaveArrayOffset(w, "N_CALL")
      BY <1>7, <2>1 DEF handle_multicall, IgnoreWord
    <2>3. Now(n + 1, "N_CALL")' /\ DataStay(n) /\ UNCHANGED <<count, id>>
      BY <2>2, OffsetStep
    <2>4. ParsesArray(1, "CALL_LEN", CallField)'
      BY <1>3, <1>5, <2>1, <2>3, ArrayAhead
    <2>5. QED
      BY <1>4, <1>5, <2>1, <2>3, <2>4 DEF ParsesMulticall
  <1>9. CASE Now(2, "N_CALL")
    <2>1. n = 2 /\ next_param = "N_CALL" /\ ~SkipToOffset
      BY <1>9, NowStep
    <2>2. ReadCount(w, 3)
      BY <1>7, <2>1 DEF handle_multicall, IgnoreWord
    <2>3. n = 1 + 1 /\ 2 <= n /\ id = 0
      BY <1>5, <2>1
    <2>4. ParsesArray(1, "CALL_LEN", CallField)'
      BY <1>3, <1>5, <1>6, <2>2, <2>3, CountShown
    <2>5. QED
      BY <1>4, <2>1, <2>4 DEF ParsesMulticall
  <1>10. CASE 2 < n
    <2>1. 1 + 1 < n /\ 2 <= n /\ ~(n + 1 <= 2)
      BY <1>4, <1>10
    <2>2. ReadsArray(w, "CALL_LEN", CallField)
      <3>1. ReadField(CallElement, len[id], NextElement("CALL_LEN"))
              => ReadField([CallField EXCEPT !.slot = id], len[id], NextElement("CALL_LEN"))
        BY SameElement
      <3>2. CallField.data = "CALL" /\ CallField.second = "CALL_1" /\ CallField.last = "CALL_2"
        BY FieldsType
      <3>3. QED
        BY <3>1, <3>2 DEF handle_multicall, ReadsArray, IgnoreWord
    <2>3. ParsesArray(1, "CALL_LEN", CallField)'
      BY <1>3, <1>5, <1>6, <2>1, <2>2, ArrayShown
    <2>4. QED
      BY <1>4, <2>1, <2>3 DEF ParsesMulticall
  <1>11. n <= 2 \/ 2 < n
    BY <1>4
  <1>12. QED
    BY <1>5, <1>8, <1>9, <1>10, <1>11

(***************************************************************************)
(* A word of the calldata.                                                 *)
(***************************************************************************)

\* Every switch case keeps the shape of the buffers.
LEMMA BuffersOfCase ==
  ASSUME Buffers, NEW w
  PROVE  /\ SkipToOffset => Buffers'
         /\ IgnoreWord => Buffers'
         /\ Refuse => Buffers'
         /\ \A f, b : CopyWord(w, f, b) => Buffers'
         /\ \A k, p : SaveOffset(w, k, p) => Buffers'
         /\ \A k, p : SaveOffsetAnyway(w, k, p) => Buffers'
         /\ \A p : SaveArrayOffset(w, p) => Buffers'
         /\ \A k, p : ReadLength(w, k, p) => Buffers'
         /\ \A n : ReadCount(w, n) => Buffers'
         /\ \A p : ReadElementOffset(w, p) => Buffers'
  <1>1. UNCHANGED <<text, ellipsis>> => Buffers'
    BY DEF Buffers
  <1>2. Refuse => UNCHANGED <<text, ellipsis>>
    BY DEF Refuse, fields
  <1>3. SkipToOffset \/ IgnoreWord => UNCHANGED <<text, ellipsis>>
    BY DEF SkipToOffset, IgnoreWord, fields
  <1>4. \A f, b : CopyWord(w, f, b) => UNCHANGED <<text, ellipsis>>
    BY DEF CopyWord
  <1>5. \A k, p : SaveOffset(w, k, p) \/ SaveOffsetAnyway(w, k, p) => UNCHANGED <<text, ellipsis>>
    BY <1>2 DEF SaveOffset, SaveOffsetAnyway
  <1>6. \A p : SaveArrayOffset(w, p) \/ ReadElementOffset(w, p) => UNCHANGED <<text, ellipsis>>
    BY <1>2 DEF SaveArrayOffset, ReadElementOffset
  <1>7. \A k, p : ReadLength(w, k, p) => UNCHANGED <<text, ellipsis>>
    BY <1>2 DEF ReadLength
  <1>8. \A n : ReadCount(w, n) => UNCHANGED <<text, ellipsis>>
    BY <1>2 DEF ReadCount
  <1>9. QED
    BY <1>1, <1>2, <1>3, <1>4, <1>5, <1>6, <1>7, <1>8

LEMMA BuffersOfField ==
  ASSUME Buffers, NEW w
  PROVE  /\ \A f, p : CopyParameter(w, f, p) \/ CopyAddress(w, f, p) => Buffers'
         /\ \A o, k, p : ReadLengthAt(o, w, k, p) => Buffers'
         /\ \A o : ReadInputs(o, w) => Buffers'
  BY BuffersOfCase DEF CopyParameter, CopyAddress, ReadLengthAt, ReadInputs

LEMMA BuffersOfRead ==
  ASSUME Buffers, NEW f, NEW length, NEW ACTION Done, ReadField(f, length, Done)
  PROVE  Buffers'
  <1>1. ReadShort(f, Done) \/ ReadLong(f, length) \/ ReadSecondLast(f) \/ ReadLast(f, Done)
    BY DEF ReadField
  <1>2. /\ (\E b : text' = [text EXCEPT ![f.slot] = b])
        /\ (\E b : ellipsis' = [ellipsis EXCEPT ![f.slot] = b]) \/ ellipsis' = ellipsis
    BY <1>1 DEF ReadShort, ReadLong, ReadSecondLast, ReadLast
  <1>3. QED
    BY <1>2 DEF Buffers

\* And so do the handlers.
LEMMA BuffersOfHandler ==
  ASSUME Buffers, NEW w, handle_provide_parameter(w)
  PROVE  Buffers'
  <1>1. CASE Refuse
    BY <1>1, BuffersOfCase
  <1>2. CASE handle_prove_claim_resolver(w)
    <2>1. SaveNameOffset(w) \/ SaveInputOffset(w) => Buffers'
      BY DEF SaveNameOffset, SaveInputOffset, fields, Buffers
    <2>2. ReadNameLength(w) \/ ReadInputsLength(w) => Buffers'
      BY BuffersOfField DEF ReadNameLength, ReadInputsLength
    <2>3. QED
      BY <1>2, <2>1, <2>2, BuffersOfCase, BuffersOfField, BuffersOfRead
      DEF handle_prove_claim_resolver
  <1>3. CASE ParseWord(w)
    <2>1. CASE handle_commit(w) \/ handle_register(w) \/ handle_register_with_config(w)
      BY <2>1, BuffersOfCase, BuffersOfField, BuffersOfRead
      DEF handle_commit, handle_register, handle_register_with_config
    <2>2. CASE handle_renew(w) \/ handle_set_name(w) \/ handle_renew_all(w)
      BY <2>2, BuffersOfCase, BuffersOfField, BuffersOfRead
      DEF handle_renew, handle_set_name, handle_renew_all
    <2>3. CASE handle_prove_claim(w) \/ handle_owner(w) \/ handle_resolver(w) \/ handle_subnode(w)
      BY <2>3, BuffersOfCase, BuffersOfField, BuffersOfRead
      DEF handle_prove_claim, handle_owner, handle_resolver, handle_subnode
    <2>4. CASE handle_set_addr(w) \/ handle_set_text(w)
      BY <2>4, BuffersOfCase, BuffersOfField, BuffersOfRead DEF handle_set_addr, handle_set_text
    <2>5. CASE handle_set_content_hash(w) \/ handle_multicall(w)
      BY <2>5, BuffersOfCase, BuffersOfField, BuffersOfRead
      DEF handle_set_content_hash, handle_multicall
    <2>6. QED
      BY <1>3, <2>1, <2>2, <2>3, <2>4, <2>5 DEF ParseWord
  <1>4. QED
    BY <1>1, <1>2, <1>3 DEF handle_provide_parameter

\* handle_provide_parameter keeps what has arrived.
LEMMA WordShown ==
  ASSUME NEW w, NEW n, Takes(w, n), selectorIndex = find_selector(call.selector),
         OnTrack, OnTrack', Parses, handle_provide_parameter(w)
  PROVE  Parses'
  <1>1. UNCHANGED selectorIndex
    BY DEF handle_provide_parameter
  <1>2. call \in Transactions
    BY TakesType
  <1>3. \/ selectorIndex = "PROVE_AND_CLAIM_RESOLVER" /\ handle_prove_claim_resolver(w)
        \/ ParseWord(w)
    BY OnTrackExpected DEF handle_provide_parameter
  <1>4. CASE call.selector = "f14fcbc8"
    <2>1. selectorIndex = "COMMIT"
      BY <1>4, Handlers
    <2>2. ParsesCommit /\ handle_commit(w)
      BY <1>1, <1>3, <2>1 DEF Parses, ParseWord
    <2>3. ParsesCommit'
      BY <1>4, <2>2, CommitShown
    <2>4. QED
      BY <1>1, <2>1, <2>3 DEF Parses
  <1>5. CASE call.selector = "85f6d155"
    <2>1. selectorIndex = "REGISTER"
      BY <1>5, Handlers
    <2>2. ParsesRegister /\ handle_register(w)
      BY <1>1, <1>3, <2>1 DEF Parses, ParseWord
    <2>3. ParsesRegister'
      BY <1>5, <2>2, RegisterShown
    <2>4. QED
      BY <1>1, <2>1, <2>3 DEF Parses
  <1>6. CASE call.selector = "f7a16963"
    <2>1. selectorIndex = "REGISTER_WITH_CONFIG"
      BY <1>6, Handlers
    <2>2. ParsesRegisterWithConfig /\ handle_register_with_config(w)
      BY <1>1, <1>3, <2>1 DEF Parses, ParseWord
    <2>3. ParsesRegisterWithConfig'
      BY <1>6, <2>2, RegisterWithConfigShown
    <2>4. QED
      BY <1>1, <2>1, <2>3 DEF Parses
  <1>7. CASE call.selector = "acf1a841"
    <2>1. selectorIndex = "RENEW"
      BY <1>7, Handlers
    <2>2. ParsesRenew /\ handle_renew(w)
      BY <1>1, <1>3, <2>1 DEF Parses, ParseWord
    <2>3. ParsesRenew'
      BY <1>7, <2>2, RenewShown
    <2>4. QED
      BY <1>1, <2>1, <2>3 DEF Parses
  <1>8. CASE call.selector = "c47f0027"
    <2>1. selectorIndex = "SET_NAME"
      BY <1>8, Handlers
    <2>2. ParsesSetName /\ handle_set_name(w)
      BY <1>1, <1>3, <2>1 DEF Parses, ParseWord
    <2>3. ParsesSetName'
      BY <1>8, <2>2, SetNameShown
    <2>4. QED
      BY <1>1, <2>1, <2>3 DEF Parses
  <1>9. CASE call.selector = "e8d6dbb4"
    <2>1. selectorIndex = "RENEW_ALL"
      BY <1>9, Handlers
    <2>2. ParsesRenewAll /\ handle_renew_all(w) /\ OnRenewAll'
      BY <1>1, <1>3, <2>1 DEF Parses, ParseWord, OnTrack
    <2>3. ParsesRenewAll'
      BY <1>9, <2>2, RenewAllShown
    <2>4. QED
      BY <1>1, <2>1, <2>3 DEF Parses
  <1>10. CASE call.selector = "8bbedf75"
    <2>1. selectorIndex = "PROVE_AND_CLAIM"
      BY <1>10, Handlers
    <2>2. ParsesProveClaim /\ handle_prove_claim(w) /\ OnProveClaim
      BY <1>1, <1>3, <2>1 DEF Parses, ParseWord, OnTrack
    <2>3. ParsesProveClaim'
      BY <1>10, <2>2, ProveClaimShown
    <2>4. QED
      BY <1>1, <2>1, <2>3 DEF Parses
  <1>11. CASE call.selector = "224199c2"
    <2>1. selectorIndex = "PROVE_AND_CLAIM_RESOLVER"
      BY <1>11, Handlers
    <2>2. ParsesProveClaimResolver /\ handle_prove_claim_resolver(w) /\ OnProveClaimResolver
      BY <1>1, <1>3, <2>1 DEF Parses, ParseWord, OnTrack
    <2>3. ParsesProveClaimResolver'
      BY <1>11, <2>2, ProveClaimResolverShown
    <2>4. QED
      BY <1>1, <2>1, <2>3 DEF Parses
  <1>12. CASE call.selector = "5b0fc9c3"
    <2>1. selectorIndex = "SET_OWNER"
      BY <1>12, Handlers
    <2>2. ParsesSetOwner /\ handle_owner(w)
      BY <1>1, <1>3, <2>1 DEF Parses, ParseWord
    <2>3. ParsesSetOwner'
      BY <1>12, <2>2, SetOwnerShown
    <2>4. QED
      BY <1>1, <2>1, <2>3 DEF Parses
  <1>13. CASE call.selector = "1896f70a"
    <2>1. selectorIndex = "SET_RESOLVER"
      BY <1>13, Handlers
    <2>2. ParsesSetResolver /\ handle_resolver(w)
      BY <1>1, <1>3, <2>1 DEF Parses, ParseWord
    <2>3. ParsesSetResolver'
      BY <1>13, <2>2, SetResolverShown
    <2>4. QED
      BY <1>1, <2>1, <2>3 DEF Parses
  <1>14. CASE call.selector = "5ef2c7f0"
    <2>1. selectorIndex = "SET_SUBNODE"
      BY <1>14, Handlers
    <2>2. ParsesSetSubnode /\ handle_subnode(w)
      BY <1>1, <1>3, <2>1 DEF Parses, ParseWord
    <2>3. ParsesSetSubnode'
      BY <1>14, <2>2, SetSubnodeShown
    <2>4. QED
      BY <1>1, <2>1, <2>3 DEF Parses
  <1>15. CASE call.selector = "8b95dd71"
    <2>1. selectorIndex = "SET_ADDR"
      BY <1>15, Handlers
    <2>2. ParsesSetAddr /\ handle_set_addr(w)
      BY <1>1, <1>3, <2>1 DEF Parses, ParseWord
    <2>3. ParsesSetAddr'
      BY <1>15, <2>2, SetAddrShown
    <2>4. QED
      BY <1>1, <2>1, <2>3 DEF Parses
  <1>16. CASE call.selector = "10f13a8c"
    <2>1. selectorIndex = "SET_TEXT"
      BY <1>16, Handlers
    <2>2. ParsesSetText /\ handle_set_text(w)
      BY <1>1, <1>3, <2>1 DEF Parses, ParseWord
    <2>3. ParsesSetText'
      BY <1>16, <2>2, SetTextShown
    <2>4. QED
      BY <1>1, <2>1, <2>3 DEF Parses
  <1>17. CASE call.selector = "304e6ade"
    <2>1. selectorIndex = "SET_CONTENT_HASH"
      BY <1>17, Handlers
    <2>2. ParsesSetContentHash /\ handle_set_content_hash(w)
      BY <1>1, <1>3, <2>1 DEF Parses, ParseWord
    <2>3. ParsesSetContentHash'
      BY <1>17, <2>2, SetContentHashShown
    <2>4. QED
      BY <1>1, <2>1, <2>3 DEF Parses
  <1>18. CASE call.selector = "ac9650d8"
    <2>1. selectorIndex = "MULTICALL"
      BY <1>18, Handlers
    <2>2. ParsesMulticall /\ handle_multicall(w) /\ OnMulticall'
      BY <1>1, <1>3, <2>1 DEF Parses, ParseWord, OnTrack
    <2>3. ParsesMulticall'
      BY <1>18, <2>2, MulticallShown
    <2>4. QED
      BY <1>1, <2>1, <2>3 DEF Parses
  <1>19. QED
    BY <1>2, <1>4, <1>5, <1>6, <1>7, <1>8, <1>9, <1>10, <1>11, <1>12, <1>13, <1>14, <1>15,
       <1>16, <1>17, <1>18,
       SelectorFound DEF OneData, TwoData, OneArray, NoData
=============================================================================
