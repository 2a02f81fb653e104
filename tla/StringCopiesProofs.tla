-------------------------- MODULE StringCopiesProofs --------------------------
(***************************************************************************)
(* Proof that a buffer strlcpy and strlcat of fuzzing/mocks.c write to     *)
(* holds the string asked for, cut off where the buffer ends, and that     *)
(* nothing is written behind it: for buffers and strings of any length,    *)
(* and any number of calls.                                                *)
(***************************************************************************)
EXTENDS StringCopies, TLAPS

\* The buffer d of n bytes holds the string s and its NUL.
Holds(d, n, s) ==
    /\ s \in Seq(Chars)
    /\ Len(s) < n
    /\ d[Len(s)] = NUL
    /\ \A a \in Addresses : a < Len(s) => d[a] = s[a + 1]
    /\ \A a \in Addresses : a >= n => d[a] = Outside

\* TruncatedString as an inductive invariant: without strlen.
StringInv == size \in 1 .. MaxSize /\ Holds(memory, size, wanted)

(***************************************************************************)
(* Strings.                                                                *)
(***************************************************************************)

\* An address is a number.
LEMMA AddressType ==
  /\ MaxSize \in Int /\ 0 < MaxSize /\ MaxLen \in Int /\ 0 <= MaxLen
  /\ \A a \in Addresses : a \in Int /\ 0 <= a /\ a <= MaxSize + MaxLen
  /\ \A a \in Int : 0 <= a /\ a <= MaxSize => a \in Addresses
  BY BufferAssumption DEF Addresses

\* The sources are sequences of characters.
LEMMA StringType ==
  ASSUME NEW src \in Strings
  PROVE  src \in Seq(Chars) /\ Len(src) \in Nat
  BY BufferAssumption DEF Strings

\* strlen finds the NUL.
LEMMA LengthFound ==
  ASSUME NEW n \in 1 .. MaxSize, NEW d, NEW s, Holds(d, n, s)
  PROVE  strlen(d) = Len(s)
  <1>1. Len(s) \in Int /\ 0 <= Len(s) /\ n \in Int /\ n <= MaxSize /\ Len(s) < n
    BY AddressType DEF Holds
  <1>2. Len(s) \in Addresses
    BY <1>1, AddressType
  <1>3. \A i \in Addresses : i < Len(s) => d[i] # NUL
    BY <1>1, AddressType, CharsAssumption DEF Holds
  <1>4. d[Len(s)] = NUL
    BY DEF Holds
  <1>5. \A i \in 0 .. Len(s) - 1 : d[i] # NUL
    BY <1>1, <1>3, AddressType
  <1>6. ASSUME NEW m \in Addresses, d[m] = NUL, \A i \in 0 .. m - 1 : d[i] # NUL
        PROVE  m = Len(s)
    BY <1>1, <1>3, <1>4, <1>6, AddressType
  <1>7. QED
    BY <1>2, <1>4, <1>5, <1>6 DEF strlen

\* What a copy of m characters of src to address `at` leaves.
LEMMA PutHolds ==
  ASSUME NEW n \in 1 .. MaxSize, NEW d, NEW s, Holds(d, n, s),
         NEW src \in Seq(Chars), NEW at \in Nat, at <= Len(s),
         NEW m \in Nat, m <= Len(src), at + m < n,
         NEW t \in Seq(Chars), Len(t) = at + m,
         \A i \in 1 .. at + m : t[i] = IF i <= at THEN s[i] ELSE src[i - at]
  PROVE  Holds(Put(d, at, src, m), n, t)
  <1> DEFINE e == Put(d, at, src, m)
  <1>1. n \in Int /\ n <= MaxSize /\ Len(s) \in Int /\ Len(src) \in Int
    BY AddressType DEF Holds
  <1>2. \A a \in Addresses : /\ at <= a /\ a < at + m => e[a] = src[a - at + 1]
                             /\ a = at + m => e[a] = NUL
                             /\ ~(at <= a /\ a <= at + m) => e[a] = d[a]
    BY AddressType DEF Put
  <1>3. at + m \in Addresses
    BY <1>1, AddressType
  <1> HIDE DEF e
  <1>4. e[at + m] = NUL
    BY <1>2, <1>3
  <1>5. ASSUME NEW a \in Addresses, a < at + m PROVE e[a] = t[a + 1]
    <2>1. a \in Int /\ 0 <= a /\ a + 1 \in 1 .. at + m
      BY <1>5, AddressType
    <2>2. CASE a < at
      <3>1. e[a] = d[a] /\ d[a] = s[a + 1]
        BY <1>1, <1>2, <2>1, <2>2 DEF Holds
      <3>2. t[a + 1] = s[a + 1]
        BY <2>1, <2>2
      <3>3. QED
        BY <3>1, <3>2
    <2>3. CASE a >= at
      <3>1. e[a] = src[a - at + 1]
        BY <1>2, <1>5, <2>1, <2>3
      <3>2. t[a + 1] = src[a + 1 - at] /\ a + 1 - at = a - at + 1
        BY <2>1, <2>3
      <3>3. QED
        BY <3>1, <3>2
    <2>4. QED
      BY <2>1, <2>2, <2>3
  <1>6. ASSUME NEW a \in Addresses, a >= n PROVE e[a] = Outside
    <2>1. ~(a <= at + m)
      BY <1>1, <1>6, AddressType
    <2>2. QED
      BY <1>2, <1>6, <2>1 DEF Holds
  <1>7. QED
    BY <1>4, <1>5, <1>6 DEF Holds, e

(***************************************************************************)
(* The specification.                                                      *)
(***************************************************************************)

\* strlcpy leaves the source, cut off.
LEMMA CopyHolds ==
  ASSUME StringInv, NEW src \in Strings, Copy(src)
  PROVE  StringInv'
  <1> DEFINE m == Least(Len(src), size - 1)
  <1>1. /\ size \in 1 .. MaxSize /\ size \in Int /\ 1 <= size
        /\ Holds(memory, size, wanted)
        /\ src \in Seq(Chars) /\ Len(src) \in Nat
    BY StringType, AddressType DEF StringInv
  <1>2. m \in Nat /\ m <= Len(src) /\ m < size /\ Least(size - 1, Len(src)) = m
    BY <1>1 DEF Least
  <1>3. memory' = Put(memory, 0, src, m) /\ wanted' = SubSeq(src, 1, m) /\ size' = size
    BY <1>2 DEF Copy, strlcpy, Room, Prefix
  <1> HIDE DEF m
  <1>4. /\ SubSeq(src, 1, m) \in Seq(Chars)
        /\ Len(SubSeq(src, 1, m)) = 0 + m
        /\ \A i \in 1 .. 0 + m :
              SubSeq(src, 1, m)[i] = IF i <= 0 THEN wanted[i] ELSE src[i - 0]
    BY <1>1, <1>2
  <1>5. 0 \in Nat /\ 0 <= Len(wanted) /\ 0 + m < size
    BY <1>1, <1>2 DEF Holds
  <1>6. Holds(Put(memory, 0, src, m), size, SubSeq(src, 1, m))
    BY <1>1, <1>2, <1>4, <1>5, PutHolds
  <1>7. QED
    BY <1>1, <1>3, <1>6 DEF StringInv

\* strlcat leaves the string that was there and the source, cut off.
LEMMA ConcatenateHolds ==
  ASSUME StringInv, NEW src \in Strings, Concatenate(src)
  PROVE  StringInv'
  <1> DEFINE l    == Len(wanted)
             room == size - l - 1
             m    == Least(Len(src), room)
             both == wanted \o src
             t    == SubSeq(both, 1, l + m)
  <1>1. /\ size \in 1 .. MaxSize /\ size \in Int /\ 1 <= size
        /\ Holds(memory, size, wanted)
        /\ src \in Seq(Chars) /\ Len(src) \in Nat
        /\ wanted \in Seq(Chars) /\ l \in Nat /\ l < size
    BY StringType, AddressType DEF StringInv, Holds
  <1>2. strlen(memory) = l
    BY <1>1, LengthFound
  <1>3. /\ both \in Seq(Chars)
        /\ Len(both) = l + Len(src)
        /\ \A i \in 1 .. l + Len(src) :
              both[i] = IF i <= l THEN wanted[i] ELSE src[i - l]
    BY <1>1
  <1>4. /\ room \in Nat
        /\ m \in Nat /\ m <= Len(src) /\ m <= room
        /\ Least(size - 1, l + Len(src)) = l + m
        /\ Room(size - l) = room
    BY <1>1 DEF Least, Room
  <1>5. wanted' = t /\ size' = size
    BY <1>3, <1>4 DEF Concatenate, Prefix
  <1>6. memory' = IF room = 0 THEN memory ELSE Put(memory, l, src, m)
    BY <1>2, <1>4 DEF Concatenate, strlcat
  <1> HIDE DEF l, room, m, both
  <1>7. /\ t \in Seq(Chars)
        /\ Len(t) = l + m
        /\ \A i \in 1 .. l + m : t[i] = IF i <= l THEN wanted[i] ELSE src[i - l]
    <2>1. l + m \in Nat /\ l + m <= Len(both)
      BY <1>1, <1>3, <1>4
    <2>2. /\ t \in Seq(Chars)
          /\ Len(t) = l + m
          /\ \A i \in 1 .. l + m : t[i] = both[i]
      BY <1>3, <2>1
    <2>3. \A i \in 1 .. l + m : i \in 1 .. l + Len(src)
      BY <1>1, <1>4
    <2>4. QED
      BY <1>3, <2>2, <2>3
  <1> HIDE DEF t
  <1>8. CASE room = 0
    <2>1. m = 0
      BY <1>4, <1>8
    <2>2. Len(t) = Len(wanted) /\ \A i \in 1 .. Len(wanted) : t[i] = wanted[i]
      BY <1>1, <1>7, <2>1 DEF l
    <2>3. t = wanted
      BY <1>1, <1>7, <2>2
    <2>4. QED
      BY <1>1, <1>5, <1>6, <1>8, <2>3 DEF StringInv
  <1>9. CASE room # 0
    <2>1. l + m < size /\ l <= Len(wanted)
      BY <1>1, <1>4 DEF l, room
    <2>2. Holds(Put(memory, l, src, m), size, t)
      BY <1>1, <1>4, <1>7, <2>1, PutHolds
    <2>3. QED
      BY <1>1, <1>5, <1>6, <1>9, <2>2 DEF StringInv
  <1>10. QED
    BY <1>8, <1>9

\* Every step keeps it.
LEMMA NextHolds == StringInv /\ [Next]_vars => StringInv'
  BY CopyHolds, ConcatenateHolds DEF Next, vars, StringInv

\* A zeroed buffer holds the empty string.
LEMMA InitHolds == Init => StringInv
  <1> SUFFICES ASSUME Init PROVE StringInv
    OBVIOUS
  <1>1. size \in 1 .. MaxSize /\ size \in Int /\ 1 <= size /\ wanted = << >>
    BY AddressType DEF Init
  <1>2. wanted \in Seq(Chars) /\ Len(wanted) = 0 /\ 0 \in Addresses
    BY <1>1, AddressType
  <1>3. \A a \in Addresses : memory[a] = IF a < size THEN NUL ELSE Outside
    BY DEF Init
  <1>4. Holds(memory, size, wanted)
    BY <1>1, <1>2, <1>3, AddressType DEF Holds
  <1>5. QED
    BY <1>1, <1>4 DEF StringInv

\* However often strlcpy and strlcat of fuzzing/mocks.c write to a buffer of
\* any size, it holds the string asked for, cut off where the buffer ends,
\* with its NUL; and nothing is written behind it.
THEOREM StringsTruncated == Spec => []TruncatedString
  <1>1. StringInv => TruncatedString
    <2> SUFFICES ASSUME StringInv PROVE TruncatedString
      OBVIOUS
    <2>1. /\ size \in 1 .. MaxSize /\ size \in Int /\ size <= MaxSize
          /\ Holds(memory, size, wanted)
          /\ wanted \in Seq(Chars) /\ Len(wanted) \in Nat /\ Len(wanted) < size
      BY AddressType DEF StringInv, Holds
    <2>2. strlen(memory) = Len(wanted)
      BY <2>1, LengthFound
    <2>3. \A i \in 1 .. Len(wanted) : wanted[i] = memory[i - 1]
      <3> SUFFICES ASSUME NEW i \in 1 .. Len(wanted) PROVE wanted[i] = memory[i - 1]
        OBVIOUS
      <3>1. i - 1 \in Addresses /\ i - 1 < Len(wanted) /\ (i - 1) + 1 = i
        BY <2>1, AddressType
      <3>2. QED
        BY <2>1, <3>1 DEF Holds
    <2>4. wanted = [i \in 1 .. Len(wanted) |-> memory[i - 1]]
      BY <2>1, <2>3
    <2>5. QED
      BY <2>1, <2>2, <2>4 DEF TruncatedString, Holds
  <1>2. QED
    BY <1>1, InitHolds, NextHolds, PTL DEF Spec

=============================================================================
