------------------------------ MODULE AbiProofs ------------------------------
(***************************************************************************)
(* Where the words of a call are in its calldata.  AbiCalls lays it out    *)
(* with recursive functions of the community modules; what they compute    *)
(* for sequences of any length is shown by induction over a set of numbers *)
(* (SetInduction).                                                         *)
(***************************************************************************)
EXTENDS EnsParser, AbiFaults, FiniteSetTheorems, WellFoundedInduction, TLAPS

(***************************************************************************)
(* Induction.                                                              *)
(***************************************************************************)
Less == { pair \in Nat \X Nat : pair[1] < pair[2] }

\* A set of numbers that has 0 and each one after another has them all.
LEMMA SetInduction ==
  ASSUME NEW T, 0 \in T, \A n \in Nat : n \in T => n + 1 \in T
  PROVE  Nat \subseteq T
  <1> DEFINE Missing == Nat \ T
  <1>1. SUFFICES ASSUME Missing # {} PROVE FALSE
    OBVIOUS
  <1>2. IsWellFoundedOn(Less, Nat)
    BY NatLessThanWellFounded DEF OpToRel, Less
  <1>3. Missing \subseteq Nat
    OBVIOUS
  <1> HIDE DEF Missing
  <1>4. PICK x \in Missing : \A y \in Missing : ~(<<y, x>> \in Less)
    BY <1>1, <1>2, <1>3, WFMin
  <1>5. x \in Nat /\ x \notin T /\ x # 0
    BY <1>4 DEF Missing
  <1>6. x - 1 \in Nat /\ x - 1 < x /\ (x - 1) + 1 = x
    BY <1>5
  <1>7. x - 1 \notin T
    BY <1>5, <1>6
  <1>8. <<x - 1, x>> \in Less
    BY <1>5, <1>6 DEF Less
  <1>9. QED
    BY <1>4, <1>6, <1>7, <1>8 DEF Missing

(***************************************************************************)
(* Parts put one after the other.                                          *)
(***************************************************************************)

\* f[i] is the first i parts, one after the other, for all up to n.
Joins(parts, n, f) ==
    f = [i \in 1 .. n |-> IF i = 1 THEN parts[i] ELSE f[i - 1] \o parts[i]]

\* The recursive function that joins parts exists.
LEMMA JoinExists ==
  ASSUME NEW parts, Len(parts) \in Nat
  PROVE  \E f : Joins(parts, Len(parts), f)
  <1> DEFINE T == { n \in Nat : \E f : Joins(parts, n, f) }
  <1>1. 0 \in T
    <2> DEFINE e == [i \in 1 .. 0 |-> 0]
    <2>1. Joins(parts, 0, e)
      BY DEF Joins
    <2>2. QED
      BY <2>1
  <1>2. ASSUME NEW n \in Nat, n \in T PROVE n + 1 \in T
    <2>1. PICK f : Joins(parts, n, f)
      BY <1>2
    <2> DEFINE g == [i \in 1 .. n + 1 |->
                       IF i <= n THEN f[i]
                       ELSE IF i = 1 THEN parts[i] ELSE f[i - 1] \o parts[i]]
    <2>2. ASSUME NEW i \in 1 .. n + 1
          PROVE  g[i] = IF i = 1 THEN parts[i] ELSE g[i - 1] \o parts[i]
      <3>1. i # 1 => i - 1 \in 1 .. n /\ g[i - 1] = f[i - 1]
        OBVIOUS
      <3>2. i <= n => i \in 1 .. n /\ g[i] = f[i]
        OBVIOUS
      <3>3. i \in 1 .. n => f[i] = IF i = 1 THEN parts[i] ELSE f[i - 1] \o parts[i]
        BY <2>1 DEF Joins
      <3>4. ~(i <= n) => g[i] = IF i = 1 THEN parts[i] ELSE f[i - 1] \o parts[i]
        OBVIOUS
      <3> HIDE DEF g
      <3>5. QED
        BY <3>1, <3>2, <3>3, <3>4
    <2>3. Joins(parts, n + 1, g)
      <3>1. g = [i \in 1 .. n + 1 |-> g[i]]
        OBVIOUS
      <3> HIDE DEF g
      <3>2. QED
        BY <2>2, <3>1 DEF Joins
    <2> HIDE DEF g
    <2>4. QED
      BY <2>3
  <1>3. \A n \in Nat : n \in T => n + 1 \in T
    BY <1>2
  <1> HIDE DEF T
  <1>4. Nat \subseteq T
    BY <1>1, <1>3, SetInduction
  <1>5. Len(parts) \in T
    BY <1>4
  <1>6. QED
    BY <1>5 DEF T

\* One sequence after another.
LEMMA Joined ==
  \A S : \A s, t \in Seq(S) :
    /\ s \o t \in Seq(S)
    /\ Len(s) \in Nat
    /\ Len(t) \in Nat
    /\ Len(s \o t) = Len(s) + Len(t)
    /\ \A j \in 1 .. Len(s) : (s \o t)[j] = s[j]
    /\ \A j \in 1 .. Len(t) : (s \o t)[Len(s) + j] = t[j]
  <1> SUFFICES ASSUME NEW S, NEW s \in Seq(S), NEW t \in Seq(S)
               PROVE  /\ s \o t \in Seq(S)
                      /\ Len(s) \in Nat
                      /\ Len(t) \in Nat
                      /\ Len(s \o t) = Len(s) + Len(t)
                      /\ \A j \in 1 .. Len(s) : (s \o t)[j] = s[j]
                      /\ \A j \in 1 .. Len(t) : (s \o t)[Len(s) + j] = t[j]
    OBVIOUS
  <1>1. QED
    OBVIOUS

\* A place in a part is one in what it is part of.
LEMMA Within ==
  \A b, l, m \in Nat : b + l <= m => \A k \in 1 .. l : b + k \in 1 .. m
  OBVIOUS

\* The number of words of the first n parts.
Before(parts, n) == Len(FlattenSeq(SubSeq(parts, 1, n)))

\* The first n parts.
LEMMA FirstParts ==
  ASSUME NEW S, NEW parts \in Seq(Seq(S)), NEW f, Joins(parts, Len(parts), f),
         NEW n \in 0 .. Len(parts)
  PROVE  FlattenSeq(SubSeq(parts, 1, n)) = IF n = 0 THEN << >> ELSE f[n]
  <1> DEFINE q == SubSeq(parts, 1, n)
  <1>1. Len(q) = n /\ \A i \in 1 .. n : q[i] = parts[i]
    OBVIOUS
  <1>2. n = 0 => q = << >>
    OBVIOUS
  <1> HIDE DEF q
  <1>3. CASE n = 0
    BY <1>1, <1>2, <1>3 DEF FlattenSeq, q
  <1>4. CASE n # 0
    <2> DEFINE g == CHOOSE g : Joins(q, Len(q), g)
    <2>1. FlattenSeq(q) = g[n]
      BY <1>1, <1>4 DEF FlattenSeq, Joins
    <2>2. Joins(q, n, g)
      BY <1>1, JoinExists
    <2> HIDE DEF g
    <2>3. \A i \in 1 .. n : g[i] = f[i]
      <3> DEFINE T == { i \in Nat : i \in 1 .. n => g[i] = f[i] }
      <3>1. 0 \in T
        OBVIOUS
      <3>2. ASSUME NEW i \in Nat, i \in T PROVE i + 1 \in T
        <4> SUFFICES ASSUME i + 1 \in 1 .. n PROVE g[i + 1] = f[i + 1]
          OBVIOUS
        <4>1. /\ i + 1 \in 1 .. Len(parts)
              /\ (i + 1) - 1 = i
              /\ i + 1 # 1 => i \in 1 .. n
          OBVIOUS
        <4>2. g[i + 1] = IF i + 1 = 1 THEN q[i + 1] ELSE g[i] \o q[i + 1]
          BY <2>2, <4>1 DEF Joins
        <4>3. f[i + 1] = IF i + 1 = 1 THEN parts[i + 1] ELSE f[i] \o parts[i + 1]
          BY <4>1 DEF Joins
        <4>4. i + 1 # 1 => g[i] = f[i]
          BY <3>2, <4>1
        <4>5. q[i + 1] = parts[i + 1]
          BY <1>1
        <4>6. QED
          BY <4>2, <4>3, <4>4, <4>5
      <3>3. \A i \in Nat : i \in T => i + 1 \in T
        BY <3>2
      <3> HIDE DEF T
      <3>4. Nat \subseteq T
        BY <3>1, <3>3, SetInduction
      <3>5. \A i \in 1 .. n : i \in T
        BY <3>4
      <3>6. QED
        BY <3>5 DEF T
    <2>4. n \in 1 .. n
      BY <1>4
    <2>5. QED
      BY <1>4, <2>1, <2>3, <2>4 DEF q
  <1>5. QED
    BY <1>3, <1>4

\* Nothing comes before the first part.
LEMMA NoParts ==
  ASSUME NEW S, NEW parts \in Seq(Seq(S))
  PROVE  FlattenSeq(SubSeq(parts, 1, 0)) = << >> /\ << >> \in Seq(S)
  <1> DEFINE q == SubSeq(parts, 1, 0)
  <1>1. q = << >> /\ Len(q) = 0 /\ << >> \in Seq(S)
    OBVIOUS
  <1> HIDE DEF q
  <1>2. FlattenSeq(q) = q
    BY <1>1 DEF FlattenSeq
  <1>3. QED
    BY <1>1, <1>2 DEF q

\* One part more.
LEMMA PartAdded ==
  ASSUME NEW S, NEW parts \in Seq(Seq(S)), NEW n \in Nat, n + 1 <= Len(parts)
  PROVE  FlattenSeq(SubSeq(parts, 1, n + 1))
           = FlattenSeq(SubSeq(parts, 1, n)) \o parts[n + 1]
  <1>1. PICK f : Joins(parts, Len(parts), f)
    BY JoinExists
  <1>2. n \in 0 .. Len(parts) /\ n + 1 \in 0 .. Len(parts) /\ n + 1 \in 1 .. Len(parts)
    OBVIOUS
  <1>3. /\ FlattenSeq(SubSeq(parts, 1, n)) = IF n = 0 THEN << >> ELSE f[n]
        /\ FlattenSeq(SubSeq(parts, 1, n + 1)) = f[n + 1]
    <2>1. \A k \in 0 .. Len(parts) :
            FlattenSeq(SubSeq(parts, 1, k)) = IF k = 0 THEN << >> ELSE f[k]
      BY <1>1, FirstParts
    <2>2. QED
      BY <1>2, <2>1
  <1>4. f[n + 1] = IF n = 0 THEN parts[n + 1] ELSE f[n] \o parts[n + 1]
    <2>1. n + 1 = 1 <=> n = 0
      OBVIOUS
    <2>2. (n + 1) - 1 = n
      OBVIOUS
    <2>3. QED
      BY <1>1, <1>2, <2>1, <2>2 DEF Joins
  <1>5. parts[n + 1] \in Seq(S)
    BY <1>2
  <1>6. << >> \o parts[n + 1] = parts[n + 1]
    BY <1>5
  <1>7. QED
    BY <1>3, <1>4, <1>6

\* The first n parts are a sequence.
LEMMA PartsType ==
  ASSUME NEW S, NEW parts \in Seq(Seq(S)), NEW n \in 0 .. Len(parts)
  PROVE  FlattenSeq(SubSeq(parts, 1, n)) \in Seq(S)
  <1> DEFINE T == { k \in Nat : k <= Len(parts) => FlattenSeq(SubSeq(parts, 1, k)) \in Seq(S) }
  <1>1. 0 \in T
    <2>1. FlattenSeq(SubSeq(parts, 1, 0)) \in Seq(S)
      BY NoParts
    <2>2. QED
      BY <2>1
  <1>2. ASSUME NEW k \in Nat, k \in T PROVE k + 1 \in T
    <2> SUFFICES ASSUME k + 1 <= Len(parts)
                 PROVE  FlattenSeq(SubSeq(parts, 1, k + 1)) \in Seq(S)
      OBVIOUS
    <2>1. FlattenSeq(SubSeq(parts, 1, k + 1)) = FlattenSeq(SubSeq(parts, 1, k)) \o parts[k + 1]
      BY PartAdded
    <2>2. FlattenSeq(SubSeq(parts, 1, k)) \in Seq(S) /\ parts[k + 1] \in Seq(S)
      BY <1>2
    <2>3. QED
      BY <2>1, <2>2, Joined
  <1>3. \A k \in Nat : k \in T => k + 1 \in T
    BY <1>2
  <1> HIDE DEF T
  <1>4. Nat \subseteq T
    BY <1>1, <1>3, SetInduction
  <1>5. n \in T
    BY <1>4
  <1>6. QED
    BY <1>5 DEF T

\* The place of each part is that of the one before it, and its length.
LEMMA PartStarts ==
  ASSUME NEW S, NEW parts \in Seq(Seq(S))
  PROVE  /\ Before(parts, 0) = 0
         /\ \A n \in 0 .. Len(parts) : Before(parts, n) \in Nat
         /\ \A n \in 1 .. Len(parts) :
              /\ Len(parts[n]) \in Nat
              /\ Before(parts, n) = Before(parts, n - 1) + Len(parts[n])
         /\ Before(parts, Len(parts)) = Len(FlattenSeq(parts))
  <1>1. Before(parts, 0) = 0
    BY NoParts DEF Before
  <1>2. \A n \in 0 .. Len(parts) : Before(parts, n) \in Nat
    BY PartsType DEF Before
  <1>3. ASSUME NEW n \in 1 .. Len(parts)
        PROVE  /\ Len(parts[n]) \in Nat
               /\ Before(parts, n) = Before(parts, n - 1) + Len(parts[n])
    <2>1. PICK m \in Nat : m = n - 1 /\ m + 1 = n /\ m + 1 <= Len(parts) /\ m \in 0 .. Len(parts)
      <3>1. n - 1 \in Nat
        OBVIOUS
      <3>2. QED
        BY <3>1
    <2>2. FlattenSeq(SubSeq(parts, 1, m + 1)) = FlattenSeq(SubSeq(parts, 1, m)) \o parts[m + 1]
      BY <2>1, PartAdded
    <2>3. FlattenSeq(SubSeq(parts, 1, m)) \in Seq(S) /\ parts[m + 1] \in Seq(S)
      BY <2>1, PartsType
    <2> DEFINE u == FlattenSeq(SubSeq(parts, 1, m))
               t == parts[m + 1]
    <2>4. /\ Before(parts, m) = Len(u)
          /\ Before(parts, m + 1) = Len(u \o t)
      BY <2>2 DEF Before
    <2> HIDE DEF u, t
    <2>5. Len(t) \in Nat /\ Len(u \o t) = Len(u) + Len(t)
      BY <2>3, Joined DEF u, t
    <2>6. QED
      BY <2>1, <2>4, <2>5 DEF t
  <1>4. SubSeq(parts, 1, Len(parts)) = parts
    OBVIOUS
  <1>5. QED
    BY <1>1, <1>2, <1>3, <1>4 DEF Before

\* The first n parts are a sequence that has each of them at its place.
Placed(S, parts, n) ==
    LET words == FlattenSeq(SubSeq(parts, 1, n))
    IN /\ words \in Seq(S)
       /\ \A i \in 1 .. n : /\ Before(parts, i) <= Before(parts, n)
                            /\ \A j \in 1 .. Len(parts[i]) :
                                  words[Before(parts, i - 1) + j] = parts[i][j]

\* Each part is at its place, up to any of them.
LEMMA PartsPlaced ==
  ASSUME NEW S, NEW parts \in Seq(Seq(S)), NEW n \in 0 .. Len(parts)
  PROVE  Placed(S, parts, n)
  <1> DEFINE T == { k \in Nat : k <= Len(parts) => Placed(S, parts, k) }
  <1>1. 0 \in T
    <2>1. FlattenSeq(SubSeq(parts, 1, 0)) \in Seq(S)
      BY NoParts
    <2>2. QED
      BY <2>1 DEF Placed
  <1>2. ASSUME NEW k \in Nat, k \in T PROVE k + 1 \in T
    <2> SUFFICES ASSUME k + 1 <= Len(parts) PROVE Placed(S, parts, k + 1)
      OBVIOUS
    <2> DEFINE u == FlattenSeq(SubSeq(parts, 1, k))
               t == parts[k + 1]
    <2>1. FlattenSeq(SubSeq(parts, 1, k + 1)) = u \o t
      BY PartAdded
    <2>2. u \in Seq(S)
          /\ \A i \in 1 .. k : /\ Before(parts, i) <= Len(u)
                               /\ \A j \in 1 .. Len(parts[i]) :
                                     u[Before(parts, i - 1) + j] = parts[i][j]
      BY <1>2 DEF Placed, Before
    <2>3. t \in Seq(S)
      OBVIOUS
    <2>4. Before(parts, k) = Len(u) /\ Before(parts, k + 1) = Len(u \o t)
      BY <2>1 DEF Before
    <2> HIDE DEF u, t, T
    <2>5. /\ u \o t \in Seq(S)
          /\ Len(u) \in Nat /\ Len(t) \in Nat
          /\ Len(u \o t) = Len(u) + Len(t)
          /\ \A j \in 1 .. Len(u) : (u \o t)[j] = u[j]
          /\ \A j \in 1 .. Len(t) : (u \o t)[Len(u) + j] = t[j]
      BY <2>2, <2>3, Joined
    <2>6. ASSUME NEW i \in 1 .. k + 1
          PROVE  /\ Before(parts, i) <= Before(parts, k + 1)
                 /\ \A j \in 1 .. Len(parts[i]) :
                       (u \o t)[Before(parts, i - 1) + j] = parts[i][j]
      <3>1. CASE i = k + 1
        <4>1. i - 1 = k
          BY <3>1
        <4>2. Before(parts, i - 1) = Len(u) /\ parts[i] = t
          BY <2>4, <3>1, <4>1 DEF t
        <4>3. Before(parts, i) = Before(parts, k + 1) /\ Before(parts, k + 1) \in Nat
          BY <2>4, <2>5, <3>1
        <4>4. \A j \in 1 .. Len(parts[i]) : (u \o t)[Before(parts, i - 1) + j] = parts[i][j]
          BY <2>5, <4>2, Zenon
        <4>5. Before(parts, i) <= Before(parts, k + 1)
          BY <4>3
        <4>6. QED
          BY <4>4, <4>5, Zenon
      <3>2. CASE i # k + 1
        <4>1. i \in 1 .. k /\ i - 1 \in Nat /\ i - 1 < Len(parts) /\ (i - 1) + 1 = i
          BY <3>2
        <4>2. /\ Before(parts, i - 1) \in Nat
              /\ Before(parts, i) = Before(parts, i - 1) + Len(parts[i])
              /\ Len(parts[i]) \in Nat
          BY <4>1, PartStarts
        <4>3. /\ Before(parts, i) <= Len(u)
              /\ \A j \in 1 .. Len(parts[i]) : u[Before(parts, i - 1) + j] = parts[i][j]
          BY <2>2, <4>1
        <4>4. \A j \in 1 .. Len(parts[i]) : Before(parts, i - 1) + j \in 1 .. Len(u)
          <5>1. Before(parts, i - 1) \in Nat
            BY <4>1, PartStarts
          <5>2. Before(parts, i - 1) + Len(parts[i]) <= Len(u) /\ Len(u) \in Nat
            BY <2>5, <4>2, <4>3, Zenon
          <5>3. QED
            BY <4>2, <5>1, <5>2, Within, Zenon
        <4>5. \A j \in 1 .. Len(parts[i]) : (u \o t)[Before(parts, i - 1) + j] = parts[i][j]
          BY <2>5, <4>3, <4>4
        <4>6. Before(parts, i) <= Before(parts, k + 1)
          <5>1. Before(parts, i) \in Nat
            BY <4>1, PartStarts
          <5>2. QED
            BY <2>4, <2>5, <4>3, <5>1
        <4>7. QED
          BY <4>5, <4>6
      <3>3. QED
        BY <3>1, <3>2
    <2>7. QED
      BY <2>1, <2>4, <2>5, <2>6 DEF Placed, Before
  <1>3. \A k \in Nat : k \in T => k + 1 \in T
    BY <1>2
  <1> HIDE DEF T
  <1>4. Nat \subseteq T
    BY <1>1, <1>3, SetInduction
  <1>5. n \in T
    BY <1>4
  <1>6. QED
    BY <1>5 DEF T

(***************************************************************************)
(* The functions.                                                          *)
(***************************************************************************)

\* The parameters of each.
LEMMA Signatures ==
  /\ Signature("f14fcbc8") = << "word" >>
  /\ Signature("85f6d155") = << "data", "word", "word", "word" >>
  /\ Signature("f7a16963") = << "data", "word", "word", "word", "word", "word" >>
  /\ Signature("acf1a841") = << "data", "word" >>
  /\ Signature("c47f0027") = << "data" >>
  /\ Signature("e8d6dbb4") = << "array", "word" >>
  /\ Signature("8bbedf75") = << "data", "tuples", "data" >>
  /\ Signature("224199c2") = << "data", "tuples", "data", "word", "word" >>
  /\ Signature("5b0fc9c3") = << "word", "word" >>
  /\ Signature("1896f70a") = << "word", "word" >>
  /\ Signature("5ef2c7f0") = << "word", "word", "word", "word", "word" >>
  /\ Signature("8b95dd71") = << "word", "word", "data" >>
  /\ Signature("10f13a8c") = << "word", "data", "data" >>
  /\ Signature("304e6ade") = << "word", "data" >>
  /\ Signature("ac9650d8") = << "array" >>
  <1>1. << "data" >> \o [i \in 1 .. 5 |-> "word"]
          = << "data", "word", "word", "word", "word", "word" >>
    <2> DEFINE t == << "data" >> \o [i \in 1 .. 5 |-> "word"]
    <2> DEFINE K == {"data", "word"}
    <2>1. t \in Seq(K) /\ Len(t) = 6 /\ t[1] = "data" /\ \A i \in 2 .. 6 : t[i] = "word"
      <3> DEFINE u == << "data" >>
                 v == [i \in 1 .. 5 |-> "word"]
      <3>1. u \in Seq(K) /\ Len(u) = 1 /\ u[1] = "data"
        OBVIOUS
      <3>2. v \in Seq(K) /\ Len(v) = 5 /\ \A i \in 1 .. 5 : v[i] = "word"
        OBVIOUS
      <3> HIDE DEF u, v, K
      <3>3. /\ u \o v \in Seq(K)
            /\ Len(u \o v) = Len(u) + Len(v)
            /\ \A j \in 1 .. Len(u) : (u \o v)[j] = u[j]
            /\ \A j \in 1 .. Len(v) : (u \o v)[Len(u) + j] = v[j]
        <4>1. u \in Seq(K) /\ v \in Seq(K)
          BY <3>1, <3>2
        <4>2. QED
          BY <4>1, Joined
      <3>4. \A i \in 2 .. 6 : i - 1 \in 1 .. 5 /\ 1 + (i - 1) = i
        OBVIOUS
      <3>5. QED
        BY <3>1, <3>2, <3>3, <3>4 DEF u, v
    <2> HIDE DEF t
    <2>2. t = << "data", "word", "word", "word", "word", "word" >>
      BY <2>1
    <2>3. QED
      BY <2>2 DEF t
  <1>2. [i \in 1 .. 5 |-> "word"] = << "word", "word", "word", "word", "word" >>
    OBVIOUS
  <1>3. QED
    BY <1>1, <1>2 DEF Signature

OneData == {"85f6d155", "f7a16963", "acf1a841", "c47f0027", "8b95dd71", "304e6ade"}
TwoData == {"8bbedf75", "224199c2", "10f13a8c"}
OneArray == {"e8d6dbb4", "ac9650d8"}
NoData == {"f14fcbc8", "5b0fc9c3", "1896f70a", "5ef2c7f0"}

\* They are the functions of the plugin.
LEMMA Selectors ==
  { ENS_SELECTORS[i] : i \in DOMAIN ENS_SELECTORS } = OneData \cup TwoData \cup OneArray \cup NoData
  BY DEF ENS_SELECTORS, OneData, TwoData, OneArray, NoData

\* The number of string and byte array parameters.
LEMMA OneDataIndex ==
  ASSUME NEW c, NEW i, NEW d, { j \in 1 .. i : Signature(c.selector)[j] = "data" } = {d}
  PROVE  DataIndex(c, i) = 1
  BY FS_Singleton DEF DataIndex

LEMMA TwoDataIndex ==
  ASSUME NEW c, NEW i, NEW d \in {1, 2},
         { j \in 1 .. i : Signature(c.selector)[j] = "data" } = {d, 3}
  PROVE  DataIndex(c, i) = 2
  <1>1. Cardinality({d}) = 1 /\ IsFiniteSet({d})
    BY FS_Singleton
  <1>2. {d, 3} = {d} \cup {3} /\ 3 \notin {d}
    OBVIOUS
  <1>3. Cardinality({d} \cup {3}) = 1 + 1
    BY <1>1, <1>2, FS_AddElement
  <1>4. DataIndex(c, i) = Cardinality({d} \cup {3})
    BY <1>2, Zenon DEF DataIndex
  <1>5. QED
    BY <1>3, <1>4

\* Which length each of them has.
LEMMA DataIndexes ==
  ASSUME NEW c
  PROVE  /\ c.selector \in {"85f6d155", "f7a16963", "acf1a841", "c47f0027"} => DataIndex(c, 1) = 1
         /\ c.selector = "8b95dd71" => DataIndex(c, 3) = 1
         /\ c.selector = "304e6ade" => DataIndex(c, 2) = 1
         /\ c.selector \in {"8bbedf75", "224199c2"} => DataIndex(c, 1) = 1 /\ DataIndex(c, 3) = 2
         /\ c.selector = "10f13a8c" => DataIndex(c, 2) = 1 /\ DataIndex(c, 3) = 2
         /\ c.selector \in OneData => DataIndex(c, Len(Signature(c.selector))) = 1
         /\ c.selector \in TwoData => DataIndex(c, Len(Signature(c.selector))) = 2
  <1>1. CASE c.selector = "85f6d155"
    <2>1. DataIndex(c, 1) = 1
      <3>1. { j \in 1 .. 1 : Signature(c.selector)[j] = "data" } = {1}
        BY <1>1, Signatures
      <3>2. QED
        BY <3>1, OneDataIndex
    <2>2. DataIndex(c, 4) = 1
      <3>1. { j \in 1 .. 4 : Signature(c.selector)[j] = "data" } = {1}
        BY <1>1, Signatures
      <3>2. QED
        BY <3>1, OneDataIndex
    <2>3. Len(Signature(c.selector)) = 4
      BY <1>1, Signatures
    <2>4. QED
      BY <1>1, <2>1, <2>2, <2>3 DEF OneData, TwoData
  <1>2. CASE c.selector = "f7a16963"
    <2>1. DataIndex(c, 1) = 1
      <3>1. { j \in 1 .. 1 : Signature(c.selector)[j] = "data" } = {1}
        BY <1>2, Signatures
      <3>2. QED
        BY <3>1, OneDataIndex
    <2>2. DataIndex(c, 6) = 1
      <3>1. { j \in 1 .. 6 : Signature(c.selector)[j] = "data" } = {1}
        BY <1>2, Signatures
      <3>2. QED
        BY <3>1, OneDataIndex
    <2>3. Len(Signature(c.selector)) = 6
      BY <1>2, Signatures
    <2>4. QED
      BY <1>2, <2>1, <2>2, <2>3 DEF OneData, TwoData
  <1>3. CASE c.selector = "acf1a841"
    <2>1. DataIndex(c, 1) = 1
      <3>1. { j \in 1 .. 1 : Signature(c.selector)[j] = "data" } = {1}
        BY <1>3, Signatures
      <3>2. QED
        BY <3>1, OneDataIndex
    <2>2. DataIndex(c, 2) = 1
      <3>1. { j \in 1 .. 2 : Signature(c.selector)[j] = "data" } = {1}
        BY <1>3, Signatures
      <3>2. QED
        BY <3>1, OneDataIndex
    <2>3. Len(Signature(c.selector)) = 2
      BY <1>3, Signatures
    <2>4. QED
      BY <1>3, <2>1, <2>2, <2>3 DEF OneData, TwoData
  <1>4. CASE c.selector = "c47f0027"
    <2>1. DataIndex(c, 1) = 1
      <3>1. { j \in 1 .. 1 : Signature(c.selector)[j] = "data" } = {1}
        BY <1>4, Signatures
      <3>2. QED
        BY <3>1, OneDataIndex
    <2>2. Len(Signature(c.selector)) = 1
      BY <1>4, Signatures
    <2>3. QED
      BY <1>4, <2>1, <2>2 DEF OneData, TwoData
  <1>5. CASE c.selector = "8b95dd71"
    <2>1. DataIndex(c, 3) = 1
      <3>1. { j \in 1 .. 3 : Signature(c.selector)[j] = "data" } = {3}
        BY <1>5, Signatures
      <3>2. QED
        BY <3>1, OneDataIndex
    <2>2. Len(Signature(c.selector)) = 3
      BY <1>5, Signatures
    <2>3. QED
      BY <1>5, <2>1, <2>2 DEF OneData, TwoData
  <1>6. CASE c.selector = "304e6ade"
    <2>1. DataIndex(c, 2) = 1
      <3>1. { j \in 1 .. 2 : Signature(c.selector)[j] = "data" } = {2}
        BY <1>6, Signatures
      <3>2. QED
        BY <3>1, OneDataIndex
    <2>2. Len(Signature(c.selector)) = 2
      BY <1>6, Signatures
    <2>3. QED
      BY <1>6, <2>1, <2>2 DEF OneData, TwoData
  <1>7. CASE c.selector = "8bbedf75"
    <2>1. DataIndex(c, 1) = 1
      <3>1. { j \in 1 .. 1 : Signature(c.selector)[j] = "data" } = {1}
        BY <1>7, Signatures
      <3>2. QED
        BY <3>1, OneDataIndex
    <2>2. DataIndex(c, 3) = 2
      <3>1. { j \in 1 .. 3 : Signature(c.selector)[j] = "data" } = {1, 3} /\ 1 \in {1, 2}
        BY <1>7, Signatures
      <3>2. QED
        BY <3>1, TwoDataIndex
    <2>3. Len(Signature(c.selector)) = 3
      BY <1>7, Signatures
    <2>4. QED
      BY <1>7, <2>1, <2>2, <2>3 DEF OneData, TwoData
  <1>8. CASE c.selector = "224199c2"
    <2>1. DataIndex(c, 1) = 1
      <3>1. { j \in 1 .. 1 : Signature(c.selector)[j] = "data" } = {1}
        BY <1>8, Signatures
      <3>2. QED
        BY <3>1, OneDataIndex
    <2>2. DataIndex(c, 3) = 2
      <3>1. { j \in 1 .. 3 : Signature(c.selector)[j] = "data" } = {1, 3} /\ 1 \in {1, 2}
        BY <1>8, Signatures
      <3>2. QED
        BY <3>1, TwoDataIndex
    <2>3. DataIndex(c, 5) = 2
      <3>1. { j \in 1 .. 5 : Signature(c.selector)[j] = "data" } = {1, 3} /\ 1 \in {1, 2}
        BY <1>8, Signatures
      <3>2. QED
        BY <3>1, TwoDataIndex
    <2>4. Len(Signature(c.selector)) = 5
      BY <1>8, Signatures
    <2>5. QED
      BY <1>8, <2>1, <2>2, <2>3, <2>4 DEF OneData, TwoData
  <1>9. CASE c.selector = "10f13a8c"
    <2>1. DataIndex(c, 2) = 1
      <3>1. { j \in 1 .. 2 : Signature(c.selector)[j] = "data" } = {2}
        BY <1>9, Signatures
      <3>2. QED
        BY <3>1, OneDataIndex
    <2>2. DataIndex(c, 3) = 2
      <3>1. { j \in 1 .. 3 : Signature(c.selector)[j] = "data" } = {2, 3} /\ 2 \in {1, 2}
        BY <1>9, Signatures
      <3>2. QED
        BY <3>1, TwoDataIndex
    <2>3. Len(Signature(c.selector)) = 3
      BY <1>9, Signatures
    <2>4. QED
      BY <1>9, <2>1, <2>2, <2>3 DEF OneData, TwoData
  <1>10. QED
    BY <1>1, <1>2, <1>3, <1>4, <1>5, <1>6, <1>7, <1>8, <1>9 DEF OneData, TwoData

(***************************************************************************)
(* The words.                                                              *)
(***************************************************************************)

\* 16-bit numbers are themselves.
LEMMA U16Small == \A n \in Int : 0 <= n /\ n <= UINT16_MAX => U16(n) = n
  BY DEF U16, UINT16_MAX

\* A number that is encoded is a word.
LEMMA QuantityType ==
  ASSUME NEW n \in Nat
  PROVE  Quantity(n) \in Word
  <1>1. U16(n) \in UInt16
    <2>1. U16(n) \in Int /\ 0 <= U16(n) /\ U16(n) <= UINT16_MAX
      BY DEF U16, UINT16_MAX
    <2>2. UINT16_MAX \in Int
      BY DEF UINT16_MAX
    <2>3. QED
      BY <2>1, <2>2 DEF UInt16
  <1>2. 0 \in UInt16 /\ 1 \in 1 .. 78
    BY DEF UInt16, UINT16_MAX
  <1>3. (n <= UINT16_MAX) \in BOOLEAN
    OBVIOUS
  <1>4. QED
    BY <1>1, <1>2, <1>3 DEF Quantity, Word

\* And the parser reads a small one.
LEMMA QuantityRead ==
  ASSUME NEW n \in Nat
  PROVE  /\ n <= UINT16_MAX => Quantity(n).small /\ Quantity(n).low = n
         /\ ~(n <= UINT16_MAX) => ~Quantity(n).small
  <1>1. n <= UINT16_MAX => U16(n) = n
    BY U16Small
  <1>2. Quantity(n).small <=> n <= UINT16_MAX
    BY Zenon DEF Quantity
  <1>3. Quantity(n).low = U16(n)
    BY DEF Quantity
  <1>4. QED
    BY <1>1, <1>2, <1>3

\* A string or byte array is its length, and words.
LEMMA DataShape ==
  ASSUME NEW n \in Nat
  PROVE  /\ Data(n) \in Seq(Word)
         /\ WordsFor(n) \in Nat
         /\ Len(Data(n)) = 1 + WordsFor(n)
         /\ Data(n)[1] = Quantity(n)
  <1>1. WordsFor(n) \in Nat
    BY DEF WordsFor, PARAMETER_LENGTH
  <1>2. Opaque \in Word
    BY DEF Opaque, Word, UInt16, UINT16_MAX
  <1> DEFINE u == << Quantity(n) >>
             t == [i \in 1 .. WordsFor(n) |-> Opaque]
  <1>3. t \in Seq(Word) /\ Len(t) = WordsFor(n)
    BY <1>1, <1>2
  <1>4. u \in Seq(Word) /\ Len(u) = 1 /\ u[1] = Quantity(n)
    BY QuantityType
  <1>5. Data(n) = u \o t
    BY DEF Data
  <1> HIDE DEF u, t
  <1>6. /\ u \o t \in Seq(Word)
        /\ Len(u \o t) = Len(u) + Len(t)
        /\ \A j \in 1 .. Len(u) : (u \o t)[j] = u[j]
    BY <1>3, <1>4, Joined
  <1>7. QED
    BY <1>1, <1>3, <1>4, <1>5, <1>6

\* Parts after their offsets.
LEMMA OffsetsShape ==
  ASSUME NEW parts \in Seq(Seq(Word))
  PROVE  /\ WithOffsets(parts) \in Seq(Word)
         /\ Len(WithOffsets(parts)) = Len(parts) + Before(parts, Len(parts))
         /\ \A i \in 1 .. Len(parts) :
              /\ Before(parts, i - 1) \in Nat
              /\ WithOffsets(parts)[i]
                    = Quantity(PARAMETER_LENGTH * (Len(parts) + Before(parts, i - 1)))
              /\ \A j \in 1 .. Len(parts[i]) :
                    /\ Len(parts) + Before(parts, i - 1) + j <= Len(WithOffsets(parts))
                    /\ WithOffsets(parts)[Len(parts) + Before(parts, i - 1) + j] = parts[i][j]
  <1> DEFINE n  == Len(parts)
             at(i) == PARAMETER_LENGTH * n + SizeUpTo(parts, i - 1)
             u == [i \in 1 .. n |-> Quantity(at(i))]
             t == FlattenSeq(parts)
  <1>1. n \in Nat /\ DOMAIN parts = 1 .. n
    OBVIOUS
  <1>2. /\ Before(parts, 0) = 0
        /\ \A i \in 0 .. n : Before(parts, i) \in Nat
        /\ \A i \in 1 .. n : /\ Len(parts[i]) \in Nat
                             /\ Before(parts, i) = Before(parts, i - 1) + Len(parts[i])
        /\ Before(parts, n) = Len(t)
    BY PartStarts
  <1>3. \A i \in 1 .. n : i - 1 \in 0 .. n
    BY <1>1
  <1>4. ASSUME NEW i \in 1 .. n
        PROVE  at(i) \in Nat /\ at(i) = PARAMETER_LENGTH * (n + Before(parts, i - 1))
    <2>1. SizeUpTo(parts, i - 1) = PARAMETER_LENGTH * Before(parts, i - 1)
      BY DEF SizeUpTo, SizeOf, Before
    <2>2. Before(parts, i - 1) \in Nat
      BY <1>2, <1>3
    <2>3. QED
      BY <1>1, <2>1, <2>2 DEF PARAMETER_LENGTH
  <1>5. WithOffsets(parts) = u \o t
    BY <1>1 DEF WithOffsets
  <1> HIDE DEF at
  <1>6. u \in Seq(Word) /\ Len(u) = n /\ \A i \in 1 .. n : u[i] = Quantity(at(i))
    BY <1>1, <1>4, QuantityType
  <1>7. /\ t \in Seq(Word)
        /\ \A i \in 1 .. n : /\ Before(parts, i) <= Len(t)
                             /\ \A j \in 1 .. Len(parts[i]) :
                                   t[Before(parts, i - 1) + j] = parts[i][j]
    <2>1. SubSeq(parts, 1, n) = parts
      OBVIOUS
    <2>2. Placed(Word, parts, Len(parts))
      <3>1. Len(parts) \in 0 .. Len(parts)
        OBVIOUS
      <3>2. QED
        BY <3>1, PartsPlaced
    <2>3. QED
      BY <2>1, <2>2 DEF Placed, Before
  <1> HIDE DEF u, t, n
  <1>8. /\ u \o t \in Seq(Word)
        /\ Len(t) \in Nat
        /\ Len(u \o t) = n + Len(t)
        /\ \A j \in 1 .. n : (u \o t)[j] = u[j]
        /\ \A j \in 1 .. Len(t) : (u \o t)[n + j] = t[j]
    <2>1. t \in Seq(Word) /\ u \in Seq(Word) /\ Len(u) = n
      BY <1>6, <1>7
    <2>2. \A x, y \in Seq(Word) : /\ x \o y \in Seq(Word)
                                  /\ Len(y) \in Nat
                                  /\ Len(x \o y) = Len(x) + Len(y)
                                  /\ \A j \in 1 .. Len(x) : (x \o y)[j] = x[j]
                                  /\ \A j \in 1 .. Len(y) : (x \o y)[Len(x) + j] = y[j]
      BY Joined
    <2>3. QED
      BY <2>1, <2>2
  <1>9. ASSUME NEW i \in 1 .. n
        PROVE  /\ Before(parts, i - 1) \in Nat
               /\ (u \o t)[i] = Quantity(PARAMETER_LENGTH * (n + Before(parts, i - 1)))
               /\ \A j \in 1 .. Len(parts[i]) :
                    /\ n + Before(parts, i - 1) + j <= Len(u \o t)
                    /\ (u \o t)[n + Before(parts, i - 1) + j] = parts[i][j]
    <2>1. Before(parts, i - 1) \in Nat
      BY <1>2, <1>3
    <2>2. (u \o t)[i] = Quantity(PARAMETER_LENGTH * (n + Before(parts, i - 1)))
      BY <1>4, <1>6, <1>8
    <2>3. ASSUME NEW j \in 1 .. Len(parts[i])
          PROVE  /\ n + Before(parts, i - 1) + j <= Len(u \o t)
                 /\ (u \o t)[n + Before(parts, i - 1) + j] = parts[i][j]
      <3> DEFINE k == Before(parts, i - 1) + j
      <3>1. k \in 1 .. Len(t) /\ n + k = n + Before(parts, i - 1) + j
        <4>1. Before(parts, i) = Before(parts, i - 1) + Len(parts[i]) /\ Len(parts[i]) \in Nat
          BY <1>2
        <4>2. Before(parts, i) <= Len(t)
          BY <1>7
        <4>3. Before(parts, i - 1) + Len(parts[i]) <= Len(t) /\ Len(t) \in Nat
          BY <1>8, <4>1, <4>2, Zenon
        <4>4. k \in 1 .. Len(t)
          BY <2>1, <4>1, <4>3, Within, Zenon
        <4>5. n + k = n + Before(parts, i - 1) + j
          BY <1>1, <2>1
        <4>6. QED
          BY <4>4, <4>5
      <3>2. t[k] = parts[i][j]
        BY <1>7
      <3> HIDE DEF k
      <3>3. (u \o t)[n + k] = t[k] /\ n + k <= Len(u \o t)
        BY <1>1, <1>8, <3>1
      <3>4. QED
        BY <3>1, <3>2, <3>3
    <2>4. QED
      BY <2>1, <2>2, <2>3
  <1>10. Len(u \o t) = n + Before(parts, n)
    BY <1>2, <1>8
  <1>11. QED
    BY <1>5, <1>8, <1>9, <1>10, Zenon DEF n

(***************************************************************************)
(* The tail of each parameter.                                             *)
(***************************************************************************)

\* The kinds there are, and which length a string or byte array has.
LEMMA KindType ==
  ASSUME NEW c \in Transactions, NEW i \in DOMAIN Signature(c.selector)
  PROVE  /\ Signature(c.selector)[i] \in {"word", "data", "array", "tuples"}
         /\ c.lens \in Seq(Nat)
         /\ Len(c.lens) \in Nat
         /\ c.inputs \in Nat
         /\ Signature(c.selector)[i] = "data"
              => DataIndex(c, i) \in 1 .. Len(c.lens)
         /\ c.selector \in OneData => Len(c.lens) = 1
         /\ c.selector \in TwoData => Len(c.lens) = 2
  <1> DEFINE kinds == Signature(c.selector)
  <1>1. c.selector \in OneData \cup TwoData \cup OneArray \cup NoData
    BY Selectors DEF Transactions
  <1>2. kinds[i] \in {"word", "data", "array", "tuples"}
    BY <1>1, Signatures DEF OneData, TwoData, OneArray, NoData
  <1>3. c.lens \in Seq(Nat) /\ Len(c.lens) \in Nat /\ c.inputs \in Nat
    BY DEF Transactions
  <1>4. c.selector \in OneData \cup TwoData => \A j \in DOMAIN kinds : kinds[j] # "array"
    BY Signatures DEF OneData, TwoData
  <1>5. c.selector \in OneData \cup TwoData => Len(c.lens) = DataIndex(c, Len(kinds))
    BY <1>4 DEF Transactions
  <1>6. /\ c.selector \in OneData => Len(c.lens) = 1
        /\ c.selector \in TwoData => Len(c.lens) = 2
    BY <1>5, DataIndexes
  <1>7. kinds[i] = "data" => DataIndex(c, i) \in 1 .. Len(c.lens)
    <2>1. CASE c.selector \in {"85f6d155", "f7a16963", "acf1a841", "c47f0027"}
      <3>1. kinds[i] = "data" => i = 1
        BY <2>1, Signatures
      <3>2. QED
        BY <1>6, <2>1, <3>1, DataIndexes DEF OneData
    <2>2. CASE c.selector \in {"8b95dd71", "304e6ade"}
      <3>1. kinds[i] = "data" => i = IF c.selector = "8b95dd71" THEN 3 ELSE 2
        BY <2>2, Signatures
      <3>2. QED
        BY <1>6, <2>2, <3>1, DataIndexes DEF OneData
    <2>3. CASE c.selector \in {"8bbedf75", "224199c2"}
      <3>1. kinds[i] = "data" => i \in {1, 3}
        BY <2>3, Signatures
      <3>2. QED
        BY <1>6, <2>3, <3>1, DataIndexes DEF TwoData
    <2>4. CASE c.selector = "10f13a8c"
      <3>1. kinds[i] = "data" => i \in {2, 3}
        BY <2>4, Signatures
      <3>2. DataIndex(c, 2) = 1 /\ DataIndex(c, 3) = 2
        BY <2>4, DataIndexes
      <3>3. Len(c.lens) = 2
        BY <1>6, <2>4 DEF TwoData
      <3>4. QED
        BY <3>1, <3>2, <3>3
    <2>5. CASE c.selector \in OneArray \cup NoData
      <3>1. kinds[i] # "data"
        BY <2>5, Signatures DEF OneArray, NoData
      <3>2. QED
        BY <3>1
    <2>6. QED
      BY <1>1, <2>1, <2>2, <2>3, <2>4, <2>5 DEF OneData, TwoData
  <1>8. QED
    BY <1>2, <1>3, <1>6, <1>7

\* The elements of an array.
LEMMA ElementsType ==
  ASSUME NEW c \in Transactions
  PROVE  /\ ElementParts(c) \in Seq(Seq(Word))
         /\ Len(ElementParts(c)) = Len(c.lens)
         /\ \A e \in 1 .. Len(c.lens) :
              /\ c.lens[e] \in Nat
              /\ WordsFor(c.lens[e]) \in Nat
              /\ Len(ElementParts(c)[e]) = 1 + WordsFor(c.lens[e])
              /\ ElementParts(c)[e][1] = Quantity(c.lens[e])
  <1>1. c.lens \in Seq(Nat) /\ Len(c.lens) \in Nat /\ DOMAIN c.lens = 1 .. Len(c.lens)
    BY DEF Transactions
  <1>2. \A e \in 1 .. Len(c.lens) : c.lens[e] \in Nat
    BY <1>1
  <1>3. \A e \in 1 .. Len(c.lens) : Data(c.lens[e]) \in Seq(Word)
    BY <1>2, DataShape
  <1>4. ElementParts(c) = [e \in 1 .. Len(c.lens) |-> Data(c.lens[e])]
    BY <1>1 DEF ElementParts
  <1>5. ElementParts(c) \in Seq(Seq(Word)) /\ Len(ElementParts(c)) = Len(c.lens)
    BY <1>1, <1>3, <1>4
  <1>6. ASSUME NEW e \in 1 .. Len(c.lens)
        PROVE  /\ WordsFor(c.lens[e]) \in Nat
               /\ Len(ElementParts(c)[e]) = 1 + WordsFor(c.lens[e])
               /\ ElementParts(c)[e][1] = Quantity(c.lens[e])
    <2>1. ElementParts(c)[e] = Data(c.lens[e])
      BY <1>4
    <2>2. c.lens[e] \in Nat
      BY <1>2
    <2>3. QED
      BY <2>1, <2>2, DataShape
  <1>7. QED
    BY <1>1, <1>2, <1>5, <1>6

\* A number and what comes after it.
LEMMA AfterNumber ==
  ASSUME NEW n \in Nat, NEW t \in Seq(Word)
  PROVE  /\ << Quantity(n) >> \o t \in Seq(Word)
         /\ Len(<< Quantity(n) >> \o t) = 1 + Len(t)
         /\ (<< Quantity(n) >> \o t)[1] = Quantity(n)
         /\ \A j \in 1 .. Len(t) : (<< Quantity(n) >> \o t)[1 + j] = t[j]
  <1> DEFINE u == << Quantity(n) >>
  <1>1. u \in Seq(Word) /\ Len(u) = 1 /\ u[1] = Quantity(n)
    BY QuantityType
  <1> HIDE DEF u
  <1>2. /\ u \o t \in Seq(Word)
        /\ Len(u \o t) = Len(u) + Len(t)
        /\ \A j \in 1 .. Len(u) : (u \o t)[j] = u[j]
        /\ \A j \in 1 .. Len(t) : (u \o t)[Len(u) + j] = t[j]
    BY <1>1, Joined
  <1>3. QED
    BY <1>1, <1>2 DEF u

\* A string or byte array.
LEMMA DataTail ==
  ASSUME NEW c \in Transactions, NEW i \in DOMAIN Signature(c.selector),
         Signature(c.selector)[i] = "data"
  PROVE  LET n == c.lens[DataIndex(c, i)]
         IN /\ n \in Nat
            /\ TailOf(c, i) \in Seq(Word)
            /\ Len(TailOf(c, i)) = 1 + WordsFor(n)
            /\ TailOf(c, i)[1] = Quantity(n)
  <1>1. c.lens[DataIndex(c, i)] \in Nat
    BY KindType
  <1>2. TailOf(c, i) = Data(c.lens[DataIndex(c, i)])
    BY DEF TailOf
  <1>3. QED
    BY <1>1, <1>2, DataShape

\* An array: the number of its elements, where they are, and each of them.
LEMMA ArrayTail ==
  ASSUME NEW c \in Transactions, NEW i \in DOMAIN Signature(c.selector),
         Signature(c.selector)[i] = "array"
  PROVE  LET n == Len(c.lens)
         IN /\ TailOf(c, i) \in Seq(Word)
            /\ Len(TailOf(c, i)) = 1 + n + Before(ElementParts(c), n)
            /\ TailOf(c, i)[1] = Quantity(n)
            /\ \A e \in 1 .. n :
                 /\ Before(ElementParts(c), e - 1) \in Nat
                 /\ TailOf(c, i)[1 + e]
                       = Quantity(PARAMETER_LENGTH * (n + Before(ElementParts(c), e - 1)))
                 /\ 1 + n + Before(ElementParts(c), e - 1) + 1 <= Len(TailOf(c, i))
                 /\ TailOf(c, i)[1 + n + Before(ElementParts(c), e - 1) + 1]
                       = Quantity(c.lens[e])
  <1> DEFINE n == Len(c.lens)
             parts == ElementParts(c)
             t == WithOffsets(parts)
  <1>1. n \in Nat
    BY KindType
  <1>2. TailOf(c, i) = << Quantity(n) >> \o t
    BY DEF TailOf
  <1>3. /\ parts \in Seq(Seq(Word))
        /\ Len(parts) = n
        /\ \A e \in 1 .. n : /\ Len(parts[e]) \in Nat
                             /\ 1 <= Len(parts[e])
                             /\ parts[e][1] = Quantity(c.lens[e])
    <2>1. parts \in Seq(Seq(Word)) /\ Len(parts) = n
      BY ElementsType
    <2>2. ASSUME NEW e \in 1 .. n
          PROVE  /\ Len(parts[e]) \in Nat /\ 1 <= Len(parts[e])
                 /\ parts[e][1] = Quantity(c.lens[e])
      <3>1. /\ WordsFor(c.lens[e]) \in Nat
            /\ Len(parts[e]) = 1 + WordsFor(c.lens[e])
            /\ parts[e][1] = Quantity(c.lens[e])
        BY ElementsType
      <3> HIDE DEF parts
      <3>2. QED
        BY <3>1
    <2>3. QED
      BY <2>1, <2>2
  <1>4. /\ t \in Seq(Word)
        /\ Len(t) = n + Before(parts, n)
        /\ \A e \in 1 .. n :
             /\ Before(parts, e - 1) \in Nat
             /\ t[e] = Quantity(PARAMETER_LENGTH * (n + Before(parts, e - 1)))
             /\ \A j \in 1 .. Len(parts[e]) :
                   /\ n + Before(parts, e - 1) + j <= Len(t)
                   /\ t[n + Before(parts, e - 1) + j] = parts[e][j]
    <2> HIDE DEF n, parts
    <2>1. /\ t \in Seq(Word)
          /\ Len(t) = Len(parts) + Before(parts, Len(parts))
          /\ \A e \in 1 .. Len(parts) :
               /\ Before(parts, e - 1) \in Nat
               /\ t[e] = Quantity(PARAMETER_LENGTH * (Len(parts) + Before(parts, e - 1)))
               /\ \A j \in 1 .. Len(parts[e]) :
                     /\ Len(parts) + Before(parts, e - 1) + j <= Len(t)
                     /\ t[Len(parts) + Before(parts, e - 1) + j] = parts[e][j]
      BY <1>3, OffsetsShape, Zenon
    <2> HIDE DEF t
    <2>2. Len(parts) = n
      BY <1>3
    <2>3. QED
      BY <2>1, <2>2, Zenon
  <1>5. Len(t) \in Nat
    BY <1>4
  <1> HIDE DEF n, parts, t
  <1>6. /\ << Quantity(n) >> \o t \in Seq(Word)
        /\ Len(<< Quantity(n) >> \o t) = 1 + Len(t)
        /\ (<< Quantity(n) >> \o t)[1] = Quantity(n)
        /\ \A j \in 1 .. Len(t) : (<< Quantity(n) >> \o t)[1 + j] = t[j]
    BY <1>1, <1>4, AfterNumber
  <1> DEFINE a == << Quantity(n) >> \o t
  <1> HIDE DEF a
  <1>7. ASSUME NEW e \in 1 .. n
        PROVE  /\ Before(parts, e - 1) \in Nat
               /\ a[1 + e] = Quantity(PARAMETER_LENGTH * (n + Before(parts, e - 1)))
               /\ 1 + n + Before(parts, e - 1) + 1 <= Len(a)
               /\ a[1 + n + Before(parts, e - 1) + 1] = Quantity(c.lens[e])
    <2> DEFINE b == Before(parts, e - 1)
    <2>1. b \in Nat /\ t[e] = Quantity(PARAMETER_LENGTH * (n + b))
      BY <1>4
    <2>2. 1 \in 1 .. Len(parts[e]) /\ parts[e][1] = Quantity(c.lens[e])
      BY <1>3
    <2>3. n + b + 1 <= Len(t) /\ t[n + b + 1] = Quantity(c.lens[e])
      BY <1>4, <2>2
    <2> HIDE DEF b
    <2>4. e \in 1 .. Len(t) /\ n + b + 1 \in 1 .. Len(t)
      BY <1>1, <1>5, <2>1, <2>3
    <2>5. a[1 + e] = t[e] /\ a[1 + (n + b + 1)] = t[n + b + 1] /\ Len(a) = 1 + Len(t)
      BY <1>6, <2>4 DEF a
    <2>6. 1 + (n + b + 1) = 1 + n + b + 1 /\ 1 + n + b + 1 <= Len(a)
      BY <1>1, <1>5, <2>1, <2>3, <2>5
    <2>7. QED
      BY <2>1, <2>3, <2>5, <2>6 DEF b
  <1>8. Len(a) = 1 + n + Before(parts, n)
    <2>1. Before(parts, n) \in Nat
      BY <1>1, <1>3, PartStarts
    <2>2. QED
      BY <1>1, <1>4, <1>6, <2>1 DEF a
  <1>9. QED
    BY <1>2, <1>6, <1>7, <1>8 DEF a, n, parts

\* The inputs of a claim: their number, and more words.
LEMMA TuplesTail ==
  ASSUME NEW c \in Transactions, NEW i \in DOMAIN Signature(c.selector),
         Signature(c.selector)[i] = "tuples"
  PROVE  /\ TailOf(c, i) \in Seq(Word)
         /\ Len(TailOf(c, i)) \in Nat
         /\ 1 <= Len(TailOf(c, i))
  <1> DEFINE parts == [t \in 1 .. c.inputs |-> Tuple]
  <1>1. c.inputs \in Nat
    BY KindType
  <1>2. Tuple \in Seq(Word)
    <2>1. Data(40) \in Seq(Word)
      BY DataShape
    <2>2. << Data(40), Data(40) >> \in Seq(Seq(Word))
      BY <2>1
    <2>3. QED
      BY <2>2, OffsetsShape DEF Tuple
  <1>3. parts \in Seq(Seq(Word))
    BY <1>1, <1>2
  <1>4. TailOf(c, i) = << Quantity(c.inputs) >> \o WithOffsets(parts)
    BY DEF TailOf
  <1> HIDE DEF parts
  <1>5. WithOffsets(parts) \in Seq(Word)
    BY <1>3, OffsetsShape
  <1>6. Len(WithOffsets(parts)) \in Nat
    BY <1>5
  <1>7. QED
    BY <1>1, <1>4, <1>5, <1>6, AfterNumber

\* Each tail is a sequence of words, and empty for a static parameter.
LEMMA TailType ==
  ASSUME NEW c \in Transactions, NEW i \in DOMAIN Signature(c.selector)
  PROVE  /\ TailOf(c, i) \in Seq(Word)
         /\ Len(TailOf(c, i)) \in Nat
         /\ Signature(c.selector)[i] = "word" => Len(TailOf(c, i)) = 0
  <1>1. CASE Signature(c.selector)[i] = "word"
    <2>1. TailOf(c, i) = << >>
      BY <1>1 DEF TailOf
    <2>2. QED
      BY <2>1
  <1>2. CASE Signature(c.selector)[i] # "word"
    <2>1. TailOf(c, i) \in Seq(Word)
      BY <1>2, KindType, DataTail, ArrayTail, TuplesTail
    <2>2. QED
      BY <1>2, <2>1
  <1>3. QED
    BY <1>1, <1>2

(***************************************************************************)
(* The calldata.                                                           *)
(***************************************************************************)

\* The number of words before the tail of parameter i.
TailWord(c, i) == Len(Signature(c.selector)) + Before(Tails(c), i - 1)

\* The tails come one after the other, behind the head.
LEMMA TailWords ==
  ASSUME NEW c \in Transactions
  PROVE  LET h == Len(Signature(c.selector))
         IN /\ h \in 1 .. 6
            /\ DOMAIN Signature(c.selector) = 1 .. h
            /\ Tails(c) \in Seq(Seq(Word))
            /\ Len(Tails(c)) = h
            /\ TailWord(c, 1) = h
            /\ \A i \in 1 .. h :
                 /\ TailWord(c, i) \in Nat
                 /\ TailAt(c, i) = PARAMETER_LENGTH * TailWord(c, i)
                 /\ TailWord(c, i + 1) = TailWord(c, i) + Len(TailOf(c, i))
  <1> DEFINE h == Len(Signature(c.selector))
  <1>1. h \in 1 .. 6 /\ DOMAIN Signature(c.selector) = 1 .. h
    <2>1. c.selector \in OneData \cup TwoData \cup OneArray \cup NoData
      BY Selectors DEF Transactions
    <2>2. QED
      BY <2>1, Signatures DEF OneData, TwoData, OneArray, NoData
  <1> HIDE DEF h
  <1>2. Tails(c) = [i \in 1 .. h |-> TailOf(c, i)]
    BY <1>1 DEF Tails
  <1>3. \A i \in 1 .. h : TailOf(c, i) \in Seq(Word)
    BY <1>1, TailType
  <1>4. /\ Tails(c) \in Seq(Seq(Word))
        /\ Len(Tails(c)) = h
        /\ \A i \in 1 .. h : Tails(c)[i] = TailOf(c, i)
    BY <1>1, <1>2, <1>3
  <1>5. /\ Before(Tails(c), 0) = 0
        /\ \A n \in 0 .. h : Before(Tails(c), n) \in Nat
        /\ \A n \in 1 .. h : Before(Tails(c), n) = Before(Tails(c), n - 1) + Len(TailOf(c, n))
    BY <1>4, PartStarts
  <1>6. TailWord(c, 1) = h
    BY <1>1, <1>5 DEF TailWord, h
  <1>7. ASSUME NEW i \in 1 .. h
        PROVE  /\ TailWord(c, i) \in Nat
               /\ TailAt(c, i) = PARAMETER_LENGTH * TailWord(c, i)
               /\ TailWord(c, i + 1) = TailWord(c, i) + Len(TailOf(c, i))
    <2>1. i - 1 \in 0 .. h /\ (i + 1) - 1 = i
      BY <1>1
    <2> DEFINE b == Before(Tails(c), i - 1)
    <2>2. b \in Nat /\ Before(Tails(c), i) = b + Len(TailOf(c, i))
      BY <1>5, <2>1
    <2>3. Len(TailOf(c, i)) \in Nat
      BY <1>1, TailType
    <2>4. TailAt(c, i) = PARAMETER_LENGTH * h + PARAMETER_LENGTH * b
      BY DEF TailAt, SizeUpTo, SizeOf, Before, h
    <2>5. TailWord(c, i) = h + b /\ TailWord(c, i + 1) = h + Before(Tails(c), i)
      BY <2>1 DEF TailWord, h
    <2> HIDE DEF b
    <2>6. QED
      BY <1>1, <2>2, <2>3, <2>4, <2>5 DEF PARAMETER_LENGTH
  <1>8. QED
    BY <1>1, <1>4, <1>6, <1>7 DEF h

\* The words of the head, and those of each tail at its place.
LEMMA EncodeShape ==
  ASSUME NEW c \in Transactions
  PROVE  LET h == Len(Signature(c.selector))
         IN /\ Encode(c) \in Seq(Word)
            /\ Len(Encode(c)) = TailWord(c, h + 1)
            /\ \A i \in 1 .. h :
                 /\ Encode(c)[i] = IF Signature(c.selector)[i] = "word" THEN Static(c)
                                   ELSE Quantity(TailAt(c, i))
                 /\ \A j \in 1 .. Len(TailOf(c, i)) :
                      /\ TailWord(c, i) + j <= Len(Encode(c))
                      /\ Encode(c)[TailWord(c, i) + j] = TailOf(c, i)[j]
  <1> DEFINE h == Len(Signature(c.selector))
             W(i) == IF Signature(c.selector)[i] = "word" THEN Static(c) ELSE Quantity(TailAt(c, i))
             u == [i \in 1 .. h |-> W(i)]
             t == FlattenSeq(Tails(c))
  <1>1. /\ h \in 1 .. 6
        /\ DOMAIN Signature(c.selector) = 1 .. h
        /\ Tails(c) \in Seq(Seq(Word))
        /\ Len(Tails(c)) = h
        /\ \A i \in 1 .. h : /\ TailWord(c, i) \in Nat
                             /\ TailAt(c, i) = PARAMETER_LENGTH * TailWord(c, i)
    BY TailWords
  <1>2. Encode(c) = u \o t
    BY <1>1 DEF Encode
  <1>3. Static(c) \in Word
    BY DEF Static, Transactions, Word, UInt16, UINT16_MAX
  <1>4. \A i \in 1 .. h : Quantity(TailAt(c, i)) \in Word
    <2>1. \A i \in 1 .. h : TailAt(c, i) \in Nat
      BY <1>1 DEF PARAMETER_LENGTH
    <2>2. QED
      BY <2>1, QuantityType
  <1>5. \A i \in 1 .. h : W(i) \in Word
    BY <1>3, <1>4
  <1>6. t \in Seq(Word) /\ Len(t) = Before(Tails(c), h)
        /\ \A i \in 1 .. h : /\ Before(Tails(c), i) <= Len(t)
                             /\ \A j \in 1 .. Len(Tails(c)[i]) :
                                   t[Before(Tails(c), i - 1) + j] = Tails(c)[i][j]
    <2>1. SubSeq(Tails(c), 1, h) = Tails(c)
      BY <1>1
    <2>2. Placed(Word, Tails(c), h)
      BY <1>1, PartsPlaced
    <2>3. QED
      BY <2>1, <2>2 DEF Placed, Before
  <1>7. \A i \in 1 .. h : Tails(c)[i] = TailOf(c, i) /\ Len(TailOf(c, i)) \in Nat
    BY <1>1, TailType DEF Tails
  <1> HIDE DEF h, W, t
  <1>8. u \in Seq(Word) /\ Len(u) = h /\ \A i \in 1 .. h : u[i] = W(i)
    BY <1>1, <1>5
  <1> HIDE DEF u
  <1>9. /\ u \o t \in Seq(Word)
        /\ Len(t) \in Nat
        /\ Len(u \o t) = h + Len(t)
        /\ \A j \in 1 .. h : (u \o t)[j] = u[j]
        /\ \A j \in 1 .. Len(t) : (u \o t)[h + j] = t[j]
    <2>1. u \in Seq(Word) /\ t \in Seq(Word) /\ Len(u) = h
      BY <1>6, <1>8
    <2>2. \A x, y \in Seq(Word) : /\ x \o y \in Seq(Word)
                                  /\ Len(y) \in Nat
                                  /\ Len(x \o y) = Len(x) + Len(y)
                                  /\ \A j \in 1 .. Len(x) : (x \o y)[j] = x[j]
                                  /\ \A j \in 1 .. Len(y) : (x \o y)[Len(x) + j] = y[j]
      BY Joined
    <2>3. QED
      BY <2>1, <2>2
  <1>10. Len(u \o t) = TailWord(c, h + 1)
    <2>1. (h + 1) - 1 = h
      BY <1>1
    <2>2. QED
      BY <1>6, <1>9, <2>1 DEF TailWord, h
  <1>11. ASSUME NEW i \in 1 .. h, NEW j \in 1 .. Len(TailOf(c, i))
         PROVE  /\ TailWord(c, i) + j <= Len(u \o t)
                /\ (u \o t)[TailWord(c, i) + j] = TailOf(c, i)[j]
    <2> DEFINE b == Before(Tails(c), i - 1)
    <2>1. /\ b \in Nat
          /\ Before(Tails(c), i) = b + Len(TailOf(c, i))
          /\ Len(TailOf(c, i)) \in Nat
      <3>1. i - 1 \in 0 .. h
        BY <1>1
      <3>2. b \in Nat
        BY <1>1, <3>1, PartStarts
      <3>3. Before(Tails(c), i) = b + Len(Tails(c)[i])
        BY <1>1, PartStarts
      <3>4. QED
        BY <1>7, <3>2, <3>3
    <2>2. TailWord(c, i) = h + b
      BY DEF TailWord, h
    <2>3. Before(Tails(c), i) <= Len(t) /\ t[b + j] = TailOf(c, i)[j]
      BY <1>6, <1>7
    <2> HIDE DEF b
    <2>4. b + j \in 1 .. Len(t) /\ h + b + j = h + (b + j) /\ h + (b + j) <= h + Len(t)
      <3>1. b + Len(TailOf(c, i)) <= Len(t)
        BY <2>1, <2>3
      <3>2. b + j \in 1 .. Len(t)
        BY <1>9, <2>1, <3>1, Within, Zenon
      <3>3. h \in Nat /\ b \in Nat /\ j \in Nat /\ Len(t) \in Nat
        BY <1>1, <1>9, <2>1
      <3>4. h + b + j = h + (b + j)
        BY <3>3
      <3>5. h + (b + j) <= h + Len(t)
        BY <3>2, <3>3
      <3>6. QED
        BY <3>2, <3>4, <3>5
    <2>5. (u \o t)[h + (b + j)] = t[b + j]
      BY <1>9, <2>4
    <2>6. QED
      BY <1>9, <2>2, <2>3, <2>4, <2>5
  <1>12. QED
    BY <1>2, <1>8, <1>9, <1>10, <1>11 DEF h, W

\* The position of word n in the calldata.
Position(n) == SELECTOR_SIZE + PARAMETER_LENGTH * (n - 1)

\* The parameters with a tail that says how long it is.
Sized(c, i) == Signature(c.selector)[i] \in {"data", "array"}

\* The number a tail starts with.
NumberOf(c, i) ==
    IF Signature(c.selector)[i] = "data" THEN c.lens[DataIndex(c, i)] ELSE Len(c.lens)

\* A supported call is within reach of 16-bit positions, and of what is in its
\* head and of what its tails start with the parser can read the numbers.
LEMMA CallWords ==
  ASSUME NEW c \in Transactions, Supported(c)
  PROVE  LET h == Len(Signature(c.selector))
         IN /\ h \in 1 .. 6
            /\ DOMAIN Signature(c.selector) = 1 .. h
            /\ Encode(c) \in Seq(Word)
            /\ Len(Encode(c)) \in Nat
            /\ Position(Len(Encode(c)) + 1) <= UINT16_MAX
            /\ TailWord(c, 1) = h
            /\ \A i \in 1 .. h :
                 /\ TailWord(c, i) \in Nat
                 /\ TailWord(c, i + 1) = TailWord(c, i) + Len(TailOf(c, i))
                 /\ Len(TailOf(c, i)) \in Nat
                 /\ Signature(c.selector)[i] = "word"
                      => Len(TailOf(c, i)) = 0 /\ Encode(c)[i] = Static(c)
                 /\ Signature(c.selector)[i] # "word"
                      => /\ Encode(c)[i] = Quantity(PARAMETER_LENGTH * TailWord(c, i))
                         /\ 1 <= Len(TailOf(c, i))
                         /\ TailWord(c, i) + Len(TailOf(c, i)) <= Len(Encode(c))
                 /\ Sized(c, i) => Encode(c)[TailWord(c, i) + 1] = Quantity(NumberOf(c, i))
  <1> DEFINE h == Len(Signature(c.selector))
             kind(i) == Signature(c.selector)[i]
  <1>1. /\ h \in 1 .. 6
        /\ DOMAIN Signature(c.selector) = 1 .. h
        /\ TailWord(c, 1) = h
        /\ \A i \in 1 .. h :
             /\ TailWord(c, i) \in Nat
             /\ TailAt(c, i) = PARAMETER_LENGTH * TailWord(c, i)
             /\ TailWord(c, i + 1) = TailWord(c, i) + Len(TailOf(c, i))
    BY TailWords
  <1>2. /\ Encode(c) \in Seq(Word)
        /\ Len(Encode(c)) = TailWord(c, h + 1)
        /\ \A i \in 1 .. h :
             /\ Encode(c)[i] = IF kind(i) = "word" THEN Static(c) ELSE Quantity(TailAt(c, i))
             /\ \A j \in 1 .. Len(TailOf(c, i)) :
                  /\ TailWord(c, i) + j <= Len(Encode(c))
                  /\ Encode(c)[TailWord(c, i) + j] = TailOf(c, i)[j]
    BY EncodeShape
  <1>3. Len(Encode(c)) \in Nat
    BY <1>2
  <1>4. Position(Len(Encode(c)) + 1) <= UINT16_MAX
    <2>1. SELECTOR_SIZE + SizeOf(Encode(c)) <= UINT16_MAX
      BY DEF Supported
    <2>2. Position(Len(Encode(c)) + 1) = SELECTOR_SIZE + SizeOf(Encode(c))
      BY <1>3 DEF Position, SizeOf, PARAMETER_LENGTH, SELECTOR_SIZE
    <2>3. QED
      BY <2>1, <2>2
  <1> HIDE DEF h, kind
  <1>5. ASSUME NEW i \in 1 .. h
        PROVE  /\ Len(TailOf(c, i)) \in Nat
               /\ kind(i) = "word" => Len(TailOf(c, i)) = 0
               /\ kind(i) # "word" => 1 <= Len(TailOf(c, i))
               /\ Sized(c, i) => TailOf(c, i)[1] = Quantity(NumberOf(c, i))
    <2>1. /\ kind(i) \in {"word", "data", "array", "tuples"}
          /\ i \in DOMAIN Signature(c.selector)
      BY <1>1, KindType DEF h, kind
    <2>2. Len(TailOf(c, i)) \in Nat /\ (kind(i) = "word" => Len(TailOf(c, i)) = 0)
      BY <2>1, TailType DEF kind
    <2>3. CASE kind(i) = "data"
      <3>1. /\ WordsFor(c.lens[DataIndex(c, i)]) \in Nat
            /\ Len(TailOf(c, i)) = 1 + WordsFor(c.lens[DataIndex(c, i)])
            /\ TailOf(c, i)[1] = Quantity(c.lens[DataIndex(c, i)])
        BY <2>1, <2>3, DataTail, DataShape DEF kind
      <3>2. QED
        BY <2>2, <2>3, <3>1 DEF NumberOf, kind
    <2>4. CASE kind(i) = "array"
      <3>1. /\ Len(TailOf(c, i)) = 1 + Len(c.lens) + Before(ElementParts(c), Len(c.lens))
            /\ TailOf(c, i)[1] = Quantity(Len(c.lens))
            /\ Len(c.lens) \in Nat
        BY <2>1, <2>4, ArrayTail, KindType DEF kind
      <3>2. Before(ElementParts(c), Len(c.lens)) \in Nat
        BY <3>1, ElementsType, PartStarts
      <3>3. 1 <= Len(TailOf(c, i))
        BY <3>1, <3>2
      <3>4. QED
        BY <2>2, <2>4, <3>1, <3>3 DEF NumberOf, kind
    <2>5. CASE kind(i) = "tuples"
      <3>1. 1 <= Len(TailOf(c, i))
        BY <2>1, <2>5, TuplesTail DEF kind
      <3>2. QED
        BY <2>2, <2>5, <3>1 DEF Sized, kind
    <2>6. CASE kind(i) = "word"
      BY <2>2, <2>6 DEF Sized, kind
    <2>7. QED
      BY <2>1, <2>3, <2>4, <2>5, <2>6
  <1>6. ASSUME NEW i \in 1 .. h
        PROVE  /\ kind(i) # "word"
                    => /\ Encode(c)[i] = Quantity(PARAMETER_LENGTH * TailWord(c, i))
                       /\ TailWord(c, i) + Len(TailOf(c, i)) <= Len(Encode(c))
               /\ kind(i) = "word" => Encode(c)[i] = Static(c)
               /\ Sized(c, i) => Encode(c)[TailWord(c, i) + 1] = Quantity(NumberOf(c, i))
    <2>1. kind(i) # "word" => /\ 1 \in 1 .. Len(TailOf(c, i))
                              /\ Len(TailOf(c, i)) \in 1 .. Len(TailOf(c, i))
      BY <1>5
    <2>2. /\ Encode(c)[i] = IF kind(i) = "word" THEN Static(c) ELSE Quantity(TailAt(c, i))
          /\ \A j \in 1 .. Len(TailOf(c, i)) :
                  /\ TailWord(c, i) + j <= Len(Encode(c))
                  /\ Encode(c)[TailWord(c, i) + j] = TailOf(c, i)[j]
      BY <1>2
    <2>3. Sized(c, i) => kind(i) # "word"
      BY DEF Sized, kind
    <2>4. TailAt(c, i) = PARAMETER_LENGTH * TailWord(c, i)
      BY <1>1
    <2>5. QED
      BY <1>5, <2>1, <2>2, <2>3, <2>4
  <1>7. QED
    BY <1>1, <1>2, <1>3, <1>4, <1>5, <1>6 DEF h, kind

\* Positions in the calldata, and right after it, are 16-bit numbers.
LEMMA PositionFits ==
  ASSUME NEW c \in Transactions, Supported(c), NEW n \in Nat, n <= Len(Encode(c)) + 1
  PROVE  Position(n) <= UINT16_MAX
  <1>1. Len(Encode(c)) \in Nat /\ Position(Len(Encode(c)) + 1) <= UINT16_MAX
    BY CallWords
  <1>2. Position(n) <= Position(Len(Encode(c)) + 1)
    BY <1>1 DEF Position, PARAMETER_LENGTH, SELECTOR_SIZE
  <1>3. Position(n) \in Int /\ Position(Len(Encode(c)) + 1) \in Int
    BY <1>1 DEF Position, PARAMETER_LENGTH, SELECTOR_SIZE
  <1>4. UINT16_MAX \in Int
    BY DEF UINT16_MAX
  <1>5. QED
    BY <1>1, <1>2, <1>3, <1>4

\* So is the length of what is in the calldata.
LEMMA LengthFits ==
  ASSUME NEW c \in Transactions, Supported(c), NEW n \in Nat, NEW k \in Nat,
         k + WordsFor(n) <= Len(Encode(c))
  PROVE  n <= UINT16_MAX
  <1>1. WordsFor(n) \in Nat /\ n <= PARAMETER_LENGTH * WordsFor(n)
    BY DEF WordsFor, PARAMETER_LENGTH
  <1>2. Len(Encode(c)) \in Nat
    BY CallWords
  <1>3. WordsFor(n) + 1 \in Nat /\ WordsFor(n) + 1 <= Len(Encode(c)) + 1
    BY <1>1, <1>2
  <1>4. Position(WordsFor(n) + 1) <= UINT16_MAX
    BY <1>3, PositionFits
  <1>5. PARAMETER_LENGTH * WordsFor(n) <= Position(WordsFor(n) + 1)
    BY <1>1 DEF Position, PARAMETER_LENGTH, SELECTOR_SIZE
  <1>6. PARAMETER_LENGTH * WordsFor(n) \in Int /\ Position(WordsFor(n) + 1) \in Int
        /\ UINT16_MAX \in Int
    BY <1>1 DEF Position, PARAMETER_LENGTH, SELECTOR_SIZE, UINT16_MAX
  <1>7. QED
    BY <1>1, <1>4, <1>5, <1>6

\* Of a parameter with a tail, the head has its offset: with the size of the
\* selector, its position.
LEMMA OffsetWords ==
  ASSUME NEW c \in Transactions, Supported(c), NEW i \in 1 .. Len(Signature(c.selector)),
         Signature(c.selector)[i] # "word"
  PROVE  LET o == PARAMETER_LENGTH * TailWord(c, i)
         IN /\ Encode(c)[i] = Quantity(o)
            /\ o \in Nat
            /\ o <= UINT16_MAX
            /\ o + SELECTOR_SIZE = Position(TailWord(c, i) + 1)
            /\ Position(TailWord(c, i) + 1) <= UINT16_MAX
  <1>1. /\ Encode(c)[i] = Quantity(PARAMETER_LENGTH * TailWord(c, i))
        /\ TailWord(c, i) \in Nat
        /\ Len(TailOf(c, i)) \in Nat
        /\ 1 <= Len(TailOf(c, i))
        /\ TailWord(c, i) + Len(TailOf(c, i)) <= Len(Encode(c))
        /\ Len(Encode(c)) \in Nat
    BY CallWords
  <1>2. TailWord(c, i) + 1 \in Nat /\ TailWord(c, i) + 1 <= Len(Encode(c)) + 1
    BY <1>1
  <1>3. Position(TailWord(c, i) + 1) <= UINT16_MAX
    BY <1>2, PositionFits
  <1>4. QED
    BY <1>1, <1>3 DEF Position, PARAMETER_LENGTH, SELECTOR_SIZE, UINT16_MAX

\* A string or byte array: its length, and the words it takes.
LEMMA DataWords ==
  ASSUME NEW c \in Transactions, Supported(c), NEW i \in 1 .. Len(Signature(c.selector)),
         Signature(c.selector)[i] = "data"
  PROVE  LET n == c.lens[DataIndex(c, i)]
         IN /\ n \in Nat
            /\ n <= UINT16_MAX
            /\ WordsFor(n) \in Nat
            /\ Encode(c)[TailWord(c, i) + 1] = Quantity(n)
            /\ TailWord(c, i + 1) = TailWord(c, i) + 1 + WordsFor(n)
            /\ TailWord(c, i + 1) <= Len(Encode(c))
  <1> DEFINE n == c.lens[DataIndex(c, i)]
  <1>1. /\ DOMAIN Signature(c.selector) = 1 .. Len(Signature(c.selector))
        /\ Len(Encode(c)) \in Nat
        /\ TailWord(c, i) \in Nat
        /\ TailWord(c, i + 1) = TailWord(c, i) + Len(TailOf(c, i))
        /\ TailWord(c, i) + Len(TailOf(c, i)) <= Len(Encode(c))
        /\ Sized(c, i) => Encode(c)[TailWord(c, i) + 1] = Quantity(NumberOf(c, i))
    BY CallWords
  <1>2. n \in Nat /\ Len(TailOf(c, i)) = 1 + WordsFor(n)
    BY <1>1, DataTail
  <1>3. WordsFor(n) \in Nat
    BY <1>2, DataShape
  <1>4. Sized(c, i) /\ NumberOf(c, i) = n
    BY DEF Sized, NumberOf
  <1> HIDE DEF n
  <1>5. (TailWord(c, i) + 1) + WordsFor(n) <= Len(Encode(c)) /\ TailWord(c, i) + 1 \in Nat
    BY <1>1, <1>2, <1>3
  <1>6. n <= UINT16_MAX
    BY <1>2, <1>5, LengthFits
  <1>7. QED
    BY <1>1, <1>2, <1>3, <1>4, <1>6 DEF n

\* The word with the length of element e of an array, which comes first.
ElementWord(c, e) ==
    TailWord(c, 1) + 2 + Len(c.lens) + Before(ElementParts(c), e - 1)

\* An array: the number of its elements and their offsets, counted from the
\* first of these, then the elements one after the other.
LEMMA ArrayWords ==
  ASSUME NEW c \in Transactions, Supported(c), c.selector \in OneArray
  PROVE  LET h == Len(Signature(c.selector))
             n == Len(c.lens)
             o(e) == PARAMETER_LENGTH * (n + Before(ElementParts(c), e - 1))
         IN /\ h \in 1 .. 2
            /\ n \in Nat
            /\ TailWord(c, 1) = h
            /\ Len(Encode(c)) \in Nat
            /\ h + 1 <= Len(Encode(c))
            /\ Encode(c)[h + 1] = Quantity(n)
            /\ \A e \in 1 .. n :
                 /\ Encode(c)[h + 1 + e] = Quantity(o(e))
                 /\ o(e) \in Nat
                 /\ o(e) <= UINT16_MAX
                 /\ Position(h + 2) + o(e) = Position(ElementWord(c, e))
                 /\ Position(ElementWord(c, e)) <= UINT16_MAX
                 /\ ElementWord(c, e) \in Nat
                 /\ h + 1 + n < ElementWord(c, e)
                 /\ c.lens[e] \in Nat
                 /\ c.lens[e] <= UINT16_MAX
                 /\ WordsFor(c.lens[e]) \in Nat
                 /\ ElementWord(c, e) + WordsFor(c.lens[e]) <= Len(Encode(c))
                 /\ Encode(c)[ElementWord(c, e)] = Quantity(c.lens[e])
                 /\ ElementWord(c, e + 1) = ElementWord(c, e) + 1 + WordsFor(c.lens[e])
  <1> DEFINE h == Len(Signature(c.selector))
             n == Len(c.lens)
             b(e) == Before(ElementParts(c), e)
             l == Len(Encode(c))
  <1>1. h \in 1 .. 2 /\ 1 \in 1 .. h /\ Signature(c.selector)[1] = "array"
        /\ 1 \in DOMAIN Signature(c.selector)
    BY Signatures DEF OneArray
  <1>2. n \in Nat
    BY DEF Transactions
  <1>3. TailWord(c, 1) = h /\ l \in Nat
    BY CallWords
  <1>4. /\ Len(TailOf(c, 1)) \in Nat
        /\ 1 <= Len(TailOf(c, 1))
        /\ h + Len(TailOf(c, 1)) <= l
    BY <1>1, <1>3, CallWords
  <1>5. /\ Len(TailOf(c, 1)) = 1 + n + b(n)
        /\ TailOf(c, 1)[1] = Quantity(n)
        /\ \A e \in 1 .. n :
             /\ TailOf(c, 1)[1 + e] = Quantity(PARAMETER_LENGTH * (n + b(e - 1)))
             /\ TailOf(c, 1)[1 + n + b(e - 1) + 1] = Quantity(c.lens[e])
    BY <1>1, ArrayTail
  <1>6. \A j \in 1 .. Len(TailOf(c, 1)) : Encode(c)[h + j] = TailOf(c, 1)[j]
    BY <1>1, <1>3, EncodeShape
  <1>7. /\ ElementParts(c) \in Seq(Seq(Word))
        /\ Len(ElementParts(c)) = n
        /\ \A e \in 1 .. n : /\ c.lens[e] \in Nat
                             /\ WordsFor(c.lens[e]) \in Nat
                             /\ Len(ElementParts(c)[e]) = 1 + WordsFor(c.lens[e])
    BY ElementsType
  <1>8. /\ \A e \in 0 .. n : b(e) \in Nat
        /\ \A e \in 1 .. n : b(e) = b(e - 1) + 1 + WordsFor(c.lens[e])
    <2>1. /\ \A e \in 0 .. n : b(e) \in Nat
          /\ \A e \in 1 .. n : b(e) = b(e - 1) + Len(ElementParts(c)[e])
      BY <1>7, PartStarts
    <2>2. ASSUME NEW e \in 1 .. n PROVE b(e) = b(e - 1) + 1 + WordsFor(c.lens[e])
      <3>1. e - 1 \in 0 .. n
        BY <1>2
      <3>2. b(e - 1) \in Nat /\ b(e) = b(e - 1) + Len(ElementParts(c)[e])
        BY <2>1, <3>1
      <3>3. Len(ElementParts(c)[e]) = 1 + WordsFor(c.lens[e]) /\ WordsFor(c.lens[e]) \in Nat
        BY <1>7
      <3> HIDE DEF b
      <3>4. QED
        BY <3>2, <3>3
    <2>3. QED
      BY <2>1, <2>2
  <1>9. \A e \in 1 .. n : b(e) <= b(n)
    <2>1. Len(ElementParts(c)) \in 0 .. Len(ElementParts(c))
      BY <1>2, <1>7
    <2>2. Placed(Word, ElementParts(c), n)
      BY <1>7, <2>1, PartsPlaced
    <2>3. QED
      BY <2>2 DEF Placed
  <1> HIDE DEF h, n, b, l
  <1>10. h + 1 <= l /\ Encode(c)[h + 1] = Quantity(n)
    <2>1. 1 \in 1 .. Len(TailOf(c, 1))
      BY <1>4
    <2>2. QED
      BY <1>1, <1>3, <1>4, <1>5, <1>6, <2>1
  <1>11. ASSUME NEW e \in 1 .. n
         PROVE  /\ Encode(c)[h + 1 + e] = Quantity(PARAMETER_LENGTH * (n + b(e - 1)))
                /\ PARAMETER_LENGTH * (n + b(e - 1)) \in Nat
                /\ PARAMETER_LENGTH * (n + b(e - 1)) <= UINT16_MAX
                /\ Position(h + 2) + PARAMETER_LENGTH * (n + b(e - 1)) = Position(ElementWord(c, e))
                /\ Position(ElementWord(c, e)) <= UINT16_MAX
                /\ ElementWord(c, e) \in Nat
                /\ h + 1 + n < ElementWord(c, e)
                /\ c.lens[e] \in Nat
                /\ c.lens[e] <= UINT16_MAX
                /\ WordsFor(c.lens[e]) \in Nat
                /\ ElementWord(c, e) + WordsFor(c.lens[e]) <= l
                /\ Encode(c)[ElementWord(c, e)] = Quantity(c.lens[e])
                /\ ElementWord(c, e + 1) = ElementWord(c, e) + 1 + WordsFor(c.lens[e])
    <2> DEFINE k == c.lens[e]
               a == b(e - 1)
    <2>1. k \in Nat /\ WordsFor(k) \in Nat
      BY <1>7
    <2>2. a \in Nat /\ b(e) \in Nat /\ b(n) \in Nat /\ b(e) = a + 1 + WordsFor(k) /\ b(e) <= b(n)
      <3>1. e - 1 \in 0 .. n /\ e \in 0 .. n /\ n \in 0 .. n
        BY <1>2
      <3>2. QED
        BY <1>8, <1>9, <3>1
    <2>3. /\ ElementWord(c, e) = h + 2 + n + a
          /\ ElementWord(c, e + 1) = h + 2 + n + b(e)
      <3>1. (e + 1) - 1 = e
        OBVIOUS
      <3>2. QED
        BY <1>3, <3>1 DEF ElementWord, n, b
    <2> HIDE DEF a, k
    <2>4. 1 + e \in 1 .. Len(TailOf(c, 1)) /\ 1 + n + a + 1 \in 1 .. Len(TailOf(c, 1))
      <3> DEFINE m == b(n)
                 u == b(e)
                 r == WordsFor(k)
                 y == Len(TailOf(c, 1))
      <3>1. a \in Nat /\ m \in Nat /\ u \in Nat /\ r \in Nat /\ u = a + 1 + r /\ u <= m
            /\ y = 1 + n + m /\ e \in 1 .. n /\ n \in Nat
        BY <1>2, <1>5, <2>1, <2>2
      <3> HIDE DEF m, u, r, y
      <3>2. 1 + e \in 1 .. y /\ 1 + n + a + 1 \in 1 .. y
        BY <3>1
      <3>3. QED
        BY <3>2 DEF y
    <2>5. /\ TailOf(c, 1)[1 + e] = Quantity(PARAMETER_LENGTH * (n + a))
          /\ TailOf(c, 1)[1 + n + a + 1] = Quantity(k)
      BY <1>5 DEF a, k
    <2>6. Encode(c)[h + (1 + e)] = Quantity(PARAMETER_LENGTH * (n + a))
          /\ Encode(c)[h + (1 + n + a + 1)] = Quantity(k)
      BY <1>6, <2>4, <2>5
    <2>7. /\ h + (1 + e) = h + 1 + e
          /\ h + (1 + n + a + 1) = ElementWord(c, e)
          /\ ElementWord(c, e) \in Nat
          /\ h + 1 + n < ElementWord(c, e)
          /\ ElementWord(c, e + 1) = ElementWord(c, e) + 1 + WordsFor(k)
      BY <1>1, <1>2, <2>1, <2>2, <2>3
    <2>8. ElementWord(c, e) + WordsFor(k) <= l
      <3>1. ElementWord(c, e) + WordsFor(k) = h + (1 + n + b(e))
        BY <1>1, <1>2, <2>1, <2>2, <2>3
      <3>2. h + (1 + n + b(e)) <= h + Len(TailOf(c, 1))
        BY <1>1, <1>2, <1>5, <2>2
      <3>3. QED
        BY <1>1, <1>2, <1>3, <1>4, <2>2, <3>1, <3>2
    <2>9. k <= UINT16_MAX
      BY <2>1, <2>7, <2>8, LengthFits DEF l
    <2>10. Position(ElementWord(c, e)) <= UINT16_MAX
      <3>1. ElementWord(c, e) <= Len(Encode(c)) + 1
        BY <1>3, <2>1, <2>7, <2>8 DEF l
      <3>2. QED
        BY <2>7, <3>1, PositionFits
    <2>11. /\ PARAMETER_LENGTH * (n + a) \in Nat
           /\ Position(h + 2) + PARAMETER_LENGTH * (n + a) = Position(ElementWord(c, e))
           /\ PARAMETER_LENGTH * (n + a) <= Position(ElementWord(c, e))
           /\ Position(ElementWord(c, e)) \in Int
      BY <1>1, <1>2, <2>2, <2>3 DEF Position, PARAMETER_LENGTH, SELECTOR_SIZE
    <2>12. PARAMETER_LENGTH * (n + a) <= UINT16_MAX
      <3>1. UINT16_MAX \in Int
        BY DEF UINT16_MAX
      <3>2. QED
        BY <2>10, <2>11, <3>1
    <2>13. QED
      BY <2>1, <2>6, <2>7, <2>8, <2>9, <2>10, <2>11, <2>12 DEF a, k
  <1>12. QED
    BY <1>1, <1>2, <1>3, <1>10, <1>11 DEF h, n, b, l

\* The words with a number the parser reads.
LEMMA NumberWords ==
  ASSUME NEW c \in Transactions, NEW m \in Numbers(c)
  PROVE  \/ \E i \in 1 .. Len(Signature(c.selector)) :
              Signature(c.selector)[i] # "word" /\ m = i
         \/ \E i \in 1 .. Len(Signature(c.selector)) :
              Sized(c, i) /\ m = TailWord(c, i) + 1
         \/ /\ c.selector \in OneArray
            /\ \E e \in 1 .. Len(c.lens) :
                 \/ m = Len(Signature(c.selector)) + 1 + e
                 \/ m = ElementWord(c, e)
  <1> DEFINE kinds == Signature(c.selector)
             h == Len(kinds)
             arrays == { i \in DOMAIN kinds : kinds[i] = "array" }
  <1>1. /\ h \in 1 .. 6
        /\ DOMAIN kinds = 1 .. h
        /\ TailWord(c, 1) = h
        /\ \A i \in 1 .. h : /\ TailWord(c, i) \in Nat
                             /\ TailAt(c, i) = PARAMETER_LENGTH * TailWord(c, i)
    BY TailWords
  <1>2. c.lens \in Seq(Nat) /\ Len(c.lens) \in Nat /\ DOMAIN c.lens = 1 .. Len(c.lens)
    BY DEF Transactions
  <1>3. \A i \in 1 .. h : WordAt(TailAt(c, i)) = TailWord(c, i) + 1
    <2>1. \A t \in Nat : WordAt(PARAMETER_LENGTH * t) = t + 1
      BY DEF WordAt, PARAMETER_LENGTH
    <2>2. QED
      BY <1>1, <2>1
  <1>4. \A i \in arrays : i = 1 /\ c.selector \in OneArray
    <2>1. c.selector \in OneData \cup TwoData \cup OneArray \cup NoData
      BY Selectors DEF Transactions
    <2>2. QED
      BY <2>1, Signatures DEF OneData, TwoData, OneArray, NoData
  <1>5. ASSUME NEW e \in 1 .. Len(c.lens), c.selector \in OneArray
        PROVE  WordAt(ElementAt(c, 1, e)) = ElementWord(c, e)
    <2> DEFINE n == Len(c.lens)
               b == Before(ElementParts(c), e - 1)
    <2>1. b \in Nat
      <3>1. ElementParts(c) \in Seq(Seq(Word)) /\ Len(ElementParts(c)) = n
        BY ElementsType
      <3>2. e - 1 \in 0 .. Len(ElementParts(c))
        BY <1>2, <3>1
      <3>3. QED
        BY <3>1, <3>2, PartStarts
    <2>2. ElementAt(c, 1, e) = PARAMETER_LENGTH * h + 32 + PARAMETER_LENGTH * n
                                 + PARAMETER_LENGTH * b
      <3>1. TailAt(c, 1) = PARAMETER_LENGTH * h
        <4> HIDE DEF h
        <4>1. h \in 1 .. 6
          BY <1>1
        <4>2. 1 \in 1 .. h
          BY <4>1
        <4>3. QED
          BY <1>1, <4>2
      <3>2. SizeUpTo(ElementParts(c), e - 1) = PARAMETER_LENGTH * b
        BY DEF SizeUpTo, SizeOf, Before
      <3>3. ElementAt(c, 1, e)
              = TailAt(c, 1) + 32 + PARAMETER_LENGTH * n + SizeUpTo(ElementParts(c), e - 1)
        BY DEF ElementAt
      <3>4. QED
        BY <3>1, <3>2, <3>3
    <2>3. ElementWord(c, e) = h + 2 + n + b
      BY <1>1 DEF ElementWord
    <2> HIDE DEF b, n, h
    <2>4. n \in Nat /\ h \in Nat
      BY <1>1, <1>2 DEF n, h
    <2>5. ElementAt(c, 1, e) = PARAMETER_LENGTH * (h + 1 + n + b)
      BY <2>1, <2>2, <2>4 DEF PARAMETER_LENGTH
    <2>6. QED
      BY <2>1, <2>3, <2>4, <2>5 DEF WordAt, PARAMETER_LENGTH
  <1>6. \/ \E i \in DOMAIN kinds : kinds[i] # "word" /\ m = i
        \/ \E i \in DOMAIN kinds : kinds[i] \in {"data", "array"} /\ m = WordAt(TailAt(c, i))
        \/ \E i \in arrays, e \in DOMAIN c.lens : m = WordAt(TailAt(c, i)) + e
        \/ \E i \in arrays, e \in DOMAIN c.lens : m = WordAt(ElementAt(c, i, e))
    BY DEF Numbers
  <1> HIDE DEF h, arrays
  <1>7. CASE \E i \in DOMAIN kinds : kinds[i] # "word" /\ m = i
    BY <1>1, <1>7 DEF h
  <1>8. CASE \E i \in DOMAIN kinds : kinds[i] \in {"data", "array"} /\ m = WordAt(TailAt(c, i))
    BY <1>1, <1>3, <1>8 DEF h, Sized
  <1>9. CASE \E i \in arrays, e \in DOMAIN c.lens : m = WordAt(TailAt(c, i)) + e
    <2>1. PICK e \in 1 .. Len(c.lens) : m = WordAt(TailAt(c, 1)) + e /\ c.selector \in OneArray
      BY <1>2, <1>4, <1>9
    <2>2. WordAt(TailAt(c, 1)) = h + 1
      BY <1>1, <1>3
    <2>3. QED
      BY <2>1, <2>2 DEF h
  <1>10. CASE \E i \in arrays, e \in DOMAIN c.lens : m = WordAt(ElementAt(c, i, e))
    <2>1. PICK e \in 1 .. Len(c.lens) : m = WordAt(ElementAt(c, 1, e)) /\ c.selector \in OneArray
      BY <1>2, <1>4, <1>10
    <2>2. QED
      BY <1>5, <2>1
  <1>11. QED
    BY <1>6, <1>7, <1>8, <1>9, <1>10

(***************************************************************************)
(* What the host sends.                                                    *)
(***************************************************************************)

\* The words of the call as far as it goes, one of them perhaps too large.
LEMMA SentWords ==
  ASSUME NEW c \in Transactions, Supported(c), c.large \in 1 .. Len(Encode(c)) \/ c.large = 0
  PROVE  /\ Len(Sent(c)) \in Nat
         /\ DOMAIN Sent(c) = 1 .. Len(Sent(c))
         /\ \A n \in DOMAIN Sent(c) :
              /\ n \in 1 .. Len(Encode(c))
              /\ n <= Len(Sent(c))
              /\ n # c.large => Sent(c)[n] = Encode(c)[n]
              /\ n = c.large => Sent(c)[n] = Opaque
  <1> DEFINE words == IF c.large = 0 THEN Encode(c) ELSE ReplaceAt(Encode(c), c.large, Opaque)
             k == Len(Encode(c)) - c.cut
  <1>1. Encode(c) \in Seq(Word) /\ Len(Encode(c)) \in Nat
    BY CallWords
  <1>2. Opaque \in Word
    BY DEF Opaque, Word, UInt16, UINT16_MAX
  <1>3. /\ words \in Seq(Word)
        /\ Len(words) = Len(Encode(c))
        /\ \A n \in 1 .. Len(Encode(c)) : /\ n # c.large => words[n] = Encode(c)[n]
                                          /\ n = c.large => words[n] = Opaque
    <2>1. CASE c.large = 0
      BY <1>1, <2>1
    <2>2. CASE c.large \in 1 .. Len(Encode(c))
      BY <1>1, <1>2, <2>2 DEF ReplaceAt
    <2>3. QED
      BY <2>1, <2>2
  <1>4. c.cut \in Nat
    BY DEF Transactions
  <1> HIDE DEF words
  <1>5. Sent(c) = SubSeq(words, 1, k)
    <2>1. Sent(c) = SubSeq(words, 1, Len(Encode(c)) - c.cut)
      BY DEF Sent, words
    <2>2. QED
      BY <2>1
  <1>6. k \in Int /\ k <= Len(words)
    BY <1>1, <1>3, <1>4
  <1> HIDE DEF k
  <1>7. /\ Len(SubSeq(words, 1, k)) \in Nat
        /\ DOMAIN SubSeq(words, 1, k) = 1 .. Len(SubSeq(words, 1, k))
        /\ \A n \in DOMAIN SubSeq(words, 1, k) :
             /\ n \in 1 .. k
             /\ n <= Len(SubSeq(words, 1, k))
             /\ SubSeq(words, 1, k)[n] = words[n]
    BY <1>3, <1>6
  <1>8. QED
    BY <1>1, <1>3, <1>5, <1>6, <1>7

\* Every word with a number is one of the call's.
LEMMA NumberInCall ==
  ASSUME NEW c \in Transactions, Supported(c), NEW m \in Numbers(c)
  PROVE  m \in 1 .. Len(Encode(c))
  <1> DEFINE h == Len(Signature(c.selector))
             l == Len(Encode(c))
  <1>1. /\ h \in 1 .. 6
        /\ DOMAIN Signature(c.selector) = 1 .. h
        /\ l \in Nat
        /\ \A i \in 1 .. h :
             /\ TailWord(c, i) \in Nat
             /\ Signature(c.selector)[i] # "word"
                  => /\ Len(TailOf(c, i)) \in Nat
                     /\ 1 <= Len(TailOf(c, i))
                     /\ TailWord(c, i) + Len(TailOf(c, i)) <= l
    BY CallWords
  <1>2. h <= l
    <2>1. l = h + Before(Tails(c), (h + 1) - 1)
      BY EncodeShape DEF TailWord
    <2>2. Tails(c) \in Seq(Seq(Word)) /\ Len(Tails(c)) = h
      BY TailWords
    <2>3. (h + 1) - 1 \in 0 .. Len(Tails(c))
      BY <1>1, <2>2
    <2>4. Before(Tails(c), (h + 1) - 1) \in Nat
      BY <2>2, <2>3, PartStarts
    <2> HIDE DEF h, l
    <2>5. QED
      BY <1>1, <2>1, <2>4
  <1> SUFFICES m \in 1 .. l
    OBVIOUS
  <1> HIDE DEF h, l
  <1>3. CASE \E i \in 1 .. h : Signature(c.selector)[i] # "word" /\ m = i
    BY <1>1, <1>2, <1>3
  <1>4. CASE \E i \in 1 .. h : Sized(c, i) /\ m = TailWord(c, i) + 1
    <2>1. PICK i \in 1 .. h : Sized(c, i) /\ m = TailWord(c, i) + 1
      BY <1>4
    <2>2. Signature(c.selector)[i] # "word"
      BY <2>1 DEF Sized
    <2>3. QED
      BY <1>1, <2>1, <2>2
  <1>5. CASE c.selector \in OneArray /\ \E e \in 1 .. Len(c.lens) : m = h + 1 + e \/ m = ElementWord(c, e)
    <2>1. PICK e \in 1 .. Len(c.lens) : m = h + 1 + e \/ m = ElementWord(c, e)
      BY <1>5
    <2>2. /\ Len(c.lens) \in Nat
          /\ ElementWord(c, e) \in Nat
          /\ h + 1 + Len(c.lens) < ElementWord(c, e)
          /\ WordsFor(c.lens[e]) \in Nat
          /\ ElementWord(c, e) + WordsFor(c.lens[e]) <= l
      BY <1>5, ArrayWords DEF h, l
    <2>3. h \in 1 .. 6 /\ l \in Nat
      BY <1>1
    <2> DEFINE n == Len(c.lens)
               k == ElementWord(c, e)
               r == WordsFor(c.lens[e])
    <2>4. n \in Nat /\ e \in 1 .. n /\ k \in Nat /\ h + 1 + n < k /\ r \in Nat /\ k + r <= l
      BY <2>2
    <2>5. m = h + 1 + e \/ m = k
      BY <2>1
    <2> HIDE DEF n, k, r
    <2>6. QED
      BY <2>3, <2>4, <2>5
  <1>6. QED
    BY <1>3, <1>4, <1>5, NumberWords DEF h
=============================================================================
