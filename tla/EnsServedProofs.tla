---------------------------- MODULE EnsServedProofs ----------------------------
(***************************************************************************)
(* Proof that the supported transactions are accepted, and that one with a *)
(* number out of the parser's range is refused.                            *)
(***************************************************************************)
EXTENDS EnsSigning, AbiProofs

(***************************************************************************)
(* What a supported call makes of the parser: which word it acts on next,  *)
(* and for which parameter.                                                *)
(***************************************************************************)

\* No word with a number is out of the parser's range, or one is.
Readable(c) == Supported(c) /\ c.large \in Numbers(c) \cup {0}

\* That word is not behind: it is word n, or after it.
Ahead(n) == call.large = 0 \/ n <= call.large

\* The parser takes the next word, which is word n, for parameter p.
Here(p, n) == next_param = p /\ go_to_offset = FALSE /\ WordNumber = n /\ Ahead(n)

\* The parser takes word n for parameter p, and none before it.
Due(p, n) ==
    \/ Here(p, n)
    \/ /\ next_param = p
       /\ go_to_offset = TRUE /\ offset = Position(n) /\ WordNumber <= n
       /\ Ahead(n)

\* What is left are words of no number: of the field that comes last, or behind
\* the last one the handler wants.
Trailing(params) == next_param \in params \cup {"NONE"} /\ call.large = 0

\* The offset of parameter i was saved in offsets[k].
Saved(k, i) == offsets[k] = PARAMETER_LENGTH * TailWord(call, i)

\* The word with the length, or number, parameter i starts with.
NumberWord(i) == TailWord(call, i) + 1

\* A field whose length n is in word a, and which others follow.
InField(f, a, n) ==
    /\ \/ Due(f.data, a + 1) /\ len[f.slot] = n
       \/ Due(f.second, a + n \div PARAMETER_LENGTH) /\ n >= 2 * PARAMETER_LENGTH
       \/ Due(f.last, a + n \div PARAMETER_LENGTH + 1) /\ n > PARAMETER_LENGTH
    /\ Ahead(a + WordsFor(n) + 1)

NameData  == {"NAME", "NAME_OFFSET_1", "NAME_OFFSET_2"}
ProofData == {"PROOF", "PROOF_1", "PROOF_2"}
HashData  == {"HASH", "HASH_1", "HASH_2"}
ValueData == {"VALUE", "VALUE_1", "VALUE_2"}
CallData  == {"CALL", "CALL_1", "CALL_2"}

OnCommit == Trailing({"COMMITMENT"})

OnRegister ==
    \/ Due("NAME_OFFSET", 1)
    \/ /\ Saved(Name, 1)
       /\ Due("OWNER", 2) \/ Due("DURATION", 3) \/ Due("SECRET", 4) \/ Due("NAME_LENGTH", 5)
    \/ Trailing(NameData)

OnRegisterWithConfig ==
    \/ Due("NAME_OFFSET", 1)
    \/ /\ Saved(Name, 1)
       /\ \/ Due("OWNER", 2) \/ Due("SECRET", 4) \/ Due("RESOLVER", 5) \/ Due("ADDR", 6)
          \/ Due("NAME_LENGTH", 7)
    \/ Trailing(NameData)

OnRenew ==
    \/ Due("NAME_OFFSET", 1)
    \/ Saved(Name, 1) /\ (Due("DURATION", 2) \/ Due("NAME_LENGTH", 3))
    \/ Trailing(NameData)

OnSetName ==
    \/ Due("NAME_OFFSET", 1)
    \/ Saved(Name, 1) /\ Due("NAME_LENGTH", 2)
    \/ Trailing(NameData)

OnSetOwner == Trailing({"NODE", "OWNER"})
OnSetResolver == Trailing({"NODE", "RESOLVER"})
OnSetSubnode ==
    \/ Here("NODE", 1) \/ Here("LABEL", 2) \/ Here("OWNER", 3) \/ Here("RESOLVER", 4)
    \/ Here("TTL", 5) \/ Trailing({})

OnSetAddr ==
    \/ Due("NODE", 1) \/ Due("COINTYPE", 2) \/ Due("HASH_OFFSET", 3)
    \/ Saved(Hash, 3) /\ Due("HASH_LEN", 4)
    \/ Trailing(HashData)

OnSetContentHash ==
    \/ Due("NODE", 1) \/ Due("HASH_OFFSET", 2)
    \/ Saved(Hash, 2) /\ Due("HASH_LEN", 3)
    \/ Trailing(HashData)

OnSetText ==
    \/ Due("NODE", 1) \/ Due("KEY_OFFSET", 2)
    \/ Saved(Key, 2) /\ Due("VALUE_OFFSET", 3)
    \/ /\ Saved(Value, 3)
       /\ \/ Saved(Key, 2) /\ Due("KEY_LENGTH", 4)
          \/ InField(KeyField, 4, call.lens[1])
          \/ Due("VALUE_LENGTH", NumberWord(3))
    \/ Trailing(ValueData)

OnProveClaim ==
    \/ Due("NAME_OFFSET", 1)
    \/ Saved(Name, 1) /\ Due("INPUT_OFFSET", 2)
    \/ Saved(Name, 1) /\ Saved(Input, 2) /\ Due("PROOF_OFFSET", 3)
    \/ /\ Saved(Input, 2) /\ Saved(Proof, 3)
       /\ \/ Saved(Name, 1) /\ Due("NAME_LENGTH", 4)
          \/ InField(NameField, 4, call.lens[1])
          \/ Due("INPUT", NumberWord(2)) /\ Ahead(NumberWord(3))
    \/ Due("PROOF_LEN", NumberWord(3))
    \/ Trailing(ProofData)

\* The two offsets in globals.
KeptName  == name_offset = PARAMETER_LENGTH * TailWord(call, 1)
KeptInput == input_offset = PARAMETER_LENGTH * TailWord(call, 2)

OnProveClaimResolver ==
    \/ Due("NAME_OFFSET", 1)
    \/ KeptName /\ Due("INPUT_OFFSET", 2)
    \/ KeptName /\ KeptInput /\ Due("PROOF_OFFSET", 3)
    \/ /\ KeptInput /\ Saved(Proof, 3)
       /\ \/ /\ KeptName
             /\ Due("RESOLVER", 4) \/ Due("ADDR", 5) \/ Due("NAME_LENGTH", 6)
          \/ InField(NameField, 6, call.lens[1])
          \/ Due("INPUT", NumberWord(2)) /\ Ahead(NumberWord(3))
    \/ Due("PROOF_LEN", NumberWord(3))
    \/ Trailing(ProofData)

\* The offsets of the first k elements of an array were saved.
ElementsSaved(k) ==
    \A e \in 1 .. k :
        offsets[e - 1] = PARAMETER_LENGTH * (Len(call.lens) + Before(ElementParts(call), e - 1))

\* The first offset of an element is in word h + 2.
ArrayStart(h) == offsets_start = Position(h + 2)

\* Element e is field f, its length is parameter p.
InElement(e, p, f) ==
    \/ Due(p, ElementWord(call, e))
    \/ e < Len(call.lens) /\ InField(f, ElementWord(call, e), call.lens[e])
    \/ e = Len(call.lens) /\ next_param \in {f.data, f.second, f.last} /\ call.large = 0

\* At element e of an array: h words of head, and the number of elements, are
\* behind.
AtElement(h, p, field, e) ==
    /\ count = Len(call.lens)
    /\ id = e - 1
    /\ \/ Due("OFFSETS", h + 1 + e) /\ ElementsSaved(e - 1) /\ (e # 1 => ArrayStart(h))
       \/ /\ ElementsSaved(Len(call.lens)) /\ ArrayStart(h)
          /\ InElement(e, p, [field EXCEPT !.slot = e - 1])

InArray(h, p, field) == \E e \in 1 .. Len(call.lens) : AtElement(h, p, field, e)

ArraySaved == offsets_start = PARAMETER_LENGTH * TailWord(call, 1)

CallField == [slot |-> 0, data |-> "CALL", second |-> "CALL_1", last |-> "CALL_2",
              byLength |-> FALSE]

OnRenewAll ==
    \/ id = 0 /\ Due("NAME_OFFSET", 1)
    \/ id = 0 /\ ArraySaved /\ (Due("DURATION", 2) \/ Due("N_NAME", 3))
    \/ InArray(2, "NAME_LENGTH", NameField)
    \/ Trailing({})

OnMulticall ==
    \/ id = 0 /\ Due("CALL_OFFSET", 1)
    \/ id = 0 /\ ArraySaved /\ Due("N_CALL", 2)
    \/ InArray(1, "CALL_LEN", CallField)
    \/ Trailing({})

\* The parser is where its handler is to be.
OnTrack ==
    \/ selectorIndex = "COMMIT" /\ OnCommit
    \/ selectorIndex = "REGISTER" /\ OnRegister
    \/ selectorIndex = "REGISTER_WITH_CONFIG" /\ OnRegisterWithConfig
    \/ selectorIndex = "RENEW" /\ OnRenew
    \/ selectorIndex = "SET_NAME" /\ OnSetName
    \/ selectorIndex = "RENEW_ALL" /\ OnRenewAll
    \/ selectorIndex = "PROVE_AND_CLAIM" /\ OnProveClaim
    \/ selectorIndex = "PROVE_AND_CLAIM_RESOLVER" /\ OnProveClaimResolver
    \/ selectorIndex = "SET_OWNER" /\ OnSetOwner
    \/ selectorIndex = "SET_RESOLVER" /\ OnSetResolver
    \/ selectorIndex = "SET_SUBNODE" /\ OnSetSubnode
    \/ selectorIndex = "SET_ADDR" /\ OnSetAddr
    \/ selectorIndex = "SET_TEXT" /\ OnSetText
    \/ selectorIndex = "SET_CONTENT_HASH" /\ OnSetContentHash
    \/ selectorIndex = "MULTICALL" /\ OnMulticall

\* A time is at most 76 digits long.
Times == statics["duration"].digits \in 1 .. 76 /\ statics["ttl"].digits \in 1 .. 76

\* What the screens need of the context.
Presentable ==
    /\ selectorIndex = find_selector(call.selector)
    /\ Times
    /\ selectorIndex \in {"RENEW_ALL", "MULTICALL"} => count \in 0 .. 3

Shaped ==
    DOMAIN offsets = Slots /\ DOMAIN len = Slots /\ DOMAIN statics = Statics

IsSequence(s) == s \in Seq({ s[i] : i \in DOMAIN s })

Finished ==
    /\ phase \in {"finalized", "resolved", "review", "reviewed"}
    /\ numScreens = FinalizeScreens
    /\ IsSequence(shown)
    /\ phase = "review" => Len(shown) < numScreens
    /\ phase \in {"finalized", "resolved"} => shown = << >>

ServedInv ==
    /\ call \in Calls
    /\ Shaped
    /\ Readable(call) =>
         \/ phase = "idle"
         \/ phase = "refused" /\ Oversized(call)
         \/ /\ phase = "parsing"
            /\ WordNumber \in Nat \ {0} /\ parameterOffset = Position(WordNumber)
            /\ shown = << >>
            /\ Presentable /\ OnTrack
         \/ /\ ~Oversized(call)
            /\ Presentable /\ Finished

(***************************************************************************)
(* Positions.                                                              *)
(***************************************************************************)

\* Positions are 32 bytes apart.
LEMMA Positions ==
  /\ \A n \in Int : Position(n) \in Int /\ Position(n) + PARAMETER_LENGTH = Position(n + 1)
  /\ \A n, k \in Int : Position(n) + k * PARAMETER_LENGTH = Position(n + k)
  /\ \A n, k \in Int : Position(n) = Position(k) => n = k
  /\ \A n \in Nat \ {0} : Position(n) \in Nat
  BY DEF Position, PARAMETER_LENGTH, SELECTOR_SIZE

\* The host hands over word n of a supported call, which is w.
Reads(w, n) ==
    /\ call \in Transactions
    /\ Readable(call)
    /\ n \in 1 .. Len(Encode(call))
    /\ WordNumber = n
    /\ parameterOffset = Position(n)
    /\ WordNumber' = n + 1
    /\ call' = call
    /\ n # call.large => w = Encode(call)[n]
    /\ n = call.large => w = Opaque /\ Oversized(call)

\* What a handler may do with it: go on, or refuse a number out of its range.
Goes(On) == IF result' = "OK" THEN On ELSE Oversized(call)

\* The number of the word that is too large, or 0.
LEMMA LargeType ==
  ASSUME NEW w, NEW n, Reads(w, n)
  PROVE  /\ call.large \in Nat
         /\ n \in Nat
         /\ Len(Encode(call)) \in Nat
         /\ n <= Len(Encode(call))
  <1>1. Len(Encode(call)) \in Nat
    BY CallWords DEF Reads, Readable
  <1>2. call.large \in Nat
    BY DEF Reads, Transactions
  <1>3. QED
    BY <1>1, <1>2 DEF Reads

\* A word with a number is read, or refused.
LEMMA NumberRead ==
  ASSUME NEW w, NEW n, Reads(w, n), NEW v \in Nat, v <= UINT16_MAX,
         Encode(call)[n] = Quantity(v)
  PROVE  \/ w.small /\ w.low = v /\ n # call.large
         \/ ~w.small /\ Oversized(call) /\ n = call.large
  <1>1. CASE n # call.large
    BY <1>1, QuantityRead DEF Reads
  <1>2. CASE n = call.large
    <2>1. ~Opaque.small
      BY DEF Opaque
    <2>2. QED
      BY <1>2, <2>1 DEF Reads
  <1>3. QED
    BY <1>1, <1>2

\* The word that is too large stays ahead.
LEMMA StillAhead ==
  ASSUME NEW w, NEW n, Reads(w, n), Ahead(n), n # call.large
  PROVE  Ahead(n + 1)
  BY LargeType DEF Ahead

\* A parameter that is not due yet.
LEMMA StillDue ==
  ASSUME NEW w, NEW n, Reads(w, n), NEW p, NEW m \in Nat, Due(p, m), SkipToOffset
  PROVE  Due(p, m)'
  <1>1. /\ go_to_offset = TRUE /\ offset = Position(m) /\ n <= m /\ parameterOffset # offset
        /\ next_param = p
        /\ next_param' = next_param /\ offset' = offset /\ go_to_offset' = go_to_offset
    BY DEF Reads, Due, Here, SkipToOffset, cursor
  <1>2. n # m
    BY <1>1 DEF Reads
  <1>3. WordNumber' <= m
    BY <1>1, <1>2, LargeType DEF Reads
  <1>4. Ahead(m)'
    BY DEF Due, Here, Ahead, Reads
  <1>5. QED
    BY <1>1, <1>3, <1>4 DEF Due, Position

\* A parameter that is taken is the one that is due.
LEMMA DueNow ==
  ASSUME NEW w, NEW n, Reads(w, n), NEW p, NEW m \in Nat, Due(p, m), AtOffset
  PROVE  next_param = p /\ m = n /\ Ahead(n)
  <1>1. CASE go_to_offset = FALSE
    BY <1>1 DEF Due, Here, Reads
  <1>2. CASE go_to_offset = TRUE
    <2>1. offset = Position(m) /\ parameterOffset = offset
      BY <1>2 DEF Due, Here, AtOffset
    <2>2. Position(n) = Position(m)
      BY <2>1 DEF Reads
    <2>3. n \in Int /\ m \in Int
      BY LargeType
    <2>4. m = n
      BY <2>2, <2>3, Positions
    <2>5. QED
      BY <2>4 DEF Due, Here
  <1>3. QED
    BY <1>1, <1>2 DEF Due, Here

\* The next word is due.
LEMMA NextDue ==
  ASSUME NEW w, NEW n, Reads(w, n), NEW p, Advance(p), Ahead(n + 1)
  PROVE  Here(p, n + 1)' /\ Due(p, n + 1)'
  BY DEF Reads, Advance, Due, Here, Ahead

\* A word further on is due.
LEMMA SeekDue ==
  ASSUME NEW w, NEW n, Reads(w, n), NEW p, NEW m \in Nat, n < m, Position(m) <= UINT16_MAX,
         NEW o, o = Position(m), Seek(o, p), Ahead(m)
  PROVE  Due(p, m)'
  <1>1. U16(Position(m)) = Position(m)
    <2>1. n \in Nat
      BY LargeType
    <2>2. m \in Nat \ {0}
      BY <2>1
    <2>3. Position(m) \in Nat
      BY <2>2, Positions
    <2>4. QED
      BY <2>3, U16Small
  <1>2. next_param' = p /\ offset' = Position(m) /\ go_to_offset' = TRUE
    BY <1>1 DEF Seek
  <1>3. WordNumber' <= m
    BY LargeType DEF Reads
  <1>4. Ahead(m)'
    BY DEF Ahead, Reads
  <1>5. Position(m)' = Position(m)
    BY DEF Position
  <1>6. QED
    BY <1>2, <1>3, <1>4 DEF Due, Position

(***************************************************************************)
(* Switch cases.                                                           *)
(***************************************************************************)

\* An offset is saved.
LEMMA OffsetRead ==
  ASSUME NEW w, NEW n, Reads(w, n), Ahead(n), Shaped,
         n \in 1 .. Len(Signature(call.selector)), Signature(call.selector)[n] # "word",
         NEW k \in Slots, NEW p, SaveOffset(w, k, p)
  PROVE  /\ Goes(Saved(k, n)' /\ Due(p, n + 1)' /\ n # call.large)
         /\ \A j \in Slots \ {k} : offsets'[j] = offsets[j]
         /\ UNCHANGED <<statics, len, id>>
  <1> DEFINE o == PARAMETER_LENGTH * TailWord(call, n)
  <1>1. Encode(call)[n] = Quantity(o) /\ o \in Nat /\ o <= UINT16_MAX
    BY OffsetWords DEF Reads, Readable
  <1> HIDE DEF o
  <1>2. \/ w.small /\ w.low = o /\ n # call.large
        \/ ~w.small /\ Oversized(call)
    BY <1>1, NumberRead
  <1>3. CASE ~w.small
    <2>1. result' = "ERROR" /\ UNCHANGED <<statics, offsets, len, id>>
      BY <1>3 DEF SaveOffset, Refuse, fields
    <2>2. QED
      BY <1>2, <1>3, <2>1 DEF Goes
  <1>4. CASE w.small
    <2>1. /\ result' = "OK" /\ Advance(p)
          /\ offsets' = [offsets EXCEPT ![k] = o]
          /\ UNCHANGED <<statics, len, id>>
          /\ n # call.large
      BY <1>2, <1>4 DEF SaveOffset
    <2>2. Due(p, n + 1)'
      BY <2>1, StillAhead, NextDue
    <2>3. offsets'[k] = o /\ \A j \in Slots \ {k} : offsets'[j] = offsets[j]
      BY <2>1 DEF Shaped
    <2>4. Saved(k, n)'
      BY <2>3 DEF Saved, Reads, o
    <2>5. QED
      BY <2>1, <2>2, <2>3, <2>4 DEF Goes
  <1>5. QED
    BY <1>3, <1>4

\* The length of parameter i is read, where its offset says it is.
LEMMA LengthRead ==
  ASSUME NEW w, NEW n, Reads(w, n), Ahead(n), Shaped,
         NEW i \in 1 .. Len(Signature(call.selector)), Signature(call.selector)[i] = "data",
         n = NumberWord(i), NEW k \in Slots, NEW p,
         NEW o, o = PARAMETER_LENGTH * TailWord(call, i),
         ReadLengthAt(o, w, k, p)
  PROVE  /\ Goes(/\ Due(p, n + 1)' /\ n # call.large
                 /\ len'[k] = call.lens[DataIndex(call, i)])
         /\ UNCHANGED <<statics, offsets, id>>
  <1> DEFINE v == call.lens[DataIndex(call, i)]
  <1>1. v \in Nat /\ v <= UINT16_MAX /\ Encode(call)[n] = Quantity(v)
    BY DataWords DEF Reads, Readable, NumberWord
  <1>2. parameterOffset = o + SELECTOR_SIZE
    BY OffsetWords DEF Reads, Readable, NumberWord
  <1> HIDE DEF v
  <1>3. \/ w.small /\ w.low = v /\ n # call.large
        \/ ~w.small /\ Oversized(call)
    BY <1>1, NumberRead
  <1>4. ReadLength(w, k, p)
    BY <1>2 DEF ReadLengthAt
  <1>5. CASE ~w.small
    <2>1. result' = "ERROR" /\ UNCHANGED <<statics, offsets, id>>
      BY <1>4, <1>5 DEF ReadLength, Refuse, fields
    <2>2. QED
      BY <1>3, <1>5, <2>1 DEF Goes
  <1>6. CASE w.small
    <2>1. /\ result' = "OK" /\ Advance(p)
          /\ len' = [len EXCEPT ![k] = v]
          /\ UNCHANGED <<statics, offsets, id>>
          /\ n # call.large
      BY <1>3, <1>4, <1>6 DEF ReadLength
    <2>2. Due(p, n + 1)'
      BY <2>1, StillAhead, NextDue
    <2>3. len'[k] = v
      BY <2>1 DEF Shaped
    <2>4. QED
      BY <2>1, <2>2, <2>3 DEF Goes, v
  <1>7. QED
    BY <1>5, <1>6

\* A static parameter is copied.
LEMMA WordCopied ==
  ASSUME NEW w, NEW n, Reads(w, n), Ahead(n), Shaped, Times, n # call.large,
         NEW f, f \in {"duration", "ttl"} => Encode(call)[n] = Static(call),
         NEW p, CopyParameter(w, f, p) \/ CopyAddress(w, f, p)
  PROVE  /\ result' = "OK"
         /\ Here(p, n + 1)'
         /\ Due(p, n + 1)'
         /\ Times'
         /\ UNCHANGED <<offsets, len, id, offsets_start>>
  <1>1. PICK first \in {0, 12} : CopyWord(w, f, first) /\ Advance(p)
    BY DEF CopyParameter, CopyAddress
  <1>2. Here(p, n + 1)' /\ Due(p, n + 1)'
    BY <1>1, StillAhead, NextDue
  <1>3. /\ result' = "OK" /\ UNCHANGED <<offsets, len, id, offsets_start>>
        /\ statics' = [statics EXCEPT ![f] =
                     [at |-> parameterOffset + first, digits |-> w.digits, alias |-> w.alias]]
    BY <1>1 DEF CopyWord
  <1>4. CASE f \in {"duration", "ttl"}
    <2>1. w = Static(call)
      BY <1>4 DEF Reads
    <2>2. w.digits \in 1 .. 76
      <3>1. w.digits = call.digits /\ call.digits <= 76 /\ call.digits \in 1 .. 78
        BY <2>1 DEF Static, Reads, Readable, Supported, Transactions
      <3>2. QED
        BY <3>1
    <2>3. f \in DOMAIN statics /\ "duration" \in DOMAIN statics /\ "ttl" \in DOMAIN statics
      BY <1>4 DEF Shaped, Statics
    <2>4. Times'
      BY <1>3, <2>2, <2>3 DEF Times
    <2>5. QED
      BY <1>2, <1>3, <2>4
  <1>5. CASE f \notin {"duration", "ttl"}
    <2>1. "duration" \in DOMAIN statics /\ "ttl" \in DOMAIN statics
      BY DEF Shaped, Statics
    <2>2. statics'["duration"] = statics["duration"] /\ statics'["ttl"] = statics["ttl"]
      BY <1>3, <1>5, <2>1
    <2>3. QED
      BY <1>2, <1>3, <2>2 DEF Times
  <1>6. QED
    BY <1>4, <1>5

\* The words behind the last number are taken as they are.
LEMMA TrailingRead ==
  ASSUME NEW w, NEW n, Reads(w, n), NEW params, Trailing(params),
         NEW f, {f.data, f.second, f.last} \subseteq params, NEW length,
         \/ SkipToOffset
         \/ IgnoreWord
         \/ ReadField(f, length, Then("NONE"))
  PROVE  result' = "OK" /\ Trailing(params)' /\ UNCHANGED statics
  <1>1. call'.large = 0
    BY DEF Trailing, Reads
  <1>2. CASE SkipToOffset \/ IgnoreWord
    BY <1>1, <1>2 DEF SkipToOffset, IgnoreWord, Trailing, cursor, fields
  <1>3. CASE ReadField(f, length, Then("NONE"))
    <2>1. result' = "OK" /\ UNCHANGED statics
      BY <1>3 DEF ReadField
    <2>2. next_param' \in {f.data, f.second, f.last, "NONE"}
      BY <1>3 DEF ReadField, ReadShort, ReadLong, ReadSecondLast, ReadLast, Then, Advance, Seek
    <2>3. QED
      BY <1>1, <2>1, <2>2 DEF Trailing
  <1>4. QED
    BY <1>2, <1>3

\* The words of a field that leaves nothing to the words behind it.
LEMMA FieldWords ==
  ASSUME NEW v \in Nat, SelfContained(v)
  PROVE  /\ v \div PARAMETER_LENGTH \in Nat
         /\ WordsFor(v) \in Nat
         /\ 1 <= WordsFor(v)
         /\ v <= PARAMETER_LENGTH => WordsFor(v) = 1
         /\ v > PARAMETER_LENGTH => /\ WordsFor(v) = v \div PARAMETER_LENGTH + 1
                                    /\ 1 <= v \div PARAMETER_LENGTH
         /\ 2 <= v \div PARAMETER_LENGTH => v >= 2 * PARAMETER_LENGTH
         /\ v >= 2 * PARAMETER_LENGTH => 2 <= v \div PARAMETER_LENGTH /\ v > PARAMETER_LENGTH
  BY DEF SelfContained, WordsFor, PARAMETER_LENGTH

\* A field others follow is read in its own words.
LEMMA FieldRead ==
  ASSUME NEW w, NEW n, Reads(w, n), AtOffset,
         NEW f, f.data # f.second, f.data # f.last, f.second # f.last,
         NEW a \in Nat, NEW v \in Nat, InField(f, a, v), SelfContained(v),
         a + WordsFor(v) <= Len(Encode(call)),
         NEW length, length = len[f.slot],
         NEW ACTION Done, ReadField(f, length, Done)
  PROVE  /\ result' = "OK"
         /\ UNCHANGED <<statics, offsets, len, count, offsets_start>>
         /\ \/ UNCHANGED id /\ InField(f, a, v)'
            \/ n = a + WordsFor(v) /\ Ahead(n + 1) /\ Done
  <1> DEFINE k == v \div PARAMETER_LENGTH
             r == WordsFor(v)
             l == Len(Encode(call))
  <1>1. result' = "OK" /\ UNCHANGED <<statics, offsets, len, count, offsets_start>>
    BY DEF ReadField
  <1>2. /\ k \in Nat /\ r \in Nat /\ 1 <= r
        /\ v <= PARAMETER_LENGTH => r = 1
        /\ v > PARAMETER_LENGTH => r = k + 1 /\ 1 <= k
        /\ 2 <= k => v >= 2 * PARAMETER_LENGTH
        /\ v >= 2 * PARAMETER_LENGTH => 2 <= k /\ v > PARAMETER_LENGTH
    BY FieldWords
  <1>3. n \in Nat /\ l \in Nat /\ a + r <= l /\ parameterOffset = Position(n) /\ call.large \in Nat
    BY LargeType DEF Reads
  <1>4. Ahead(a + r + 1) /\ Ahead(a + r + 1)'
    BY DEF InField, Ahead, Reads
  <1>5. \A m \in Nat : m <= a + r => Position(m) <= UINT16_MAX
    <2>1. ASSUME NEW m \in Nat, m <= a + r PROVE Position(m) <= UINT16_MAX
      <3>1. m <= l + 1
        BY <1>2, <1>3, <2>1
      <3>2. QED
        BY <3>1, PositionFits DEF Reads, Readable, l
    <2>2. QED
      BY <2>1
  <1>6. \A m \in Nat : m <= a + r + 1 => Ahead(m)
    BY <1>2, <1>3, <1>4 DEF Ahead
  <1> HIDE DEF k, r, l
  <1>7. \/ Due(f.data, a + 1) /\ len[f.slot] = v
        \/ Due(f.second, a + k) /\ v >= 2 * PARAMETER_LENGTH
        \/ Due(f.last, a + k + 1) /\ v > PARAMETER_LENGTH
    BY DEF InField, k
  <1>8. CASE Due(f.data, a + 1) /\ len[f.slot] = v
    <2>1. next_param = f.data /\ n = a + 1
      BY <1>8, DueNow
    <2>2. ReadShort(f, Done) \/ ReadLong(f, length)
      BY <2>1 DEF ReadField
    <2>3. CASE ReadShort(f, Done)
      <3>1. v <= PARAMETER_LENGTH /\ Done
        BY <1>8, <2>3 DEF ReadShort
      <3>2. n = a + r
        BY <1>2, <2>1, <3>1
      <3>3. QED
        BY <1>1, <1>4, <3>1, <3>2 DEF r
    <2>4. CASE ReadLong(f, length)
      <3>1. /\ v > PARAMETER_LENGTH /\ UNCHANGED id
            /\ \/ k < 2 /\ Seek(parameterOffset + PARAMETER_LENGTH, f.last)
               \/ k >= 2 /\ Seek(parameterOffset + (k - 1) * PARAMETER_LENGTH, f.second)
               \/ Seek(parameterOffset + k * PARAMETER_LENGTH, f.last)
        BY <1>8, <2>4 DEF ReadLong, k
      <3>2. CASE k < 2 /\ Seek(parameterOffset + PARAMETER_LENGTH, f.last)
        <4>1. k = 1 /\ n + 1 = a + k + 1 /\ n < a + k + 1 /\ a + k + 1 \in Nat /\ a + k + 1 <= a + r
          BY <1>2, <1>3, <2>1, <3>1, <3>2
        <4>2. parameterOffset + PARAMETER_LENGTH = Position(a + k + 1)
          BY <1>3, <4>1, Positions
        <4>3. Position(a + k + 1) <= UINT16_MAX /\ Ahead(a + k + 1)
          BY <1>2, <1>5, <1>6, <4>1
        <4>4. Due(f.last, a + k + 1)'
          BY <3>2, <4>1, <4>2, <4>3, SeekDue
        <4>5. QED
          BY <1>1, <1>4, <3>1, <4>4 DEF InField, k, r
      <3>3. CASE k >= 2 /\ Seek(parameterOffset + (k - 1) * PARAMETER_LENGTH, f.second)
        <4>1. n + (k - 1) = a + k /\ n < a + k /\ a + k \in Nat /\ a + k <= a + r /\ k - 1 \in Int
          BY <1>2, <1>3, <2>1, <3>1, <3>3
        <4>2. parameterOffset + (k - 1) * PARAMETER_LENGTH = Position(a + k)
          BY <1>3, <4>1, Positions
        <4>3. Position(a + k) <= UINT16_MAX /\ Ahead(a + k)
          BY <1>2, <1>5, <1>6, <4>1
        <4>4. Due(f.second, a + k)'
          BY <3>3, <4>1, <4>2, <4>3, SeekDue
        <4>5. v >= 2 * PARAMETER_LENGTH
          BY <1>2, <3>3
        <4>6. QED
          BY <1>1, <1>4, <3>1, <4>4, <4>5 DEF InField, k, r
      <3>4. CASE Seek(parameterOffset + k * PARAMETER_LENGTH, f.last)
        <4>1. n + k = a + k + 1 /\ n < a + k + 1 /\ a + k + 1 \in Nat /\ a + k + 1 <= a + r
          BY <1>2, <1>3, <2>1, <3>1
        <4>2. parameterOffset + k * PARAMETER_LENGTH = Position(a + k + 1)
          BY <1>2, <1>3, <4>1, Positions
        <4>3. Position(a + k + 1) <= UINT16_MAX /\ Ahead(a + k + 1)
          BY <1>2, <1>5, <1>6, <4>1
        <4>4. Due(f.last, a + k + 1)'
          BY <3>4, <4>1, <4>2, <4>3, SeekDue
        <4>5. QED
          BY <1>1, <1>4, <3>1, <4>4 DEF InField, k, r
      <3>5. QED
        BY <3>1, <3>2, <3>3, <3>4
    <2>5. QED
      BY <2>2, <2>3, <2>4
  <1>9. CASE Due(f.second, a + k) /\ v >= 2 * PARAMETER_LENGTH
    <2>1. a + k \in Nat
      BY <1>2
    <2>2. next_param = f.second /\ n = a + k
      BY <1>9, <2>1, DueNow
    <2>3. Advance(f.last) /\ UNCHANGED id
      BY <2>2 DEF ReadField, ReadSecondLast
    <2>4. n + 1 = a + k + 1 /\ n + 1 \in Nat /\ n + 1 <= a + r + 1 /\ v > PARAMETER_LENGTH
      BY <1>2, <1>9, <2>1, <2>2
    <2>5. Due(f.last, a + k + 1)'
      BY <1>6, <2>3, <2>4, NextDue
    <2>6. QED
      BY <1>1, <1>4, <2>3, <2>4, <2>5 DEF InField, k, r
  <1>10. CASE Due(f.last, a + k + 1) /\ v > PARAMETER_LENGTH
    <2>1. a + k + 1 \in Nat /\ a + k + 1 = a + r
      BY <1>2, <1>10
    <2>2. next_param = f.last /\ n = a + r
      BY <1>10, <2>1, DueNow
    <2>3. Done
      BY <2>2 DEF ReadField, ReadLast
    <2>4. QED
      BY <1>1, <1>4, <2>2, <2>3 DEF r
  <1>11. QED
    BY <1>7, <1>8, <1>9, <1>10

\* Until the next of its words is reached.
LEMMA StillInField ==
  ASSUME NEW w, NEW n, Reads(w, n), NEW f, NEW a \in Nat, NEW v \in Nat, SelfContained(v),
         InField(f, a, v), SkipToOffset
  PROVE  InField(f, a, v)'
  <1>1. v \div PARAMETER_LENGTH \in Nat
    BY FieldWords
  <1>2. \A p : \A m \in Nat : Due(p, m) => Due(p, m)'
    BY StillDue
  <1>3. UNCHANGED len
    BY DEF SkipToOffset, fields
  <1>4. a + 1 \in Nat /\ a + v \div PARAMETER_LENGTH \in Nat
        /\ a + v \div PARAMETER_LENGTH + 1 \in Nat
    BY <1>1
  <1>5. Ahead(a + WordsFor(v) + 1)'
    BY DEF InField, Ahead, Reads
  <1>6. QED
    BY <1>2, <1>3, <1>4, <1>5 DEF InField

(***************************************************************************)
(* Where the numbers of a call are.                                        *)
(***************************************************************************)

\* A static parameter is no number of them.
LEMMA StaticWord ==
  ASSUME NEW w, NEW n, Reads(w, n), n \in 1 .. Len(Signature(call.selector)),
         Signature(call.selector)[n] = "word"
  PROVE  n # call.large /\ Encode(call)[n] = Static(call)
  <1> DEFINE h == Len(Signature(call.selector))
  <1>1. call \in Transactions /\ Supported(call) /\ call.large \in Numbers(call) \cup {0}
    BY DEF Reads, Readable
  <1>2. h \in 1 .. 6 /\ Encode(call)[n] = Static(call)
    BY <1>1, CallWords
  <1>6. \A i \in 1 .. h : TailWord(call, i) \in Nat /\ h <= TailWord(call, i)
    <2>1. Tails(call) \in Seq(Seq(Word)) /\ Len(Tails(call)) = h
      BY <1>1, TailWords
    <2>2. \A k \in 0 .. h : Before(Tails(call), k) \in Nat
      BY <2>1, PartStarts
    <2>3. \A i \in 1 .. h : Before(Tails(call), i - 1) \in Nat
      BY <1>2, <2>2
    <2>4. QED
      BY <1>2, <2>3 DEF TailWord
  <1>3. ASSUME n \in Numbers(call) PROVE FALSE
    <2>1. CASE \E i \in 1 .. h : Signature(call.selector)[i] # "word" /\ n = i
      BY <2>1
    <2>2. CASE \E i \in 1 .. h : Sized(call, i) /\ n = TailWord(call, i) + 1
      <3>1. PICK i \in 1 .. h : n = TailWord(call, i) + 1
        BY <2>2
      <3>2. QED
        BY <1>2, <1>6, <3>1
    <2>3. CASE /\ call.selector \in OneArray
               /\ \E e \in 1 .. Len(call.lens) : n = h + 1 + e \/ n = ElementWord(call, e)
      <3>1. PICK e \in Nat \ {0} : /\ n = h + 1 + e \/ n = ElementWord(call, e)
                                  /\ e \in 1 .. Len(call.lens)
        <4>1. Len(call.lens) \in Nat
          BY <1>1, <2>3, ArrayWords
        <4>2. QED
          BY <2>3, <4>1
      <3>2. /\ ElementWord(call, e) \in Nat /\ h + 1 + Len(call.lens) < ElementWord(call, e)
            /\ Len(call.lens) \in Nat
        BY <1>1, <2>3, <3>1, ArrayWords
      <3>3. h < ElementWord(call, e) /\ h \in Nat /\ n \in 1 .. h
        <4> DEFINE l == Len(call.lens)
        <4>1. h \in Nat
          BY <1>2
        <4>2. n \in 1 .. h
          OBVIOUS
        <4>3. l \in Nat /\ h + 1 + l < ElementWord(call, e) /\ ElementWord(call, e) \in Nat
          BY <3>2, Zenon
        <4> HIDE DEF l, h
        <4>4. QED
          BY <4>1, <4>2, <4>3
      <3> HIDE DEF h
      <3>4. QED
        BY <3>1, <3>2, <3>3
    <2>4. QED
      BY <1>1, <1>3, <2>1, <2>2, <2>3, NumberWords
  <1>4. n # 0
    BY <1>2
  <1>5. QED
    BY <1>1, <1>2, <1>3, <1>4

\* A call of one string or byte array: its length is behind the head, and no
\* number is behind it.
LEMMA OneDataWords ==
  ASSUME NEW w, NEW n, Reads(w, n), call.selector \in OneData,
         NEW i \in 1 .. Len(Signature(call.selector)), Signature(call.selector)[i] = "data",
         \A j \in 1 .. Len(Signature(call.selector)) :
            j # i => Signature(call.selector)[j] = "word"
  PROVE  /\ NumberWord(i) = Len(Signature(call.selector)) + 1
         /\ call.large \in {0, i, Len(Signature(call.selector)) + 1}
  <1> DEFINE h == Len(Signature(call.selector))
  <1>1. call \in Transactions /\ Supported(call) /\ call.large \in Numbers(call) \cup {0}
    BY DEF Reads, Readable
  <1>2. /\ h \in 1 .. 6
        /\ TailWord(call, 1) = h
        /\ \A j \in 1 .. h :
             /\ TailWord(call, j) \in Nat
             /\ TailWord(call, j + 1) = TailWord(call, j) + Len(TailOf(call, j))
             /\ j < i => Len(TailOf(call, j)) = 0
    BY <1>1, CallWords
  <1>3. i \in 1 .. 3
    <2> DEFINE kinds == Signature(call.selector)
    <2>1. \/ kinds = << "data", "word", "word", "word" >>
          \/ kinds = << "data", "word", "word", "word", "word", "word" >>
          \/ kinds = << "data", "word" >>
          \/ kinds = << "data" >>
          \/ kinds = << "word", "word", "data" >>
          \/ kinds = << "word", "data" >>
      BY Signatures DEF OneData
    <2>2. i \in 1 .. Len(kinds) /\ kinds[i] = "data"
      OBVIOUS
    <2> HIDE DEF kinds
    <2>3. QED
      BY <2>1, <2>2
  <1>4. TailWord(call, i) = h
    <2>1. CASE i = 1
      BY <1>2, <2>1
    <2>2. CASE i = 2
      BY <1>2, <2>2
    <2>3. CASE i = 3
      <3>1. TailWord(call, 2) = h
        BY <1>2, <2>3
      <3>2. TailWord(call, 3) = h
        BY <1>2, <2>3, <3>1
      <3>3. QED
        BY <2>3, <3>2
    <2>4. QED
      BY <1>3, <2>1, <2>2, <2>3
  <1>5. call.selector \notin OneArray
    BY DEF OneData, OneArray
  <1>6. \A j \in 1 .. h : Signature(call.selector)[j] # "word" \/ Sized(call, j) => j = i
    BY DEF Sized
  <1>7. QED
    BY <1>1, <1>4, <1>5, <1>6, NumberWords DEF NumberWord

(***************************************************************************)
(* The handlers.                                                           *)
(***************************************************************************)

\* A word the parser skips.
LEMMA Skipped ==
  ASSUME NEW w, NEW n, Reads(w, n), Times, SkipToOffset
  PROVE  /\ result' = "OK"
         /\ Times'
         /\ \A p : \A m \in Nat : Due(p, m) => Due(p, m)'
         /\ \A k, i : Saved(k, i) => Saved(k, i)'
         /\ \A params : Trailing(params) => Trailing(params)'
         /\ UNCHANGED fields
  <1>1. \A p : \A m \in Nat : Due(p, m) => Due(p, m)'
    BY StillDue
  <1>2. result' = "OK" /\ UNCHANGED <<cursor, fields>>
    BY DEF SkipToOffset
  <1>3. Times'
    BY <1>2 DEF Times, fields
  <1>4. \A k, i : Saved(k, i) => Saved(k, i)'
    BY <1>2 DEF Saved, fields, Reads
  <1>5. \A params : Trailing(params) => Trailing(params)'
    BY <1>2 DEF Trailing, cursor, Reads
  <1>6. QED
    BY <1>1, <1>2, <1>3, <1>4, <1>5

\* The length of the only string or byte array is read.
LEMMA LastLengthRead ==
  ASSUME NEW w, NEW n, Reads(w, n), Ahead(n), Shaped, call.large <= n,
         NEW i \in 1 .. Len(Signature(call.selector)), Signature(call.selector)[i] = "data",
         n = NumberWord(i), NEW k \in Slots, Saved(k, i), NEW params, NEW p \in params,
         ReadLengthAt(offsets[k], w, k, p)
  PROVE  Goes(Trailing(params)') /\ UNCHANGED statics
  <1>1. /\ Goes(/\ Due(p, n + 1)' /\ n # call.large
                 /\ len'[k] = call.lens[DataIndex(call, i)])
        /\ UNCHANGED <<statics, offsets, id>>
    <2>1. PICK o : o = offsets[k]
      OBVIOUS
    <2>2. o = PARAMETER_LENGTH * TailWord(call, i) /\ ReadLengthAt(o, w, k, p)
      BY <2>1 DEF Saved
    <2>3. QED
      BY <2>2, LengthRead
  <1>2. CASE result' = "OK"
    <2>1. next_param' = p /\ n # call.large
      BY <1>1, <1>2 DEF Goes, Due, Here
    <2>2. call.large = 0 /\ call' = call
      BY <2>1, LargeType DEF Ahead, Reads
    <2>3. QED
      BY <1>1, <1>2, <2>1, <2>2 DEF Goes, Trailing
  <1>3. CASE result' # "OK"
    BY <1>1, <1>3 DEF Goes
  <1>4. QED
    BY <1>2, <1>3

\* The same times.
LEMMA SameTimes == Times /\ statics' = statics => Times'
  BY DEF Times

\* setName.
LEMMA SetNameStep ==
  ASSUME NEW w, NEW n, Reads(w, n), Shaped, Times, call.selector = "c47f0027",
         OnSetName, handle_set_name(w)
  PROVE  Goes(OnSetName' /\ Times')
  <1>1. Signature(call.selector) = << "data" >> /\ call.selector \in OneData
    BY Signatures DEF OneData
  <1>2. NumberWord(1) = 2 /\ call.large \in {0, 1, 2}
    BY <1>1, OneDataWords
  <1>3. CASE SkipToOffset
    BY <1>3, Skipped DEF Goes, OnSetName
  <1>4. CASE ~SkipToOffset
    <2>1. /\ AtOffset
          /\ \/ IgnoreWord
             \/ next_param = "NAME_OFFSET" /\ SaveOffset(w, Name, "NAME_LENGTH")
             \/ next_param = "NAME_LENGTH" /\ ReadLengthAt(offsets[Name], w, Name, "NAME")
             \/ ReadField(NameField, len[Name], Then("NONE"))
      BY <1>4 DEF handle_set_name
    <2>2. ReadField(NameField, len[Name], Then("NONE")) => next_param \in NameData
      BY DEF ReadField, NameField, NameData
    <2>3. IgnoreWord => next_param = "NONE"
      BY DEF IgnoreWord
    <2>4. CASE Due("NAME_OFFSET", 1)
      <3>1. next_param = "NAME_OFFSET" /\ n = 1 /\ Ahead(n)
        BY <2>1, <2>4, DueNow
      <3>2. SaveOffset(w, Name, "NAME_LENGTH")
        BY <2>1, <2>2, <2>3, <3>1 DEF NameData
      <3>3. Goes(Saved(Name, 1)' /\ Due("NAME_LENGTH", 2)') /\ UNCHANGED statics
        BY <1>1, <3>1, <3>2, OffsetRead DEF Goes, Slots, Name
      <3>4. QED
        BY <3>3, SameTimes DEF Goes, OnSetName
    <2>5. CASE Saved(Name, 1) /\ Due("NAME_LENGTH", 2)
      <3>1. next_param = "NAME_LENGTH" /\ n = 2 /\ Ahead(n)
        BY <2>1, <2>5, DueNow
      <3>2. ReadLengthAt(offsets[Name], w, Name, "NAME")
        BY <2>1, <2>2, <2>3, <3>1 DEF NameData
      <3>3. Goes(Trailing(NameData)') /\ UNCHANGED statics
        <4>1. call.large <= n /\ "NAME" \in NameData /\ Name \in Slots
          BY <1>2, <3>1 DEF NameData, Name, Slots
        <4>2. QED
          BY <1>1, <1>2, <2>5, <3>1, <3>2, <4>1, LastLengthRead
      <3>4. QED
        BY <3>3, SameTimes DEF Goes, OnSetName
    <2>6. CASE Trailing(NameData)
      <3>1. IgnoreWord \/ ReadField(NameField, len[Name], Then("NONE"))
        BY <2>1, <2>6 DEF Trailing, NameData
      <3>2. {NameField.data, NameField.second, NameField.last} \subseteq NameData
        BY DEF NameField, NameData
      <3>3. result' = "OK" /\ Trailing(NameData)' /\ UNCHANGED statics
        BY <2>6, <3>1, <3>2, TrailingRead
      <3>4. QED
        BY <3>3, SameTimes DEF Goes, OnSetName
    <2>7. QED
      BY <2>4, <2>5, <2>6 DEF OnSetName
  <1>5. QED
    BY <1>3, <1>4

\* A static parameter is copied, and the next word is due.
LEMMA StaticCopied ==
  ASSUME NEW w, NEW n, Reads(w, n), Ahead(n), Shaped, Times,
         n \in 1 .. Len(Signature(call.selector)), Signature(call.selector)[n] = "word",
         NEW f, NEW p, CopyParameter(w, f, p) \/ CopyAddress(w, f, p)
  PROVE  /\ result' = "OK"
         /\ Here(p, n + 1)'
         /\ Due(p, n + 1)'
         /\ Times'
         /\ UNCHANGED <<offsets, len, id, offsets_start>>
  <1>1. n # call.large /\ Encode(call)[n] = Static(call)
    BY StaticWord
  <1>2. QED
    BY <1>1, WordCopied

\* What was saved still is.
LEMMA SavedKept ==
  ASSUME NEW w, NEW n, Reads(w, n), NEW k, NEW i, Saved(k, i), offsets'[k] = offsets[k]
  PROVE  Saved(k, i)'
  BY DEF Saved, Reads

\* register.
LEMMA RegisterStep ==
  ASSUME NEW w, NEW n, Reads(w, n), Shaped, Times, call.selector = "85f6d155",
         OnRegister, handle_register(w)
  PROVE  Goes(OnRegister' /\ Times')
  <1>1. Signature(call.selector) = << "data", "word", "word", "word" >> /\ call.selector \in OneData
    BY Signatures DEF OneData
  <1> DEFINE kinds == Signature(call.selector)
  <1>6. /\ Len(kinds) = 4
        /\ 1 \in 1 .. Len(kinds) /\ kinds[1] = "data"
        /\ \A j \in 1 .. Len(kinds) : j # 1 => kinds[j] = "word"
    <2>1. kinds = << "data", "word", "word", "word" >>
      BY <1>1
    <2> HIDE DEF kinds
    <2>2. QED
      BY <2>1
  <1>2. NumberWord(1) = 5 /\ call.large \in {0, 1, 5}
    BY <1>1, <1>6, OneDataWords
  <1>3. CASE SkipToOffset
    BY <1>3, Skipped DEF Goes, OnRegister
  <1>4. CASE ~SkipToOffset
    <2>1. /\ AtOffset
          /\ \/ IgnoreWord
             \/ next_param = "NAME_OFFSET" /\ SaveOffset(w, Name, "OWNER")
             \/ next_param = "OWNER" /\ CopyAddress(w, "owner", "DURATION")
             \/ next_param = "DURATION" /\ CopyParameter(w, "duration", "SECRET")
             \/ next_param = "SECRET" /\ CopyParameter(w, "secret", "NAME_LENGTH")
             \/ next_param = "NAME_LENGTH" /\ ReadLengthAt(offsets[Name], w, Name, "NAME")
             \/ ReadField(NameField, len[Name], Then("NONE"))
      BY <1>4 DEF handle_register
    <2>2. ReadField(NameField, len[Name], Then("NONE")) => next_param \in NameData
      BY DEF ReadField, NameField, NameData
    <2>3. IgnoreWord => next_param = "NONE"
      BY DEF IgnoreWord
    <2>4. CASE Due("NAME_OFFSET", 1)
      <3>1. next_param = "NAME_OFFSET" /\ n = 1 /\ Ahead(n)
        BY <2>1, <2>4, DueNow
      <3>2. SaveOffset(w, Name, "OWNER")
        BY <2>1, <2>2, <2>3, <3>1 DEF NameData
      <3>3. Goes(Saved(Name, 1)' /\ Due("OWNER", 2)') /\ UNCHANGED statics
        BY <1>1, <3>1, <3>2, OffsetRead DEF Goes, Slots, Name
      <3>4. QED
        BY <3>3, SameTimes DEF Goes, OnRegister
    <2>5. CASE Saved(Name, 1) /\ Due("OWNER", 2)
      <3>1. next_param = "OWNER" /\ n = 2 /\ Ahead(n)
        BY <2>1, <2>5, DueNow
      <3>2. CopyAddress(w, "owner", "DURATION")
        BY <2>1, <2>2, <2>3, <3>1 DEF NameData
      <3>3. /\ Due("DURATION", 3)' /\ Times'
            /\ result' = "OK" /\ UNCHANGED offsets
        <4>1. n \in 1 .. Len(kinds) /\ kinds[n] = "word"
          <5> HIDE DEF kinds
          <5>1. QED
            BY <1>6, <3>1
        <4>2. QED
          BY <3>1, <3>2, <4>1, StaticCopied
      <3>4. QED
        BY <2>5, <3>3, SavedKept DEF Goes, OnRegister
    <2>6. CASE Saved(Name, 1) /\ Due("DURATION", 3)
      <3>1. next_param = "DURATION" /\ n = 3 /\ Ahead(n)
        BY <2>1, <2>6, DueNow
      <3>2. CopyParameter(w, "duration", "SECRET")
        BY <2>1, <2>2, <2>3, <3>1 DEF NameData
      <3>3. /\ Due("SECRET", 4)' /\ Times'
            /\ result' = "OK" /\ UNCHANGED offsets
        <4>1. n \in 1 .. Len(kinds) /\ kinds[n] = "word"
          <5> HIDE DEF kinds
          <5>1. QED
            BY <1>6, <3>1
        <4>2. QED
          BY <3>1, <3>2, <4>1, StaticCopied
      <3>4. QED
        BY <2>6, <3>3, SavedKept DEF Goes, OnRegister
    <2>7. CASE Saved(Name, 1) /\ Due("SECRET", 4)
      <3>1. next_param = "SECRET" /\ n = 4 /\ Ahead(n)
        BY <2>1, <2>7, DueNow
      <3>2. CopyParameter(w, "secret", "NAME_LENGTH")
        BY <2>1, <2>2, <2>3, <3>1 DEF NameData
      <3>3. /\ Due("NAME_LENGTH", 5)' /\ Times'
            /\ result' = "OK" /\ UNCHANGED offsets
        <4>1. n \in 1 .. Len(kinds) /\ kinds[n] = "word"
          <5> HIDE DEF kinds
          <5>1. QED
            BY <1>6, <3>1
        <4>2. QED
          BY <3>1, <3>2, <4>1, StaticCopied
      <3>4. QED
        BY <2>7, <3>3, SavedKept DEF Goes, OnRegister
    <2>8. CASE Saved(Name, 1) /\ Due("NAME_LENGTH", 5)
      <3>1. next_param = "NAME_LENGTH" /\ n = 5 /\ Ahead(n)
        BY <2>1, <2>8, DueNow
      <3>2. ReadLengthAt(offsets[Name], w, Name, "NAME")
        BY <2>1, <2>2, <2>3, <3>1 DEF NameData
      <3>3. Goes(Trailing(NameData)') /\ UNCHANGED statics
        <4>1. call.large <= n /\ "NAME" \in NameData /\ Name \in Slots
          BY <1>2, <3>1 DEF NameData, Name, Slots
        <4>2. QED
          BY <1>1, <1>2, <2>8, <3>1, <3>2, <4>1, LastLengthRead
      <3>4. QED
        BY <3>3, SameTimes DEF Goes, OnRegister
    <2>9. CASE Trailing(NameData)
      <3>1. IgnoreWord \/ ReadField(NameField, len[Name], Then("NONE"))
        BY <2>1, <2>9 DEF Trailing, NameData
      <3>2. {NameField.data, NameField.second, NameField.last} \subseteq NameData
        BY DEF NameField, NameData
      <3>3. result' = "OK" /\ Trailing(NameData)' /\ UNCHANGED statics
        BY <2>9, <3>1, <3>2, TrailingRead
      <3>4. QED
        BY <3>3, SameTimes DEF Goes, OnRegister
    <2>10. QED
      BY <2>4, <2>5, <2>6, <2>7, <2>8, <2>9 DEF OnRegister
  <1>5. QED
    BY <1>3, <1>4

\* registerWithConfig.
LEMMA RegisterWithConfigStep ==
  ASSUME NEW w, NEW n, Reads(w, n), Shaped, Times, call.selector = "f7a16963",
         OnRegisterWithConfig, handle_register_with_config(w)
  PROVE  Goes(OnRegisterWithConfig' /\ Times')
  <1>1. Signature(call.selector) = << "data", "word", "word", "word", "word", "word" >> /\ call.selector \in OneData
    BY Signatures DEF OneData
  <1> DEFINE kinds == Signature(call.selector)
  <1>6. /\ Len(kinds) = 6
        /\ 1 \in 1 .. Len(kinds) /\ kinds[1] = "data"
        /\ \A j \in 1 .. Len(kinds) : j # 1 => kinds[j] = "word"
    <2>1. kinds = << "data", "word", "word", "word", "word", "word" >>
      BY <1>1
    <2> HIDE DEF kinds
    <2>2. QED
      BY <2>1
  <1>2. NumberWord(1) = 7 /\ call.large \in {0, 1, 7}
    <2>1. NumberWord(1) = Len(kinds) + 1 /\ call.large \in {0, 1, Len(kinds) + 1}
      BY <1>1, <1>6, OneDataWords
    <2> HIDE DEF kinds
    <2>2. QED
      BY <1>6, <2>1
  <1>3. CASE SkipToOffset
    BY <1>3, Skipped DEF Goes, OnRegisterWithConfig
  <1>4. CASE ~SkipToOffset
    <2>1. /\ AtOffset
          /\ \/ IgnoreWord
             \/ next_param = "NAME_OFFSET" /\ SaveOffset(w, Name, "OWNER")
             \/ /\ next_param = "OWNER"
                /\ CopyWord(w, "owner", 12)
                /\ Seek(parameterOffset + 2 * PARAMETER_LENGTH, "SECRET")
             \/ next_param = "SECRET" /\ CopyParameter(w, "secret", "RESOLVER")
             \/ next_param = "RESOLVER" /\ CopyAddress(w, "resolver", "ADDR")
             \/ next_param = "ADDR" /\ CopyAddress(w, "addr", "NAME_LENGTH")
             \/ next_param = "NAME_LENGTH" /\ ReadLengthAt(offsets[Name], w, Name, "NAME")
             \/ ReadField(NameField, len[Name], Then("NONE"))
      BY <1>4 DEF handle_register_with_config
    <2>2. ReadField(NameField, len[Name], Then("NONE")) => next_param \in NameData
      BY DEF ReadField, NameField, NameData
    <2>3. IgnoreWord => next_param = "NONE"
      BY DEF IgnoreWord
    <2>4. CASE Due("NAME_OFFSET", 1)
      <3>1. next_param = "NAME_OFFSET" /\ n = 1 /\ Ahead(n)
        BY <2>1, <2>4, DueNow
      <3>2. SaveOffset(w, Name, "OWNER")
        BY <2>1, <2>2, <2>3, <3>1 DEF NameData
      <3>3. Goes(Saved(Name, 1)' /\ Due("OWNER", 2)') /\ UNCHANGED statics
        BY <1>1, <3>1, <3>2, OffsetRead DEF Goes, Slots, Name
      <3>4. QED
        BY <3>3, SameTimes DEF Goes, OnRegisterWithConfig
    <2>5. CASE Saved(Name, 1) /\ Due("OWNER", 2)
      <3>1. next_param = "OWNER" /\ n = 2 /\ Ahead(n)
        BY <2>1, <2>5, DueNow
      <3>2. /\ CopyWord(w, "owner", 12)
            /\ Seek(parameterOffset + 2 * PARAMETER_LENGTH, "SECRET")
        BY <2>1, <2>2, <2>3, <3>1 DEF NameData
      <3>3. result' = "OK" /\ UNCHANGED offsets /\ Times'
        <4>1. /\ result' = "OK" /\ UNCHANGED offsets
              /\ \E v : statics' = [statics EXCEPT !["owner"] = v]
          BY <3>2 DEF CopyWord
        <4>2. QED
          BY <4>1 DEF Times, Shaped, Statics
      <3>4. Due("SECRET", 4)'
        <4>1. call \in Transactions /\ Supported(call) /\ 4 <= Len(Encode(call))
          <5>1. call \in Transactions /\ Supported(call)
            BY DEF Reads, Readable
          <5> DEFINE k == Len(kinds)
                     t == Len(TailOf(call, 1))
                     l == Len(Encode(call))
          <5>2. TailWord(call, 1) = k /\ TailWord(call, 1) + t <= l /\ t \in Nat /\ l \in Nat
            BY <1>6, <5>1, CallWords
          <5>3. k = 6
            BY <1>6
          <5> HIDE DEF k, t, l
          <5>4. 4 <= l
            BY <5>2, <5>3
          <5>5. QED
            BY <5>1, <5>4 DEF l
        <4>2. Position(4) <= UINT16_MAX
          BY <4>1, PositionFits
        <4>3. parameterOffset + 2 * PARAMETER_LENGTH = Position(4)
          BY <3>1 DEF Reads, Position, PARAMETER_LENGTH, SELECTOR_SIZE
        <4>4. Ahead(4)
          BY <1>2, <3>1 DEF Ahead
        <4>5. QED
          BY <3>1, <3>2, <4>2, <4>3, <4>4, SeekDue
      <3>5. QED
        BY <2>5, <3>3, <3>4, SavedKept DEF Goes, OnRegisterWithConfig
    <2>6. CASE Saved(Name, 1) /\ Due("SECRET", 4)
      <3>1. next_param = "SECRET" /\ n = 4 /\ Ahead(n)
        BY <2>1, <2>6, DueNow
      <3>2. CopyParameter(w, "secret", "RESOLVER")
        BY <2>1, <2>2, <2>3, <3>1 DEF NameData
      <3>3. /\ Due("RESOLVER", 5)' /\ Times'
            /\ result' = "OK" /\ UNCHANGED offsets
        <4>1. n \in 1 .. Len(kinds) /\ kinds[n] = "word"
          <5> HIDE DEF kinds
          <5>1. QED
            BY <1>6, <3>1
        <4>2. QED
          BY <3>1, <3>2, <4>1, StaticCopied
      <3>4. QED
        BY <2>6, <3>3, SavedKept DEF Goes, OnRegisterWithConfig
    <2>7. CASE Saved(Name, 1) /\ Due("RESOLVER", 5)
      <3>1. next_param = "RESOLVER" /\ n = 5 /\ Ahead(n)
        BY <2>1, <2>7, DueNow
      <3>2. CopyAddress(w, "resolver", "ADDR")
        BY <2>1, <2>2, <2>3, <3>1 DEF NameData
      <3>3. /\ Due("ADDR", 6)' /\ Times'
            /\ result' = "OK" /\ UNCHANGED offsets
        <4>1. n \in 1 .. Len(kinds) /\ kinds[n] = "word"
          <5> HIDE DEF kinds
          <5>1. QED
            BY <1>6, <3>1
        <4>2. QED
          BY <3>1, <3>2, <4>1, StaticCopied
      <3>4. QED
        BY <2>7, <3>3, SavedKept DEF Goes, OnRegisterWithConfig
    <2>8. CASE Saved(Name, 1) /\ Due("ADDR", 6)
      <3>1. next_param = "ADDR" /\ n = 6 /\ Ahead(n)
        BY <2>1, <2>8, DueNow
      <3>2. CopyAddress(w, "addr", "NAME_LENGTH")
        BY <2>1, <2>2, <2>3, <3>1 DEF NameData
      <3>3. /\ Due("NAME_LENGTH", 7)' /\ Times'
            /\ result' = "OK" /\ UNCHANGED offsets
        <4>1. n \in 1 .. Len(kinds) /\ kinds[n] = "word"
          <5> HIDE DEF kinds
          <5>1. QED
            BY <1>6, <3>1
        <4>2. QED
          BY <3>1, <3>2, <4>1, StaticCopied
      <3>4. QED
        BY <2>8, <3>3, SavedKept DEF Goes, OnRegisterWithConfig
    <2>9. CASE Saved(Name, 1) /\ Due("NAME_LENGTH", 7)
      <3>1. next_param = "NAME_LENGTH" /\ n = 7 /\ Ahead(n)
        BY <2>1, <2>9, DueNow
      <3>2. ReadLengthAt(offsets[Name], w, Name, "NAME")
        BY <2>1, <2>2, <2>3, <3>1 DEF NameData
      <3>3. Goes(Trailing(NameData)') /\ UNCHANGED statics
        <4>1. call.large <= n /\ "NAME" \in NameData /\ Name \in Slots
          BY <1>2, <3>1 DEF NameData, Name, Slots
        <4>2. QED
          BY <1>1, <1>2, <2>9, <3>1, <3>2, <4>1, LastLengthRead
      <3>4. QED
        BY <3>3, SameTimes DEF Goes, OnRegisterWithConfig
    <2>10. CASE Trailing(NameData)
      <3>1. IgnoreWord \/ ReadField(NameField, len[Name], Then("NONE"))
        BY <2>1, <2>10 DEF Trailing, NameData
      <3>2. {NameField.data, NameField.second, NameField.last} \subseteq NameData
        BY DEF NameField, NameData
      <3>3. result' = "OK" /\ Trailing(NameData)' /\ UNCHANGED statics
        BY <2>10, <3>1, <3>2, TrailingRead
      <3>4. QED
        BY <3>3, SameTimes DEF Goes, OnRegisterWithConfig
    <2>11. QED
      BY <2>4, <2>5, <2>6, <2>7, <2>8, <2>9, <2>10 DEF OnRegisterWithConfig
  <1>5. QED
    BY <1>3, <1>4

\* renew.
LEMMA RenewStep ==
  ASSUME NEW w, NEW n, Reads(w, n), Shaped, Times, call.selector = "acf1a841",
         OnRenew, handle_renew(w)
  PROVE  Goes(OnRenew' /\ Times')
  <1>1. Signature(call.selector) = << "data", "word" >> /\ call.selector \in OneData
    BY Signatures DEF OneData
  <1> DEFINE kinds == Signature(call.selector)
  <1>6. /\ Len(kinds) = 2
        /\ 1 \in 1 .. Len(kinds) /\ kinds[1] = "data"
        /\ \A j \in 1 .. Len(kinds) : j # 1 => kinds[j] = "word"
    <2>1. kinds = << "data", "word" >>
      BY <1>1
    <2> HIDE DEF kinds
    <2>2. QED
      BY <2>1
  <1>2. NumberWord(1) = 3 /\ call.large \in {0, 1, 3}
    BY <1>1, <1>6, OneDataWords
  <1>3. CASE SkipToOffset
    BY <1>3, Skipped DEF Goes, OnRenew
  <1>4. CASE ~SkipToOffset
    <2>1. /\ AtOffset
          /\ \/ IgnoreWord
             \/ next_param = "NAME_OFFSET" /\ SaveOffset(w, Name, "DURATION")
             \/ next_param = "DURATION" /\ CopyParameter(w, "duration", "NAME_LENGTH")
             \/ next_param = "NAME_LENGTH" /\ ReadLengthAt(offsets[Name], w, Name, "NAME")
             \/ ReadField(NameField, len[Name], Then("NONE"))
      BY <1>4 DEF handle_renew
    <2>2. ReadField(NameField, len[Name], Then("NONE")) => next_param \in NameData
      BY DEF ReadField, NameField, NameData
    <2>3. IgnoreWord => next_param = "NONE"
      BY DEF IgnoreWord
    <2>4. CASE Due("NAME_OFFSET", 1)
      <3>1. next_param = "NAME_OFFSET" /\ n = 1 /\ Ahead(n)
        BY <2>1, <2>4, DueNow
      <3>2. SaveOffset(w, Name, "DURATION")
        BY <2>1, <2>2, <2>3, <3>1 DEF NameData
      <3>3. Goes(Saved(Name, 1)' /\ Due("DURATION", 2)') /\ UNCHANGED statics
        BY <1>1, <3>1, <3>2, OffsetRead DEF Goes, Slots, Name
      <3>4. QED
        BY <3>3, SameTimes DEF Goes, OnRenew
    <2>5. CASE Saved(Name, 1) /\ Due("DURATION", 2)
      <3>1. next_param = "DURATION" /\ n = 2 /\ Ahead(n)
        BY <2>1, <2>5, DueNow
      <3>2. CopyParameter(w, "duration", "NAME_LENGTH")
        BY <2>1, <2>2, <2>3, <3>1 DEF NameData
      <3>3. /\ Due("NAME_LENGTH", 3)' /\ Times'
            /\ result' = "OK" /\ UNCHANGED offsets
        <4>1. n \in 1 .. Len(kinds) /\ kinds[n] = "word"
          <5> HIDE DEF kinds
          <5>1. QED
            BY <1>6, <3>1
        <4>2. QED
          BY <3>1, <3>2, <4>1, StaticCopied
      <3>4. QED
        BY <2>5, <3>3, SavedKept DEF Goes, OnRenew
    <2>6. CASE Saved(Name, 1) /\ Due("NAME_LENGTH", 3)
      <3>1. next_param = "NAME_LENGTH" /\ n = 3 /\ Ahead(n)
        BY <2>1, <2>6, DueNow
      <3>2. ReadLengthAt(offsets[Name], w, Name, "NAME")
        BY <2>1, <2>2, <2>3, <3>1 DEF NameData
      <3>3. Goes(Trailing(NameData)') /\ UNCHANGED statics
        <4>1. call.large <= n /\ "NAME" \in NameData /\ Name \in Slots
          BY <1>2, <3>1 DEF NameData, Name, Slots
        <4>2. QED
          BY <1>1, <1>2, <2>6, <3>1, <3>2, <4>1, LastLengthRead
      <3>4. QED
        BY <3>3, SameTimes DEF Goes, OnRenew
    <2>7. CASE Trailing(NameData)
      <3>1. IgnoreWord \/ ReadField(NameField, len[Name], Then("NONE"))
        BY <2>1, <2>7 DEF Trailing, NameData
      <3>2. {NameField.data, NameField.second, NameField.last} \subseteq NameData
        BY DEF NameField, NameData
      <3>3. result' = "OK" /\ Trailing(NameData)' /\ UNCHANGED statics
        BY <2>7, <3>1, <3>2, TrailingRead
      <3>4. QED
        BY <3>3, SameTimes DEF Goes, OnRenew
    <2>8. QED
      BY <2>4, <2>5, <2>6, <2>7 DEF OnRenew
  <1>5. QED
    BY <1>3, <1>4

\* setAddr.
LEMMA SetAddrStep ==
  ASSUME NEW w, NEW n, Reads(w, n), Shaped, Times, call.selector = "8b95dd71",
         OnSetAddr, handle_set_addr(w)
  PROVE  Goes(OnSetAddr' /\ Times')
  <1>1. Signature(call.selector) = << "word", "word", "data" >> /\ call.selector \in OneData
    BY Signatures DEF OneData
  <1> DEFINE kinds == Signature(call.selector)
  <1>6. /\ Len(kinds) = 3
        /\ 3 \in 1 .. Len(kinds) /\ kinds[3] = "data"
        /\ \A j \in 1 .. Len(kinds) : j # 3 => kinds[j] = "word"
    <2>1. kinds = << "word", "word", "data" >>
      BY <1>1
    <2> HIDE DEF kinds
    <2>2. QED
      BY <2>1
  <1>2. NumberWord(3) = 4 /\ call.large \in {0, 3, 4}
    BY <1>1, <1>6, OneDataWords
  <1>3. CASE SkipToOffset
    BY <1>3, Skipped DEF Goes, OnSetAddr
  <1>4. CASE ~SkipToOffset
    <2>1. /\ AtOffset
          /\ \/ IgnoreWord
             \/ next_param = "NODE" /\ CopyParameter(w, "node", "COINTYPE")
             \/ next_param = "COINTYPE" /\ CopyParameter(w, "coinType", "HASH_OFFSET")
             \/ next_param = "HASH_OFFSET" /\ SaveOffset(w, Hash, "HASH_LEN")
             \/ next_param = "HASH_LEN" /\ ReadLengthAt(offsets[Hash], w, Hash, "HASH")
             \/ ReadField(HashField, statics["coinType"].alias, Then("NONE"))
      BY <1>4 DEF handle_set_addr
    <2>2. ReadField(HashField, statics["coinType"].alias, Then("NONE")) => next_param \in HashData
      BY DEF ReadField, HashField, HashData
    <2>3. IgnoreWord => next_param = "NONE"
      BY DEF IgnoreWord
    <2>4. CASE Due("NODE", 1)
      <3>1. next_param = "NODE" /\ n = 1 /\ Ahead(n)
        BY <2>1, <2>4, DueNow
      <3>2. CopyParameter(w, "node", "COINTYPE")
        BY <2>1, <2>2, <2>3, <3>1 DEF HashData
      <3>3. /\ Due("COINTYPE", 2)' /\ Times'
            /\ result' = "OK" /\ UNCHANGED offsets
        <4>1. n \in 1 .. Len(kinds) /\ kinds[n] = "word"
          <5> HIDE DEF kinds
          <5>1. QED
            BY <1>6, <3>1
        <4>2. QED
          BY <3>1, <3>2, <4>1, StaticCopied
      <3>4. QED
        BY <2>4, <3>3, SavedKept DEF Goes, OnSetAddr
    <2>5. CASE Due("COINTYPE", 2)
      <3>1. next_param = "COINTYPE" /\ n = 2 /\ Ahead(n)
        BY <2>1, <2>5, DueNow
      <3>2. CopyParameter(w, "coinType", "HASH_OFFSET")
        BY <2>1, <2>2, <2>3, <3>1 DEF HashData
      <3>3. /\ Due("HASH_OFFSET", 3)' /\ Times'
            /\ result' = "OK" /\ UNCHANGED offsets
        <4>1. n \in 1 .. Len(kinds) /\ kinds[n] = "word"
          <5> HIDE DEF kinds
          <5>1. QED
            BY <1>6, <3>1
        <4>2. QED
          BY <3>1, <3>2, <4>1, StaticCopied
      <3>4. QED
        BY <2>5, <3>3, SavedKept DEF Goes, OnSetAddr
    <2>6. CASE Due("HASH_OFFSET", 3)
      <3>1. next_param = "HASH_OFFSET" /\ n = 3 /\ Ahead(n)
        BY <2>1, <2>6, DueNow
      <3>2. SaveOffset(w, Hash, "HASH_LEN")
        BY <2>1, <2>2, <2>3, <3>1 DEF HashData
      <3>3. Goes(Saved(Hash, 3)' /\ Due("HASH_LEN", 4)') /\ UNCHANGED statics
        <4>1. n \in 1 .. Len(kinds) /\ kinds[n] # "word"
          <5> HIDE DEF kinds
          <5>1. QED
            BY <1>6, <3>1
        <4>2. Hash \in Slots
          BY DEF Hash, Slots
        <4>3. Goes(Saved(Hash, n)' /\ Due("HASH_LEN", n + 1)') /\ UNCHANGED statics
          BY <3>1, <3>2, <4>1, <4>2, OffsetRead DEF Goes
        <4>4. n = 3 /\ n + 1 = 4
          BY <3>1
        <4>5. QED
          BY <4>3, <4>4 DEF Goes, Saved, Due, Here
      <3>4. QED
        BY <3>3, SameTimes DEF Goes, OnSetAddr
    <2>7. CASE Saved(Hash, 3) /\ Due("HASH_LEN", 4)
      <3>1. next_param = "HASH_LEN" /\ n = 4 /\ Ahead(n)
        BY <2>1, <2>7, DueNow
      <3>2. ReadLengthAt(offsets[Hash], w, Hash, "HASH")
        BY <2>1, <2>2, <2>3, <3>1 DEF HashData
      <3>3. Goes(Trailing(HashData)') /\ UNCHANGED statics
        <4>1. call.large <= n /\ "HASH" \in HashData /\ Hash \in Slots
          BY <1>2, <3>1 DEF HashData, Hash, Slots
        <4>2. QED
          BY <1>1, <1>2, <2>7, <3>1, <3>2, <4>1, LastLengthRead
      <3>4. QED
        BY <3>3, SameTimes DEF Goes, OnSetAddr
    <2>8. CASE Trailing(HashData)
      <3>1. IgnoreWord \/ ReadField(HashField, statics["coinType"].alias, Then("NONE"))
        BY <2>1, <2>8 DEF Trailing, HashData
      <3>2. {HashField.data, HashField.second, HashField.last} \subseteq HashData
        BY DEF HashField, HashData
      <3>3. result' = "OK" /\ Trailing(HashData)' /\ UNCHANGED statics
        BY <2>8, <3>1, <3>2, TrailingRead
      <3>4. QED
        BY <3>3, SameTimes DEF Goes, OnSetAddr
    <2>9. QED
      BY <2>4, <2>5, <2>6, <2>7, <2>8 DEF OnSetAddr
  <1>5. QED
    BY <1>3, <1>4

\* setContenthash.
LEMMA SetContentHashStep ==
  ASSUME NEW w, NEW n, Reads(w, n), Shaped, Times, call.selector = "304e6ade",
         OnSetContentHash, handle_set_content_hash(w)
  PROVE  Goes(OnSetContentHash' /\ Times')
  <1>1. Signature(call.selector) = << "word", "data" >> /\ call.selector \in OneData
    BY Signatures DEF OneData
  <1> DEFINE kinds == Signature(call.selector)
  <1>6. /\ Len(kinds) = 2
        /\ 2 \in 1 .. Len(kinds) /\ kinds[2] = "data"
        /\ \A j \in 1 .. Len(kinds) : j # 2 => kinds[j] = "word"
    <2>1. kinds = << "word", "data" >>
      BY <1>1
    <2> HIDE DEF kinds
    <2>2. QED
      BY <2>1
  <1>2. NumberWord(2) = 3 /\ call.large \in {0, 2, 3}
    BY <1>1, <1>6, OneDataWords
  <1>3. CASE SkipToOffset
    BY <1>3, Skipped DEF Goes, OnSetContentHash
  <1>4. CASE ~SkipToOffset
    <2>1. /\ AtOffset
          /\ \/ IgnoreWord
             \/ next_param = "NODE" /\ CopyParameter(w, "node", "HASH_OFFSET")
             \/ next_param = "HASH_OFFSET" /\ SaveOffset(w, Hash, "HASH_LEN")
             \/ next_param = "HASH_LEN" /\ ReadLengthAt(offsets[Hash], w, Hash, "HASH")
             \/ ReadField(HashField, len[Hash], Then("NONE"))
      BY <1>4 DEF handle_set_content_hash
    <2>2. ReadField(HashField, len[Hash], Then("NONE")) => next_param \in HashData
      BY DEF ReadField, HashField, HashData
    <2>3. IgnoreWord => next_param = "NONE"
      BY DEF IgnoreWord
    <2>4. CASE Due("NODE", 1)
      <3>1. next_param = "NODE" /\ n = 1 /\ Ahead(n)
        BY <2>1, <2>4, DueNow
      <3>2. CopyParameter(w, "node", "HASH_OFFSET")
        BY <2>1, <2>2, <2>3, <3>1 DEF HashData
      <3>3. /\ Due("HASH_OFFSET", 2)' /\ Times'
            /\ result' = "OK" /\ UNCHANGED offsets
        <4>1. n \in 1 .. Len(kinds) /\ kinds[n] = "word"
          <5> HIDE DEF kinds
          <5>1. QED
            BY <1>6, <3>1
        <4>2. QED
          BY <3>1, <3>2, <4>1, StaticCopied
      <3>4. QED
        BY <2>4, <3>3, SavedKept DEF Goes, OnSetContentHash
    <2>5. CASE Due("HASH_OFFSET", 2)
      <3>1. next_param = "HASH_OFFSET" /\ n = 2 /\ Ahead(n)
        BY <2>1, <2>5, DueNow
      <3>2. SaveOffset(w, Hash, "HASH_LEN")
        BY <2>1, <2>2, <2>3, <3>1 DEF HashData
      <3>3. Goes(Saved(Hash, 2)' /\ Due("HASH_LEN", 3)') /\ UNCHANGED statics
        BY <1>1, <3>1, <3>2, OffsetRead DEF Goes, Slots, Hash
      <3>4. QED
        BY <3>3, SameTimes DEF Goes, OnSetContentHash
    <2>6. CASE Saved(Hash, 2) /\ Due("HASH_LEN", 3)
      <3>1. next_param = "HASH_LEN" /\ n = 3 /\ Ahead(n)
        BY <2>1, <2>6, DueNow
      <3>2. ReadLengthAt(offsets[Hash], w, Hash, "HASH")
        BY <2>1, <2>2, <2>3, <3>1 DEF HashData
      <3>3. Goes(Trailing(HashData)') /\ UNCHANGED statics
        <4>1. call.large <= n /\ "HASH" \in HashData /\ Hash \in Slots
          BY <1>2, <3>1 DEF HashData, Hash, Slots
        <4>2. QED
          BY <1>1, <1>2, <2>6, <3>1, <3>2, <4>1, LastLengthRead
      <3>4. QED
        BY <3>3, SameTimes DEF Goes, OnSetContentHash
    <2>7. CASE Trailing(HashData)
      <3>1. IgnoreWord \/ ReadField(HashField, len[Hash], Then("NONE"))
        BY <2>1, <2>7 DEF Trailing, HashData
      <3>2. {HashField.data, HashField.second, HashField.last} \subseteq HashData
        BY DEF HashField, HashData
      <3>3. result' = "OK" /\ Trailing(HashData)' /\ UNCHANGED statics
        BY <2>7, <3>1, <3>2, TrailingRead
      <3>4. QED
        BY <3>3, SameTimes DEF Goes, OnSetContentHash
    <2>8. QED
      BY <2>4, <2>5, <2>6, <2>7 DEF OnSetContentHash
  <1>5. QED
    BY <1>3, <1>4

\* A call of static parameters has no numbers.
LEMMA NoDataWords ==
  ASSUME NEW w, NEW n, Reads(w, n), call.selector \in NoData
  PROVE  /\ call.large = 0
         /\ Ahead(n)
         /\ n # call.large
         /\ \A i \in 1 .. Len(Signature(call.selector)) : Signature(call.selector)[i] = "word"
  <1> DEFINE kinds == Signature(call.selector)
  <1>1. call \in Transactions /\ Supported(call) /\ call.large \in Numbers(call) \cup {0}
    BY DEF Reads, Readable
  <1>2. \A i \in 1 .. Len(kinds) : kinds[i] = "word"
    <2>1. \/ kinds = << "word" >>
          \/ kinds = << "word", "word" >>
          \/ kinds = << "word", "word", "word", "word", "word" >>
      BY Signatures DEF NoData
    <2> HIDE DEF kinds
    <2>2. QED
      BY <2>1
  <1>3. call.selector \notin OneArray
    BY DEF NoData, OneArray
  <1>4. call.large = 0
    BY <1>1, <1>2, <1>3, NumberWords DEF Sized
  <1>5. QED
    BY <1>2, <1>4, LargeType DEF Ahead, Reads

\* commit.
LEMMA CommitStep ==
  ASSUME NEW w, NEW n, Reads(w, n), Shaped, Times, call.selector = "f14fcbc8",
         OnCommit, handle_commit(w)
  PROVE  Goes(OnCommit' /\ Times')
  <1>1. call.large = 0 /\ Ahead(n) /\ n # call.large /\ call' = call
    BY NoDataWords DEF NoData, Reads
  <1>2. CASE IgnoreWord
    BY <1>1, <1>2 DEF IgnoreWord, OnCommit, Trailing, Goes, Times, fields
  <1>3. CASE CopyParameter(w, "commitment", "NONE")
    <2>1. result' = "OK" /\ Here("NONE", n + 1)' /\ Times'
      BY <1>1, <1>3, WordCopied
    <2>2. QED
      BY <1>1, <2>1 DEF Here, OnCommit, Trailing, Goes
  <1>4. QED
    BY <1>2, <1>3 DEF handle_commit

\* setOwner.
LEMMA SetOwnerStep ==
  ASSUME NEW w, NEW n, Reads(w, n), Shaped, Times, call.selector = "5b0fc9c3",
         OnSetOwner, handle_owner(w)
  PROVE  Goes(OnSetOwner' /\ Times')
  <1>1. call.large = 0 /\ Ahead(n) /\ n # call.large /\ call' = call
    BY NoDataWords DEF NoData, Reads
  <1>2. CASE IgnoreWord
    BY <1>1, <1>2 DEF IgnoreWord, OnSetOwner, Trailing, Goes, Times, fields
  <1>3. ASSUME NEW f \in {"node", "owner"}, NEW p \in {"OWNER", "NONE"},
               CopyParameter(w, f, p) \/ CopyAddress(w, f, p)
        PROVE  Goes(OnSetOwner' /\ Times')
    <2>1. result' = "OK" /\ Here(p, n + 1)' /\ Times'
      BY <1>1, <1>3, WordCopied
    <2>2. QED
      BY <1>1, <2>1 DEF Here, OnSetOwner, Trailing, Goes
  <1>4. QED
    BY <1>2, <1>3 DEF handle_owner

\* setResolver.
LEMMA SetResolverStep ==
  ASSUME NEW w, NEW n, Reads(w, n), Shaped, Times, call.selector = "1896f70a",
         OnSetResolver, handle_resolver(w)
  PROVE  Goes(OnSetResolver' /\ Times')
  <1>1. call.large = 0 /\ Ahead(n) /\ n # call.large /\ call' = call
    BY NoDataWords DEF NoData, Reads
  <1>2. CASE IgnoreWord
    BY <1>1, <1>2 DEF IgnoreWord, OnSetResolver, Trailing, Goes, Times, fields
  <1>3. ASSUME NEW f \in {"node", "resolver"}, NEW p \in {"RESOLVER", "NONE"},
               CopyParameter(w, f, p) \/ CopyAddress(w, f, p)
        PROVE  Goes(OnSetResolver' /\ Times')
    <2>1. result' = "OK" /\ Here(p, n + 1)' /\ Times'
      BY <1>1, <1>3, WordCopied
    <2>2. QED
      BY <1>1, <2>1 DEF Here, OnSetResolver, Trailing, Goes
  <1>4. QED
    BY <1>2, <1>3 DEF handle_resolver

\* setSubnodeRecord.
LEMMA SetSubnodeStep ==
  ASSUME NEW w, NEW n, Reads(w, n), Shaped, Times, call.selector = "5ef2c7f0",
         OnSetSubnode, handle_subnode(w)
  PROVE  Goes(OnSetSubnode' /\ Times')
  <1> DEFINE kinds == Signature(call.selector)
  <1>1. /\ call.large = 0 /\ Ahead(n) /\ n # call.large /\ call' = call
        /\ \A i \in 1 .. Len(kinds) : kinds[i] = "word"
    BY NoDataWords DEF NoData, Reads
  <1>2. Len(kinds) = 5
    BY Signatures
  <1>3. CASE IgnoreWord
    <2>1. OnSetSubnode'
      BY <1>1, <1>3 DEF IgnoreWord, OnSetSubnode, Trailing
    <2>2. QED
      BY <1>3, <2>1, SameTimes DEF IgnoreWord, Goes, fields
  <1>4. ASSUME NEW f, NEW p, CopyParameter(w, f, p) \/ CopyAddress(w, f, p), next_param # "NONE"
        PROVE  result' = "OK" /\ Here(p, n + 1)' /\ Times'
    <2>1. n \in 1 .. 5
      BY <1>4 DEF OnSetSubnode, Here, Trailing, Reads
    <2>2. n \in 1 .. Len(kinds)
      BY <1>2, <2>1
    <2>3. kinds[n] = "word"
      BY <1>1, <2>2
    <2>4. QED
      BY <1>1, <1>4, <2>2, <2>3, StaticCopied
  <1>5. CASE Here("NODE", 1) /\ ~IgnoreWord
    <2>1. next_param = "NODE" /\ n = 1
      BY <1>5 DEF Here, Reads
    <2>2. CopyParameter(w, "node", "LABEL")
      BY <1>5, <2>1 DEF handle_subnode
    <2>3. result' = "OK" /\ Here("LABEL", n + 1)' /\ Times'
      BY <1>4, <2>1, <2>2
    <2>4. QED
      BY <2>1, <2>3 DEF OnSetSubnode, Goes
  <1>6. CASE Here("LABEL", 2) /\ ~IgnoreWord
    <2>1. next_param = "LABEL" /\ n = 2
      BY <1>6 DEF Here, Reads
    <2>2. CopyParameter(w, "label", "OWNER")
      BY <1>6, <2>1 DEF handle_subnode
    <2>3. result' = "OK" /\ Here("OWNER", n + 1)' /\ Times'
      BY <1>4, <2>1, <2>2
    <2>4. QED
      BY <2>1, <2>3 DEF OnSetSubnode, Goes
  <1>7. CASE Here("OWNER", 3) /\ ~IgnoreWord
    <2>1. next_param = "OWNER" /\ n = 3
      BY <1>7 DEF Here, Reads
    <2>2. CopyAddress(w, "owner", "RESOLVER")
      BY <1>7, <2>1 DEF handle_subnode
    <2>3. result' = "OK" /\ Here("RESOLVER", n + 1)' /\ Times'
      BY <1>4, <2>1, <2>2
    <2>4. QED
      BY <2>1, <2>3 DEF OnSetSubnode, Goes
  <1>8. CASE Here("RESOLVER", 4) /\ ~IgnoreWord
    <2>1. next_param = "RESOLVER" /\ n = 4
      BY <1>8 DEF Here, Reads
    <2>2. CopyAddress(w, "resolver", "TTL")
      BY <1>8, <2>1 DEF handle_subnode
    <2>3. result' = "OK" /\ Here("TTL", n + 1)' /\ Times'
      BY <1>4, <2>1, <2>2
    <2>4. QED
      BY <2>1, <2>3 DEF OnSetSubnode, Goes
  <1>9. CASE Here("TTL", 5) /\ ~IgnoreWord
    <2>1. next_param = "TTL" /\ n = 5
      BY <1>9 DEF Here, Reads
    <2>2. CopyParameter(w, "ttl", "NONE")
      BY <1>9, <2>1 DEF handle_subnode
    <2>3. result' = "OK" /\ Here("NONE", n + 1)' /\ Times'
      BY <1>4, <2>1, <2>2
    <2>4. QED
      BY <1>1, <2>3 DEF OnSetSubnode, Goes, Trailing, Here
  <1>10. CASE Trailing({})
    BY <1>3, <1>10 DEF Trailing, handle_subnode
  <1>11. QED
    BY <1>3, <1>5, <1>6, <1>7, <1>8, <1>9, <1>10 DEF OnSetSubnode

\* Where the numbers of setText are.
LEMMA SetTextWords ==
  ASSUME NEW w, NEW n, Reads(w, n), call.selector = "10f13a8c"
  PROVE  LET v == call.lens[1]
         IN /\ v \in Nat
            /\ SelfContained(v)
            /\ WordsFor(v) \in Nat
            /\ 4 + WordsFor(v) <= Len(Encode(call))
            /\ NumberWord(2) = 4
            /\ NumberWord(3) = 4 + WordsFor(v) + 1
            /\ DataIndex(call, 2) = 1
            /\ call.large \in {0, 2, 3, 4, NumberWord(3)}
  <1> DEFINE kinds == Signature(call.selector)
             v == call.lens[1]
  <1>1. call \in Transactions /\ Supported(call) /\ call.large \in Numbers(call) \cup {0}
    BY DEF Reads, Readable
  <1>2. kinds = << "word", "data", "data" >> /\ DataIndex(call, 2) = 1
    BY Signatures, DataIndexes
  <1>3. /\ Len(kinds) = 3 /\ kinds[1] = "word" /\ kinds[2] = "data" /\ kinds[3] = "data"
        /\ 1 \in 1 .. Len(kinds) /\ 2 \in 1 .. Len(kinds) /\ 3 \in 1 .. Len(kinds)
    <2> HIDE DEF kinds
    <2>1. QED
      BY <1>2
  <1>4. TailWord(call, 2) = 3
    <2>1. /\ TailWord(call, 1) = Len(kinds)
          /\ TailWord(call, 1 + 1) = TailWord(call, 1) + Len(TailOf(call, 1))
          /\ Len(TailOf(call, 1)) = 0
      BY <1>1, <1>3, CallWords
    <2> HIDE DEF kinds
    <2>2. QED
      BY <1>3, <2>1
  <1>5. /\ v \in Nat
        /\ WordsFor(v) \in Nat
        /\ TailWord(call, 3) = TailWord(call, 2) + 1 + WordsFor(v)
        /\ TailWord(call, 3) <= Len(Encode(call))
    <2>1. /\ call.lens[DataIndex(call, 2)] \in Nat
          /\ WordsFor(call.lens[DataIndex(call, 2)]) \in Nat
          /\ TailWord(call, 2 + 1) = TailWord(call, 2) + 1 + WordsFor(call.lens[DataIndex(call, 2)])
          /\ TailWord(call, 2 + 1) <= Len(Encode(call))
      BY <1>1, <1>3, DataWords
    <2> HIDE DEF kinds
    <2>2. QED
      BY <1>2, <2>1
  <1>6. SelfContained(v)
    <2>1. Len(call.lens) = 2
      BY <1>1, <1>3, KindType DEF TwoData
    <2>2. 1 \in 1 .. Len(call.lens) - 1
      BY <2>1
    <2>3. QED
      BY <1>1, <2>2 DEF Supported
  <1>7. call.selector \notin OneArray
    BY DEF OneArray
  <1>8. call.large \in {0, 2, 3, NumberWord(2), NumberWord(3)}
    <2>1. \A i \in 1 .. Len(kinds) : kinds[i] # "word" \/ Sized(call, i) => i \in {2, 3}
      <3>1. \A i \in 1 .. Len(kinds) : i \in {1, 2, 3}
        <4> HIDE DEF kinds
        <4>1. QED
          BY <1>3
      <3>2. QED
        BY <1>3, <3>1 DEF Sized
    <2>2. CASE call.large = 0
      BY <2>2
    <2>3. CASE \E i \in 1 .. Len(kinds) : kinds[i] # "word" /\ call.large = i
      BY <2>1, <2>3
    <2>4. CASE \E i \in 1 .. Len(kinds) : Sized(call, i) /\ call.large = TailWord(call, i) + 1
      BY <2>1, <2>4 DEF NumberWord
    <2>5. QED
      BY <1>1, <1>7, <2>2, <2>3, <2>4, NumberWords
  <1>9. NumberWord(2) = 4 /\ NumberWord(3) = 4 + WordsFor(v) + 1
    BY <1>4, <1>5 DEF NumberWord
  <1>10. QED
    BY <1>2, <1>4, <1>5, <1>6, <1>8, <1>9

\* Where those of proveAndClaim and proveAndClaimWithResolver are.
LEMMA ClaimWords ==
  ASSUME NEW w, NEW n, Reads(w, n), NEW h,
         \/ call.selector = "8bbedf75" /\ h = 3
         \/ call.selector = "224199c2" /\ h = 5
  PROVE  LET v == call.lens[1]
         IN /\ v \in Nat
            /\ SelfContained(v)
            /\ WordsFor(v) \in Nat
            /\ h + 1 + WordsFor(v) <= Len(Encode(call))
            /\ NumberWord(1) = h + 1
            /\ NumberWord(2) = h + 1 + WordsFor(v) + 1
            /\ NumberWord(3) \in Nat
            /\ NumberWord(2) < NumberWord(3)
            /\ NumberWord(3) <= Len(Encode(call))
            /\ DataIndex(call, 1) = 1
            /\ call.large \in {0, 1, 2, 3, h + 1, NumberWord(3)}
            /\ Len(Signature(call.selector)) = h
            /\ Signature(call.selector)[1] = "data"
            /\ Signature(call.selector)[2] = "tuples"
            /\ Signature(call.selector)[3] = "data"
            /\ \A i \in 4 .. h : Signature(call.selector)[i] = "word"
  <1> DEFINE kinds == Signature(call.selector)
             v == call.lens[1]
  <1>1. call \in Transactions /\ Supported(call) /\ call.large \in Numbers(call) \cup {0}
    BY DEF Reads, Readable
  <1>2. /\ \/ kinds = << "data", "tuples", "data" >> /\ h = 3
           \/ kinds = << "data", "tuples", "data", "word", "word" >> /\ h = 5
        /\ DataIndex(call, 1) = 1
    BY Signatures, DataIndexes
  <1>3. /\ Len(kinds) = h /\ h \in {3, 5} /\ kinds[1] = "data" /\ kinds[2] = "tuples" /\ kinds[3] = "data"
        /\ 1 \in 1 .. Len(kinds) /\ 2 \in 1 .. Len(kinds) /\ 3 \in 1 .. Len(kinds)
        /\ \A i \in 4 .. h : kinds[i] = "word"
        /\ \A i \in 1 .. Len(kinds) : i \in {1, 2, 3} \/ i \in 4 .. h
    <2> HIDE DEF kinds
    <2>1. CASE kinds = << "data", "tuples", "data" >> /\ h = 3
      BY <2>1
    <2>2. CASE kinds = << "data", "tuples", "data", "word", "word" >> /\ h = 5
      BY <2>2
    <2>3. QED
      BY <1>2, <2>1, <2>2
  <1>4. TailWord(call, 1) = h
    BY <1>1, <1>3, CallWords
  <1>5. /\ v \in Nat
        /\ WordsFor(v) \in Nat
        /\ TailWord(call, 2) = TailWord(call, 1) + 1 + WordsFor(v)
        /\ TailWord(call, 2) <= Len(Encode(call))
    <2>1. /\ call.lens[DataIndex(call, 1)] \in Nat
          /\ WordsFor(call.lens[DataIndex(call, 1)]) \in Nat
          /\ TailWord(call, 1 + 1) = TailWord(call, 1) + 1 + WordsFor(call.lens[DataIndex(call, 1)])
          /\ TailWord(call, 1 + 1) <= Len(Encode(call))
      BY <1>1, <1>3, DataWords
    <2> HIDE DEF kinds
    <2>2. QED
      BY <1>2, <2>1
  <1>6. /\ TailWord(call, 3) \in Nat
        /\ TailWord(call, 2) < TailWord(call, 3)
        /\ TailWord(call, 3) + 1 <= Len(Encode(call))
    <2> DEFINE p == Len(TailOf(call, 2))
               q == Len(TailOf(call, 3))
               l == Len(Encode(call))
    <2>1. TailWord(call, 2) \in Nat /\ TailWord(call, 2 + 1) = TailWord(call, 2) + p /\ p \in Nat /\ 1 <= p
      BY <1>1, <1>3, CallWords
    <2>2. TailWord(call, 3) \in Nat /\ TailWord(call, 3) + q <= l /\ q \in Nat /\ 1 <= q
      BY <1>1, <1>3, CallWords
    <2>3. l \in Nat
      BY <1>1, CallWords
    <2> HIDE DEF p, q, l
    <2>4. TailWord(call, 3) + 1 <= l /\ TailWord(call, 3) \in Nat /\ TailWord(call, 2) < TailWord(call, 3)
      BY <2>1, <2>2, <2>3
    <2>5. QED
      BY <2>4 DEF l
  <1>7. SelfContained(v)
    <2>1. Len(call.lens) = 2
      <3>1. 1 \in DOMAIN kinds
        BY <1>1, <1>3, CallWords
      <3>2. call.selector \in TwoData
        BY DEF TwoData
      <3>3. QED
        BY <1>1, <3>1, <3>2, KindType
    <2>2. 1 \in 1 .. Len(call.lens) - 1
      BY <2>1
    <2>3. QED
      BY <1>1, <2>2 DEF Supported
  <1>8. call.selector \notin OneArray
    BY DEF OneArray
  <1>9. call.large \in {0, 1, 2, 3, NumberWord(1), NumberWord(3)}
    <2>1. \A i \in 1 .. Len(kinds) : kinds[i] # "word" => i \in {1, 2, 3}
      BY <1>3
    <2>2. \A i \in 1 .. Len(kinds) : Sized(call, i) => i \in {1, 3}
      BY <1>3 DEF Sized
    <2>3. CASE call.large = 0
      BY <2>3
    <2>4. CASE \E i \in 1 .. Len(kinds) : kinds[i] # "word" /\ call.large = i
      BY <2>1, <2>4
    <2>5. CASE \E i \in 1 .. Len(kinds) : Sized(call, i) /\ call.large = TailWord(call, i) + 1
      BY <2>2, <2>5 DEF NumberWord
    <2>6. QED
      BY <1>1, <1>8, <2>3, <2>4, <2>5, NumberWords
  <1>10. /\ NumberWord(1) = h + 1 /\ NumberWord(2) = h + 1 + WordsFor(v) + 1
         /\ NumberWord(3) \in Nat /\ NumberWord(2) < NumberWord(3)
         /\ NumberWord(3) <= Len(Encode(call))
    <2> DEFINE l == Len(Encode(call))
    <2>1. l \in Nat /\ TailWord(call, 3) + 1 <= l
      BY <1>1, <1>6, CallWords
    <2> HIDE DEF l
    <2>2. /\ NumberWord(1) = h + 1 /\ NumberWord(2) = h + 1 + WordsFor(v) + 1
          /\ NumberWord(3) \in Nat /\ NumberWord(2) < NumberWord(3)
          /\ NumberWord(3) <= l
      BY <1>3, <1>4, <1>5, <1>6, <2>1 DEF NumberWord
    <2>3. QED
      BY <2>2 DEF l
  <1>11. h + 1 + WordsFor(v) <= Len(Encode(call))
    BY <1>4, <1>5
  <1>12. QED
    BY <1>2, <1>3, <1>5, <1>7, <1>9, <1>10, <1>11

\* The length of the first of two strings or byte arrays is read.
LEMMA FirstLengthRead ==
  ASSUME NEW w, NEW n, Reads(w, n), Ahead(n), Shaped,
         NEW i \in 1 .. Len(Signature(call.selector)), Signature(call.selector)[i] = "data",
         n = NumberWord(i), NEW f, f.slot \in Slots, NEW o, o = PARAMETER_LENGTH * TailWord(call, i),
         ReadLengthAt(o, w, f.slot, f.data),
         NEW v \in Nat, v = call.lens[DataIndex(call, i)], WordsFor(v) \in Nat,
         NEW m \in Nat, n + WordsFor(v) + 1 <= m,
         call.large = 0 \/ call.large <= n \/ call.large = m
  PROVE  /\ Goes(InField(f, n, v)' /\ Ahead(m)')
         /\ UNCHANGED <<statics, offsets, id>>
  <1>1. /\ Goes(/\ Due(f.data, n + 1)' /\ n # call.large
                /\ len'[f.slot] = v)
        /\ UNCHANGED <<statics, offsets, id>>
    BY LengthRead
  <1>2. CASE result' = "OK"
    <2>1. Due(f.data, n + 1)' /\ n # call.large /\ len'[f.slot] = v
      BY <1>1, <1>2 DEF Goes
    <2>2. call.large = 0 \/ call.large = m
      BY <2>1, LargeType DEF Ahead
    <2>3. n \in Nat /\ n + WordsFor(v) + 1 <= m /\ call' = call
      BY LargeType DEF Reads
    <2>4. Ahead(m)' /\ Ahead(n + WordsFor(v) + 1)'
      BY <2>2, <2>3 DEF Ahead
    <2>5. InField(f, n, v)'
      BY <2>1, <2>4 DEF InField
    <2>6. QED
      BY <1>1, <1>2, <2>4, <2>5 DEF Goes
  <1>3. CASE result' # "OK"
    BY <1>1, <1>3 DEF Goes
  <1>4. QED
    BY <1>2, <1>3

\* A field with its own length.
LEMMA FieldReadThen ==
  ASSUME NEW w, NEW n, Reads(w, n), AtOffset,
         NEW f, f.data # f.second, f.data # f.last, f.second # f.last,
         NEW a \in Nat, NEW v \in Nat, InField(f, a, v), SelfContained(v),
         a + WordsFor(v) <= Len(Encode(call)), NEW p,
         ReadField(f, len[f.slot], Then(p))
  PROVE  /\ result' = "OK"
         /\ UNCHANGED <<statics, offsets, len, count, offsets_start>>
         /\ \/ UNCHANGED id /\ InField(f, a, v)'
            \/ n = a + WordsFor(v) /\ Ahead(n + 1) /\ Then(p)
  BY FieldRead

\* The parameter of a field.
LEMMA FieldParam ==
  ASSUME NEW f, NEW a, NEW v, InField(f, a, v)
  PROVE  next_param \in {f.data, f.second, f.last}
  BY DEF InField, Due, Here

\* setText.
LEMMA SetTextStep ==
  ASSUME NEW w, NEW n, Reads(w, n), Shaped, Times, call.selector = "10f13a8c",
         OnSetText, handle_set_text(w)
  PROVE  Goes(OnSetText' /\ Times')
  <1>1. PICK v \in Nat, m \in Nat :
          /\ v = call.lens[1] /\ m = NumberWord(3)
          /\ v = call'.lens[1] /\ m = NumberWord(3)'
    <2>1. call' = call
      BY DEF Reads
    <2>2. call.lens[1] \in Nat /\ NumberWord(3) \in Nat
      BY SetTextWords
    <2>3. call'.lens[1] = call.lens[1] /\ NumberWord(3)' = NumberWord(3)
      BY <2>1 DEF NumberWord
    <2>4. QED
      BY <2>2, <2>3
  <1>2. /\ SelfContained(v) /\ WordsFor(v) \in Nat
        /\ 4 + WordsFor(v) <= Len(Encode(call))
        /\ NumberWord(2) = 4
        /\ m = 4 + WordsFor(v) + 1
        /\ DataIndex(call, 2) = 1
        /\ call.large \in {0, 2, 3, 4, m}
    BY <1>1, SetTextWords
  <1> DEFINE kinds == Signature(call.selector)
  <1>3. /\ kinds[1] = "word" /\ kinds[2] = "data" /\ kinds[3] = "data"
        /\ 1 \in 1 .. Len(kinds) /\ 2 \in 1 .. Len(kinds) /\ 3 \in 1 .. Len(kinds)
    <2>1. kinds = << "word", "data", "data" >>
      BY Signatures
    <2> HIDE DEF kinds
    <2>2. QED
      BY <2>1
  <1>4. Key \in Slots /\ Value \in Slots /\ Key # Value
    BY DEF Key, Value, Slots
  <1> DEFINE On ==
       \/ Due("NODE", 1) \/ Due("KEY_OFFSET", 2)
       \/ Saved(Key, 2) /\ Due("VALUE_OFFSET", 3)
       \/ /\ Saved(Value, 3)
          /\ \/ Saved(Key, 2) /\ Due("KEY_LENGTH", 4)
             \/ InField(KeyField, 4, v)
             \/ Due("VALUE_LENGTH", m)
       \/ Trailing(ValueData)
  <1>5. On
    BY <1>1 DEF OnSetText
  <1>6. SUFFICES Goes(On' /\ Times')
    <2>1. On' => OnSetText'
      BY <1>1 DEF OnSetText
    <2> HIDE DEF On
    <2>2. QED
      BY <2>1 DEF Goes
  <1>7. CASE SkipToOffset
    <2>1. InField(KeyField, 4, v) => InField(KeyField, 4, v)'
      BY <1>2, <1>7, StillInField
    <2>2. QED
      BY <1>5, <1>7, <2>1, Skipped DEF Goes
  <1>8. CASE ~SkipToOffset
    <2>1. /\ AtOffset
          /\ \/ IgnoreWord
             \/ next_param = "NODE" /\ CopyParameter(w, "node", "KEY_OFFSET")
             \/ next_param = "KEY_OFFSET" /\ SaveOffset(w, Key, "VALUE_OFFSET")
             \/ next_param = "VALUE_OFFSET" /\ SaveOffset(w, Value, "KEY_LENGTH")
             \/ next_param = "KEY_LENGTH" /\ ReadLengthAt(offsets[Key], w, Key, "KEY")
             \/ ReadField(KeyField, len[Key], Then("VALUE_LENGTH"))
             \/ next_param = "VALUE_LENGTH" /\ ReadLengthAt(offsets[Value], w, Value, "VALUE")
             \/ ReadField(ValueField, len[Value], Then("NONE"))
      BY <1>8 DEF handle_set_text
    <2>2. ReadField(KeyField, len[Key], Then("VALUE_LENGTH"))
            => next_param \in {"KEY", "KEY_1", "KEY_2"}
      BY DEF ReadField, KeyField
    <2>3. ReadField(ValueField, len[Value], Then("NONE")) => next_param \in ValueData
      BY DEF ReadField, ValueField, ValueData
    <2>4. IgnoreWord => next_param = "NONE"
      BY DEF IgnoreWord
    <2>5. CASE Due("NODE", 1)
      <3>1. next_param = "NODE" /\ n = 1 /\ Ahead(n)
        BY <2>1, <2>5, DueNow
      <3>2. CopyParameter(w, "node", "KEY_OFFSET")
        BY <2>1, <2>2, <2>3, <2>4, <3>1 DEF ValueData
      <3>3. result' = "OK" /\ Due("KEY_OFFSET", 2)' /\ Times'
        BY <1>3, <3>1, <3>2, StaticCopied
      <3>4. QED
        BY <3>3 DEF Goes
    <2>6. CASE Due("KEY_OFFSET", 2)
      <3>1. next_param = "KEY_OFFSET" /\ n = 2 /\ Ahead(n)
        BY <2>1, <2>6, DueNow
      <3>2. SaveOffset(w, Key, "VALUE_OFFSET")
        BY <2>1, <2>2, <2>3, <2>4, <3>1 DEF ValueData
      <3>3. Goes(Saved(Key, 2)' /\ Due("VALUE_OFFSET", 3)') /\ UNCHANGED statics
        BY <1>3, <1>4, <3>1, <3>2, OffsetRead DEF Goes
      <3>4. QED
        BY <3>3, SameTimes DEF Goes
    <2>7. CASE Saved(Key, 2) /\ Due("VALUE_OFFSET", 3)
      <3>1. next_param = "VALUE_OFFSET" /\ n = 3 /\ Ahead(n)
        BY <2>1, <2>7, DueNow
      <3>2. SaveOffset(w, Value, "KEY_LENGTH")
        BY <2>1, <2>2, <2>3, <2>4, <3>1 DEF ValueData
      <3>3. /\ Goes(Saved(Value, 3)' /\ Due("KEY_LENGTH", 4)')
            /\ offsets'[Key] = offsets[Key]
            /\ UNCHANGED statics
        BY <1>3, <1>4, <3>1, <3>2, OffsetRead DEF Goes
      <3>4. Saved(Key, 2)'
        BY <2>7, <3>3, SavedKept
      <3>5. QED
        BY <3>3, <3>4, SameTimes DEF Goes
    <2>8. CASE Saved(Value, 3) /\ Saved(Key, 2) /\ Due("KEY_LENGTH", 4)
      <3>1. next_param = "KEY_LENGTH" /\ n = 4 /\ Ahead(n)
        BY <2>1, <2>8, DueNow
      <3>2. ReadLengthAt(offsets[Key], w, Key, "KEY")
        BY <2>1, <2>2, <2>3, <2>4, <3>1 DEF ValueData
      <3>3. KeyField.slot = Key /\ KeyField.data = "KEY"
        BY DEF KeyField
      <3>4. /\ n + WordsFor(v) + 1 <= m /\ n = NumberWord(2)
            /\ call.large = 0 \/ call.large <= n \/ call.large = m
        BY <1>2, <3>1
      <3>5. offsets[Key] = PARAMETER_LENGTH * TailWord(call, 2) /\ v = call.lens[DataIndex(call, 2)]
        BY <1>1, <1>2, <2>8 DEF Saved
      <3>6. /\ Goes(InField(KeyField, n, v)' /\ Ahead(m)')
            /\ UNCHANGED <<statics, offsets, id>>
        BY <1>2, <1>3, <1>4, <3>1, <3>2, <3>3, <3>4, <3>5, FirstLengthRead
      <3>7. Saved(Value, 3)'
        BY <2>8, <3>6, SavedKept
      <3>8. QED
        BY <3>1, <3>6, <3>7, SameTimes DEF Goes
    <2>9. CASE Saved(Value, 3) /\ InField(KeyField, 4, v)
      <3>1. next_param \in {"KEY", "KEY_1", "KEY_2"}
        BY <2>9, FieldParam DEF KeyField
      <3>2. ReadField(KeyField, len[Key], Then("VALUE_LENGTH"))
        BY <2>1, <2>3, <2>4, <3>1 DEF ValueData
      <3>3. /\ result' = "OK"
            /\ UNCHANGED <<statics, offsets>>
            /\ \/ InField(KeyField, 4, v)'
               \/ n = 4 + WordsFor(v) /\ Ahead(n + 1) /\ Then("VALUE_LENGTH")
        <4>1. /\ KeyField.slot = Key /\ KeyField.data # KeyField.second
              /\ KeyField.data # KeyField.last /\ KeyField.second # KeyField.last
          BY DEF KeyField
        <4>2. ReadField(KeyField, len[KeyField.slot], Then("VALUE_LENGTH"))
          BY <3>2, <4>1
        <4>3. 4 \in Nat /\ AtOffset /\ InField(KeyField, 4, v)
          BY <2>1, <2>9
        <4>4. QED
          BY <1>2, <4>1, <4>2, <4>3, FieldReadThen
      <3>4. Saved(Value, 3)' /\ Times'
        BY <2>9, <3>3, SavedKept, SameTimes
      <3>5. CASE n = 4 + WordsFor(v) /\ Ahead(n + 1) /\ Then("VALUE_LENGTH")
        <4>1. Due("VALUE_LENGTH", n + 1)'
          BY <3>5, NextDue DEF Then
        <4>2. QED
          BY <1>2, <3>3, <3>4, <3>5, <4>1 DEF Goes
      <3>6. QED
        BY <3>3, <3>4, <3>5 DEF Goes
    <2>10. CASE Saved(Value, 3) /\ Due("VALUE_LENGTH", m)
      <3>1. next_param = "VALUE_LENGTH" /\ n = m /\ Ahead(n)
        BY <2>1, <2>10, DueNow
      <3>2. ReadLengthAt(offsets[Value], w, Value, "VALUE")
        BY <2>1, <2>2, <2>3, <2>4, <3>1 DEF ValueData
      <3>3. call.large <= n /\ n = NumberWord(3) /\ "VALUE" \in ValueData
        BY <1>1, <1>2, <3>1 DEF ValueData
      <3>4. Goes(Trailing(ValueData)') /\ UNCHANGED statics
        BY <1>3, <1>4, <2>10, <3>1, <3>2, <3>3, LastLengthRead
      <3>5. QED
        BY <3>4, SameTimes DEF Goes
    <2>11. CASE Trailing(ValueData)
      <3>1. IgnoreWord \/ ReadField(ValueField, len[Value], Then("NONE"))
        BY <2>1, <2>2, <2>11 DEF Trailing, ValueData
      <3>2. {ValueField.data, ValueField.second, ValueField.last} \subseteq ValueData
        BY DEF ValueField, ValueData
      <3>3. result' = "OK" /\ Trailing(ValueData)' /\ UNCHANGED statics
        BY <2>11, <3>1, <3>2, TrailingRead
      <3>4. QED
        BY <3>3, SameTimes DEF Goes
    <2>12. QED
      BY <1>5, <2>5, <2>6, <2>7, <2>8, <2>9, <2>10, <2>11
  <1>9. QED
    BY <1>7, <1>8

\* An offset is saved, and an error does not keep the handler from moving on.
LEMMA OffsetReadAnyway ==
  ASSUME NEW w, NEW n, Reads(w, n), Ahead(n), Shaped,
         n \in 1 .. Len(Signature(call.selector)), Signature(call.selector)[n] # "word",
         NEW k \in Slots, NEW p, SaveOffsetAnyway(w, k, p)
  PROVE  /\ Goes(Saved(k, n)' /\ Due(p, n + 1)')
         /\ \A j \in Slots \ {k} : offsets'[j] = offsets[j]
         /\ UNCHANGED statics
  <1>1. CASE w.small
    <2>1. SaveOffset(w, k, p)
      BY <1>1 DEF SaveOffset, SaveOffsetAnyway
    <2>2. QED
      BY <2>1, OffsetRead DEF Goes
  <1>2. CASE ~w.small
    <2>1. result' = "ERROR" /\ UNCHANGED <<statics, offsets>>
      BY <1>2 DEF SaveOffsetAnyway
    <2> DEFINE o == PARAMETER_LENGTH * TailWord(call, n)
    <2>2. Encode(call)[n] = Quantity(o) /\ o \in Nat /\ o <= UINT16_MAX
      BY OffsetWords DEF Reads, Readable
    <2> HIDE DEF o
    <2>3. Oversized(call)
      BY <1>2, <2>2, NumberRead
    <2>4. QED
      BY <2>1, <2>3 DEF Goes
  <1>3. QED
    BY <1>1, <1>2

\* A length that is read where the parser has sought it.
LEMMA SoughtLengthRead ==
  ASSUME NEW w, NEW n, Reads(w, n), Ahead(n), Shaped, call.large <= n,
         NEW i \in 1 .. Len(Signature(call.selector)), Signature(call.selector)[i] = "data",
         n = NumberWord(i), NEW k \in Slots, NEW params, NEW p \in params,
         ReadLength(w, k, p)
  PROVE  Goes(Trailing(params)') /\ UNCHANGED statics
  <1> DEFINE o == PARAMETER_LENGTH * TailWord(call, i)
  <1>1. parameterOffset = o + SELECTOR_SIZE
    BY OffsetWords DEF Reads, Readable, NumberWord
  <1>2. ReadLengthAt(o, w, k, p)
    BY <1>1 DEF ReadLengthAt
  <1>3. /\ Goes(/\ Due(p, n + 1)' /\ n # call.large
                 /\ len'[k] = call.lens[DataIndex(call, i)])
        /\ UNCHANGED <<statics, offsets, id>>
    BY <1>2, LengthRead
  <1>4. CASE result' = "OK"
    <2>1. next_param' = p /\ n # call.large
      BY <1>3, <1>4 DEF Goes, Due, Here
    <2>2. call.large = 0 /\ call' = call
      BY <2>1, LargeType DEF Ahead, Reads
    <2>3. QED
      BY <1>3, <1>4, <2>1, <2>2 DEF Goes, Trailing
  <1>5. CASE result' # "OK"
    BY <1>3, <1>5 DEF Goes
  <1>6. QED
    BY <1>4, <1>5

\* The number of inputs is copied, and the length of the proof is due.
LEMMA InputsRead ==
  ASSUME NEW w, NEW n, Reads(w, n), Shaped, Times, n = NumberWord(2),
         2 \in 1 .. Len(Signature(call.selector)), Signature(call.selector)[2] # "word",
         3 \in 1 .. Len(Signature(call.selector)), Signature(call.selector)[3] # "word",
         NEW o, o = PARAMETER_LENGTH * TailWord(call, 2), ReadInputs(o, w),
         Saved(Proof, 3), NEW m \in Nat, m = NumberWord(3), n < m, Ahead(m)
  PROVE  result' = "OK" /\ Due("PROOF_LEN", m)' /\ Times'
  <1>1. parameterOffset = o + SELECTOR_SIZE
    BY OffsetWords DEF Reads, Readable, NumberWord
  <1>2. CopyWord(w, "n_inputs", 0) /\ Seek(offsets[Proof] + SELECTOR_SIZE, "PROOF_LEN")
    BY <1>1 DEF ReadInputs
  <1>3. offsets[Proof] + SELECTOR_SIZE = Position(m) /\ Position(m) <= UINT16_MAX
    BY OffsetWords DEF Reads, Readable, NumberWord, Saved
  <1>4. Due("PROOF_LEN", m)'
    BY <1>2, <1>3, SeekDue
  <1>5. result' = "OK" /\ \E v : statics' = [statics EXCEPT !["n_inputs"] = v]
    BY <1>2 DEF CopyWord
  <1>6. Times'
    BY <1>5 DEF Times, Shaped, Statics
  <1>7. QED
    BY <1>4, <1>5, <1>6

\* proveAndClaim.
LEMMA ProveClaimStep ==
  ASSUME NEW w, NEW n, Reads(w, n), Shaped, Times, call.selector = "8bbedf75",
         OnProveClaim, handle_prove_claim(w)
  PROVE  Goes(OnProveClaim' /\ Times')
  <1>1. PICK v \in Nat, k \in Nat, m \in Nat :
          /\ v = call.lens[1] /\ k = NumberWord(2) /\ m = NumberWord(3)
          /\ v = call'.lens[1] /\ k = NumberWord(2)' /\ m = NumberWord(3)'
    <2>1. call' = call
      BY DEF Reads
    <2>2. /\ call.lens[1] \in Nat /\ NumberWord(3) \in Nat /\ WordsFor(call.lens[1]) \in Nat
          /\ NumberWord(2) = 3 + 1 + WordsFor(call.lens[1]) + 1
      BY ClaimWords
    <2>3. /\ call'.lens[1] = call.lens[1] /\ NumberWord(3)' = NumberWord(3)
          /\ NumberWord(2)' = NumberWord(2)
      BY <2>1 DEF NumberWord
    <2>4. NumberWord(2) \in Nat
      BY <2>2
    <2>5. QED
      BY <2>2, <2>3, <2>4
  <1> DEFINE kinds == Signature(call.selector)
  <1>2. /\ SelfContained(v) /\ WordsFor(v) \in Nat
        /\ 4 + WordsFor(v) <= Len(Encode(call))
        /\ NumberWord(1) = 4
        /\ k = 4 + WordsFor(v) + 1
        /\ k < m
        /\ DataIndex(call, 1) = 1
        /\ call.large \in {0, 1, 2, 3, 4, m}
        /\ Len(kinds) = 3 /\ kinds[1] = "data" /\ kinds[2] = "tuples" /\ kinds[3] = "data"
    <2>1. /\ SelfContained(v) /\ WordsFor(v) \in Nat
          /\ 3 + 1 + WordsFor(v) <= Len(Encode(call))
          /\ NumberWord(1) = 3 + 1
          /\ k = 3 + 1 + WordsFor(v) + 1
          /\ k < m
          /\ DataIndex(call, 1) = 1
          /\ call.large \in {0, 1, 2, 3, 3 + 1, m}
          /\ Len(kinds) = 3 /\ kinds[1] = "data" /\ kinds[2] = "tuples" /\ kinds[3] = "data"
      BY <1>1, ClaimWords
    <2>2. 3 + 1 = 4
      OBVIOUS
    <2>3. QED
      BY <2>1, <2>2, Zenon
  <1>3. 1 \in 1 .. Len(kinds) /\ 2 \in 1 .. Len(kinds) /\ 3 \in 1 .. Len(kinds)
    <2> HIDE DEF kinds
    <2>1. QED
      BY <1>2
  <1>4. Name \in Slots /\ Input \in Slots /\ Proof \in Slots
        /\ Name # Input /\ Name # Proof /\ Input # Proof
    BY DEF Name, Input, Proof, Slots
  <1> DEFINE On ==
       \/ Due("NAME_OFFSET", 1)
       \/ Saved(Name, 1) /\ Due("INPUT_OFFSET", 2)
       \/ Saved(Name, 1) /\ Saved(Input, 2) /\ Due("PROOF_OFFSET", 3)
       \/ /\ Saved(Input, 2) /\ Saved(Proof, 3)
          /\ \/ Saved(Name, 1) /\ Due("NAME_LENGTH", 4)
             \/ InField(NameField, 4, v)
             \/ Due("INPUT", k) /\ Ahead(m)
       \/ Due("PROOF_LEN", m)
       \/ Trailing(ProofData)
  <1>5. On
    BY <1>1 DEF OnProveClaim
  <1>6. SUFFICES Goes(On' /\ Times')
    <2>1. On' => OnProveClaim'
      BY <1>1 DEF OnProveClaim
    <2> HIDE DEF On
    <2>2. QED
      BY <2>1 DEF Goes
  <1>7. CASE SkipToOffset
    <2>1. InField(NameField, 4, v) => InField(NameField, 4, v)'
      BY <1>2, <1>7, StillInField
    <2>2. Ahead(m) => Ahead(m)'
      BY DEF Ahead, Reads
    <2>3. QED
      BY <1>5, <1>7, <2>1, <2>2, Skipped DEF Goes
  <1>8. CASE ~SkipToOffset
    <2>1. /\ AtOffset
          /\ \/ IgnoreWord
             \/ next_param = "NAME_OFFSET" /\ SaveOffsetAnyway(w, Name, "INPUT_OFFSET")
             \/ next_param = "INPUT_OFFSET" /\ SaveOffsetAnyway(w, Input, "PROOF_OFFSET")
             \/ next_param = "PROOF_OFFSET" /\ SaveOffsetAnyway(w, Proof, "NAME_LENGTH")
             \/ next_param = "NAME_LENGTH" /\ ReadLengthAt(offsets[Name], w, Name, "NAME")
             \/ ReadField(NameField, len[Name], Then("INPUT"))
             \/ next_param = "INPUT" /\ ReadInputs(offsets[Input], w)
             \/ next_param = "PROOF_LEN" /\ ReadLength(w, Proof, "PROOF")
             \/ ReadField(ProofField, len[Proof], Then("NONE"))
      BY <1>8 DEF handle_prove_claim
    <2>2. ReadField(NameField, len[Name], Then("INPUT")) => next_param \in NameData
      BY DEF ReadField, NameField, NameData
    <2>3. ReadField(ProofField, len[Proof], Then("NONE")) => next_param \in ProofData
      BY DEF ReadField, ProofField, ProofData
    <2>4. IgnoreWord => next_param = "NONE"
      BY DEF IgnoreWord
    <2>5. CASE Due("NAME_OFFSET", 1)
      <3>1. next_param = "NAME_OFFSET" /\ n = 1 /\ Ahead(n)
        BY <2>1, <2>5, DueNow
      <3>2. SaveOffsetAnyway(w, Name, "INPUT_OFFSET")
        BY <2>1, <2>2, <2>3, <2>4, <3>1 DEF NameData, ProofData
      <3>3. Goes(Saved(Name, 1)' /\ Due("INPUT_OFFSET", 2)') /\ UNCHANGED statics
        BY <1>2, <1>3, <1>4, <3>1, <3>2, OffsetReadAnyway DEF Goes
      <3>4. QED
        BY <3>3, SameTimes DEF Goes
    <2>6. CASE Saved(Name, 1) /\ Due("INPUT_OFFSET", 2)
      <3>1. next_param = "INPUT_OFFSET" /\ n = 2 /\ Ahead(n)
        BY <2>1, <2>6, DueNow
      <3>2. SaveOffsetAnyway(w, Input, "PROOF_OFFSET")
        BY <2>1, <2>2, <2>3, <2>4, <3>1 DEF NameData, ProofData
      <3>3. /\ Goes(Saved(Input, 2)' /\ Due("PROOF_OFFSET", 3)')
            /\ offsets'[Name] = offsets[Name] /\ UNCHANGED statics
        BY <1>2, <1>3, <1>4, <3>1, <3>2, OffsetReadAnyway DEF Goes
      <3>4. Saved(Name, 1)'
        BY <2>6, <3>3, SavedKept
      <3>5. QED
        BY <3>3, <3>4, SameTimes DEF Goes
    <2>7. CASE Saved(Name, 1) /\ Saved(Input, 2) /\ Due("PROOF_OFFSET", 3)
      <3>1. next_param = "PROOF_OFFSET" /\ n = 3 /\ Ahead(n)
        BY <2>1, <2>7, DueNow
      <3>2. SaveOffsetAnyway(w, Proof, "NAME_LENGTH")
        BY <2>1, <2>2, <2>3, <2>4, <3>1 DEF NameData, ProofData
      <3>3. /\ Goes(Saved(Proof, 3)' /\ Due("NAME_LENGTH", 4)')
            /\ offsets'[Name] = offsets[Name] /\ offsets'[Input] = offsets[Input]
            /\ UNCHANGED statics
        BY <1>2, <1>3, <1>4, <3>1, <3>2, OffsetReadAnyway DEF Goes
      <3>4. Saved(Name, 1)' /\ Saved(Input, 2)'
        BY <2>7, <3>3, SavedKept
      <3>5. QED
        BY <3>3, <3>4, SameTimes DEF Goes
    <2>8. CASE Saved(Input, 2) /\ Saved(Proof, 3) /\ Saved(Name, 1) /\ Due("NAME_LENGTH", 4)
      <3>1. next_param = "NAME_LENGTH" /\ n = 4 /\ Ahead(n)
        BY <2>1, <2>8, DueNow
      <3>2. ReadLengthAt(offsets[Name], w, Name, "NAME")
        BY <2>1, <2>2, <2>3, <2>4, <3>1 DEF NameData, ProofData
      <3>3. NameField.slot = Name /\ NameField.data = "NAME"
        BY DEF NameField
      <3>4. /\ n + WordsFor(v) + 1 <= m /\ n = NumberWord(1)
            /\ call.large = 0 \/ call.large <= n \/ call.large = m
        BY <1>1, <1>2, <3>1
      <3>5. offsets[Name] = PARAMETER_LENGTH * TailWord(call, 1) /\ v = call.lens[DataIndex(call, 1)]
        BY <1>1, <1>2, <2>8 DEF Saved
      <3>6. /\ Goes(InField(NameField, n, v)' /\ Ahead(m)')
            /\ UNCHANGED <<statics, offsets, id>>
        <4>1. 1 \in 1 .. Len(kinds) /\ kinds[1] = "data" /\ NameField.slot \in Slots
          BY <1>2, <1>3, <1>4, <3>3
        <4>2. ReadLengthAt(offsets[Name], w, NameField.slot, NameField.data)
          BY <3>2, <3>3
        <4>3. WordsFor(v) \in Nat
          BY <1>2
        <4>4. QED
          BY <3>1, <3>4, <3>5, <4>1, <4>2, <4>3, FirstLengthRead
      <3>7. Saved(Input, 2)' /\ Saved(Proof, 3)'
        BY <2>8, <3>6, SavedKept
      <3>8. QED
        BY <3>1, <3>6, <3>7, SameTimes DEF Goes
    <2>9. CASE Saved(Input, 2) /\ Saved(Proof, 3) /\ InField(NameField, 4, v)
      <3>1. next_param \in NameData
        BY <2>9, FieldParam DEF NameField, NameData
      <3>2. ReadField(NameField, len[Name], Then("INPUT"))
        BY <2>1, <2>3, <2>4, <3>1 DEF NameData, ProofData
      <3>3. /\ result' = "OK"
            /\ UNCHANGED <<statics, offsets>>
            /\ \/ InField(NameField, 4, v)'
               \/ n = 4 + WordsFor(v) /\ Ahead(n + 1) /\ Then("INPUT")
        <4>1. /\ NameField.slot = Name /\ NameField.data # NameField.second
              /\ NameField.data # NameField.last /\ NameField.second # NameField.last
          BY DEF NameField
        <4>2. ReadField(NameField, len[NameField.slot], Then("INPUT"))
          BY <3>2, <4>1
        <4>3. 4 \in Nat /\ AtOffset /\ InField(NameField, 4, v)
          BY <2>1, <2>9
        <4>4. QED
          BY <1>2, <4>1, <4>2, <4>3, FieldReadThen
      <3>4. Saved(Input, 2)' /\ Saved(Proof, 3)' /\ Times'
        BY <2>9, <3>3, SavedKept, SameTimes
      <3>5. CASE n = 4 + WordsFor(v) /\ Ahead(n + 1) /\ Then("INPUT")
        <4>1. Due("INPUT", n + 1)'
          BY <3>5, NextDue DEF Then
        <4>2. Ahead(m)'
          BY <1>2, <3>5, LargeType DEF Ahead, Reads
        <4>3. QED
          BY <1>2, <3>3, <3>4, <3>5, <4>1, <4>2 DEF Goes
      <3>6. QED
        BY <3>3, <3>4, <3>5 DEF Goes
    <2>10. CASE Saved(Input, 2) /\ Saved(Proof, 3) /\ Due("INPUT", k) /\ Ahead(m)
      <3>1. next_param = "INPUT" /\ n = k /\ Ahead(n)
        BY <2>1, <2>10, DueNow
      <3>2. ReadInputs(offsets[Input], w)
        BY <2>1, <2>2, <2>3, <2>4, <3>1 DEF NameData, ProofData
      <3>3. offsets[Input] = PARAMETER_LENGTH * TailWord(call, 2) /\ n = NumberWord(2) /\ n < m
        BY <1>1, <1>2, <2>10, <3>1 DEF Saved
      <3>4. kinds[2] # "word" /\ kinds[3] # "word"
        BY <1>2
      <3>5. result' = "OK" /\ Due("PROOF_LEN", m)' /\ Times'
        BY <1>1, <1>3, <2>10, <3>2, <3>3, <3>4, InputsRead
      <3>6. QED
        BY <3>5 DEF Goes
    <2>11. CASE Due("PROOF_LEN", m)
      <3>1. next_param = "PROOF_LEN" /\ n = m /\ Ahead(n)
        BY <2>1, <2>11, DueNow
      <3>2. ReadLength(w, Proof, "PROOF")
        BY <2>1, <2>2, <2>3, <2>4, <3>1 DEF NameData, ProofData
      <3>3. call.large <= n /\ n = NumberWord(3) /\ "PROOF" \in ProofData
        BY <1>1, <1>2, <3>1 DEF ProofData
      <3>4. Goes(Trailing(ProofData)') /\ UNCHANGED statics
        BY <1>2, <1>3, <1>4, <3>1, <3>2, <3>3, SoughtLengthRead
      <3>5. QED
        BY <3>4, SameTimes DEF Goes
    <2>12. CASE Trailing(ProofData)
      <3>1. IgnoreWord \/ ReadField(ProofField, len[Proof], Then("NONE"))
        BY <2>1, <2>2, <2>12 DEF Trailing, NameData, ProofData
      <3>2. {ProofField.data, ProofField.second, ProofField.last} \subseteq ProofData
        BY DEF ProofField, ProofData
      <3>3. result' = "OK" /\ Trailing(ProofData)' /\ UNCHANGED statics
        BY <2>12, <3>1, <3>2, TrailingRead
      <3>4. QED
        BY <3>3, SameTimes DEF Goes
    <2>13. QED
      BY <1>5, <2>5, <2>6, <2>7, <2>8, <2>9, <2>10, <2>11, <2>12
  <1>9. QED
    BY <1>7, <1>8

\* Their offsets are kept in the globals.
LEMMA GlobalOffsetRead ==
  ASSUME NEW w, NEW n, Reads(w, n), Ahead(n), n \in {1, 2},
         n \in 1 .. Len(Signature(call.selector)), Signature(call.selector)[n] # "word",
         \/ n = 1 /\ SaveNameOffset(w)
         \/ n = 2 /\ SaveInputOffset(w)
  PROVE  /\ Goes(/\ n = 1 => KeptName' /\ Due("INPUT_OFFSET", 2)'
                 /\ n = 2 => KeptInput' /\ Due("PROOF_OFFSET", 3)')
         /\ n = 2 => name_offset' = name_offset
         /\ UNCHANGED statics
  <1> DEFINE o == PARAMETER_LENGTH * TailWord(call, n)
  <1>1. Encode(call)[n] = Quantity(o) /\ o \in Nat /\ o <= UINT16_MAX
    BY OffsetWords DEF Reads, Readable
  <1>2. call' = call /\ PARAMETER_LENGTH * TailWord(call', n) = o
    BY DEF Reads
  <1> HIDE DEF o
  <1>3. \/ w.small /\ w.low = o /\ n # call.large
        \/ ~w.small /\ Oversized(call)
    BY <1>1, NumberRead
  <1>4. CASE n = 1 /\ SaveNameOffset(w)
    <2>1. /\ name_offset' = IF w.small THEN w.low ELSE name_offset
          /\ result' = IF w.small THEN "OK" ELSE "ERROR"
          /\ Advance("INPUT_OFFSET") /\ UNCHANGED statics
      BY <1>4 DEF SaveNameOffset, fields
    <2>2. CASE w.small
      <3>1. Due("INPUT_OFFSET", n + 1)'
        BY <1>3, <2>1, <2>2, StillAhead, NextDue
      <3>2. name_offset' = PARAMETER_LENGTH * TailWord(call', 1)
        BY <1>2, <1>3, <1>4, <2>1, <2>2
      <3>3. QED
        BY <1>4, <2>1, <2>2, <3>1, <3>2 DEF Goes, KeptName
    <2>3. QED
      BY <1>3, <1>4, <2>1, <2>2 DEF Goes
  <1>5. CASE n = 2 /\ SaveInputOffset(w)
    <2>1. /\ input_offset' = IF w.small THEN w.low ELSE input_offset
          /\ result' = IF w.small THEN "OK" ELSE "ERROR"
          /\ Advance("PROOF_OFFSET") /\ UNCHANGED <<statics, name_offset>>
      BY <1>5 DEF SaveInputOffset, fields
    <2>2. CASE w.small
      <3>1. Due("PROOF_OFFSET", n + 1)'
        BY <1>3, <2>1, <2>2, StillAhead, NextDue
      <3>2. input_offset' = PARAMETER_LENGTH * TailWord(call', 2)
        BY <1>2, <1>3, <1>5, <2>1, <2>2
      <3>3. QED
        BY <1>5, <2>1, <2>2, <3>1, <3>2 DEF Goes, KeptInput
    <2>3. QED
      BY <1>3, <1>5, <2>1, <2>2 DEF Goes
  <1>6. QED
    BY <1>4, <1>5

\* proveAndClaimWithResolver.
LEMMA ProveClaimResolverStep ==
  ASSUME NEW w, NEW n, Reads(w, n), Shaped, Times, call.selector = "224199c2",
         OnProveClaimResolver, handle_prove_claim_resolver(w)
  PROVE  Goes(OnProveClaimResolver' /\ Times')
  <1>1. PICK v \in Nat, k \in Nat, m \in Nat :
          /\ v = call.lens[1] /\ k = NumberWord(2) /\ m = NumberWord(3)
          /\ v = call'.lens[1] /\ k = NumberWord(2)' /\ m = NumberWord(3)'
    <2>1. call' = call
      BY DEF Reads
    <2>2. /\ call.lens[1] \in Nat /\ NumberWord(3) \in Nat /\ WordsFor(call.lens[1]) \in Nat
          /\ NumberWord(2) = 5 + 1 + WordsFor(call.lens[1]) + 1
      BY ClaimWords
    <2>3. /\ call'.lens[1] = call.lens[1] /\ NumberWord(3)' = NumberWord(3)
          /\ NumberWord(2)' = NumberWord(2)
      BY <2>1 DEF NumberWord
    <2>4. NumberWord(2) \in Nat
      BY <2>2
    <2>5. QED
      BY <2>2, <2>3, <2>4
  <1> DEFINE kinds == Signature(call.selector)
  <1>2. /\ SelfContained(v) /\ WordsFor(v) \in Nat
        /\ 6 + WordsFor(v) <= Len(Encode(call))
        /\ NumberWord(1) = 6
        /\ k = 6 + WordsFor(v) + 1
        /\ k < m
        /\ DataIndex(call, 1) = 1
        /\ call.large \in {0, 1, 2, 3, 6, m}
        /\ Len(kinds) = 5 /\ kinds[1] = "data" /\ kinds[2] = "tuples" /\ kinds[3] = "data"
        /\ kinds[4] = "word" /\ kinds[5] = "word"
    <2>1. /\ SelfContained(v) /\ WordsFor(v) \in Nat
          /\ 5 + 1 + WordsFor(v) <= Len(Encode(call))
          /\ NumberWord(1) = 5 + 1
          /\ k = 5 + 1 + WordsFor(v) + 1
          /\ k < m
          /\ DataIndex(call, 1) = 1
          /\ call.large \in {0, 1, 2, 3, 5 + 1, m}
          /\ Len(kinds) = 5 /\ kinds[1] = "data" /\ kinds[2] = "tuples" /\ kinds[3] = "data"
        /\ kinds[4] = "word" /\ kinds[5] = "word"
      <3>1. 4 \in 4 .. 5 /\ 5 \in 4 .. 5
        OBVIOUS
      <3>2. QED
        BY <1>1, <3>1, ClaimWords
    <2>2. 5 + 1 = 6
      OBVIOUS
    <2>3. QED
      BY <2>1, <2>2, Zenon
  <1>3. 1 \in 1 .. Len(kinds) /\ 2 \in 1 .. Len(kinds) /\ 3 \in 1 .. Len(kinds)
        /\ 4 \in 1 .. Len(kinds) /\ 5 \in 1 .. Len(kinds)
    <2> HIDE DEF kinds
    <2>1. QED
      BY <1>2
  <1>4. Name \in Slots /\ Input \in Slots /\ Proof \in Slots
        /\ Name # Input /\ Name # Proof /\ Input # Proof
    BY DEF Name, Input, Proof, Slots
  <1> DEFINE On ==
       \/ Due("NAME_OFFSET", 1)
       \/ KeptName /\ Due("INPUT_OFFSET", 2)
       \/ KeptName /\ KeptInput /\ Due("PROOF_OFFSET", 3)
       \/ /\ KeptInput /\ Saved(Proof, 3)
          /\ \/ /\ KeptName
                /\ Due("RESOLVER", 4) \/ Due("ADDR", 5) \/ Due("NAME_LENGTH", 6)
             \/ InField(NameField, 6, v)
             \/ Due("INPUT", k) /\ Ahead(m)
       \/ Due("PROOF_LEN", m)
       \/ Trailing(ProofData)
  <1>5. On
    BY <1>1 DEF OnProveClaimResolver
  <1>6. SUFFICES Goes(On' /\ Times')
    <2>1. On' => OnProveClaimResolver'
      BY <1>1 DEF OnProveClaimResolver
    <2> HIDE DEF On
    <2>2. QED
      BY <2>1 DEF Goes
  <1>7. CASE SkipToOffset
    <2>1. InField(NameField, 6, v) => InField(NameField, 6, v)'
      BY <1>2, <1>7, StillInField
    <2>2. Ahead(m) => Ahead(m)'
      BY DEF Ahead, Reads
    <2>3. UNCHANGED <<name_offset, input_offset>>
      BY <1>7 DEF handle_prove_claim_resolver, AtOffset, SkipToOffset
    <2>4. (KeptName => KeptName') /\ (KeptInput => KeptInput')
      BY <2>3 DEF KeptName, KeptInput, Reads
    <2>5. QED
      BY <1>5, <1>7, <2>1, <2>2, <2>4, Skipped DEF Goes
  <1>8. CASE ~SkipToOffset
    <2>1. /\ AtOffset
          /\ \/ next_param = "NAME_OFFSET" /\ SaveNameOffset(w)
             \/ next_param = "INPUT_OFFSET" /\ SaveInputOffset(w)
             \/ ReadNameLength(w)
             \/ ReadInputsLength(w)
             \/ /\ UNCHANGED <<name_offset, input_offset>>
                /\ \/ IgnoreWord
                   \/ next_param = "PROOF_OFFSET" /\ SaveOffsetAnyway(w, Proof, "RESOLVER")
                   \/ next_param = "RESOLVER" /\ CopyAddress(w, "resolver", "ADDR")
                   \/ next_param = "ADDR" /\ CopyAddress(w, "addr", "NAME_LENGTH")
                   \/ ReadField(NameField, len[Name], Then("INPUT"))
                   \/ next_param = "PROOF_LEN" /\ ReadLength(w, Proof, "PROOF")
                   \/ ReadField(ProofField, len[Proof], Then("NONE"))
      BY <1>8 DEF handle_prove_claim_resolver
    <2>2. ReadField(NameField, len[Name], Then("INPUT")) => next_param \in NameData
      BY DEF ReadField, NameField, NameData
    <2>3. ReadField(ProofField, len[Proof], Then("NONE")) => next_param \in ProofData
      BY DEF ReadField, ProofField, ProofData
    <2>4. /\ IgnoreWord => next_param = "NONE"
          /\ ReadNameLength(w) => next_param = "NAME_LENGTH"
          /\ ReadInputsLength(w) => next_param = "INPUT"
      BY DEF IgnoreWord, ReadNameLength, ReadInputsLength
    <2>5. CASE Due("NAME_OFFSET", 1)
      <3>1. next_param = "NAME_OFFSET" /\ n = 1 /\ Ahead(n)
        BY <2>1, <2>5, DueNow
      <3>2. SaveNameOffset(w)
        BY <2>1, <2>2, <2>3, <2>4, <3>1 DEF NameData, ProofData
      <3>3. Goes(KeptName' /\ Due("INPUT_OFFSET", 2)') /\ UNCHANGED statics
        BY <1>2, <1>3, <3>1, <3>2, GlobalOffsetRead DEF Goes
      <3>4. QED
        BY <3>3, SameTimes DEF Goes
    <2>6. CASE KeptName /\ Due("INPUT_OFFSET", 2)
      <3>1. next_param = "INPUT_OFFSET" /\ n = 2 /\ Ahead(n)
        BY <2>1, <2>6, DueNow
      <3>2. SaveInputOffset(w)
        BY <2>1, <2>2, <2>3, <2>4, <3>1 DEF NameData, ProofData
      <3>3. /\ Goes(KeptInput' /\ Due("PROOF_OFFSET", 3)')
            /\ name_offset' = name_offset /\ UNCHANGED statics
        BY <1>2, <1>3, <3>1, <3>2, GlobalOffsetRead DEF Goes
      <3>4. KeptName'
        BY <2>6, <3>3 DEF KeptName, Reads
      <3>5. QED
        BY <3>3, <3>4, SameTimes DEF Goes
    <2>7. CASE KeptName /\ KeptInput /\ Due("PROOF_OFFSET", 3)
      <3>1. next_param = "PROOF_OFFSET" /\ n = 3 /\ Ahead(n)
        BY <2>1, <2>7, DueNow
      <3>2. SaveOffsetAnyway(w, Proof, "RESOLVER") /\ UNCHANGED <<name_offset, input_offset>>
        BY <2>1, <2>2, <2>3, <2>4, <3>1 DEF NameData, ProofData
      <3>3. Goes(Saved(Proof, 3)' /\ Due("RESOLVER", 4)') /\ UNCHANGED statics
        <4>1. n \in 1 .. Len(kinds) /\ kinds[n] # "word"
          <5> HIDE DEF kinds
          <5>1. QED
            BY <1>2, <3>1
        <4>2. Proof \in Slots
          BY DEF Proof, Slots
        <4>3. Goes(Saved(Proof, n)' /\ Due("RESOLVER", n + 1)') /\ UNCHANGED statics
          BY <3>1, <3>2, <4>1, <4>2, OffsetReadAnyway
        <4>4. n = 3 /\ n + 1 = 4
          BY <3>1
        <4>5. QED
          BY <4>3, <4>4 DEF Goes, Saved, Due, Here
      <3>4. KeptName' /\ KeptInput'
        BY <2>7, <3>2 DEF KeptName, KeptInput, Reads
      <3>5. QED
        BY <3>3, <3>4, SameTimes DEF Goes
    <2>8. CASE KeptInput /\ Saved(Proof, 3) /\ KeptName /\ Due("RESOLVER", 4)
      <3>1. next_param = "RESOLVER" /\ n = 4 /\ Ahead(n)
        BY <2>1, <2>8, DueNow
      <3>2. CopyAddress(w, "resolver", "ADDR") /\ UNCHANGED <<name_offset, input_offset>>
        BY <2>1, <2>2, <2>3, <2>4, <3>1 DEF NameData, ProofData
      <3>3. result' = "OK" /\ Due("ADDR", 5)' /\ Times' /\ UNCHANGED offsets
        <4>1. n \in 1 .. Len(kinds) /\ kinds[n] = "word"
          BY <1>2, <1>3, <3>1
        <4>2. QED
          BY <3>1, <3>2, <4>1, StaticCopied
      <3>4. KeptName' /\ KeptInput' /\ Saved(Proof, 3)'
        BY <2>8, <3>2, <3>3, SavedKept DEF KeptName, KeptInput, Reads
      <3>5. QED
        BY <3>3, <3>4 DEF Goes
    <2>9. CASE KeptInput /\ Saved(Proof, 3) /\ KeptName /\ Due("ADDR", 5)
      <3>1. next_param = "ADDR" /\ n = 5 /\ Ahead(n)
        BY <2>1, <2>9, DueNow
      <3>2. CopyAddress(w, "addr", "NAME_LENGTH") /\ UNCHANGED <<name_offset, input_offset>>
        BY <2>1, <2>2, <2>3, <2>4, <3>1 DEF NameData, ProofData
      <3>3. result' = "OK" /\ Due("NAME_LENGTH", 6)' /\ Times' /\ UNCHANGED offsets
        <4>1. n \in 1 .. Len(kinds) /\ kinds[n] = "word"
          BY <1>2, <1>3, <3>1
        <4>2. QED
          BY <3>1, <3>2, <4>1, StaticCopied
      <3>4. KeptName' /\ KeptInput' /\ Saved(Proof, 3)'
        BY <2>9, <3>2, <3>3, SavedKept DEF KeptName, KeptInput, Reads
      <3>5. QED
        BY <3>3, <3>4 DEF Goes
    <2>10. CASE KeptInput /\ Saved(Proof, 3) /\ KeptName /\ Due("NAME_LENGTH", 6)
      <3>1. next_param = "NAME_LENGTH" /\ n = 6 /\ Ahead(n)
        BY <2>1, <2>10, DueNow
      <3>9. ReadNameLength(w)
        BY <2>1, <2>2, <2>3, <2>4, <3>1 DEF NameData, ProofData
      <3>2. ReadLengthAt(name_offset, w, Name, "NAME") /\ input_offset' = input_offset
        BY <3>9 DEF ReadNameLength
      <3>3. NameField.slot = Name /\ NameField.data = "NAME"
        BY DEF NameField
      <3>4. /\ n + WordsFor(v) + 1 <= m /\ n = NumberWord(1)
            /\ call.large = 0 \/ call.large <= n \/ call.large = m
        BY <1>1, <1>2, <3>1
      <3>5. name_offset = PARAMETER_LENGTH * TailWord(call, 1) /\ v = call.lens[DataIndex(call, 1)]
        BY <1>1, <1>2, <2>10 DEF KeptName
      <3>6. /\ Goes(InField(NameField, n, v)' /\ Ahead(m)')
            /\ UNCHANGED <<statics, offsets, id>>
        <4>1. 1 \in 1 .. Len(kinds) /\ kinds[1] = "data" /\ NameField.slot \in Slots
          BY <1>2, <1>3, <1>4, <3>3
        <4>2. ReadLengthAt(name_offset, w, NameField.slot, NameField.data)
          BY <3>2, <3>3
        <4>3. WordsFor(v) \in Nat
          BY <1>2
        <4>4. QED
          BY <3>1, <3>4, <3>5, <4>1, <4>2, <4>3, FirstLengthRead
      <3>7. KeptInput' /\ Saved(Proof, 3)'
        BY <2>10, <3>2, <3>6, SavedKept DEF KeptInput, Reads
      <3>8. QED
        BY <3>1, <3>6, <3>7, SameTimes DEF Goes
    <2>11. CASE KeptInput /\ Saved(Proof, 3) /\ InField(NameField, 6, v)
      <3>1. next_param \in NameData
        BY <2>11, FieldParam DEF NameField, NameData
      <3>2. ReadField(NameField, len[Name], Then("INPUT")) /\ UNCHANGED <<name_offset, input_offset>>
        BY <2>1, <2>3, <2>4, <3>1 DEF NameData, ProofData
      <3>3. /\ result' = "OK"
            /\ UNCHANGED <<statics, offsets>>
            /\ \/ InField(NameField, 6, v)'
               \/ n = 6 + WordsFor(v) /\ Ahead(n + 1) /\ Then("INPUT")
        <4>1. /\ NameField.slot = Name /\ NameField.data # NameField.second
              /\ NameField.data # NameField.last /\ NameField.second # NameField.last
          BY DEF NameField
        <4>2. ReadField(NameField, len[NameField.slot], Then("INPUT"))
          BY <3>2, <4>1
        <4>3. 6 \in Nat /\ AtOffset /\ InField(NameField, 6, v)
          BY <2>1, <2>11
        <4>4. QED
          BY <1>2, <4>1, <4>2, <4>3, FieldReadThen
      <3>4. KeptInput' /\ Saved(Proof, 3)' /\ Times'
        BY <2>11, <3>2, <3>3, SavedKept, SameTimes DEF KeptInput, Reads
      <3>5. CASE n = 6 + WordsFor(v) /\ Ahead(n + 1) /\ Then("INPUT")
        <4>1. Due("INPUT", n + 1)'
          BY <3>5, NextDue DEF Then
        <4>2. Ahead(m)'
          BY <1>2, <3>5, LargeType DEF Ahead, Reads
        <4>3. QED
          BY <1>2, <3>3, <3>4, <3>5, <4>1, <4>2 DEF Goes
      <3>6. QED
        BY <3>3, <3>4, <3>5 DEF Goes
    <2>12. CASE KeptInput /\ Saved(Proof, 3) /\ Due("INPUT", k) /\ Ahead(m)
      <3>1. next_param = "INPUT" /\ n = k /\ Ahead(n)
        BY <2>1, <2>12, DueNow
      <3>7. ReadInputsLength(w)
        BY <2>1, <2>2, <2>3, <2>4, <3>1 DEF NameData, ProofData
      <3>2. ReadInputs(input_offset, w)
        BY <3>7 DEF ReadInputsLength
      <3>3. input_offset = PARAMETER_LENGTH * TailWord(call, 2) /\ n = NumberWord(2) /\ n < m
        BY <1>1, <1>2, <2>12, <3>1 DEF KeptInput
      <3>4. kinds[2] # "word" /\ kinds[3] # "word"
        BY <1>2
      <3>5. result' = "OK" /\ Due("PROOF_LEN", m)' /\ Times'
        BY <1>1, <1>3, <2>12, <3>2, <3>3, <3>4, InputsRead
      <3>6. QED
        BY <3>5 DEF Goes
    <2>13. CASE Due("PROOF_LEN", m)
      <3>1. next_param = "PROOF_LEN" /\ n = m /\ Ahead(n)
        BY <2>1, <2>13, DueNow
      <3>2. ReadLength(w, Proof, "PROOF")
        BY <2>1, <2>2, <2>3, <2>4, <3>1 DEF NameData, ProofData
      <3>3. call.large <= n /\ n = NumberWord(3) /\ "PROOF" \in ProofData
        BY <1>1, <1>2, <3>1 DEF ProofData
      <3>4. Goes(Trailing(ProofData)') /\ UNCHANGED statics
        BY <1>2, <1>3, <1>4, <3>1, <3>2, <3>3, SoughtLengthRead
      <3>5. QED
        BY <3>4, SameTimes DEF Goes
    <2>14. CASE Trailing(ProofData)
      <3>1. IgnoreWord \/ ReadField(ProofField, len[Proof], Then("NONE"))
        BY <2>1, <2>2, <2>4, <2>14 DEF Trailing, NameData, ProofData
      <3>2. {ProofField.data, ProofField.second, ProofField.last} \subseteq ProofData
        BY DEF ProofField, ProofData
      <3>3. result' = "OK" /\ Trailing(ProofData)' /\ UNCHANGED statics
        BY <2>14, <3>1, <3>2, TrailingRead
      <3>4. QED
        BY <3>3, SameTimes DEF Goes
    <2>15. QED
      BY <1>5, <2>5, <2>6, <2>7, <2>8, <2>9, <2>10, <2>11, <2>12, <2>13, <2>14
  <1>9. QED
    BY <1>7, <1>8

(***************************************************************************)
(* Arrays.                                                                 *)
(***************************************************************************)

\* An array's head is one word or two.
LEMMA HeadLength ==
  ASSUME NEW s \in OneArray
  PROVE  Len(Signature(s)) \in Nat
  <1> DEFINE kinds == Signature(s)
  <1>1. kinds = << "array", "word" >> \/ kinds = << "array" >>
    BY Signatures DEF OneArray
  <1> HIDE DEF kinds
  <1>2. Len(kinds) \in Nat
    BY <1>1
  <1>3. QED
    BY <1>2 DEF kinds

\* Where an array and its elements are.
LEMMA ElementPlaces ==
  ASSUME NEW w, NEW n, Reads(w, n), call.selector \in OneArray
  PROVE  LET h == Len(Signature(call.selector))
             size == Len(call.lens)
         IN /\ h = IF call.selector = "e8d6dbb4" THEN 2 ELSE 1
            /\ Signature(call.selector)[1] = "array"
            /\ call.selector = "e8d6dbb4" => Signature(call.selector)[2] = "word" /\ size <= 2
            /\ size \in 1 .. 3
            /\ NumberWord(1) = h + 1
            /\ \A e \in 1 .. size - 1 : SelfContained(call.lens[e])
  <1> DEFINE kinds == Signature(call.selector)
             h == Len(kinds)
             size == Len(call.lens)
  <1>1. call \in Transactions /\ Supported(call)
    BY DEF Reads, Readable
  <1>2. /\ h = IF call.selector = "e8d6dbb4" THEN 2 ELSE 1
        /\ kinds[1] = "array"
        /\ call.selector = "e8d6dbb4" => kinds[2] = "word"
    <2>1. \/ call.selector = "e8d6dbb4" /\ kinds = << "array", "word" >>
          \/ call.selector = "ac9650d8" /\ kinds = << "array" >>
      BY Signatures DEF OneArray
    <2>2. QED
      <3> HIDE DEF kinds
      <3>1. QED
        BY <2>1
  <1>3. /\ ~OverLimit(call)
        /\ size > 0
        /\ \A e \in 1 .. size - 1 : SelfContained(call.lens[e])
    BY <1>1 DEF Supported, OneArray
  <1>4. size \in Nat
    BY <1>1, ArrayWords
  <1>5. size <= 3 /\ (call.selector = "e8d6dbb4" => size <= 2)
    <2>1. /\ call.selector = "e8d6dbb4" => ~(size > 2)
          /\ call.selector = "ac9650d8" => ~(size > 3)
      BY <1>3 DEF OverLimit
    <2> HIDE DEF size
    <2>2. QED
      BY <1>4, <2>1 DEF OneArray
  <1>6. TailWord(call, 1) = h
    BY <1>1, CallWords
  <1>7. size \in 1 .. 3 /\ NumberWord(1) = h + 1
    <2>1. size \in Nat /\ size > 0 /\ size <= 3
      BY <1>3, <1>4, <1>5
    <2> HIDE DEF size, h
    <2>2. QED
      BY <1>6, <2>1 DEF NumberWord
  <1>8. QED
    BY <1>2, <1>3, <1>5, <1>7

\* A number that is too large and is behind the offset of an element, or its
\* length, is in the next element or further on.
LEMMA LargeElement ==
  ASSUME NEW w, NEW n, Reads(w, n), call.selector \in OneArray, n # call.large, Ahead(n)
  PROVE  LET h == Len(Signature(call.selector))
             size == Len(call.lens)
         IN /\ n = h + 1 + size => Ahead(ElementWord(call, 1))
            /\ \A e \in 1 .. size :
                 n = ElementWord(call, e)
                   => /\ e < size => Ahead(ElementWord(call, e + 1))
                      /\ e = size => call.large = 0
  <1> DEFINE h == Len(Signature(call.selector))
             size == Len(call.lens)
             E(e) == ElementWord(call, e)
  <1>1. call \in Transactions /\ Supported(call) /\ call.large \in Numbers(call) \cup {0}
    BY DEF Reads, Readable
  <1>2. h \in Nat /\ size \in 1 .. 3
    BY ElementPlaces
  <1>3. \A e \in 1 .. size :
          /\ E(e) \in Nat /\ h + 1 + size < E(e)
          /\ WordsFor(call.lens[e]) \in Nat
          /\ E(e + 1) = E(e) + 1 + WordsFor(call.lens[e])
    BY <1>1, ArrayWords
  <1>4. \A e \in 1 .. size : E(e) \in Nat /\ h + 1 + size < E(e) /\ E(e) < E(e + 1)
    <2>1. ASSUME NEW e \in 1 .. size
          PROVE  E(e) \in Nat /\ h + 1 + size < E(e) /\ E(e) < E(e + 1)
      <3> DEFINE k == WordsFor(call.lens[e])
      <3>1. E(e) \in Nat /\ h + 1 + size < E(e) /\ k \in Nat /\ E(e + 1) = E(e) + 1 + k
        BY <1>3
      <3> HIDE DEF k, E, h, size
      <3>2. QED
        BY <3>1
    <2>2. QED
      BY <2>1
  <1>5. \/ call.large = 0
        \/ call.large \in Nat /\ call.large <= h + 1 + size
        \/ \E e \in 1 .. size : call.large = E(e)
    <2>1. call.large \in Nat
      BY LargeType
    <2>2. CASE call.large = 0
      BY <2>2
    <2>3. CASE \E i \in 1 .. h : Signature(call.selector)[i] # "word" /\ call.large = i
      <3>1. PICK i \in 1 .. h : call.large = i
        BY <2>3
      <3> HIDE DEF h, size
      <3>2. QED
        BY <1>2, <2>1, <3>1
    <2>4. CASE \E i \in 1 .. h : Sized(call, i) /\ call.large = TailWord(call, i) + 1
      <3>1. PICK i \in 1 .. h : Sized(call, i) /\ call.large = TailWord(call, i) + 1
        BY <2>4
      <3>2. i = 1
        BY <3>1, ElementPlaces DEF Sized
      <3>3. call.large = h + 1
        BY <3>1, <3>2, ElementPlaces DEF NumberWord
      <3> HIDE DEF h, size
      <3>4. QED
        BY <1>2, <2>1, <3>3
    <2>5. CASE \E e \in 1 .. size : call.large = h + 1 + e \/ call.large = E(e)
      <3>1. PICK e \in 1 .. size : call.large = h + 1 + e \/ call.large = E(e)
        BY <2>5
      <3> HIDE DEF h, size, E
      <3>2. QED
        BY <1>2, <2>1, <3>1
    <2>6. QED
      BY <1>1, <2>2, <2>3, <2>4, <2>5, NumberWords
  <1>6. n \in Nat /\ call.large \in Nat /\ (call.large = 0 \/ n < call.large)
    BY LargeType DEF Ahead
  <1> HIDE DEF h, size, E
  <1>7. \A d, e \in 1 .. size : E(d) < E(e) => d + 1 <= size /\ E(d + 1) <= E(e)
    <2>1. \A d, e \in 1 .. size : d < e => E(d + 1) <= E(e)
      BY <1>2, <1>4
    <2>2. \A d, e \in 1 .. size : e <= d => E(e) <= E(d)
      BY <1>2, <1>4
    <2>3. QED
      BY <1>2, <1>4, <2>1, <2>2
  <1>8. ASSUME n = h + 1 + size PROVE Ahead(E(1))
    <2>1. call.large = 0 \/ \E e \in 1 .. size : call.large = E(e)
      BY <1>2, <1>5, <1>6, <1>8
    <2>2. \A e \in 1 .. size : E(1) <= E(e)
      BY <1>2, <1>4
    <2>3. QED
      BY <2>1, <2>2 DEF Ahead
  <1>9. ASSUME NEW d \in 1 .. size, n = E(d)
        PROVE  (d < size => Ahead(E(d + 1))) /\ (d = size => call.large = 0)
    <2>1. call.large = 0 \/ \E e \in 1 .. size : call.large = E(e) /\ E(d) < E(e)
      BY <1>2, <1>4, <1>5, <1>6, <1>9
    <2>2. call.large = 0 \/ (d + 1 <= size /\ E(d + 1) <= call.large)
      BY <1>7, <2>1
    <2>3. QED
      BY <1>2, <2>2 DEF Ahead
  <1>10. QED
    BY <1>8, <1>9 DEF h, size, E

\* The offset of the array is saved.
LEMMA ArrayOffsetRead ==
  ASSUME NEW w, NEW n, Reads(w, n), Ahead(n), n = 1, call.selector \in OneArray, id = 0,
         NEW p, SaveArrayOffset(w, p)
  PROVE  Goes(id' = 0 /\ ArraySaved' /\ Due(p, 2)') /\ UNCHANGED statics
  <1> DEFINE o == PARAMETER_LENGTH * TailWord(call, 1)
  <1>1. Encode(call)[1] = Quantity(o) /\ o \in Nat /\ o <= UINT16_MAX
    <2>1. call \in Transactions /\ Supported(call)
      BY DEF Reads, Readable
    <2>2. Signature(call.selector)[1] = "array" /\ Len(Signature(call.selector)) \in {1, 2}
      BY ElementPlaces
    <2>3. 1 \in 1 .. Len(Signature(call.selector)) /\ Signature(call.selector)[1] # "word"
      BY <2>2
    <2>4. QED
      BY <2>1, <2>3, OffsetWords
  <1>2. call' = call /\ PARAMETER_LENGTH * TailWord(call', 1) = o
    BY DEF Reads
  <1> HIDE DEF o
  <1>3. \/ w.small /\ w.low = o /\ n # call.large
        \/ ~w.small /\ Oversized(call)
    BY <1>1, NumberRead
  <1>4. CASE w.small
    <2>1. /\ result' = "OK" /\ offsets_start' = o /\ Advance(p) /\ UNCHANGED <<statics, id>>
      BY <1>3, <1>4 DEF SaveArrayOffset
    <2>2. Due(p, n + 1)'
      BY <1>3, <1>4, <2>1, StillAhead, NextDue
    <2>3. ArraySaved'
      BY <1>2, <2>1 DEF ArraySaved
    <2>4. QED
      BY <2>1, <2>2, <2>3 DEF Goes
  <1>5. CASE ~w.small
    <2>1. result' = "ERROR" /\ UNCHANGED statics
      BY <1>5 DEF SaveArrayOffset, Refuse, fields
    <2>2. QED
      BY <1>3, <1>5, <2>1 DEF Goes
  <1>6. QED
    BY <1>4, <1>5

\* The number of elements is read, and is within the limit.
LEMMA CountRead ==
  ASSUME NEW w, NEW n, Reads(w, n), Ahead(n), call.selector \in OneArray, id = 0,
         NEW h \in Nat, h = Len(Signature(call.selector)), n = h + 1, ArraySaved,
         NEW limit \in Nat, limit <= 3, Len(call.lens) <= limit, ReadCount(w, limit), NEW p, NEW f
  PROVE  Goes(InArray(h, p, f)') /\ UNCHANGED statics
  <1> DEFINE size == Len(call.lens)
  <1>1. call \in Transactions /\ Supported(call) /\ call' = call
    BY DEF Reads, Readable
  <1>2. size \in 1 .. 3 /\ NumberWord(1) = h + 1 /\ Signature(call.selector)[1] = "array"
        /\ 1 \in 1 .. h
    BY ElementPlaces
  <1>3. Encode(call)[n] = Quantity(size)
    BY <1>1, ArrayWords
  <1>4. parameterOffset = offsets_start + SELECTOR_SIZE
    <2>1. PARAMETER_LENGTH * TailWord(call, 1) + SELECTOR_SIZE = Position(TailWord(call, 1) + 1)
      BY <1>1, <1>2, OffsetWords
    <2>2. QED
      BY <1>2, <2>1 DEF ArraySaved, NumberWord, Reads
  <1>5. /\ count' = IF w.small THEN w.low ELSE count
        /\ result' = IF w.small /\ w.low \in 1 .. limit THEN "OK" ELSE "ERROR"
        /\ Advance("OFFSETS")
        /\ UNCHANGED <<statics, id>>
    BY <1>4 DEF ReadCount
  <1>6. \/ w.small /\ w.low = size /\ n # call.large
        \/ ~w.small /\ Oversized(call)
    <2>1. size \in Nat /\ size <= UINT16_MAX
      BY <1>2 DEF UINT16_MAX
    <2> HIDE DEF size
    <2>2. QED
      BY <1>3, <2>1, NumberRead
  <1>7. CASE w.small
    <2>1. Due("OFFSETS", n + 1)'
      BY <1>5, <1>6, <1>7, StillAhead, NextDue
    <2>2. n + 1 = h + 1 + 1
      OBVIOUS
    <2>3. ElementsSaved(1 - 1)'
      BY DEF ElementsSaved
    <2>4. count' = Len(call'.lens) /\ id' = 1 - 1
      BY <1>1, <1>5, <1>6, <1>7
    <2>10. Due("OFFSETS", h + 1 + 1)'
      BY <2>1, <2>2
    <2>5. AtElement(h, p, f, 1)'
      BY <2>3, <2>4, <2>10, Zenon DEF AtElement
    <2>11. 1 \in 1 .. size /\ Len(call'.lens) = size
      <3>1. size \in 1 .. 3 /\ Len(call'.lens) = size
        BY <1>1, <1>2, Zenon
      <3> HIDE DEF size
      <3>2. QED
        BY <3>1
    <2>6. 1 \in 1 .. Len(call'.lens)
      BY <2>11, Zenon
    <2>7. InArray(h, p, f)'
      BY <2>5, <2>6, Zenon DEF InArray
    <2>8. result' = "OK"
      <3>1. size \in 1 .. 3 /\ size <= limit
        BY <1>2
      <3> HIDE DEF size
      <3>2. size \in 1 .. limit
        BY <3>1
      <3>3. QED
        BY <1>5, <1>6, <1>7, <3>2
    <2>9. QED
      BY <1>5, <2>7, <2>8 DEF Goes
  <1>8. CASE ~w.small
    BY <1>5, <1>6, <1>8 DEF Goes
  <1>9. QED
    BY <1>7, <1>8

\* The offset of an element is saved; behind the last one, the first element is
\* sought.
LEMMA ElementOffsetRead ==
  ASSUME NEW w, NEW n, Reads(w, n), Ahead(n), Shaped, call.selector \in OneArray,
         NEW h \in Nat, h = Len(Signature(call.selector)),
         NEW e \in 1 .. Len(call.lens), n = h + 1 + e,
         count = Len(call.lens), id = e - 1, ElementsSaved(e - 1), e # 1 => ArrayStart(h),
         NEW p, NEW f, ReadElementOffset(w, p)
  PROVE  Goes(InArray(h, p, f)') /\ UNCHANGED statics
  <1> DEFINE size == Len(call.lens)
             o(d) == PARAMETER_LENGTH * (size + Before(ElementParts(call), d - 1))
             E(d) == ElementWord(call, d)
  <1>1. call \in Transactions /\ Supported(call) /\ call' = call
    BY DEF Reads, Readable
  <1>2. size \in 1 .. 3
    BY ElementPlaces
  <1>3. \A d \in 1 .. size :
          /\ Encode(call)[h + 1 + d] = Quantity(o(d))
          /\ o(d) \in Nat
          /\ o(d) <= UINT16_MAX
          /\ Position(h + 2) + o(d) = Position(E(d))
          /\ Position(E(d)) <= UINT16_MAX
          /\ E(d) \in Nat
          /\ h + 1 + size < E(d)
    BY <1>1, ArrayWords
  <1>4. \A k \in Nat : ElementsSaved(k)' <=> \A d \in 1 .. k : offsets'[d - 1] = o(d)
    BY <1>1 DEF ElementsSaved
  <1>5. \A d \in 1 .. e - 1 : offsets[d - 1] = o(d)
    BY DEF ElementsSaved
  <1>6. Len(call'.lens) = size
    BY <1>1
  <1>7. e \in 1 .. size /\ count = size
    OBVIOUS
  <1>8. InArray(h, p, f)' <=> \E d \in 1 .. size : AtElement(h, p, f, d)'
    BY <1>6 DEF InArray
  <1>20. \A d \in 1 .. size : AtElement(h, p, f, d)' <=>
           /\ count' = size
           /\ id' = d - 1
           /\ \/ Due("OFFSETS", h + 1 + d)' /\ ElementsSaved(d - 1)' /\ (d # 1 => ArrayStart(h)')
              \/ /\ ElementsSaved(size)' /\ ArrayStart(h)'
                 /\ InElement(d, p, [f EXCEPT !.slot = d - 1])'
    BY <1>1 DEF AtElement
  <1>21. \A d, m : m = E(d) /\ Due(p, m)' => InElement(d, p, [f EXCEPT !.slot = d - 1])'
    BY <1>1 DEF InElement
  <1>9. ArrayStart(h)' <=> offsets_start' = Position(h + 2)
    BY DEF ArrayStart, Position
  <1>10. n = call.large => Oversized(call)
    BY DEF Reads
  <1>11. n # call.large /\ n = h + 1 + size => Ahead(E(1))
    BY LargeElement
  <1> HIDE DEF size, o, E
  <1>12. \/ w.small /\ w.low = o(e) /\ n # call.large
         \/ ~w.small /\ Oversized(call)
    BY <1>3, <1>7, NumberRead
  <1>13. CASE w.small
    <2>1. /\ offsets_start' = IF id = 0 THEN U16(parameterOffset) ELSE offsets_start
          /\ offsets' = [offsets EXCEPT ![e - 1] = o(e)]
          /\ result' = "OK"
          /\ count' = size
          /\ UNCHANGED statics
          /\ \/ /\ U8(id + 1) # count
                /\ id' = U8(id + 1)
                /\ Advance("OFFSETS")
             \/ /\ U8(id + 1) = count
                /\ id' = 0
                /\ Seek(offsets_start' + offsets'[0], p)
      BY <1>7, <1>12, <1>13 DEF ReadElementOffset
    <2>2. U8(id + 1) = e /\ e - 1 \in Slots
      BY <1>2, <1>7 DEF U8, UINT8_MAX, Slots
    <2>3. offsets_start' = Position(h + 2)
      <3>1. CASE e = 1
        <4>4. n = h + 2
          BY <3>1
        <4>1. parameterOffset = Position(h + 2)
          BY <4>4 DEF Reads
        <4>2. Position(h + 2) \in Nat /\ Position(h + 2) <= UINT16_MAX
          <5>0. h + 2 \in Nat \ {0}
            OBVIOUS
          <5>1. Position(h + 2) \in Nat
            BY <5>0, Positions, Zenon
          <5>2. /\ o(1) \in Nat /\ Position(h + 2) + o(1) = Position(E(1))
                /\ Position(E(1)) <= UINT16_MAX
            BY <1>2, <1>3
          <5>3. UINT16_MAX \in Int
            BY DEF UINT16_MAX
          <5>4. QED
            BY <5>1, <5>2, <5>3
        <4>3. QED
          BY <2>1, <3>1, <4>1, <4>2, U16Small
      <3>2. CASE e # 1
        BY <2>1, <3>2 DEF ArrayStart
      <3>3. QED
        BY <3>1, <3>2
    <2>4. \A d \in 1 .. e : offsets'[d - 1] = o(d)
      <3>1. offsets'[e - 1] = o(e)
        BY <2>1, <2>2 DEF Shaped
      <3>2. ASSUME NEW d \in 1 .. e - 1 PROVE offsets'[d - 1] = o(d)
        <4>1. d - 1 # e - 1 /\ d - 1 \in Slots
          BY <1>2, <1>7 DEF Slots
        <4>2. offsets'[d - 1] = offsets[d - 1]
          BY <2>1, <4>1 DEF Shaped
        <4>3. QED
          BY <1>5, <4>2
      <3>3. QED
        BY <1>7, <3>1, <3>2
    <2>5. ElementsSaved(e)'
      BY <1>4, <1>7, <2>4
    <2>6. CASE e # size
      <3>1. id' = e /\ Advance("OFFSETS")
        BY <1>7, <2>1, <2>2, <2>6
      <3>2. Due("OFFSETS", n + 1)'
        BY <1>12, <1>13, <3>1, StillAhead, NextDue
      <3>3. n + 1 = h + 1 + (e + 1) /\ (e + 1) - 1 = e /\ e + 1 \in 1 .. size
        BY <1>2, <1>7, <2>6
      <3>4. AtElement(h, p, f, e + 1)'
        BY <1>9, <1>20, <2>1, <2>3, <2>5, <3>1, <3>2, <3>3
      <3>5. InArray(h, p, f)'
        BY <1>8, <3>3, <3>4
      <3>6. QED
        BY <2>1, <3>5 DEF Goes
    <2>7. CASE e = size
      <3>1. id' = 0 /\ Seek(offsets_start' + offsets'[0], p)
        BY <1>7, <2>1, <2>2, <2>7
      <3>2. offsets'[0] = o(1)
        <4>1. 1 \in 1 .. e /\ 1 - 1 = 0
          BY <1>7
        <4>2. QED
          BY <2>4, <4>1
      <3>3. offsets_start' + offsets'[0] = Position(E(1)) /\ Position(E(1)) <= UINT16_MAX
            /\ E(1) \in Nat /\ n < E(1)
        BY <1>2, <1>3, <2>3, <2>7, <3>2
      <3>4. Ahead(E(1))
        BY <1>11, <1>12, <1>13, <2>7
      <3>5. PICK m \in Nat : m = E(1)
        BY <3>3
      <3>11. Seek(Position(m), p)
        BY <3>1, <3>3, <3>5, Zenon
      <3>12. n < m /\ Position(m) <= UINT16_MAX /\ Ahead(m)
        BY <3>3, <3>4, <3>5
      <3>13. Due(p, m)'
        BY <3>11, <3>12, SeekDue
      <3>6. InElement(1, p, [f EXCEPT !.slot = 1 - 1])'
        BY <1>21, <3>5, <3>13
      <3>7. 1 \in 1 .. size /\ 1 - 1 = 0
        BY <1>2
      <3>14. count' = Len(call'.lens) /\ id' = 1 - 1
        BY <1>6, <2>1, <3>1, <3>7
      <3>15. ArrayStart(h)'
        BY <1>9, <2>3
      <3>16. ElementsSaved(Len(call.lens))'
        <4>1. e = Len(call'.lens)
          BY <1>6, <2>7
        <4>2. QED
          BY <2>5, <4>1, Zenon
      <3>8. AtElement(h, p, f, 1)'
        BY <3>6, <3>14, <3>15, <3>16, Zenon DEF AtElement
      <3>9. InArray(h, p, f)'
        BY <1>8, <3>7, <3>8
      <3>10. QED
        BY <2>1, <3>9 DEF Goes
    <2>8. QED
      BY <2>6, <2>7
  <1>14. CASE ~w.small
    <2>1. result' = "ERROR" /\ UNCHANGED statics
      BY <1>14 DEF ReadElementOffset, Refuse, fields
    <2>2. QED
      BY <1>12, <1>14, <2>1 DEF Goes
  <1>15. QED
    BY <1>13, <1>14

\* The field of an element.
LEMMA ElementField ==
  ASSUME NEW f, f \in {NameField, CallField}, NEW k, NEW g, g = [f EXCEPT !.slot = k]
  PROVE  /\ g.slot = k /\ g.data = f.data /\ g.second = f.second /\ g.last = f.last
         /\ g.data # g.second /\ g.data # g.last /\ g.second # g.last
  BY DEF NameField, CallField

\* The parser is at element e of an array, or further on in it.
LEMMA AtElementNext ==
  ASSUME NEW w, NEW n, Reads(w, n), NEW e \in 1 .. Len(call.lens), NEW p, NEW g,
         NEW m, m = ElementWord(call, e), NEW v, v = call.lens[e],
         \/ Due(p, m)'
         \/ e < Len(call.lens) /\ InField(g, m, v)'
         \/ e = Len(call.lens) /\ next_param' \in {g.data, g.second, g.last} /\ call.large = 0
  PROVE  InElement(e, p, g)'
  <1>1. call' = call
    BY DEF Reads
  <1>2. m = ElementWord(call', e) /\ v = call'.lens[e]
    BY <1>1
  <1>3. CASE Due(p, m)'
    BY <1>2, <1>3 DEF InElement
  <1>4. CASE e < Len(call.lens) /\ InField(g, m, v)'
    BY <1>1, <1>2, <1>4 DEF InElement
  <1>5. CASE e = Len(call.lens) /\ next_param' \in {g.data, g.second, g.last} /\ call.large = 0
    BY <1>1, <1>5 DEF InElement
  <1>6. QED
    BY <1>3, <1>4, <1>5

\* What the elements of an array rest on is kept.
LEMMA InArrayNext ==
  ASSUME NEW w, NEW n, Reads(w, n), NEW h, NEW p, NEW f, NEW e \in 1 .. Len(call.lens),
         count = Len(call.lens), ElementsSaved(Len(call.lens)), ArrayStart(h),
         UNCHANGED <<count, offsets, offsets_start>>, id' = e - 1,
         InElement(e, p, [f EXCEPT !.slot = e - 1])'
  PROVE  InArray(h, p, f)'
  <1>1. call' = call
    BY DEF Reads
  <1>2. count' = Len(call'.lens) /\ e \in 1 .. Len(call'.lens)
    BY <1>1
  <1>3. ElementsSaved(Len(call.lens))'
    BY <1>1 DEF ElementsSaved
  <1>4. ArrayStart(h)'
    BY DEF ArrayStart, Position
  <1>5. AtElement(h, p, f, e)'
    BY <1>2, <1>3, <1>4, Zenon DEF AtElement
  <1>6. QED
    BY <1>2, <1>5, Zenon DEF InArray

\* A word of an array that is skipped.
LEMMA ArraySkipped ==
  ASSUME NEW w, NEW n, Reads(w, n), call.selector \in OneArray,
         NEW h \in Nat, h = Len(Signature(call.selector)),
         NEW p, NEW f, InArray(h, p, f), SkipToOffset
  PROVE  InArray(h, p, f)'
  <1>1. PICK e \in 1 .. Len(call.lens) : AtElement(h, p, f, e)
    BY DEF InArray
  <1>2. call \in Transactions /\ Supported(call) /\ call' = call
    BY DEF Reads, Readable
  <1>3. UNCHANGED <<next_param, count, id, offsets, offsets_start, len>>
    BY DEF SkipToOffset, fields, cursor
  <1> DEFINE g == [f EXCEPT !.slot = e - 1]
  <1>4. count = Len(call.lens) /\ id = e - 1
    BY <1>1 DEF AtElement
  <1>5. CASE Due("OFFSETS", h + 1 + e) /\ ElementsSaved(e - 1) /\ (e # 1 => ArrayStart(h))
    <2>1. Due("OFFSETS", h + 1 + e)'
      <3>1. h + 1 + e \in Nat
        OBVIOUS
      <3>2. QED
        BY <1>5, <3>1, StillDue
    <2>2. ElementsSaved(e - 1)' /\ (e # 1 => ArrayStart(h)')
      BY <1>2, <1>3, <1>5 DEF ElementsSaved, ArrayStart, Position
    <2>3. count' = Len(call'.lens) /\ id' = e - 1 /\ e \in 1 .. Len(call'.lens)
      BY <1>2, <1>3, <1>4
    <2>4. AtElement(h, p, f, e)'
      BY <2>1, <2>2, <2>3, Zenon DEF AtElement
    <2>5. QED
      BY <2>3, <2>4, Zenon DEF InArray
  <1>6. CASE ElementsSaved(Len(call.lens)) /\ ArrayStart(h) /\ InElement(e, p, g)
    <2>1. PICK m \in Nat : m = ElementWord(call, e)
      BY <1>2, ArrayWords
    <2>2. PICK v \in Nat : v = call.lens[e]
      BY <1>2, ArrayWords
    <2>3. InElement(e, p, g)'
      <3>1. CASE Due(p, m)
        <4>1. Due(p, m)'
          BY <3>1, StillDue
        <4>2. QED
          BY <2>1, <2>2, <4>1, AtElementNext
      <3>2. CASE e < Len(call.lens) /\ InField(g, m, v)
        <4>1. SelfContained(v)
          <5> DEFINE size == Len(call.lens)
          <5>1. size \in 1 .. 3 /\ e \in 1 .. size /\ e < size
                /\ \A d \in 1 .. size - 1 : SelfContained(call.lens[d])
            BY <3>2, ElementPlaces
          <5> HIDE DEF size
          <5>2. e \in 1 .. size - 1
            BY <5>1
          <5>3. QED
            BY <2>2, <5>1, <5>2
        <4>2. InField(g, m, v)'
          BY <3>2, <4>1, StillInField
        <4>3. QED
          BY <2>1, <2>2, <3>2, <4>2, AtElementNext
      <3>3. CASE e = Len(call.lens) /\ next_param \in {g.data, g.second, g.last} /\ call.large = 0
        <4>1. next_param' \in {g.data, g.second, g.last}
          BY <1>3, <3>3
        <4>2. QED
          BY <2>1, <2>2, <3>3, <4>1, AtElementNext
      <3>4. QED
        BY <1>6, <2>1, <2>2, <3>1, <3>2, <3>3 DEF InElement
    <2>4. QED
      BY <1>3, <1>4, <1>6, <2>3, InArrayNext
  <1>7. QED
    BY <1>1, <1>5, <1>6 DEF AtElement

\* The length of an element is read.
LEMMA ElementLengthRead ==
  ASSUME NEW w, NEW n, Reads(w, n), Ahead(n), Shaped, call.selector \in OneArray,
         NEW h \in Nat, h = Len(Signature(call.selector)),
         NEW e \in 1 .. Len(call.lens), n = ElementWord(call, e),
         count = Len(call.lens), id = e - 1, ElementsSaved(Len(call.lens)), ArrayStart(h),
         NEW p, NEW f, f \in {NameField, CallField}, ReadLength(w, id, f.data)
  PROVE  Goes(InArray(h, p, f)') /\ UNCHANGED statics
  <1> DEFINE g == [f EXCEPT !.slot = e - 1]
             size == Len(call.lens)
  <1>1. call \in Transactions /\ Supported(call) /\ call' = call
    BY DEF Reads, Readable
  <1>2. PICK v \in Nat : v = call.lens[e]
    BY <1>1, ArrayWords
  <1>3. v <= UINT16_MAX /\ Encode(call)[n] = Quantity(v)
        /\ ElementWord(call, e + 1) = n + 1 + WordsFor(v) /\ WordsFor(v) \in Nat
    BY <1>1, <1>2, ArrayWords
  <1>4. g.slot = e - 1 /\ g.data = f.data /\ g.second = f.second /\ g.last = f.last
    BY ElementField
  <1>5. \/ w.small /\ w.low = v /\ n # call.large
        \/ ~w.small /\ Oversized(call)
    BY <1>3, NumberRead
  <1>6. CASE ~w.small
    <2>1. result' = "ERROR" /\ UNCHANGED statics
      BY <1>6 DEF ReadLength, Refuse, fields
    <2>2. QED
      BY <1>5, <1>6, <2>1 DEF Goes
  <1>7. CASE w.small
    <2>1. /\ result' = "OK" /\ Advance(f.data)
          /\ len' = [len EXCEPT ![e - 1] = v]
          /\ UNCHANGED <<statics, offsets, offsets_start, count, id>>
          /\ n # call.large
      BY <1>5, <1>7 DEF ReadLength
    <2>2. size \in 1 .. 3 /\ e \in 1 .. size /\ n \in Nat
      BY ElementPlaces, LargeType
    <2>3. e - 1 \in Slots
      <3> HIDE DEF size
      <3>1. QED
        BY <2>2 DEF Slots
    <2>4. len'[g.slot] = v
      BY <1>4, <2>1, <2>3 DEF Shaped
    <2>5. /\ e < size => Ahead(ElementWord(call, e + 1))
          /\ e = size => call.large = 0
      BY <2>1, LargeElement
    <2>6. e < size \/ e = size
      <3> HIDE DEF size
      <3>1. QED
        BY <2>2
    <2>7. InElement(e, p, g)'
      <3>1. CASE e < size
        <4>1. Due(g.data, n + 1)'
          BY <1>4, <2>1, StillAhead, NextDue
        <4>2. Ahead(n + WordsFor(v) + 1)
          <5>1. n + WordsFor(v) + 1 = n + 1 + WordsFor(v)
            BY <1>3, <2>2
          <5>2. QED
            BY <1>3, <2>5, <3>1, <5>1
        <4>3. Ahead(n + WordsFor(v) + 1)'
          BY <1>1, <4>2 DEF Ahead
        <4>4. InField(g, n, v)'
          BY <2>4, <4>1, <4>3 DEF InField
        <4>5. QED
          BY <1>2, <3>1, <4>4, AtElementNext
      <3>2. CASE e = size
        <4>1. next_param' \in {g.data, g.second, g.last} /\ call.large = 0
          BY <1>4, <2>1, <2>5, <3>2 DEF Advance
        <4>2. QED
          BY <1>2, <3>2, <4>1, AtElementNext
      <3>3. QED
        BY <2>6, <3>1, <3>2
    <2>8. InArray(h, p, f)'
      BY <2>1, <2>7, InArrayNext
    <2>9. QED
      BY <2>1, <2>8 DEF Goes
  <1>8. QED
    BY <1>6, <1>7

\* An element others follow.
LEMMA FieldReadNext ==
  ASSUME NEW w, NEW n, Reads(w, n), AtOffset,
         NEW f, f.data # f.second, f.data # f.last, f.second # f.last,
         NEW a \in Nat, NEW v \in Nat, InField(f, a, v), SelfContained(v),
         a + WordsFor(v) <= Len(Encode(call)), NEW p,
         ReadField(f, len[f.slot], NextElement(p))
  PROVE  /\ result' = "OK"
         /\ UNCHANGED <<statics, offsets, len, count, offsets_start>>
         /\ \/ UNCHANGED id /\ InField(f, a, v)'
            \/ n = a + WordsFor(v) /\ Ahead(n + 1) /\ NextElement(p)
  BY FieldRead

\* A word of an element is taken: the next one is sought behind the last.
LEMMA ElementRead ==
  ASSUME NEW w, NEW n, Reads(w, n), AtOffset, call.selector \in OneArray,
         NEW h \in Nat, h = Len(Signature(call.selector)),
         NEW e \in 1 .. Len(call.lens), NEW f, f \in {NameField, CallField},
         count = Len(call.lens), id = e - 1, ElementsSaved(Len(call.lens)), ArrayStart(h),
         NEW g, g = [f EXCEPT !.slot = e - 1],
         \/ e < Len(call.lens) /\ InField(g, ElementWord(call, e), call.lens[e])
         \/ e = Len(call.lens) /\ call.large = 0,
         NEW p, ReadField(g, len[g.slot], NextElement(p))
  PROVE  result' = "OK" /\ UNCHANGED statics /\ (InArray(h, p, f) \/ Trailing({}))'
  <1> DEFINE size == Len(call.lens)
  <1>1. call \in Transactions /\ Supported(call) /\ call' = call
    BY DEF Reads, Readable
  <1>2. size \in 1 .. 3 /\ e \in 1 .. size
        /\ \A d \in 1 .. size - 1 : SelfContained(call.lens[d])
    BY ElementPlaces
  <1>3. PICK v \in Nat : v = call.lens[e]
    BY <1>1, ArrayWords
  <1>4. PICK a \in Nat : a = ElementWord(call, e)
    BY <1>1, ArrayWords
  <1>5. g.data # g.second /\ g.data # g.last /\ g.second # g.last
    BY DEF NameField, CallField
  <1>6. result' = "OK" /\ UNCHANGED <<statics, offsets, count, offsets_start>>
    BY DEF ReadField
  <1>7. CASE e < size /\ InField(g, a, v)
    <2>1. SelfContained(v)
      <3> HIDE DEF size
      <3>1. e \in 1 .. size - 1
        BY <1>2, <1>7
      <3>2. QED
        BY <1>2, <1>3, <3>1
    <2>2. a + WordsFor(v) <= Len(Encode(call)) /\ WordsFor(v) \in Nat
      BY <1>1, <1>3, <1>4, ArrayWords
    <2>3. \/ UNCHANGED id /\ InField(g, a, v)'
          \/ n = a + WordsFor(v) /\ Ahead(n + 1) /\ NextElement(p)
      BY <1>5, <1>7, <2>1, <2>2, FieldReadNext
    <2>4. CASE UNCHANGED id /\ InField(g, a, v)'
      <3>1. InElement(e, p, g)'
        BY <1>3, <1>4, <1>7, <2>4, AtElementNext
      <3>2. QED
        BY <1>6, <2>4, <3>1, InArrayNext
    <2>5. CASE n = a + WordsFor(v) /\ Ahead(n + 1) /\ NextElement(p)
      <3>1. e + 1 \in 1 .. size /\ e + 1 \in 2 .. 3 /\ e \in 1 .. 2
        <4> HIDE DEF size
        <4>1. QED
          BY <1>2, <1>7
      <3>2. PICK m \in Nat : m = ElementWord(call, e + 1)
        BY <1>1, <3>1, ArrayWords
      <3>3. m = n + 1
        <4>1. m = a + 1 + WordsFor(v)
          BY <1>1, <1>3, <1>4, <3>2, ArrayWords
        <4>2. QED
          BY <2>2, <2>5, <4>1
      <3>4. id' = e /\ Seek(offsets_start + offsets[e], p)
        <4>1. id # count - 1 /\ id + 1 = e /\ U8(e) = e
          <5>1. e # size
            BY <1>7
          <5>2. count = size /\ id = e - 1
            OBVIOUS
          <5> HIDE DEF size
          <5>3. size \in Nat /\ e \in 1 .. 2
            BY <1>2, <3>1
          <5>4. id # count - 1 /\ id + 1 = e
            BY <5>1, <5>2, <5>3
          <5>5. \A x \in 1 .. 2 : U8(x) = x
            BY DEF U8, UINT8_MAX
          <5>6. QED
            BY <5>3, <5>4, <5>5
        <4>2. id' = U8(id + 1) /\ Seek(offsets_start + offsets[id + 1], p)
          BY <2>5, <4>1 DEF NextElement
        <4>3. QED
          BY <4>1, <4>2
      <3>5. offsets_start + offsets[e] = Position(m) /\ Position(m) <= UINT16_MAX
        <4>1. offsets[(e + 1) - 1] = PARAMETER_LENGTH * (Len(call.lens) + Before(ElementParts(call), (e + 1) - 1))
          BY <3>1 DEF ElementsSaved
        <4>2. (e + 1) - 1 = e
          BY <3>1
        <4>3. offsets_start = Position(h + 2)
          BY DEF ArrayStart
        <4>4. offsets[e] = PARAMETER_LENGTH * (Len(call.lens) + Before(ElementParts(call), (e + 1) - 1))
          BY <4>1, <4>2
        <4>5. /\ Position(h + 2) + PARAMETER_LENGTH * (Len(call.lens) + Before(ElementParts(call), (e + 1) - 1))
                   = Position(ElementWord(call, e + 1))
              /\ Position(ElementWord(call, e + 1)) <= UINT16_MAX
          BY <1>1, <3>1, ArrayWords
        <4>6. QED
          BY <3>2, <4>3, <4>4, <4>5, Zenon
      <3>6. Due(p, m)'
        <4>1. n < m /\ Ahead(m)
          BY <2>5, <3>3, LargeType
        <4>2. QED
          BY <3>4, <3>5, <4>1, SeekDue
      <3>7. PICK k : k = [f EXCEPT !.slot = (e + 1) - 1]
        OBVIOUS
      <3>8. InElement(e + 1, p, k)'
        <4>1. PICK u : u = call.lens[e + 1]
          OBVIOUS
        <4>2. QED
          BY <3>1, <3>2, <3>6, <4>1, AtElementNext
      <3>9. id' = (e + 1) - 1
        BY <3>1, <3>4
      <3>10. InArray(h, p, f)'
        BY <1>6, <3>1, <3>7, <3>8, <3>9, InArrayNext
      <3>11. QED
        BY <1>6, <3>10
    <2>6. QED
      BY <2>3, <2>4, <2>5
  <1>8. CASE e = size /\ call.large = 0
    <2>1. \/ next_param' \in {g.data, g.second, g.last} /\ UNCHANGED id
          \/ NextElement(p)
      BY DEF ReadField, ReadShort, ReadLong, ReadSecondLast, ReadLast, Advance, Seek
    <2>2. CASE next_param' \in {g.data, g.second, g.last} /\ UNCHANGED id
      <3>1. InElement(e, p, g)'
        BY <1>3, <1>4, <1>8, <2>2, AtElementNext
      <3>2. QED
        BY <1>6, <2>2, <3>1, InArrayNext
    <2>3. CASE NextElement(p)
      <3>1. id = count - 1
        BY <1>8
      <3>2. next_param' = "NONE"
        BY <2>3, <3>1 DEF NextElement, Advance
      <3>3. Trailing({})'
        BY <1>1, <1>8, <3>2 DEF Trailing
      <3>4. QED
        BY <1>6, <3>3
    <2>4. QED
      BY <2>1, <2>2, <2>3
  <1>9. QED
    BY <1>3, <1>4, <1>7, <1>8

\* A word of an array is taken.
LEMMA ArrayStep ==
  ASSUME NEW w, NEW n, Reads(w, n), AtOffset, Shaped, call.selector \in OneArray,
         NEW h \in Nat, h = Len(Signature(call.selector)), NEW f, f \in {NameField, CallField},
         NEW p, p \in {"NAME_LENGTH", "CALL_LEN"}, InArray(h, p, f),
         \/ next_param \notin {"OFFSETS", p, f.data, f.second, f.last}
         \/ next_param = "OFFSETS" /\ ReadElementOffset(w, p)
         \/ next_param = p /\ ReadLength(w, id, f.data)
         \/ ReadField([f EXCEPT !.slot = id], len[id], NextElement(p))
  PROVE  Goes((InArray(h, p, f) \/ Trailing({}))') /\ UNCHANGED statics
  <1>1. PICK e \in 1 .. Len(call.lens) : AtElement(h, p, f, e)
    BY DEF InArray
  <1>2. call \in Transactions /\ Supported(call)
    BY DEF Reads, Readable
  <1> DEFINE g == [f EXCEPT !.slot = e - 1]
  <1>3. count = Len(call.lens) /\ id = e - 1
    BY <1>1 DEF AtElement
  <1>4. g.slot = e - 1 /\ g.data = f.data /\ g.second = f.second /\ g.last = f.last
        /\ {f.data, f.second, f.last} \cap {"OFFSETS", "NAME_LENGTH", "CALL_LEN"} = {}
    BY DEF NameField, CallField
  <1>5. [f EXCEPT !.slot = id] = g
    BY <1>3
  <1>6. ReadField(g, len[g.slot], NextElement(p)) => next_param \in {f.data, f.second, f.last}
    BY <1>4 DEF ReadField
  <1>7. \/ next_param \notin {"OFFSETS", p, f.data, f.second, f.last}
        \/ next_param = "OFFSETS" /\ ReadElementOffset(w, p)
        \/ next_param = p /\ ReadLength(w, id, f.data)
        \/ ReadField(g, len[g.slot], NextElement(p))
    BY <1>3, <1>4, <1>5
  <1> HIDE DEF g
  <1>8. CASE Due("OFFSETS", h + 1 + e) /\ ElementsSaved(e - 1) /\ (e # 1 => ArrayStart(h))
    <2>1. next_param = "OFFSETS" /\ n = h + 1 + e /\ Ahead(n)
      <3>1. h + 1 + e \in Nat
        OBVIOUS
      <3>2. QED
        BY <1>8, <3>1, DueNow
    <2>2. ReadElementOffset(w, p)
      BY <1>4, <1>6, <1>7, <2>1
    <2>3. Goes(InArray(h, p, f)') /\ UNCHANGED statics
      BY <1>3, <1>8, <2>1, <2>2, ElementOffsetRead
    <2>4. QED
      BY <2>3 DEF Goes
  <1>9. CASE ElementsSaved(Len(call.lens)) /\ ArrayStart(h) /\ InElement(e, p, g)
    <2>1. PICK m \in Nat : m = ElementWord(call, e)
      BY <1>2, ArrayWords
    <2>2. CASE Due(p, m)
      <3>1. next_param = p /\ n = ElementWord(call, e) /\ Ahead(n)
        BY <2>1, <2>2, DueNow
      <3>2. ReadLength(w, id, f.data)
        BY <1>4, <1>6, <1>7, <3>1
      <3>3. Goes(InArray(h, p, f)') /\ UNCHANGED statics
        BY <1>3, <1>9, <3>1, <3>2, ElementLengthRead
      <3>4. QED
        BY <3>3 DEF Goes
    <2>3. CASE \/ e < Len(call.lens) /\ InField(g, ElementWord(call, e), call.lens[e])
               \/ /\ e = Len(call.lens)
                  /\ next_param \in {g.data, g.second, g.last} /\ call.large = 0
      <3>1. next_param \in {g.data, g.second, g.last}
        BY <2>3, FieldParam
      <3>2. ReadField(g, len[g.slot], NextElement(p))
        BY <1>4, <1>7, <3>1
      <3>3. result' = "OK" /\ UNCHANGED statics /\ (InArray(h, p, f) \/ Trailing({}))'
        BY <1>3, <1>9, <2>3, <3>2, ElementRead DEF g
      <3>4. QED
        BY <3>3 DEF Goes
    <2>4. QED
      BY <1>9, <2>1, <2>2, <2>3 DEF InElement
  <1>10. QED
    BY <1>1, <1>8, <1>9 DEF AtElement, g

\* renewAll.
LEMMA RenewAllStep ==
  ASSUME NEW w, NEW n, Reads(w, n), Shaped, Times, call.selector = "e8d6dbb4",
         OnRenewAll, handle_renew_all(w)
  PROVE  Goes(OnRenewAll' /\ Times')
  <1>1. call.selector \in OneArray
    BY DEF OneArray
  <1>2. PICK h \in Nat : h = Len(Signature(call.selector))
    BY <1>1, HeadLength
  <1>3. h = 2 /\ Signature(call.selector)[2] = "word" /\ Len(call.lens) <= 2
    BY <1>1, <1>2, ElementPlaces
  <1>4. CASE SkipToOffset
    <2>1. /\ result' = "OK"
          /\ Times'
          /\ \A p : \A m \in Nat : Due(p, m) => Due(p, m)'
          /\ \A params : Trailing(params) => Trailing(params)'
          /\ UNCHANGED fields
      BY <1>4, Skipped
    <2>2. UNCHANGED <<id, offsets_start>>
      BY <2>1 DEF fields
    <2>3. ArraySaved => ArraySaved'
      BY <2>2 DEF ArraySaved, Reads
    <2>4. InArray(2, "NAME_LENGTH", NameField) => InArray(2, "NAME_LENGTH", NameField)'
      BY <1>1, <1>2, <1>3, <1>4, ArraySkipped
    <2>5. OnRenewAll'
      BY <2>1, <2>2, <2>3, <2>4 DEF OnRenewAll
    <2>6. QED
      BY <2>1, <2>5 DEF Goes
  <1>5. CASE ~SkipToOffset
    <2>1. /\ AtOffset
          /\ \/ IgnoreWord
             \/ next_param = "NAME_OFFSET" /\ SaveArrayOffset(w, "DURATION")
             \/ next_param = "DURATION" /\ CopyParameter(w, "duration", "N_NAME")
             \/ next_param = "N_NAME" /\ ReadCount(w, 2)
             \/ next_param = "OFFSETS" /\ ReadElementOffset(w, "NAME_LENGTH")
             \/ next_param = "NAME_LENGTH" /\ ReadLength(w, id, "NAME")
             \/ ReadField(NameElement, len[id], NextElement("NAME_LENGTH"))
      BY <1>5 DEF handle_renew_all
    <2>2. ReadField(NameElement, len[id], NextElement("NAME_LENGTH")) => next_param \in NameData
      BY DEF ReadField, NameElement, NameField, NameData
    <2>3. IgnoreWord => next_param = "NONE"
      BY DEF IgnoreWord
    <2>4. CASE id = 0 /\ Due("NAME_OFFSET", 1)
      <3>1. next_param = "NAME_OFFSET" /\ n = 1 /\ Ahead(n)
        BY <2>1, <2>4, DueNow
      <3>2. SaveArrayOffset(w, "DURATION")
        BY <2>1, <2>2, <2>3, <3>1 DEF NameData
      <3>3. Goes(id' = 0 /\ ArraySaved' /\ Due("DURATION", 2)') /\ UNCHANGED statics
        BY <1>1, <2>4, <3>1, <3>2, ArrayOffsetRead
      <3>4. QED
        BY <3>3, SameTimes DEF Goes, OnRenewAll
    <2>5. CASE id = 0 /\ ArraySaved /\ Due("DURATION", 2)
      <3>1. next_param = "DURATION" /\ n = 2 /\ Ahead(n)
        BY <2>1, <2>5, DueNow
      <3>2. CopyParameter(w, "duration", "N_NAME")
        BY <2>1, <2>2, <2>3, <3>1 DEF NameData
      <3>3. n \in 1 .. Len(Signature(call.selector)) /\ Signature(call.selector)[n] = "word"
        BY <1>2, <1>3, <3>1
      <3>4. /\ result' = "OK" /\ Due("N_NAME", 3)' /\ Times'
            /\ UNCHANGED <<id, offsets_start>>
        BY <3>1, <3>2, <3>3, StaticCopied
      <3>5. ArraySaved'
        BY <2>5, <3>4 DEF ArraySaved, Reads
      <3>6. OnRenewAll'
        BY <2>5, <3>4, <3>5 DEF OnRenewAll
      <3>7. QED
        BY <3>4, <3>6 DEF Goes
    <2>6. CASE id = 0 /\ ArraySaved /\ Due("N_NAME", 3)
      <3>1. next_param = "N_NAME" /\ n = 3 /\ Ahead(n)
        BY <2>1, <2>6, DueNow
      <3>2. ReadCount(w, 2)
        BY <2>1, <2>2, <2>3, <3>1 DEF NameData
      <3>3. n = h + 1
        BY <1>3, <3>1
      <3>4. Goes(InArray(h, "NAME_LENGTH", NameField)') /\ UNCHANGED statics
        BY <1>1, <1>2, <1>3, <2>6, <3>1, <3>2, <3>3, CountRead
      <3>5. QED
        BY <1>3, <3>4, SameTimes DEF Goes, OnRenewAll
    <2>7. CASE InArray(2, "NAME_LENGTH", NameField)
      <3>1. NameElement = [NameField EXCEPT !.slot = id] /\ NameField.data = "NAME"
            /\ NameField.second = "NAME_OFFSET_1" /\ NameField.last = "NAME_OFFSET_2"
        BY DEF NameElement, NameField
      <3>2. \/ next_param \notin {"OFFSETS", "NAME_LENGTH", NameField.data, NameField.second, NameField.last}
            \/ next_param = "OFFSETS" /\ ReadElementOffset(w, "NAME_LENGTH")
            \/ next_param = "NAME_LENGTH" /\ ReadLength(w, id, NameField.data)
            \/ ReadField([NameField EXCEPT !.slot = id], len[id], NextElement("NAME_LENGTH"))
        BY <2>1, <2>3, <3>1
      <3>3. /\ Goes((InArray(h, "NAME_LENGTH", NameField) \/ Trailing({}))')
            /\ UNCHANGED statics
        BY <1>1, <1>2, <1>3, <2>1, <2>7, <3>2, ArrayStep
      <3>4. QED
        BY <1>3, <3>3, SameTimes DEF Goes, OnRenewAll
    <2>8. CASE Trailing({})
      <3>1. next_param = "NONE"
        BY <2>8 DEF Trailing
      <3>2. IgnoreWord
        BY <2>1, <2>2, <3>1 DEF NameData
      <3>3. result' = "OK" /\ Trailing({})' /\ UNCHANGED statics
        BY <2>8, <3>2 DEF IgnoreWord, Trailing, Reads, fields
      <3>4. QED
        BY <3>3, SameTimes DEF Goes, OnRenewAll
    <2>9. QED
      BY <2>4, <2>5, <2>6, <2>7, <2>8 DEF OnRenewAll
  <1>6. QED
    BY <1>4, <1>5

\* The field of an element of multicall.
LEMMA SameElement ==
  ASSUME NEW ACTION Done, ReadField(CallElement, len[id], Done)
  PROVE  ReadField([CallField EXCEPT !.slot = id], len[id], Done)
  <1> DEFINE f == CallElement
             g == [CallField EXCEPT !.slot = id]
  <1>1. /\ g.slot = f.slot /\ g.data = f.data /\ g.second = f.second /\ g.last = f.last
        /\ g.byLength = f.byLength
    BY DEF CallElement, CallField
  <1> HIDE DEF f, g
  <1>2. Size(f) = Size(g)
    BY <1>1 DEF Size
  <1>3. /\ ReadShort(f, Done) => ReadShort(g, Done)
        /\ ReadLong(f, len[id]) => ReadLong(g, len[id])
        /\ ReadSecondLast(f) => ReadSecondLast(g)
        /\ ReadLast(f, Done) => ReadLast(g, Done)
    <2>1. \A b, m : /\ FirstHalf(f, b) = FirstHalf(g, b)
                    /\ SecondLastPart(f, m, b) = SecondLastPart(g, m, b)
                    /\ LastPart(f, m, b) = LastPart(g, m, b)
      BY <1>2, Zenon DEF FirstHalf, SecondLastPart, LastPart
    <2>2. ReadShort(f, Done) => ReadShort(g, Done)
      BY <1>1, <1>2 DEF ReadShort
    <2>3. ReadLong(f, len[id]) => ReadLong(g, len[id])
      BY <1>1, <2>1 DEF ReadLong
    <2>4. ReadSecondLast(f) => ReadSecondLast(g)
      BY <1>1, <2>1 DEF ReadSecondLast
    <2>5. ReadLast(f, Done) => ReadLast(g, Done)
      BY <1>1, <2>1 DEF ReadLast
    <2>6. QED
      BY <2>2, <2>3, <2>4, <2>5
  <1>4. QED
    BY <1>1, <1>3 DEF ReadField, f, g

\* multicall.
LEMMA MulticallStep ==
  ASSUME NEW w, NEW n, Reads(w, n), Shaped, Times, call.selector = "ac9650d8",
         OnMulticall, handle_multicall(w)
  PROVE  Goes(OnMulticall' /\ Times')
  <1>1. call.selector \in OneArray
    BY DEF OneArray
  <1>2. PICK h \in Nat : h = Len(Signature(call.selector))
    BY <1>1, HeadLength
  <1>3. h = 1 /\ Len(call.lens) <= 3
    <2>1. h = 1 /\ Len(call.lens) \in 1 .. 3
      <3>1. call.selector # "e8d6dbb4"
        OBVIOUS
      <3>2. QED
        BY <1>1, <1>2, <3>1, ElementPlaces
    <2> DEFINE size == Len(call.lens)
    <2>2. size \in 1 .. 3
      BY <2>1
    <2> HIDE DEF size
    <2>3. size <= 3
      BY <2>2
    <2>4. QED
      BY <2>1, <2>3 DEF size
  <1>4. CASE SkipToOffset
    <2>1. /\ result' = "OK"
          /\ Times'
          /\ \A p : \A m \in Nat : Due(p, m) => Due(p, m)'
          /\ \A params : Trailing(params) => Trailing(params)'
          /\ UNCHANGED fields
      BY <1>4, Skipped
    <2>2. UNCHANGED <<id, offsets_start>>
      BY <2>1 DEF fields
    <2>3. ArraySaved => ArraySaved'
      BY <2>2 DEF ArraySaved, Reads
    <2>4. InArray(1, "CALL_LEN", CallField) => InArray(1, "CALL_LEN", CallField)'
      BY <1>1, <1>2, <1>3, <1>4, ArraySkipped
    <2>5. OnMulticall'
      BY <2>1, <2>2, <2>3, <2>4 DEF OnMulticall
    <2>6. QED
      BY <2>1, <2>5 DEF Goes
  <1>5. CASE ~SkipToOffset
    <2>1. /\ AtOffset
          /\ \/ IgnoreWord
             \/ next_param = "CALL_OFFSET" /\ SaveArrayOffset(w, "N_CALL")
             \/ next_param = "N_CALL" /\ ReadCount(w, 3)
             \/ next_param = "OFFSETS" /\ ReadElementOffset(w, "CALL_LEN")
             \/ next_param = "CALL_LEN" /\ ReadLength(w, id, "CALL")
             \/ ReadField(CallElement, len[id], NextElement("CALL_LEN"))
      BY <1>5 DEF handle_multicall
    <2>2. ReadField(CallElement, len[id], NextElement("CALL_LEN")) => next_param \in CallData
      BY DEF ReadField, CallElement, CallData
    <2>3. IgnoreWord => next_param = "NONE"
      BY DEF IgnoreWord
    <2>4. CASE id = 0 /\ Due("CALL_OFFSET", 1)
      <3>1. next_param = "CALL_OFFSET" /\ n = 1 /\ Ahead(n)
        BY <2>1, <2>4, DueNow
      <3>2. SaveArrayOffset(w, "N_CALL")
        BY <2>1, <2>2, <2>3, <3>1 DEF CallData
      <3>3. Goes(id' = 0 /\ ArraySaved' /\ Due("N_CALL", 2)') /\ UNCHANGED statics
        BY <1>1, <2>4, <3>1, <3>2, ArrayOffsetRead
      <3>4. QED
        BY <3>3, SameTimes DEF Goes, OnMulticall
    <2>6. CASE id = 0 /\ ArraySaved /\ Due("N_CALL", 2)
      <3>1. next_param = "N_CALL" /\ n = 2 /\ Ahead(n)
        BY <2>1, <2>6, DueNow
      <3>2. ReadCount(w, 3)
        BY <2>1, <2>2, <2>3, <3>1 DEF CallData
      <3>3. n = h + 1
        BY <1>3, <3>1
      <3>4. Goes(InArray(h, "CALL_LEN", CallField)') /\ UNCHANGED statics
        BY <1>1, <1>2, <1>3, <2>6, <3>1, <3>2, <3>3, CountRead
      <3>5. QED
        BY <1>3, <3>4, SameTimes DEF Goes, OnMulticall
    <2>7. CASE InArray(1, "CALL_LEN", CallField)
      <3>1. CallField.data = "CALL" /\ CallField.second = "CALL_1" /\ CallField.last = "CALL_2"
        BY DEF CallField
      <3>5. ReadField(CallElement, len[id], NextElement("CALL_LEN"))
              => ReadField([CallField EXCEPT !.slot = id], len[id], NextElement("CALL_LEN"))
        BY SameElement
      <3>2. \/ next_param \notin {"OFFSETS", "CALL_LEN", CallField.data, CallField.second, CallField.last}
            \/ next_param = "OFFSETS" /\ ReadElementOffset(w, "CALL_LEN")
            \/ next_param = "CALL_LEN" /\ ReadLength(w, id, CallField.data)
            \/ ReadField([CallField EXCEPT !.slot = id], len[id], NextElement("CALL_LEN"))
        BY <2>1, <2>3, <3>1, <3>5
      <3>3. /\ Goes((InArray(h, "CALL_LEN", CallField) \/ Trailing({}))')
            /\ UNCHANGED statics
        BY <1>1, <1>2, <1>3, <2>1, <2>7, <3>2, ArrayStep
      <3>4. QED
        BY <1>3, <3>3, SameTimes DEF Goes, OnMulticall
    <2>8. CASE Trailing({})
      <3>1. next_param = "NONE"
        BY <2>8 DEF Trailing
      <3>2. IgnoreWord
        BY <2>1, <2>2, <3>1 DEF CallData
      <3>3. result' = "OK" /\ Trailing({})' /\ UNCHANGED statics
        BY <2>8, <3>2 DEF IgnoreWord, Trailing, Reads, fields
      <3>4. QED
        BY <3>3, SameTimes DEF Goes, OnMulticall
    <2>9. QED
      BY <2>4, <2>6, <2>7, <2>8 DEF OnMulticall
  <1>6. QED
    BY <1>4, <1>5

(***************************************************************************)
(* The functions and their handlers.                                       *)
(***************************************************************************)

\* Which handler each function has, and what it takes first.
LEMMA Handlers ==
  /\ find_selector("f14fcbc8") = "COMMIT"
  /\ find_selector("85f6d155") = "REGISTER"
  /\ find_selector("f7a16963") = "REGISTER_WITH_CONFIG"
  /\ find_selector("acf1a841") = "RENEW"
  /\ find_selector("c47f0027") = "SET_NAME"
  /\ find_selector("e8d6dbb4") = "RENEW_ALL"
  /\ find_selector("8bbedf75") = "PROVE_AND_CLAIM"
  /\ find_selector("224199c2") = "PROVE_AND_CLAIM_RESOLVER"
  /\ find_selector("5b0fc9c3") = "SET_OWNER"
  /\ find_selector("1896f70a") = "SET_RESOLVER"
  /\ find_selector("5ef2c7f0") = "SET_SUBNODE"
  /\ find_selector("8b95dd71") = "SET_ADDR"
  /\ find_selector("10f13a8c") = "SET_TEXT"
  /\ find_selector("ac9650d8") = "MULTICALL"
  /\ find_selector("304e6ade") = "SET_CONTENT_HASH"
  <1>1. \A i \in 1 .. 15 : SelectorMatches(ENS_SELECTORS[i]) = {i}
    BY DEF SelectorMatches, ENS_SELECTORS
  <1>2. \A i \in 1 .. 15 : (CHOOSE j \in {i} : \A k \in {i} : j <= k) = i
    OBVIOUS
  <1>3. \A i \in 1 .. 15 : find_selector(ENS_SELECTORS[i]) = selector_t[i]
    BY <1>1, <1>2 DEF find_selector
  <1>4. QED
    BY <1>3 DEF ENS_SELECTORS, selector_t

\* Every transaction is one of them.
LEMMA SelectorFound ==
  ASSUME NEW c \in Transactions
  PROVE  /\ c.selector \in OneData \cup TwoData \cup OneArray \cup NoData
         /\ SelectorMatches(c.selector) # {}
  <1>1. c.selector \in { ENS_SELECTORS[i] : i \in DOMAIN ENS_SELECTORS }
    BY DEF Transactions
  <1>2. QED
    BY <1>1, Selectors DEF SelectorMatches

(***************************************************************************)
(* The shape of the context.                                               *)
(***************************************************************************)

\* What is not written keeps its shape.
LEMMA ShapeKept ==
  ASSUME Shaped, UNCHANGED <<statics, offsets, len>>
  PROVE  Shaped'
  BY DEF Shaped

\* Every switch case keeps the shape.
LEMMA ShapeOfCase ==
  ASSUME Shaped, NEW w
  PROVE  /\ SkipToOffset => Shaped'
         /\ IgnoreWord => Shaped'
         /\ Refuse => Shaped'
         /\ \A f, b : CopyWord(w, f, b) => Shaped'
         /\ \A k, p : SaveOffset(w, k, p) => Shaped'
         /\ \A k, p : SaveOffsetAnyway(w, k, p) => Shaped'
         /\ \A p : SaveArrayOffset(w, p) => Shaped'
         /\ \A k, p : ReadLength(w, k, p) => Shaped'
         /\ \A n : ReadCount(w, n) => Shaped'
         /\ \A p : ReadElementOffset(w, p) => Shaped'
  <1>1. Refuse => Shaped'
    BY ShapeKept DEF Refuse, fields
  <1>2. SkipToOffset \/ IgnoreWord => Shaped'
    BY ShapeKept DEF SkipToOffset, IgnoreWord, fields
  <1>3. ASSUME NEW f, NEW b, CopyWord(w, f, b) PROVE Shaped'
    BY <1>3 DEF CopyWord, Shaped
  <1>4. ASSUME NEW k, NEW p, SaveOffset(w, k, p) PROVE Shaped'
    BY <1>1, <1>4 DEF SaveOffset, Shaped
  <1>5. ASSUME NEW k, NEW p, SaveOffsetAnyway(w, k, p) PROVE Shaped'
    BY <1>5 DEF SaveOffsetAnyway, Shaped
  <1>6. ASSUME NEW p, SaveArrayOffset(w, p) PROVE Shaped'
    BY <1>1, <1>6, ShapeKept DEF SaveArrayOffset
  <1>7. ASSUME NEW k, NEW p, ReadLength(w, k, p) PROVE Shaped'
    BY <1>1, <1>7 DEF ReadLength, Shaped
  <1>8. ASSUME NEW n, ReadCount(w, n) PROVE Shaped'
    BY <1>1, <1>8, ShapeKept DEF ReadCount
  <1>9. ASSUME NEW p, ReadElementOffset(w, p) PROVE Shaped'
    BY <1>1, <1>9 DEF ReadElementOffset, Shaped
  <1>10. QED
    BY <1>1, <1>2, <1>3, <1>4, <1>5, <1>6, <1>7, <1>8, <1>9

\* A copy, a length at its offset, the number of inputs, and a field, too.
LEMMA ShapeOfField ==
  ASSUME Shaped, NEW w
  PROVE  /\ \A f, p : CopyParameter(w, f, p) \/ CopyAddress(w, f, p) => Shaped'
         /\ \A o, k, p : ReadLengthAt(o, w, k, p) => Shaped'
         /\ \A o : ReadInputs(o, w) => Shaped'
  BY ShapeOfCase DEF CopyParameter, CopyAddress, ReadLengthAt, ReadInputs

LEMMA ShapeOfRead ==
  ASSUME Shaped, NEW f, NEW length, NEW ACTION Done, ReadField(f, length, Done)
  PROVE  Shaped'
  BY ShapeKept DEF ReadField

\* And so do the handlers.
LEMMA ShapeOfHandler ==
  ASSUME Shaped, NEW w, handle_provide_parameter(w)
  PROVE  Shaped'
  <1>1. CASE Refuse
    BY <1>1, ShapeOfCase
  <1>2. CASE handle_prove_claim_resolver(w)
    <2>1. SaveNameOffset(w) \/ SaveInputOffset(w) => Shaped'
      BY ShapeKept DEF SaveNameOffset, SaveInputOffset, fields
    <2>2. ReadNameLength(w) \/ ReadInputsLength(w) => Shaped'
      BY ShapeOfField DEF ReadNameLength, ReadInputsLength
    <2>3. QED
      BY <1>2, <2>1, <2>2, ShapeOfCase, ShapeOfField, ShapeOfRead DEF handle_prove_claim_resolver
  <1>3. CASE ParseWord(w)
    <2>1. CASE handle_commit(w) \/ handle_register(w) \/ handle_register_with_config(w)
      BY <2>1, ShapeOfCase, ShapeOfField, ShapeOfRead
      DEF handle_commit, handle_register, handle_register_with_config
    <2>2. CASE handle_renew(w) \/ handle_set_name(w) \/ handle_renew_all(w)
      BY <2>2, ShapeOfCase, ShapeOfField, ShapeOfRead
      DEF handle_renew, handle_set_name, handle_renew_all
    <2>3. CASE handle_prove_claim(w) \/ handle_owner(w) \/ handle_resolver(w) \/ handle_subnode(w)
      BY <2>3, ShapeOfCase, ShapeOfField, ShapeOfRead
      DEF handle_prove_claim, handle_owner, handle_resolver, handle_subnode
    <2>4. CASE handle_set_addr(w) \/ handle_set_text(w)
      BY <2>4, ShapeOfCase, ShapeOfField, ShapeOfRead DEF handle_set_addr, handle_set_text
    <2>5. CASE handle_set_content_hash(w) \/ handle_multicall(w)
      BY <2>5, ShapeOfCase, ShapeOfField, ShapeOfRead DEF handle_set_content_hash, handle_multicall
    <2>6. QED
      BY <1>3, <2>1, <2>2, <2>3, <2>4, <2>5 DEF ParseWord
  <1>4. QED
    BY <1>1, <1>2, <1>3 DEF handle_provide_parameter

(***************************************************************************)
(* On track.                                                               *)
(***************************************************************************)

\* The parameter that is due is the next.
LEMMA DueParam ==
  ASSUME NEW p, NEW m, Due(p, m) \/ Here(p, m)
  PROVE  next_param = p
  BY DEF Due, Here

\* One of an array's cases is.
LEMMA ArrayParam ==
  ASSUME NEW h, NEW p, NEW f, f \in {NameField, CallField}, InArray(h, p, f)
  PROVE  next_param \in {"OFFSETS", p, f.data, f.second, f.last}
  <1>1. PICK e \in 1 .. Len(call.lens) : AtElement(h, p, f, e)
    BY DEF InArray
  <1> DEFINE g == [f EXCEPT !.slot = e - 1]
  <1>2. g.data = f.data /\ g.second = f.second /\ g.last = f.last
    BY DEF NameField, CallField
  <1> HIDE DEF g
  <1>3. Due("OFFSETS", h + 1 + e) \/ InElement(e, p, g)
    BY <1>1 DEF AtElement, g
  <1>4. InElement(e, p, g) => next_param \in {p, g.data, g.second, g.last}
    BY DueParam, FieldParam DEF InElement
  <1>5. QED
    BY <1>2, <1>3, <1>4, DueParam

\* A parser on its track has a case for the next parameter.
LEMMA OnTrackExpected ==
  ASSUME OnTrack
  PROVE  Expected
  <1>1. CASE selectorIndex \in {"COMMIT", "SET_OWNER", "SET_RESOLVER"}
    BY <1>1 DEF OnTrack, OnCommit, OnSetOwner, OnSetResolver, Trailing, Expected, ParamsOf
  <1>2. CASE selectorIndex = "REGISTER"
    BY <1>2, DueParam DEF OnTrack, OnRegister, Trailing, NameData, Expected, ParamsOf, NameParams
  <1>3. CASE selectorIndex = "REGISTER_WITH_CONFIG"
    BY <1>3, DueParam
    DEF OnTrack, OnRegisterWithConfig, Trailing, NameData, Expected, ParamsOf, NameParams
  <1>4. CASE selectorIndex \in {"RENEW", "SET_NAME"}
    BY <1>4, DueParam
    DEF OnTrack, OnRenew, OnSetName, Trailing, NameData, Expected, ParamsOf, NameParams
  <1>5. CASE selectorIndex = "SET_SUBNODE"
    BY <1>5, DueParam DEF OnTrack, OnSetSubnode, Trailing, Expected, ParamsOf
  <1>6. CASE selectorIndex \in {"SET_ADDR", "SET_CONTENT_HASH"}
    BY <1>6, DueParam
    DEF OnTrack, OnSetAddr, OnSetContentHash, Trailing, HashData, Expected, ParamsOf, HashParams
  <1>7. CASE selectorIndex = "SET_TEXT"
    <2>1. InField(KeyField, 4, call.lens[1]) => next_param \in {"KEY", "KEY_1", "KEY_2"}
      BY FieldParam DEF KeyField
    <2>2. QED
      BY <1>7, <2>1, DueParam
      DEF OnTrack, OnSetText, Trailing, ValueData, Expected, ParamsOf, KeyParams, ValueParams
  <1>8. CASE selectorIndex = "PROVE_AND_CLAIM"
    <2>1. InField(NameField, 4, call.lens[1]) => next_param \in NameData
      BY FieldParam DEF NameField, NameData
    <2>2. QED
      BY <1>8, <2>1, DueParam
      DEF OnTrack, OnProveClaim, Trailing, ProofData, NameData, Expected, ParamsOf, ClaimParams,
          NameParams, ProofParams
  <1>9. CASE selectorIndex = "PROVE_AND_CLAIM_RESOLVER"
    <2>1. InField(NameField, 6, call.lens[1]) => next_param \in NameData
      BY FieldParam DEF NameField, NameData
    <2>2. QED
      BY <1>9, <2>1, DueParam
      DEF OnTrack, OnProveClaimResolver, Trailing, ProofData, NameData, Expected, ParamsOf,
          ClaimParams, NameParams, ProofParams
  <1>10. CASE selectorIndex = "RENEW_ALL"
    <2>1. InArray(2, "NAME_LENGTH", NameField)
            => next_param \in {"OFFSETS", "NAME_LENGTH"} \cup NameData
      <3>1. NameField.data = "NAME" /\ NameField.second = "NAME_OFFSET_1"
            /\ NameField.last = "NAME_OFFSET_2"
        BY DEF NameField
      <3>2. QED
        BY <3>1, ArrayParam DEF NameData
    <2>2. QED
      BY <1>10, <2>1, DueParam
      DEF OnTrack, OnRenewAll, Trailing, NameData, Expected, ParamsOf, NameParams
  <1>11. CASE selectorIndex = "MULTICALL"
    <2>1. InArray(1, "CALL_LEN", CallField) => next_param \in {"OFFSETS", "CALL_LEN"} \cup CallData
      <3>1. CallField.data = "CALL" /\ CallField.second = "CALL_1" /\ CallField.last = "CALL_2"
        BY DEF CallField
      <3>2. QED
        BY <3>1, ArrayParam DEF CallData
    <2>2. QED
      BY <1>11, <2>1, DueParam
      DEF OnTrack, OnMulticall, Trailing, CallData, Expected, ParamsOf, CallParams
  <1>12. QED
    BY <1>1, <1>2, <1>3, <1>4, <1>5, <1>6, <1>7, <1>8, <1>9, <1>10, <1>11 DEF OnTrack

\* handle_provide_parameter keeps to it.
LEMMA WordTaken ==
  ASSUME NEW w, NEW n, Reads(w, n), Shaped, Times, selectorIndex = find_selector(call.selector),
         OnTrack, handle_provide_parameter(w)
  PROVE  Goes(OnTrack' /\ Times') /\ UNCHANGED selectorIndex
  <1>1. UNCHANGED selectorIndex
    BY DEF handle_provide_parameter
  <1>2. call \in Transactions
    BY DEF Reads
  <1>3. \/ selectorIndex = "PROVE_AND_CLAIM_RESOLVER" /\ handle_prove_claim_resolver(w)
        \/ UNCHANGED <<name_offset, input_offset>> /\ ParseWord(w)
    BY OnTrackExpected DEF handle_provide_parameter
  <1>4. CASE call.selector = "f14fcbc8"
    <2>1. selectorIndex = "COMMIT"
      BY <1>4, Handlers
    <2>2. OnCommit /\ handle_commit(w)
      BY <1>3, <2>1 DEF OnTrack, ParseWord
    <2>3. Goes(OnCommit' /\ Times')
      BY <1>4, <2>2, CommitStep
    <2>4. QED
      BY <1>1, <2>1, <2>3 DEF Goes, OnTrack
  <1>5. CASE call.selector = "85f6d155"
    <2>1. selectorIndex = "REGISTER"
      BY <1>5, Handlers
    <2>2. OnRegister /\ handle_register(w)
      BY <1>3, <2>1 DEF OnTrack, ParseWord
    <2>3. Goes(OnRegister' /\ Times')
      BY <1>5, <2>2, RegisterStep
    <2>4. QED
      BY <1>1, <2>1, <2>3 DEF Goes, OnTrack
  <1>6. CASE call.selector = "f7a16963"
    <2>1. selectorIndex = "REGISTER_WITH_CONFIG"
      BY <1>6, Handlers
    <2>2. OnRegisterWithConfig /\ handle_register_with_config(w)
      BY <1>3, <2>1 DEF OnTrack, ParseWord
    <2>3. Goes(OnRegisterWithConfig' /\ Times')
      BY <1>6, <2>2, RegisterWithConfigStep
    <2>4. QED
      BY <1>1, <2>1, <2>3 DEF Goes, OnTrack
  <1>7. CASE call.selector = "acf1a841"
    <2>1. selectorIndex = "RENEW"
      BY <1>7, Handlers
    <2>2. OnRenew /\ handle_renew(w)
      BY <1>3, <2>1 DEF OnTrack, ParseWord
    <2>3. Goes(OnRenew' /\ Times')
      BY <1>7, <2>2, RenewStep
    <2>4. QED
      BY <1>1, <2>1, <2>3 DEF Goes, OnTrack
  <1>8. CASE call.selector = "c47f0027"
    <2>1. selectorIndex = "SET_NAME"
      BY <1>8, Handlers
    <2>2. OnSetName /\ handle_set_name(w)
      BY <1>3, <2>1 DEF OnTrack, ParseWord
    <2>3. Goes(OnSetName' /\ Times')
      BY <1>8, <2>2, SetNameStep
    <2>4. QED
      BY <1>1, <2>1, <2>3 DEF Goes, OnTrack
  <1>9. CASE call.selector = "e8d6dbb4"
    <2>1. selectorIndex = "RENEW_ALL"
      BY <1>9, Handlers
    <2>2. OnRenewAll /\ handle_renew_all(w)
      BY <1>3, <2>1 DEF OnTrack, ParseWord
    <2>3. Goes(OnRenewAll' /\ Times')
      BY <1>9, <2>2, RenewAllStep
    <2>4. QED
      BY <1>1, <2>1, <2>3 DEF Goes, OnTrack
  <1>10. CASE call.selector = "8bbedf75"
    <2>1. selectorIndex = "PROVE_AND_CLAIM"
      BY <1>10, Handlers
    <2>2. OnProveClaim /\ handle_prove_claim(w)
      BY <1>3, <2>1 DEF OnTrack, ParseWord
    <2>3. Goes(OnProveClaim' /\ Times')
      BY <1>10, <2>2, ProveClaimStep
    <2>4. QED
      BY <1>1, <2>1, <2>3 DEF Goes, OnTrack
  <1>11. CASE call.selector = "224199c2"
    <2>1. selectorIndex = "PROVE_AND_CLAIM_RESOLVER"
      BY <1>11, Handlers
    <2>2. OnProveClaimResolver /\ handle_prove_claim_resolver(w)
      BY <1>3, <2>1 DEF OnTrack, ParseWord
    <2>3. Goes(OnProveClaimResolver' /\ Times')
      BY <1>11, <2>2, ProveClaimResolverStep
    <2>4. QED
      BY <1>1, <2>1, <2>3 DEF Goes, OnTrack
  <1>12. CASE call.selector = "5b0fc9c3"
    <2>1. selectorIndex = "SET_OWNER"
      BY <1>12, Handlers
    <2>2. OnSetOwner /\ handle_owner(w)
      BY <1>3, <2>1 DEF OnTrack, ParseWord
    <2>3. Goes(OnSetOwner' /\ Times')
      BY <1>12, <2>2, SetOwnerStep
    <2>4. QED
      BY <1>1, <2>1, <2>3 DEF Goes, OnTrack
  <1>13. CASE call.selector = "1896f70a"
    <2>1. selectorIndex = "SET_RESOLVER"
      BY <1>13, Handlers
    <2>2. OnSetResolver /\ handle_resolver(w)
      BY <1>3, <2>1 DEF OnTrack, ParseWord
    <2>3. Goes(OnSetResolver' /\ Times')
      BY <1>13, <2>2, SetResolverStep
    <2>4. QED
      BY <1>1, <2>1, <2>3 DEF Goes, OnTrack
  <1>14. CASE call.selector = "5ef2c7f0"
    <2>1. selectorIndex = "SET_SUBNODE"
      BY <1>14, Handlers
    <2>2. OnSetSubnode /\ handle_subnode(w)
      BY <1>3, <2>1 DEF OnTrack, ParseWord
    <2>3. Goes(OnSetSubnode' /\ Times')
      BY <1>14, <2>2, SetSubnodeStep
    <2>4. QED
      BY <1>1, <2>1, <2>3 DEF Goes, OnTrack
  <1>15. CASE call.selector = "8b95dd71"
    <2>1. selectorIndex = "SET_ADDR"
      BY <1>15, Handlers
    <2>2. OnSetAddr /\ handle_set_addr(w)
      BY <1>3, <2>1 DEF OnTrack, ParseWord
    <2>3. Goes(OnSetAddr' /\ Times')
      BY <1>15, <2>2, SetAddrStep
    <2>4. QED
      BY <1>1, <2>1, <2>3 DEF Goes, OnTrack
  <1>16. CASE call.selector = "10f13a8c"
    <2>1. selectorIndex = "SET_TEXT"
      BY <1>16, Handlers
    <2>2. OnSetText /\ handle_set_text(w)
      BY <1>3, <2>1 DEF OnTrack, ParseWord
    <2>3. Goes(OnSetText' /\ Times')
      BY <1>16, <2>2, SetTextStep
    <2>4. QED
      BY <1>1, <2>1, <2>3 DEF Goes, OnTrack
  <1>17. CASE call.selector = "304e6ade"
    <2>1. selectorIndex = "SET_CONTENT_HASH"
      BY <1>17, Handlers
    <2>2. OnSetContentHash /\ handle_set_content_hash(w)
      BY <1>3, <2>1 DEF OnTrack, ParseWord
    <2>3. Goes(OnSetContentHash' /\ Times')
      BY <1>17, <2>2, SetContentHashStep
    <2>4. QED
      BY <1>1, <2>1, <2>3 DEF Goes, OnTrack
  <1>18. CASE call.selector = "ac9650d8"
    <2>1. selectorIndex = "MULTICALL"
      BY <1>18, Handlers
    <2>2. OnMulticall /\ handle_multicall(w)
      BY <1>3, <2>1 DEF OnTrack, ParseWord
    <2>3. Goes(OnMulticall' /\ Times')
      BY <1>18, <2>2, MulticallStep
    <2>4. QED
      BY <1>1, <2>1, <2>3 DEF Goes, OnTrack
  <1>19. QED
    BY <1>2, <1>4, <1>5, <1>6, <1>7, <1>8, <1>9, <1>10, <1>11, <1>12, <1>13, <1>14, <1>15, <1>16,
       <1>17, <1>18, SelectorFound DEF OneData, TwoData, OneArray, NoData

\* The number of elements that was accepted is at most 3.
LEMMA CountKept ==
  ASSUME selectorIndex \in {"RENEW_ALL", "MULTICALL"}, count \in 0 .. 3,
         NEW w, handle_provide_parameter(w), result' = "OK"
  PROVE  count' \in 0 .. 3
  <1>1. handle_renew_all(w) \/ handle_multicall(w)
    BY DEF handle_provide_parameter, ParseWord, Refuse
  <1>2. ReadCount(w, 2) \/ ReadCount(w, 3) => count' \in 1 .. 3
    BY DEF ReadCount, Refuse
  <1>3. SkipToOffset \/ IgnoreWord => count' = count
    BY DEF SkipToOffset, IgnoreWord, fields
  <1>4. \A p : SaveArrayOffset(w, p) \/ ReadElementOffset(w, p) => count' = count
    BY DEF SaveArrayOffset, ReadElementOffset, Refuse
  <1>5. \A f, p : CopyParameter(w, f, p) => count' = count
    BY DEF CopyParameter, CopyWord
  <1>6. \A k, p : ReadLength(w, k, p) => count' = count
    BY DEF ReadLength, Refuse
  <1>7. /\ ReadField(NameElement, len[id], NextElement("NAME_LENGTH")) => count' = count
        /\ ReadField(CallElement, len[id], NextElement("CALL_LEN")) => count' = count
    BY DEF ReadField
  <1>8. count' = count \/ count' \in 1 .. 3
    BY <1>1, <1>2, <1>3, <1>4, <1>5, <1>6, <1>7 DEF handle_renew_all, handle_multicall
  <1>9. QED
    BY <1>8

\* A word is handed over.
LEMMA SendWordStep ==
  ASSUME ServedInv, SendWord
  PROVE  ServedInv'
  <1>1. PICK w : w = Sent(call)[WordNumber]
    OBVIOUS
  <1>2. PICK n : n = WordNumber
    OBVIOUS
  <1>3. /\ phase = "parsing" /\ call' = call /\ n \in DOMAIN Sent(call)
        /\ handle_provide_parameter(w)
        /\ phase' = IF result' = "OK" THEN "parsing" ELSE "refused"
        /\ parameterOffset' = parameterOffset + PARAMETER_LENGTH
        /\ shown' = shown
    BY <1>1, <1>2 DEF SendWord, ProvideParameter, Continue
  <1>4. Shaped' /\ call' \in Calls
    BY <1>3, ShapeOfHandler DEF ServedInv
  <1>5. ASSUME Readable(call)
        PROVE  \/ phase' = "refused" /\ Oversized(call)
               \/ /\ phase' = "parsing"
                  /\ WordNumber' \in Nat \ {0} /\ parameterOffset' = Position(WordNumber')
                  /\ shown' = << >>
                  /\ Presentable' /\ OnTrack'
    <2>1. /\ n \in Nat \ {0} /\ parameterOffset = Position(n) /\ shown = << >>
          /\ Presentable /\ OnTrack /\ Shaped /\ call \in Transactions
      BY <1>2, <1>3, <1>5, CallsAssumption DEF ServedInv, Finished
    <2>2. call.large = 0 \/ call.large \in 1 .. Len(Encode(call))
      BY <1>5, <2>1, NumberInCall DEF Readable
    <2>3. /\ n \in 1 .. Len(Encode(call))
          /\ n <= Len(Sent(call))
          /\ n # call.large => w = Encode(call)[n]
          /\ n = call.large => w = Opaque
      BY <1>1, <1>2, <1>3, <1>5, <2>1, <2>2, SentWords DEF Readable
    <2>4. WordNumber' = n + 1 /\ parameterOffset' = Position(n + 1)
      BY <1>3, <2>1 DEF WordNumber, Position, PARAMETER_LENGTH, SELECTOR_SIZE
    <2>5. n = call.large => Oversized(call)
      BY <1>5, <2>1, <2>3 DEF Oversized, Readable
    <2>6. Reads(w, n)
      BY <1>2, <1>3, <1>5, <2>1, <2>3, <2>4, <2>5 DEF Reads
    <2>7. Goes(OnTrack' /\ Times') /\ UNCHANGED selectorIndex
      BY <1>3, <2>1, <2>6, WordTaken DEF Presentable
    <2>8. CASE result' = "OK"
      <3>1. selectorIndex' = find_selector(call'.selector)
        BY <1>3, <2>1, <2>7 DEF Presentable
      <3>2. selectorIndex \in {"RENEW_ALL", "MULTICALL"} => count' \in 0 .. 3
        BY <1>3, <2>1, <2>8, CountKept DEF Presentable
      <3>3. Presentable'
        BY <2>7, <2>8, <3>1, <3>2 DEF Presentable, Goes
      <3>4. QED
        BY <1>3, <2>1, <2>4, <2>7, <2>8, <3>3 DEF Goes
    <2>9. CASE result' # "OK"
      BY <1>3, <2>7, <2>9 DEF Goes
    <2>10. QED
      BY <2>8, <2>9
  <1>6. QED
    BY <1>3, <1>4, <1>5 DEF ServedInv

(***************************************************************************)
(* The start and the end of the calldata.                                  *)
(***************************************************************************)

\* A session starts.
LEMMA SignStep ==
  ASSUME ServedInv, NEW c \in Calls, Sign(c)
  PROVE  ServedInv'
  <1>1. /\ call' = c /\ c \in Transactions
        /\ parameterOffset' = SELECTOR_SIZE
        /\ shown' = << >>
        /\ phase' = IF result' = "OK" THEN "parsing" ELSE "refused"
    BY CallsAssumption DEF Sign, InitContract, Continue
  <1>2. result' = "OK" /\ ClearContext(find_selector(c.selector), FirstParam(find_selector(c.selector)))
    BY <1>1, SelectorFound DEF Sign, InitContract, handle_init_contract
  <1>3. /\ selectorIndex' = find_selector(c.selector)
        /\ next_param' = FirstParam(find_selector(c.selector))
        /\ go_to_offset' = FALSE
        /\ statics' = [f \in Statics |-> NoStatic]
        /\ offsets' = [k \in Slots |-> 0]
        /\ len' = [k \in Slots |-> 0]
        /\ count' = 0 /\ id' = 0
    BY <1>2 DEF ClearContext
  <1>4. Shaped'
    BY <1>3 DEF Shaped
  <1>5. ASSUME Readable(c)
        PROVE  /\ WordNumber' = 1 /\ parameterOffset' = Position(1)
               /\ Presentable' /\ OnTrack'
    <2>1. WordNumber' = 1 /\ parameterOffset' = Position(1)
      BY <1>1 DEF WordNumber, Position, PARAMETER_LENGTH, SELECTOR_SIZE
    <2>2. Presentable'
      BY <1>1, <1>3 DEF Presentable, Times, Statics, NoStatic
    <2>3. Supported(c) /\ c.large \in Numbers(c) \cup {0}
      BY <1>5 DEF Readable
    <2>4. c.large = 0 \/ (c.large \in Int /\ 1 <= c.large)
      <3>1. CASE c.large \in Numbers(c)
        <4>1. c.large \in 1 .. Len(Encode(c)) /\ Len(Encode(c)) \in Nat
          BY <1>1, <2>3, <3>1, NumberInCall, CallWords
        <4>2. QED
          BY <4>1
      <3>2. QED
        BY <2>3, <3>1
    <2>5. Ahead(1)'
      BY <1>1, <2>4 DEF Ahead
    <2>6. \A p : next_param' = p => Here(p, 1)' /\ Due(p, 1)'
      BY <1>3, <2>1, <2>5 DEF Here, Due
    <2>7. CASE c.selector \in {"f14fcbc8", "5b0fc9c3", "1896f70a"}
      <3>1. c.selector \notin OneArray /\ c.selector \in NoData
        BY <2>7 DEF OneArray, NoData
      <3>2. \A i \in 1 .. Len(Signature(c.selector)) : Signature(c.selector)[i] = "word"
        <4> DEFINE kinds == Signature(c.selector)
        <4>1. kinds = << "word" >> \/ kinds = << "word", "word" >>
          BY <2>7, Signatures
        <4> HIDE DEF kinds
        <4>2. \A i \in 1 .. Len(kinds) : kinds[i] = "word"
          BY <4>1
        <4>3. QED
          BY <4>2 DEF kinds
      <3>3. c.large = 0
        BY <1>1, <2>3, <3>1, <3>2, NumberWords DEF Sized
      <3>4. /\ \/ selectorIndex' = "COMMIT" /\ next_param' = "COMMITMENT"
               \/ selectorIndex' \in {"SET_OWNER", "SET_RESOLVER"} /\ next_param' = "NODE"
        BY <1>3, <2>7, Handlers DEF FirstParam
      <3>5. QED
        BY <1>1, <2>1, <2>2, <3>3, <3>4
        DEF OnTrack, OnCommit, OnSetOwner, OnSetResolver, Trailing
    <2>8. CASE c.selector \in {"5ef2c7f0", "8b95dd71", "10f13a8c", "304e6ade"}
      <3>1. /\ selectorIndex' \in {"SET_SUBNODE", "SET_ADDR", "SET_TEXT", "SET_CONTENT_HASH"}
            /\ next_param' = "NODE"
        BY <1>3, <2>8, Handlers DEF FirstParam
      <3>2. QED
        BY <2>1, <2>2, <2>6, <3>1
        DEF OnTrack, OnSetSubnode, OnSetAddr, OnSetText, OnSetContentHash
    <2>9. CASE c.selector \in {"85f6d155", "f7a16963", "acf1a841", "c47f0027", "e8d6dbb4",
                               "8bbedf75", "224199c2"}
      <3>1. /\ selectorIndex' \in {"REGISTER", "REGISTER_WITH_CONFIG", "RENEW", "SET_NAME",
                                   "RENEW_ALL", "PROVE_AND_CLAIM", "PROVE_AND_CLAIM_RESOLVER"}
            /\ next_param' = "NAME_OFFSET"
        BY <1>3, <2>9, Handlers DEF FirstParam
      <3>2. QED
        BY <1>3, <2>1, <2>2, <2>6, <3>1
        DEF OnTrack, OnRegister, OnRegisterWithConfig, OnRenew, OnSetName, OnRenewAll,
            OnProveClaim, OnProveClaimResolver
    <2>10. CASE c.selector = "ac9650d8"
      <3>1. selectorIndex' = "MULTICALL" /\ next_param' = "CALL_OFFSET"
        BY <1>3, <2>10, Handlers DEF FirstParam
      <3>2. QED
        BY <1>3, <2>1, <2>2, <2>6, <3>1 DEF OnTrack, OnMulticall
    <2>11. QED
      BY <1>1, <2>1, <2>2, <2>7, <2>8, <2>9, <2>10, SelectorFound
      DEF OneData, TwoData, OneArray, NoData
  <1>6. QED
    BY <1>1, <1>2, <1>4, <1>5 DEF ServedInv

\* A number that is too large is not behind a parser on its track.
LEMMA AheadOfDue ==
  ASSUME call \in Transactions, WordNumber \in Nat, NEW p, NEW m \in Int, Due(p, m)
  PROVE  call.large = 0 \/ WordNumber <= call.large
  BY DEF Transactions, Due, Here, Ahead

LEMMA AheadOfHere ==
  ASSUME NEW p, NEW m, Here(p, m)
  PROVE  call.large = 0 \/ WordNumber <= call.large
  BY DEF Here, Ahead

LEMMA AheadOfField ==
  ASSUME call \in Transactions, WordNumber \in Nat, NEW f, NEW a \in Int, NEW v \in Int,
         InField(f, a, v)
  PROVE  call.large = 0 \/ WordNumber <= call.large
  <1>1. a + 1 \in Int /\ a + v \div PARAMETER_LENGTH \in Int
        /\ a + v \div PARAMETER_LENGTH + 1 \in Int
    BY DEF PARAMETER_LENGTH
  <1>2. QED
    BY <1>1, AheadOfDue DEF InField

\* Where the numbers of two strings or byte arrays are.
LEMMA TwoDataPlaces ==
  ASSUME call \in Transactions, Supported(call), call.selector \in TwoData
  PROVE  NumberWord(2) \in Nat /\ NumberWord(3) \in Nat /\ call.lens[1] \in Nat
  <1>1. Len(Signature(call.selector)) \in {3, 5}
    <2> DEFINE kinds == Signature(call.selector)
    <2>1. \/ kinds = << "data", "tuples", "data" >>
          \/ kinds = << "data", "tuples", "data", "word", "word" >>
          \/ kinds = << "word", "data", "data" >>
      BY Signatures DEF TwoData
    <2> HIDE DEF kinds
    <2>2. Len(kinds) \in {3, 5}
      BY <2>1
    <2>3. QED
      BY <2>2 DEF kinds
  <1>2. 2 \in 1 .. Len(Signature(call.selector)) /\ 3 \in 1 .. Len(Signature(call.selector))
    <2> DEFINE h == Len(Signature(call.selector))
    <2>1. h = 3 \/ h = 5
      BY <1>1
    <2> HIDE DEF h
    <2>2. 2 \in 1 .. h /\ 3 \in 1 .. h
      BY <2>1
    <2>3. QED
      BY <2>2 DEF h
  <1>3. TailWord(call, 2) \in Nat /\ TailWord(call, 3) \in Nat
    BY <1>2, CallWords
  <1>4. call.lens \in Seq(Nat) /\ Len(call.lens) = 2
    <2>1. DataIndex(call, Len(Signature(call.selector))) = 2
      BY DataIndexes
    <2>2. ~\E i \in DOMAIN Signature(call.selector) : Signature(call.selector)[i] = "array"
      BY Signatures DEF TwoData
    <2>3. QED
      BY <2>1, <2>2 DEF Transactions
  <1>5. QED
    BY <1>3, <1>4 DEF NumberWord

LEMMA AheadOnTrack ==
  ASSUME call \in Transactions, Supported(call), WordNumber \in Nat,
         selectorIndex = find_selector(call.selector), OnTrack
  PROVE  call.large = 0 \/ WordNumber <= call.large
  <1> DEFINE Done == call.large = 0 \/ WordNumber <= call.large
  <1> SUFFICES Done
    OBVIOUS
  <1>1. \A p : \A m \in Int : Due(p, m) => Done
    BY AheadOfDue
  <1>2. \A p, m : Here(p, m) => Done
    BY AheadOfHere
  <1>3. \A params : Trailing(params) => Done
    BY DEF Trailing
  <1>4. \A f : \A a, v \in Int : InField(f, a, v) => Done
    BY AheadOfField
  <1> HIDE DEF Done
  <1>5. CASE selectorIndex \in {"COMMIT", "SET_OWNER", "SET_RESOLVER", "SET_SUBNODE"}
    BY <1>2, <1>3, <1>5 DEF OnTrack, OnCommit, OnSetOwner, OnSetResolver, OnSetSubnode
  <1>6. CASE selectorIndex \in {"REGISTER", "REGISTER_WITH_CONFIG", "RENEW", "SET_NAME"}
    BY <1>1, <1>3, <1>6 DEF OnTrack, OnRegister, OnRegisterWithConfig, OnRenew, OnSetName
  <1>7. CASE selectorIndex \in {"SET_ADDR", "SET_CONTENT_HASH"}
    BY <1>1, <1>3, <1>7 DEF OnTrack, OnSetAddr, OnSetContentHash
  <1>8. CASE selectorIndex \in {"SET_TEXT", "PROVE_AND_CLAIM", "PROVE_AND_CLAIM_RESOLVER"}
    <2>1. call.selector \in TwoData
      BY <1>8, Handlers, SelectorFound DEF OneData, TwoData, OneArray, NoData
    <2>2. PICK a, b, v \in Nat : a = NumberWord(2) /\ b = NumberWord(3) /\ v = call.lens[1]
      BY <2>1, TwoDataPlaces
    <2>3. QED
      BY <1>1, <1>3, <1>4, <1>8, <2>2 DEF OnTrack, OnSetText, OnProveClaim, OnProveClaimResolver
  <1>9. CASE selectorIndex \in {"RENEW_ALL", "MULTICALL"}
    <2>1. call.selector \in OneArray
      BY <1>9, Handlers, SelectorFound DEF OneData, TwoData, OneArray, NoData
    <2>2. ASSUME NEW h \in Nat, NEW p, NEW f, InArray(h, p, f) PROVE Done
      <3>1. PICK e \in 1 .. Len(call.lens) : AtElement(h, p, f, e)
        BY <2>2 DEF InArray
      <3>2. CASE Due("OFFSETS", h + 1 + e)
        <4>1. h + 1 + e \in Int
          OBVIOUS
        <4>2. QED
          BY <1>1, <3>2, <4>1
      <3>3. ASSUME NEW g, InElement(e, p, g) PROVE Done
        <4>1. PICK a \in Nat : a = ElementWord(call, e)
          BY <2>1, ArrayWords
        <4>2. PICK v \in Nat : v = call.lens[e]
          BY <2>1, ArrayWords
        <4>3. CASE call.large = 0
          BY <4>3 DEF Done
        <4>4. QED
          BY <1>1, <1>4, <3>3, <4>1, <4>2, <4>3 DEF InElement
      <3>4. QED
        BY <3>1, <3>2, <3>3 DEF AtElement
    <2>3. QED
      BY <1>1, <1>3, <1>9, <2>2 DEF OnTrack, OnRenewAll, OnMulticall
  <1>10. QED
    BY <1>5, <1>6, <1>7, <1>8, <1>9 DEF OnTrack, Done

\* The calldata ends.
LEMMA EndStep ==
  ASSUME ServedInv, EndOfCalldata
  PROVE  ServedInv'
  <1>1. /\ phase = "parsing" /\ call' = call /\ WordNumber \notin DOMAIN Sent(call)
        /\ numScreens' = FinalizeScreens
        /\ phase' = "finalized"
        /\ UNCHANGED <<selectorIndex, statics, offsets, len, count, shown>>
    BY DEF EndOfCalldata, Finalize, Continue, context, fields
  <1>2. Shaped' /\ call' \in Calls
    BY <1>1, ShapeKept DEF ServedInv
  <1>3. ASSUME Readable(call) PROVE ~Oversized(call) /\ Presentable' /\ Finished'
    <2>1. /\ WordNumber \in Nat \ {0} /\ shown = << >> /\ Presentable /\ OnTrack
          /\ call \in Transactions
      BY <1>1, <1>3, CallsAssumption DEF ServedInv, Finished
    <2>2. call.large = 0 \/ WordNumber <= call.large
      BY <1>3, <2>1, AheadOnTrack DEF Readable, Presentable
    <2>3. call.large = 0 \/ call.large \in 1 .. Len(Encode(call))
      BY <1>3, <2>1, NumberInCall DEF Readable
    <2>4. Len(Sent(call)) \in Nat /\ DOMAIN Sent(call) = 1 .. Len(Sent(call))
      BY <1>3, <2>1, <2>3, SentWords DEF Readable
    <2>5. call.large \in Nat
      BY <2>1 DEF Transactions
    <2>6. ~Oversized(call)
      <3>1. CASE call.large = 0
        <4>1. call.large \notin Numbers(call)
          <5>1. ASSUME call.large \in Numbers(call) PROVE FALSE
            <6>1. 0 \in 1 .. Len(Encode(call)) /\ Len(Encode(call)) \in Nat
              BY <1>3, <2>1, <3>1, <5>1, NumberInCall, CallWords DEF Readable
            <6>2. QED
              BY <6>1
          <5>2. QED
            BY <5>1
        <4>2. QED
          BY <4>1 DEF Oversized
      <3>2. CASE WordNumber <= call.large
        <4>1. ~(call.large <= Len(Sent(call)))
          BY <1>1, <2>1, <2>4, <2>5, <3>2
        <4>2. QED
          BY <4>1 DEF Oversized
      <3>3. QED
        BY <2>2, <3>1, <3>2
    <2>7. Presentable'
      BY <1>1, <2>1 DEF Presentable, Times
    <2>8. FinalizeScreens' = FinalizeScreens
      BY <1>1 DEF FinalizeScreens
    <2>9. IsSequence(shown')
      BY <1>1, <2>1 DEF IsSequence
    <2>10. QED
      BY <1>1, <2>1, <2>6, <2>7, <2>8, <2>9 DEF Finished
  <1>4. QED
    BY <1>1, <1>2, <1>3 DEF ServedInv

(***************************************************************************)
(* The review.                                                             *)
(***************************************************************************)

\* The screen has room for its value.
Fits(s) == s.format # "no room"

\* Every value has room on the screen: a time has at most 76 digits.
LEMMA Formats ==
  ASSUME Times
  PROVE  /\ \A k, t : Fits(set_name_ui(k, t))
         /\ \A k, t : Fits(set_bytes_ui(k, t))
         /\ \A f, t : Fits(set_bytes32_ui(f, t))
         /\ \A f, t : Fits(set_addr_ui(f, t))
         /\ \A f, t : Fits(set_bytes32_as_int_ui(f, t))
         /\ \A t : Fits(set_bytes32_as_int_unit_ui("duration", t))
         /\ \A t : Fits(set_bytes32_as_int_unit_ui("ttl", t))
  <1>1. /\ UnitFormat(statics["duration"].digits) # "no room"
        /\ UnitFormat(statics["ttl"].digits) # "no room"
    <2>1. \A d \in 1 .. 76 : UnitFormat(d) # "no room"
      BY DEF UnitFormat, MSG_LENGTH
    <2>2. QED
      BY <2>1 DEF Times
  <1>2. \A t, m, b, d : m # "no room" => Fits(Screen(t, m, b, d))
    BY DEF Screen, Fits
  <1>3. \A k, t : Fits(set_name_ui(k, t))
    BY <1>2 DEF set_name_ui
  <1>4. \A k, t : Fits(set_bytes_ui(k, t))
    BY <1>2 DEF set_bytes_ui
  <1>5. \A f, t : Fits(set_bytes32_ui(f, t))
    BY <1>2 DEF set_bytes32_ui
  <1>6. \A f, t : Fits(set_addr_ui(f, t))
    BY <1>2 DEF set_addr_ui
  <1>7. \A f, t : Fits(set_bytes32_as_int_ui(f, t))
    BY <1>2 DEF set_bytes32_as_int_ui
  <1>8. /\ \A t : Fits(set_bytes32_as_int_unit_ui("duration", t))
        /\ \A t : Fits(set_bytes32_as_int_unit_ui("ttl", t))
    BY <1>1, <1>2 DEF set_bytes32_as_int_unit_ui
  <1>9. QED
    BY <1>3, <1>4, <1>5, <1>6, <1>7, <1>8

\* The screens that were promised are there, when there are that many and
\* each has room.
LEMMA Fitting ==
  /\ \A a : Fits(a) =>
        \A i \in 1 .. 1 : i \in DOMAIN << a >> /\ Fits(<< a >>[i])
  /\ \A a, b : Fits(a) /\ Fits(b) =>
        \A i \in 1 .. 2 : i \in DOMAIN << a, b >> /\ Fits(<< a, b >>[i])
  /\ \A a, b, c : Fits(a) /\ Fits(b) /\ Fits(c) =>
        \A i \in 1 .. 3 : i \in DOMAIN << a, b, c >> /\ Fits(<< a, b, c >>[i])
  /\ \A a, b, c, d : Fits(a) /\ Fits(b) /\ Fits(c) /\ Fits(d) =>
        \A i \in 1 .. 4 : i \in DOMAIN << a, b, c, d >> /\ Fits(<< a, b, c, d >>[i])
  /\ \A a, b, c, d, e : Fits(a) /\ Fits(b) /\ Fits(c) /\ Fits(d) /\ Fits(e) =>
        \A i \in 1 .. 5 : /\ i \in DOMAIN << a, b, c, d, e >>
                           /\ Fits(<< a, b, c, d, e >>[i])
  <1>1. ASSUME NEW a, Fits(a), NEW i \in 1 .. 1
        PROVE  i \in DOMAIN << a >> /\ Fits(<< a >>[i])
    <2>1. i = 1
      OBVIOUS
    <2>2. QED
      BY <1>1, <2>1
  <1>2. ASSUME NEW a, NEW b, Fits(a), Fits(b), NEW i \in 1 .. 2
        PROVE  i \in DOMAIN << a, b >> /\ Fits(<< a, b >>[i])
    <2>1. i = 1 \/ i = 2
      OBVIOUS
    <2>2. CASE i = 1
      BY <1>2, <2>2
    <2>3. CASE i = 2
      BY <1>2, <2>3
    <2>4. QED
      BY <2>1, <2>2, <2>3
  <1>3. ASSUME NEW a, NEW b, NEW c, Fits(a), Fits(b), Fits(c), NEW i \in 1 .. 3
        PROVE  i \in DOMAIN << a, b, c >> /\ Fits(<< a, b, c >>[i])
    <2>1. i = 1 \/ i = 2 \/ i = 3
      OBVIOUS
    <2>2. CASE i = 1
      BY <1>3, <2>2
    <2>3. CASE i = 2
      BY <1>3, <2>3
    <2>4. CASE i = 3
      BY <1>3, <2>4
    <2>5. QED
      BY <2>1, <2>2, <2>3, <2>4
  <1>4. ASSUME NEW a, NEW b, NEW c, NEW d, Fits(a), Fits(b), Fits(c), Fits(d), NEW i \in 1 .. 4
        PROVE  i \in DOMAIN << a, b, c, d >> /\ Fits(<< a, b, c, d >>[i])
    <2>1. i = 1 \/ i = 2 \/ i = 3 \/ i = 4
      OBVIOUS
    <2>2. CASE i = 1
      BY <1>4, <2>2
    <2>3. CASE i = 2
      BY <1>4, <2>3
    <2>4. CASE i = 3
      BY <1>4, <2>4
    <2>5. CASE i = 4
      BY <1>4, <2>5
    <2>6. QED
      BY <2>1, <2>2, <2>3, <2>4, <2>5
  <1>5. ASSUME NEW a, NEW b, NEW c, NEW d, NEW e, Fits(a), Fits(b), Fits(c), Fits(d), Fits(e), NEW i \in 1 .. 5
        PROVE  i \in DOMAIN << a, b, c, d, e >> /\ Fits(<< a, b, c, d, e >>[i])
    <2>1. i = 1 \/ i = 2 \/ i = 3 \/ i = 4 \/ i = 5
      OBVIOUS
    <2>2. CASE i = 1
      BY <1>5, <2>2
    <2>3. CASE i = 2
      BY <1>5, <2>3
    <2>4. CASE i = 3
      BY <1>5, <2>4
    <2>5. CASE i = 4
      BY <1>5, <2>5
    <2>6. CASE i = 5
      BY <1>5, <2>6
    <2>7. QED
      BY <2>1, <2>2, <2>3, <2>4, <2>5, <2>6
  <1>6. QED
    BY <1>1, <1>2, <1>3, <1>4, <1>5

LEMMA ScreensReady ==
  ASSUME selectorIndex \in SelectorIndexes, Times,
         selectorIndex \in {"RENEW_ALL", "MULTICALL"} => count \in 0 .. 3
  PROVE  FinalizeScreens \in Nat /\ \A i \in 1 .. FinalizeScreens : ScreenOk(i)
  <1>1. CASE selectorIndex = "RENEW_ALL"
    <2> DEFINE names    == [i \in 1 .. count |-> set_name_ui(i - 1, "Name")]
               time     == set_bytes32_as_int_unit_ui("duration", "Duration")
               S        == { s \in { names[i] : i \in 1 .. count } \cup {time} : Fits(s) }
    <2>1. count \in 0 .. 3
      BY <1>1
    <2>2. FinalizeScreens = 1 + count
      BY <1>1, <2>1 DEF FinalizeScreens, U8, UINT8_MAX
    <2>3. ScreensOf = names \o << time >>
      BY <1>1 DEF ScreensOf, RenewAllScreens
    <2>4. DOMAIN names = 1 .. count /\ \A i \in 1 .. count : Fits(names[i])
      BY Formats
    <2>5. Fits(time)
      BY Formats
    <2> HIDE DEF time
    <2>6. \A i \in 1 .. count : names[i] \in S
      BY <2>4
    <2>7. time \in S /\ \A s \in S : Fits(s)
      BY <2>5
    <2>8. names = [i \in 1 .. count |-> names[i]]
      OBVIOUS
    <2> HIDE DEF names, S
    <2>9. names \in Seq(S) /\ Len(names) = count
      BY <2>1, <2>6, <2>8
    <2>10. << time >> \in Seq(S) /\ Len(<< time >>) = 1
      BY <2>7
    <2>11. PICK r, q : r = names /\ q = << time >>
      OBVIOUS
    <2>12. r \o q \in Seq(S) /\ Len(r \o q) = count + 1
      BY <2>1, <2>9, <2>10, <2>11
    <2>13. PICK z : z = r \o q
      OBVIOUS
    <2>14. \A i \in 1 .. 1 + count : i \in DOMAIN z /\ z[i] \in S
      BY <2>1, <2>12, <2>13
    <2>15. ScreensOf = z
      BY <2>3, <2>11, <2>13
    <2>16. \A i \in 1 .. 1 + count : ScreenOk(i)
      BY <2>7, <2>14, <2>15 DEF ScreenOk, Fits
    <2>17. 1 + count \in Nat
      BY <2>1
    <2>18. QED
      BY <2>2, <2>16, <2>17, Zenon
  <1>2. CASE selectorIndex = "MULTICALL"
    <2>1. count \in 0 .. 3
      BY <1>2
    <2>2. FinalizeScreens = count
      BY <1>2, <2>1 DEF FinalizeScreens, U8, UINT8_MAX
    <2>3. ScreensOf = [i \in 1 .. count |-> set_bytes_ui(i - 1, "Call")]
      BY <1>2 DEF ScreensOf, MulticallScreens
    <2>4. \A i \in 1 .. count : i \in DOMAIN ScreensOf /\ Fits(ScreensOf[i])
      BY <2>1, <2>3, Formats
    <2>5. \A i \in 1 .. count : ScreenOk(i)
      BY <2>4 DEF ScreenOk, Fits
    <2>6. count \in Nat
      BY <2>1
    <2>7. QED
      BY <2>2, <2>5, <2>6, Zenon
  <1>3. CASE selectorIndex = "COMMIT"
    <2>1. FinalizeScreens = 1
      BY <1>3 DEF FinalizeScreens
    <2>2. PICK a :
            /\ a = set_bytes32_ui("commitment", "Commitment")
      OBVIOUS
    <2>3. ScreensOf = << a >>
      BY <1>3, <2>2 DEF ScreensOf, CommitScreens
    <2>4. Fits(a)
      BY <2>2, Formats
    <2>5. QED
      BY <2>1, <2>3, <2>4, Fitting DEF ScreenOk, Fits
  <1>4. CASE selectorIndex = "REGISTER"
    <2>1. FinalizeScreens = 4
      BY <1>4 DEF FinalizeScreens
    <2>2. PICK a, b, c, d :
            /\ a = set_name_ui(Name, "Name")
            /\ b = set_addr_ui("owner", "Owner")
            /\ c = set_bytes32_as_int_unit_ui("duration", "Duration")
            /\ d = set_bytes32_ui("secret", "Secret")
      OBVIOUS
    <2>3. ScreensOf = << a, b, c, d >>
      BY <1>4, <2>2 DEF ScreensOf, RegisterScreens
    <2>4. Fits(a) /\ Fits(b) /\ Fits(c) /\ Fits(d)
      BY <2>2, Formats
    <2>5. QED
      BY <2>1, <2>3, <2>4, Fitting DEF ScreenOk, Fits
  <1>5. CASE selectorIndex = "REGISTER_WITH_CONFIG"
    <2>1. FinalizeScreens = 5
      BY <1>5 DEF FinalizeScreens
    <2>2. PICK a, b, c, d, e :
            /\ a = set_name_ui(Name, "Name")
            /\ b = set_addr_ui("owner", "Owner")
            /\ c = set_bytes32_ui("secret", "Secret")
            /\ d = set_addr_ui("resolver", "Resolver")
            /\ e = set_addr_ui("addr", "Addr")
      OBVIOUS
    <2>3. ScreensOf = << a, b, c, d, e >>
      BY <1>5, <2>2 DEF ScreensOf, RegisterWithConfigScreens
    <2>4. Fits(a) /\ Fits(b) /\ Fits(c) /\ Fits(d) /\ Fits(e)
      BY <2>2, Formats
    <2>5. QED
      BY <2>1, <2>3, <2>4, Fitting DEF ScreenOk, Fits
  <1>6. CASE selectorIndex = "RENEW"
    <2>1. FinalizeScreens = 2
      BY <1>6 DEF FinalizeScreens
    <2>2. PICK a, b :
            /\ a = set_name_ui(Name, "Name")
            /\ b = set_bytes32_as_int_unit_ui("duration", "Duration")
      OBVIOUS
    <2>3. ScreensOf = << a, b >>
      BY <1>6, <2>2 DEF ScreensOf, RenewScreens
    <2>4. Fits(a) /\ Fits(b)
      BY <2>2, Formats
    <2>5. QED
      BY <2>1, <2>3, <2>4, Fitting DEF ScreenOk, Fits
  <1>7. CASE selectorIndex = "SET_NAME"
    <2>1. FinalizeScreens = 1
      BY <1>7 DEF FinalizeScreens
    <2>2. PICK a :
            /\ a = set_name_ui(Name, "Name")
      OBVIOUS
    <2>3. ScreensOf = << a >>
      BY <1>7, <2>2 DEF ScreensOf, SetNameScreens
    <2>4. Fits(a)
      BY <2>2, Formats
    <2>5. QED
      BY <2>1, <2>3, <2>4, Fitting DEF ScreenOk, Fits
  <1>8. CASE selectorIndex = "PROVE_AND_CLAIM"
    <2>1. FinalizeScreens = 3
      BY <1>8 DEF FinalizeScreens
    <2>2. PICK a, b, c :
            /\ a = set_bytes_ui(Name, "Name")
            /\ b = set_bytes32_as_int_ui("n_inputs", "Total Inputs")
            /\ c = set_bytes_ui(Proof, "Proof")
      OBVIOUS
    <2>3. ScreensOf = << a, b, c >>
      BY <1>8, <2>2 DEF ScreensOf, ClaimScreens
    <2>4. Fits(a) /\ Fits(b) /\ Fits(c)
      BY <2>2, Formats
    <2>5. QED
      BY <2>1, <2>3, <2>4, Fitting DEF ScreenOk, Fits
  <1>9. CASE selectorIndex = "PROVE_AND_CLAIM_RESOLVER"
    <2>1. FinalizeScreens = 5
      BY <1>9 DEF FinalizeScreens
    <2>2. PICK a, b, c, d, e :
            /\ a = set_bytes_ui(Name, "Name")
            /\ b = set_bytes32_as_int_ui("n_inputs", "Total Inputs")
            /\ c = set_bytes_ui(Proof, "Proof")
            /\ d = set_addr_ui("resolver", "Resolver")
            /\ e = set_addr_ui("addr", "Addr")
      OBVIOUS
    <2>3. ScreensOf = << a, b, c, d, e >>
      BY <1>9, <2>2 DEF ScreensOf, ClaimResolverScreens
    <2>4. Fits(a) /\ Fits(b) /\ Fits(c) /\ Fits(d) /\ Fits(e)
      BY <2>2, Formats
    <2>5. QED
      BY <2>1, <2>3, <2>4, Fitting DEF ScreenOk, Fits
  <1>10. CASE selectorIndex = "SET_OWNER"
    <2>1. FinalizeScreens = 2
      BY <1>10 DEF FinalizeScreens
    <2>2. PICK a, b :
            /\ a = set_bytes32_ui("node", "Node")
            /\ b = set_addr_ui("owner", "Owner")
      OBVIOUS
    <2>3. ScreensOf = << a, b >>
      BY <1>10, <2>2 DEF ScreensOf, SetOwnerScreens
    <2>4. Fits(a) /\ Fits(b)
      BY <2>2, Formats
    <2>5. QED
      BY <2>1, <2>3, <2>4, Fitting DEF ScreenOk, Fits
  <1>11. CASE selectorIndex = "SET_RESOLVER"
    <2>1. FinalizeScreens = 2
      BY <1>11 DEF FinalizeScreens
    <2>2. PICK a, b :
            /\ a = set_bytes32_ui("node", "Node")
            /\ b = set_addr_ui("resolver", "Resolver")
      OBVIOUS
    <2>3. ScreensOf = << a, b >>
      BY <1>11, <2>2 DEF ScreensOf, SetResolverScreens
    <2>4. Fits(a) /\ Fits(b)
      BY <2>2, Formats
    <2>5. QED
      BY <2>1, <2>3, <2>4, Fitting DEF ScreenOk, Fits
  <1>12. CASE selectorIndex = "SET_SUBNODE"
    <2>1. FinalizeScreens = 5
      BY <1>12 DEF FinalizeScreens
    <2>2. PICK a, b, c, d, e :
            /\ a = set_bytes32_ui("node", "Node")
            /\ b = set_bytes32_ui("label", "Label")
            /\ c = set_addr_ui("owner", "Owner")
            /\ d = set_addr_ui("resolver", "Resolver")
            /\ e = set_bytes32_as_int_unit_ui("ttl", "TTL")
      OBVIOUS
    <2>3. ScreensOf = << a, b, c, d, e >>
      BY <1>12, <2>2 DEF ScreensOf, SetSubnodeScreens
    <2>4. Fits(a) /\ Fits(b) /\ Fits(c) /\ Fits(d) /\ Fits(e)
      BY <2>2, Formats
    <2>5. QED
      BY <2>1, <2>3, <2>4, Fitting DEF ScreenOk, Fits
  <1>13. CASE selectorIndex = "SET_ADDR"
    <2>1. FinalizeScreens = 3
      BY <1>13 DEF FinalizeScreens
    <2>2. PICK a, b, c :
            /\ a = set_bytes32_ui("node", "Node")
            /\ b = set_bytes32_as_int_ui("coinType", "Coin Type")
            /\ c = set_bytes_ui(Hash, "a")
      OBVIOUS
    <2>3. ScreensOf = << a, b, c >>
      BY <1>13, <2>2 DEF ScreensOf, SetAddrScreens
    <2>4. Fits(a) /\ Fits(b) /\ Fits(c)
      BY <2>2, Formats
    <2>5. QED
      BY <2>1, <2>3, <2>4, Fitting DEF ScreenOk, Fits
  <1>14. CASE selectorIndex = "SET_CONTENT_HASH"
    <2>1. FinalizeScreens = 2
      BY <1>14 DEF FinalizeScreens
    <2>2. PICK a, b :
            /\ a = set_bytes32_ui("node", "Node")
            /\ b = set_bytes_ui(Hash, "Hash")
      OBVIOUS
    <2>3. ScreensOf = << a, b >>
      BY <1>14, <2>2 DEF ScreensOf, SetContentHashScreens
    <2>4. Fits(a) /\ Fits(b)
      BY <2>2, Formats
    <2>5. QED
      BY <2>1, <2>3, <2>4, Fitting DEF ScreenOk, Fits
  <1>15. CASE selectorIndex = "SET_TEXT"
    <2>1. FinalizeScreens = 3
      BY <1>15 DEF FinalizeScreens
    <2>2. PICK a, b, c :
            /\ a = set_bytes32_ui("node", "Node")
            /\ b = set_name_ui(Key, "Key")
            /\ c = set_name_ui(Value, "Value")
      OBVIOUS
    <2>3. ScreensOf = << a, b, c >>
      BY <1>15, <2>2 DEF ScreensOf, SetTextScreens
    <2>4. Fits(a) /\ Fits(b) /\ Fits(c)
      BY <2>2, Formats
    <2>5. QED
      BY <2>1, <2>3, <2>4, Fitting DEF ScreenOk, Fits
  <1>16. QED
    BY <1>1, <1>2, <1>3, <1>4, <1>5, <1>6, <1>7, <1>8, <1>9, <1>10, <1>11, <1>12, <1>13, <1>14, <1>15 DEF SelectorIndexes, selector_t

\* A screen more.
LEMMA OneMore ==
  ASSUME NEW s, IsSequence(s), NEW x
  PROVE  Len(s) \in Nat /\ Len(Append(s, x)) = Len(s) + 1 /\ IsSequence(Append(s, x))
  <1> DEFINE T == { s[i] : i \in DOMAIN s } \cup {x}
             t == Append(s, x)
  <1>1. s \in Seq(T) /\ x \in T
    BY DEF IsSequence
  <1> HIDE DEF T
  <1>2. t \in Seq(T) /\ Len(t) = Len(s) + 1 /\ Len(s) \in Nat
    BY <1>1
  <1> HIDE DEF t
  <1>3. t \in Seq({ t[i] : i \in DOMAIN t })
    BY <1>2
  <1>4. QED
    BY <1>2, <1>3 DEF IsSequence, t

\* The host goes on with the review.
LEMMA ReviewStep ==
  ASSUME ServedInv, Review
  PROVE  ServedInv'
  <1>1. /\ call' = call /\ phase \in {"finalized", "resolved", "review"}
        /\ UNCHANGED <<context, numScreens>>
    BY DEF Review, ProvideToken, QueryContractId, QueryContractUi
  <1>2. Shaped' /\ call' \in Calls
    BY <1>1, ShapeKept DEF ServedInv, context, fields
  <1>3. ASSUME Readable(call) PROVE ~Oversized(call) /\ Presentable' /\ Finished'
    <2>1. ~Oversized(call) /\ Presentable /\ Finished /\ call \in Transactions
      BY <1>1, <1>3, CallsAssumption DEF ServedInv
    <2>2. /\ selectorIndex' = selectorIndex /\ statics' = statics /\ count' = count
          /\ FinalizeScreens' = FinalizeScreens
      BY <1>1 DEF context, fields, FinalizeScreens
    <2>3. Presentable'
      BY <1>1, <2>1, <2>2 DEF Presentable, Times
    <2>4. selectorIndex \in SelectorIndexes
      BY <2>1, Handlers, SelectorFound
      DEF Presentable, OneData, TwoData, OneArray, NoData, SelectorIndexes, selector_t
    <2>5. FinalizeScreens \in Nat /\ \A i \in 1 .. FinalizeScreens : ScreenOk(i)
      BY <2>1, <2>4, ScreensReady DEF Presentable
    <2>6. numScreens' = FinalizeScreens' /\ numScreens = FinalizeScreens
      BY <1>1, <2>1, <2>2 DEF Finished
    <2>7. CASE ProvideToken
      <3>1. /\ phase' = "resolved" /\ shown' = shown /\ shown = << >>
            /\ IsSequence(shown)
        BY <2>1, <2>7 DEF ProvideToken, Continue, Finished
      <3>2. IsSequence(shown')
        BY <3>1
      <3>3. QED
        BY <2>1, <2>3, <2>6, <3>1, <3>2 DEF Finished
    <2>8. CASE QueryContractId
      <3>1. /\ phase' = IF numScreens = 0 THEN "reviewed" ELSE "review"
            /\ shown' = << >> /\ shown = << >> /\ IsSequence(shown)
        BY <2>1, <2>8 DEF QueryContractId, Continue, Finished
      <3>2. phase' = "review" => Len(shown') < numScreens'
        <4>1. PICK n \in Nat : n = FinalizeScreens
          BY <2>5
        <4>2. numScreens = n /\ numScreens' = n
          BY <1>1, <2>6, <4>1
        <4>3. Len(shown') = 0
          BY <3>1
        <4>4. phase' = "review" => n # 0
          BY <3>1, <4>2
        <4>5. n # 0 => 0 < n
          OBVIOUS
        <4>6. QED
          BY <4>2, <4>3, <4>4, <4>5
      <3>3. IsSequence(shown')
        BY <3>1 DEF IsSequence
      <3>4. QED
        BY <2>1, <2>3, <2>6, <3>1, <3>2, <3>3 DEF Finished
    <2>9. CASE QueryContractUi
      <3> DEFINE i == Len(shown) + 1
      <3>1. phase = "review" /\ IsSequence(shown) /\ Len(shown) < numScreens
        BY <2>1, <2>9 DEF QueryContractUi, Finished
      <3>2. Len(shown) \in Nat
        BY <3>1, OneMore
      <3>3. i \in 1 .. FinalizeScreens
        BY <2>5, <2>6, <3>1, <3>2
      <3>4. ScreenOk(i)
        BY <2>5, <3>3
      <3>5. /\ shown' = Append(shown, ScreensOf[i])
            /\ phase' = IF i = numScreens THEN "reviewed" ELSE "review"
        BY <2>9, <3>4 DEF QueryContractUi, Continue
      <3>6. Len(shown') = i /\ IsSequence(shown')
        BY <3>1, <3>5, OneMore
      <3>7. phase' = "review" => Len(shown') < numScreens'
        <4>1. PICK n \in Nat : n = FinalizeScreens
          BY <2>5
        <4>2. numScreens = n /\ numScreens' = n
          BY <1>1, <2>6, <4>1
        <4>3. PICK k \in Nat : k = i
          BY <3>2
        <4>4. k \in 1 .. n /\ Len(shown') = k
          BY <3>3, <3>6, <4>1, <4>3
        <4>5. phase' = "review" => k # n
          BY <3>5, <4>2, <4>3
        <4>6. k # n => k < n
          BY <4>4
        <4>7. QED
          BY <4>2, <4>4, <4>5, <4>6
      <3>8. QED
        BY <2>1, <2>3, <2>6, <3>5, <3>6, <3>7 DEF Finished
    <2>10. QED
      BY <2>1, <2>3, <2>7, <2>8, <2>9 DEF Review
  <1>4. QED
    BY <1>1, <1>2, <1>3 DEF ServedInv

(***************************************************************************)
(* The specification.                                                      *)
(***************************************************************************)

\* Nothing happens.
LEMMA StutterStep ==
  ASSUME ServedInv, UNCHANGED signing
  PROVE  ServedInv'
  <1>1. /\ call' = call /\ phase' = phase /\ shown' = shown /\ numScreens' = numScreens
        /\ parameterOffset' = parameterOffset
        /\ next_param' = next_param /\ offset' = offset /\ go_to_offset' = go_to_offset
        /\ selectorIndex' = selectorIndex
        /\ statics' = statics /\ offsets' = offsets /\ len' = len /\ count' = count /\ id' = id
        /\ offsets_start' = offsets_start
        /\ name_offset' = name_offset /\ input_offset' = input_offset
    BY DEF signing, vars, host, context, cursor, fields, globals
  <1>2. Shaped' /\ call' \in Calls
    BY <1>1, ShapeKept DEF ServedInv
  <1>3. WordNumber' = WordNumber
    BY <1>1 DEF WordNumber
  <1>4. Presentable' = Presentable /\ Finished' = Finished
    BY <1>1 DEF Presentable, Times, Finished, FinalizeScreens, IsSequence
  <1>5. /\ \A n : Ahead(n)' = Ahead(n)
        /\ \A p, n : Here(p, n)' = Here(p, n) /\ Due(p, n)' = Due(p, n)
        /\ \A params : Trailing(params)' = Trailing(params)
        /\ \A k, i : Saved(k, i)' = Saved(k, i)
        /\ \A i : NumberWord(i)' = NumberWord(i)
        /\ \A f, a, n : InField(f, a, n)' = InField(f, a, n)
    BY <1>1, <1>3 DEF Ahead, Here, Due, Trailing, Saved, NumberWord, InField
  <1>6. /\ OnCommit' = OnCommit /\ OnSetOwner' = OnSetOwner
        /\ OnSetResolver' = OnSetResolver
    BY <1>5 DEF OnCommit, OnSetOwner, OnSetResolver
  <1>7. OnSetSubnode' = OnSetSubnode
    BY <1>5 DEF OnSetSubnode
  <1>8. /\ OnRegister' = OnRegister /\ OnRegisterWithConfig' = OnRegisterWithConfig
        /\ OnRenew' = OnRenew /\ OnSetName' = OnSetName
    BY <1>5 DEF OnRegister, OnRegisterWithConfig, OnRenew, OnSetName
  <1>9. OnSetAddr' = OnSetAddr /\ OnSetContentHash' = OnSetContentHash
    <2>1. NumberWord(2)' = NumberWord(2) /\ NumberWord(3)' = NumberWord(3)
      BY <1>5
    <2>2. QED
      BY <1>5, <2>1 DEF OnSetAddr, OnSetContentHash
  <1>10. OnSetText' = OnSetText
    BY <1>1, <1>5 DEF OnSetText
  <1>11. OnProveClaim' = OnProveClaim
    BY <1>1, <1>5 DEF OnProveClaim
  <1>12. OnProveClaimResolver' = OnProveClaimResolver
    <2>1. KeptName' = KeptName /\ KeptInput' = KeptInput
      BY <1>1 DEF KeptName, KeptInput
    <2>2. QED
      BY <1>1, <1>5, <2>1 DEF OnProveClaimResolver
  <1>13. \A h, p, f : InArray(h, p, f)' = InArray(h, p, f)
    <2>1. \A k : ElementsSaved(k)' = ElementsSaved(k)
      BY <1>1 DEF ElementsSaved
    <2>2. \A h : ArrayStart(h)' = ArrayStart(h)
      BY <1>1 DEF ArrayStart
    <2>3. \A e, p, f : InElement(e, p, f)' = InElement(e, p, f)
      BY <1>1, <1>5 DEF InElement
    <2>4. ElementsSaved(Len(call.lens))' = ElementsSaved(Len(call.lens))
      BY <1>1, <2>1 DEF ElementsSaved
    <2>5. \A h, p, f, e : AtElement(h, p, f, e)' = AtElement(h, p, f, e)
      BY <1>1, <1>5, <2>1, <2>2, <2>3, <2>4 DEF AtElement
    <2>6. QED
      BY <1>1, <2>5 DEF InArray
  <1>14. OnRenewAll' = OnRenewAll /\ OnMulticall' = OnMulticall
    <2>1. ArraySaved' = ArraySaved
      BY <1>1 DEF ArraySaved
    <2>2. QED
      BY <1>1, <1>5, <1>13, <2>1 DEF OnRenewAll, OnMulticall
  <1>15. OnTrack' = OnTrack
    BY <1>1, <1>6, <1>7, <1>8, <1>9, <1>10, <1>11, <1>12, <1>14 DEF OnTrack
  <1>16. QED
    BY <1>1, <1>2, <1>3, <1>4, <1>15 DEF ServedInv

\* Every step keeps a supported transaction on its track.
LEMMA NextServed == ServedInv /\ [Next]_signing => ServedInv'
  <1> SUFFICES ASSUME ServedInv, [Next]_signing PROVE ServedInv'
    OBVIOUS
  <1>1. ASSUME NEW c \in Calls, Sign(c) PROVE ServedInv'
    BY <1>1, SignStep
  <1>2. CASE SendWord
    BY <1>2, SendWordStep
  <1>3. CASE EndOfCalldata
    BY <1>3, EndStep
  <1>4. CASE Review
    BY <1>4, ReviewStep
  <1>5. CASE UNCHANGED signing
    BY <1>5, StutterStep
  <1>6. QED
    BY <1>1, <1>2, <1>3, <1>4, <1>5 DEF Next, Step

\* A session starts on track.
LEMMA InitServed == Init => ServedInv
  BY DEF Init, HostInit, ServedInv, Shaped

\* A supported transaction, with every word that arrives, is never refused:
\* every position check of handle_provide_parameter finds the parser where the
\* encoding has put the field, every number is one it reads, and every value
\* has room on the screen.
THEOREM SupportedIsAccepted == Spec => []SupportedAccepted
  <1>1. ServedInv => SupportedAccepted
    <2> SUFFICES ASSUME ServedInv, IsSupported(call), phase = "refused" PROVE FALSE
      BY DEF SupportedAccepted
    <2>1. Readable(call) /\ call \in Transactions /\ call.large = 0
      BY CallsAssumption DEF ServedInv, IsSupported, Readable
    <2>2. Oversized(call)
      BY <2>1 DEF ServedInv, Finished
    <2>3. 0 \in Numbers(call)
      BY <2>1, <2>2 DEF Oversized
    <2>4. 0 \in 1 .. Len(Encode(call)) /\ Len(Encode(call)) \in Nat
      BY <2>1, <2>3, NumberInCall, CallWords DEF Readable
    <2>5. QED
      BY <2>4
  <1>2. QED
    BY <1>1, InitServed, NextServed, PTL DEF Spec

\* A transaction that is supported but for an offset, a length or a number of
\* elements that U2BE_from_parameter refuses is refused before a screen is
\* shown, wherever in it that number is.
THEOREM OversizedIsRefused == Spec => []OversizedRefused
  <1>1. ServedInv => OversizedRefused
    <2> SUFFICES ASSUME ServedInv, Supported(call), Oversized(call)
                 PROVE  phase \in {"idle", "parsing", "refused"}
      BY DEF OversizedRefused
    <2>1. Readable(call)
      BY DEF Readable, Oversized
    <2>2. QED
      BY <2>1 DEF ServedInv
  <1>2. QED
    BY <1>1, InitServed, NextServed, PTL DEF Spec
=============================================================================
