--------------------------- MODULE EnsStreamProofs ---------------------------
(***************************************************************************)
(* Proofs about EnsStream, for any set of words, any set of selectors and  *)
(* any number of words: under a host that may send anything, every         *)
(* variable keeps its C type, no handler is left with a parameter it has   *)
(* no case for, no array of names or calls is indexed past its end, the    *)
(* global bytes_missing is that of the field being read, and the screens   *)
(* that are promised are there.                                            *)
(*                                                                         *)
(* The argument follows the code.  ParserOK is what a handler may assume   *)
(* of the context and StepOK what it must establish: a lemma for each      *)
(* thing a switch case can do says that it establishes StepOK, one for     *)
(* each handler that its cases only name parameters of its own switch, one *)
(* for each entry point that it keeps the inductive invariant IInv.  The   *)
(* handlers with arrays must keep ElementOK as well.                       *)
(***************************************************************************)
EXTENDS EnsStream, TLAPS

\* The plugin results a call can leave in msg->result.
Results == {"OK", "ERROR", "UNAVAILABLE"}

\* context->offset and context->go_to_offset.
CursorOK ==
    /\ offset \in UInt16
    /\ go_to_offset \in BOOLEAN

\* The union of transaction fields, and bytes_missing.
FieldsOK ==
    /\ statics \in [Statics -> StaticValue]
    /\ offsets \in [Slots -> UInt16]
    /\ len \in [Slots -> UInt16]
    /\ text \in [Slots -> [0 .. PARAMETER_LENGTH - 1 -> Int]]
    /\ ellipsis \in [Slots -> BOOLEAN]
    /\ count \in UInt16
    /\ id \in UInt8
    /\ offsets_start \in UInt16
    /\ bytes_missing \in 0 .. PARAMETER_LENGTH - 1

\* What a handler may assume of the context it is called with.
ParserOK ==
    /\ selectorIndex \in SelectorIndexes
    /\ Expected
    /\ CursorOK
    /\ FieldsOK
    /\ parameterOffset \in Nat

\* What a switch case must establish: a well-formed context, and a next
\* parameter the same handler has a case for.
StepOK ==
    /\ CursorOK'
    /\ FieldsOK'
    /\ result' \in Results
    /\ next_param' \in ParamsOf(selectorIndex)

(***************************************************************************)
(* Numbers and copies.                                                     *)
(***************************************************************************)
\* A uint16_t is a number from 0 to UINT16_MAX, and a sum of two is an int.
LEMMA UInt16Type ==
  ASSUME NEW x \in UInt16, NEW y \in UInt16
  PROVE  x \in Int /\ 0 <= x /\ x <= UINT16_MAX /\ x + y \in Int
  BY DEF UInt16

\* A uint8_t is a number from 0 to UINT8_MAX.
LEMMA UInt8Type == ASSUME NEW x \in UInt8 PROVE x \in Int /\ 0 <= x /\ x <= UINT8_MAX
  BY DEF UInt8

\* The greatest uint16_t and uint8_t are numbers.
LEMMA BoundsType == UINT16_MAX \in Nat /\ UINT8_MAX \in Nat
  BY DEF UINT16_MAX, UINT8_MAX

\* What memset leaves in an integer field is of its type.
LEMMA ZeroType == 0 \in UInt16 /\ 0 \in UInt8
  BY BoundsType DEF UInt16, UInt8

\* A uint8_t counter that stays below 4 does not wrap around.
LEMMA SmallType == ASSUME NEW x \in 0 .. 3 PROVE x \in UInt8 /\ U8(x) = x
  <1>1. x \in Int /\ 0 <= x /\ x <= 3 /\ x <= UINT8_MAX
    BY DEF UINT8_MAX
  <1>2. x \in UInt8
    BY <1>1, BoundsType DEF UInt8
  <1>3. QED
    BY <1>1, <1>2 DEF U8, UINT8_MAX

\* Assigning any int to a uint16_t gives a uint16_t.
LEMMA U16Type == ASSUME NEW x \in Int PROVE U16(x) \in UInt16
  <1>1. U16(x) \in Int /\ 0 <= U16(x) /\ U16(x) <= UINT16_MAX
    BY DEF U16, UINT16_MAX
  <1>2. QED
    BY <1>1, BoundsType DEF UInt16

\* Assigning any int to a uint8_t gives a uint8_t.
LEMMA U8Type == ASSUME NEW x \in Int PROVE U8(x) \in UInt8
  <1>1. U8(x) \in Int /\ 0 <= U8(x) /\ U8(x) <= UINT8_MAX
    BY DEF U8, UINT8_MAX
  <1>2. QED
    BY <1>1, BoundsType DEF UInt8

\* copy_text and copy_parameter leave a buffer of 32 bytes one of 32 bytes,
\* whatever the lengths they are called with.
LEMMA CopyTextType ==
  ASSUME NEW buffer \in [0 .. PARAMETER_LENGTH - 1 -> Int],
         NEW dst \in Int, NEW dst_len, NEW max_len, NEW src \in Int
  PROVE  copy_text(buffer, dst, dst_len, max_len, src)
            \in [0 .. PARAMETER_LENGTH - 1 -> Int]
  BY DEF copy_text, PARAMETER_LENGTH

\* The number of bytes in a field's last word is less than 32.
LEMMA MissingBytesType ==
  ASSUME NEW length \in UInt16
  PROVE  /\ MissingBytes(length) \in 0 .. PARAMETER_LENGTH - 1
         /\ length \div PARAMETER_LENGTH \in Int
  BY UInt16Type DEF MissingBytes, PARAMETER_LENGTH

(***************************************************************************)
(* The templates.                                                          *)
(***************************************************************************)
\* Setting offset and go_to_offset truncates the offset to a uint16_t.
LEMMA SeekMoves ==
  ASSUME NEW o \in Int, NEW p, Seek(o, p)
  PROVE  CursorOK' /\ next_param' = p
  BY U16Type DEF Seek, CursorOK

\* Setting next_param alone leaves the cursor well-formed.
LEMMA AdvanceMoves ==
  ASSUME CursorOK, NEW p, Advance(p)
  PROVE  CursorOK' /\ next_param' = p
  BY DEF Advance, CursorOK

\* Refusing a word leaves a context its handler can be called with.
LEMMA RefuseOK ==
  ASSUME ParserOK, Refuse
  PROVE  StepOK
  BY DEF ParserOK, Expected, Refuse, StepOK, CursorOK, FieldsOK, fields, Results

\* Passing over a word before the sought one changes nothing.
LEMMA SkipToOffsetOK ==
  ASSUME ParserOK, SkipToOffset
  PROVE  StepOK
  BY DEF ParserOK, Expected, SkipToOffset, StepOK, CursorOK, FieldsOK, fields, cursor, Results

\* A word after the last one wanted (case NONE) changes nothing but
\* go_to_offset.
LEMMA IgnoreWordOK ==
  ASSUME ParserOK, IgnoreWord
  PROVE  StepOK
  BY DEF ParserOK, Expected, IgnoreWord, StepOK, CursorOK, FieldsOK, fields, Results

\* Copying a word to a fixed-size field leaves every field of its type.
LEMMA CopyWordOK ==
  ASSUME ParserOK, NEW w \in Word, NEW f \in Statics, NEW first \in Nat,
         CopyWord(w, f, first)
  PROVE  FieldsOK' /\ result' \in Results
  <1>1. [at |-> parameterOffset + first, digits |-> w.digits, alias |-> w.alias] \in StaticValue
    BY DEF ParserOK, StaticValue, Word
  <1>2. statics' \in [Statics -> StaticValue]
    BY <1>1 DEF CopyWord, ParserOK, FieldsOK
  <1>3. QED
    BY <1>2 DEF CopyWord, ParserOK, FieldsOK, Results

\* A case that copies a word and goes on to a case of the same switch.
LEMMA CopyParameterOK ==
  ASSUME ParserOK, NEW w \in Word, NEW f \in Statics, NEW p \in ParamsOf(selectorIndex),
         CopyParameter(w, f, p)
  PROVE  StepOK
  BY CopyWordOK, AdvanceMoves DEF CopyParameter, ParserOK, StepOK

\* A case that copies an address and goes on to a case of the same switch.
LEMMA CopyAddressOK ==
  ASSUME ParserOK, NEW w \in Word, NEW f \in Statics, NEW p \in ParamsOf(selectorIndex),
         CopyAddress(w, f, p)
  PROVE  StepOK
  BY CopyWordOK, AdvanceMoves DEF CopyAddress, ParserOK, StepOK

\* A case that saves an ABI offset, or refuses one of more than 16 bits.
LEMMA SaveOffsetOK ==
  ASSUME ParserOK, NEW w \in Word, NEW k \in Slots, NEW p \in ParamsOf(selectorIndex),
         SaveOffset(w, k, p)
  PROVE  StepOK
  <1>1. CASE Refuse
    BY <1>1, RefuseOK
  <1>2. CASE ~Refuse
    <2>1. Advance(p) /\ result' = "OK" /\ offsets' = [offsets EXCEPT ![k] = w.low]
      BY <1>2 DEF SaveOffset
    <2>2. offsets' \in [Slots -> UInt16]
      BY <2>1 DEF Word, ParserOK, FieldsOK
    <2>3. FieldsOK'
      BY <1>2, <2>2 DEF SaveOffset, ParserOK, FieldsOK
    <2>4. QED
      BY <2>1, <2>3, AdvanceMoves DEF StepOK, ParserOK, Results
  <1>3. QED
    BY <1>1, <1>2

\* A case of prove_claim that saves an ABI offset, and goes on even when it
\* refuses it.
LEMMA SaveOffsetAnywayOK ==
  ASSUME ParserOK, NEW w \in Word, NEW k \in Slots, NEW p \in ParamsOf(selectorIndex),
         SaveOffsetAnyway(w, k, p)
  PROVE  StepOK
  <1>1. offsets' \in [Slots -> UInt16]
    BY DEF SaveOffsetAnyway, Word, ParserOK, FieldsOK
  <1>2. FieldsOK'
    BY <1>1 DEF SaveOffsetAnyway, ParserOK, FieldsOK
  <1>3. QED
    BY <1>2, AdvanceMoves DEF SaveOffsetAnyway, StepOK, ParserOK, Results

\* A case that reads the length of a dynamic field, or refuses it.
LEMMA ReadLengthOK ==
  ASSUME ParserOK, NEW w \in Word, NEW k, NEW p \in ParamsOf(selectorIndex),
         ReadLength(w, k, p)
  PROVE  StepOK
  <1>1. CASE Refuse
    BY <1>1, RefuseOK
  <1>2. CASE ~Refuse
    <2>1. Advance(p) /\ result' = "OK" /\ len' = [len EXCEPT ![k] = w.low]
      BY <1>2 DEF ReadLength
    <2>2. len' \in [Slots -> UInt16]
      BY <2>1 DEF Word, ParserOK, FieldsOK
    <2>3. FieldsOK'
      BY <1>2, <2>2 DEF ReadLength, ParserOK, FieldsOK
    <2>4. QED
      BY <2>1, <2>3, AdvanceMoves DEF StepOK, ParserOK, Results
  <1>3. QED
    BY <1>1, <1>2

\* The same, where the word must be the one a saved offset points to.
LEMMA ReadLengthAtOK ==
  ASSUME ParserOK, NEW w \in Word, NEW o, NEW k, NEW p \in ParamsOf(selectorIndex),
         ReadLengthAt(o, w, k, p)
  PROVE  StepOK
  BY RefuseOK, ReadLengthOK DEF ReadLengthAt

(***************************************************************************)
(* Dynamic fields.                                                         *)
(***************************************************************************)
\* The three copies a long field is put together from leave its buffer 32
\* bytes.
LEMMA PartsType ==
  ASSUME ParserOK, NEW f, NEW missing \in Int,
         NEW buffer \in [0 .. PARAMETER_LENGTH - 1 -> Int]
  PROVE  /\ FirstHalf(f, buffer) \in [0 .. PARAMETER_LENGTH - 1 -> Int]
         /\ SecondLastPart(f, missing, buffer) \in [0 .. PARAMETER_LENGTH - 1 -> Int]
         /\ LastPart(f, missing, buffer) \in [0 .. PARAMETER_LENGTH - 1 -> Int]
  <1> /\ parameterOffset \in Int
      /\ HALF_PARAMETER_LENGTH \in Int
      /\ PARAMETER_LENGTH - missing \in Int
      /\ parameterOffset + HALF_PARAMETER_LENGTH + missing \in Int
      /\ parameterOffset + (missing - HALF_PARAMETER_LENGTH) \in Int
    BY DEF ParserOK, HALF_PARAMETER_LENGTH, PARAMETER_LENGTH
  <1>1. FirstHalf(f, buffer) \in [0 .. PARAMETER_LENGTH - 1 -> Int]
    BY CopyTextType DEF FirstHalf
  <1>2. SecondLastPart(f, missing, buffer) \in [0 .. PARAMETER_LENGTH - 1 -> Int]
    BY CopyTextType DEF SecondLastPart
  <1>3. LastPart(f, missing, buffer) \in [0 .. PARAMETER_LENGTH - 1 -> Int]
    BY CopyTextType DEF LastPart
  <1>4. QED
    BY <1>1, <1>2, <1>3

\* The case of a field's first word, when the field is longer than a word.
LEMMA ReadLongOK ==
  ASSUME ParserOK, NEW f, f.slot \in Slots, NEW length \in UInt16,
         f.second \in ParamsOf(selectorIndex), f.last \in ParamsOf(selectorIndex),
         result' = "OK", UNCHANGED <<statics, offsets, len, count, offsets_start>>,
         ReadLong(f, length)
  PROVE  StepOK
  <1> DEFINE missing == MissingBytes(length)
             containers == length \div PARAMETER_LENGTH
  <1>1. missing \in 0 .. PARAMETER_LENGTH - 1 /\ missing \in Int /\ containers \in Int
    BY MissingBytesType DEF PARAMETER_LENGTH
  <1>2. text[f.slot] \in [0 .. PARAMETER_LENGTH - 1 -> Int]
    BY DEF ParserOK, FieldsOK
  <1>3. /\ FirstHalf(f, text[f.slot]) \in [0 .. PARAMETER_LENGTH - 1 -> Int]
        /\ SecondLastPart(f, missing, FirstHalf(f, text[f.slot]))
              \in [0 .. PARAMETER_LENGTH - 1 -> Int]
    BY <1>1, <1>2, PartsType
  <1>4. text' \in [Slots -> [0 .. PARAMETER_LENGTH - 1 -> Int]]
    BY <1>3 DEF ReadLong, ParserOK, FieldsOK
  <1>5. ellipsis' \in [Slots -> BOOLEAN]
    BY DEF ReadLong, ParserOK, FieldsOK
  <1>6. FieldsOK'
    BY <1>1, <1>4, <1>5 DEF ReadLong, ParserOK, FieldsOK
  <1>7. /\ parameterOffset + PARAMETER_LENGTH \in Int
        /\ parameterOffset + (containers - 1) * PARAMETER_LENGTH \in Int
        /\ parameterOffset + containers * PARAMETER_LENGTH \in Int
    BY <1>1 DEF ParserOK, PARAMETER_LENGTH
  <1>8. CursorOK' /\ next_param' \in {f.second, f.last}
    BY <1>7, SeekMoves DEF ReadLong
  <1>9. QED
    BY <1>6, <1>8 DEF StepOK, Results

\* The case of the second-last word of a long field.
LEMMA ReadSecondLastOK ==
  ASSUME ParserOK, NEW f, f.slot \in Slots, f.last \in ParamsOf(selectorIndex),
         result' = "OK", UNCHANGED <<statics, offsets, len, count, offsets_start>>,
         ReadSecondLast(f)
  PROVE  StepOK
  <1>1. bytes_missing \in Int /\ text[f.slot] \in [0 .. PARAMETER_LENGTH - 1 -> Int]
    BY DEF ParserOK, FieldsOK, PARAMETER_LENGTH
  <1>2. SecondLastPart(f, bytes_missing, text[f.slot]) \in [0 .. PARAMETER_LENGTH - 1 -> Int]
    BY <1>1, PartsType
  <1>3. text' \in [Slots -> [0 .. PARAMETER_LENGTH - 1 -> Int]]
    BY <1>2 DEF ReadSecondLast, ParserOK, FieldsOK
  <1>4. FieldsOK'
    BY <1>3 DEF ReadSecondLast, ParserOK, FieldsOK
  <1>5. QED
    BY <1>4, AdvanceMoves DEF ReadSecondLast, StepOK, ParserOK, Results

\* A field that is complete: what is left is where the handler goes on.
LEMMA DoneType ==
  ASSUME ParserOK, NEW f, f.slot \in Slots,
         UNCHANGED <<statics, offsets, len, count, offsets_start, bytes_missing>>,
         \/ /\ text' = [text EXCEPT ![f.slot] =
                          copy_text(@, 0, Size(f), PARAMETER_LENGTH, parameterOffset)]
            /\ ellipsis' = [ellipsis EXCEPT ![f.slot] = FALSE]
         \/ /\ text' = [text EXCEPT ![f.slot] = LastPart(f, bytes_missing, @)]
            /\ UNCHANGED ellipsis,
         id' \in UInt8
  PROVE  FieldsOK'
  <1>1. /\ bytes_missing \in Int
        /\ parameterOffset \in Int
        /\ text[f.slot] \in [0 .. PARAMETER_LENGTH - 1 -> Int]
    BY DEF ParserOK, FieldsOK, PARAMETER_LENGTH
  <1>2. LastPart(f, bytes_missing, text[f.slot]) \in [0 .. PARAMETER_LENGTH - 1 -> Int]
    BY <1>1, PartsType
  <1>3. copy_text(text[f.slot], 0, Size(f), PARAMETER_LENGTH, parameterOffset)
           \in [0 .. PARAMETER_LENGTH - 1 -> Int]
    BY <1>1, CopyTextType
  <1>4. PICK b \in [0 .. PARAMETER_LENGTH - 1 -> Int] : text' = [text EXCEPT ![f.slot] = b]
    BY <1>2, <1>3
  <1>5. text' \in [Slots -> [0 .. PARAMETER_LENGTH - 1 -> Int]]
    BY <1>4 DEF ParserOK, FieldsOK
  <1>6. ellipsis' \in [Slots -> BOOLEAN]
    BY DEF ParserOK, FieldsOK
  <1>7. QED
    BY <1>5, <1>6 DEF ParserOK, FieldsOK

\* The three cases of a dynamic field outside an array: the next parameter
\* is one of the field's own, or the one the handler names for what follows.
LEMMA ReadFieldThenOK ==
  ASSUME ParserOK, NEW f, f.slot \in Slots, NEW length \in UInt16,
         f.second \in ParamsOf(selectorIndex), f.last \in ParamsOf(selectorIndex),
         NEW p \in ParamsOf(selectorIndex),
         ReadField(f, length, Then(p))
  PROVE  StepOK
  <1>1. result' = "OK" /\ UNCHANGED <<statics, offsets, len, count, offsets_start>>
    BY DEF ReadField
  <1>2. CASE ReadLong(f, length)
    BY <1>1, <1>2, ReadLongOK
  <1>3. CASE ReadSecondLast(f)
    BY <1>1, <1>3, ReadSecondLastOK
  <1>4. CASE ReadShort(f, Then(p)) \/ ReadLast(f, Then(p))
    <2>1. Advance(p) /\ UNCHANGED <<id, bytes_missing>>
      BY <1>4 DEF ReadShort, ReadLast, Then
    <2>2. id' \in UInt8
      BY <2>1 DEF ParserOK, FieldsOK
    <2>3. FieldsOK'
      BY <1>1, <1>4, <2>1, <2>2, DoneType DEF ReadShort, ReadLast
    <2>4. QED
      BY <1>1, <2>1, <2>3, AdvanceMoves DEF StepOK, ParserOK, Results
  <1>5. QED
    BY <1>2, <1>3, <1>4 DEF ReadField

(***************************************************************************)
(* The handlers.                                                           *)
(***************************************************************************)
\* handle_commit only ever expects a parameter it has a case for.
LEMMA handle_commit_OK ==
  ASSUME ParserOK, NEW w \in Word, selectorIndex = "COMMIT", handle_commit(w)
  PROVE  StepOK
  <1>1. "NONE" \in ParamsOf(selectorIndex)
    BY DEF ParamsOf
  <1>2. QED
    BY <1>1, IgnoreWordOK, CopyParameterOK DEF handle_commit, Statics

\* The cases NAME, NAME_OFFSET_1 and NAME_OFFSET_2 of any handler with a name.
LEMMA NameFieldOK ==
  ASSUME ParserOK, NameParams \subseteq ParamsOf(selectorIndex),
         NEW p \in ParamsOf(selectorIndex),
         ReadField(NameField, len[Name], Then(p))
  PROVE  StepOK
  <1>1. /\ NameField.slot \in Slots
        /\ len[Name] \in UInt16
        /\ NameField.second \in ParamsOf(selectorIndex)
        /\ NameField.last \in ParamsOf(selectorIndex)
    BY DEF NameField, NameParams, Name, Slots, ParserOK, FieldsOK
  <1>2. QED
    BY <1>1, ReadFieldThenOK

\* handle_register only ever expects a parameter it has a case for.
LEMMA handle_register_OK ==
  ASSUME ParserOK, NEW w \in Word, selectorIndex = "REGISTER", handle_register(w)
  PROVE  StepOK
  <1>1. {"NONE", "OWNER", "DURATION", "SECRET"} \cup NameParams \subseteq ParamsOf(selectorIndex)
    BY DEF ParamsOf
  <1>2. {"NONE", "OWNER", "DURATION", "SECRET", "NAME_LENGTH", "NAME"} \subseteq ParamsOf(selectorIndex)
    BY <1>1 DEF NameParams
  <1>3. Name \in Slots
    BY DEF Name, Slots
  <1>4. QED
    BY <1>1, <1>2, <1>3, SkipToOffsetOK, IgnoreWordOK, SaveOffsetOK, CopyAddressOK, CopyParameterOK,
       ReadLengthAtOK, NameFieldOK
    DEF handle_register, Statics

\* handle_register_with_config only ever expects a parameter it has a case for.
LEMMA handle_register_with_config_OK ==
  ASSUME ParserOK, NEW w \in Word, selectorIndex = "REGISTER_WITH_CONFIG",
         handle_register_with_config(w)
  PROVE  StepOK
  <1>1. {"NONE", "OWNER", "SECRET", "RESOLVER", "ADDR"} \cup NameParams
           \subseteq ParamsOf(selectorIndex)
    BY DEF ParamsOf
  <1>2. {"NONE", "OWNER", "SECRET", "RESOLVER", "ADDR", "NAME_LENGTH", "NAME"}
           \subseteq ParamsOf(selectorIndex)
    BY <1>1 DEF NameParams
  <1>3. Name \in Slots
    BY DEF Name, Slots
  <1>4. CASE /\ CopyWord(w, "owner", 12)
             /\ Seek(parameterOffset + 2 * PARAMETER_LENGTH, "SECRET")
    <2>1. parameterOffset + 2 * PARAMETER_LENGTH \in Int
      BY DEF ParserOK, PARAMETER_LENGTH
    <2>2. QED
      BY <1>2, <1>4, <2>1, CopyWordOK, SeekMoves DEF Statics, StepOK
  <1>5. QED
    BY <1>1, <1>2, <1>3, <1>4, SkipToOffsetOK, IgnoreWordOK, SaveOffsetOK, CopyAddressOK,
       CopyParameterOK, ReadLengthAtOK, NameFieldOK
    DEF handle_register_with_config, Statics

\* handle_renew only ever expects a parameter it has a case for.
LEMMA handle_renew_OK ==
  ASSUME ParserOK, NEW w \in Word, selectorIndex = "RENEW", handle_renew(w)
  PROVE  StepOK
  <1>1. {"NONE", "DURATION"} \cup NameParams \subseteq ParamsOf(selectorIndex)
    BY DEF ParamsOf
  <1>2. {"NONE", "DURATION", "NAME_LENGTH", "NAME"} \subseteq ParamsOf(selectorIndex)
    BY <1>1 DEF NameParams
  <1>3. Name \in Slots
    BY DEF Name, Slots
  <1>4. QED
    BY <1>1, <1>2, <1>3, SkipToOffsetOK, IgnoreWordOK, SaveOffsetOK, CopyParameterOK,
       ReadLengthAtOK, NameFieldOK
    DEF handle_renew, Statics

\* handle_set_name only ever expects a parameter it has a case for.
LEMMA handle_set_name_OK ==
  ASSUME ParserOK, NEW w \in Word, selectorIndex = "SET_NAME", handle_set_name(w)
  PROVE  StepOK
  <1>1. {"NONE"} \cup NameParams \subseteq ParamsOf(selectorIndex)
    BY DEF ParamsOf
  <1>2. {"NONE", "NAME_LENGTH", "NAME"} \subseteq ParamsOf(selectorIndex)
    BY <1>1 DEF NameParams
  <1>3. Name \in Slots
    BY DEF Name, Slots
  <1>4. QED
    BY <1>1, <1>2, <1>3, SkipToOffsetOK, IgnoreWordOK, SaveOffsetOK, ReadLengthAtOK, NameFieldOK
    DEF handle_set_name

\* The case INPUT of the two claim handlers, which seeks the proof.
LEMMA ReadInputsOK ==
  ASSUME ParserOK, NEW w \in Word, NEW o, "PROOF_LEN" \in ParamsOf(selectorIndex),
         ReadInputs(o, w)
  PROVE  StepOK
  <1>1. offsets[Proof] \in UInt16
    BY DEF ParserOK, FieldsOK, Proof, Slots
  <1>2. offsets[Proof] + SELECTOR_SIZE \in Int
    BY <1>1, UInt16Type DEF SELECTOR_SIZE
  <1>3. QED
    BY <1>2, RefuseOK, CopyWordOK, SeekMoves DEF ReadInputs, Statics, StepOK

\* The cases PROOF, PROOF_1 and PROOF_2 of the two claim handlers.
LEMMA ProofFieldOK ==
  ASSUME ParserOK, ProofParams \subseteq ParamsOf(selectorIndex),
         NEW p \in ParamsOf(selectorIndex),
         ReadField(ProofField, len[Proof], Then(p))
  PROVE  StepOK
  <1>1. /\ ProofField.slot \in Slots
        /\ len[Proof] \in UInt16
        /\ ProofField.second \in ParamsOf(selectorIndex)
        /\ ProofField.last \in ParamsOf(selectorIndex)
    BY DEF ProofField, ProofParams, Proof, Slots, ParserOK, FieldsOK
  <1>2. QED
    BY <1>1, ReadFieldThenOK

\* handle_prove_claim only ever expects a parameter it has a case for.
LEMMA handle_prove_claim_OK ==
  ASSUME ParserOK, NEW w \in Word, selectorIndex = "PROVE_AND_CLAIM", handle_prove_claim(w)
  PROVE  StepOK
  <1>1. {"NONE"} \cup ClaimParams \subseteq ParamsOf(selectorIndex)
    BY DEF ParamsOf
  <1>2. /\ {"NONE", "INPUT_OFFSET", "PROOF_OFFSET", "INPUT", "NAME_LENGTH", "NAME", "PROOF_LEN",
            "PROOF"} \subseteq ParamsOf(selectorIndex)
        /\ NameParams \subseteq ParamsOf(selectorIndex)
        /\ ProofParams \subseteq ParamsOf(selectorIndex)
    BY <1>1 DEF ClaimParams, NameParams, ProofParams
  <1>3. {Name, Input, Proof} \subseteq Slots
    BY DEF Name, Input, Proof, Slots
  <1>4. QED
    BY <1>2, <1>3, SkipToOffsetOK, IgnoreWordOK, SaveOffsetAnywayOK, ReadLengthOK,
       ReadLengthAtOK, ReadInputsOK, NameFieldOK, ProofFieldOK
    DEF handle_prove_claim

\* handle_prove_claim_resolver only ever expects a parameter it has a case for.
LEMMA handle_prove_claim_resolver_OK ==
  ASSUME ParserOK, NEW w \in Word, selectorIndex = "PROVE_AND_CLAIM_RESOLVER",
         name_offset \in UInt16, input_offset \in UInt16,
         handle_prove_claim_resolver(w)
  PROVE  StepOK /\ name_offset' \in UInt16 /\ input_offset' \in UInt16
  <1>1. {"NONE", "RESOLVER", "ADDR"} \cup ClaimParams \subseteq ParamsOf(selectorIndex)
    BY DEF ParamsOf
  <1>2. /\ {"NONE", "INPUT_OFFSET", "PROOF_OFFSET", "INPUT", "NAME_LENGTH", "NAME", "PROOF_LEN",
            "PROOF", "RESOLVER", "ADDR"} \subseteq ParamsOf(selectorIndex)
        /\ NameParams \subseteq ParamsOf(selectorIndex)
        /\ ProofParams \subseteq ParamsOf(selectorIndex)
    BY <1>1 DEF ClaimParams, NameParams, ProofParams
  <1>3. {Name, Proof} \subseteq Slots
    BY DEF Name, Proof, Slots
  <1>4. CASE SaveNameOffset(w)
    <2>1. FieldsOK' /\ name_offset' \in UInt16 /\ input_offset' \in UInt16
      BY <1>4 DEF SaveNameOffset, ParserOK, FieldsOK, fields, Word
    <2>2. QED
      BY <1>2, <1>4, <2>1, AdvanceMoves DEF SaveNameOffset, ParserOK, StepOK, Results
  <1>5. CASE SaveInputOffset(w)
    <2>1. FieldsOK' /\ name_offset' \in UInt16 /\ input_offset' \in UInt16
      BY <1>5 DEF SaveInputOffset, ParserOK, FieldsOK, fields, Word
    <2>2. QED
      BY <1>2, <1>5, <2>1, AdvanceMoves DEF SaveInputOffset, ParserOK, StepOK, Results
  <1>6. CASE ReadNameLength(w)
    <2>1. ReadLengthAt(name_offset, w, Name, "NAME")
      BY <1>6 DEF ReadNameLength
    <2>2. StepOK
      BY <1>2, <2>1, ReadLengthAtOK
    <2>3. QED
      BY <1>6, <2>2, ZeroType DEF ReadNameLength
  <1>7. CASE ReadInputsLength(w)
    <2>1. ReadInputs(input_offset, w)
      BY <1>7 DEF ReadInputsLength
    <2>2. StepOK
      BY <1>2, <2>1, ReadInputsOK
    <2>3. QED
      BY <1>7, <2>2, ZeroType DEF ReadInputsLength
  <1>8. CASE UNCHANGED <<name_offset, input_offset>>
    BY <1>2, <1>3, <1>8, <1>4, <1>5, <1>6, <1>7, SkipToOffsetOK, IgnoreWordOK, SaveOffsetAnywayOK,
       ReadLengthOK, CopyAddressOK, NameFieldOK, ProofFieldOK
    DEF handle_prove_claim_resolver, Statics
  <1>9. QED
    BY <1>4, <1>5, <1>6, <1>7, <1>8 DEF handle_prove_claim_resolver

\* handle_owner only ever expects a parameter it has a case for.
LEMMA handle_owner_OK ==
  ASSUME ParserOK, NEW w \in Word, selectorIndex = "SET_OWNER", handle_owner(w)
  PROVE  StepOK
  <1>1. {"NONE", "NODE", "OWNER"} \subseteq ParamsOf(selectorIndex)
    BY DEF ParamsOf
  <1>2. QED
    BY <1>1, IgnoreWordOK, CopyParameterOK, CopyAddressOK DEF handle_owner, Statics

\* handle_resolver only ever expects a parameter it has a case for.
LEMMA handle_resolver_OK ==
  ASSUME ParserOK, NEW w \in Word, selectorIndex = "SET_RESOLVER", handle_resolver(w)
  PROVE  StepOK
  <1>1. {"NONE", "NODE", "RESOLVER"} \subseteq ParamsOf(selectorIndex)
    BY DEF ParamsOf
  <1>2. QED
    BY <1>1, IgnoreWordOK, CopyParameterOK, CopyAddressOK DEF handle_resolver, Statics

\* handle_subnode only ever expects a parameter it has a case for.
LEMMA handle_subnode_OK ==
  ASSUME ParserOK, NEW w \in Word, selectorIndex = "SET_SUBNODE", handle_subnode(w)
  PROVE  StepOK
  <1>1. {"NONE", "NODE", "LABEL", "OWNER", "RESOLVER", "TTL"} \subseteq ParamsOf(selectorIndex)
    BY DEF ParamsOf
  <1>2. QED
    BY <1>1, IgnoreWordOK, CopyParameterOK, CopyAddressOK DEF handle_subnode, Statics

\* The cases HASH, HASH_1 and HASH_2, whichever length they are read with.
LEMMA HashFieldOK ==
  ASSUME ParserOK, HashParams \subseteq ParamsOf(selectorIndex),
         NEW length \in UInt16, NEW p \in ParamsOf(selectorIndex),
         ReadField(HashField, length, Then(p))
  PROVE  StepOK
  <1>1. /\ HashField.slot \in Slots
        /\ HashField.second \in ParamsOf(selectorIndex)
        /\ HashField.last \in ParamsOf(selectorIndex)
    BY DEF HashField, HashParams, Hash, Slots
  <1>2. QED
    BY <1>1, ReadFieldThenOK

\* handle_set_addr only ever expects a parameter it has a case for.
LEMMA handle_set_addr_OK ==
  ASSUME ParserOK, NEW w \in Word, selectorIndex = "SET_ADDR", handle_set_addr(w)
  PROVE  StepOK
  <1>1. {"NONE", "COINTYPE"} \cup HashParams \subseteq ParamsOf(selectorIndex)
    BY DEF ParamsOf
  <1>2. {"NONE", "COINTYPE", "HASH_OFFSET", "HASH_LEN", "HASH"} \subseteq ParamsOf(selectorIndex)
    BY <1>1 DEF HashParams
  <1>3. Hash \in Slots /\ statics["coinType"].alias \in UInt16
    BY DEF Hash, Slots, ParserOK, FieldsOK, Statics, StaticValue
  <1>4. QED
    BY <1>1, <1>2, <1>3, SkipToOffsetOK, IgnoreWordOK, CopyParameterOK, SaveOffsetOK,
       ReadLengthAtOK, HashFieldOK
    DEF handle_set_addr, Statics

\* handle_set_content_hash only ever expects a parameter it has a case for.
LEMMA handle_set_content_hash_OK ==
  ASSUME ParserOK, NEW w \in Word, selectorIndex = "SET_CONTENT_HASH", handle_set_content_hash(w)
  PROVE  StepOK
  <1>1. {"NONE"} \cup HashParams \subseteq ParamsOf(selectorIndex)
    BY DEF ParamsOf
  <1>2. {"NONE", "HASH_OFFSET", "HASH_LEN", "HASH"} \subseteq ParamsOf(selectorIndex)
    BY <1>1 DEF HashParams
  <1>3. Hash \in Slots /\ len[Hash] \in UInt16
    BY DEF Hash, Slots, ParserOK, FieldsOK
  <1>4. QED
    BY <1>1, <1>2, <1>3, SkipToOffsetOK, IgnoreWordOK, CopyParameterOK, SaveOffsetOK,
       ReadLengthAtOK, HashFieldOK
    DEF handle_set_content_hash, Statics

\* The cases of the key and of the value of setText.
LEMMA TextFieldOK ==
  ASSUME ParserOK, KeyParams \cup ValueParams \subseteq ParamsOf(selectorIndex),
         NEW p \in ParamsOf(selectorIndex),
         \/ ReadField(KeyField, len[Key], Then(p))
         \/ ReadField(ValueField, len[Value], Then(p))
  PROVE  StepOK
  <1>1. /\ KeyField.slot \in Slots
        /\ len[Key] \in UInt16
        /\ KeyField.second \in ParamsOf(selectorIndex)
        /\ KeyField.last \in ParamsOf(selectorIndex)
    BY DEF KeyField, KeyParams, Key, Slots, ParserOK, FieldsOK
  <1>2. /\ ValueField.slot \in Slots
        /\ len[Value] \in UInt16
        /\ ValueField.second \in ParamsOf(selectorIndex)
        /\ ValueField.last \in ParamsOf(selectorIndex)
    BY DEF ValueField, ValueParams, Value, Slots, ParserOK, FieldsOK
  <1>3. QED
    BY <1>1, <1>2, ReadFieldThenOK

\* handle_set_text only ever expects a parameter it has a case for.
LEMMA handle_set_text_OK ==
  ASSUME ParserOK, NEW w \in Word, selectorIndex = "SET_TEXT", handle_set_text(w)
  PROVE  StepOK
  <1>1. {"NONE", "KEY_OFFSET", "VALUE_OFFSET"} \cup KeyParams \cup ValueParams
           \subseteq ParamsOf(selectorIndex)
    BY DEF ParamsOf
  <1>2. {"NONE", "KEY_OFFSET", "VALUE_OFFSET", "KEY_LENGTH", "KEY", "VALUE_LENGTH", "VALUE"}
           \subseteq ParamsOf(selectorIndex)
    BY <1>1 DEF KeyParams, ValueParams
  <1>3. {Key, Value} \subseteq Slots
    BY DEF Key, Value, Slots
  <1>4. QED
    BY <1>1, <1>2, <1>3, SkipToOffsetOK, IgnoreWordOK, CopyParameterOK, SaveOffsetOK,
       ReadLengthAtOK, TextFieldOK
    DEF handle_set_text, Statics

(***************************************************************************)
(* Arrays.                                                                 *)
(***************************************************************************)

\* ArrayIndexInBounds is not inductive: ReadCount leaves id alone, so the
\* index it hands to the elements is 0 only because nothing before the
\* elements has moved it.  ElementOK adds that.  A refused call may break it,
\* which is why it is only claimed while the host goes on parsing.
ElementOK ==
    IsArray =>
        /\ next_param \in Elements => id < count /\ count <= Capacity(selectorIndex)
        /\ next_param \notin Elements \cup {"NONE"} => id = 0

\* What the handler of an array may assume, and what it must establish.
ArrayOK ==
    /\ ParserOK
    /\ IsArray
    /\ ElementOK

ArrayStepOK == StepOK /\ (result' = "OK" => ElementOK')

\* A step of an array's handler that handles no word keeps the element index.
LEMMA ArrayIdle ==
  ASSUME ArrayOK, UNCHANGED selectorIndex, Refuse \/ SkipToOffset \/ IgnoreWord
  PROVE  ArrayStepOK
  <1>1. StepOK
    BY RefuseOK, SkipToOffsetOK, IgnoreWordOK DEF ArrayOK
  <1>2. CASE Refuse
    BY <1>1, <1>2 DEF Refuse, ArrayStepOK
  <1>3. CASE SkipToOffset
    BY <1>1, <1>3 DEF SkipToOffset, cursor, fields, ArrayStepOK, ArrayOK, ElementOK, IsArray
  <1>4. CASE IgnoreWord
    BY <1>1, <1>4 DEF IgnoreWord, ArrayStepOK, ElementOK, Elements
  <1>5. QED
    BY <1>2, <1>3, <1>4

\* The head of the calldata: no element yet.
\* Neither does a word of the head: no element has been started yet.
LEMMA ArrayHead ==
  ASSUME ArrayOK, UNCHANGED selectorIndex, NEW w \in Word,
         next_param \notin Elements \cup {"NONE"},
         NEW p \in ParamsOf(selectorIndex), p \notin Elements,
         \/ SaveArrayOffset(w, p)
         \/ CopyParameter(w, "duration", p)
  PROVE  ArrayStepOK
  <1>1. CASE Refuse
    BY <1>1, ArrayIdle
  <1>2. CASE ~Refuse /\ SaveArrayOffset(w, p)
    <2> w.low \in UInt16
      BY DEF Word
    <2>0. offsets_start' \in UInt16
      BY <1>2 DEF SaveArrayOffset
    <2>1. FieldsOK'
      BY <1>2, <2>0 DEF SaveArrayOffset, ArrayOK, ParserOK, FieldsOK
    <2>2. StepOK
      BY <1>2, <2>1, AdvanceMoves DEF SaveArrayOffset, ArrayOK, ParserOK, StepOK, Results
    <2>3. ElementOK'
      BY <1>2 DEF SaveArrayOffset, Advance, ArrayOK, ElementOK, IsArray
    <2>4. QED
      BY <2>2, <2>3 DEF ArrayStepOK
  <1>3. CASE CopyParameter(w, "duration", p)
    <2>1. StepOK
      BY <1>3, CopyParameterOK DEF ArrayOK, Statics
    <2>2. ElementOK'
      BY <1>3 DEF CopyParameter, CopyWord, Advance, ArrayOK, ElementOK, IsArray
    <2>3. QED
      BY <2>1, <2>2 DEF ArrayStepOK
  <1>4. QED
    BY <1>1, <1>2, <1>3

\* The number of elements: accepted, it is between 1 and the capacity of the
\* array, and the index is still 0.
LEMMA ArrayCount ==
  ASSUME ArrayOK, UNCHANGED selectorIndex, NEW w \in Word,
         next_param \notin Elements \cup {"NONE"},
         "OFFSETS" \in ParamsOf(selectorIndex),
         ReadCount(w, Capacity(selectorIndex))
  PROVE  ArrayStepOK
  <1>1. CASE Refuse
    BY <1>1, ArrayIdle
  <1>2. CASE ~Refuse
    <2> w.low \in UInt16
      BY DEF Word
    <2>1. FieldsOK'
      BY <1>2 DEF ReadCount, ArrayOK, ParserOK, FieldsOK
    <2>2. StepOK
      BY <1>2, <2>1, AdvanceMoves DEF ReadCount, ArrayOK, ParserOK, StepOK, Results
    <2>3. id' = 0 /\ next_param' = "OFFSETS"
      BY <1>2 DEF ReadCount, Advance, ArrayOK, ElementOK
    <2>4. ASSUME result' = "OK"
          PROVE  count' \in 1 .. Capacity(selectorIndex)
      BY <1>2, <2>4 DEF ReadCount
    <2>5. Capacity(selectorIndex) \in Int
      BY DEF Capacity
    <2>6. ASSUME result' = "OK"
          PROVE  0 < count' /\ count' <= Capacity(selectorIndex)
      BY <2>4, <2>5, <2>6
    <2>7. QED
      BY <2>2, <2>3, <2>6 DEF ArrayStepOK, ElementOK, Elements
  <1>3. QED
    BY <1>1, <1>2

\* An element that is read lies inside the arrays, and so does the next one.
LEMMA ElementInSlots ==
  ASSUME ArrayOK, next_param \in Elements
  PROVE  /\ id \in 0 .. 2
         /\ count \in 1 .. 3
         /\ id < count
         /\ count <= Capacity(selectorIndex)
         /\ U8(id + 1) = id + 1
         /\ id # count - 1 => id + 1 \in 0 .. 2 /\ id + 1 < count
  <1>1. id \in UInt8 /\ count \in UInt16
    BY DEF ArrayOK, ParserOK, FieldsOK
  <1>2. id < count /\ count <= Capacity(selectorIndex)
    BY DEF ArrayOK, ElementOK
  <1>3. id \in Int /\ 0 <= id /\ count \in Int
    BY <1>1, UInt8Type, UInt16Type
  <1>4. count <= 3
    BY <1>2, <1>3 DEF Capacity
  <1>5. id + 1 \in 0 .. 3
    BY <1>2, <1>3, <1>4
  <1>6. QED
    BY <1>2, <1>3, <1>4, <1>5, SmallType

\* An element offset: the index moves on to an element that exists, or back
\* to 0 after the last one.
LEMMA ArrayElementOffset ==
  ASSUME ArrayOK, UNCHANGED selectorIndex, NEW w \in Word, next_param \in Elements,
         NEW p \in ParamsOf(selectorIndex), p \in Elements,
         "OFFSETS" \in ParamsOf(selectorIndex),
         ReadElementOffset(w, p)
  PROVE  ArrayStepOK
  <1>1. CASE Refuse
    BY <1>1, ArrayIdle
  <1>2. CASE ~Refuse
    <2>1. offsets' \in [Slots -> UInt16]
      BY <1>2 DEF ReadElementOffset, ArrayOK, ParserOK, FieldsOK, Word
    <2>2. parameterOffset \in Int
      BY DEF ArrayOK, ParserOK
    <2>3. offsets_start' \in UInt16
      BY <1>2, <2>2, U16Type DEF ReadElementOffset, ArrayOK, ParserOK, FieldsOK
    <2>4. offsets_start' + offsets'[0] \in Int
      BY <2>1, <2>3, UInt16Type DEF Slots
    <2>5. CASE /\ U8(id + 1) # count
               /\ id' = U8(id + 1)
               /\ Advance("OFFSETS")
      <3>1. id' \in UInt8 /\ id' < count /\ count <= Capacity(selectorIndex)
        BY <2>5, ElementInSlots, U8Type
      <3>2. FieldsOK'
        BY <1>2, <2>1, <2>3, <3>1 DEF ReadElementOffset, ArrayOK, ParserOK, FieldsOK
      <3>3. StepOK
        BY <1>2, <2>5, <3>2, AdvanceMoves DEF ReadElementOffset, ArrayOK, ParserOK, StepOK, Results
      <3>4. ElementOK'
        BY <1>2, <2>5, <3>1 DEF ReadElementOffset, Advance, ElementOK, Elements
      <3>5. QED
        BY <3>3, <3>4 DEF ArrayStepOK
    <2>6. CASE /\ U8(id + 1) = count
               /\ id' = 0
               /\ Seek(offsets_start' + offsets'[0], p)
      <3>1. id' \in UInt8 /\ id' < count /\ count <= Capacity(selectorIndex)
        BY <2>6, ElementInSlots, ZeroType
      <3>2. FieldsOK'
        BY <1>2, <2>1, <2>3, <3>1 DEF ReadElementOffset, ArrayOK, ParserOK, FieldsOK
      <3>3. CursorOK' /\ next_param' = p
        BY <2>4, <2>6, SeekMoves
      <3>4. StepOK
        BY <1>2, <3>2, <3>3 DEF ReadElementOffset, StepOK, Results
      <3>5. ElementOK'
        BY <1>2, <3>1, <3>3 DEF ReadElementOffset, ElementOK
      <3>6. QED
        BY <3>4, <3>5 DEF ArrayStepOK
    <2>7. QED
      BY <1>2, <2>5, <2>6 DEF ReadElementOffset
  <1>3. QED
    BY <1>1, <1>2

\* The length of an element leaves the index alone.
LEMMA ArrayLength ==
  ASSUME ArrayOK, UNCHANGED selectorIndex, NEW w \in Word, next_param \in Elements,
         NEW p \in ParamsOf(selectorIndex), p \in Elements,
         ReadLength(w, id, p)
  PROVE  ArrayStepOK
  <1>1. CASE Refuse
    BY <1>1, ArrayIdle
  <1>2. CASE ~Refuse
    <2>1. StepOK
      BY ReadLengthOK DEF ArrayOK
    <2>2. ElementOK'
      BY <1>2 DEF ReadLength, Advance, ArrayOK, ElementOK
    <2>3. QED
      BY <2>1, <2>2 DEF ArrayStepOK
  <1>3. QED
    BY <1>1, <1>2

\* After an element the index moves on to one that exists, or back to 0 with
\* nothing left to read.
LEMMA NextElementMoves ==
  ASSUME ArrayOK, UNCHANGED <<selectorIndex, count>>, next_param \in Elements,
         NEW p \in Elements, NextElement(p)
  PROVE  /\ CursorOK'
         /\ id' \in UInt8
         /\ next_param' \in {"NONE", p}
         /\ ElementOK'
  <1>1. CASE id = count - 1
    <2>1. id' = 0 /\ Advance("NONE")
      BY <1>1 DEF NextElement
    <2>2. QED
      BY <2>1, AdvanceMoves, ZeroType DEF ArrayOK, ParserOK, ElementOK, Elements
  <1>2. CASE id # count - 1
    <2>1. /\ id' = id + 1
          /\ id' \in UInt8
          /\ id' < count
          /\ count <= Capacity(selectorIndex)
          /\ id + 1 \in Slots
          /\ Seek(offsets_start + offsets[id + 1], p)
      BY <1>2, ElementInSlots, U8Type DEF NextElement, Slots
    <2>2. offsets_start \in UInt16 /\ offsets[id + 1] \in UInt16
      BY <2>1 DEF ArrayOK, ParserOK, FieldsOK
    <2>3. offsets_start + offsets[id + 1] \in Int
      BY <2>2, UInt16Type
    <2>4. CursorOK' /\ next_param' = p
      BY <2>1, <2>3, SeekMoves
    <2>5. ElementOK'
      BY <2>1, <2>4 DEF ElementOK
    <2>6. QED
      BY <2>1, <2>4, <2>5
  <1>3. QED
    BY <1>1, <1>2

\* The three cases of a dynamic field that is element id of an array.
LEMMA ArrayField ==
  ASSUME ArrayOK, UNCHANGED selectorIndex, next_param \in Elements,
         NEW f, f.slot = id,
         {f.second, f.last} \subseteq ParamsOf(selectorIndex) \cap Elements,
         NEW p \in ParamsOf(selectorIndex), p \in Elements, "NONE" \in ParamsOf(selectorIndex),
         ReadField(f, len[id], NextElement(p))
  PROVE  ArrayStepOK
  <1>1. result' = "OK" /\ UNCHANGED <<statics, offsets, len, count, offsets_start>>
    BY DEF ReadField
  <1>2. id \in Slots
    BY ElementInSlots DEF Slots
  <1>3. len[id] \in UInt16
    BY <1>2 DEF ArrayOK, ParserOK, FieldsOK
  <1>4. CASE ReadLong(f, len[id])
    <2>1. StepOK
      BY <1>1, <1>2, <1>3, <1>4, ReadLongOK DEF ArrayOK
    <2>2. next_param' \in {f.second, f.last} /\ id' = id
      BY <1>4 DEF ReadLong, Seek
    <2>3. ElementOK'
      BY <1>1, <2>2 DEF ArrayOK, ElementOK
    <2>4. QED
      BY <2>1, <2>3 DEF ArrayStepOK
  <1>5. CASE ReadSecondLast(f)
    <2>1. StepOK
      BY <1>1, <1>2, <1>5, ReadSecondLastOK DEF ArrayOK
    <2>2. next_param' = f.last /\ id' = id
      BY <1>5 DEF ReadSecondLast, Advance
    <2>3. ElementOK'
      BY <1>1, <2>2 DEF ArrayOK, ElementOK
    <2>4. QED
      BY <2>1, <2>3 DEF ArrayStepOK
  <1>6. CASE ReadShort(f, NextElement(p)) \/ ReadLast(f, NextElement(p))
    <2>1. NextElement(p) /\ UNCHANGED bytes_missing
      BY <1>6 DEF ReadShort, ReadLast
    <2>2. CursorOK' /\ id' \in UInt8 /\ next_param' \in {"NONE", p} /\ ElementOK'
      BY <1>1, <2>1, NextElementMoves
    <2>3. FieldsOK'
      BY <1>1, <1>2, <1>6, <2>1, <2>2, DoneType DEF ReadShort, ReadLast, ArrayOK
    <2>4. QED
      BY <1>1, <2>2, <2>3 DEF ArrayStepOK, StepOK, Results
  <1>7. QED
    BY <1>4, <1>5, <1>6 DEF ReadField

\* handle_renew_all only ever expects a parameter it has a case for,
\* and never indexes past its array.
LEMMA handle_renew_all_OK ==
  ASSUME ArrayOK, UNCHANGED selectorIndex, NEW w \in Word, selectorIndex = "RENEW_ALL",
         handle_renew_all(w)
  PROVE  ArrayStepOK
  <1>1. {"NONE", "DURATION", "N_NAME", "OFFSETS"} \cup NameParams \subseteq ParamsOf(selectorIndex)
    BY DEF ParamsOf
  <1>2. {"NONE", "DURATION", "N_NAME", "OFFSETS", "NAME_LENGTH", "NAME", "NAME_OFFSET_1",
         "NAME_OFFSET_2"} \subseteq ParamsOf(selectorIndex)
    BY <1>1 DEF NameParams
  <1>3. {"OFFSETS", "NAME_LENGTH", "NAME", "NAME_OFFSET_1", "NAME_OFFSET_2"} \subseteq Elements
    BY DEF Elements
  <1>4. {"NAME_OFFSET", "DURATION", "N_NAME"} \cap (Elements \cup {"NONE"}) = {}
    BY DEF Elements
  <1>5. Capacity(selectorIndex) = 2
    BY DEF Capacity
  <1>6. CASE ReadField(NameElement, len[id], NextElement("NAME_LENGTH"))
    <2>1. /\ NameElement.slot = id
          /\ NameElement.data = "NAME"
          /\ NameElement.second = "NAME_OFFSET_1"
          /\ NameElement.last = "NAME_OFFSET_2"
      BY DEF NameElement, NameField
    <2>2. next_param \in {"NAME", "NAME_OFFSET_1", "NAME_OFFSET_2"}
      BY <1>6, <2>1 DEF ReadField
    <2>3. QED
      BY <1>2, <1>3, <1>6, <2>1, <2>2, ArrayField
  <1>7. QED
    BY <1>2, <1>3, <1>4, <1>5, <1>6, ArrayIdle, ArrayHead, ArrayCount, ArrayElementOffset, ArrayLength
    DEF handle_renew_all

\* handle_multicall only ever expects a parameter it has a case for,
\* and never indexes past its array.
LEMMA handle_multicall_OK ==
  ASSUME ArrayOK, UNCHANGED selectorIndex, NEW w \in Word, selectorIndex = "MULTICALL",
         handle_multicall(w)
  PROVE  ArrayStepOK
  <1>1. {"NONE", "N_CALL", "OFFSETS"} \cup CallParams \subseteq ParamsOf(selectorIndex)
    BY DEF ParamsOf
  <1>2. {"NONE", "N_CALL", "OFFSETS", "CALL_LEN", "CALL", "CALL_1", "CALL_2"}
           \subseteq ParamsOf(selectorIndex)
    BY <1>1 DEF CallParams
  <1>3. {"OFFSETS", "CALL_LEN", "CALL", "CALL_1", "CALL_2"} \subseteq Elements
    BY DEF Elements
  <1>4. {"CALL_OFFSET", "N_CALL"} \cap (Elements \cup {"NONE"}) = {}
    BY DEF Elements
  <1>5. Capacity(selectorIndex) = 3
    BY DEF Capacity
  <1>6. CASE ReadField(CallElement, len[id], NextElement("CALL_LEN"))
    <2>1. /\ CallElement.slot = id
          /\ CallElement.data = "CALL"
          /\ CallElement.second = "CALL_1"
          /\ CallElement.last = "CALL_2"
      BY DEF CallElement
    <2>2. next_param \in {"CALL", "CALL_1", "CALL_2"}
      BY <1>6, <2>1 DEF ReadField
    <2>3. QED
      BY <1>2, <1>3, <1>6, <2>1, <2>2, ArrayField
  <1>7. QED
    BY <1>2, <1>3, <1>4, <1>5, <1>6, ArrayIdle, ArrayHead, ArrayCount, ArrayElementOffset, ArrayLength
    DEF handle_multicall

(***************************************************************************)
(* handle_provide_parameter.                                               *)
(***************************************************************************)
\* Whichever handler the selector names, the word is handled as StepOK says.
LEMMA ParseWordOK ==
  ASSUME ParserOK, ElementOK, UNCHANGED selectorIndex, NEW w \in Word, ParseWord(w)
  PROVE  StepOK /\ (result' = "OK" => ElementOK')
  <1>1. CASE selectorIndex = "RENEW_ALL"
    <2>1. handle_renew_all(w)
      BY <1>1 DEF ParseWord
    <2>2. QED
      BY <1>1, <2>1, handle_renew_all_OK DEF ArrayOK, ArrayStepOK, IsArray
  <1>2. CASE selectorIndex = "MULTICALL"
    <2>1. handle_multicall(w)
      BY <1>2 DEF ParseWord
    <2>2. QED
      BY <1>2, <2>1, handle_multicall_OK DEF ArrayOK, ArrayStepOK, IsArray
  <1>3. CASE selectorIndex \notin {"RENEW_ALL", "MULTICALL"}
    <2>1. StepOK
      BY <1>3, handle_commit_OK, handle_register_OK, handle_register_with_config_OK,
         handle_renew_OK, handle_set_name_OK, handle_prove_claim_OK, handle_owner_OK,
         handle_resolver_OK, handle_subnode_OK, handle_set_addr_OK, handle_set_text_OK,
         handle_set_content_hash_OK
      DEF ParseWord
    <2>2. ElementOK'
      BY <1>3 DEF ElementOK, IsArray
    <2>3. QED
      BY <2>1, <2>2
  <1>4. QED
    BY <1>1, <1>2, <1>3

\* handle_provide_parameter: what its handler establishes, it does; the
\* selector never changes; the two offsets kept in globals stay uint16_t.
LEMMA ProvideParameterOK ==
  ASSUME ParserOK, ElementOK, name_offset \in UInt16, input_offset \in UInt16,
         NEW w \in Word, handle_provide_parameter(w)
  PROVE  /\ StepOK
         /\ UNCHANGED selectorIndex
         /\ name_offset' \in UInt16 /\ input_offset' \in UInt16
         /\ result' = "OK" => ElementOK'
  <1>1. UNCHANGED selectorIndex /\ Expected
    BY DEF handle_provide_parameter, ParserOK
  <1>2. CASE selectorIndex = "PROVE_AND_CLAIM_RESOLVER" /\ handle_prove_claim_resolver(w)
    <2>1. ElementOK'
      BY <1>1, <1>2 DEF ElementOK, IsArray
    <2>2. QED
      BY <1>1, <1>2, <2>1, handle_prove_claim_resolver_OK
  <1>3. CASE UNCHANGED <<name_offset, input_offset>> /\ ParseWord(w)
    BY <1>1, <1>3, ParseWordOK
  <1>4. QED
    BY <1>1, <1>2, <1>3 DEF handle_provide_parameter

(***************************************************************************)
(* handle_init_contract.                                                   *)
(***************************************************************************)
\* find_selector returns an index of the enumeration for a known selector.
LEMMA FindSelectorType ==
  ASSUME NEW selector, SelectorMatches(selector) # {}
  PROVE  find_selector(selector) \in SelectorIndexes
  <1>1. /\ SelectorMatches(selector) \subseteq 1 .. 15
        /\ DOMAIN selector_t = 1 .. 15
    BY DEF SelectorMatches, ENS_SELECTORS, selector_t
  <1>2. \E i \in SelectorMatches(selector) : \A j \in SelectorMatches(selector) : i <= j
    BY <1>1
  <1>3. QED
    BY <1>1, <1>2 DEF find_selector, SelectorIndexes

\* handle_init_contract starts each handler at a case of its own switch, and
\* an array's handler before the elements.
LEMMA FirstParamOK ==
  ASSUME NEW s \in SelectorIndexes
  PROVE  /\ FirstParam(s) \in ParamsOf(s)
         /\ s \in {"RENEW_ALL", "MULTICALL"} => FirstParam(s) \notin Elements
  BY DEF SelectorIndexes, selector_t, FirstParam, ParamsOf, ClaimParams, Elements

(***************************************************************************)
(* The specification.                                                      *)
(***************************************************************************)

\* The inductive invariant: the types, the switch cases, the arrays.
IInv ==
    /\ TypeOK
    /\ Expected
    /\ Parsing => ElementOK

\* A case of any handler is an enumerator.
LEMMA ParamInParams ==
  ASSUME NEW s \in SelectorIndexes, NEW p \in ParamsOf(s)
  PROVE  p \in Params
  BY DEF Params

\* The invariant gives a handler what it may assume.
LEMMA InvParserOK == ASSUME IInv PROVE ParserOK
  BY DEF IInv, TypeOK, ContextOK, ParserOK, CursorOK, FieldsOK

\* A context a handler may be called with has the types TypeOK states.
LEMMA ParserTypesNext ==
  ASSUME ParserOK', name_offset' \in UInt16, input_offset' \in UInt16, result' \in Results,
         phase' \in Phases, numScreens' \in UInt8
  PROVE  TypeOK'
  <1>1. next_param' \in Params
    BY ParamInParams DEF ParserOK, Expected
  <1>2. QED
    BY <1>1 DEF TypeOK, ContextOK, ParserOK, CursorOK, FieldsOK, Results

\* What memset leaves in the fields is of their types.
LEMMA ZeroFieldTypes ==
  /\ NoStatic \in StaticValue
  /\ NoBytes \in [0 .. PARAMETER_LENGTH - 1 -> Int]
  /\ 0 \in 0 .. PARAMETER_LENGTH - 1
  /\ SELECTOR_SIZE \in Nat
  BY ZeroType DEF NoStatic, StaticValue, NoBytes, PARAMETER_LENGTH, SELECTOR_SIZE

\* The memset of handle_init_contract and its first parameter give a context
\* the handler may be called with.
LEMMA ClearedOK ==
  ASSUME NEW s \in SelectorIndexes, ClearContext(s, FirstParam(s)),
         bytes_missing' \in 0 .. PARAMETER_LENGTH - 1, parameterOffset' = SELECTOR_SIZE
  PROVE  ParserOK' /\ ElementOK'
  <1>1. FieldsOK'
    BY ZeroFieldTypes, ZeroType DEF ClearContext, FieldsOK
  <1>2. CursorOK'
    BY ZeroType DEF ClearContext, CursorOK
  <1>3. ElementOK'
    BY FirstParamOK DEF ClearContext, ElementOK, IsArray
  <1>4. QED
    BY <1>1, <1>2, <1>3, FirstParamOK, ZeroFieldTypes DEF ClearContext, ParserOK, Expected

\* The zeroed context is one of commit, the first of both enumerations.
LEMMA CommitFirst == "COMMIT" \in SelectorIndexes /\ FirstParam("COMMIT") = "COMMITMENT"
  <1>1. selector_t[1] = "COMMIT" /\ 1 \in DOMAIN selector_t
    BY DEF selector_t
  <1>2. QED
    BY <1>1 DEF SelectorIndexes, FirstParam

\* The invariant holds before the first session.
LEMMA InitOK == Init => IInv
  <1> SUFFICES ASSUME Init PROVE IInv
    OBVIOUS
  <1>1. selectorIndex = "COMMIT" /\ next_param = "COMMITMENT" /\ phase = "idle"
    BY DEF Init, HostInit
  <1>2. selectorIndex \in SelectorIndexes /\ Expected
    BY <1>1, CommitFirst DEF Expected, ParamsOf
  <1>3. next_param \in Params
    BY <1>2, ParamInParams DEF Expected
  <1>4. ContextOK
    BY <1>2, <1>3, ZeroFieldTypes, ZeroType DEF Init, HostInit, ContextOK
  <1>5. TypeOK
    BY <1>4, ZeroFieldTypes, ZeroType DEF Init, HostInit, TypeOK, Phases
  <1>6. QED
    BY <1>1, <1>2, <1>5 DEF IInv, Parsing

\* handle_init_contract keeps the invariant, for a known selector, for an
\* unknown one, and when it returns before the memset.
LEMMA InitContractOK ==
  ASSUME IInv, NEW selector, NEW versionOk \in BOOLEAN, NEW roomOk \in BOOLEAN,
         InitContract(selector, versionOk, roomOk)
  PROVE  IInv'
  <1>1. /\ handle_init_contract(selector, versionOk, roomOk)
        /\ UNCHANGED globals
        /\ parameterOffset' = SELECTOR_SIZE
        /\ numScreens' = 0
        /\ phase' = IF result' = "OK" THEN "parsing" ELSE "refused"
    BY DEF InitContract, Continue, handle_init_contract
  <1>2. /\ bytes_missing' \in 0 .. PARAMETER_LENGTH - 1
        /\ name_offset' \in UInt16
        /\ input_offset' \in UInt16
        /\ phase' \in Phases
        /\ numScreens' \in UInt8
        /\ SELECTOR_SIZE \in Nat
    BY <1>1, ZeroType DEF globals, IInv, TypeOK, Phases, SELECTOR_SIZE
  <1>3. CASE UNCHANGED context /\ result' \in {"UNAVAILABLE", "ERROR"}
    <2>1. ParserOK'
      BY <1>1, <1>2, <1>3, InvParserOK
      DEF context, cursor, fields, globals, ParserOK, Expected, CursorOK, FieldsOK
    <2>2. TypeOK'
      BY <1>2, <1>3, <2>1, ParserTypesNext DEF Results
    <2>3. QED
      BY <1>1, <1>3, <2>1, <2>2 DEF IInv, ParserOK, Parsing
  <1>4. CASE ClearContext("COMMIT", "COMMITMENT") /\ result' = "UNAVAILABLE"
    <2>1. ParserOK' /\ ElementOK'
      BY <1>1, <1>2, <1>4, CommitFirst, ClearedOK
    <2>2. TypeOK'
      BY <1>2, <1>4, <2>1, ParserTypesNext DEF Results
    <2>3. QED
      BY <2>1, <2>2 DEF IInv, ParserOK
  <1>5. CASE /\ SelectorMatches(selector) # {}
             /\ result' = "OK"
             /\ ClearContext(find_selector(selector), FirstParam(find_selector(selector)))
    <2>1. find_selector(selector) \in SelectorIndexes
      BY <1>5, FindSelectorType
    <2>2. ParserOK' /\ ElementOK'
      BY <1>1, <1>2, <1>5, <2>1, ClearedOK
    <2>3. TypeOK'
      BY <1>2, <1>5, <2>2, ParserTypesNext DEF Results
    <2>4. QED
      BY <2>2, <2>3 DEF IInv, ParserOK
  <1>6. QED
    BY <1>1, <1>3, <1>4, <1>5 DEF handle_init_contract

\* handle_provide_parameter keeps the invariant, whatever the word.
LEMMA SendWordOK ==
  ASSUME IInv, NEW w \in Words, SendWord(w)
  PROVE  IInv'
  <1>1. /\ phase = "parsing"
        /\ handle_provide_parameter(w)
        /\ phase' = IF result' = "OK" THEN "parsing" ELSE "refused"
        /\ parameterOffset' = parameterOffset + PARAMETER_LENGTH
        /\ UNCHANGED numScreens
    BY DEF SendWord, ProvideParameter, Continue
  <1>2. w \in Word
    BY WordsAssumption
  <1>3. /\ ParserOK
        /\ ElementOK
        /\ name_offset \in UInt16
        /\ input_offset \in UInt16
        /\ numScreens \in UInt8
    BY <1>1, InvParserOK DEF IInv, TypeOK, Parsing
  <1>4. /\ StepOK
        /\ UNCHANGED selectorIndex
        /\ name_offset' \in UInt16
        /\ input_offset' \in UInt16
        /\ result' = "OK" => ElementOK'
    BY <1>1, <1>2, <1>3, ProvideParameterOK
  <1>5. parameterOffset' \in Nat
    BY <1>1, <1>3 DEF ParserOK, PARAMETER_LENGTH
  <1>6. ParserOK'
    BY <1>3, <1>4, <1>5 DEF StepOK, ParserOK, Expected
  <1>7. TypeOK'
    BY <1>1, <1>3, <1>4, <1>6, ParserTypesNext DEF StepOK, Phases
  <1>8. QED
    BY <1>1, <1>4, <1>6, <1>7 DEF IInv, ParserOK, Parsing

\* The number of screens of handle_finalize is a uint8_t.
LEMMA FinalizeScreensType ==
  ASSUME ParserOK
  PROVE  FinalizeScreens \in UInt8
  <1>1. count \in Int /\ 1 + count \in Int
    BY UInt16Type DEF ParserOK, FieldsOK
  <1>2. U8(count) \in UInt8 /\ U8(1 + count) \in UInt8
    BY <1>1, U8Type
  <1>3. 1 \in UInt8 /\ 2 \in UInt8 /\ 3 \in UInt8 /\ 4 \in UInt8 /\ 5 \in UInt8
    BY DEF UInt8, UINT8_MAX
  <1>4. QED
    BY <1>2, <1>3 DEF FinalizeScreens, ParserOK, SelectorIndexes, selector_t

\* After the calldata nothing of the parser changes.
LEMMA ReviewOK ==
  ASSUME IInv, Finalize \/ ProvideToken \/ QueryContractId \/ QueryContractUi
  PROVE  IInv'
  <1>1. UNCHANGED <<context, globals, parameterOffset>>
    BY DEF Finalize, ProvideToken, QueryContractId, QueryContractUi
  <1>2. ParserOK'
    BY <1>1, InvParserOK
    DEF context, cursor, fields, globals, ParserOK, Expected, CursorOK, FieldsOK
  <1>3. numScreens' \in UInt8
    BY InvParserOK, FinalizeScreensType
    DEF Finalize, ProvideToken, QueryContractId, QueryContractUi, IInv, TypeOK
  <1>4. result' \in Results /\ phase' \in Phases /\ phase' # "parsing"
    BY DEF Finalize, ProvideToken, QueryContractId, QueryContractUi, Continue, Results, Phases
  <1>5. name_offset' \in UInt16 /\ input_offset' \in UInt16
    BY <1>1 DEF globals, IInv, TypeOK
  <1>6. TypeOK'
    BY <1>2, <1>3, <1>4, <1>5, ParserTypesNext
  <1>7. QED
    BY <1>2, <1>4, <1>6 DEF IInv, ParserOK, Parsing

\* A step that changes nothing keeps the invariant.
LEMMA StutterOK == ASSUME IInv, UNCHANGED vars PROVE IInv'
  BY DEF IInv, TypeOK, ContextOK, Expected, Parsing, ElementOK, IsArray,
         vars, context, cursor, fields, globals, host

\* Every step keeps the invariant.
LEMMA NextOK == IInv /\ [Next]_vars => IInv'
  BY InitContractOK, SendWordOK, ReviewOK, StutterOK DEF Next

\* The inductive invariant holds of every behaviour.
LEMMA IInvInvariant == Spec => []IInv
  BY InitOK, NextOK, PTL DEF Spec

\* Whatever calldata the host sends, in however many sessions, every variable
\* of the plugin holds a value its C type can hold: in particular every copy
\* of handle_provide_parameter leaves each buffer its 32 bytes, and
\* bytes_missing stays below 32.
THEOREM TypeCorrect == Spec => []TypeOK
  <1>1. IInv => TypeOK
    BY DEF IInv
  <1>2. QED
    BY <1>1, IInvInvariant, PTL

\* Whatever calldata the host sends, the parameter a session expects is one
\* the handler of its selector has a case for: the default labels of the
\* fifteen switches in handle_provide_parameter are unreachable.
THEOREM DefaultUnreachable == Spec => []HandledParam
  <1>1. IInv => HandledParam
    BY DEF IInv, HandledParam
  <1>2. QED
    BY <1>1, IInvInvariant, PTL

\* Whatever calldata the host sends, renewAll and multicall index names[],
\* call[], call_len[] and offsets[] below the number of elements they
\* accepted, and accept no more elements than the arrays hold.
THEOREM ArraysSafe == Spec => []ArrayIndexInBounds
  <1>1. IInv => ArrayIndexInBounds
    BY DEF IInv, ElementOK, ArrayIndexInBounds
  <1>2. QED
    BY <1>1, IInvInvariant, PTL

(***************************************************************************)
(* bytes_missing is a global: one number for every field of every session. *)
(* It is nevertheless always the number of the field that is being read.   *)
(*                                                                         *)
(* The argument: the only way into the case of a second-last or last word  *)
(* is the case of the field's first word (ReadLong), which sets            *)
(* bytes_missing for it, or the case of the second-last word before it;    *)
(* and between these no other case runs, because none of the others goes   *)
(* on to such a word.                                                      *)
(***************************************************************************)

Partial == SecondParams \cup LastParams

\* BytesMissingFresh, of refused sessions too: it is inductive as it stands.
Fresh ==
    next_param \in Partial
        => /\ next_param \in SecondParams => bytes_missing < HALF_PARAMETER_LENGTH
           /\ selectorIndex # "SET_ADDR"
                => bytes_missing = len[CurrentSlot] % PARAMETER_LENGTH

(***************************************************************************)
(* The templates.                                                          *)
(***************************************************************************)

\* A call that handles no word leaves field, length and bytes_missing alone.
LEMMA IdleFresh ==
  ASSUME Fresh, UNCHANGED selectorIndex, Refuse \/ SkipToOffset \/ IgnoreWord
  PROVE  Fresh'
  BY DEF Fresh, Refuse, SkipToOffset, IgnoreWord, fields, cursor, CurrentSlot, IsArray

\* A case that does not go on to the middle of a field has nothing to show.
LEMMA AdvanceFresh ==
  ASSUME NEW p, p \notin Partial, Advance(p)
  PROVE  Fresh'
  BY DEF Fresh, Advance

\* The same of a case that seeks.
LEMMA SeekFresh ==
  ASSUME NEW o, NEW p, p \notin Partial, Seek(o, p)
  PROVE  Fresh'
  BY DEF Fresh, Seek

\* The cases of one word: they go on to a case that is not in the middle of a
\* field, or refuse the word.
LEMMA WordFresh ==
  ASSUME Fresh, UNCHANGED selectorIndex, NEW w, NEW k, NEW o, NEW p, p \notin Partial,
         \/ CopyParameter(w, k, p)
         \/ CopyAddress(w, k, p)
         \/ SaveOffset(w, k, p)
         \/ SaveOffsetAnyway(w, k, p)
         \/ SaveArrayOffset(w, p)
         \/ ReadLength(w, k, p)
         \/ ReadLengthAt(o, w, k, p)
  PROVE  Fresh'
  BY IdleFresh, AdvanceFresh
  DEF CopyParameter, CopyAddress, SaveOffset, SaveOffsetAnyway, SaveArrayOffset, ReadLength,
      ReadLengthAt

\* A field whose second-last and last words CurrentSlot attributes to it.
OwnSlot(f) ==
    /\ f.second \in SecondParams
    /\ f.last \in LastParams
    /\ f.second \in {"PROOF_1", "VALUE_1"} <=> f.last \in {"PROOF_2", "VALUE_2"}
    /\ f.slot = IF f.second \in {"PROOF_1", "VALUE_1"} THEN 1
                ELSE IF IsArray THEN id ELSE 0

\* The first word of a long field sets bytes_missing for the words to come.
LEMMA ReadLongFresh ==
  ASSUME ParserOK, UNCHANGED <<selectorIndex, len>>, NEW f, OwnSlot(f), NEW length,
         selectorIndex # "SET_ADDR" => length = len[f.slot],
         ReadLong(f, length)
  PROVE  Fresh'
  <1>1. bytes_missing' = MissingBytes(length) /\ UNCHANGED id
    BY DEF ReadLong
  <1>2. \/ next_param' = f.last
        \/ next_param' = f.second /\ MissingBytes(length) < HALF_PARAMETER_LENGTH
    BY DEF ReadLong, Seek
  <1>3. SecondParams \cap LastParams = {}
    BY DEF SecondParams, LastParams
  <1>4. CurrentSlot' = f.slot
    BY <1>1, <1>2 DEF OwnSlot, CurrentSlot, IsArray, SecondParams, LastParams
  <1>5. selectorIndex' # "SET_ADDR" => bytes_missing' = len'[CurrentSlot'] % PARAMETER_LENGTH
    BY <1>1, <1>4 DEF MissingBytes
  <1>6. next_param' \in SecondParams => bytes_missing' < HALF_PARAMETER_LENGTH
    BY <1>1, <1>2, <1>3 DEF OwnSlot
  <1>7. QED
    BY <1>5, <1>6 DEF Fresh

\* The second-last word leaves it alone, and the last word is the same field's.
LEMMA ReadSecondLastFresh ==
  ASSUME Fresh, UNCHANGED <<selectorIndex, len>>, NEW f, OwnSlot(f),
         next_param = f.second, ReadSecondLast(f)
  PROVE  Fresh'
  <1>1. next_param' = f.last /\ UNCHANGED <<id, bytes_missing>>
    BY DEF ReadSecondLast, Advance
  <1>2. CurrentSlot = f.slot /\ CurrentSlot' = f.slot
    BY <1>1 DEF OwnSlot, CurrentSlot, IsArray, SecondParams, LastParams
  <1>3. f.last \notin SecondParams
    BY DEF OwnSlot, SecondParams, LastParams
  <1>4. QED
    BY <1>1, <1>2, <1>3 DEF Fresh, OwnSlot, Partial

\* The three cases of a dynamic field outside an array.
LEMMA FieldThenFresh ==
  ASSUME ParserOK, Fresh, UNCHANGED selectorIndex, NEW f, OwnSlot(f), NEW length,
         selectorIndex # "SET_ADDR" => length = len[f.slot],
         NEW p, p \notin Partial, ReadField(f, length, Then(p))
  PROVE  Fresh'
  <1>1. UNCHANGED len
    BY DEF ReadField
  <1>2. CASE ReadLong(f, length)
    BY <1>1, <1>2, ReadLongFresh
  <1>3. CASE next_param = f.second /\ ReadSecondLast(f)
    BY <1>1, <1>3, ReadSecondLastFresh
  <1>4. CASE ReadShort(f, Then(p)) \/ ReadLast(f, Then(p))
    BY <1>4, AdvanceFresh DEF ReadShort, ReadLast, Then
  <1>5. QED
    BY <1>2, <1>3, <1>4 DEF ReadField

\* After an element the next one starts at its length.
LEMMA NextElementFresh ==
  ASSUME NEW p, p \notin Partial, NextElement(p)
  PROVE  Fresh'
  <1>1. "NONE" \notin Partial
    BY DEF Partial, SecondParams, LastParams
  <1>2. QED
    BY <1>1, AdvanceFresh, SeekFresh DEF NextElement

\* The three cases of a dynamic field that is an element of an array.
LEMMA ElementFresh ==
  ASSUME ParserOK, Fresh, UNCHANGED selectorIndex, NEW f, OwnSlot(f), f.slot = id,
         NEW p, p \notin Partial, ReadField(f, len[id], NextElement(p))
  PROVE  Fresh'
  <1>1. UNCHANGED len
    BY DEF ReadField
  <1>2. CASE ReadLong(f, len[id])
    BY <1>1, <1>2, ReadLongFresh
  <1>3. CASE next_param = f.second /\ ReadSecondLast(f)
    BY <1>1, <1>3, ReadSecondLastFresh
  <1>4. CASE ReadShort(f, NextElement(p)) \/ ReadLast(f, NextElement(p))
    BY <1>4, NextElementFresh DEF ReadShort, ReadLast
  <1>5. QED
    BY <1>2, <1>3, <1>4 DEF ReadField

\* The number of elements, and their offsets.
LEMMA HeadFresh ==
  ASSUME Fresh, UNCHANGED selectorIndex, NEW w, NEW n, NEW p, p \notin Partial,
         ReadCount(w, n) \/ ReadElementOffset(w, p)
  PROVE  Fresh'
  <1>1. "OFFSETS" \notin Partial
    BY DEF Partial, SecondParams, LastParams
  <1>2. QED
    BY <1>1, IdleFresh, AdvanceFresh, SeekFresh DEF ReadCount, ReadElementOffset

(***************************************************************************)
(* The fields and the handlers.                                            *)
(***************************************************************************)

\* The parameters that are not the middle of a field.
Whole == {"NONE", "OWNER", "DURATION", "SECRET", "RESOLVER", "ADDR", "NODE", "LABEL", "TTL",
          "COINTYPE", "COMMITMENT", "NAME_OFFSET", "INPUT_OFFSET", "PROOF_OFFSET", "HASH_OFFSET",
          "KEY_OFFSET", "VALUE_OFFSET", "NAME_LENGTH", "PROOF_LEN", "HASH_LEN", "KEY_LENGTH",
          "VALUE_LENGTH", "CALL_LEN", "NAME", "PROOF", "HASH", "KEY", "VALUE", "CALL", "INPUT",
          "N_NAME", "N_CALL", "OFFSETS", "CALL_OFFSET"}

\* None of them is in the middle of a field.
LEMMA WholeNotPartial == \A p \in Whole : p \notin Partial
  BY DEF Whole, Partial, SecondParams, LastParams

\* The fields of the handlers without arrays.
LEMMA OwnSlots ==
  ASSUME ~IsArray
  PROVE  /\ \A f \in {NameField, ProofField, HashField, KeyField, ValueField} : OwnSlot(f)
         /\ NameField.slot = Name
         /\ ProofField.slot = Proof
         /\ HashField.slot = Hash
         /\ KeyField.slot = Key
         /\ ValueField.slot = Value
  BY DEF OwnSlot, NameField, ProofField, HashField, KeyField, ValueField, Name, Proof, Hash, Key,
         Value, SecondParams, LastParams

\* The elements of the handlers with arrays.
LEMMA OwnElements ==
  ASSUME IsArray
  PROVE  /\ OwnSlot(NameElement) /\ NameElement.slot = id
         /\ OwnSlot(CallElement) /\ CallElement.slot = id
  BY DEF OwnSlot, NameElement, NameField, CallElement, SecondParams, LastParams

\* Any dynamic field outside an array, read with its own length.
LEMMA OwnFieldFresh ==
  ASSUME ParserOK, Fresh, UNCHANGED selectorIndex, ~IsArray, NEW p \in Whole,
         \/ ReadField(NameField, len[Name], Then(p))
         \/ ReadField(ProofField, len[Proof], Then(p))
         \/ ReadField(HashField, len[Hash], Then(p))
         \/ ReadField(KeyField, len[Key], Then(p))
         \/ ReadField(ValueField, len[Value], Then(p))
  PROVE  Fresh'
  <1>1. p \notin Partial
    BY WholeNotPartial
  <1>2. QED
    BY <1>1, OwnSlots, FieldThenFresh

\* A word outside the middle of a field.
LEMMA WholeFresh ==
  ASSUME Fresh, UNCHANGED selectorIndex, NEW w, NEW k, NEW o, NEW p \in Whole,
         \/ CopyParameter(w, k, p)
         \/ CopyAddress(w, k, p)
         \/ SaveOffset(w, k, p)
         \/ SaveOffsetAnyway(w, k, p)
         \/ SaveArrayOffset(w, p)
         \/ ReadLength(w, k, p)
         \/ ReadLengthAt(o, w, k, p)
  PROVE  Fresh'
  <1>1. p \notin Partial
    BY WholeNotPartial
  <1>2. QED
    BY <1>1, WordFresh

\* The functions whose parameters are all static.
LEMMA StaticHandlersFresh ==
  ASSUME Fresh, UNCHANGED selectorIndex, NEW w,
         handle_commit(w) \/ handle_owner(w) \/ handle_resolver(w) \/ handle_subnode(w)
  PROVE  Fresh'
  BY IdleFresh, WholeFresh DEF handle_commit, handle_owner, handle_resolver, handle_subnode, Whole

\* The functions with names, keys, values or hashes, each read with its own
\* length.
LEMMA OwnHandlersFresh ==
  ASSUME ParserOK, Fresh, UNCHANGED selectorIndex, ~IsArray, NEW w,
         \/ handle_register(w)
         \/ handle_renew(w)
         \/ handle_set_name(w)
         \/ handle_set_text(w)
         \/ handle_set_content_hash(w)
  PROVE  Fresh'
  <1>1. {"NONE", "OWNER", "DURATION", "SECRET", "NAME_LENGTH", "NAME", "KEY_OFFSET",
         "VALUE_OFFSET", "KEY_LENGTH", "KEY", "VALUE_LENGTH", "VALUE", "HASH_OFFSET",
         "HASH_LEN", "HASH"} \subseteq Whole
    BY DEF Whole
  <1>2. CASE handle_register(w)
    BY <1>1, <1>2, IdleFresh, WholeFresh, OwnFieldFresh DEF handle_register
  <1>3. CASE handle_renew(w)
    BY <1>1, <1>3, IdleFresh, WholeFresh, OwnFieldFresh DEF handle_renew
  <1>4. CASE handle_set_name(w)
    BY <1>1, <1>4, IdleFresh, WholeFresh, OwnFieldFresh DEF handle_set_name
  <1>5. CASE handle_set_text(w)
    BY <1>1, <1>5, IdleFresh, WholeFresh, OwnFieldFresh DEF handle_set_text
  <1>6. CASE handle_set_content_hash(w)
    BY <1>1, <1>6, IdleFresh, WholeFresh, OwnFieldFresh DEF handle_set_content_hash
  <1>7. QED
    BY <1>2, <1>3, <1>4, <1>5, <1>6

\* registerWithConfig skips a word after the owner.
LEMMA RegisterWithConfigFresh ==
  ASSUME ParserOK, Fresh, UNCHANGED selectorIndex, ~IsArray, NEW w,
         handle_register_with_config(w)
  PROVE  Fresh'
  <1>1. {"NONE", "OWNER", "SECRET", "RESOLVER", "ADDR", "NAME_LENGTH", "NAME"} \subseteq Whole
    BY DEF Whole
  <1>2. "SECRET" \notin Partial
    BY <1>1, WholeNotPartial
  <1>3. QED
    BY <1>1, <1>2, IdleFresh, WholeFresh, OwnFieldFresh, SeekFresh
    DEF handle_register_with_config

\* setAddr reads its field with a length that is not its own.
LEMMA SetAddrFresh ==
  ASSUME ParserOK, Fresh, UNCHANGED selectorIndex, selectorIndex = "SET_ADDR", NEW w,
         handle_set_addr(w)
  PROVE  Fresh'
  <1>1. {"NONE", "COINTYPE", "HASH_OFFSET", "HASH_LEN", "HASH"} \subseteq Whole
    BY DEF Whole
  <1>2. CASE ReadField(HashField, statics["coinType"].alias, Then("NONE"))
    BY <1>1, <1>2, WholeNotPartial, OwnSlots, FieldThenFresh DEF IsArray
  <1>3. QED
    BY <1>1, <1>2, IdleFresh, WholeFresh DEF handle_set_addr

\* The number of inputs of a claim, after which the proof is sought.
LEMMA ReadInputsFresh ==
  ASSUME Fresh, UNCHANGED selectorIndex, NEW w, NEW o, ReadInputs(o, w)
  PROVE  Fresh'
  <1>1. "PROOF_LEN" \notin Partial
    BY WholeNotPartial DEF Whole
  <1>2. QED
    BY <1>1, IdleFresh, SeekFresh DEF ReadInputs

\* The claim that keeps its offsets in the context.
LEMMA ProveClaimFresh ==
  ASSUME ParserOK, Fresh, UNCHANGED selectorIndex, ~IsArray, NEW w, handle_prove_claim(w)
  PROVE  Fresh'
  <1>1. {"NONE", "INPUT_OFFSET", "PROOF_OFFSET", "NAME_LENGTH", "NAME", "INPUT", "PROOF"}
           \subseteq Whole
    BY DEF Whole
  <1>2. QED
    BY <1>1, IdleFresh, WholeFresh, OwnFieldFresh, ReadInputsFresh DEF handle_prove_claim

\* The claim that keeps two of them in globals.
LEMMA ProveClaimResolverFresh ==
  ASSUME ParserOK, Fresh, UNCHANGED selectorIndex, ~IsArray, NEW w,
         handle_prove_claim_resolver(w)
  PROVE  Fresh'
  <1>1. {"NONE", "INPUT_OFFSET", "PROOF_OFFSET", "RESOLVER", "ADDR", "NAME_LENGTH", "NAME",
         "INPUT", "PROOF"} \subseteq Whole
    BY DEF Whole
  <1>2. "INPUT_OFFSET" \notin Partial /\ "PROOF_OFFSET" \notin Partial
    BY <1>1, WholeNotPartial
  <1>3. CASE SaveNameOffset(w) \/ SaveInputOffset(w)
    BY <1>2, <1>3, AdvanceFresh DEF SaveNameOffset, SaveInputOffset
  <1>4. CASE ReadNameLength(w) \/ ReadInputsLength(w)
    BY <1>1, <1>4, WholeFresh, ReadInputsFresh DEF ReadNameLength, ReadInputsLength
  <1>5. QED
    BY <1>1, <1>3, <1>4, IdleFresh, WholeFresh, OwnFieldFresh DEF handle_prove_claim_resolver

\* The two functions with an array.
LEMMA ArrayHandlersFresh ==
  ASSUME ParserOK, Fresh, UNCHANGED selectorIndex, IsArray, NEW w,
         handle_renew_all(w) \/ handle_multicall(w)
  PROVE  Fresh'
  <1>1. {"NONE", "DURATION", "N_NAME", "N_CALL", "NAME_LENGTH", "NAME", "CALL_LEN", "CALL"}
           \subseteq Whole
    BY DEF Whole
  <1>2. \A p \in {"NAME_LENGTH", "CALL_LEN"} : p \notin Partial
    BY <1>1, WholeNotPartial
  <1>3. CASE handle_renew_all(w)
    BY <1>1, <1>2, <1>3, IdleFresh, WholeFresh, HeadFresh, OwnElements, ElementFresh
    DEF handle_renew_all
  <1>4. CASE handle_multicall(w)
    BY <1>1, <1>2, <1>4, IdleFresh, WholeFresh, HeadFresh, OwnElements, ElementFresh
    DEF handle_multicall
  <1>5. QED
    BY <1>3, <1>4

(***************************************************************************)
(* The specification.                                                      *)
(***************************************************************************)

\* handle_provide_parameter keeps it, whatever the word and the selector.
LEMMA ParameterFresh ==
  ASSUME ParserOK, Fresh, NEW w, handle_provide_parameter(w)
  PROVE  Fresh'
  <1>1. UNCHANGED selectorIndex /\ Expected
    BY DEF handle_provide_parameter, ParserOK
  <1>2. CASE selectorIndex = "PROVE_AND_CLAIM_RESOLVER" /\ handle_prove_claim_resolver(w)
    BY <1>1, <1>2, ProveClaimResolverFresh DEF IsArray
  <1>3. CASE ParseWord(w)
    BY <1>1, <1>3, StaticHandlersFresh, OwnHandlersFresh, RegisterWithConfigFresh, SetAddrFresh,
       ProveClaimFresh, ArrayHandlersFresh
    DEF ParseWord, IsArray
  <1>4. QED
    BY <1>1, <1>2, <1>3 DEF handle_provide_parameter

\* handle_init_contract keeps it: no handler starts in the middle of a field.
LEMMA InitContractFresh ==
  ASSUME Fresh, NEW selector, NEW versionOk, NEW roomOk,
         handle_init_contract(selector, versionOk, roomOk)
  PROVE  Fresh'
  <1>1. \A s : FirstParam(s) \in Whole
    BY DEF FirstParam, Whole
  <1>2. \A s : FirstParam(s) \notin Partial
    BY <1>1, WholeNotPartial
  <1>3. "COMMITMENT" \notin Partial
    BY WholeNotPartial DEF Whole
  <1>4. CASE UNCHANGED <<context, globals>>
    BY <1>4 DEF context, cursor, fields, globals, Fresh, CurrentSlot, IsArray
  <1>5. CASE \E s : ClearContext(s, "COMMITMENT") \/ ClearContext(s, FirstParam(s))
    BY <1>2, <1>3, <1>5 DEF ClearContext, Fresh
  <1>6. QED
    BY <1>4, <1>5 DEF handle_init_contract

\* Every step keeps it.
LEMMA NextFresh == IInv /\ Fresh /\ [Next]_vars => Fresh'
  <1> SUFFICES ASSUME IInv, Fresh, [Next]_vars PROVE Fresh'
    OBVIOUS
  <1>1. CASE UNCHANGED <<context, globals>>
    BY <1>1 DEF context, cursor, fields, globals, Fresh, CurrentSlot, IsArray
  <1>2. ASSUME NEW s, NEW v, NEW r, InitContract(s, v, r) PROVE Fresh'
    BY <1>2, InitContractFresh DEF InitContract
  <1>3. ASSUME NEW w, SendWord(w) PROVE Fresh'
    BY <1>3, InvParserOK, ParameterFresh DEF SendWord, ProvideParameter
  <1>4. CASE Finalize \/ ProvideToken \/ QueryContractId \/ QueryContractUi
    BY <1>1, <1>4 DEF Finalize, ProvideToken, QueryContractId, QueryContractUi
  <1>5. CASE UNCHANGED vars
    BY <1>1, <1>5 DEF vars
  <1>6. QED
    BY <1>2, <1>3, <1>4, <1>5 DEF Next

\* Whatever calldata the host sends, in however many sessions, the global
\* bytes_missing is the one of the field being completed whenever a handler
\* comes to use it, and the size of the copy of a second-last word does not
\* become negative (handle_provide_parameter.c:3, :125).
THEOREM MissingBytesFresh == Spec => []BytesMissingFresh
  <1>1. Init => Fresh
    BY WholeNotPartial DEF Init, HostInit, Fresh, Whole
  <1>2. Fresh => BytesMissingFresh
    BY DEF Fresh, BytesMissingFresh, Partial
  <1>3. QED
    BY <1>1, <1>2, IInvInvariant, NextFresh, PTL DEF Spec

(***************************************************************************)
(* The number of screens handle_finalize promises is the number of screens *)
(* handle_query_contract_ui has.                                           *)
(*                                                                         *)
(* For most functions both are numbers written in the code.  For renewAll  *)
(* and multicall both come from a 16-bit count, of which handle_finalize   *)
(* keeps 8 bits: they agree because an accepted count is at most 3, and    *)
(* because nothing of the context changes once the calldata has ended.     *)
(***************************************************************************)

Reviewing == phase \in {"finalized", "resolved", "review", "reviewed"}

\* The strengthening: the count that was accepted, and what was promised.
ScreensInv ==
    /\ (Parsing \/ Reviewing) /\ IsArray => count \in 0 .. 3
    /\ Reviewing => numScreens = FinalizeScreens

\* A word either leaves the number of names alone, or is refused, or sets it
\* to at most 2.
LEMMA RenewAllCount ==
  ASSUME NEW w, handle_renew_all(w), result' = "OK"
  PROVE  count' = count \/ count' \in 1 .. 2
  BY DEF handle_renew_all, SkipToOffset, IgnoreWord, SaveArrayOffset, CopyParameter, CopyWord,
         ReadCount, ReadElementOffset, ReadLength, ReadField, Refuse, fields

\* The same of the number of calls, and 3.
LEMMA MulticallCount ==
  ASSUME NEW w, handle_multicall(w), result' = "OK"
  PROVE  count' = count \/ count' \in 1 .. 3
  BY DEF handle_multicall, SkipToOffset, IgnoreWord, SaveArrayOffset,
         ReadCount, ReadElementOffset, ReadLength, ReadField, Refuse, fields

\* handle_provide_parameter keeps the accepted count below the capacity.
LEMMA ParameterCount ==
  ASSUME ParserOK, IsArray, count \in 0 .. 3, NEW w, handle_provide_parameter(w), result' = "OK"
  PROVE  count' \in 0 .. 3
  <1>1. handle_renew_all(w) \/ handle_multicall(w)
    BY DEF handle_provide_parameter, ParseWord, ParserOK, IsArray
  <1>2. count' = count \/ count' \in 1 .. 2 \/ count' \in 1 .. 3
    BY <1>1, RenewAllCount, MulticallCount
  <1>3. QED
    BY <1>2

\* The promise and the screens agree, once the count is known to be small.
LEMMA ScreensAgree ==
  ASSUME selectorIndex \in SelectorIndexes, IsArray => count \in 0 .. 3
  PROVE  FinalizeScreens = Len(ScreensOf)
  <1>1. CASE selectorIndex = "RENEW_ALL"
    <2> DEFINE names    == [i \in 1 .. count |-> set_name_ui(i - 1, "Name")]
               duration == << set_bytes32_as_int_unit_ui("duration", "Duration") >>
    <2>1. count \in 0 .. 3
      BY <1>1 DEF IsArray
    <2>2. FinalizeScreens = 1 + count
      BY <1>1, <2>1 DEF FinalizeScreens, U8, UINT8_MAX
    <2>3. ScreensOf = names \o duration
      BY <1>1 DEF ScreensOf, RenewAllScreens
    <2>4. /\ names \in Seq({ names[i] : i \in 1 .. count })
          /\ duration \in Seq({duration[1]})
          /\ Len(names) = count
          /\ Len(duration) = 1
      BY <2>1
    <2>5. Len(ScreensOf) = count + 1
      BY <2>1, <2>3, <2>4
    <2>6. QED
      BY <2>1, <2>2, <2>5
  <1>2. CASE selectorIndex = "MULTICALL"
    <2>1. count \in 0 .. 3
      BY <1>2 DEF IsArray
    <2>2. FinalizeScreens = count
      BY <1>2, <2>1 DEF FinalizeScreens, U8, UINT8_MAX
    <2>3. ScreensOf = [i \in 1 .. count |-> set_bytes_ui(i - 1, "Call")]
      BY <1>2 DEF ScreensOf, MulticallScreens
    <2>4. Len(ScreensOf) = count
      BY <2>1, <2>3
    <2>5. QED
      BY <2>2, <2>4
  <1>3. CASE selectorIndex \notin {"RENEW_ALL", "MULTICALL"}
    BY <1>3 DEF SelectorIndexes, selector_t, FinalizeScreens, ScreensOf, CommitScreens,
                RegisterScreens, RegisterWithConfigScreens, RenewScreens, SetNameScreens,
                ClaimScreens, ClaimResolverScreens, SetOwnerScreens, SetResolverScreens,
                SetSubnodeScreens, SetAddrScreens, SetContentHashScreens, SetTextScreens
  <1>4. QED
    BY <1>1, <1>2, <1>3

\* A step that leaves the context and what was promised alone.
LEMMA KeepScreens ==
  ASSUME ScreensInv, UNCHANGED <<context, numScreens>>, Parsing' => Parsing \/ Reviewing,
         Reviewing' => Reviewing
  PROVE  ScreensInv'
  BY DEF ScreensInv, context, fields, IsArray, FinalizeScreens

\* Every step keeps the strengthening.
LEMMA NextScreens == IInv /\ ScreensInv /\ [Next]_vars => ScreensInv'
  <1> SUFFICES ASSUME IInv, ScreensInv, [Next]_vars PROVE ScreensInv'
    OBVIOUS
  <1>1. ASSUME NEW s, NEW v, NEW r, InitContract(s, v, r) PROVE ScreensInv'
    <2>1. ~Reviewing'
      BY <1>1 DEF InitContract, Continue, Reviewing
    <2>2. Parsing' => count' = 0
      BY <1>1 DEF InitContract, Continue, Parsing, handle_init_contract, ClearContext
    <2>3. QED
      BY <2>1, <2>2 DEF ScreensInv
  <1>2. ASSUME NEW w, SendWord(w) PROVE ScreensInv'
    <2>1. /\ Parsing
          /\ ~Reviewing'
          /\ Parsing' => result' = "OK"
          /\ handle_provide_parameter(w)
      BY <1>2 DEF SendWord, ProvideParameter, Continue, Parsing, Reviewing
    <2>2. IsArray' => IsArray
      BY <2>1 DEF handle_provide_parameter, IsArray
    <2>3. QED
      BY <2>1, <2>2, InvParserOK, ParameterCount DEF ScreensInv
  <1>3. CASE Finalize
    BY <1>3 DEF Finalize, Continue, ScreensInv, Parsing, Reviewing, context, fields, IsArray,
                FinalizeScreens
  <1>4. CASE ProvideToken \/ QueryContractId \/ QueryContractUi
    <2>1. UNCHANGED <<context, numScreens>> /\ Reviewing /\ ~Parsing'
      BY <1>4 DEF ProvideToken, QueryContractId, QueryContractUi, Continue, Reviewing, Parsing
    <2>2. QED
      BY <2>1, KeepScreens
  <1>5. CASE UNCHANGED vars
    BY <1>5, KeepScreens DEF vars, host, Parsing, Reviewing
  <1>6. QED
    BY <1>1, <1>2, <1>3, <1>4, <1>5 DEF Next

\* Whatever calldata the host sends, and wherever it ends, the review has
\* exactly the screens handle_finalize promised: handle_query_contract_ui is
\* never asked for a screenIndex it has no case for.
THEOREM ScreensPromised == Spec => []PromisedScreensExist
  <1>1. Init => ScreensInv
    BY DEF Init, HostInit, ScreensInv, Parsing, Reviewing
  <1>2. IInv /\ ScreensInv => PromisedScreensExist
    BY InvParserOK, ScreensAgree DEF ScreensInv, PromisedScreensExist, Reviewing, ParserOK
  <1>3. QED
    BY <1>1, <1>2, IInvInvariant, NextScreens, PTL DEF Spec
=============================================================================
