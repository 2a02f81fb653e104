---------------------------- MODULE EnsPlaceProofs ----------------------------
(***************************************************************************)
(* Proof that what the plugin keeps of a dynamic field are bytes of that   *)
(* field, in their place (NoWrongByte), read where the head of the         *)
(* calldata says that the field is (FieldWhereHeadPoints).                 *)
(*                                                                         *)
(* The argument: a uint16_t that wraps around names a word that has gone   *)
(* by.  A word is sought at most 2^16 bytes after one that was read, so    *)
(* when the sought word comes its offset has not wrapped: the first word   *)
(* of a field is the one the head points at (PlaceInv), and its last two   *)
(* words are as far from it as the length says (SoughtInv).                *)
(***************************************************************************)
EXTENDS EnsOnePassProofs

\* The field whose offset is zeroed once it is used.
Forgotten(k) == selectorIndex = "PROVE_AND_CLAIM_RESOLVER" /\ k = Name

\* The words of an array come after its number of elements.
ArrayStarted ==
    IsArray /\ Now \in 11 .. 15 /\ (Now = 11 => id > 0) => offsets_start < parameterOffset

\* The length of an element is sought where its offset says.
ElementSought ==
    IsArray /\ Now = 12
        => /\ go_to_offset
           /\ \A k \in Slots : k = id => offset = U16(offsets_start + offsets[k])

\* And so is that of a proof.
ProofSought ==
    next_param = "PROOF_LEN" => go_to_offset /\ offset = U16(offsets[Proof] + SELECTOR_SIZE)

\* The first data of a field comes where the head says.
DataPlaced ==
    Now \in {13, 18}
        => /\ ~go_to_offset
           /\ \A k \in Slots :
                 k = ReadSlot => Forgotten(k) \/ parameterOffset = DataStart(k)

PlaceInv ==
    /\ parameterOffset >= SELECTOR_SIZE
    /\ ArrayStarted
    /\ ElementSought
    /\ ProofSought
    /\ DataPlaced

\* Where the word of a long field that is expected next starts.
Target(k) ==
    text[k][0] + (len[k] \div PARAMETER_LENGTH - IF Now \in {14, 19} THEN 1 ELSE 0)
                    * PARAMETER_LENGTH

\* The second-last or last word of a long field is sought where it starts.
SoughtField(k) ==
    /\ ellipsis[k]
    /\ len[k] > PARAMETER_LENGTH
    /\ 0 <= text[k][0]
    /\ text[k][0] < parameterOffset
    /\ IF go_to_offset THEN offset = U16(Target(k)) ELSE parameterOffset = Target(k)

SoughtInv ==
    selectorIndex # "SET_ADDR" /\ Now \in {14, 15, 19, 20}
        => \A k \in Slots : k = ReadSlot => SoughtField(k)

\* What the runs check, and what makes it inductive.
Kept == NoWrongByte /\ FieldWhereHeadPoints

PlacedInv == Kept /\ (Parsing => PlaceInv /\ SoughtInv)

\* What a word must establish; the host stops at an error.
PlacedStep == Kept' /\ (result' = "OK" => PlaceInv' /\ SoughtInv')

\* The word after this one.
NextWord == parameterOffset' = parameterOffset + PARAMETER_LENGTH

\* What holds when a word is handled.
WordOK ==
    /\ ParserOK
    /\ ElementOK
    /\ Fresh
    /\ TextBlank
    /\ Kept
    /\ PlaceInv
    /\ SoughtInv

(***************************************************************************)
(* Numbers.                                                                *)
(***************************************************************************)

\* An offset sought less than 2^16 after a word that has gone by has not
\* wrapped around when its word comes.
LEMMA SoughtExact ==
  ASSUME NEW at \in Int, NEW before \in Int, NEW target \in Int,
         0 <= before, before < at, before <= target, target <= before + UINT16_MAX,
         at = U16(target)
  PROVE  target = at
  BY DEF U16, UINT16_MAX

\* A uint16_t is its whole words and the bytes that are left.
LEMMA WholeWords ==
  ASSUME NEW n \in UInt16
  PROVE  /\ n \in Int
         /\ n \div PARAMETER_LENGTH \in Int
         /\ n % PARAMETER_LENGTH \in Int
         /\ 0 <= n % PARAMETER_LENGTH
         /\ n % PARAMETER_LENGTH < PARAMETER_LENGTH
         /\ n = (n \div PARAMETER_LENGTH) * PARAMETER_LENGTH + (n % PARAMETER_LENGTH)
         /\ 0 <= n \div PARAMETER_LENGTH
         /\ n \div PARAMETER_LENGTH <= 2047
         /\ n > PARAMETER_LENGTH => 1 <= n \div PARAMETER_LENGTH
  <1>1. n \in Int /\ 0 <= n /\ n <= 65535
    BY UInt16Type DEF UINT16_MAX
  <1>2. QED
    BY <1>1 DEF PARAMETER_LENGTH

\* The word it is at, and what is saved of the head, are numbers.
LEMMA Numbers ==
  ASSUME ParserOK, NEW k \in Slots
  PROVE  /\ parameterOffset \in Int
         /\ offsets[k] \in Int /\ 0 <= offsets[k] /\ offsets[k] <= UINT16_MAX
         /\ offsets_start \in Int /\ 0 <= offsets_start
         /\ len[k] \in UInt16
         /\ text[k] \in [Cells -> Int]
         /\ id \in Int
  <1>1. parameterOffset \in Nat /\ offsets[k] \in UInt16 /\ offsets_start \in UInt16 /\ id \in UInt8
        /\ len[k] \in UInt16 /\ text[k] \in [Cells -> Int]
    BY DEF ParserOK, FieldsOK, Cells
  <1>2. QED
    BY <1>1, UInt16Type, UInt8Type

\* A field is in a slot from its length on.
LEMMA ReadSlotType ==
  ASSUME ParserOK, ElementOK, Now \in {12, 17}
  PROVE  ReadSlot \in Slots
  <1>1. CASE IsArray
    <2>1. Now = 12 /\ next_param \in Elements
      BY <1>1, ArrayStages
    <2>2. QED
      BY <1>1, <2>1, ElementInSlots DEF ArrayOK, ReadSlot, Slots
  <1>2. CASE ~IsArray
    BY <1>2 DEF ReadSlot, Slots
  <1>3. QED
    BY <1>1, <1>2

(***************************************************************************)
(* Words that fill no buffer.                                              *)
(***************************************************************************)

\* What is kept stays in its place when no buffer changes, and what it is
\* compared with changes only for blank ones.
LEMMA KeptStays ==
  ASSUME Kept, UNCHANGED <<selectorIndex, text>>,
         \A k \in Slots :
            \/ \A j \in Cells : text[k][j] = 0
            \/ UNCHANGED <<offsets_start, offsets[k], len[k], ellipsis[k]>>
  PROVE  Kept'
  <1>1. \A k \in Slots, j \in Cells : text'[k][j] # 0
           => UNCHANGED <<offsets_start, offsets[k], len[k], ellipsis[k]>>
    OBVIOUS
  <1>2. 0 \in Cells
    BY DEF Cells, PARAMETER_LENGTH
  <1>3. NoWrongByte'
    BY <1>1 DEF Kept, NoWrongByte, Cells
  <1>4. FieldWhereHeadPoints'
    BY <1>1, <1>2 DEF Kept, FieldWhereHeadPoints, DataStart, IsArray
  <1>5. QED
    BY <1>3, <1>4 DEF Kept

\* A word that is not read.
LEMMA QuietPlaced ==
  ASSUME WordOK, UNCHANGED selectorIndex, NextWord, Quiet
  PROVE  PlacedStep
  <1>1. UNCHANGED <<next_param, fields, offset>>
    BY DEF Quiet, Refuse, SkipToOffset, IgnoreWord, cursor
  <1>2. UNCHANGED <<IsArray, Now, ReadSlot, statics, text, offsets, len, ellipsis, id, offsets_start>>
    BY <1>1 DEF fields, Now, ReadSlot, IsArray
  <1>3. Kept'
    BY <1>2, KeptStays DEF WordOK
  <1>4. CASE Refuse
    BY <1>3, <1>4 DEF Refuse, PlacedStep
  <1>5. CASE SkipToOffset
    <2>1. go_to_offset /\ go_to_offset'
      BY <1>5 DEF SkipToOffset, cursor
    <2>2. parameterOffset \in Int /\ parameterOffset' \in Int /\ parameterOffset < parameterOffset'
      BY Numbers DEF WordOK, NextWord, PARAMETER_LENGTH, ParserOK
    <2>3. ArrayStarted'
      <3>1. offsets_start \in Int
        BY Numbers DEF WordOK, Slots
      <3>2. QED
        BY <1>2, <2>2, <3>1 DEF WordOK, PlaceInv, ArrayStarted
    <2>4. ElementSought' /\ ProofSought'
      BY <1>1, <1>2, <2>1 DEF WordOK, PlaceInv, ElementSought, ProofSought
    <2>5. DataPlaced'
      BY <1>2, <2>1 DEF WordOK, PlaceInv, DataPlaced
    <2>6. parameterOffset' >= SELECTOR_SIZE
      BY <2>2 DEF WordOK, PlaceInv, SELECTOR_SIZE
    <2>7. SoughtInv'
      <3> SUFFICES ASSUME selectorIndex # "SET_ADDR", Now \in {14, 15, 19, 20},
                          NEW k \in Slots, k = ReadSlot
                   PROVE  SoughtField(k)'
        BY <1>2 DEF SoughtInv
      <3>1. SoughtField(k)
        BY DEF WordOK, SoughtInv
      <3>2. Target(k)' = Target(k)
        BY <1>2 DEF Target
      <3>3. text[k][0] \in Int
        BY Numbers DEF WordOK, Cells, PARAMETER_LENGTH
      <3>4. text'[k][0] < parameterOffset'
        BY <1>2, <2>2, <3>1, <3>3 DEF SoughtField
      <3>5. QED
        BY <1>1, <1>2, <2>1, <3>1, <3>2, <3>4 DEF SoughtField
    <2>8. QED
      BY <1>3, <2>3, <2>4, <2>5, <2>6, <2>7 DEF PlacedStep, PlaceInv
  <1>6. CASE IgnoreWord
    <2>1. next_param = "NONE" /\ Now = 21 /\ Now' = 21 /\ next_param' = "NONE"
      BY <1>1, <1>2, <1>6, StageOf DEF IgnoreWord, Now
    <2>2. PlaceInv'
      BY <2>1, Numbers
      DEF WordOK, PlaceInv, ArrayStarted, ElementSought, ProofSought, DataPlaced, NextWord,
          PARAMETER_LENGTH, SELECTOR_SIZE, ParserOK
    <2>3. QED
      BY <1>3, <2>1, <2>2 DEF PlacedStep, SoughtInv
  <1>7. QED
    BY <1>4, <1>5, <1>6 DEF Quiet

\* Before the first buffer is filled nothing is kept.
LEMMA BlankStays ==
  ASSUME WordOK, UNCHANGED <<selectorIndex, text>>, Now \in 1 .. 11
  PROVE  Kept'
  <1>1. \A k \in Slots, j \in Cells : text[k][j] = 0
    BY HeadBlank DEF WordOK, TextBlank, Cells
  <1>2. QED
    BY <1>1, KeptStays DEF WordOK

\* A word of the head.
LEMMA HeadPlaced ==
  ASSUME WordOK, UNCHANGED selectorIndex, NextWord, NEW w, HeadWord(w)
  PROVE  PlacedStep
  <1>1. /\ Now \in 1 .. 10
        /\ Now' \in 1 .. 12 \cup {21}
        /\ IsArray => Now' \in 1 .. 11
        /\ UNCHANGED <<text, id>>
    BY DEF HeadWord, Now
  <1>2. Kept'
    BY <1>1, BlankStays
  <1>3. IsArray' = IsArray
    BY DEF IsArray
  <1>4. IsArray => id = 0
    <2>1. next_param \notin Elements \cup {"NONE"}
      BY <1>1, StageOf DEF Elements, Now
    <2>2. QED
      BY <2>1 DEF WordOK, ElementOK
  <1>5. PlaceInv'
    <2>1. parameterOffset' >= SELECTOR_SIZE
      BY DEF WordOK, PlaceInv, NextWord, PARAMETER_LENGTH, SELECTOR_SIZE, ParserOK
    <2>2. ArrayStarted'
      BY <1>1, <1>3, <1>4 DEF ArrayStarted
    <2>3. ElementSought' /\ DataPlaced'
      BY <1>1, <1>3 DEF ElementSought, DataPlaced
    <2>4. next_param' # "PROOF_LEN"
      BY <1>1, StageOf DEF Now
    <2>5. QED
      BY <2>1, <2>2, <2>3, <2>4 DEF PlaceInv, ProofSought
  <1>6. SoughtInv'
    BY <1>1 DEF SoughtInv
  <1>7. QED
    BY <1>2, <1>5, <1>6 DEF PlacedStep

\* The offset of an element.
LEMMA OffsetPlaced ==
  ASSUME WordOK, UNCHANGED selectorIndex, NextWord, NEW w \in Word, OffsetWord(w)
  PROVE  PlacedStep
  <1>1. CASE Refuse
    BY <1>1, QuietPlaced DEF Quiet
  <1>2. CASE ~Refuse
    <2>1. PICK p \in Params : Stage(p) = 12 /\ ReadElementOffset(w, p)
      BY DEF OffsetWord
    <2>2. /\ offsets_start' = IF id = 0 THEN U16(parameterOffset) ELSE offsets_start
          /\ offsets' = [offsets EXCEPT ![id] = w.low]
          /\ UNCHANGED text
          /\ \/ next_param' = "OFFSETS"
             \/ next_param' = p /\ id' = 0 /\ Seek(offsets_start' + offsets'[0], p)
      BY <1>2, <2>1 DEF ReadElementOffset, Advance, Seek
    <2>3. IsArray /\ IsArray' /\ Now = 11 /\ Now' \in {11, 12}
      BY <2>1, <2>2, StageOf DEF OffsetWord, Seek, Now, IsArray
    <2>4. Kept'
      BY <2>2, <2>3, BlankStays
    <2>5. parameterOffset \in Int /\ parameterOffset' = parameterOffset + 32 /\ parameterOffset >= 4
      BY DEF WordOK, ParserOK, PlaceInv, NextWord, PARAMETER_LENGTH, SELECTOR_SIZE
    <2>6. offsets_start' < parameterOffset'
      <3>1. CASE id = 0
        <4>1. U16(parameterOffset) <= parameterOffset /\ U16(parameterOffset) \in Int
          BY <2>5 DEF U16, UINT16_MAX
        <4>2. QED
          BY <2>2, <2>5, <3>1, <4>1
      <3>2. CASE id # 0
        <4>1. id \in Int /\ 0 <= id /\ offsets_start \in Int
          BY UInt8Type, UInt16Type DEF WordOK, ParserOK, FieldsOK
        <4>2. offsets_start < parameterOffset
          BY <2>3, <3>2, <4>1 DEF WordOK, PlaceInv, ArrayStarted
        <4>3. QED
          BY <2>2, <2>5, <3>2, <4>1, <4>2
      <3>3. QED
        BY <3>1, <3>2
    <2>7. ElementSought'
      <3>1. Now' = 12 => id' = 0 /\ Seek(offsets_start' + offsets'[0], p)
        BY <2>2, StageOf DEF Now
      <3>2. QED
        BY <3>1 DEF ElementSought, Seek
    <2>8. next_param' # "PROOF_LEN"
      BY <2>3, StageOf DEF Now
    <2>9. PlaceInv'
      BY <2>3, <2>5, <2>6, <2>7, <2>8
      DEF PlaceInv, ArrayStarted, ProofSought, DataPlaced, SELECTOR_SIZE
    <2>10. QED
      BY <2>3, <2>4, <2>9 DEF PlacedStep, SoughtInv
  <1>3. QED
    BY <1>1, <1>2

\* The number of inputs of a claim.
LEMMA InputPlaced ==
  ASSUME WordOK, UNCHANGED selectorIndex, NextWord, NEW w, InputWord(w)
  PROVE  PlacedStep
  <1>1. CASE Refuse
    BY <1>1, QuietPlaced DEF Quiet
  <1>2. CASE ~Refuse
    <2>1. CopyWord(w, "n_inputs", 0) /\ Seek(offsets[Proof] + SELECTOR_SIZE, "PROOF_LEN")
      BY <1>2 DEF InputWord, ReadInputs
    <2>2. UNCHANGED <<text, offsets, len, ellipsis, offsets_start>>
      BY <2>1 DEF CopyWord
    <2>3. Kept'
      BY <2>2, KeptStays DEF WordOK
    <2>4. Now' = 17 /\ ~IsArray'
      BY <2>1, StageOf DEF Seek, Now, InputWord, IsArray
    <2>5. ProofSought'
      BY <2>1, <2>2 DEF ProofSought, Seek
    <2>6. parameterOffset' >= SELECTOR_SIZE
      BY DEF WordOK, PlaceInv, NextWord, PARAMETER_LENGTH, SELECTOR_SIZE, ParserOK
    <2>7. PlaceInv' /\ SoughtInv'
      BY <2>4, <2>5, <2>6 DEF PlaceInv, ArrayStarted, ElementSought, DataPlaced, SoughtInv
    <2>8. QED
      BY <2>3, <2>7 DEF PlacedStep
  <1>3. QED
    BY <1>1, <1>2

\* A length is read where the head says it is.
LEMMA LengthWhere ==
  ASSUME WordOK, NEW w, LengthWord(w), NEW s \in Slots, s = ReadSlot
  PROVE  Forgotten(s) \/ parameterOffset + PARAMETER_LENGTH = DataStart(s)
  <1>1. /\ parameterOffset \in Int
        /\ parameterOffset >= SELECTOR_SIZE
        /\ offsets[s] \in Int /\ 0 <= offsets[s] /\ offsets[s] <= UINT16_MAX
        /\ offsets_start \in Int /\ 0 <= offsets_start
    BY Numbers DEF WordOK, PlaceInv
  <1>2. AtOffset /\ Now \in {12, 17}
    BY DEF LengthWord
  <1>3. CASE IsArray
    <2>1. Now = 12 /\ s = id
      BY <1>2, <1>3, ArrayStages DEF WordOK, ReadSlot
    <2>2. offsets_start < parameterOffset
      BY <1>3, <2>1 DEF WordOK, PlaceInv, ArrayStarted
    <2>3. parameterOffset = U16(offsets_start + offsets[s])
      BY <1>2, <1>3, <2>1 DEF WordOK, PlaceInv, ElementSought, AtOffset
    <2>4. offsets_start + offsets[s] = parameterOffset
      BY <1>1, <2>2, <2>3, SoughtExact DEF UINT16_MAX
    <2>5. QED
      BY <1>1, <1>3, <2>4 DEF DataStart
  <1>4. CASE ~IsArray /\ next_param = "PROOF_LEN"
    <2>1. s = Proof
      BY <1>4, StageOf DEF ReadSlot, Now, Proof
    <2>2. parameterOffset = U16(offsets[s] + SELECTOR_SIZE)
      BY <1>2, <1>4, <2>1 DEF WordOK, PlaceInv, ProofSought, AtOffset
    <2>3. offsets[s] + SELECTOR_SIZE = parameterOffset
      BY <1>1, <2>2 DEF SELECTOR_SIZE, U16, UINT16_MAX
    <2>4. QED
      BY <1>1, <1>4, <2>3 DEF DataStart
  <1>5. CASE selectorIndex = "PROVE_AND_CLAIM_RESOLVER" /\ next_param = "NAME_LENGTH"
    BY <1>5, StageOf DEF Forgotten, ReadSlot, Now, IsArray, Name
  <1>6. CASE ~IsArray /\ parameterOffset = offsets[ReadSlot] + SELECTOR_SIZE
    BY <1>6 DEF DataStart
  <1>7. QED
    BY <1>3, <1>4, <1>5, <1>6 DEF LengthWord

\* The length of a dynamic field.
LEMMA LengthPlaced ==
  ASSUME WordOK, UNCHANGED selectorIndex, NextWord, NEW w \in Word, LengthWord(w)
  PROVE  PlacedStep
  <1>1. CASE Refuse
    BY <1>1, QuietPlaced DEF Quiet
  <1>2. CASE ~Refuse
    <2>1. PICK p \in Params : Stage(p) = Now + 1 /\ ReadLength(w, ReadSlot, p)
      BY DEF LengthWord
    <2>2. PICK s \in Slots : s = ReadSlot
      BY ReadSlotType DEF WordOK, LengthWord
    <2>3. /\ len' = [len EXCEPT ![s] = w.low]
          /\ next_param' = p
          /\ go_to_offset' = FALSE
          /\ UNCHANGED <<offsets, text, ellipsis, id, offsets_start>>
      BY <1>2, <2>1, <2>2 DEF ReadLength, Advance
    <2>4. Now \in {12, 17} /\ Now' = Now + 1
      BY <2>1, <2>3 DEF LengthWord, Now
    <2>5. IsArray' = IsArray /\ (IsArray => Now = 12)
      BY <2>4, ArrayStages DEF IsArray, WordOK
    <2>6. s = ReadSlot'
      BY <2>2, <2>3, <2>4, <2>5 DEF ReadSlot
    <2>7. parameterOffset' = DataStart(s)' \/ Forgotten(s)'
      BY <2>2, <2>3, <2>5, LengthWhere DEF NextWord, DataStart, Forgotten
    <2>8. DataPlaced'
      BY <2>3, <2>6, <2>7 DEF DataPlaced
    <2>9. parameterOffset' >= SELECTOR_SIZE /\ parameterOffset' > parameterOffset
      BY DEF WordOK, PlaceInv, NextWord, PARAMETER_LENGTH, SELECTOR_SIZE, ParserOK
    <2>10. ArrayStarted'
      <3>1. parameterOffset' \in Int /\ parameterOffset \in Int /\ offsets_start \in Int
        BY <2>2, Numbers DEF WordOK, NextWord, PARAMETER_LENGTH
      <3>2. IsArray => offsets_start < parameterOffset
        BY <2>5 DEF WordOK, PlaceInv, ArrayStarted
      <3>3. QED
        BY <2>3, <2>5, <2>9, <3>1, <3>2 DEF ArrayStarted
    <2>11. next_param' # "PROOF_LEN"
      BY <2>4, StageOf DEF Now
    <2>12. PlaceInv' /\ SoughtInv'
      BY <2>4, <2>8, <2>9, <2>10, <2>11 DEF PlaceInv, ElementSought, ProofSought, SoughtInv
    <2>13. \A j \in Cells : text[s][j] = 0
      <3>1. id \in Int
        BY <2>2, Numbers DEF WordOK
      <3>2. Unread(s)
        BY <2>2, <2>4, <2>5, <3>1 DEF Unread, ReadSlot
      <3>3. QED
        BY <3>2 DEF WordOK, TextBlank, FirstBlank, Cells
    <2>14. \A k \in Slots \ {s} : UNCHANGED <<offsets_start, offsets[k], len[k], ellipsis[k]>>
      BY <2>3 DEF WordOK, ParserOK, FieldsOK
    <2>15. Kept'
      BY <2>3, <2>13, <2>14, KeptStays DEF WordOK
    <2>16. QED
      BY <2>12, <2>15 DEF PlacedStep
  <1>3. QED
    BY <1>1, <1>2

(***************************************************************************)
(* The words of a dynamic field.                                           *)
(***************************************************************************)

\* A buffer without a wrong byte.
InPlace(b, e, l) ==
    \A j \in Cells :
       b[j] # 0 => b[j] = b[0] + j + (IF e /\ j >= HALF_PARAMETER_LENGTH
                                      THEN l - PARAMETER_LENGTH ELSE 0)

\* What was read of the head does not change.
SameHead == UNCHANGED <<selectorIndex, offsets, len, offsets_start>>

\* What is kept is in its place when the new buffer is.
LEMMA PutKept ==
  ASSUME ParserOK, Kept, SameHead, NEW s \in Slots, s = ReadSlot, NEW b, Put(b),
         \A k \in Slots \ {s} : ellipsis'[k] = ellipsis[k],
         selectorIndex # "SET_ADDR" => InPlace(b, ellipsis'[s], len[s]),
         b[0] # 0 /\ ~Forgotten(s) => b[0] = DataStart(s)
  PROVE  Kept'
  <1>1. text'[s] = b /\ \A k \in Slots \ {s} : text'[k] = text[k]
    BY DEF Put, ParserOK, FieldsOK
  <1>2. \A k \in Slots : DataStart(k)' = DataStart(k)
    BY DEF SameHead, DataStart, IsArray
  <1>3. NoWrongByte'
    <2> SUFFICES ASSUME selectorIndex # "SET_ADDR", NEW k \in Slots
                 PROVE  InPlace(text'[k], ellipsis'[k], len[k])
      BY DEF NoWrongByte, InPlace, Cells, SameHead
    <2>1. CASE k = s
      BY <1>1, <2>1
    <2>2. CASE k # s
      <3>1. InPlace(text[k], ellipsis[k], len[k])
        BY DEF Kept, NoWrongByte, InPlace, Cells
      <3>2. text'[k] = text[k] /\ ellipsis'[k] = ellipsis[k]
        BY <1>1, <2>2
      <3>3. QED
        BY <3>1, <3>2
    <2>3. QED
      BY <2>1, <2>2
  <1>4. FieldWhereHeadPoints'
    <2> SUFFICES ASSUME NEW k \in Slots, text'[k][0] # 0, ~Forgotten(k)
                 PROVE  text'[k][0] = DataStart(k)
      BY <1>2 DEF FieldWhereHeadPoints, Forgotten, SameHead
    <2>1. CASE k = s
      BY <1>1, <2>1
    <2>2. CASE k # s
      BY <1>1, <2>2 DEF Kept, FieldWhereHeadPoints, Forgotten
    <2>3. QED
      BY <2>1, <2>2
  <1>5. QED
    BY <1>3, <1>4 DEF Kept

\* After a field the length of the next element is sought, if there is one.
LEMMA AfterFieldPlaced ==
  ASSUME WordOK, SameHead, NextWord, Now \in {13, 15, 18, 20}, AfterField
  PROVE  PlaceInv' /\ SoughtInv'
  <1>1. /\ Now' \in {12, 16, 17, 21}
        /\ IsArray => \/ Now' = 21
                      \/ Now' = 12 /\ id' = id + 1 /\ id + 1 \in Slots
        /\ ~IsArray => Now' # 12
    BY AfterFieldMoves DEF WordOK
  <1>2. IsArray' = IsArray
    BY DEF IsArray, SameHead
  <1>3. /\ parameterOffset \in Int /\ parameterOffset >= SELECTOR_SIZE
        /\ parameterOffset' = parameterOffset + 32
        /\ offsets_start \in Int
    BY UInt16Type
    DEF WordOK, ParserOK, FieldsOK, PlaceInv, NextWord, PARAMETER_LENGTH, SELECTOR_SIZE
  <1>4. parameterOffset' >= SELECTOR_SIZE
    BY <1>3 DEF SELECTOR_SIZE
  <1>5. ArrayStarted'
    <2>1. IsArray => Now \in {13, 15}
      BY ArrayStages DEF WordOK
    <2>2. IsArray => offsets_start < parameterOffset
      BY <2>1 DEF WordOK, PlaceInv, ArrayStarted
    <2>3. QED
      BY <1>2, <1>3, <2>2 DEF ArrayStarted, SameHead
  <1>6. ElementSought'
    <2> SUFFICES ASSUME IsArray, Now' = 12, NEW k \in Slots, k = id'
                 PROVE  go_to_offset' /\ offset' = U16(offsets_start + offsets[k])
      BY <1>1, <1>2 DEF ElementSought, SameHead
    <2>1. PICK p \in Params : Stage(p) = 12 /\ NextElement(p)
      BY DEF AfterField
    <2>2. next_param' # "NONE" /\ k = id + 1
      BY <1>1, StageOf DEF Now
    <2>3. Seek(offsets_start + offsets[id + 1], p)
      BY <2>1, <2>2 DEF NextElement, Advance
    <2>4. QED
      BY <2>2, <2>3 DEF Seek
  <1>7. next_param' # "PROOF_LEN"
    <2>1. CASE IsArray
      BY <1>1, <2>1, StageOf DEF Now
    <2>2. CASE ~IsArray
      BY <2>2 DEF AfterField, Then, Advance
    <2>3. QED
      BY <2>1, <2>2
  <1>8. QED
    BY <1>1, <1>4, <1>5, <1>6, <1>7 DEF PlaceInv, ProofSought, DataPlaced, SoughtInv

\* In the middle of a field.
LEMMA MiddlePlaced ==
  ASSUME WordOK, SameHead, NextWord, UNCHANGED id, NEW s \in Slots, s = ReadSlot,
         Now \in {13, 14, 18, 19}, Now' \in {14, 15, 19, 20}, Now \in {13, 14} <=> Now' \in {14, 15},
         selectorIndex # "SET_ADDR" => SoughtField(s)'
  PROVE  PlaceInv' /\ SoughtInv'
  <1>1. IsArray' = IsArray /\ (IsArray => Now \in {13, 14})
    BY ArrayStages DEF IsArray, SameHead, WordOK
  <1>2. s = ReadSlot'
    BY <1>1 DEF ReadSlot
  <1>3. /\ parameterOffset \in Int /\ parameterOffset >= SELECTOR_SIZE
        /\ parameterOffset' = parameterOffset + 32
        /\ offsets_start \in Int
    BY Numbers DEF WordOK, PlaceInv, NextWord, PARAMETER_LENGTH
  <1>4. parameterOffset' >= SELECTOR_SIZE
    BY <1>3 DEF SELECTOR_SIZE
  <1>5. ArrayStarted'
    <2>1. IsArray => offsets_start < parameterOffset
      BY <1>1 DEF WordOK, PlaceInv, ArrayStarted
    <2>2. QED
      BY <1>1, <1>3, <2>1 DEF ArrayStarted, SameHead
  <1>6. next_param' # "PROOF_LEN"
    BY StageOf DEF Now
  <1>7. SoughtInv'
    BY <1>2 DEF SoughtInv, SameHead
  <1>8. QED
    BY <1>4, <1>5, <1>6, <1>7 DEF PlaceInv, ElementSought, ProofSought, DataPlaced

\* The buffer of a field before its first word, and where that word is.
LEMMA FirstData ==
  ASSUME WordOK, Now \in {13, 18}, NEW s \in Slots, s = ReadSlot
  PROVE  /\ \A j \in Cells : text[s][j] = 0
         /\ Forgotten(s) \/ parameterOffset = DataStart(s)
  BY DataBlank DEF WordOK, TextBlank, Cells, PlaceInv, DataPlaced

\* A field that is all in this word.
LEMMA ShortPlaced ==
  ASSUME WordOK, SameHead, NextWord, ReadSlot \in Slots, ShortData
  PROVE  PlacedStep
  <1>1. PICK s \in Slots : s = ReadSlot
    OBVIOUS
  <1>2. PICK n \in 0 .. PARAMETER_LENGTH : Put(Filled(text[s], 0, n, 0))
    BY <1>1 DEF ShortData
  <1> DEFINE b == Filled(text[s], 0, n, 0)
  <1>3. /\ \A j \in Cells : text[s][j] = 0 /\ j \in Int /\ 0 <= j
        /\ Forgotten(s) \/ parameterOffset = DataStart(s)
        /\ parameterOffset \in Int
        /\ n \in Int
        /\ 0 \in Cells
    BY <1>1, FirstData DEF ShortData, Cells, PARAMETER_LENGTH, WordOK, ParserOK
  <1>4. \A j \in Cells : b[j] = IF j < n THEN parameterOffset + j ELSE 0
    BY <1>3 DEF Filled
  <1>5. ellipsis'[s] = FALSE /\ \A k \in Slots \ {s} : ellipsis'[k] = ellipsis[k]
    BY <1>1 DEF ShortData, WordOK, ParserOK, FieldsOK
  <1>6. Put(b)
    BY <1>2
  <1> HIDE DEF b
  <1>7. InPlace(b, ellipsis'[s], len[s])
    BY <1>3, <1>4, <1>5 DEF InPlace
  <1>8. b[0] # 0 /\ ~Forgotten(s) => b[0] = DataStart(s)
    BY <1>3, <1>4
  <1>9. Kept'
    BY <1>1, <1>5, <1>6, <1>7, <1>8, PutKept DEF WordOK
  <1>10. PlaceInv' /\ SoughtInv'
    BY AfterFieldPlaced DEF ShortData
  <1>11. QED
    BY <1>9, <1>10 DEF PlacedStep

\* The first word of a longer one.
LEMMA LongPlaced ==
  ASSUME WordOK, SameHead, NextWord, ReadSlot \in Slots, NEW length \in UInt16, LongData(length)
  PROVE  PlacedStep
  <1>1. PICK s \in Slots : s = ReadSlot
    OBVIOUS
  <1> DEFINE missing == length % PARAMETER_LENGTH
             containers == length \div PARAMETER_LENGTH
             h == Head16(text[s])
  <1>2. /\ missing \in Int /\ 0 <= missing /\ missing < 32
        /\ containers \in Int
        /\ length = containers * 32 + missing
        /\ length > 32 => 1 <= containers
    BY WholeWords DEF PARAMETER_LENGTH
  <1>3. /\ \A j \in Cells : text[s][j] = 0 /\ j \in Int /\ 0 <= j
        /\ Forgotten(s) \/ parameterOffset = DataStart(s)
        /\ parameterOffset \in Int
        /\ 0 \in Cells
    BY <1>1, FirstData DEF LongData, Cells, PARAMETER_LENGTH, WordOK, ParserOK
  <1>4. \A j \in Cells : h[j] = IF j < 16 THEN parameterOffset + j ELSE 0
    BY <1>3 DEF Head16, Filled, HALF_PARAMETER_LENGTH
  <1>5. /\ ellipsis'[s] = TRUE
        /\ \A k \in Slots \ {s} : ellipsis'[k] = ellipsis[k]
        /\ len[s] > 32
        /\ selectorIndex # "SET_ADDR" => length = len[s]
        /\ UNCHANGED id
        /\ Now \in {13, 18}
    BY <1>1 DEF LongData, WordOK, ParserOK, FieldsOK, PARAMETER_LENGTH
  <1>6. /\ go_to_offset' = TRUE
        /\ \/ Now' = Now + 1 /\ offset' = U16(parameterOffset + (containers - 1) * 32)
           \/ Now' = Now + 2 /\ offset' = U16(parameterOffset + containers * 32)
           \/ /\ Now' = Now + 2 /\ containers < 2
              /\ offset' = U16(parameterOffset + 32)
    BY DEF LongData, Seek, Now, PARAMETER_LENGTH
  <1>7. PICK b : /\ Put(b)
                 /\ \/ b = h
                    \/ /\ missing < 16
                       /\ containers < 2
                       /\ \E n \in 0 .. 16 - missing : b = Filled(h, 16, n, 16 + missing)
    BY <1>1 DEF LongData, HALF_PARAMETER_LENGTH
  <1> HIDE DEF missing, containers, h
  <1>8. \A j \in Cells : \/ j < 16 /\ b[j] = parameterOffset + j
                         \/ j >= 16 /\ b[j] = 0
                         \/ j >= 16 /\ containers < 2 /\ b[j] = parameterOffset + missing + j
    <2>1. CASE b = h
      BY <1>3, <1>4, <2>1
    <2>2. CASE /\ containers < 2
               /\ \E n \in 0 .. 16 - missing : b = Filled(h, 16, n, 16 + missing)
      <3>1. PICK n \in 0 .. 16 - missing : b = Filled(h, 16, n, 16 + missing)
        BY <2>2
      <3>2. n \in Int
        BY <1>2
      <3>3. \A j \in Cells : b[j] = IF 16 <= j /\ j < 16 + n
                                    THEN parameterOffset + (16 + missing) + (j - 16) ELSE h[j]
        BY <3>1 DEF Filled
      <3>4. QED
        BY <1>2, <1>3, <1>4, <2>2, <3>2, <3>3
    <2>3. QED
      BY <1>7, <2>1, <2>2
  <1>9. b[0] = parameterOffset
    BY <1>3, <1>8
  <1>10. selectorIndex # "SET_ADDR" => InPlace(b, ellipsis'[s], len[s])
    <2> SUFFICES ASSUME selectorIndex # "SET_ADDR" PROVE InPlace(b, ellipsis'[s], len[s])
      OBVIOUS
    <2>1. containers < 2 => len[s] - 32 = missing
      BY <1>2, <1>5
    <2>2. QED
      BY <1>2, <1>3, <1>5, <1>8, <1>9, <2>1
      DEF InPlace, PARAMETER_LENGTH, HALF_PARAMETER_LENGTH
  <1>11. Kept'
    BY <1>1, <1>3, <1>5, <1>7, <1>9, <1>10, PutKept DEF WordOK
  <1>12. Now' \in {14, 15, 19, 20} /\ (Now' \in {14, 19} <=> Now' = Now + 1)
    BY <1>5, <1>6
  <1>13. selectorIndex # "SET_ADDR" => SoughtField(s)'
    <2> SUFFICES ASSUME selectorIndex # "SET_ADDR" PROVE SoughtField(s)'
      OBVIOUS
    <2>1. text'[s][0] = parameterOffset
      BY <1>1, <1>7, <1>9 DEF Put, WordOK, ParserOK, FieldsOK
    <2>2. len' = len /\ len[s] \div PARAMETER_LENGTH = containers
      BY <1>5 DEF SameHead, containers
    <2>3. Target(s)' = IF Now' = Now + 1 THEN parameterOffset + (containers - 1) * 32
                       ELSE parameterOffset + containers * 32
      BY <1>2, <1>12, <2>1, <2>2 DEF Target, PARAMETER_LENGTH
    <2>4. offset' = U16(Target(s)')
      <3>1. containers < 2 => containers * 32 = 32
        BY <1>2, <1>5
      <3>2. Now \in Int
        BY <1>5
      <3>3. QED
        BY <1>6, <2>3, <3>1, <3>2
    <2>5. 0 <= text'[s][0] /\ text'[s][0] < parameterOffset'
      BY <1>3, <2>1 DEF NextWord, PARAMETER_LENGTH, WordOK, ParserOK
    <2>6. QED
      BY <1>5, <1>6, <2>2, <2>4, <2>5 DEF SoughtField, PARAMETER_LENGTH
  <1>14. PlaceInv' /\ SoughtInv'
    <2>1. Now \in {13, 14} <=> Now' \in {14, 15}
      BY <1>5, <1>6
    <2>2. QED
      BY <1>1, <1>5, <1>12, <1>13, <2>1, MiddlePlaced
  <1>15. QED
    BY <1>11, <1>14 DEF PlacedStep

\* Where the sought word of a field is, and how many of its bytes are in the
\* last one.
LEMMA SoughtWhere ==
  ASSUME WordOK, AtOffset, Now \in {14, 15, 19, 20}, selectorIndex # "SET_ADDR",
         NEW s \in Slots, s = ReadSlot
  PROVE  /\ ellipsis[s] = TRUE
         /\ len[s] > PARAMETER_LENGTH
         /\ text[s][0] < parameterOffset
         /\ parameterOffset = Target(s)
         /\ bytes_missing = len[s] % PARAMETER_LENGTH
  <1>1. SoughtField(s)
    BY DEF WordOK, SoughtInv
  <1>2. text[s][0] \in Int /\ parameterOffset \in Int /\ 0 <= text[s][0]
    BY <1>1, Numbers DEF WordOK, Cells, PARAMETER_LENGTH, SoughtField
  <1>3. /\ len[s] \div PARAMETER_LENGTH \in Int
        /\ 1 <= len[s] \div PARAMETER_LENGTH
        /\ len[s] \div PARAMETER_LENGTH <= 2047
    BY <1>1, Numbers, WholeWords DEF SoughtField, WordOK
  <1>4. parameterOffset = Target(s)
    <2>1. CASE go_to_offset
      <3>1. /\ Target(s) \in Int
            /\ text[s][0] <= Target(s)
            /\ Target(s) <= text[s][0] + UINT16_MAX
        BY <1>2, <1>3 DEF Target, PARAMETER_LENGTH, UINT16_MAX
      <3>2. parameterOffset = U16(Target(s)) /\ text[s][0] < parameterOffset
        BY <1>1, <2>1 DEF SoughtField, AtOffset
      <3>3. QED
        BY <1>2, <3>1, <3>2, SoughtExact
    <2>2. CASE ~go_to_offset
      BY <1>1, <2>2 DEF SoughtField
    <2>3. QED
      BY <2>1, <2>2
  <1>5. bytes_missing = len[s] % PARAMETER_LENGTH
    <2>1. next_param \in Params
      BY CasesOf DEF WordOK, ParserOK, Expected
    <2>2. next_param \in Partial
      BY <2>1, OfStage DEF Now, Partial
    <2>3. CurrentSlot = s
      BY <2>1, OfStage DEF CurrentSlot, ReadSlot, Now
    <2>4. QED
      BY <2>2, <2>3 DEF WordOK, Fresh
  <1>6. ellipsis[s] = TRUE
    BY <1>1 DEF SoughtField, WordOK, ParserOK, FieldsOK
  <1>7. QED
    BY <1>1, <1>4, <1>5, <1>6 DEF SoughtField

\* Its second-last word.
LEMMA SecondPlaced ==
  ASSUME WordOK, AtOffset, SameHead, NextWord, ReadSlot \in Slots, SecondData
  PROVE  PlacedStep
  <1>1. PICK s \in Slots : s = ReadSlot
    OBVIOUS
  <1> DEFINE missing == bytes_missing
             containers == len[s] \div PARAMETER_LENGTH
  <1>2. /\ Now \in {14, 19}
        /\ Now' = Now + 1
        /\ go_to_offset' = FALSE
        /\ UNCHANGED <<ellipsis, id, bytes_missing>>
    BY DEF SecondData, Advance, Now
  <1>3. missing \in Int /\ 0 <= missing /\ parameterOffset \in Int
    BY DEF WordOK, ParserOK, FieldsOK, PARAMETER_LENGTH
  <1>4. PICK n \in 0 .. HALF_PARAMETER_LENGTH - missing :
           Put(Filled(text[s], HALF_PARAMETER_LENGTH, n, HALF_PARAMETER_LENGTH + missing))
    BY <1>1 DEF SecondData
  <1> DEFINE b == Filled(text[s], HALF_PARAMETER_LENGTH, n, HALF_PARAMETER_LENGTH + missing)
  <1>5. n \in Int
    BY <1>3 DEF HALF_PARAMETER_LENGTH
  <1>6. 0 \in Cells /\ \A j \in Cells : j \in Int /\ text[s][j] \in Int
    BY Numbers DEF WordOK, Cells, PARAMETER_LENGTH
  <1>7. /\ \A j \in Cells : \/ b[j] = text[s][j]
                            \/ j >= 16 /\ b[j] = parameterOffset + missing + j
        /\ b[0] = text[s][0]
    <2>1. \A j \in Cells : b[j] = IF 16 <= j /\ j < 16 + n
                                  THEN parameterOffset + (16 + missing) + (j - 16) ELSE text[s][j]
      BY DEF Filled, HALF_PARAMETER_LENGTH
    <2> HIDE DEF b
    <2>2. QED
      BY <1>3, <1>5, <1>6, <2>1
  <1>8. Put(b)
    BY <1>4
  <1> HIDE DEF b
  <1>9. b[0] # 0 /\ ~Forgotten(s) => b[0] = DataStart(s)
    BY <1>7 DEF WordOK, Kept, FieldWhereHeadPoints, Forgotten
  <1>10. ASSUME selectorIndex # "SET_ADDR"
         PROVE  InPlace(b, ellipsis'[s], len[s]) /\ SoughtField(s)'
    <2>1. /\ ellipsis[s] = TRUE
          /\ len[s] > PARAMETER_LENGTH
          /\ text[s][0] < parameterOffset
          /\ 0 <= text[s][0]
          /\ parameterOffset = Target(s)
          /\ missing = len[s] % PARAMETER_LENGTH
      BY <1>1, <1>2, <1>10, SoughtWhere DEF WordOK, SoughtInv, SoughtField
    <2>2. /\ containers \in Int
          /\ len[s] \in Int
          /\ len[s] = containers * 32 + missing
      BY <2>1, Numbers, WholeWords DEF WordOK, PARAMETER_LENGTH
    <2>3. parameterOffset = text[s][0] + (containers - 1) * 32
      BY <1>2, <2>1 DEF Target, PARAMETER_LENGTH
    <2>4. InPlace(text[s], TRUE, len[s])
      BY <1>10, <2>1 DEF WordOK, Kept, NoWrongByte, InPlace, Cells
    <2> HIDE DEF containers
    <2>5. \A j \in Cells : b[j] # 0 => b[j] = b[0] + j + (IF j >= 16 THEN len[s] - 32 ELSE 0)
      <3> SUFFICES ASSUME NEW j \in Cells, b[j] # 0
                   PROVE  b[j] = b[0] + j + (IF j >= 16 THEN len[s] - 32 ELSE 0)
        OBVIOUS
      <3>1. CASE b[j] = text[s][j]
        BY <1>7, <2>4, <3>1 DEF InPlace, PARAMETER_LENGTH, HALF_PARAMETER_LENGTH
      <3>2. CASE j >= 16 /\ b[j] = parameterOffset + missing + j
        BY <1>3, <1>6, <1>7, <2>2, <2>3, <3>2
      <3>3. QED
        BY <1>7, <3>1, <3>2
    <2>6. InPlace(b, ellipsis'[s], len[s])
      BY <1>2, <2>1, <2>5 DEF InPlace, PARAMETER_LENGTH, HALF_PARAMETER_LENGTH
    <2>7. text'[s][0] = text[s][0]
      BY <1>1, <1>7, <1>8 DEF Put, WordOK, ParserOK, FieldsOK
    <2>8. Target(s)' = text[s][0] + containers * 32
      BY <1>2, <2>2, <2>7 DEF Target, SameHead, PARAMETER_LENGTH, containers
    <2>9. parameterOffset' = Target(s)'
      BY <1>6, <2>2, <2>3, <2>8 DEF NextWord, PARAMETER_LENGTH
    <2>10. text'[s][0] < parameterOffset'
      BY <1>3, <1>6, <2>1, <2>7 DEF NextWord, PARAMETER_LENGTH
    <2>11. SoughtField(s)'
      BY <1>2, <2>1, <2>7, <2>9, <2>10 DEF SoughtField, SameHead
    <2>12. QED
      BY <2>6, <2>11
  <1>11. Kept'
    BY <1>1, <1>2, <1>8, <1>9, <1>10, PutKept DEF WordOK
  <1>12. PlaceInv' /\ SoughtInv'
    <2>1. Now' \in {15, 20} /\ (Now \in {13, 14} <=> Now' \in {14, 15})
      BY <1>2
    <2>2. QED
      BY <1>1, <1>2, <1>10, <2>1, MiddlePlaced
  <1>13. QED
    BY <1>11, <1>12 DEF PlacedStep

\* Its last word.
LEMMA LastPlaced ==
  ASSUME WordOK, AtOffset, SameHead, NextWord, ReadSlot \in Slots, LastData
  PROVE  PlacedStep
  <1>1. PICK s \in Slots : s = ReadSlot
    OBVIOUS
  <1> DEFINE missing == bytes_missing
             containers == len[s] \div PARAMETER_LENGTH
  <1>2. Now \in {15, 20} /\ UNCHANGED ellipsis
    BY DEF LastData
  <1>3. missing \in Int /\ 0 <= missing /\ missing <= 31 /\ parameterOffset \in Int
    BY DEF WordOK, ParserOK, FieldsOK, PARAMETER_LENGTH
  <1>4. LastCell \in Int /\ 16 <= LastCell /\ LastByte = LastCell + missing - 32
    BY <1>3 DEF LastCell, LastByte, PARAMETER_LENGTH, HALF_PARAMETER_LENGTH
  <1>5. PICK n \in 0 .. PARAMETER_LENGTH - LastCell : Put(Filled(text[s], LastCell, n, LastByte))
    BY <1>1 DEF LastData
  <1> DEFINE b == Filled(text[s], LastCell, n, LastByte)
  <1>6. 0 \in Cells /\ \A j \in Cells : j \in Int /\ text[s][j] \in Int
    BY Numbers DEF WordOK, Cells, PARAMETER_LENGTH
  <1>7. /\ \A j \in Cells : \/ b[j] = text[s][j]
                            \/ j >= 16 /\ b[j] = parameterOffset + missing - 32 + j
        /\ b[0] = text[s][0]
    <2>1. \A j \in Cells : b[j] = IF LastCell <= j /\ j < LastCell + n
                                  THEN parameterOffset + LastByte + (j - LastCell) ELSE text[s][j]
      BY DEF Filled
    <2>2. n \in Int
      BY <1>4 DEF PARAMETER_LENGTH
    <2> HIDE DEF b
    <2>3. QED
      BY <1>3, <1>4, <1>6, <2>1, <2>2
  <1>8. Put(b)
    BY <1>5
  <1> HIDE DEF b
  <1>9. b[0] # 0 /\ ~Forgotten(s) => b[0] = DataStart(s)
    BY <1>7 DEF WordOK, Kept, FieldWhereHeadPoints, Forgotten
  <1>10. ASSUME selectorIndex # "SET_ADDR" PROVE InPlace(b, ellipsis'[s], len[s])
    <2>1. /\ ellipsis[s] = TRUE
          /\ parameterOffset = Target(s)
          /\ missing = len[s] % PARAMETER_LENGTH
      BY <1>1, <1>2, <1>10, SoughtWhere
    <2>2. /\ containers \in Int
          /\ len[s] \in Int
          /\ len[s] = containers * 32 + missing
      BY <2>1, Numbers, WholeWords DEF WordOK, PARAMETER_LENGTH
    <2>3. parameterOffset = text[s][0] + containers * 32
      BY <1>2, <2>1, <2>2 DEF Target, PARAMETER_LENGTH
    <2>4. InPlace(text[s], TRUE, len[s])
      BY <1>10, <2>1 DEF WordOK, Kept, NoWrongByte, InPlace, Cells
    <2> HIDE DEF containers
    <2>5. \A j \in Cells : b[j] # 0 => b[j] = b[0] + j + (IF j >= 16 THEN len[s] - 32 ELSE 0)
      <3> SUFFICES ASSUME NEW j \in Cells, b[j] # 0
                   PROVE  b[j] = b[0] + j + (IF j >= 16 THEN len[s] - 32 ELSE 0)
        OBVIOUS
      <3>1. CASE b[j] = text[s][j]
        BY <1>7, <2>4, <3>1 DEF InPlace, PARAMETER_LENGTH, HALF_PARAMETER_LENGTH
      <3>2. CASE j >= 16 /\ b[j] = parameterOffset + missing - 32 + j
        BY <1>3, <1>6, <1>7, <2>2, <2>3, <3>2
      <3>3. QED
        BY <1>7, <3>1, <3>2
    <2>6. QED
      BY <1>2, <2>1, <2>5 DEF InPlace, PARAMETER_LENGTH, HALF_PARAMETER_LENGTH
  <1>11. Kept'
    BY <1>1, <1>2, <1>8, <1>9, <1>10, PutKept DEF WordOK
  <1>12. PlaceInv' /\ SoughtInv'
    BY <1>2, AfterFieldPlaced DEF LastData
  <1>13. QED
    BY <1>11, <1>12 DEF PlacedStep

\* A word of a dynamic field.
LEMMA FieldPlaced ==
  ASSUME WordOK, UNCHANGED selectorIndex, NextWord, FieldWord
  PROVE  PlacedStep
  <1>1. /\ UNCHANGED <<statics, offsets, len, count, offsets_start>>
        /\ ReadSlot \in Slots
        /\ \/ ShortData
           \/ \E length \in UInt16 : LongData(length)
           \/ SecondData
           \/ LastData
    BY FieldWordForms DEF WordOK
  <1>2. SameHead /\ AtOffset
    BY <1>1 DEF SameHead, FieldWord
  <1>3. QED
    BY <1>1, <1>2, ShortPlaced, LongPlaced, SecondPlaced, LastPlaced

(***************************************************************************)
(* The specification.                                                      *)
(***************************************************************************)

\* Whatever the word, what is kept stays in its place, and the next word of
\* a field is sought where it is.
LEMMA WordPlaced ==
  ASSUME IInv, Fresh, OnePassInv, PlacedInv, NEW w \in Words, SendWord(w)
  PROVE  PlacedInv'
  <1>1. handle_provide_parameter(w) /\ Parsing /\ NextWord /\ (Parsing' => result' = "OK")
    BY DEF SendWord, ProvideParameter, Parsing, NextWord, Continue
  <1>2. WordOK
    BY <1>1, InvParserOK DEF WordOK, IInv, OnePassInv, BlankInv, PlacedInv
  <1>3. UNCHANGED selectorIndex /\ Kinds(w)
    BY <1>1, <1>2, ParameterKinds DEF handle_provide_parameter, WordOK
  <1>4. w \in Word
    BY WordsAssumption
  <1>5. PlacedStep
    BY <1>1, <1>2, <1>3, <1>4, QuietPlaced, HeadPlaced, OffsetPlaced, LengthPlaced, InputPlaced,
       FieldPlaced
    DEF Kinds
  <1>6. QED
    BY <1>1, <1>5 DEF PlacedStep, PlacedInv

\* Blank memory has no byte in a wrong place.
LEMMA BlankKept ==
  ASSUME text = [k \in Slots |-> NoBytes]
  PROVE  Kept
  BY Zeros DEF Kept, NoWrongByte, FieldWhereHeadPoints, Cells, PARAMETER_LENGTH

\* Nor has it at the start of a session, before the first word.
LEMMA StartPlaced ==
  ASSUME PlacedInv, NEW s, NEW v, NEW r, InitContract(s, v, r)
  PROVE  PlacedInv'
  <1>1. handle_init_contract(s, v, r) /\ parameterOffset' = SELECTOR_SIZE
        /\ (Parsing' => result' = "OK")
    BY DEF InitContract, Continue, Parsing
  <1>2. CASE result' # "OK" /\ UNCHANGED context
    BY <1>1, <1>2
    DEF PlacedInv, Kept, NoWrongByte, FieldWhereHeadPoints, DataStart, IsArray, context, fields
  <1>3. CASE text' = [k \in Slots |-> NoBytes]
    <2>1. Kept'
      BY <1>3, Zeros DEF Kept, NoWrongByte, FieldWhereHeadPoints, Cells, PARAMETER_LENGTH
    <2>2. ASSUME Parsing' PROVE PlaceInv' /\ SoughtInv'
      <3>1. next_param' \in {"COMMITMENT", "CALL_OFFSET", "NODE", "NAME_OFFSET"}
        BY <1>1, <2>2 DEF handle_init_contract, ClearContext, FirstParam
      <3>2. Now' \in 1 .. 3 /\ next_param' # "PROOF_LEN"
        BY <3>1, StageOf DEF Now
      <3>3. QED
        BY <1>1, <3>2
        DEF PlaceInv, ArrayStarted, ElementSought, ProofSought, DataPlaced, SoughtInv,
            SELECTOR_SIZE
    <2>3. QED
      BY <2>1, <2>2 DEF PlacedInv
  <1>4. QED
    BY <1>1, <1>2, <1>3, InitContractBlank

\* Every step keeps what is kept in its place.
LEMMA NextPlaced == IInv /\ Fresh /\ OnePassInv /\ PlacedInv /\ [Next]_vars => PlacedInv'
  <1> SUFFICES ASSUME IInv, Fresh, OnePassInv, PlacedInv, [Next]_vars PROVE PlacedInv'
    OBVIOUS
  <1>1. ASSUME NEW s, NEW v, NEW r, InitContract(s, v, r) PROVE PlacedInv'
    BY <1>1, StartPlaced
  <1>2. ASSUME NEW w \in Words, SendWord(w) PROVE PlacedInv'
    BY <1>2, WordPlaced
  <1>3. CASE Finalize \/ ProvideToken \/ QueryContractId \/ QueryContractUi
    BY <1>3
    DEF Finalize, ProvideToken, QueryContractId, QueryContractUi, Continue, PlacedInv, Parsing,
        Kept, NoWrongByte, FieldWhereHeadPoints, DataStart, IsArray, context, fields
  <1>4. CASE UNCHANGED vars
    <2>1. UNCHANGED <<context, host>>
      BY <1>4 DEF vars
    <2>2. Kept'
      BY <2>1
      DEF PlacedInv, Kept, NoWrongByte, FieldWhereHeadPoints, DataStart, IsArray, context, fields
    <2>3. PlaceInv => PlaceInv'
      BY <2>1
      DEF PlaceInv, ArrayStarted, ElementSought, ProofSought, DataPlaced, Forgotten, DataStart,
          ReadSlot, Now, IsArray, context, cursor, fields, host
    <2>4. SoughtInv => SoughtInv'
      BY <2>1
      DEF SoughtInv, SoughtField, Target, ReadSlot, Now, IsArray, context, cursor, fields, host
    <2>5. QED
      BY <2>1, <2>2, <2>3, <2>4 DEF PlacedInv, Parsing, host
  <1>5. QED
    BY <1>1, <1>2, <1>3, <1>4 DEF Next

\* The initial states are no session, with blank memory.
LEMMA InitPlaced == Init => PlacedInv
  BY BlankKept DEF Init, HostInit, PlacedInv, Parsing

\* What is kept is in its place in every behaviour.
LEMMA PlacedInvariant == Spec => []PlacedInv
  <1>1. Init => OnePassInv /\ Fresh
    BY InitOnePass, WholeNotPartial DEF Init, HostInit, Fresh, Whole
  <1>2. QED
    BY <1>1, InitOK, NextOK, NextFresh, NextOnePass, InitPlaced, NextPlaced, PTL DEF Spec

\* Whatever calldata the host sends, the 32-byte buffers the copies of
\* handle_provide_parameter.c fill never hold a byte of another field, or a
\* byte of this one out of its place.
THEOREM EveryByteInPlace == Spec => []NoWrongByte
  <1>1. PlacedInv => NoWrongByte
    BY DEF PlacedInv, Kept
  <1>2. QED
    BY <1>1, PlacedInvariant, PTL

\* Whatever calldata the host sends, and wherever a uint16_t offset of
\* handle_provide_parameter.c wraps around on the way, what is kept of a
\* field was read where the head of the transaction says the field is (the
\* name of proveAndClaimWithResolver, whose offset is forgotten, excepted).
THEOREM HeadObeyed == Spec => []FieldWhereHeadPoints
  <1>1. PlacedInv => FieldWhereHeadPoints
    BY DEF PlacedInv, Kept
  <1>2. QED
    BY <1>1, PlacedInvariant, PTL

=============================================================================
