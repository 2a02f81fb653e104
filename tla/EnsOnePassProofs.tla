--------------------------- MODULE EnsOnePassProofs ---------------------------
(***************************************************************************)
(* Proof that the plugin is a reader in one pass, whatever the host sends: *)
(* that EnsStream implements OnePass, and that within a session nothing    *)
(* that was read is read over.                                             *)
(*                                                                         *)
(* The argument: what a case fills is blank when it runs.  A fixed-size    *)
(* field is blank up to the stage of its case, and a cell of a buffer up   *)
(* to the word that is copied into it; both are BlankInv.  Only the        *)
(* elements of an array go back in the stages, and then to the buffer of   *)
(* another element.                                                        *)
(***************************************************************************)
EXTENDS EnsStreamProofs

(***************************************************************************)
(* What a word of the calldata can be.  The fifteen handlers take their    *)
(* cases in one order, of which each has a part, and only the elements of  *)
(* an array go back in it.  Stage numbers that order; one lemma for each   *)
(* handler says that the word it handles is of one of a few kinds, with    *)
(* the stages it goes between.  What follows for the bytes that are kept   *)
(* is proved of the kinds, here and in EnsPlaceProofs.                     *)
(***************************************************************************)

\* The place of a case in the order in which the handlers take them.  A
\* dynamic field is a length and three cases one after the other.
Stage(p) ==
    CASE p \in {"COMMITMENT", "NODE"} -> 1
      [] p \in {"LABEL", "COINTYPE"} -> 2
      [] p \in {"NAME_OFFSET", "KEY_OFFSET", "HASH_OFFSET", "CALL_OFFSET"} -> 3
      [] p \in {"INPUT_OFFSET", "VALUE_OFFSET"} -> 4
      [] p \in {"PROOF_OFFSET", "OWNER"} -> 5
      [] p = "DURATION" -> 6
      [] p = "SECRET" -> 7
      [] p = "RESOLVER" -> 8
      [] p \in {"ADDR", "TTL"} -> 9
      [] p \in {"N_NAME", "N_CALL"} -> 10
      [] p = "OFFSETS" -> 11
      [] p \in {"NAME_LENGTH", "KEY_LENGTH", "HASH_LEN", "CALL_LEN"} -> 12
      [] p \in {"NAME", "KEY", "HASH", "CALL"} -> 13
      [] p \in {"NAME_OFFSET_1", "KEY_1", "HASH_1", "CALL_1"} -> 14
      [] p \in {"NAME_OFFSET_2", "KEY_2", "HASH_2", "CALL_2"} -> 15
      [] p = "INPUT" -> 16
      [] p \in {"PROOF_LEN", "VALUE_LENGTH"} -> 17
      [] p \in {"PROOF", "VALUE"} -> 18
      [] p \in {"PROOF_1", "VALUE_1"} -> 19
      [] p \in {"PROOF_2", "VALUE_2"} -> 20
      [] OTHER -> 21

\* The case that reads a fixed-size field.
Source(f) ==
    CASE f = "commitment" -> "COMMITMENT"
      [] f = "owner"      -> "OWNER"
      [] f = "duration"   -> "DURATION"
      [] f = "secret"     -> "SECRET"
      [] f = "resolver"   -> "RESOLVER"
      [] f = "addr"       -> "ADDR"
      [] f = "n_inputs"   -> "INPUT"
      [] f = "node"       -> "NODE"
      [] f = "label"      -> "LABEL"
      [] f = "ttl"        -> "TTL"
      [] f = "coinType"   -> "COINTYPE"

Now == Stage(next_param)

\* The slot of the dynamic field whose length or data is expected.
ReadSlot == IF Now \in 17 .. 20 THEN 1 ELSE IF IsArray THEN id ELSE 0

(***************************************************************************)
(* The kinds of words.                                                     *)
(***************************************************************************)

\* Nothing is read: a word that is refused, passed over, or comes after the
\* last one.
Quiet == Refuse \/ SkipToOffset \/ IgnoreWord

\* A word of the head, or the number of elements of an array.
HeadWord(w) ==
    /\ Now \in 1 .. 10
    /\ Stage(next_param') > Now
    /\ Stage(next_param') \in 1 .. 12 \cup {21}
    /\ IsArray => Stage(next_param') \in 1 .. 11
    /\ UNCHANGED <<len, text, ellipsis, id, bytes_missing>>
    /\ \/ UNCHANGED statics
       \/ \E f \in Statics, first \in {0, 12} : Source(f) = next_param /\ CopyWord(w, f, first)

\* The offset of an element.
OffsetWord(w) ==
    /\ IsArray
    /\ next_param = "OFFSETS"
    /\ \E p \in Params : Stage(p) = 12 /\ ReadElementOffset(w, p)

\* The length of a dynamic field.  The handlers compare its position with the
\* head, but that of a proof and of an element was sought.
LengthWord(w) ==
    /\ AtOffset
    /\ Now \in {12, 17}
    /\ \E p \in Params : Stage(p) = Now + 1 /\ ReadLength(w, ReadSlot, p)
    /\ \/ IsArray
       \/ next_param = "PROOF_LEN"
       \/ selectorIndex = "PROVE_AND_CLAIM_RESOLVER" /\ next_param = "NAME_LENGTH"
       \/ parameterOffset = offsets[ReadSlot] + SELECTOR_SIZE

\* The number of inputs of a claim.
InputWord(w) ==
    /\ ~IsArray
    /\ next_param = "INPUT"
    /\ \E o \in {offsets[Input], input_offset} : ReadInputs(o, w)

\* Where a handler goes on after a dynamic field.
AfterField ==
    \/ /\ IsArray
       /\ \E p \in Params : Stage(p) = 12 /\ NextElement(p)
    \/ /\ ~IsArray
       /\ \E p \in {"INPUT", "VALUE_LENGTH", "NONE"} : Stage(p) > Now /\ Then(p)

\* The dynamic fields.
DataFields ==
    {NameField, ProofField, HashField, KeyField, ValueField, NameElement, CallElement}

\* The field whose data is expected.
CurrentField(f) ==
    /\ f.slot = ReadSlot
    /\ f.slot \in Slots
    /\ f.byLength \in BOOLEAN
    /\ Stage(f.data) \in {13, 18}
    /\ Stage(f.second) = Stage(f.data) + 1
    /\ Stage(f.last) = Stage(f.data) + 2

\* A word of data of it.  setAddr reads it with a length that is not its own.
FieldWord ==
    /\ AtOffset
    /\ \E f \in DataFields, length \in {len[ReadSlot], statics["coinType"].alias} :
          /\ CurrentField(f)
          /\ selectorIndex # "SET_ADDR" => length = len[ReadSlot]
          /\ ReadField(f, length, AfterField)

Kinds(w) ==
    Quiet \/ HeadWord(w) \/ OffsetWord(w) \/ LengthWord(w) \/ InputWord(w) \/ FieldWord

(***************************************************************************)
(* The cases of each stage, and of each fixed-size field.                  *)
(***************************************************************************)

\* The stage of each case.
LEMMA StageOf ==
  /\ \A p \in {"COMMITMENT", "NODE"} : Stage(p) = 1
  /\ \A p \in {"LABEL", "COINTYPE"} : Stage(p) = 2
  /\ \A p \in {"NAME_OFFSET", "KEY_OFFSET", "HASH_OFFSET", "CALL_OFFSET"} : Stage(p) = 3
  /\ \A p \in {"INPUT_OFFSET", "VALUE_OFFSET"} : Stage(p) = 4
  /\ \A p \in {"PROOF_OFFSET", "OWNER"} : Stage(p) = 5
  /\ Stage("DURATION") = 6
  /\ Stage("SECRET") = 7
  /\ Stage("RESOLVER") = 8
  /\ \A p \in {"ADDR", "TTL"} : Stage(p) = 9
  /\ \A p \in {"N_NAME", "N_CALL"} : Stage(p) = 10
  /\ Stage("OFFSETS") = 11
  /\ \A p \in {"NAME_LENGTH", "KEY_LENGTH", "HASH_LEN", "CALL_LEN"} : Stage(p) = 12
  /\ \A p \in {"NAME", "KEY", "HASH", "CALL"} : Stage(p) = 13
  /\ \A p \in {"NAME_OFFSET_1", "KEY_1", "HASH_1", "CALL_1"} : Stage(p) = 14
  /\ \A p \in {"NAME_OFFSET_2", "KEY_2", "HASH_2", "CALL_2"} : Stage(p) = 15
  /\ Stage("INPUT") = 16
  /\ \A p \in {"PROOF_LEN", "VALUE_LENGTH"} : Stage(p) = 17
  /\ \A p \in {"PROOF", "VALUE"} : Stage(p) = 18
  /\ \A p \in {"PROOF_1", "VALUE_1"} : Stage(p) = 19
  /\ \A p \in {"PROOF_2", "VALUE_2"} : Stage(p) = 20
  /\ Stage("NONE") = 21
  BY DEF Stage

\* Stages are numbers.
LEMMA StageType == \A p : Stage(p) \in 1 .. 21
  BY DEF Stage

\* The cases of all handlers.
LEMMA CasesAre ==
  ASSUME NEW p \in Params
  PROVE  p \in Whole \cup SecondParams \cup LastParams
  <1>1. PICK s \in SelectorIndexes : p \in ParamsOf(s)
    BY DEF Params
  <1>2. s \in {"COMMIT", "REGISTER", "REGISTER_WITH_CONFIG", "RENEW", "SET_NAME", "RENEW_ALL",
               "PROVE_AND_CLAIM", "PROVE_AND_CLAIM_RESOLVER", "SET_OWNER", "SET_RESOLVER",
               "SET_SUBNODE", "SET_ADDR", "SET_TEXT", "MULTICALL", "SET_CONTENT_HASH"}
    BY DEF SelectorIndexes, selector_t
  <1>3. QED
    BY <1>1, <1>2
    DEF ParamsOf, NameParams, ProofParams, HashParams, KeyParams, ValueParams, CallParams,
        ClaimParams, Whole, SecondParams, LastParams

\* Stages are numbers, and no other case has the stage of an array's offsets,
\* of the inputs, of the middle of a field, or of the end.
LEMMA OfStage ==
  ASSUME NEW p \in Params
  PROVE  /\ Stage(p) \in 1 .. 21
         /\ Stage(p) = 11 => p = "OFFSETS"
         /\ Stage(p) = 16 => p = "INPUT"
         /\ Stage(p) = 21 => p = "NONE"
         /\ Stage(p) \in {14, 19} <=> p \in SecondParams
         /\ Stage(p) \in {15, 20} <=> p \in LastParams
         /\ Stage(p) \in {19, 20} <=> p \in {"PROOF_1", "PROOF_2", "VALUE_1", "VALUE_2"}
  BY CasesAre, StageOf DEF Whole, SecondParams, LastParams

\* The case that reads each fixed-size field.
LEMMA SourceOf ==
  /\ Source("commitment") = "COMMITMENT"
  /\ Source("owner") = "OWNER"
  /\ Source("duration") = "DURATION"
  /\ Source("secret") = "SECRET"
  /\ Source("resolver") = "RESOLVER"
  /\ Source("addr") = "ADDR"
  /\ Source("n_inputs") = "INPUT"
  /\ Source("node") = "NODE"
  /\ Source("label") = "LABEL"
  /\ Source("ttl") = "TTL"
  /\ Source("coinType") = "COINTYPE"
  BY DEF Source

(***************************************************************************)
(* The templates.                                                          *)
(***************************************************************************)

\* A handler may go on from case p of the head to case q.
Follows(p, q) ==
    /\ q \in Params
    /\ Stage(p) \in 1 .. 10
    /\ Stage(q) > Stage(p)
    /\ Stage(q) \in 1 .. 12 \cup {21}
    /\ IsArray => Stage(q) \in 1 .. 11

\* A case that copies a word or an address.
LEMMA CopyKind ==
  ASSUME NEW w, NEW f \in Statics, Source(f) = next_param, NEW p, Follows(next_param, p),
         CopyParameter(w, f, p) \/ CopyAddress(w, f, p)
  PROVE  HeadWord(w)
  <1>1. PICK first \in {0, 12} : CopyWord(w, f, first) /\ Advance(p)
    BY DEF CopyParameter, CopyAddress
  <1>2. UNCHANGED <<len, text, ellipsis, id, bytes_missing>> /\ next_param' = p
    BY <1>1 DEF CopyWord, Advance
  <1>3. QED
    BY <1>1, <1>2 DEF HeadWord, Follows, Now

\* A case that saves an offset.
LEMMA SaveKind ==
  ASSUME NEW w, NEW k, NEW p, Follows(next_param, p),
         SaveOffset(w, k, p) \/ SaveOffsetAnyway(w, k, p) \/ SaveArrayOffset(w, p)
  PROVE  Quiet \/ HeadWord(w)
  <1>1. CASE Refuse
    BY <1>1 DEF Quiet
  <1>2. CASE ~Refuse
    <2>1. /\ UNCHANGED <<statics, len, text, ellipsis, id, bytes_missing>>
          /\ next_param' = p
      BY <1>2 DEF SaveOffset, SaveOffsetAnyway, SaveArrayOffset, Advance
    <2>2. QED
      BY <2>1 DEF HeadWord, Follows, Now
  <1>3. QED
    BY <1>1, <1>2

\* The case that reads the number of elements.
LEMMA CountKind ==
  ASSUME NEW w, NEW limit, Follows(next_param, "OFFSETS"), ReadCount(w, limit)
  PROVE  Quiet \/ HeadWord(w)
  <1>1. CASE Refuse
    BY <1>1 DEF Quiet
  <1>2. CASE ~Refuse
    <2>1. /\ UNCHANGED <<statics, len, text, ellipsis, id, bytes_missing>>
          /\ next_param' = "OFFSETS"
      BY <1>2 DEF ReadCount, Advance
    <2>2. QED
      BY <2>1 DEF HeadWord, Follows, Now
  <1>3. QED
    BY <1>1, <1>2

\* A case that reads a length where the head says it is.
LEMMA LengthAtKind ==
  ASSUME AtOffset, ~IsArray, NEW w, NEW k, k = ReadSlot, NEW p \in Params,
         Now \in {12, 17}, Stage(p) = Now + 1,
         ReadLengthAt(offsets[k], w, k, p)
  PROVE  Quiet \/ LengthWord(w)
  BY DEF ReadLengthAt, Quiet, LengthWord

\* The case that reads the length of an element, or of a proof: it was sought.
LEMMA LengthKind ==
  ASSUME AtOffset, NEW w, NEW k, k = ReadSlot, NEW p \in Params,
         Now \in {12, 17}, Stage(p) = Now + 1,
         IsArray \/ next_param = "PROOF_LEN",
         ReadLength(w, k, p)
  PROVE  LengthWord(w)
  BY DEF LengthWord

\* The three cases of a dynamic field.
LEMMA FieldKind ==
  ASSUME AtOffset, NEW f \in DataFields, NEW length,
         next_param \in {f.data, f.second, f.last} => CurrentField(f),
         selectorIndex # "SET_ADDR" => length = len[f.slot],
         selectorIndex = "SET_ADDR" => length = statics["coinType"].alias,
         NEW p \in Params,
         \/ /\ ~IsArray
            /\ p \in {"INPUT", "VALUE_LENGTH", "NONE"}
            /\ Stage(p) > Stage(f.last)
            /\ ReadField(f, length, Then(p))
         \/ /\ IsArray
            /\ Stage(p) = 12
            /\ ReadField(f, length, NextElement(p))
  PROVE  FieldWord
  <1>1. next_param \in {f.data, f.second, f.last}
    BY DEF ReadField
  <1>2. CurrentField(f)
    BY <1>1
  <1>3. length \in {len[ReadSlot], statics["coinType"].alias}
    BY <1>2 DEF CurrentField
  <1>4. CASE ~IsArray
    <2>1. /\ p \in {"INPUT", "VALUE_LENGTH", "NONE"}
          /\ Stage(p) > Stage(f.last)
          /\ ReadField(f, length, Then(p))
      BY <1>4
    <2>2. Stage(p) > Now
      <3>1. Stage(p) \in Int /\ Stage(f.data) \in Int
        BY StageType
      <3>2. Now \in {Stage(f.data), Stage(f.data) + 1, Stage(f.data) + 2}
        BY <1>1, <1>2 DEF Now, CurrentField
      <3>3. Stage(p) > Stage(f.data) + 2
        BY <1>2, <2>1 DEF CurrentField
      <3>4. QED
        BY <3>1, <3>2, <3>3
    <2>3. Then(p) => AfterField
      <3>1. SUFFICES ASSUME Then(p)
                     PROVE  \E q \in {"INPUT", "VALUE_LENGTH", "NONE"} : Stage(q) > Now /\ Then(q)
        BY <1>4 DEF AfterField
      <3>2. p \in {"INPUT", "VALUE_LENGTH", "NONE"} /\ Stage(p) > Now /\ Then(p)
        BY <2>1, <2>2, <3>1
      <3>3. QED
        BY <3>2
    <2>4. ReadField(f, length, AfterField)
      BY <2>1, <2>3 DEF ReadField, ReadShort, ReadLast
    <2>5. QED
      BY <1>2, <1>3, <2>4 DEF FieldWord, CurrentField
  <1>5. CASE IsArray
    <2>1. ReadField(f, length, NextElement(p)) /\ Stage(p) = 12
      BY <1>5
    <2>2. NextElement(p) => AfterField
      BY <1>5, <2>1 DEF AfterField
    <2>3. ReadField(f, length, AfterField)
      BY <2>1, <2>2 DEF ReadField, ReadShort, ReadLast
    <2>4. QED
      BY <1>2, <1>3, <2>3 DEF FieldWord, CurrentField
  <1>6. QED
    BY <1>4, <1>5

\* A field of a slot, and the stage of its first data.
DataOf(f, k, s) ==
    /\ f.slot = k
    /\ f.byLength \in BOOLEAN
    /\ Stage(f.data) = s
    /\ Stage(f.second) = s + 1
    /\ Stage(f.last) = s + 2

\* Where each field is read.
LEMMA FieldsData ==
  /\ DataOf(NameField, Name, 13) /\ DataOf(HashField, Hash, 13) /\ DataOf(KeyField, Key, 13)
  /\ DataOf(ProofField, Proof, 18) /\ DataOf(ValueField, Value, 18)
  /\ DataOf(NameElement, id, 13) /\ DataOf(CallElement, id, 13)
  <1>1. /\ NameField.data = "NAME"
        /\ NameField.second = "NAME_OFFSET_1"
        /\ NameField.last = "NAME_OFFSET_2"
        /\ NameField.slot = Name
        /\ NameField.byLength \in BOOLEAN
    BY DEF NameField
  <1>2. /\ HashField.data = "HASH"
        /\ HashField.second = "HASH_1"
        /\ HashField.last = "HASH_2"
        /\ HashField.slot = Hash
        /\ HashField.byLength \in BOOLEAN
    BY DEF HashField
  <1>3. /\ KeyField.data = "KEY"
        /\ KeyField.second = "KEY_1"
        /\ KeyField.last = "KEY_2"
        /\ KeyField.slot = Key
        /\ KeyField.byLength \in BOOLEAN
    BY DEF KeyField
  <1>4. /\ ProofField.data = "PROOF"
        /\ ProofField.second = "PROOF_1"
        /\ ProofField.last = "PROOF_2"
        /\ ProofField.slot = Proof
        /\ ProofField.byLength \in BOOLEAN
    BY DEF ProofField
  <1>5. /\ ValueField.data = "VALUE"
        /\ ValueField.second = "VALUE_1"
        /\ ValueField.last = "VALUE_2"
        /\ ValueField.slot = Value
        /\ ValueField.byLength \in BOOLEAN
    BY DEF ValueField
  <1>6. /\ NameElement.data = "NAME"
        /\ NameElement.second = "NAME_OFFSET_1"
        /\ NameElement.last = "NAME_OFFSET_2"
        /\ NameElement.slot = id
        /\ NameElement.byLength \in BOOLEAN
    BY DEF NameElement, NameField
  <1>7. /\ CallElement.data = "CALL"
        /\ CallElement.second = "CALL_1"
        /\ CallElement.last = "CALL_2"
        /\ CallElement.slot = id
        /\ CallElement.byLength \in BOOLEAN
    BY DEF CallElement
  <1>8. QED
    BY <1>1, <1>2, <1>3, <1>4, <1>5, <1>6, <1>7, StageOf DEF DataOf

\* Any dynamic field outside an array.
LEMMA OwnFieldKind ==
  ASSUME AtOffset, ~IsArray, selectorIndex # "SET_ADDR", NEW p \in Params,
         \/ /\ p \in {"INPUT", "VALUE_LENGTH", "NONE"}
            /\ \/ ReadField(NameField, len[Name], Then(p))
               \/ ReadField(HashField, len[Hash], Then(p))
               \/ ReadField(KeyField, len[Key], Then(p))
         \/ /\ p = "NONE"
            /\ \/ ReadField(ProofField, len[Proof], Then(p))
               \/ ReadField(ValueField, len[Value], Then(p))
  PROVE  FieldWord
  <1> DEFINE Own == {NameField, ProofField, HashField, KeyField, ValueField}
  <1>1. Own \subseteq DataFields
    BY DEF DataFields
  <1>2. PICK f \in Own : /\ DataOf(f, 0, 13) \/ DataOf(f, 1, 18)
                         /\ p \in {"INPUT", "VALUE_LENGTH", "NONE"}
                         /\ Stage(p) > Stage(f.last)
                         /\ ReadField(f, len[f.slot], Then(p))
    BY FieldsData, StageOf DEF Name, Hash, Key, Proof, Value, DataOf
  <1>3. next_param \in {f.data, f.second, f.last} => CurrentField(f)
    BY <1>2 DEF CurrentField, DataOf, ReadSlot, Now, Slots
  <1>4. QED
    BY <1>1, <1>2, <1>3, FieldKind

\* An element of an array.
LEMMA ElementKind ==
  ASSUME AtOffset, IsArray, id \in Slots, NEW p \in Params, Stage(p) = 12,
         \/ ReadField(NameElement, len[id], NextElement(p))
         \/ ReadField(CallElement, len[id], NextElement(p))
  PROVE  FieldWord
  <1>1. PICK f \in {NameElement, CallElement} : ReadField(f, len[id], NextElement(p))
    OBVIOUS
  <1>2. f \in DataFields /\ DataOf(f, id, 13)
    BY FieldsData DEF DataFields
  <1>3. next_param \in {f.data, f.second, f.last} => CurrentField(f)
    BY <1>2 DEF CurrentField, DataOf, ReadSlot, Now
  <1>4. selectorIndex # "SET_ADDR" /\ f.slot = id
    BY <1>2 DEF IsArray, DataOf
  <1>5. QED
    BY <1>1, <1>2, <1>3, <1>4, FieldKind

(***************************************************************************)
(* The handlers.                                                           *)
(***************************************************************************)

\* The cases a handler can be in, or go on to, are cases.
LEMMA CasesOf ==
  ASSUME NEW s \in SelectorIndexes
  PROVE  ParamsOf(s) \subseteq Params
  BY DEF Params

\* Whatever word handle_commit is given, it is of one of the kinds.
LEMMA CommitKinds ==
  ASSUME ParserOK, NEW w, selectorIndex = "COMMIT", handle_commit(w)
  PROVE  Kinds(w)
  <1>1. {"NONE"} \subseteq Params
    BY CasesOf DEF ParserOK, ParamsOf
  <1>2. /\ Follows("COMMITMENT", "NONE")
    BY <1>1, StageOf DEF Follows, IsArray
  <1>3. CASE IgnoreWord
    BY <1>3 DEF Kinds, Quiet
  <1>4. CASE next_param = "COMMITMENT" /\ CopyParameter(w, "commitment", "NONE")
    BY <1>2, <1>4, SourceOf, CopyKind DEF Kinds, Statics
  <1>5. QED
    BY <1>3, <1>4 DEF handle_commit

\* Whatever word handle_owner is given, it is of one of the kinds.
LEMMA OwnerKinds ==
  ASSUME ParserOK, NEW w, selectorIndex = "SET_OWNER", handle_owner(w)
  PROVE  Kinds(w)
  <1>1. {"NONE", "OWNER"} \subseteq Params
    BY CasesOf DEF ParserOK, ParamsOf
  <1>2. /\ Follows("NODE", "OWNER")
        /\ Follows("OWNER", "NONE")
    BY <1>1, StageOf DEF Follows, IsArray
  <1>3. CASE IgnoreWord
    BY <1>3 DEF Kinds, Quiet
  <1>4. CASE \/ next_param = "NODE" /\ CopyParameter(w, "node", "OWNER")
             \/ next_param = "OWNER" /\ CopyAddress(w, "owner", "NONE")
    BY <1>2, <1>4, SourceOf, CopyKind DEF Kinds, Statics
  <1>5. QED
    BY <1>3, <1>4 DEF handle_owner

\* Whatever word handle_resolver is given, it is of one of the kinds.
LEMMA ResolverKinds ==
  ASSUME ParserOK, NEW w, selectorIndex = "SET_RESOLVER", handle_resolver(w)
  PROVE  Kinds(w)
  <1>1. {"NONE", "RESOLVER"} \subseteq Params
    BY CasesOf DEF ParserOK, ParamsOf
  <1>2. /\ Follows("NODE", "RESOLVER")
        /\ Follows("RESOLVER", "NONE")
    BY <1>1, StageOf DEF Follows, IsArray
  <1>3. CASE IgnoreWord
    BY <1>3 DEF Kinds, Quiet
  <1>4. CASE \/ next_param = "NODE" /\ CopyParameter(w, "node", "RESOLVER")
             \/ next_param = "RESOLVER" /\ CopyAddress(w, "resolver", "NONE")
    BY <1>2, <1>4, SourceOf, CopyKind DEF Kinds, Statics
  <1>5. QED
    BY <1>3, <1>4 DEF handle_resolver

\* Whatever word handle_subnode is given, it is of one of the kinds.
LEMMA SubnodeKinds ==
  ASSUME ParserOK, NEW w, selectorIndex = "SET_SUBNODE", handle_subnode(w)
  PROVE  Kinds(w)
  <1>1. {"NONE", "LABEL", "OWNER", "RESOLVER", "TTL"} \subseteq Params
    BY CasesOf DEF ParserOK, ParamsOf
  <1>2. /\ Follows("NODE", "LABEL")
        /\ Follows("LABEL", "OWNER")
        /\ Follows("OWNER", "RESOLVER")
        /\ Follows("RESOLVER", "TTL")
        /\ Follows("TTL", "NONE")
    BY <1>1, StageOf DEF Follows, IsArray
  <1>3. CASE IgnoreWord
    BY <1>3 DEF Kinds, Quiet
  <1>4. CASE \/ next_param = "NODE" /\ CopyParameter(w, "node", "LABEL")
             \/ next_param = "LABEL" /\ CopyParameter(w, "label", "OWNER")
             \/ next_param = "OWNER" /\ CopyAddress(w, "owner", "RESOLVER")
             \/ next_param = "RESOLVER" /\ CopyAddress(w, "resolver", "TTL")
             \/ next_param = "TTL" /\ CopyParameter(w, "ttl", "NONE")
    BY <1>2, <1>4, SourceOf, CopyKind DEF Kinds, Statics
  <1>5. QED
    BY <1>3, <1>4 DEF handle_subnode

\* The field of setAddr, which is read with a length that is not its own.
LEMMA SetAddrFieldKind ==
  ASSUME AtOffset, ~IsArray, selectorIndex = "SET_ADDR", NEW p \in Params, p = "NONE",
         ReadField(HashField, statics["coinType"].alias, Then(p))
  PROVE  FieldWord
  <1>1. HashField \in DataFields /\ DataOf(HashField, 0, 13)
    BY FieldsData DEF DataFields, Hash
  <1>2. next_param \in {HashField.data, HashField.second, HashField.last}
           => CurrentField(HashField)
    BY <1>1 DEF CurrentField, DataOf, ReadSlot, Now, Slots
  <1>3. Stage(p) > Stage(HashField.last)
    BY <1>1, StageOf DEF DataOf
  <1>4. QED
    BY <1>1, <1>2, <1>3, FieldKind

\* Whatever word handle_register is given, it is of one of the kinds.
LEMMA RegisterKinds ==
  ASSUME ParserOK, NEW w, selectorIndex = "REGISTER", handle_register(w)
  PROVE  Kinds(w)
  <1>1. {"NONE", "OWNER", "DURATION", "SECRET", "NAME_LENGTH", "NAME"} \subseteq Params
    BY CasesOf DEF ParserOK, ParamsOf, NameParams
  <1>2. /\ Follows("NAME_OFFSET", "OWNER")
        /\ Follows("OWNER", "DURATION")
        /\ Follows("DURATION", "SECRET")
        /\ Follows("SECRET", "NAME_LENGTH")
    BY <1>1, StageOf DEF Follows, IsArray
  <1>3. ~IsArray /\ selectorIndex # "SET_ADDR"
    BY DEF IsArray
  <1>4. CASE SkipToOffset \/ IgnoreWord
    BY <1>4 DEF Kinds, Quiet
  <1>5. CASE next_param = "NAME_OFFSET" /\ SaveOffset(w, Name, "OWNER")
    BY <1>2, <1>5, SaveKind DEF Kinds
  <1>6. CASE \/ next_param = "OWNER" /\ CopyAddress(w, "owner", "DURATION")
             \/ next_param = "DURATION" /\ CopyParameter(w, "duration", "SECRET")
             \/ next_param = "SECRET" /\ CopyParameter(w, "secret", "NAME_LENGTH")
    BY <1>2, <1>6, SourceOf, CopyKind DEF Kinds, Statics
  <1>7. CASE AtOffset /\ next_param = "NAME_LENGTH" /\ ReadLengthAt(offsets[Name], w, Name, "NAME")
    BY <1>1, <1>3, <1>7, StageOf, LengthAtKind DEF Kinds, Now, ReadSlot, Name
  <1>8. CASE AtOffset /\ ReadField(NameField, len[Name], Then("NONE"))
    BY <1>1, <1>3, <1>8, StageOf, OwnFieldKind DEF Kinds
  <1>9. QED
    BY <1>4, <1>5, <1>6, <1>7, <1>8 DEF handle_register

\* Whatever word handle_register_with_config is given, it is of one of the kinds.
LEMMA RegisterWithConfigKinds ==
  ASSUME ParserOK, NEW w, selectorIndex = "REGISTER_WITH_CONFIG", handle_register_with_config(w)
  PROVE  Kinds(w)
  <1>1. {"NONE", "OWNER", "SECRET", "RESOLVER", "ADDR", "NAME_LENGTH", "NAME"} \subseteq Params
    BY CasesOf DEF ParserOK, ParamsOf, NameParams
  <1>2. /\ Follows("NAME_OFFSET", "OWNER")
        /\ Follows("OWNER", "SECRET")
        /\ Follows("SECRET", "RESOLVER")
        /\ Follows("RESOLVER", "ADDR")
        /\ Follows("ADDR", "NAME_LENGTH")
    BY <1>1, StageOf DEF Follows, IsArray
  <1>3. ~IsArray /\ selectorIndex # "SET_ADDR"
    BY DEF IsArray
  <1>4. CASE SkipToOffset \/ IgnoreWord
    BY <1>4 DEF Kinds, Quiet
  <1>5. CASE next_param = "NAME_OFFSET" /\ SaveOffset(w, Name, "OWNER")
    BY <1>2, <1>5, SaveKind DEF Kinds
  <1>6. CASE \/ next_param = "SECRET" /\ CopyParameter(w, "secret", "RESOLVER")
             \/ next_param = "RESOLVER" /\ CopyAddress(w, "resolver", "ADDR")
             \/ next_param = "ADDR" /\ CopyAddress(w, "addr", "NAME_LENGTH")
    BY <1>2, <1>6, SourceOf, CopyKind DEF Kinds, Statics
  <1>7. CASE AtOffset /\ next_param = "NAME_LENGTH" /\ ReadLengthAt(offsets[Name], w, Name, "NAME")
    BY <1>1, <1>3, <1>7, StageOf, LengthAtKind DEF Kinds, Now, ReadSlot, Name
  <1>8. CASE /\ next_param = "OWNER"
             /\ CopyWord(w, "owner", 12)
             /\ Seek(parameterOffset + 2 * PARAMETER_LENGTH, "SECRET")
    BY <1>2, <1>8, SourceOf DEF Kinds, HeadWord, Follows, Now, CopyWord, Seek, Statics
  <1>9. CASE AtOffset /\ ReadField(NameField, len[Name], Then("NONE"))
    BY <1>1, <1>3, <1>9, StageOf, OwnFieldKind DEF Kinds
  <1>10. QED
    BY <1>4, <1>5, <1>6, <1>7, <1>8, <1>9 DEF handle_register_with_config

\* Whatever word handle_renew is given, it is of one of the kinds.
LEMMA RenewKinds ==
  ASSUME ParserOK, NEW w, selectorIndex = "RENEW", handle_renew(w)
  PROVE  Kinds(w)
  <1>1. {"NONE", "DURATION", "NAME_LENGTH", "NAME"} \subseteq Params
    BY CasesOf DEF ParserOK, ParamsOf, NameParams
  <1>2. /\ Follows("NAME_OFFSET", "DURATION")
        /\ Follows("DURATION", "NAME_LENGTH")
    BY <1>1, StageOf DEF Follows, IsArray
  <1>3. ~IsArray /\ selectorIndex # "SET_ADDR"
    BY DEF IsArray
  <1>4. CASE SkipToOffset \/ IgnoreWord
    BY <1>4 DEF Kinds, Quiet
  <1>5. CASE next_param = "NAME_OFFSET" /\ SaveOffset(w, Name, "DURATION")
    BY <1>2, <1>5, SaveKind DEF Kinds
  <1>6. CASE next_param = "DURATION" /\ CopyParameter(w, "duration", "NAME_LENGTH")
    BY <1>2, <1>6, SourceOf, CopyKind DEF Kinds, Statics
  <1>7. CASE AtOffset /\ next_param = "NAME_LENGTH" /\ ReadLengthAt(offsets[Name], w, Name, "NAME")
    BY <1>1, <1>3, <1>7, StageOf, LengthAtKind DEF Kinds, Now, ReadSlot, Name
  <1>8. CASE AtOffset /\ ReadField(NameField, len[Name], Then("NONE"))
    BY <1>1, <1>3, <1>8, StageOf, OwnFieldKind DEF Kinds
  <1>9. QED
    BY <1>4, <1>5, <1>6, <1>7, <1>8 DEF handle_renew

\* Whatever word handle_set_name is given, it is of one of the kinds.
LEMMA SetNameKinds ==
  ASSUME ParserOK, NEW w, selectorIndex = "SET_NAME", handle_set_name(w)
  PROVE  Kinds(w)
  <1>1. {"NONE", "NAME_LENGTH", "NAME"} \subseteq Params
    BY CasesOf DEF ParserOK, ParamsOf, NameParams
  <1>2. /\ Follows("NAME_OFFSET", "NAME_LENGTH")
    BY <1>1, StageOf DEF Follows, IsArray
  <1>3. ~IsArray /\ selectorIndex # "SET_ADDR"
    BY DEF IsArray
  <1>4. CASE SkipToOffset \/ IgnoreWord
    BY <1>4 DEF Kinds, Quiet
  <1>5. CASE next_param = "NAME_OFFSET" /\ SaveOffset(w, Name, "NAME_LENGTH")
    BY <1>2, <1>5, SaveKind DEF Kinds
  <1>6. CASE AtOffset /\ next_param = "NAME_LENGTH" /\ ReadLengthAt(offsets[Name], w, Name, "NAME")
    BY <1>1, <1>3, <1>6, StageOf, LengthAtKind DEF Kinds, Now, ReadSlot, Name
  <1>7. CASE AtOffset /\ ReadField(NameField, len[Name], Then("NONE"))
    BY <1>1, <1>3, <1>7, StageOf, OwnFieldKind DEF Kinds
  <1>8. QED
    BY <1>4, <1>5, <1>6, <1>7 DEF handle_set_name

\* Whatever word handle_set_text is given, it is of one of the kinds.
LEMMA SetTextKinds ==
  ASSUME ParserOK, NEW w, selectorIndex = "SET_TEXT", handle_set_text(w)
  PROVE  Kinds(w)
  <1>1. {"NONE", "KEY_OFFSET", "VALUE_OFFSET", "KEY_LENGTH", "KEY", "VALUE_LENGTH", "VALUE"} \subseteq Params
    BY CasesOf DEF ParserOK, ParamsOf, KeyParams, ValueParams
  <1>2. /\ Follows("NODE", "KEY_OFFSET")
        /\ Follows("KEY_OFFSET", "VALUE_OFFSET")
        /\ Follows("VALUE_OFFSET", "KEY_LENGTH")
    BY <1>1, StageOf DEF Follows, IsArray
  <1>3. ~IsArray /\ selectorIndex # "SET_ADDR"
    BY DEF IsArray
  <1>4. CASE SkipToOffset \/ IgnoreWord
    BY <1>4 DEF Kinds, Quiet
  <1>5. CASE \/ next_param = "KEY_OFFSET" /\ SaveOffset(w, Key, "VALUE_OFFSET")
             \/ next_param = "VALUE_OFFSET" /\ SaveOffset(w, Value, "KEY_LENGTH")
    BY <1>2, <1>5, SaveKind DEF Kinds
  <1>6. CASE next_param = "NODE" /\ CopyParameter(w, "node", "KEY_OFFSET")
    BY <1>2, <1>6, SourceOf, CopyKind DEF Kinds, Statics
  <1>7. CASE AtOffset /\ next_param = "KEY_LENGTH" /\ ReadLengthAt(offsets[Key], w, Key, "KEY")
    BY <1>1, <1>3, <1>7, StageOf, LengthAtKind DEF Kinds, Now, ReadSlot, Key
  <1>8. CASE AtOffset /\ next_param = "VALUE_LENGTH" /\ ReadLengthAt(offsets[Value], w, Value, "VALUE")
    BY <1>1, <1>3, <1>8, StageOf, LengthAtKind DEF Kinds, Now, ReadSlot, Value
  <1>9. CASE AtOffset /\ \/ ReadField(KeyField, len[Key], Then("VALUE_LENGTH"))
                         \/ ReadField(ValueField, len[Value], Then("NONE"))
    BY <1>1, <1>3, <1>9, StageOf, OwnFieldKind DEF Kinds
  <1>10. QED
    BY <1>4, <1>5, <1>6, <1>7, <1>8, <1>9 DEF handle_set_text

\* Whatever word handle_set_content_hash is given, it is of one of the kinds.
LEMMA SetContentHashKinds ==
  ASSUME ParserOK, NEW w, selectorIndex = "SET_CONTENT_HASH", handle_set_content_hash(w)
  PROVE  Kinds(w)
  <1>1. {"NONE", "HASH_OFFSET", "HASH_LEN", "HASH"} \subseteq Params
    BY CasesOf DEF ParserOK, ParamsOf, HashParams
  <1>2. /\ Follows("NODE", "HASH_OFFSET")
        /\ Follows("HASH_OFFSET", "HASH_LEN")
    BY <1>1, StageOf DEF Follows, IsArray
  <1>3. ~IsArray /\ selectorIndex # "SET_ADDR"
    BY DEF IsArray
  <1>4. CASE SkipToOffset \/ IgnoreWord
    BY <1>4 DEF Kinds, Quiet
  <1>5. CASE next_param = "HASH_OFFSET" /\ SaveOffset(w, Hash, "HASH_LEN")
    BY <1>2, <1>5, SaveKind DEF Kinds
  <1>6. CASE next_param = "NODE" /\ CopyParameter(w, "node", "HASH_OFFSET")
    BY <1>2, <1>6, SourceOf, CopyKind DEF Kinds, Statics
  <1>7. CASE AtOffset /\ next_param = "HASH_LEN" /\ ReadLengthAt(offsets[Hash], w, Hash, "HASH")
    BY <1>1, <1>3, <1>7, StageOf, LengthAtKind DEF Kinds, Now, ReadSlot, Hash
  <1>8. CASE AtOffset /\ ReadField(HashField, len[Hash], Then("NONE"))
    BY <1>1, <1>3, <1>8, StageOf, OwnFieldKind DEF Kinds
  <1>9. QED
    BY <1>4, <1>5, <1>6, <1>7, <1>8 DEF handle_set_content_hash

\* Whatever word handle_set_addr is given, it is of one of the kinds.
LEMMA SetAddrKinds ==
  ASSUME ParserOK, NEW w, selectorIndex = "SET_ADDR", handle_set_addr(w)
  PROVE  Kinds(w)
  <1>1. {"NONE", "COINTYPE", "HASH_OFFSET", "HASH_LEN", "HASH"} \subseteq Params
    BY CasesOf DEF ParserOK, ParamsOf, HashParams
  <1>2. /\ Follows("NODE", "COINTYPE")
        /\ Follows("COINTYPE", "HASH_OFFSET")
        /\ Follows("HASH_OFFSET", "HASH_LEN")
    BY <1>1, StageOf DEF Follows, IsArray
  <1>3. ~IsArray
    BY DEF IsArray
  <1>4. CASE SkipToOffset \/ IgnoreWord
    BY <1>4 DEF Kinds, Quiet
  <1>5. CASE next_param = "HASH_OFFSET" /\ SaveOffset(w, Hash, "HASH_LEN")
    BY <1>2, <1>5, SaveKind DEF Kinds
  <1>6. CASE \/ next_param = "NODE" /\ CopyParameter(w, "node", "COINTYPE")
             \/ next_param = "COINTYPE" /\ CopyParameter(w, "coinType", "HASH_OFFSET")
    BY <1>2, <1>6, SourceOf, CopyKind DEF Kinds, Statics
  <1>7. CASE AtOffset /\ next_param = "HASH_LEN" /\ ReadLengthAt(offsets[Hash], w, Hash, "HASH")
    BY <1>1, <1>3, <1>7, StageOf, LengthAtKind DEF Kinds, Now, ReadSlot, Hash
  <1>8. CASE AtOffset /\ ReadField(HashField, statics["coinType"].alias, Then("NONE"))
    BY <1>1, <1>3, <1>8, StageOf, SetAddrFieldKind DEF Kinds
  <1>9. QED
    BY <1>4, <1>5, <1>6, <1>7, <1>8 DEF handle_set_addr

\* Whatever word handle_prove_claim is given, it is of one of the kinds.
LEMMA ProveClaimKinds ==
  ASSUME ParserOK, NEW w, selectorIndex = "PROVE_AND_CLAIM", handle_prove_claim(w)
  PROVE  Kinds(w)
  <1>1. {"NONE", "INPUT_OFFSET", "PROOF_OFFSET", "NAME_LENGTH", "NAME", "INPUT", "PROOF_LEN", "PROOF"} \subseteq Params
    BY CasesOf DEF ParserOK, ParamsOf, ClaimParams, NameParams, ProofParams
  <1>2. /\ Follows("NAME_OFFSET", "INPUT_OFFSET")
        /\ Follows("INPUT_OFFSET", "PROOF_OFFSET")
        /\ Follows("PROOF_OFFSET", "NAME_LENGTH")
    BY <1>1, StageOf DEF Follows, IsArray
  <1>3. ~IsArray /\ selectorIndex # "SET_ADDR"
    BY DEF IsArray
  <1>4. CASE SkipToOffset \/ IgnoreWord
    BY <1>4 DEF Kinds, Quiet
  <1>5. CASE \/ next_param = "NAME_OFFSET" /\ SaveOffsetAnyway(w, Name, "INPUT_OFFSET")
             \/ next_param = "INPUT_OFFSET" /\ SaveOffsetAnyway(w, Input, "PROOF_OFFSET")
             \/ next_param = "PROOF_OFFSET" /\ SaveOffsetAnyway(w, Proof, "NAME_LENGTH")
    BY <1>2, <1>5, SaveKind DEF Kinds
  <1>6. CASE AtOffset /\ next_param = "NAME_LENGTH" /\ ReadLengthAt(offsets[Name], w, Name, "NAME")
    BY <1>1, <1>3, <1>6, StageOf, LengthAtKind DEF Kinds, Now, ReadSlot, Name
  <1>7. CASE next_param = "INPUT" /\ ReadInputs(offsets[Input], w)
    BY <1>3, <1>7 DEF Kinds, InputWord
  <1>8. CASE AtOffset /\ next_param = "PROOF_LEN" /\ ReadLength(w, Proof, "PROOF")
    BY <1>1, <1>8, StageOf, LengthKind DEF Kinds, Now, ReadSlot, Proof
  <1>9. CASE AtOffset /\ \/ ReadField(NameField, len[Name], Then("INPUT"))
                         \/ ReadField(ProofField, len[Proof], Then("NONE"))
    BY <1>1, <1>3, <1>9, StageOf, OwnFieldKind DEF Kinds
  <1>10. QED
    BY <1>4, <1>5, <1>6, <1>7, <1>8, <1>9 DEF handle_prove_claim

\* Whatever word handle_prove_claim_resolver is given, it is of one of the kinds.
LEMMA ProveClaimResolverKinds ==
  ASSUME ParserOK, NEW w, selectorIndex = "PROVE_AND_CLAIM_RESOLVER", handle_prove_claim_resolver(w)
  PROVE  Kinds(w)
  <1>1. {"NONE", "INPUT_OFFSET", "PROOF_OFFSET", "RESOLVER", "ADDR", "NAME_LENGTH", "NAME", "INPUT", "PROOF_LEN", "PROOF"} \subseteq Params
    BY CasesOf DEF ParserOK, ParamsOf, ClaimParams, NameParams, ProofParams
  <1>2. /\ Follows("NAME_OFFSET", "INPUT_OFFSET")
        /\ Follows("INPUT_OFFSET", "PROOF_OFFSET")
        /\ Follows("PROOF_OFFSET", "RESOLVER")
        /\ Follows("RESOLVER", "ADDR")
        /\ Follows("ADDR", "NAME_LENGTH")
    BY <1>1, StageOf DEF Follows, IsArray
  <1>3. ~IsArray /\ selectorIndex # "SET_ADDR"
    BY DEF IsArray
  <1>4. CASE SkipToOffset \/ IgnoreWord
    BY <1>4 DEF Kinds, Quiet
  <1>5. CASE next_param = "PROOF_OFFSET" /\ SaveOffsetAnyway(w, Proof, "RESOLVER")
    BY <1>2, <1>5, SaveKind DEF Kinds
  <1>6. CASE \/ next_param = "RESOLVER" /\ CopyAddress(w, "resolver", "ADDR")
             \/ next_param = "ADDR" /\ CopyAddress(w, "addr", "NAME_LENGTH")
    BY <1>2, <1>6, SourceOf, CopyKind DEF Kinds, Statics
  <1>7. CASE \/ next_param = "NAME_OFFSET" /\ SaveNameOffset(w)
             \/ next_param = "INPUT_OFFSET" /\ SaveInputOffset(w)
    BY <1>2, <1>7
    DEF Kinds, HeadWord, Follows, Now, SaveNameOffset, SaveInputOffset, Advance, fields
  <1>8. CASE AtOffset /\ ReadNameLength(w)
    BY <1>1, <1>3, <1>8, StageOf
    DEF ReadNameLength, ReadLengthAt, Kinds, Quiet, LengthWord, Now, ReadSlot, Name
  <1>9. CASE ReadInputsLength(w)
    BY <1>3, <1>9 DEF ReadInputsLength, Kinds, InputWord
  <1>10. CASE AtOffset /\ next_param = "PROOF_LEN" /\ ReadLength(w, Proof, "PROOF")
    BY <1>1, <1>10, StageOf, LengthKind DEF Kinds, Now, ReadSlot, Proof
  <1>11. CASE AtOffset /\ \/ ReadField(NameField, len[Name], Then("INPUT"))
                          \/ ReadField(ProofField, len[Proof], Then("NONE"))
    BY <1>1, <1>3, <1>11, StageOf, OwnFieldKind DEF Kinds
  <1>12. QED
    BY <1>4, <1>5, <1>6, <1>7, <1>8, <1>9, <1>10, <1>11 DEF handle_prove_claim_resolver

\* Whatever word handle_renew_all is given, it is of one of the kinds.
LEMMA RenewAllKinds ==
  ASSUME ParserOK, ElementOK, NEW w, selectorIndex = "RENEW_ALL", handle_renew_all(w)
  PROVE  Kinds(w)
  <1>1. {"NONE", "DURATION", "N_NAME", "OFFSETS", "NAME_LENGTH", "NAME"} \subseteq Params
    BY CasesOf DEF ParserOK, ParamsOf, NameParams
  <1>2. IsArray
    BY DEF IsArray
  <1>3. /\ Follows("NAME_OFFSET", "DURATION")
        /\ Follows("DURATION", "N_NAME")
        /\ Follows("N_NAME", "OFFSETS")
    BY <1>1, StageOf DEF Follows
  <1>4. CASE SkipToOffset \/ IgnoreWord
    BY <1>4 DEF Kinds, Quiet
  <1>5. CASE next_param = "NAME_OFFSET" /\ SaveArrayOffset(w, "DURATION")
    BY <1>3, <1>5, SaveKind DEF Kinds
  <1>6. CASE next_param = "DURATION" /\ CopyParameter(w, "duration", "N_NAME")
    BY <1>3, <1>6, SourceOf, CopyKind DEF Kinds, Statics
  <1>7. CASE next_param = "N_NAME" /\ ReadCount(w, 2)
    BY <1>3, <1>7, CountKind DEF Kinds
  <1>8. CASE next_param = "OFFSETS" /\ ReadElementOffset(w, "NAME_LENGTH")
    BY <1>1, <1>2, <1>8, StageOf DEF Kinds, OffsetWord
  <1>9. CASE AtOffset /\ next_param = "NAME_LENGTH" /\ ReadLength(w, id, "NAME")
    BY <1>1, <1>2, <1>9, StageOf, LengthKind DEF Kinds, Now, ReadSlot
  <1>10. CASE AtOffset /\ ReadField(NameElement, len[id], NextElement("NAME_LENGTH"))
    <2>1. next_param \in {"NAME", "NAME_OFFSET_1", "NAME_OFFSET_2"}
      BY <1>10 DEF ReadField, NameElement, NameField
    <2>2. id \in Slots
      BY <1>2, <2>1, ElementInSlots DEF ArrayOK, Elements, Slots
    <2>3. QED
      BY <1>1, <1>2, <1>10, <2>2, StageOf, ElementKind DEF Kinds
  <1>11. QED
    BY <1>4, <1>5, <1>6, <1>7, <1>8, <1>9, <1>10 DEF handle_renew_all

\* Whatever word handle_multicall is given, it is of one of the kinds.
LEMMA MulticallKinds ==
  ASSUME ParserOK, ElementOK, NEW w, selectorIndex = "MULTICALL", handle_multicall(w)
  PROVE  Kinds(w)
  <1>1. {"NONE", "N_CALL", "OFFSETS", "CALL_LEN", "CALL"} \subseteq Params
    BY CasesOf DEF ParserOK, ParamsOf, CallParams
  <1>2. IsArray
    BY DEF IsArray
  <1>3. Follows("CALL_OFFSET", "N_CALL") /\ Follows("N_CALL", "OFFSETS")
    BY <1>1, StageOf DEF Follows
  <1>4. CASE SkipToOffset \/ IgnoreWord
    BY <1>4 DEF Kinds, Quiet
  <1>5. CASE next_param = "CALL_OFFSET" /\ SaveArrayOffset(w, "N_CALL")
    BY <1>3, <1>5, SaveKind DEF Kinds
  <1>6. CASE next_param = "N_CALL" /\ ReadCount(w, 3)
    BY <1>3, <1>6, CountKind DEF Kinds
  <1>7. CASE next_param = "OFFSETS" /\ ReadElementOffset(w, "CALL_LEN")
    BY <1>1, <1>2, <1>7, StageOf DEF Kinds, OffsetWord
  <1>8. CASE AtOffset /\ next_param = "CALL_LEN" /\ ReadLength(w, id, "CALL")
    BY <1>1, <1>2, <1>8, StageOf, LengthKind DEF Kinds, Now, ReadSlot
  <1>9. CASE AtOffset /\ ReadField(CallElement, len[id], NextElement("CALL_LEN"))
    <2>1. next_param \in {"CALL", "CALL_1", "CALL_2"}
      BY <1>9 DEF ReadField, CallElement
    <2>2. id \in Slots
      BY <1>2, <2>1, ElementInSlots DEF ArrayOK, Elements, Slots
    <2>3. QED
      BY <1>1, <1>2, <1>9, <2>2, StageOf, ElementKind DEF Kinds
  <1>10. QED
    BY <1>4, <1>5, <1>6, <1>7, <1>8, <1>9 DEF handle_multicall

\* Whatever the word and the selector, a call of handle_provide_parameter is
\* of one of the kinds.
LEMMA ParameterKinds ==
  ASSUME ParserOK, ElementOK, NEW w, handle_provide_parameter(w)
  PROVE  Kinds(w)
  <1>1. UNCHANGED selectorIndex /\ Expected
    BY DEF handle_provide_parameter, ParserOK
  <1>2. CASE selectorIndex = "PROVE_AND_CLAIM_RESOLVER" /\ handle_prove_claim_resolver(w)
    BY <1>2, ProveClaimResolverKinds
  <1>3. CASE ParseWord(w)
    BY <1>3, CommitKinds, RegisterKinds, RegisterWithConfigKinds, RenewKinds, SetNameKinds,
       RenewAllKinds, ProveClaimKinds, OwnerKinds, ResolverKinds, SubnodeKinds, SetAddrKinds,
       SetTextKinds, SetContentHashKinds, MulticallKinds
    DEF ParseWord
  <1>4. QED
    BY <1>1, <1>2, <1>3 DEF handle_provide_parameter

(***************************************************************************)
(* The words of a dynamic field, by the cells they fill.                   *)
(***************************************************************************)
Cells == 0 .. PARAMETER_LENGTH - 1

\* The buffer of the field being read becomes b.
Put(b) == text' = [text EXCEPT ![ReadSlot] = b]

\* The buffer with n cells from `first` on filled with the bytes of this word
\* from `byte` on.
Filled(buffer, first, n, byte) ==
    [j \in Cells |-> IF first <= j /\ j < first + n
                     THEN parameterOffset + byte + (j - first) ELSE buffer[j]]

Head16(buffer) == Filled(buffer, 0, HALF_PARAMETER_LENGTH, 0)

\* A field that is all in this word.
ShortData ==
    /\ Now \in {13, 18}
    /\ len[ReadSlot] <= PARAMETER_LENGTH
    /\ \E n \in 0 .. PARAMETER_LENGTH : Put(Filled(text[ReadSlot], 0, n, 0))
    /\ ellipsis' = [ellipsis EXCEPT ![ReadSlot] = FALSE]
    /\ UNCHANGED bytes_missing
    /\ AfterField

\* The first word of a longer one.
LongData(length) ==
    LET containers == length \div PARAMETER_LENGTH
        missing    == length % PARAMETER_LENGTH
    IN /\ Now \in {13, 18}
       /\ len[ReadSlot] > PARAMETER_LENGTH
       /\ selectorIndex # "SET_ADDR" => length = len[ReadSlot]
       /\ ellipsis' = [ellipsis EXCEPT ![ReadSlot] = TRUE]
       /\ bytes_missing' = missing
       /\ UNCHANGED id
       /\ \/ /\ missing < HALF_PARAMETER_LENGTH
             /\ containers < 2
             /\ \E n \in 0 .. HALF_PARAMETER_LENGTH - missing :
                   Put(Filled(Head16(text[ReadSlot]), HALF_PARAMETER_LENGTH, n,
                              HALF_PARAMETER_LENGTH + missing))
             /\ Stage(next_param') = Now + 2
             /\ Seek(parameterOffset + PARAMETER_LENGTH, next_param')
          \/ /\ missing < HALF_PARAMETER_LENGTH
             /\ containers >= 2
             /\ Put(Head16(text[ReadSlot]))
             /\ Stage(next_param') = Now + 1
             /\ Seek(parameterOffset + (containers - 1) * PARAMETER_LENGTH, next_param')
          \/ /\ missing >= HALF_PARAMETER_LENGTH
             /\ Put(Head16(text[ReadSlot]))
             /\ Stage(next_param') = Now + 2
             /\ Seek(parameterOffset + containers * PARAMETER_LENGTH, next_param')

\* Its second-last word.
SecondData ==
    /\ Now \in {14, 19}
    /\ \E n \in 0 .. HALF_PARAMETER_LENGTH - bytes_missing :
          Put(Filled(text[ReadSlot], HALF_PARAMETER_LENGTH, n,
                     HALF_PARAMETER_LENGTH + bytes_missing))
    /\ UNCHANGED <<ellipsis, id, bytes_missing>>
    /\ Stage(next_param') = Now + 1
    /\ Advance(next_param')

\* The first cell of the bytes of its last word, and the first byte for it.
LastCell ==
    IF bytes_missing <= HALF_PARAMETER_LENGTH
    THEN PARAMETER_LENGTH - bytes_missing ELSE HALF_PARAMETER_LENGTH

LastByte == LastCell + bytes_missing - PARAMETER_LENGTH

\* Its last word.
LastData ==
    /\ Now \in {15, 20}
    /\ \E n \in 0 .. PARAMETER_LENGTH - LastCell :
          Put(Filled(text[ReadSlot], LastCell, n, LastByte))
    /\ UNCHANGED <<ellipsis, bytes_missing>>
    /\ AfterField

\* A buffer with some cells filled is a buffer.
LEMMA FilledType ==
  ASSUME NEW buffer \in [Cells -> Int], NEW first \in Int, NEW n \in Int, NEW byte \in Int,
         parameterOffset \in Nat
  PROVE  Filled(buffer, first, n, byte) \in [Cells -> Int]
  BY DEF Filled, Cells, PARAMETER_LENGTH

\* copy_text of bytes of this word fills a run of cells from dst on, and all
\* it may when the field is long enough.
CopiesRun(buffer, dst, dst_len, max_len, byte) ==
    \E n \in 0 .. max_len :
       /\ copy_text(buffer, dst, dst_len, max_len, parameterOffset + byte)
             = Filled(buffer, dst, n, byte)
       /\ max_len <= dst_len /\ dst_len <= UINT16_MAX => n = max_len

\* copy_text copies such a run, whatever the length it is called with.
LEMMA CopyRun ==
  ASSUME NEW buffer \in [Cells -> Int], NEW dst \in Int, NEW dst_len \in Int,
         NEW max_len \in 0 .. PARAMETER_LENGTH, NEW byte \in Int, parameterOffset \in Nat
  PROVE  CopiesRun(buffer, dst, dst_len, max_len, byte)
  <1> DEFINE n == Least(U16(dst_len), U16(max_len))
  <1>1. max_len \in Int /\ 0 <= max_len /\ max_len <= 32
    BY DEF PARAMETER_LENGTH
  <1>2. U16(max_len) = max_len
    BY <1>1 DEF U16, UINT16_MAX
  <1>3. U16(dst_len) \in Int /\ 0 <= U16(dst_len)
    BY DEF U16, UINT16_MAX
  <1>4. n \in 0 .. max_len
    BY <1>1, <1>2, <1>3 DEF Least
  <1>5. ASSUME max_len <= dst_len, dst_len <= UINT16_MAX PROVE n = max_len
    <2>1. U16(dst_len) = dst_len
      BY <1>1, <1>5 DEF U16, UINT16_MAX
    <2>2. QED
      BY <1>1, <1>2, <1>5, <2>1 DEF Least
  <1>6. \A j \in Cells : j \in dst .. dst + n - 1 <=> dst <= j /\ j < dst + n
    BY <1>1, <1>4 DEF Cells, PARAMETER_LENGTH
  <1>7. DOMAIN buffer = Cells
    OBVIOUS
  <1>8. \A j \in Cells : parameterOffset + byte + (j - dst) = (parameterOffset + byte) + (j - dst)
    OBVIOUS
  <1>9. copy_text(buffer, dst, dst_len, max_len, parameterOffset + byte)
           = Filled(buffer, dst, n, byte)
    BY <1>6, <1>7, <1>8 DEF copy_text, Filled
  <1>10. QED
    BY <1>4, <1>5, <1>9 DEF CopiesRun

\* Size(f) is a number, and more than 32 of a longer field unless it is that
\* of its buffer.
LEMMA SizeType ==
  ASSUME ParserOK, NEW f, f.slot \in Slots
  PROVE  /\ Size(f) \in Int
         /\ len[f.slot] > PARAMETER_LENGTH
              => PARAMETER_LENGTH <= Size(f) /\ Size(f) <= UINT16_MAX
  <1>1. len[f.slot] \in Int /\ 0 <= len[f.slot] /\ len[f.slot] <= UINT16_MAX
    BY UInt16Type DEF ParserOK, FieldsOK
  <1>2. Size(f) \in {len[f.slot], PARAMETER_LENGTH}
    BY DEF Size
  <1>3. CASE Size(f) = len[f.slot]
    BY <1>1, <1>3 DEF PARAMETER_LENGTH
  <1>4. CASE Size(f) = PARAMETER_LENGTH
    BY <1>4 DEF PARAMETER_LENGTH, UINT16_MAX
  <1>5. QED
    BY <1>2, <1>3, <1>4

\* The copies a field is put together from.
LEMMA PartRuns ==
  ASSUME ParserOK, NEW f, f.slot \in Slots, NEW buffer \in [Cells -> Int],
         NEW missing \in 0 .. PARAMETER_LENGTH - 1
  PROVE  /\ len[f.slot] > PARAMETER_LENGTH => FirstHalf(f, buffer) = Head16(buffer)
         /\ missing < HALF_PARAMETER_LENGTH
              => \E n \in 0 .. HALF_PARAMETER_LENGTH - missing :
                    SecondLastPart(f, missing, buffer)
                      = Filled(buffer, HALF_PARAMETER_LENGTH, n, HALF_PARAMETER_LENGTH + missing)
         /\ missing = bytes_missing
              => \E n \in 0 .. PARAMETER_LENGTH - LastCell :
                    LastPart(f, missing, buffer) = Filled(buffer, LastCell, n, LastByte)
  <1>1. /\ parameterOffset \in Nat
        /\ Size(f) \in Int
        /\ len[f.slot] > PARAMETER_LENGTH
             => PARAMETER_LENGTH <= Size(f) /\ Size(f) <= UINT16_MAX
    BY SizeType DEF ParserOK
  <1>2. missing \in Int /\ 0 <= missing /\ missing <= 31
    BY DEF PARAMETER_LENGTH
  <1>3. ASSUME len[f.slot] > PARAMETER_LENGTH
        PROVE  FirstHalf(f, buffer) = Head16(buffer)
    <2>1. HALF_PARAMETER_LENGTH <= Size(f) /\ Size(f) <= UINT16_MAX
      BY <1>1, <1>3 DEF PARAMETER_LENGTH, HALF_PARAMETER_LENGTH
    <2>2. HALF_PARAMETER_LENGTH \in 0 .. PARAMETER_LENGTH /\ parameterOffset + 0 = parameterOffset
      BY <1>1 DEF PARAMETER_LENGTH, HALF_PARAMETER_LENGTH
    <2>3. CopiesRun(buffer, 0, Size(f), HALF_PARAMETER_LENGTH, 0)
      BY <1>1, <2>2, CopyRun
    <2>4. QED
      BY <2>1, <2>2, <2>3 DEF CopiesRun, FirstHalf, Head16
  <1>4. ASSUME missing < HALF_PARAMETER_LENGTH
        PROVE  \E n \in 0 .. HALF_PARAMETER_LENGTH - missing :
                  SecondLastPart(f, missing, buffer)
                    = Filled(buffer, HALF_PARAMETER_LENGTH, n, HALF_PARAMETER_LENGTH + missing)
    <2>1. /\ HALF_PARAMETER_LENGTH \in Int
          /\ Size(f) - HALF_PARAMETER_LENGTH \in Int
          /\ HALF_PARAMETER_LENGTH - missing \in 0 .. PARAMETER_LENGTH
          /\ HALF_PARAMETER_LENGTH + missing \in Int
          /\ parameterOffset + (HALF_PARAMETER_LENGTH + missing)
                = parameterOffset + HALF_PARAMETER_LENGTH + missing
      BY <1>1, <1>2, <1>4 DEF PARAMETER_LENGTH, HALF_PARAMETER_LENGTH
    <2>2. CopiesRun(buffer, HALF_PARAMETER_LENGTH, Size(f) - HALF_PARAMETER_LENGTH,
                    HALF_PARAMETER_LENGTH - missing, HALF_PARAMETER_LENGTH + missing)
      BY <1>1, <2>1, CopyRun
    <2>3. QED
      BY <2>1, <2>2 DEF CopiesRun, SecondLastPart
  <1>5. ASSUME missing = bytes_missing
        PROVE  \E n \in 0 .. PARAMETER_LENGTH - LastCell :
                  LastPart(f, missing, buffer) = Filled(buffer, LastCell, n, LastByte)
    <2>1. CASE missing <= HALF_PARAMETER_LENGTH
      <3>1. /\ LastCell = PARAMETER_LENGTH - missing
            /\ LastCell \in Int
            /\ LastByte = 0
            /\ PARAMETER_LENGTH - LastCell = missing
            /\ missing \in 0 .. PARAMETER_LENGTH
            /\ Size(f) - missing \in Int
            /\ parameterOffset + 0 = parameterOffset
        BY <1>1, <1>2, <1>5, <2>1 DEF LastCell, LastByte, PARAMETER_LENGTH
      <3>2. CopiesRun(buffer, LastCell, Size(f) - missing, missing, 0)
        BY <1>1, <3>1, CopyRun
      <3>3. QED
        BY <2>1, <3>1, <3>2 DEF CopiesRun, LastPart
    <2>2. CASE ~(missing <= HALF_PARAMETER_LENGTH)
      <3>1. /\ LastCell = HALF_PARAMETER_LENGTH
            /\ LastCell \in Int
            /\ LastByte = missing - HALF_PARAMETER_LENGTH
            /\ LastByte \in Int
            /\ PARAMETER_LENGTH - LastCell = HALF_PARAMETER_LENGTH
            /\ HALF_PARAMETER_LENGTH \in 0 .. PARAMETER_LENGTH
            /\ Size(f) - HALF_PARAMETER_LENGTH \in Int
        BY <1>1, <1>2, <1>5, <2>2 DEF LastCell, LastByte, PARAMETER_LENGTH, HALF_PARAMETER_LENGTH
      <3>2. CopiesRun(buffer, LastCell, Size(f) - HALF_PARAMETER_LENGTH,
                      HALF_PARAMETER_LENGTH, LastByte)
        BY <1>1, <3>1, CopyRun
      <3>3. QED
        BY <2>2, <3>1, <3>2 DEF CopiesRun, LastPart
    <2>3. QED
      BY <2>1, <2>2
  <1>6. QED
    BY <1>3, <1>4, <1>5

\* A word of a dynamic field is one of these.
LEMMA FieldWordForms ==
  ASSUME ParserOK, Fresh, FieldWord
  PROVE  /\ UNCHANGED <<statics, offsets, len, count, offsets_start>>
         /\ ReadSlot \in Slots
         /\ \/ ShortData
            \/ \E length \in UInt16 : LongData(length)
            \/ SecondData
            \/ LastData
  <1>1. PICK f \in DataFields, length \in {len[ReadSlot], statics["coinType"].alias} :
           /\ CurrentField(f)
           /\ selectorIndex # "SET_ADDR" => length = len[ReadSlot]
           /\ ReadField(f, length, AfterField)
    BY DEF FieldWord
  <1> DEFINE k == ReadSlot
  <1>2. /\ f.slot = k
        /\ k \in Slots
        /\ text[k] \in [Cells -> Int]
        /\ len[k] \in Int
        /\ length \in UInt16
        /\ bytes_missing \in 0 .. PARAMETER_LENGTH - 1
        /\ parameterOffset \in Nat
    <2>1. f.slot = k /\ k \in Slots
      BY <1>1 DEF CurrentField
    <2>2. len[k] \in UInt16
      BY <2>1 DEF ParserOK, FieldsOK
    <2>3. statics["coinType"].alias \in UInt16
      BY DEF ParserOK, FieldsOK, Statics, StaticValue
    <2>4. len[k] \in Int
      BY <2>2, UInt16Type
    <2>5. QED
      BY <1>1, <2>1, <2>2, <2>3, <2>4 DEF ParserOK, FieldsOK, Cells
  <1>3. next_param \in Params
    BY CasesOf DEF ParserOK, Expected
  <1>4. CASE next_param = f.data /\ ReadShort(f, AfterField)
    <2>1. Size(f) \in Int /\ PARAMETER_LENGTH \in 0 .. PARAMETER_LENGTH
             /\ parameterOffset + 0 = parameterOffset
      BY <1>2, SizeType DEF PARAMETER_LENGTH
    <2>2. CopiesRun(text[k], 0, Size(f), PARAMETER_LENGTH, 0)
      <3>1. \A dst \in Int : dst = 0 => CopiesRun(text[k], dst, Size(f), PARAMETER_LENGTH, dst)
        BY <1>2, <2>1, CopyRun
      <3>2. QED
        BY <3>1
    <2>3. ShortData
      BY <1>1, <1>2, <1>4, <2>1, <2>2
      DEF CopiesRun, ReadShort, ShortData, Put, CurrentField, Now
    <2>4. QED
      BY <1>1, <1>2, <2>3 DEF ReadField
  <1>5. CASE next_param = f.data /\ ReadLong(f, length)
    <2> DEFINE missing == length % PARAMETER_LENGTH
    <2>1. missing \in 0 .. PARAMETER_LENGTH - 1 /\ MissingBytes(length) = missing
      BY <1>2, MissingBytesType DEF MissingBytes
    <2>2. len[k] > PARAMETER_LENGTH
      BY <1>2, <1>5 DEF ReadLong
    <2>3. FirstHalf(f, text[k]) = Head16(text[k])
      BY <1>2, <2>1, <2>2, PartRuns
    <2>4. Head16(text[k]) \in [Cells -> Int]
      BY <1>2, FilledType DEF Head16, HALF_PARAMETER_LENGTH
    <2>5. missing < HALF_PARAMETER_LENGTH
             => \E n \in 0 .. HALF_PARAMETER_LENGTH - missing :
                   SecondLastPart(f, missing, Head16(text[k]))
                     = Filled(Head16(text[k]), HALF_PARAMETER_LENGTH, n,
                              HALF_PARAMETER_LENGTH + missing)
      BY <1>2, <2>1, <2>4, PartRuns
    <2>6. /\ Stage(f.data) = Now
          /\ Now \in {13, 18}
          /\ Stage(f.second) = Now + 1
          /\ Stage(f.last) = Now + 2
      BY <1>1, <1>5 DEF CurrentField, Now
    <2>7. LongData(length)
      BY <1>1, <1>2, <1>5, <2>1, <2>2, <2>3, <2>5, <2>6 DEF ReadLong, LongData, Put, Seek
    <2>8. QED
      BY <1>1, <1>2, <2>7 DEF ReadField
  <1>6. CASE next_param = f.second /\ ReadSecondLast(f)
    <2>1. Now \in {14, 19} /\ Stage(f.last) = Now + 1
      BY <1>1, <1>6 DEF CurrentField, Now
    <2>2. bytes_missing < HALF_PARAMETER_LENGTH
      BY <1>3, <2>1, OfStage DEF Fresh, Partial, Now
    <2>3. \E n \in 0 .. HALF_PARAMETER_LENGTH - bytes_missing :
             SecondLastPart(f, bytes_missing, text[k])
               = Filled(text[k], HALF_PARAMETER_LENGTH, n, HALF_PARAMETER_LENGTH + bytes_missing)
      BY <1>2, <2>2, PartRuns
    <2>4. SecondData
      BY <1>2, <1>6, <2>1, <2>3 DEF ReadSecondLast, SecondData, Put, Advance
    <2>5. QED
      BY <1>1, <1>2, <2>4 DEF ReadField
  <1>7. CASE next_param = f.last /\ ReadLast(f, AfterField)
    <2>1. Now \in {15, 20}
      BY <1>1, <1>7 DEF CurrentField, Now
    <2>2. \E n \in 0 .. PARAMETER_LENGTH - LastCell :
             LastPart(f, bytes_missing, text[k]) = Filled(text[k], LastCell, n, LastByte)
      BY <1>2, PartRuns
    <2>3. LastData
      BY <1>2, <1>7, <2>1, <2>2 DEF ReadLast, LastData, Put
    <2>4. QED
      BY <1>1, <1>2, <2>3 DEF ReadField
  <1>8. QED
    BY <1>1, <1>4, <1>5, <1>6, <1>7 DEF ReadField

(***************************************************************************)
(* What is blank.                                                          *)
(***************************************************************************)

\* A dynamic field no word of which has been read.
Unread(k) ==
    IF IsArray
    THEN \/ Now <= 11
         \/ Now <= 13 /\ k >= id
         \/ Now <= 15 /\ k > id
    ELSE \/ k = 0 /\ Now <= 13
         \/ k = 1 /\ Now <= 18
         \/ k = 2

\* The first cell of a buffer that is still to be filled, if any.
FirstBlank(k) ==
    IF Unread(k) THEN 0
    ELSE IF k = ReadSlot /\ Now \in {14, 19} THEN HALF_PARAMETER_LENGTH
    ELSE IF k = ReadSlot /\ Now \in {15, 20} THEN LastCell
    ELSE PARAMETER_LENGTH

StaticsBlank == \A f \in Statics : Now <= Stage(Source(f)) => statics[f].at = 0

TextBlank == \A k \in Slots, j \in Cells : j >= FirstBlank(k) => text[k][j] = 0

BlankInv == StaticsBlank /\ TextBlank

\* A cell is left alone, or was blank and gets a byte of this word.
Lands(old, new) ==
    \/ new = old
    \/ old = 0 /\ new \in parameterOffset .. parameterOffset + PARAMETER_LENGTH - 1

StaticsKept ==
    \A f \in Statics : \/ statics'[f] = statics[f]
                       \/ statics[f].at = 0 /\ Lands(0, statics'[f].at)

TextKept == \A k \in Slots, j \in Cells : Lands(text[k][j], text'[k][j])

\* What a word does to what was read, and to what is still to be read.
InOnePass == StaticsKept /\ TextKept /\ StaticsBlank' /\ TextBlank'

(***************************************************************************)
(* Stages.                                                                 *)
(***************************************************************************)

\* The fixed-size fields are in the head, but for the number of inputs.
LEMMA SourceStage == \A f \in Statics : Stage(Source(f)) \in 1 .. 9 \cup {16}
  BY StageOf, SourceOf DEF Statics

\* The handlers with arrays have no case after the last of an element, and
\* are inside the array from the offsets of the elements on.
LEMMA ArrayStages ==
  ASSUME ParserOK, IsArray
  PROVE  /\ Now \in 1 .. 15 \cup {21}
         /\ Now \in 11 .. 15 => next_param \in Elements
  BY StageOf DEF ParserOK, Expected, IsArray, ParamsOf, NameParams, CallParams, Now, Elements

\* Where the handler is after a field.
LEMMA AfterFieldMoves ==
  ASSUME ParserOK, ElementOK, Now \in {13, 15, 18, 20}, AfterField
  PROVE  /\ Now' \in {12, 16, 17, 21}
         /\ IsArray => \/ Now' = 21
                       \/ Now' = 12 /\ id' = id + 1 /\ id + 1 \in Slots
         /\ ~IsArray => Now' > Now /\ Now' # 12
  <1>1. CASE IsArray
    <2>1. next_param \in Elements
      BY <1>1, ArrayStages
    <2>2. U8(id + 1) = id + 1 /\ (id # count - 1 => id + 1 \in 0 .. 2)
      BY <1>1, <2>1, ElementInSlots DEF ArrayOK
    <2>3. PICK p \in Params : Stage(p) = 12 /\ NextElement(p)
      BY <1>1 DEF AfterField
    <2>4. CASE id = count - 1 /\ Advance("NONE")
      BY <1>1, <2>4, StageOf DEF Advance, Now
    <2>5. CASE id # count - 1 /\ id' = U8(id + 1) /\ next_param' = p
      BY <1>1, <2>2, <2>3, <2>5 DEF Now, Slots
    <2>6. QED
      BY <2>3, <2>4, <2>5 DEF NextElement, Seek
  <1>2. CASE ~IsArray
    BY <1>2, StageOf DEF AfterField, Then, Advance, Now
  <1>3. QED
    BY <1>1, <1>2

(***************************************************************************)
(* The kinds of words that fill no buffer.                                 *)
(***************************************************************************)

\* Fields of fixed size that are left alone stay blank, when the stage does
\* not go back over any of theirs.
LEMMA StaticsStay ==
  ASSUME StaticsBlank, UNCHANGED statics, Now' >= Now \/ (Now <= 16 /\ Now' >= 10)
  PROVE  StaticsKept /\ StaticsBlank'
  <1>1. Now \in Int /\ Now' \in Int
    BY StageType DEF Now
  <1>2. \A f \in Statics : Now' <= Stage(Source(f)) => Now <= Stage(Source(f))
    BY <1>1, SourceStage
  <1>3. QED
    BY <1>2 DEF StaticsBlank, StaticsKept

\* Buffers that are left alone stay blank, when no blank cell is added.
LEMMA TextStays ==
  ASSUME TextBlank, UNCHANGED text,
         \A k \in Slots, j \in Cells : j >= FirstBlank(k)' => j >= FirstBlank(k)
  PROVE  TextKept /\ TextBlank'
  BY DEF TextBlank, TextKept, Lands

\* A word that is not read.
LEMMA QuietOnePass ==
  ASSUME BlankInv, UNCHANGED selectorIndex, Quiet
  PROVE  InOnePass
  <1>1. UNCHANGED <<next_param, fields, bytes_missing>>
    BY DEF Quiet, Refuse, SkipToOffset, IgnoreWord, cursor
  <1>2. UNCHANGED <<Now, statics, text>>
    BY <1>1 DEF fields, Now
  <1>3. \A k \in Slots : FirstBlank(k)' = FirstBlank(k)
    BY <1>1, <1>2 DEF fields, FirstBlank, Unread, ReadSlot, IsArray, LastCell
  <1>4. Now \in Int
    BY StageType DEF Now
  <1>5. QED
    BY <1>2, <1>3, <1>4, StaticsStay, TextStays DEF BlankInv, InOnePass

\* Before the first buffer is reached they are all blank.
LEMMA HeadBlank ==
  ASSUME Now \in 1 .. 11, NEW k \in Slots
  PROVE  FirstBlank(k) = 0
  BY DEF FirstBlank, Unread, Slots

\* No cell of a buffer is before its first one.
LEMMA HeadText ==
  ASSUME TextBlank, Now \in 1 .. 11, UNCHANGED text
  PROVE  TextKept /\ TextBlank'
  <1>1. \A k \in Slots, j \in Cells : j >= FirstBlank(k)
    BY HeadBlank DEF Cells, PARAMETER_LENGTH
  <1>2. QED
    BY <1>1, TextStays

\* A word of the head.
LEMMA HeadOnePass ==
  ASSUME ParserOK, BlankInv, NEW w, HeadWord(w)
  PROVE  InOnePass
  <1>1. Now \in 1 .. 10 /\ Now' > Now /\ Now' \in Int
    BY StageType DEF HeadWord, Now
  <1>2. TextKept /\ TextBlank'
    BY <1>1, HeadText DEF HeadWord, BlankInv
  <1>3. CASE UNCHANGED statics
    BY <1>1, <1>2, <1>3, StaticsStay DEF BlankInv, InOnePass
  <1>4. CASE \E f \in Statics, first \in {0, 12} :
                Source(f) = next_param /\ CopyWord(w, f, first)
    <2>1. PICK f \in Statics, first \in {0, 12} :
             Source(f) = next_param /\ CopyWord(w, f, first)
      BY <1>4
    <2>2. Stage(Source(f)) = Now
      BY <2>1 DEF Now
    <2>3. statics[f].at = 0
      BY <1>1, <2>2 DEF BlankInv, StaticsBlank
    <2>4. statics \in [Statics -> StaticValue] /\ parameterOffset \in Nat
      BY DEF ParserOK, FieldsOK
    <2>5. /\ \A g \in Statics \ {f} : statics'[g] = statics[g]
          /\ statics'[f].at = parameterOffset + first
      BY <2>1, <2>4 DEF CopyWord
    <2>6. Lands(0, statics'[f].at)
      BY <2>4, <2>5 DEF Lands, PARAMETER_LENGTH
    <2>7. StaticsKept
      BY <2>3, <2>5, <2>6 DEF StaticsKept
    <2>8. \A g \in Statics : Now' <= Stage(Source(g)) => g # f /\ Now <= Stage(Source(g))
      BY <1>1, <2>2, SourceStage
    <2>9. StaticsBlank'
      BY <2>5, <2>8 DEF BlankInv, StaticsBlank
    <2>10. QED
      BY <1>2, <2>7, <2>9 DEF InOnePass
  <1>5. QED
    BY <1>3, <1>4 DEF HeadWord

\* The offset of an element.
LEMMA OffsetOnePass ==
  ASSUME BlankInv, UNCHANGED selectorIndex, NEW w, OffsetWord(w)
  PROVE  InOnePass
  <1>1. CASE Refuse
    BY <1>1, QuietOnePass DEF Quiet
  <1>2. CASE ~Refuse
    <2>1. PICK p \in Params : Stage(p) = 12 /\ ReadElementOffset(w, p)
      BY DEF OffsetWord
    <2>2. next_param' \in {"OFFSETS", p} /\ UNCHANGED <<statics, text>>
      BY <1>2, <2>1 DEF ReadElementOffset, Advance, Seek
    <2>3. Now = 11 /\ Now' \in {11, 12}
      BY <2>1, <2>2, StageOf DEF OffsetWord, Now
    <2>4. QED
      BY <2>2, <2>3, StaticsStay, HeadText DEF BlankInv, InOnePass
  <1>3. QED
    BY <1>1, <1>2

\* The length of a dynamic field.
LEMMA LengthOnePass ==
  ASSUME BlankInv, UNCHANGED selectorIndex, NEW w, LengthWord(w)
  PROVE  InOnePass
  <1>1. CASE Refuse
    BY <1>1, QuietOnePass DEF Quiet
  <1>2. CASE ~Refuse
    <2>1. PICK p \in Params : Stage(p) = Now + 1 /\ ReadLength(w, ReadSlot, p)
      BY DEF LengthWord
    <2>2. next_param' = p /\ UNCHANGED <<statics, text, id>>
      BY <1>2, <2>1 DEF ReadLength, Advance
    <2>3. Now \in {12, 17} /\ Now' = Now + 1
      BY <2>1, <2>2 DEF LengthWord, Now
    <2>4. \A k \in Slots : FirstBlank(k)' = FirstBlank(k)
      BY <2>2, <2>3 DEF FirstBlank, Unread, IsArray
    <2>5. QED
      BY <2>2, <2>3, <2>4, StaticsStay, TextStays DEF BlankInv, InOnePass
  <1>3. QED
    BY <1>1, <1>2

\* The number of inputs of a claim.
LEMMA InputOnePass ==
  ASSUME ParserOK, BlankInv, UNCHANGED selectorIndex, NEW w, InputWord(w)
  PROVE  InOnePass
  <1>1. CASE Refuse
    BY <1>1, QuietOnePass DEF Quiet
  <1>2. CASE ~Refuse
    <2>1. CopyWord(w, "n_inputs", 0) /\ next_param' = "PROOF_LEN"
      BY <1>2 DEF InputWord, ReadInputs, Seek
    <2>2. Now = 16 /\ Now' = 17 /\ Stage(Source("n_inputs")) = 16
      BY <2>1, StageOf, SourceOf DEF InputWord, Now
    <2>3. statics \in [Statics -> StaticValue] /\ parameterOffset \in Nat /\ "n_inputs" \in Statics
      BY DEF ParserOK, FieldsOK, Statics
    <2>4. /\ \A g \in Statics \ {"n_inputs"} : statics'[g] = statics[g]
          /\ statics'["n_inputs"].at = parameterOffset + 0
          /\ UNCHANGED text
      BY <2>1, <2>3 DEF CopyWord
    <2>5. statics["n_inputs"].at = 0 /\ Lands(0, statics'["n_inputs"].at)
      BY <2>2, <2>3, <2>4 DEF BlankInv, StaticsBlank, Lands, PARAMETER_LENGTH
    <2>6. StaticsKept
      BY <2>4, <2>5 DEF StaticsKept
    <2>7. StaticsBlank'
      BY <2>2, SourceStage DEF StaticsBlank
    <2>8. \A k \in Slots : FirstBlank(k)' = FirstBlank(k)
      BY <2>2 DEF FirstBlank, Unread, IsArray, InputWord
    <2>9. TextKept /\ TextBlank'
      BY <2>4, <2>8, TextStays DEF BlankInv
    <2>10. QED
      BY <2>6, <2>7, <2>9 DEF InOnePass
  <1>3. QED
    BY <1>1, <1>2

(***************************************************************************)
(* The words of a dynamic field.                                           *)
(***************************************************************************)

\* Only the buffer of the field being read is filled, and only in cells that
\* are blank, with bytes of this word; those to come are not.
LEMMA PutInOnePass ==
  ASSUME ParserOK, TextBlank, NEW s \in Slots, s = ReadSlot, NEW b, Put(b),
         \A j \in Cells : b[j] = text[s][j] \/ (j >= FirstBlank(s) /\ Lands(0, b[j])),
         \A j \in Cells : j >= FirstBlank(s)' => b[j] = 0,
         \A k \in Slots \ {s}, j \in Cells : j >= FirstBlank(k)' => j >= FirstBlank(k)
  PROVE  TextKept /\ TextBlank'
  <1>1. text \in [Slots -> [Cells -> Int]]
    BY DEF ParserOK, FieldsOK, Cells
  <1>2. text'[s] = b /\ \A k \in Slots \ {s} : text'[k] = text[k]
    BY <1>1 DEF Put
  <1>3. \A j \in Cells : Lands(text[s][j], b[j])
    BY DEF TextBlank, Lands
  <1>4. TextKept
    BY <1>2, <1>3 DEF TextKept, Lands
  <1>5. \A k \in Slots \ {s}, j \in Cells : j >= FirstBlank(k)' => text'[k][j] = 0
    BY <1>2 DEF TextBlank
  <1>6. TextBlank'
    BY <1>2, <1>5 DEF TextBlank
  <1>7. QED
    BY <1>4, <1>6

\* After a field the buffers that are still blank were blank before it, and
\* its own is not among them.
LEMMA AfterFieldBlank ==
  ASSUME ParserOK, ElementOK, UNCHANGED selectorIndex, Now \in {13, 15, 18, 20}, AfterField,
         NEW s \in Slots, s = ReadSlot
  PROVE  /\ \A k \in Slots \ {s}, j \in Cells : j >= FirstBlank(k)' => j >= FirstBlank(k)
         /\ \A j \in Cells : ~(j >= FirstBlank(s)')
  <1>1. Now' \in {12, 16, 17, 21}
    BY AfterFieldMoves
  <1>2. \A k \in Slots : ~Unread(k)' => FirstBlank(k)' = PARAMETER_LENGTH
    BY <1>1 DEF FirstBlank
  <1>3. \A k \in Slots : Unread(k)' => Unread(k) /\ k # ReadSlot
    <2>1. CASE IsArray
      <3>1. Now \in {13, 15} /\ ReadSlot = id
        BY <2>1, ArrayStages DEF ReadSlot
      <3>2. CASE Now' = 21
        BY <2>1, <3>2 DEF Unread, IsArray
      <3>3. CASE Now' = 12 /\ id' = id + 1 /\ id + 1 \in Slots
        <4>1. id \in Int
          BY UInt8Type DEF ParserOK, FieldsOK
        <4>2. \A k \in Slots : Unread(k)' => k >= id + 1
          BY <2>1, <3>3 DEF Unread, IsArray, Slots
        <4>3. \A k \in Slots : k >= id + 1 => Unread(k) /\ k # id
          BY <2>1, <3>1, <4>1 DEF Unread, Slots
        <4>4. QED
          BY <3>1, <4>2, <4>3
      <3>4. QED
        BY <2>1, <3>2, <3>3, AfterFieldMoves
    <2>2. CASE ~IsArray
      <3>1. Now' \in {16, 17, 21} /\ Now' > Now
        BY <1>1, <2>2, AfterFieldMoves
      <3>2. ReadSlot = IF Now \in {18, 20} THEN 1 ELSE 0
        BY <2>2 DEF ReadSlot
      <3>3. QED
        BY <2>2, <3>1, <3>2 DEF Unread, IsArray, Slots
    <2>3. QED
      BY <2>1, <2>2
  <1>4. \A j \in Cells : ~(j >= PARAMETER_LENGTH)
    BY DEF Cells, PARAMETER_LENGTH
  <1>5. \A k \in Slots : Unread(k) => FirstBlank(k) = 0
    BY DEF FirstBlank
  <1>6. \A j \in Cells : j >= 0
    BY DEF Cells
  <1>7. QED
    BY <1>2, <1>3, <1>4, <1>5, <1>6

\* In the middle of a field the buffers that are still blank were blank
\* before, and of its own the cells from the first blank one on.
LEMMA MiddleBlank ==
  ASSUME ParserOK, UNCHANGED <<selectorIndex, id>>, NEW s \in Slots, s = ReadSlot,
         \/ Now \in {13, 18} /\ Now' \in {Now + 1, Now + 2}
         \/ Now \in {14, 19} /\ Now' = Now + 1
  PROVE  /\ \A k \in Slots \ {s}, j \in Cells : j >= FirstBlank(k)' => j >= FirstBlank(k)
         /\ FirstBlank(s)' = IF Now' \in {14, 19} THEN HALF_PARAMETER_LENGTH ELSE LastCell'
  <1>1. ReadSlot' = ReadSlot
    BY DEF ReadSlot, IsArray
  <1>2. id \in Int
    BY UInt8Type DEF ParserOK, FieldsOK
  <1>3. IsArray' = IsArray
    BY DEF IsArray
  <1>4. ~Unread(s)'
    BY <1>2, <1>3 DEF Unread, ReadSlot, Slots
  <1>5. FirstBlank(s)' = IF Now' \in {14, 19} THEN HALF_PARAMETER_LENGTH ELSE LastCell'
    BY <1>1, <1>4 DEF FirstBlank
  <1>6. \A k \in Slots \ {s} : /\ Unread(k)' => Unread(k)
                               /\ ~Unread(k)' => FirstBlank(k)' = PARAMETER_LENGTH
                               /\ Unread(k) => FirstBlank(k) = 0
    BY <1>1, <1>2, <1>3 DEF FirstBlank, Unread, ReadSlot, Slots
  <1>7. \A j \in Cells : j >= 0 /\ ~(j >= PARAMETER_LENGTH)
    BY DEF Cells, PARAMETER_LENGTH
  <1>8. QED
    BY <1>5, <1>6, <1>7

\* A run of cells that gets bytes of this word.
LEMMA FilledLands ==
  ASSUME parameterOffset \in Nat, NEW buffer, NEW first \in Int, NEW n \in Int, NEW byte \in Int,
         0 <= byte, byte + n <= PARAMETER_LENGTH, NEW j \in Cells
  PROVE  /\ first <= j /\ j < first + n => Lands(0, Filled(buffer, first, n, byte)[j])
         /\ ~(first <= j /\ j < first + n) => Filled(buffer, first, n, byte)[j] = buffer[j]
  <1>1. CASE first <= j /\ j < first + n
    <2>1. Filled(buffer, first, n, byte)[j] = parameterOffset + byte + (j - first)
      BY <1>1 DEF Filled
    <2>2. j \in Int
      BY DEF Cells, PARAMETER_LENGTH
    <2>3. /\ parameterOffset + byte + (j - first) \in Int
          /\ parameterOffset <= parameterOffset + byte + (j - first)
          /\ parameterOffset + byte + (j - first) <= parameterOffset + PARAMETER_LENGTH - 1
      BY <1>1, <2>2 DEF PARAMETER_LENGTH
    <2>4. QED
      BY <1>1, <2>1, <2>3 DEF Lands, PARAMETER_LENGTH
  <1>2. CASE ~(first <= j /\ j < first + n)
    BY <1>2 DEF Filled
  <1>3. QED
    BY <1>1, <1>2

\* A field before its first word is blank.
LEMMA DataBlank ==
  ASSUME ParserOK, Now \in {13, 18}
  PROVE  FirstBlank(ReadSlot) = 0
  <1>1. IsArray => Now = 13
    BY ArrayStages
  <1>2. id \in Int
    BY UInt8Type DEF ParserOK, FieldsOK
  <1>3. QED
    BY <1>1, <1>2 DEF FirstBlank, Unread, ReadSlot

\* A field that is all in this word.
LEMMA ShortOnePass ==
  ASSUME ParserOK, ElementOK, TextBlank, UNCHANGED selectorIndex, ReadSlot \in Slots, ShortData
  PROVE  TextKept /\ TextBlank'
  <1>1. PICK s \in Slots : s = ReadSlot
    OBVIOUS
  <1>2. PICK n \in 0 .. PARAMETER_LENGTH : Put(Filled(text[s], 0, n, 0))
    BY <1>1 DEF ShortData
  <1> DEFINE b == Filled(text[s], 0, n, 0)
  <1>3. \A j \in Cells : b[j] = text[s][j] \/ Lands(0, b[j])
    BY FilledLands DEF ParserOK, PARAMETER_LENGTH
  <1>4. \A j \in Cells : j >= FirstBlank(s)
    BY <1>1, DataBlank DEF ShortData, Cells
  <1>5. /\ \A k \in Slots \ {s}, j \in Cells : j >= FirstBlank(k)' => j >= FirstBlank(k)
        /\ \A j \in Cells : ~(j >= FirstBlank(s)')
    BY <1>1, AfterFieldBlank DEF ShortData
  <1> HIDE DEF b
  <1>6. QED
    BY <1>1, <1>2, <1>3, <1>4, <1>5, PutInOnePass DEF b

\* The first word of a longer one.
LEMMA LongOnePass ==
  ASSUME ParserOK, TextBlank, UNCHANGED selectorIndex, ReadSlot \in Slots,
         NEW length \in UInt16, LongData(length)
  PROVE  TextKept /\ TextBlank'
  <1>1. PICK s \in Slots : s = ReadSlot
    OBVIOUS
  <1> DEFINE missing == length % PARAMETER_LENGTH
             h == Head16(text[s])
  <1>2. missing \in Int /\ 0 <= missing /\ missing <= 31 /\ bytes_missing' = missing
    BY UInt16Type DEF PARAMETER_LENGTH, LongData
  <1>3. parameterOffset \in Nat /\ Now \in {13, 18} /\ Now' \in {Now + 1, Now + 2}
    BY DEF ParserOK, LongData, Now
  <1>4. \A j \in Cells : j \in Int /\ 0 <= j /\ j <= 31
    BY DEF Cells, PARAMETER_LENGTH
  <1>5. \A j \in Cells : j >= FirstBlank(s) /\ text[s][j] = 0
    BY <1>1, <1>3, <1>4, DataBlank DEF TextBlank
  <1>6. \A j \in Cells : /\ j < HALF_PARAMETER_LENGTH => Lands(0, h[j])
                         /\ ~(j < HALF_PARAMETER_LENGTH) => h[j] = text[s][j]
    <2> SUFFICES ASSUME NEW j \in Cells
                 PROVE  /\ j < HALF_PARAMETER_LENGTH => Lands(0, h[j])
                        /\ ~(j < HALF_PARAMETER_LENGTH) => h[j] = text[s][j]
      OBVIOUS
    <2>1. /\ 0 \in Int /\ HALF_PARAMETER_LENGTH \in Int
          /\ 0 <= 0 /\ 0 + HALF_PARAMETER_LENGTH <= PARAMETER_LENGTH
          /\ 0 <= j /\ (j < HALF_PARAMETER_LENGTH <=> j < 0 + HALF_PARAMETER_LENGTH)
      BY <1>4 DEF HALF_PARAMETER_LENGTH, PARAMETER_LENGTH
    <2>2. \A first, n, byte \in Int :
             0 <= byte /\ byte + n <= PARAMETER_LENGTH
               => /\ first <= j /\ j < first + n
                       => Lands(0, Filled(text[s], first, n, byte)[j])
                  /\ ~(first <= j /\ j < first + n)
                       => Filled(text[s], first, n, byte)[j] = text[s][j]
      BY <1>3, FilledLands
    <2>3. QED
      BY <2>1, <2>2 DEF Head16
  <1>7. UNCHANGED id
    BY DEF LongData
  <1>8. /\ \A k \in Slots \ {s}, j \in Cells : j >= FirstBlank(k)' => j >= FirstBlank(k)
        /\ FirstBlank(s)' = IF Now' \in {14, 19} THEN HALF_PARAMETER_LENGTH ELSE LastCell'
    BY <1>1, <1>3, <1>7, MiddleBlank
  <1>9. LastCell' = IF missing <= HALF_PARAMETER_LENGTH THEN PARAMETER_LENGTH - missing
                    ELSE HALF_PARAMETER_LENGTH
    BY <1>2 DEF LastCell
  <1> HIDE DEF h, missing
  <1>10. CASE Put(h)
    <2>1. HALF_PARAMETER_LENGTH <= FirstBlank(s)'
      BY <1>2, <1>8, <1>9 DEF PARAMETER_LENGTH, HALF_PARAMETER_LENGTH
    <2>2. FirstBlank(s)' \in Int
      BY <1>2, <1>8, <1>9 DEF PARAMETER_LENGTH, HALF_PARAMETER_LENGTH
    <2>3. \A j \in Cells : j >= FirstBlank(s)' => h[j] = 0
      BY <1>4, <1>5, <1>6, <2>1, <2>2 DEF HALF_PARAMETER_LENGTH
    <2>4. QED
      BY <1>1, <1>5, <1>6, <1>8, <1>10, <2>3, PutInOnePass
  <1>11. CASE /\ missing < HALF_PARAMETER_LENGTH
              /\ Now' = Now + 2
              /\ \E n \in 0 .. HALF_PARAMETER_LENGTH - missing :
                    Put(Filled(h, HALF_PARAMETER_LENGTH, n, HALF_PARAMETER_LENGTH + missing))
    <2>1. PICK n \in 0 .. HALF_PARAMETER_LENGTH - missing :
             Put(Filled(h, HALF_PARAMETER_LENGTH, n, HALF_PARAMETER_LENGTH + missing))
      BY <1>11
    <2> DEFINE b == Filled(h, HALF_PARAMETER_LENGTH, n, HALF_PARAMETER_LENGTH + missing)
    <2>2. n \in Int /\ 0 <= n /\ n <= HALF_PARAMETER_LENGTH - missing
      BY <1>2 DEF HALF_PARAMETER_LENGTH
    <2>3. \A j \in Cells :
             IF HALF_PARAMETER_LENGTH <= j /\ j < HALF_PARAMETER_LENGTH + n
             THEN Lands(0, b[j]) ELSE b[j] = h[j]
      BY <1>2, <1>3, <2>2, FilledLands DEF HALF_PARAMETER_LENGTH, PARAMETER_LENGTH
    <2>4. FirstBlank(s)' = PARAMETER_LENGTH - missing
      BY <1>2, <1>3, <1>8, <1>9, <1>11 DEF HALF_PARAMETER_LENGTH
    <2> HIDE DEF b
    <2>5. \A j \in Cells : b[j] = text[s][j] \/ Lands(0, b[j])
      BY <1>6, <2>3
    <2>6. \A j \in Cells : j >= FirstBlank(s)'
             => /\ ~(HALF_PARAMETER_LENGTH <= j /\ j < HALF_PARAMETER_LENGTH + n)
                /\ ~(j < HALF_PARAMETER_LENGTH)
      BY <1>2, <1>4, <1>11, <2>2, <2>4 DEF HALF_PARAMETER_LENGTH, PARAMETER_LENGTH
    <2>7. \A j \in Cells : j >= FirstBlank(s)' => b[j] = 0
      BY <1>5, <1>6, <2>3, <2>6
    <2>8. Put(b)
      BY <2>1 DEF b
    <2>9. QED
      BY <1>1, <1>5, <1>8, <2>5, <2>7, <2>8, PutInOnePass
  <1>12. \/ Put(Head16(text[ReadSlot]))
         \/ /\ missing < HALF_PARAMETER_LENGTH
            /\ Stage(next_param') = Now + 2
            /\ \E n \in 0 .. HALF_PARAMETER_LENGTH - missing :
                  Put(Filled(Head16(text[ReadSlot]), HALF_PARAMETER_LENGTH, n,
                             HALF_PARAMETER_LENGTH + missing))
    BY DEF LongData, missing
  <1>13. Stage(next_param') = Now'
    BY DEF Now
  <1>14. QED
    BY <1>1, <1>10, <1>11, <1>12, <1>13 DEF h

\* Its second-last word.
LEMMA SecondOnePass ==
  ASSUME ParserOK, Fresh, TextBlank, UNCHANGED selectorIndex, ReadSlot \in Slots, SecondData
  PROVE  TextKept /\ TextBlank'
  <1>1. PICK s \in Slots : s = ReadSlot
    OBVIOUS
  <1> DEFINE missing == bytes_missing
  <1>2. /\ Now \in {14, 19}
        /\ Now' = Now + 1
        /\ UNCHANGED <<id, bytes_missing>>
        /\ parameterOffset \in Nat
    BY DEF SecondData, Now, ParserOK
  <1>3. missing \in Int /\ 0 <= missing /\ missing < HALF_PARAMETER_LENGTH
    <2>1. next_param \in SecondParams
      BY <1>2, CasesOf, OfStage DEF ParserOK, Expected, Now
    <2>2. missing < HALF_PARAMETER_LENGTH
      BY <2>1 DEF Fresh, Partial
    <2>3. missing \in 0 .. 31
      BY DEF ParserOK, FieldsOK, PARAMETER_LENGTH
    <2>4. QED
      BY <2>2, <2>3
  <1>4. PICK n \in 0 .. HALF_PARAMETER_LENGTH - missing :
           Put(Filled(text[s], HALF_PARAMETER_LENGTH, n, HALF_PARAMETER_LENGTH + missing))
    BY <1>1 DEF SecondData
  <1> DEFINE b == Filled(text[s], HALF_PARAMETER_LENGTH, n, HALF_PARAMETER_LENGTH + missing)
  <1>5. n \in Int /\ 0 <= n /\ n <= HALF_PARAMETER_LENGTH - missing
    BY <1>3 DEF HALF_PARAMETER_LENGTH
  <1>6. \A j \in Cells :
           IF HALF_PARAMETER_LENGTH <= j /\ j < HALF_PARAMETER_LENGTH + n
           THEN Lands(0, b[j]) ELSE b[j] = text[s][j]
    <2>1. /\ HALF_PARAMETER_LENGTH \in Int /\ HALF_PARAMETER_LENGTH + missing \in Int
          /\ 0 <= HALF_PARAMETER_LENGTH + missing
          /\ (HALF_PARAMETER_LENGTH + missing) + n <= PARAMETER_LENGTH
      BY <1>3, <1>5 DEF HALF_PARAMETER_LENGTH, PARAMETER_LENGTH
    <2>2. \A first, size, byte \in Int, j \in Cells :
             0 <= byte /\ byte + size <= PARAMETER_LENGTH
               => /\ first <= j /\ j < first + size
                       => Lands(0, Filled(text[s], first, size, byte)[j])
                  /\ ~(first <= j /\ j < first + size)
                       => Filled(text[s], first, size, byte)[j] = text[s][j]
      BY <1>2, FilledLands
    <2>3. QED
      BY <1>5, <2>1, <2>2
  <1>7. FirstBlank(s) = HALF_PARAMETER_LENGTH
    <2>1. id \in Int
      BY UInt8Type DEF ParserOK, FieldsOK
    <2>2. ~Unread(s)
      BY <1>1, <1>2, <2>1, ArrayStages DEF Unread, ReadSlot, Slots
    <2>3. QED
      BY <1>1, <1>2, <2>2 DEF FirstBlank
  <1>8. /\ \A k \in Slots \ {s}, j \in Cells : j >= FirstBlank(k)' => j >= FirstBlank(k)
        /\ FirstBlank(s)' = IF Now' \in {14, 19} THEN HALF_PARAMETER_LENGTH ELSE LastCell'
    BY <1>1, <1>2, MiddleBlank
  <1>9. FirstBlank(s)' = PARAMETER_LENGTH - missing
    BY <1>2, <1>3, <1>8 DEF LastCell, HALF_PARAMETER_LENGTH
  <1>10. \A j \in Cells : j \in Int /\ 0 <= j /\ j <= 31
    BY DEF Cells, PARAMETER_LENGTH
  <1>11. Put(b)
    BY <1>4
  <1> HIDE DEF b
  <1>12. \A j \in Cells : b[j] = text[s][j] \/ (j >= FirstBlank(s) /\ Lands(0, b[j]))
    BY <1>6, <1>7, <1>10 DEF HALF_PARAMETER_LENGTH
  <1>13. \A j \in Cells : j >= FirstBlank(s)' => b[j] = 0
    <2>1. \A j \in Cells : j >= FirstBlank(s)'
             => /\ ~(HALF_PARAMETER_LENGTH <= j /\ j < HALF_PARAMETER_LENGTH + n)
                /\ j >= HALF_PARAMETER_LENGTH
      BY <1>3, <1>5, <1>9, <1>10 DEF HALF_PARAMETER_LENGTH, PARAMETER_LENGTH
    <2>2. QED
      BY <1>6, <1>7, <2>1 DEF TextBlank
  <1>14. QED
    BY <1>1, <1>8, <1>11, <1>12, <1>13, PutInOnePass

\* Its last word.
LEMMA LastOnePass ==
  ASSUME ParserOK, ElementOK, TextBlank, UNCHANGED selectorIndex, ReadSlot \in Slots, LastData
  PROVE  TextKept /\ TextBlank'
  <1>1. PICK s \in Slots : s = ReadSlot
    OBVIOUS
  <1>2. Now \in {15, 20} /\ parameterOffset \in Nat
    BY DEF LastData, ParserOK
  <1>3. bytes_missing \in Int /\ 0 <= bytes_missing /\ bytes_missing <= 31
    BY DEF ParserOK, FieldsOK, PARAMETER_LENGTH
  <1>4. /\ LastCell \in Int /\ 0 <= LastCell /\ LastCell <= PARAMETER_LENGTH
        /\ LastByte \in Int /\ 0 <= LastByte /\ LastByte <= LastCell
    BY <1>3 DEF LastCell, LastByte, PARAMETER_LENGTH, HALF_PARAMETER_LENGTH
  <1>5. PICK n \in 0 .. PARAMETER_LENGTH - LastCell : Put(Filled(text[s], LastCell, n, LastByte))
    BY <1>1 DEF LastData
  <1> DEFINE b == Filled(text[s], LastCell, n, LastByte)
  <1>6. n \in Int /\ LastByte + n <= PARAMETER_LENGTH
    BY <1>4 DEF PARAMETER_LENGTH
  <1>7. \A j \in Cells :
           IF LastCell <= j /\ j < LastCell + n THEN Lands(0, b[j]) ELSE b[j] = text[s][j]
    BY <1>2, <1>4, <1>6, FilledLands
  <1>8. FirstBlank(s) = LastCell
    <2>1. id \in Int
      BY UInt8Type DEF ParserOK, FieldsOK
    <2>2. ~Unread(s)
      BY <1>1, <1>2, <2>1, ArrayStages DEF Unread, ReadSlot, Slots
    <2>3. QED
      BY <1>1, <1>2, <2>2 DEF FirstBlank
  <1>9. /\ \A k \in Slots \ {s}, j \in Cells : j >= FirstBlank(k)' => j >= FirstBlank(k)
        /\ \A j \in Cells : ~(j >= FirstBlank(s)')
    BY <1>1, <1>2, AfterFieldBlank DEF LastData
  <1>10. Put(b)
    BY <1>5
  <1>11. \A j \in Cells : j \in Int
    BY DEF Cells, PARAMETER_LENGTH
  <1> HIDE DEF b
  <1>12. \A j \in Cells : b[j] = text[s][j] \/ (j >= FirstBlank(s) /\ Lands(0, b[j]))
    BY <1>4, <1>7, <1>8, <1>11
  <1>13. QED
    BY <1>1, <1>9, <1>10, <1>12, PutInOnePass

\* A word of a dynamic field.
LEMMA FieldOnePass ==
  ASSUME ParserOK, ElementOK, Fresh, BlankInv, UNCHANGED selectorIndex, FieldWord
  PROVE  InOnePass
  <1>1. /\ UNCHANGED statics
        /\ ReadSlot \in Slots
        /\ \/ ShortData
           \/ \E length \in UInt16 : LongData(length)
           \/ SecondData
           \/ LastData
    BY FieldWordForms
  <1>2. TextKept /\ TextBlank'
    BY <1>1, ShortOnePass, LongOnePass, SecondOnePass, LastOnePass DEF BlankInv
  <1>3. Now' >= Now \/ (Now <= 16 /\ Now' >= 10)
    <2>1. CASE AfterField /\ Now \in {13, 15, 18, 20}
      <3>1. CASE IsArray
        BY <2>1, <3>1, ArrayStages, AfterFieldMoves
      <3>2. CASE ~IsArray
        BY <2>1, <3>2, AfterFieldMoves
      <3>3. QED
        BY <3>1, <3>2
    <2>2. CASE Now \in 1 .. 21 /\ Now' \in {Now + 1, Now + 2}
      BY <2>2
    <2>3. QED
      BY <1>1, <2>1, <2>2, StageType DEF ShortData, LongData, SecondData, LastData, Now
  <1>4. QED
    BY <1>1, <1>2, <1>3, StaticsStay DEF BlankInv, InOnePass

(***************************************************************************)
(* The specification.                                                      *)
(***************************************************************************)

\* While words are read, what they will fill is blank.
OnePassInv == Parsing => BlankInv

\* Whatever the word, it fills blank cells only and leaves blank what is to come.
LEMMA WordOnePass ==
  ASSUME IInv, Fresh, OnePassInv, NEW w, SendWord(w)
  PROVE  InOnePass
  <1>1. handle_provide_parameter(w) /\ Parsing
    BY DEF SendWord, ProvideParameter, Parsing
  <1>2. ParserOK /\ ElementOK /\ BlankInv
    BY <1>1, InvParserOK DEF IInv, OnePassInv
  <1>3. UNCHANGED selectorIndex /\ Kinds(w)
    BY <1>1, <1>2, ParameterKinds DEF handle_provide_parameter
  <1>4. QED
    BY <1>2, <1>3, QuietOnePass, HeadOnePass, OffsetOnePass, LengthOnePass, InputOnePass,
       FieldOnePass
    DEF Kinds

\* A session starts with blank memory, or is refused with what it was.
LEMMA InitContractBlank ==
  ASSUME NEW selector, NEW versionOk, NEW roomOk,
         handle_init_contract(selector, versionOk, roomOk)
  PROVE  \/ result' # "OK" /\ UNCHANGED context
         \/ /\ statics' = [f \in Statics |-> NoStatic]
            /\ text' = [k \in Slots |-> NoBytes]
  BY DEF handle_init_contract, ClearContext

\* A blank field, and a blank cell.
LEMMA Zeros == NoStatic.at = 0 /\ NoBytes = [j \in Cells |-> 0]
  BY DEF NoStatic, NoBytes, Cells

\* Every step keeps what will be filled blank.
LEMMA NextOnePass == IInv /\ Fresh /\ OnePassInv /\ [Next]_vars => OnePassInv'
  <1> SUFFICES ASSUME IInv, Fresh, OnePassInv, [Next]_vars PROVE OnePassInv'
    OBVIOUS
  <1>1. ASSUME NEW s, NEW v, NEW r, InitContract(s, v, r) PROVE OnePassInv'
    <2>1. handle_init_contract(s, v, r) /\ (result' # "OK" => phase' = "refused")
      BY <1>1 DEF InitContract, Continue
    <2>2. CASE result' # "OK"
      BY <2>1, <2>2 DEF OnePassInv, Parsing
    <2>3. CASE /\ statics' = [f \in Statics |-> NoStatic]
               /\ text' = [k \in Slots |-> NoBytes]
      BY <2>3, Zeros DEF OnePassInv, BlankInv, StaticsBlank, TextBlank
    <2>4. QED
      BY <2>1, <2>2, <2>3, InitContractBlank
  <1>2. ASSUME NEW w, SendWord(w) PROVE OnePassInv'
    BY <1>2, WordOnePass DEF InOnePass, OnePassInv, BlankInv
  <1>3. CASE Finalize \/ ProvideToken \/ QueryContractId \/ QueryContractUi
    BY <1>3
    DEF Finalize, ProvideToken, QueryContractId, QueryContractUi, Continue, OnePassInv, Parsing
  <1>4. CASE UNCHANGED vars
    BY <1>4
    DEF vars, context, cursor, fields, globals, host, OnePassInv, Parsing, BlankInv, StaticsBlank,
        TextBlank, FirstBlank, Unread, ReadSlot, Now, IsArray, LastCell
  <1>5. QED
    BY <1>1, <1>2, <1>3, <1>4 DEF Next

\* The initial states are no session.
LEMMA InitOnePass == Init => OnePassInv
  BY DEF Init, HostInit, OnePassInv, Parsing

\* What will be filled is blank, and the types, the array index and
\* bytes_missing are right, in every behaviour.
LEMMA OnePassInvariant == Spec => [](IInv /\ Fresh /\ OnePassInv)
  <1>1. Init => Fresh
    BY WholeNotPartial DEF Init, HostInit, Fresh, Whole
  <1>2. QED
    BY <1>1, InitOK, NextOK, NextFresh, InitOnePass, NextOnePass, PTL DEF Spec

\* A start of the plugin is one of the reader.
LEMMA StartReads ==
  ASSUME NEW s, NEW v, NEW r, InitContract(s, v, r)
  PROVE  Reader!Start
  <1>1. /\ ~Parsing
        /\ handle_init_contract(s, v, r)
        /\ result' # "OK" => phase' = "refused"
        /\ parameterOffset' = SELECTOR_SIZE
    BY DEF InitContract, Continue, Ended, Parsing
  <1>2. CASE result' # "OK" /\ UNCHANGED context
    BY <1>1, <1>2 DEF Reader!Start, Parsing, context, fields
  <1>3. CASE /\ statics' = [f \in Statics |-> NoStatic]
             /\ text' = [k \in Slots |-> NoBytes]
    BY <1>1, <1>3, Zeros DEF Reader!Start, Reader!Blank, Cells
  <1>4. QED
    BY <1>1, <1>2, <1>3, InitContractBlank

\* A word of the plugin is one of the reader.
LEMMA WordReads ==
  ASSUME IInv, Fresh, OnePassInv, NEW w, SendWord(w)
  PROVE  Reader!Read
  <1>1. InOnePass
    BY WordOnePass
  <1>2. Parsing /\ parameterOffset' = parameterOffset + PARAMETER_LENGTH
    BY DEF SendWord, ProvideParameter, Parsing
  <1>3. \A f \in Statics : Reader!Fills(statics[f].at, statics'[f].at)
    BY <1>1 DEF InOnePass, StaticsKept, Lands, Reader!Fills
  <1>4. \A k \in Slots, j \in Cells : Reader!Fills(text[k][j], text'[k][j])
    BY <1>1 DEF InOnePass, TextKept, Lands, Reader!Fills
  <1>5. QED
    BY <1>2, <1>3, <1>4 DEF Reader!Read, Cells

\* Every step of the plugin is one of the reader, or none.
LEMMA NextReads == IInv /\ Fresh /\ OnePassInv /\ [Next]_vars => [Reader!Next]_(Reader!vars)
  <1> SUFFICES ASSUME IInv, Fresh, OnePassInv, [Next]_vars
               PROVE  Reader!Next \/ UNCHANGED Reader!vars
    BY DEF Reader!vars
  <1>1. ASSUME NEW s, NEW v, NEW r, InitContract(s, v, r) PROVE Reader!Next
    BY <1>1, StartReads DEF Reader!Next
  <1>2. ASSUME NEW w, SendWord(w) PROVE Reader!Next
    BY <1>2, WordReads DEF Reader!Next
  <1>3. CASE Finalize
    BY <1>3 DEF Finalize, Continue, Parsing, context, fields, Reader!Next, Reader!Stop
  <1>4. CASE ProvideToken \/ QueryContractId \/ QueryContractUi
    BY <1>4
    DEF ProvideToken, QueryContractId, QueryContractUi, Continue, Parsing, context, fields,
        Reader!vars
  <1>5. CASE UNCHANGED vars
    BY <1>5 DEF vars, host, Parsing, context, fields, Reader!vars
  <1>6. QED
    BY <1>1, <1>2, <1>3, <1>4, <1>5 DEF Next

\* The plugin is a reader in one pass, whatever calldata the host sends, in
\* however many sessions (OnePassSpec): each case of
\* handle_provide_parameter.c copies bytes of the word it is given, and only
\* into what is still as the memset of handle_init_contract.c left it.
THEOREM OnePassRefinement == Spec => OnePassSpec
  <1>1. Init => Reader!Init
    BY Zeros DEF Init, HostInit, Reader!Init, Reader!Blank, Parsing, Cells
  <1>2. QED
    BY <1>1, OnePassInvariant, NextReads, PTL DEF Spec, OnePassSpec, Reader!Spec

\* Whatever calldata the host sends, no word is taken for a field that has
\* its value already: within a session nothing that was read is read over.
THEOREM ReadOnce == Spec => NoOverwrite
  <1> DEFINE A == \/ phase' = "parsing" /\ phase # "parsing"
                  \/ phase' = "refused" /\ phase # "parsing"
                  \/ /\ \A k \in Slots, j \in 0 .. PARAMETER_LENGTH - 1 :
                           text[k][j] # 0 => text'[k][j] = text[k][j]
                     /\ \A f \in Statics : statics[f].at # 0 => statics'[f] = statics[f]
  <1>1. IInv /\ Fresh /\ OnePassInv /\ [Next]_vars => [A]_vars
    <2> SUFFICES ASSUME IInv, Fresh, OnePassInv, Next PROVE A
      OBVIOUS
    <2>1. ASSUME NEW s, NEW v, NEW r, InitContract(s, v, r) PROVE A
      BY <2>1 DEF InitContract, Continue, Ended
    <2>2. ASSUME NEW w, SendWord(w) PROVE A
      BY <2>2, WordOnePass DEF InOnePass, StaticsKept, TextKept, Lands, Cells
    <2>3. CASE Finalize \/ ProvideToken \/ QueryContractId \/ QueryContractUi
      BY <2>3 DEF Finalize, ProvideToken, QueryContractId, QueryContractUi, context, fields
    <2>4. QED
      BY <2>1, <2>2, <2>3 DEF Next
  <1>2. QED
    BY <1>1, OnePassInvariant, PTL DEF Spec, NoOverwrite

=============================================================================
