------------------------------ MODULE EnsParser ------------------------------
(***************************************************************************)
(* The calldata parser: handle_init_contract and handle_provide_parameter  *)
(* with its fifteen handlers (src/handle_init_contract.c,                  *)
(* src/handle_provide_parameter.c), as actions on the plugin's context and *)
(* on its three file-scope globals.  The module that EXTENDS this one says *)
(* who calls the actions, and when.                                        *)
(*                                                                         *)
(* Bytes are modelled by where they come from: a cell of a buffer holds    *)
(* the position in the calldata of the byte copied into it, and 0 while it *)
(* still holds the 0 of the memset (position 0 is a byte of the selector,  *)
(* which no handler copies).                                               *)
(*                                                                         *)
(* A 32-byte word w of the calldata is what the handlers tell apart of it: *)
(*   small   its first 30 bytes are 0, so U2BE_from_parameter succeeds     *)
(*   low     its last two bytes, the number U2BE_from_parameter returns    *)
(*   alias   its bytes 1 and 2 as a little-endian uint16_t                 *)
(*   digits  the number of decimal digits of the 256-bit integer           *)
(***************************************************************************)
EXTENDS EnsDefs

VARIABLES
  next_param,     \* context->next_param
  offset,         \* context->offset
  go_to_offset,   \* context->go_to_offset
  selectorIndex,  \* context->selectorIndex
  statics,        \* fixed-size fields: where they were copied from, and what
  offsets,        \* saved ABI offsets (offset, *_offset, offsets[])
  len,            \* name.len, *_len, call_len[] of the dynamic fields
  text,           \* their 32-byte buffers: text, value, call[].value
  ellipsis,       \* their ellipsis flags
  count,          \* n_names, n_calls
  id,             \* renew_all.id, multicall.id
  offsets_start,  \* offsets_start
  bytes_missing,  \* the global of line 3
  name_offset,    \* the globals of lines 900 and 901
  input_offset,
  parameterOffset,\* msg->parameterOffset of the next call
  result          \* msg->result of the last call

cursor  == <<next_param, offset, go_to_offset>>
fields  == <<statics, offsets, len, text, ellipsis, count, id, offsets_start>>
context == <<cursor, selectorIndex, fields>>
globals == <<bytes_missing, name_offset, input_offset>>

Word == [low : UInt16, small : BOOLEAN, alias : UInt16, digits : 1 .. 78]

NoBytes  == [j \in 0 .. PARAMETER_LENGTH - 1 |-> 0]
NoStatic == [at |-> 0, digits |-> 1, alias |-> 0]

(***************************************************************************)
(* handle_init_contract.                                                   *)
(***************************************************************************)

ClearParsing(s, p) ==   \* mutant: what the screens show is not cleared
    /\ selectorIndex' = s
    /\ next_param' = p
    /\ offset' = 0
    /\ go_to_offset' = FALSE
    /\ UNCHANGED <<statics, len, text, ellipsis>>
    /\ offsets' = [k \in Slots |-> 0]
    /\ count' = 0
    /\ id' = 0
    /\ offsets_start' = 0

\* memset(context, 0, sizeof(*context)), then selectorIndex and next_param.
ClearContext(s, p) ==
    /\ selectorIndex' = s
    /\ next_param' = p
    /\ offset' = 0
    /\ go_to_offset' = FALSE
    /\ statics' = [f \in Statics |-> NoStatic]
    /\ offsets' = [k \in Slots |-> 0]
    /\ len' = [k \in Slots |-> 0]
    /\ text' = [k \in Slots |-> NoBytes]
    /\ ellipsis' = [k \in Slots |-> FALSE]
    /\ count' = 0
    /\ id' = 0
    /\ offsets_start' = 0

\* The globals are not part of the context: no call resets them here.
handle_init_contract(selector, versionOk, roomOk) ==
    /\ UNCHANGED globals
    /\ \/ /\ ~versionOk
          /\ result' = "UNAVAILABLE"
          /\ UNCHANGED context
       \/ /\ versionOk /\ ~roomOk
          /\ result' = "ERROR"
          /\ UNCHANGED context
       \/ /\ versionOk /\ roomOk
          /\ SelectorMatches(selector) = {}
          /\ result' = "UNAVAILABLE"
          /\ ClearContext("COMMIT", "COMMITMENT")
       \/ /\ versionOk /\ roomOk
          /\ SelectorMatches(selector) # {}
          /\ result' = "OK"
          /\ ClearContext(find_selector(selector), FirstParam(find_selector(selector)))

(***************************************************************************)
(* What a switch case does next.  The test of go_to_offset at the top of a *)
(* handler has cleared the flag whenever a case runs.                      *)
(***************************************************************************)

\* context->next_param = p;
Advance(p) ==
    /\ next_param' = p
    /\ go_to_offset' = FALSE
    /\ UNCHANGED offset

\* context->offset = o; (a uint16_t)  go_to_offset = true;  next_param = p;
Seek(o, p) ==
    /\ next_param' = p
    /\ offset' = U16(o)
    /\ go_to_offset' = TRUE

\* msg->result = ERROR, and return or break.
Refuse ==
    /\ result' = "ERROR"
    /\ go_to_offset' = FALSE
    /\ UNCHANGED <<next_param, offset, fields, bytes_missing>>

\* The early return before the switch, while the sought word is not reached.
SkipToOffset ==
    /\ go_to_offset
    /\ parameterOffset # offset
    /\ result' = "OK"
    /\ UNCHANGED <<cursor, fields, bytes_missing>>

AtOrPastOffset == ~(go_to_offset /\ parameterOffset < offset)   \* mutant: < for !=
AtOffset == ~(go_to_offset /\ parameterOffset # offset)

\* case NONE: the words after the last one the handler wants are ignored.
IgnoreWord ==
    /\ next_param = "NONE"
    /\ result' = "OK"
    /\ go_to_offset' = FALSE
    /\ UNCHANGED <<next_param, offset, fields, bytes_missing>>

(***************************************************************************)
(* Switch cases that handle one word.                                      *)
(***************************************************************************)

\* copy_parameter and copy_address (the last 20 of the 32 bytes) into f.
CopyWord(w, f, first) ==
    /\ statics' = [statics EXCEPT ![f] =
                     [at |-> parameterOffset + first, digits |-> w.digits, alias |-> w.alias]]
    /\ result' = "OK"
    /\ UNCHANGED <<offsets, len, text, ellipsis, count, id, offsets_start, bytes_missing>>

CopyAddressHead(w, f, p) == CopyWord(w, f, 0) /\ Advance(p)   \* mutant: first 20 bytes
CopyParameter(w, f, p) == CopyWord(w, f, 0) /\ Advance(p)
CopyAddress(w, f, p)   == CopyWord(w, f, 12) /\ Advance(p)

\* U2BE_from_parameter into an offset field.
SaveOffset(w, k, p) ==
    \/ /\ ~w.small
       /\ Refuse
    \/ /\ w.small
       /\ offsets' = [offsets EXCEPT ![k] = w.low]
       /\ result' = "OK"
       /\ UNCHANGED <<statics, len, text, ellipsis, count, id, offsets_start, bytes_missing>>
       /\ Advance(p)

SaveOffsetSilently(w, k, p) ==   \* mutant: the error is lost on the way
    /\ offsets' = IF w.small THEN [offsets EXCEPT ![k] = w.low] ELSE offsets
    /\ result' = "OK"
    /\ UNCHANGED <<statics, len, text, ellipsis, count, id, offsets_start, bytes_missing>>
    /\ Advance(p)

\* The same in prove_claim: without a return after msg->result = ERROR.
SaveOffsetAnyway(w, k, p) ==
    /\ offsets' = IF w.small THEN [offsets EXCEPT ![k] = w.low] ELSE offsets
    /\ result' = IF w.small THEN "OK" ELSE "ERROR"
    /\ UNCHANGED <<statics, len, text, ellipsis, count, id, offsets_start, bytes_missing>>
    /\ Advance(p)

\* renew_all and multicall keep the offset of the array in offsets_start.
SaveArrayOffset(w, p) ==
    \/ /\ ~w.small
       /\ Refuse
    \/ /\ w.small
       /\ offsets_start' = w.low
       /\ result' = "OK"
       /\ UNCHANGED <<statics, offsets, len, text, ellipsis, count, id, bytes_missing>>
       /\ Advance(p)

\* U2BE_from_parameter into a length field.
ReadLength(w, k, p) ==
    \/ /\ ~w.small
       /\ Refuse
    \/ /\ w.small
       /\ len' = [len EXCEPT ![k] = w.low]
       /\ result' = "OK"
       /\ UNCHANGED <<statics, offsets, text, ellipsis, count, id, offsets_start, bytes_missing>>
       /\ Advance(p)

ReadLengthAnywhere(o, w, k, p) == ReadLength(w, k, p)   \* mutant: no position check

\* The length word must be where the saved offset o says: the sum is an int.
ReadLengthAt(o, w, k, p) ==
    \/ /\ parameterOffset # o + SELECTOR_SIZE
       /\ Refuse
    \/ /\ parameterOffset = o + SELECTOR_SIZE
       /\ ReadLength(w, k, p)

(***************************************************************************)
(* Arrays of dynamic fields: names[] of renew_all, call[] of multicall.    *)
(***************************************************************************)

ReadAnyCount(w, limit) ==   \* mutant: the number is not compared with the limit
    \/ /\ parameterOffset # offsets_start + SELECTOR_SIZE
       /\ Refuse
    \/ /\ parameterOffset = offsets_start + SELECTOR_SIZE
       /\ count' = IF w.small THEN w.low ELSE count
       /\ result' = IF w.small THEN "OK" ELSE "ERROR"
       /\ UNCHANGED <<statics, offsets, len, text, ellipsis, id, offsets_start, bytes_missing>>
       /\ Advance("OFFSETS")

ReadClampedCount(w, limit) ==   \* mutant: a greater number is cut down to the limit
    \/ /\ parameterOffset # offsets_start + SELECTOR_SIZE
       /\ Refuse
    \/ /\ parameterOffset = offsets_start + SELECTOR_SIZE
       /\ count' = IF w.small THEN Least(w.low, limit) ELSE count
       /\ result' = IF w.small /\ count' # 0 THEN "OK" ELSE "ERROR"
       /\ UNCHANGED <<statics, offsets, len, text, ellipsis, id, offsets_start, bytes_missing>>
       /\ Advance("OFFSETS")

\* case N_NAME, N_CALL.  A refused count does not keep the handler from
\* moving on: it is the host that stops.
ReadCount(w, limit) ==
    \/ /\ parameterOffset # offsets_start + SELECTOR_SIZE
       /\ Refuse
    \/ /\ parameterOffset = offsets_start + SELECTOR_SIZE
       /\ count' = IF w.small THEN w.low ELSE count
       /\ result' = IF w.small /\ w.low \in 1 .. limit THEN "OK" ELSE "ERROR"
       /\ UNCHANGED <<statics, offsets, len, text, ellipsis, id, offsets_start, bytes_missing>>
       /\ Advance("OFFSETS")

\* case OFFSETS: the element offsets count from the first of these words.
ReadElementOffset(w, p) ==
    \/ /\ ~w.small
       /\ Refuse
    \/ /\ w.small
       /\ offsets_start' = IF id = 0 THEN U16(parameterOffset) ELSE offsets_start
       /\ offsets' = [offsets EXCEPT ![id] = w.low]
       /\ result' = "OK"
       /\ UNCHANGED <<statics, len, text, ellipsis, count, bytes_missing>>
       /\ \/ /\ U8(id + 1) # count
             /\ id' = U8(id + 1)
             /\ Advance("OFFSETS")
          \/ /\ U8(id + 1) = count
             /\ id' = 0
             /\ Seek(offsets_start' + offsets'[0], p)

NextElementSameId(p) ==   \* mutant: id++ forgotten
    \/ /\ id = count - 1
       /\ id' = 0
       /\ Advance("NONE")
    \/ /\ id # count - 1
       /\ id' = id
       /\ Seek(offsets_start + offsets[id + 1], p)

\* After an element: NONE after the last one, else seek the next one's length.
NextElement(p) ==
    \/ /\ id = count - 1
       /\ id' = 0
       /\ Advance("NONE")
    \/ /\ id # count - 1
       /\ id' = U8(id + 1)
       /\ Seek(offsets_start + offsets[id + 1], p)

ThenAgain(p) ==   \* mutant: next_param is left alone
    /\ go_to_offset' = FALSE
    /\ UNCHANGED <<next_param, offset, id>>

\* After a field that is not an array element.
Then(p) == Advance(p) /\ UNCHANGED id

(***************************************************************************)
(* Dynamic fields.  At most 32 bytes of a field are kept: all of it, or    *)
(* its first 16 and its last 16 bytes.  The last 16 lie in one word or     *)
(* across two; a field names the cases that handle its first, its second-  *)
(* last and its last word, and says whether its copies are bounded by its  *)
(* length (name_t) or by the size of its buffer (bytes32_t).               *)
(***************************************************************************)
NameField  == [slot |-> Name,  data |-> "NAME",  second |-> "NAME_OFFSET_1",
               last |-> "NAME_OFFSET_2", byLength |-> TRUE]
ProofField == [slot |-> Proof, data |-> "PROOF", second |-> "PROOF_1",
               last |-> "PROOF_2", byLength |-> FALSE]
HashField  == [slot |-> Hash,  data |-> "HASH",  second |-> "HASH_1",
               last |-> "HASH_2", byLength |-> FALSE]
KeyField   == [slot |-> Key,   data |-> "KEY",   second |-> "KEY_1",
               last |-> "KEY_2", byLength |-> TRUE]
ValueField == [slot |-> Value, data |-> "VALUE", second |-> "VALUE_1",
               last |-> "VALUE_2", byLength |-> TRUE]
\* Element id of an array.
NameElement == [NameField EXCEPT !.slot = id]
CallElement == [slot |-> id, data |-> "CALL", second |-> "CALL_1",
                last |-> "CALL_2", byLength |-> FALSE]

\* What dst_len is computed from.
Size(f) == IF f.byLength THEN len[f.slot] ELSE PARAMETER_LENGTH

\* copy_text(buffer + dst, dst_len, max_len, the byte at position src); the
\* two lengths are passed as uint16_t.
copy_text(buffer, dst, dst_len, max_len, src) ==
    [j \in DOMAIN buffer |->
        IF j \in dst .. dst + Least(U16(dst_len), U16(max_len)) - 1
        THEN src + (j - dst) ELSE buffer[j]]

\* The copies of a field: its first 16 bytes; the bytes of the second-last
\* word that are among its last 16, when `missing` of those are in the last
\* word; and the bytes of the last word.
FirstHalf(f, buffer) ==
    copy_text(buffer, 0, Size(f), HALF_PARAMETER_LENGTH, parameterOffset)

SecondLastPartHead(f, missing, buffer) ==   \* mutant: the source is not shifted
    copy_text(buffer, HALF_PARAMETER_LENGTH,
              Size(f) - HALF_PARAMETER_LENGTH, HALF_PARAMETER_LENGTH - missing,
              parameterOffset + HALF_PARAMETER_LENGTH)

SecondLastHalf(f, missing, buffer) ==   \* mutant: 16 bytes, although some are in the next word
    copy_text(buffer, HALF_PARAMETER_LENGTH,
              Size(f) - HALF_PARAMETER_LENGTH, HALF_PARAMETER_LENGTH,
              parameterOffset + HALF_PARAMETER_LENGTH + missing)

SecondLastPart(f, missing, buffer) ==
    copy_text(buffer, HALF_PARAMETER_LENGTH,
              Size(f) - HALF_PARAMETER_LENGTH, HALF_PARAMETER_LENGTH - missing,
              parameterOffset + HALF_PARAMETER_LENGTH + missing)

LastPartHead(f, missing, buffer) ==   \* mutant: the first 16 bytes of a fuller word
    IF missing <= HALF_PARAMETER_LENGTH
    THEN copy_text(buffer, PARAMETER_LENGTH - missing,
                   Size(f) - missing, missing, parameterOffset)
    ELSE copy_text(buffer, HALF_PARAMETER_LENGTH,
                   Size(f) - HALF_PARAMETER_LENGTH, HALF_PARAMETER_LENGTH, parameterOffset)

LastPart(f, missing, buffer) ==
    IF missing <= HALF_PARAMETER_LENGTH
    THEN copy_text(buffer, PARAMETER_LENGTH - missing,
                   Size(f) - missing, missing, parameterOffset)
    ELSE copy_text(buffer, HALF_PARAMETER_LENGTH,
                   Size(f) - HALF_PARAMETER_LENGTH, HALF_PARAMETER_LENGTH,
                   parameterOffset + (missing - HALF_PARAMETER_LENGTH))

\* A field of at most 32 bytes, in one word.
ReadShort(f, Done) ==
    /\ len[f.slot] <= PARAMETER_LENGTH
    /\ text' = [text EXCEPT ![f.slot] =
                  copy_text(@, 0, Size(f), PARAMETER_LENGTH, parameterOffset)]
    /\ ellipsis' = [ellipsis EXCEPT ![f.slot] = FALSE]
    /\ UNCHANGED bytes_missing
    /\ Done

\* The bytes of the field in its last word, if that is not full.
MissingBytesOfTwoWords(length) == length - PARAMETER_LENGTH   \* mutant: no longer field
MissingBytes(length) == length % PARAMETER_LENGTH

\* A longer one: keep the first 16 bytes and seek the word where the last 16
\* start.  `length` is the field the numbers of words and bytes come from.
ReadLong(f, length) ==
    LET containers == length \div PARAMETER_LENGTH
        missing    == MissingBytes(length)
    IN /\ len[f.slot] > PARAMETER_LENGTH
       /\ bytes_missing' = missing
       /\ ellipsis' = [ellipsis EXCEPT ![f.slot] = TRUE]
       /\ UNCHANGED id
       /\ \/ /\ missing < HALF_PARAMETER_LENGTH
             /\ containers < 2
             /\ text' = [text EXCEPT ![f.slot] =
                           SecondLastPart(f, missing, FirstHalf(f, @))]
             /\ Seek(parameterOffset + PARAMETER_LENGTH, f.last)
          \/ /\ missing < HALF_PARAMETER_LENGTH
             /\ containers >= 2
             /\ text' = [text EXCEPT ![f.slot] = FirstHalf(f, @)]
             /\ Seek(parameterOffset + (containers - 1) * PARAMETER_LENGTH, f.second)
          \/ /\ missing >= HALF_PARAMETER_LENGTH
             /\ text' = [text EXCEPT ![f.slot] = FirstHalf(f, @)]
             /\ Seek(parameterOffset + containers * PARAMETER_LENGTH, f.last)

ReadSecondLast(f) ==
    /\ text' = [text EXCEPT ![f.slot] = SecondLastPart(f, bytes_missing, @)]
    /\ UNCHANGED <<ellipsis, id, bytes_missing>>
    /\ Advance(f.last)

ReadLast(f, Done) ==
    /\ text' = [text EXCEPT ![f.slot] = LastPart(f, bytes_missing, @)]
    /\ UNCHANGED <<ellipsis, bytes_missing>>
    /\ Done

\* The three cases of a dynamic field.
ReadField(f, length, Done) ==
    /\ result' = "OK"
    /\ UNCHANGED <<statics, offsets, len, count, offsets_start>>
    /\ \/ /\ next_param = f.data
          /\ \/ ReadShort(f, Done)
             \/ ReadLong(f, length)
       \/ /\ next_param = f.second
          /\ ReadSecondLast(f)
       \/ /\ next_param = f.last
          /\ ReadLast(f, Done)

(***************************************************************************)
(* The handlers of one function each: the tests of next_param are the      *)
(* labels of the switch.  Not one reads a word before the sought one.      *)
(***************************************************************************)
handle_commit(w) ==
    \/ IgnoreWord
    \/ next_param = "COMMITMENT" /\ CopyParameter(w, "commitment", "NONE")

handle_register(w) ==
    \/ SkipToOffset
    \/ /\ AtOffset
       /\ \/ IgnoreWord
          \/ next_param = "NAME_OFFSET" /\ SaveOffset(w, Name, "OWNER")
          \/ next_param = "OWNER" /\ CopyAddress(w, "owner", "DURATION")
          \/ next_param = "DURATION" /\ CopyParameter(w, "duration", "SECRET")
          \/ next_param = "SECRET" /\ CopyParameter(w, "secret", "NAME_LENGTH")
          \/ next_param = "NAME_LENGTH" /\ ReadLengthAt(offsets[Name], w, Name, "NAME")
          \/ ReadField(NameField, len[Name], Then("NONE"))

\* The duration word is skipped: it is not shown.
handle_register_with_config(w) ==
    \/ SkipToOffset
    \/ /\ AtOffset
       /\ \/ IgnoreWord
          \/ next_param = "NAME_OFFSET" /\ SaveOffset(w, Name, "OWNER")
          \/ /\ next_param = "OWNER"
             /\ CopyWord(w, "owner", 12)
             /\ Seek(parameterOffset + 2 * PARAMETER_LENGTH, "SECRET")
          \/ next_param = "SECRET" /\ CopyParameter(w, "secret", "RESOLVER")
          \/ next_param = "RESOLVER" /\ CopyAddress(w, "resolver", "ADDR")
          \/ next_param = "ADDR" /\ CopyAddress(w, "addr", "NAME_LENGTH")
          \/ next_param = "NAME_LENGTH" /\ ReadLengthAt(offsets[Name], w, Name, "NAME")
          \/ ReadField(NameField, len[Name], Then("NONE"))

handle_renew(w) ==
    \/ SkipToOffset
    \/ /\ AtOffset
       /\ \/ IgnoreWord
          \/ next_param = "NAME_OFFSET" /\ SaveOffset(w, Name, "DURATION")
          \/ next_param = "DURATION" /\ CopyParameter(w, "duration", "NAME_LENGTH")
          \/ next_param = "NAME_LENGTH" /\ ReadLengthAt(offsets[Name], w, Name, "NAME")
          \/ ReadField(NameField, len[Name], Then("NONE"))

handle_set_name(w) ==
    \/ SkipToOffset
    \/ /\ AtOffset
       /\ \/ IgnoreWord
          \/ next_param = "NAME_OFFSET" /\ SaveOffset(w, Name, "NAME_LENGTH")
          \/ next_param = "NAME_LENGTH" /\ ReadLengthAt(offsets[Name], w, Name, "NAME")
          \/ ReadField(NameField, len[Name], Then("NONE"))

handle_renew_all(w) ==
    \/ SkipToOffset
    \/ /\ AtOffset
       /\ \/ IgnoreWord
          \/ next_param = "NAME_OFFSET" /\ SaveArrayOffset(w, "DURATION")
          \/ next_param = "DURATION" /\ CopyParameter(w, "duration", "N_NAME")
          \/ next_param = "N_NAME" /\ ReadCount(w, 2)
          \/ next_param = "OFFSETS" /\ ReadElementOffset(w, "NAME_LENGTH")
          \/ next_param = "NAME_LENGTH" /\ ReadLength(w, id, "NAME")
          \/ ReadField(NameElement, len[id], NextElement("NAME_LENGTH"))

\* case INPUT: the number of inputs, where the saved offset o says it is.
ReadInputs(o, w) ==
    \/ /\ parameterOffset # o + SELECTOR_SIZE
       /\ Refuse
    \/ /\ parameterOffset = o + SELECTOR_SIZE
       /\ CopyWord(w, "n_inputs", 0)
       /\ Seek(offsets[Proof] + SELECTOR_SIZE, "PROOF_LEN")

handle_prove_claim(w) ==
    \/ SkipToOffset
    \/ /\ AtOffset
       /\ \/ IgnoreWord
          \/ next_param = "NAME_OFFSET" /\ SaveOffsetAnyway(w, Name, "INPUT_OFFSET")
          \/ next_param = "INPUT_OFFSET" /\ SaveOffsetAnyway(w, Input, "PROOF_OFFSET")
          \/ next_param = "PROOF_OFFSET" /\ SaveOffsetAnyway(w, Proof, "NAME_LENGTH")
          \/ next_param = "NAME_LENGTH" /\ ReadLengthAt(offsets[Name], w, Name, "NAME")
          \/ ReadField(NameField, len[Name], Then("INPUT"))
          \/ next_param = "INPUT" /\ ReadInputs(offsets[Input], w)
          \/ next_param = "PROOF_LEN" /\ ReadLength(w, Proof, "PROOF")
          \/ ReadField(ProofField, len[Proof], Then("NONE"))

\* Two of the offsets are kept in globals, because the context is full.
SaveNameOffset(w) ==
    /\ name_offset' = IF w.small THEN w.low ELSE name_offset
    /\ result' = IF w.small THEN "OK" ELSE "ERROR"
    /\ Advance("INPUT_OFFSET")
    /\ UNCHANGED <<fields, bytes_missing, input_offset>>

SaveFirstInputOffset(w) ==   \* mutant: an offset an earlier session left is kept
    /\ input_offset' = IF w.small /\ input_offset = 0 THEN w.low ELSE input_offset
    /\ result' = IF w.small THEN "OK" ELSE "ERROR"
    /\ Advance("PROOF_OFFSET")
    /\ UNCHANGED <<fields, bytes_missing, name_offset>>

SaveInputOffset(w) ==
    /\ input_offset' = IF w.small THEN w.low ELSE input_offset
    /\ result' = IF w.small THEN "OK" ELSE "ERROR"
    /\ Advance("PROOF_OFFSET")
    /\ UNCHANGED <<fields, bytes_missing, name_offset>>

\* The globals are zeroed once the word they point to is reached.
ReadNameLength(w) ==
    /\ next_param = "NAME_LENGTH"
    /\ ReadLengthAt(name_offset, w, Name, "NAME")
    /\ name_offset' = IF parameterOffset = name_offset + SELECTOR_SIZE THEN 0 ELSE name_offset
    /\ UNCHANGED input_offset

ReadInputsThenProof(w) ==   \* mutant: the proof is not sought
    /\ next_param = "INPUT"
    /\ \/ /\ parameterOffset # input_offset + SELECTOR_SIZE
          /\ Refuse
       \/ /\ parameterOffset = input_offset + SELECTOR_SIZE
          /\ CopyParameter(w, "n_inputs", "PROOF_LEN")
    /\ input_offset' = IF parameterOffset = input_offset + SELECTOR_SIZE THEN 0 ELSE input_offset
    /\ UNCHANGED name_offset

ReadInputsLength(w) ==
    /\ next_param = "INPUT"
    /\ ReadInputs(input_offset, w)
    /\ input_offset' = IF parameterOffset = input_offset + SELECTOR_SIZE THEN 0 ELSE input_offset
    /\ UNCHANGED name_offset

handle_prove_claim_resolver(w) ==
    \/ SkipToOffset /\ UNCHANGED <<name_offset, input_offset>>
    \/ /\ AtOffset
       /\ \/ next_param = "NAME_OFFSET" /\ SaveNameOffset(w)
          \/ next_param = "INPUT_OFFSET" /\ SaveInputOffset(w)
          \/ ReadNameLength(w)
          \/ ReadInputsLength(w)
          \/ /\ UNCHANGED <<name_offset, input_offset>>
             /\ \/ IgnoreWord
                \/ next_param = "PROOF_OFFSET" /\ SaveOffsetAnyway(w, Proof, "RESOLVER")
                \/ next_param = "RESOLVER" /\ CopyAddress(w, "resolver", "ADDR")
                \/ next_param = "ADDR" /\ CopyAddress(w, "addr", "NAME_LENGTH")
                \/ ReadField(NameField, len[Name], Then("INPUT"))
                \/ next_param = "PROOF_LEN" /\ ReadLength(w, Proof, "PROOF")
                \/ ReadField(ProofField, len[Proof], Then("NONE"))

handle_owner(w) ==
    \/ IgnoreWord
    \/ next_param = "NODE" /\ CopyParameter(w, "node", "OWNER")
    \/ next_param = "OWNER" /\ CopyAddress(w, "owner", "NONE")

handle_resolver(w) ==
    \/ IgnoreWord
    \/ next_param = "NODE" /\ CopyParameter(w, "node", "RESOLVER")
    \/ next_param = "RESOLVER" /\ CopyAddress(w, "resolver", "NONE")

handle_subnode(w) ==
    \/ IgnoreWord
    \/ next_param = "NODE" /\ CopyParameter(w, "node", "LABEL")
    \/ next_param = "LABEL" /\ CopyParameter(w, "label", "OWNER")
    \/ next_param = "OWNER" /\ CopyAddress(w, "owner", "RESOLVER")
    \/ next_param = "RESOLVER" /\ CopyAddress(w, "resolver", "TTL")
    \/ next_param = "TTL" /\ CopyParameter(w, "ttl", "NONE")

\* Lines 1273 and 1274 take the length from set_content_hash.hash_len, which
\* in the union is bytes 1 and 2 of coinType, and not from a_len.
handle_set_addr(w) ==
    \/ SkipToOffset
    \/ /\ AtOffset
       /\ \/ IgnoreWord
          \/ next_param = "NODE" /\ CopyParameter(w, "node", "COINTYPE")
          \/ next_param = "COINTYPE" /\ CopyParameter(w, "coinType", "HASH_OFFSET")
          \/ next_param = "HASH_OFFSET" /\ SaveOffset(w, Hash, "HASH_LEN")
          \/ next_param = "HASH_LEN" /\ ReadLengthAt(offsets[Hash], w, Hash, "HASH")
          \/ ReadField(HashField, statics["coinType"].alias, Then("NONE"))

handle_set_text(w) ==
    \/ SkipToOffset
    \/ /\ AtOffset
       /\ \/ IgnoreWord
          \/ next_param = "NODE" /\ CopyParameter(w, "node", "KEY_OFFSET")
          \/ next_param = "KEY_OFFSET" /\ SaveOffset(w, Key, "VALUE_OFFSET")
          \/ next_param = "VALUE_OFFSET" /\ SaveOffset(w, Value, "KEY_LENGTH")
          \/ next_param = "KEY_LENGTH" /\ ReadLengthAt(offsets[Key], w, Key, "KEY")
          \/ ReadField(KeyField, len[Key], Then("VALUE_LENGTH"))
          \/ next_param = "VALUE_LENGTH" /\ ReadLengthAt(offsets[Value], w, Value, "VALUE")
          \/ ReadField(ValueField, len[Value], Then("NONE"))

\* mutant: hash_len read through another member of the union
handle_set_content_hash_aliased(w) ==
    \/ SkipToOffset
    \/ /\ AtOffset
       /\ \/ IgnoreWord
          \/ next_param = "NODE" /\ CopyParameter(w, "node", "HASH_OFFSET")
          \/ next_param = "HASH_OFFSET" /\ SaveOffset(w, Hash, "HASH_LEN")
          \/ next_param = "HASH_LEN" /\ ReadLengthAt(offsets[Hash], w, Hash, "HASH")
          \/ ReadField(HashField, statics["node"].alias, Then("NONE"))

handle_set_content_hash(w) ==
    \/ SkipToOffset
    \/ /\ AtOffset
       /\ \/ IgnoreWord
          \/ next_param = "NODE" /\ CopyParameter(w, "node", "HASH_OFFSET")
          \/ next_param = "HASH_OFFSET" /\ SaveOffset(w, Hash, "HASH_LEN")
          \/ next_param = "HASH_LEN" /\ ReadLengthAt(offsets[Hash], w, Hash, "HASH")
          \/ ReadField(HashField, len[Hash], Then("NONE"))

handle_multicall(w) ==
    \/ SkipToOffset
    \/ /\ AtOffset
       /\ \/ IgnoreWord
          \/ next_param = "CALL_OFFSET" /\ SaveArrayOffset(w, "N_CALL")
          \/ next_param = "N_CALL" /\ ReadCount(w, 3)
          \/ next_param = "OFFSETS" /\ ReadElementOffset(w, "CALL_LEN")
          \/ next_param = "CALL_LEN" /\ ReadLength(w, id, "CALL")
          \/ ReadField(CallElement, len[id], NextElement("CALL_LEN"))

(***************************************************************************)
(* handle_provide_parameter: reset the result, call the handler of the     *)
(* selector, whose default label refuses a parameter it has no case for.   *)
(***************************************************************************)
ParseWord(w) ==
    \/ selectorIndex = "COMMIT" /\ handle_commit(w)
    \/ selectorIndex = "REGISTER" /\ handle_register(w)
    \/ selectorIndex = "REGISTER_WITH_CONFIG" /\ handle_register_with_config(w)
    \/ selectorIndex = "RENEW" /\ handle_renew(w)
    \/ selectorIndex = "SET_NAME" /\ handle_set_name(w)
    \/ selectorIndex = "RENEW_ALL" /\ handle_renew_all(w)
    \/ selectorIndex = "PROVE_AND_CLAIM" /\ handle_prove_claim(w)
    \/ selectorIndex = "SET_OWNER" /\ handle_owner(w)
    \/ selectorIndex = "SET_RESOLVER" /\ handle_resolver(w)
    \/ selectorIndex = "SET_SUBNODE" /\ handle_subnode(w)
    \/ selectorIndex = "SET_ADDR" /\ handle_set_addr(w)
    \/ selectorIndex = "SET_TEXT" /\ handle_set_text(w)
    \/ selectorIndex = "SET_CONTENT_HASH" /\ handle_set_content_hash(w)
    \/ selectorIndex = "MULTICALL" /\ handle_multicall(w)

Expected == next_param \in ParamsOf(selectorIndex)

handle_provide_parameter(w) ==
    /\ UNCHANGED selectorIndex
    /\ IF Expected
       THEN \/ /\ selectorIndex = "PROVE_AND_CLAIM_RESOLVER"
               /\ handle_prove_claim_resolver(w)
            \/ /\ UNCHANGED <<name_offset, input_offset>>
               /\ ParseWord(w)
       ELSE Refuse /\ UNCHANGED <<name_offset, input_offset>>
=============================================================================
