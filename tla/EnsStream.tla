------------------------------ MODULE EnsStream ------------------------------
(***************************************************************************)
(* The plugin under a host that may send any words, end the calldata after *)
(* any of them, and start session after session: what holds whatever the   *)
(* transaction is.                                                         *)
(***************************************************************************)
EXTENDS EnsHost

CONSTANTS
  Selectors,  \* the selectors transactions come with, known or unknown
  Words,      \* the 32-byte words calldata is made of
  MaxWords    \* bound on the number of words of one transaction

ASSUME WordsAssumption == Words \subseteq Word
ASSUME MaxWordsAssumption == MaxWords \in Nat

Init == HostInit

SendWord(w) ==
    /\ parameterOffset < SELECTOR_SIZE + MaxWords * PARAMETER_LENGTH
    /\ ProvideParameter(w)

Next ==
    \/ \E s \in Selectors, versionOk \in BOOLEAN, roomOk \in BOOLEAN :
          InitContract(s, versionOk, roomOk)
    \/ \E w \in Words : SendWord(w)
    \/ Finalize
    \/ ProvideToken
    \/ QueryContractId
    \/ QueryContractUi

Spec == Init /\ [][Next]_vars

(***************************************************************************)
(* Types.                                                                  *)
(***************************************************************************)
StaticValue == [at : Nat, digits : 1 .. 78, alias : UInt16]

ContextOK ==
    /\ selectorIndex \in SelectorIndexes
    /\ next_param \in Params
    /\ offset \in UInt16
    /\ go_to_offset \in BOOLEAN
    /\ statics \in [Statics -> StaticValue]
    /\ offsets \in [Slots -> UInt16]
    /\ len \in [Slots -> UInt16]
    /\ text \in [Slots -> [0 .. PARAMETER_LENGTH - 1 -> Int]]
    /\ ellipsis \in [Slots -> BOOLEAN]
    /\ count \in UInt16
    /\ id \in UInt8
    /\ offsets_start \in UInt16

\* Every variable holds a value its C type can hold.
TypeOK ==
    /\ ContextOK
    /\ bytes_missing \in 0 .. PARAMETER_LENGTH - 1
    /\ name_offset \in UInt16
    /\ input_offset \in UInt16
    /\ parameterOffset \in Nat
    /\ result \in {"OK", "ERROR", "UNAVAILABLE"}
    /\ phase \in Phases
    /\ numScreens \in UInt8

(***************************************************************************)
(* Safety.                                                                 *)
(***************************************************************************)
Parsing  == phase = "parsing"
IsArray  == selectorIndex \in {"RENEW_ALL", "MULTICALL"}
Elements == {"OFFSETS", "NAME_LENGTH", "CALL_LEN", "CALL", "CALL_1", "CALL_2",
             "NAME", "NAME_OFFSET_1", "NAME_OFFSET_2"}
SecondParams == {"NAME_OFFSET_1", "PROOF_1", "HASH_1", "KEY_1", "VALUE_1", "CALL_1"}
LastParams   == {"NAME_OFFSET_2", "PROOF_2", "HASH_2", "KEY_2", "VALUE_2", "CALL_2"}

\* names[id], call[id], call_len[id] and offsets[id] are inside their arrays
\* whenever a word may be read into them: renew_all and multicall move on to
\* the elements even when they refuse their number, and count on the host.
ArrayIndexInBounds ==
    Parsing /\ IsArray /\ next_param \in Elements
        => /\ id < count
           /\ count <= Capacity(selectorIndex)

\* No handler is ever left expecting a parameter its switch has no case for:
\* the default labels are unreachable, whatever the calldata.
HandledParam == Parsing => Expected

\* The field a second-last or last word belongs to.
CurrentSlot ==
    IF next_param \in {"PROOF_1", "PROOF_2", "VALUE_1", "VALUE_2"} THEN 1
    ELSE IF IsArray THEN id ELSE 0

\* bytes_missing is a global that every session and every field shares.  When
\* a handler comes to use it, it is the one of the field being read (of
\* setAddr: of the length that field took by mistake), and no copy of a
\* second-last word has a negative size.
BytesMissingFresh ==
    Parsing /\ next_param \in SecondParams \cup LastParams
        => /\ next_param \in SecondParams => bytes_missing < HALF_PARAMETER_LENGTH
           /\ selectorIndex # "SET_ADDR"
                => bytes_missing = len[CurrentSlot] % PARAMETER_LENGTH

\* A buffer never holds a byte of another field, or a byte out of place: cell
\* j is byte j of the field or, after an ellipsis, its byte len - 32 + j.
\* (setAddr takes the wrong length: see LongAddressShown in MCFindings.)
NoWrongByte ==
    selectorIndex # "SET_ADDR"
        => \A k \in Slots, j \in 0 .. PARAMETER_LENGTH - 1 :
              text[k][j] # 0
                => text[k][j] = text[k][0] + j +
                      (IF ellipsis[k] /\ j >= HALF_PARAMETER_LENGTH
                       THEN len[k] - PARAMETER_LENGTH ELSE 0)

\* Where the head of the calldata says the data of field k starts.
DataStart(k) ==
    IF IsArray THEN offsets_start + offsets[k] + PARAMETER_LENGTH
               ELSE offsets[k] + SELECTOR_SIZE + PARAMETER_LENGTH

\* What is kept of a field was read where the ABI head of the transaction says
\* the field is, even when the offset wrapped around 2^16 on the way.  (The
\* name offset of proveAndClaimWithResolver is forgotten once it is used.)
FieldWhereHeadPoints ==
    \A k \in Slots :
        /\ text[k][0] # 0
        /\ ~(selectorIndex = "PROVE_AND_CLAIM_RESOLVER" /\ k = Name)
        => text[k][0] = DataStart(k)

\* The number of screens handle_finalize promises is the number of screens
\* handle_query_contract_ui has, so the review neither runs into an invalid
\* screenIndex nor ends before the last field.
PromisedScreensExist ==
    phase \in {"finalized", "resolved", "review", "reviewed"}
        => numScreens = Len(ScreensOf)

\* The plugin is a reader in one pass, whatever the calldata: each handler
\* keeps bytes of the word it is given and no others, in cells that no word
\* before it has filled, and nothing is kept from one session to the next.
Reader == INSTANCE OnePass WITH
    Fixed <- Statics, Buffers <- Slots, Cells <- 0 .. PARAMETER_LENGTH - 1,
    WordSize <- PARAMETER_LENGTH, First <- SELECTOR_SIZE,
    reading <- Parsing, at <- parameterOffset,
    fixed <- [f \in Statics |-> statics[f].at], bytes <- text

OnePassSpec == Reader!Spec

\* Within a session nothing that was read is read over: a word is never
\* taken for a field that already has its value.
NoOverwrite ==
    [][ \/ phase' = "parsing" /\ phase # "parsing"
        \/ phase' = "refused" /\ phase # "parsing"
        \/ /\ \A k \in Slots, j \in 0 .. PARAMETER_LENGTH - 1 :
                 text[k][j] # 0 => text'[k][j] = text[k][j]
           /\ \A f \in Statics : statics[f].at # 0 => statics'[f] = statics[f] ]_vars
=============================================================================
