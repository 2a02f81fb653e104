------------------------------ MODULE AbiCalls ------------------------------
(***************************************************************************)
(* The transactions: calls of the functions README.md lists, laid out as   *)
(* Solidity's canonical ABI encoding lays them out, and what README.md     *)
(* says the user is shown for each.  This module is external to the plugin *)
(* and independent of its parser: the table of functions is the README's   *)
(* and the layout is the one of the calldata in tests/src.                 *)
(*                                                                         *)
(* A call is [selector, lens, inputs, digits]: the selector, the lengths   *)
(* of its strings and byte arrays in order (of the elements of its array), *)
(* the number of input tuples, and the number of digits of its durations.  *)
(***************************************************************************)
EXTENDS EnsDefs, SequencesExt

\* Parameters: "word" is any static type, "data" a string or bytes, "array" a
\* string[] or bytes[], "tuples" the (bytes, bytes)[] of DNS records.
Signature(selector) ==
    CASE selector = "f14fcbc8" -> << "word" >>                            \* commit
      [] selector = "85f6d155" -> << "data", "word", "word", "word" >>    \* register
      [] selector = "f7a16963" -> << "data" >> \o [i \in 1 .. 5 |-> "word"]
      [] selector = "acf1a841" -> << "data", "word" >>                    \* renew
      [] selector = "c47f0027" -> << "data" >>                            \* setName
      [] selector = "e8d6dbb4" -> << "array", "word" >>                   \* renewAll
      [] selector = "8bbedf75" -> << "data", "tuples", "data" >>          \* proveAndClaim
      [] selector = "224199c2" -> << "data", "tuples", "data", "word", "word" >>
      [] selector = "5b0fc9c3" -> << "word", "word" >>                    \* setOwner
      [] selector = "1896f70a" -> << "word", "word" >>                    \* setResolver
      [] selector = "5ef2c7f0" -> [i \in 1 .. 5 |-> "word"]     \* setSubnodeRecord
      [] selector = "8b95dd71" -> << "word", "word", "data" >>            \* setAddr
      [] selector = "10f13a8c" -> << "word", "data", "data" >>            \* setText
      [] selector = "304e6ade" -> << "word", "data" >>                    \* setContenthash
      [] selector = "ac9650d8" -> << "array" >>                           \* multicall

(***************************************************************************)
(* Encoding.                                                               *)
(***************************************************************************)
Quantity(n)  == [low |-> U16(n), small |-> n <= UINT16_MAX, alias |-> 0, digits |-> 1]
\* A word of text, or a hash: no small number, by any reading of it.
Opaque       == [low |-> 7, small |-> FALSE, alias |-> 7, digits |-> 78]
\* A static parameter: a coin type has 0 in its bytes 1 and 2.
Static(call) == [low |-> 7, small |-> FALSE, alias |-> 0, digits |-> call.digits]

WordsFor(n) == (n + PARAMETER_LENGTH - 1) \div PARAMETER_LENGTH
Data(n)     == << Quantity(n) >> \o [i \in 1 .. WordsFor(n) |-> Opaque]

SizeOf(words) == PARAMETER_LENGTH * Len(words)

\* The size of the first n parts.
SizeUpTo(parts, n) == SizeOf(FlattenSeq(SubSeq(parts, 1, n)))

\* The parts of a dynamic sequence, after their offsets from the first offset.
WithOffsets(parts) ==
    [i \in DOMAIN parts |->
        Quantity(PARAMETER_LENGTH * Len(parts) + SizeUpTo(parts, i - 1))]
      \o FlattenSeq(parts)

\* The number of "data" parameters among the first i.
DataIndex(call, i) ==
    Cardinality({ j \in 1 .. i : Signature(call.selector)[j] = "data" })

ElementParts(call) == [e \in DOMAIN call.lens |-> Data(call.lens[e])]

\* A tuple is two offsets and two byte arrays of 40 bytes each.
Tuple == WithOffsets(<< Data(40), Data(40) >>)

\* The tail of parameter i: empty for a static one.
TailOf(call, i) ==
    LET kind == Signature(call.selector)[i]
    IN CASE kind = "word"   -> << >>
         [] kind = "data"   -> Data(call.lens[DataIndex(call, i)])
         [] kind = "array"  -> << Quantity(Len(call.lens)) >> \o WithOffsets(ElementParts(call))
         [] kind = "tuples" -> << Quantity(call.inputs) >>
                                  \o WithOffsets([t \in 1 .. call.inputs |-> Tuple])

Tails(call) == [i \in DOMAIN Signature(call.selector) |-> TailOf(call, i)]

\* The offset of parameter i's tail from the first word.
TailAt(call, i) ==
    PARAMETER_LENGTH * Len(Signature(call.selector)) + SizeUpTo(Tails(call), i - 1)

\* The offset of the length of element e of the array that is parameter i.
ElementAt(call, i, e) ==
    TailAt(call, i) + 32 + PARAMETER_LENGTH * Len(call.lens)
      + SizeUpTo(ElementParts(call), e - 1)

\* The words of the calldata, after the selector.
Encode(call) ==
    [i \in DOMAIN Signature(call.selector) |->
        IF Signature(call.selector)[i] = "word" THEN Static(call)
                                                ELSE Quantity(TailAt(call, i))]
      \o FlattenSeq(Tails(call))

(***************************************************************************)
(* What README.md promises: the parameters of its table, in order, and of  *)
(* strings and byte arrays of more than 32 bytes the first and the last 16.*)
(* A byte is its position in the calldata, the selector included.          *)
(***************************************************************************)
Promise(title, format, bytes, dots) ==
    [title |-> title, format |-> format, bytes |-> bytes, dots |-> dots]

\* Parameter i, a static one.
HeadAt(i) == SELECTOR_SIZE + PARAMETER_LENGTH * (i - 1)
Interval(at, n) == [j \in 1 .. n |-> at + j - 1]

Bytes32(i, title)  == Promise(title, "hex", Interval(HeadAt(i), 32), FALSE)
Address(i, title)  == Promise(title, "address", Interval(HeadAt(i) + 12, 20), FALSE)
Integer(i, title)  == Promise(title, "integer", Interval(HeadAt(i), 32), FALSE)
Seconds(i, title)  == Promise(title, "seconds", Interval(HeadAt(i), 32), FALSE)

\* n bytes at position `at`, abbreviated to "16...16".
Abbreviated(at, n, title, format) ==
    IF n <= 32
    THEN Promise(title, format, Interval(at, n), FALSE)
    ELSE Promise(title, format, Interval(at, 16) \o Interval(at + n - 16, 16), TRUE)

Dynamic(call, i, title, format) ==
    Abbreviated(SELECTOR_SIZE + TailAt(call, i) + 32, call.lens[DataIndex(call, i)],
                title, format)
Inputs(call, i, title) ==
    Promise(title, "integer", Interval(SELECTOR_SIZE + TailAt(call, i), 32), FALSE)

\* Element e of the array that is parameter i.
Element(call, i, e, title, format) ==
    Abbreviated(SELECTOR_SIZE + ElementAt(call, i, e) + 32, call.lens[e], title, format)

Display(call) ==
    LET sel == call.selector
    IN CASE sel = "f14fcbc8" -> << Bytes32(1, "Commitment") >>
         [] sel = "85f6d155" -> << Dynamic(call, 1, "Name", "string"), Address(2, "Owner"),
                                   Seconds(3, "Duration"), Bytes32(4, "Secret") >>
         [] sel = "f7a16963" -> << Dynamic(call, 1, "Name", "string"), Address(2, "Owner"),
                                   Bytes32(4, "Secret"), Address(5, "Resolver"),
                                   Address(6, "Addr") >>
         [] sel = "acf1a841" -> << Dynamic(call, 1, "Name", "string"), Seconds(2, "Duration") >>
         [] sel = "c47f0027" -> << Dynamic(call, 1, "Name", "string") >>
         [] sel = "e8d6dbb4" -> [e \in DOMAIN call.lens |-> Element(call, 1, e, "Name", "string")]
                                  \o << Seconds(2, "Duration") >>
         [] sel = "8bbedf75" -> << Dynamic(call, 1, "Name", "hex"),
                                   Inputs(call, 2, "Total Inputs"),
                                   Dynamic(call, 3, "Proof", "hex") >>
         [] sel = "224199c2" -> << Dynamic(call, 1, "Name", "hex"),
                                   Inputs(call, 2, "Total Inputs"),
                                   Dynamic(call, 3, "Proof", "hex"),
                                   Address(4, "Resolver"), Address(5, "Addr") >>
         [] sel = "5b0fc9c3" -> << Bytes32(1, "Node"), Address(2, "Owner") >>
         [] sel = "1896f70a" -> << Bytes32(1, "Node"), Address(2, "Resolver") >>
         [] sel = "5ef2c7f0" -> << Bytes32(1, "Node"), Bytes32(2, "Label"), Address(3, "Owner"),
                                   Address(4, "Resolver"), Seconds(5, "TTL") >>
         [] sel = "8b95dd71" -> << Bytes32(1, "Node"), Integer(2, "Coin Type"),
                                   Dynamic(call, 3, "a", "hex") >>
         [] sel = "10f13a8c" -> << Bytes32(1, "Node"), Dynamic(call, 2, "Key", "string"),
                                   Dynamic(call, 3, "Value", "string") >>
         [] sel = "304e6ade" -> << Bytes32(1, "Node"), Dynamic(call, 2, "Hash", "hex") >>
         [] sel = "ac9650d8" -> [e \in DOMAIN call.lens |-> Element(call, 1, e, "Call", "hex")]

\* The operation as the user knows it.
Operation(call) ==
    LET sel == call.selector
    IN CASE sel = "f14fcbc8" -> "Commit"
         [] sel = "85f6d155" -> "Register"
         [] sel = "f7a16963" -> "RegisterWithConfig"
         [] sel = "acf1a841" -> "Renew"
         [] sel = "c47f0027" -> "SetName"
         [] sel = "e8d6dbb4" -> "RenewAll"
         [] sel = "8bbedf75" -> "ProveAndClaim"
         [] sel = "224199c2" -> "ProveAndClaimWithResolver"
         [] sel = "5b0fc9c3" -> "SetOwner"
         [] sel = "1896f70a" -> "SetResolver"
         [] sel = "5ef2c7f0" -> "SetSubnode"
         [] sel = "8b95dd71" -> "SetAddress"
         [] sel = "10f13a8c" -> "SetText"
         [] sel = "304e6ade" -> "SetContentHash"
         [] sel = "ac9650d8" -> "Multicall"

\* README.md: "only support signing transactions with 2 names maximum", "with
\* 3 calls maximum".
OverLimit(call) ==
    \/ call.selector = "e8d6dbb4" /\ Len(call.lens) > 2
    \/ call.selector = "ac9650d8" /\ Len(call.lens) > 3

(***************************************************************************)
(* The calls the plugin handles as README.md says.  Each conjunct names a  *)
(* limit README.md does not name; the runs of MCFindings show what happens *)
(* beyond it.                                                              *)
(***************************************************************************)

\* The parser leaves a field of n bytes in the field's own words.
SelfContained(n) == n \in 1 .. PARAMETER_LENGTH \/ n % PARAMETER_LENGTH # 0

Supported(call) ==
    /\ \A i \in 1 .. Len(call.lens) - 1 : SelfContained(call.lens[i])
    /\ call.selector = "8b95dd71" => call.lens[1] <= PARAMETER_LENGTH
    /\ call.selector \in {"e8d6dbb4", "ac9650d8"} => Len(call.lens) > 0
    /\ ~OverLimit(call)
    /\ call.digits <= 76
    /\ SELECTOR_SIZE + SizeOf(Encode(call)) <= UINT16_MAX
=============================================================================
