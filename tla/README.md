# A TLA+ verification of the ENS plugin

The program is a plugin of the Ethereum app of Ledger devices. The app calls it
while a transaction to an ENS contract is being signed; the plugin reads the
calldata 32 bytes at a time, keeps what it will show, and then answers which
screens to show. The user signs what the screens say. The question of this
project is therefore: **is what the screens say what the calldata says?** And,
since the calldata comes from outside: **what holds whatever it is?**

Paths below are relative to the repository, `P` stands for
`src/handle_provide_parameter.c`.

## 1. Inventory

### 1.1 Parts, state, operations

| Part | Code | State | Operations |
| --- | --- | --- | --- |
| Selector table | `src/contract.c`, `src/ens_plugin.h` | none (constants) | `find_selector` |
| Initialisation | `src/handle_init_contract.c` | the whole `context_t` | `handle_init_contract`: version and size tests, `memset`, selector, first parameter |
| Calldata parser | `P` | `context_t`: `next_param`, `offset`, `go_to_offset`, `selectorIndex`, the union `tx.body`; globals `bytes_missing`, `name_offset`, `input_offset` | `handle_provide_parameter` and one handler per function, each a `switch` on `next_param` |
| Finalize, token, name | `src/handle_finalize.c`, `src/handle_provide_token.c`, `src/handle_query_contract_id.c` | none of their own | number of screens, no token asked for, name of the operation |
| Screens | `src/handle_query_contract_ui.c` | none of their own | `handle_query_contract_ui`, the `set_*_ui` helpers |
| Host loop | the Ethereum app; here `fuzzing/fuzz_plugin.c` | `msg->parameterOffset`, `numScreens`, how far the session is | calls the plugin in order, gives up when a result is not `OK` |
| Transactions | `README.md` (functions, displayed parameters, limits), `tests/src` (real calldata) | none | encoding |
| Mocks of the fuzzer | `fuzzing/mocks.c` | the buffer they are given | `strlcpy`, `strlcat` |
| ethereum-plugin-sdk | git submodule, absent | none | `U2BE_from_parameter`, `copy_parameter`, `copy_address`, `uint256_to_decimal` |
| Tests, build, icons, CI | `tests/`, `Makefile`, `icons/`, `.github/` | none | none |

### 1.2 How they interact

The host is the only caller and everything is synchronous: there are no threads,
no interrupts, no persistence. A *session* is one transaction: init, one
provide-parameter per word, finalize, provide-token, query-id, one query-ui per
screen. The parts share `context_t`, memory of the host that init clears. The
three globals of `P` are *not* in it: they survive from session to session. The
result of a call is the only answer to the host, and the host looks after each.

### 1.3 What is hard

* **A parser in one direction.** An ABI head points to tails anywhere; the plugin
  sees each word once. A handler that has to find a tail sets `offset` and
  `go_to_offset` and ignores words until `parameterOffset` equals it. A word that
  is taken early, late, or for another field is not detected by anything else.
* **Numbers of three widths.** `parameterOffset` has 32 bits, offsets and
  lengths 16, counters 8; sums are `int` when compared and truncated when stored.
* **Fields cut in the middle.** Of a field longer than 32 bytes the first and the
  last 16 are kept, and the last 16 lie in one word or two.
* **State that outlives its use.** `bytes_missing` is shared by all fields and
  all sessions, `name_offset` and `input_offset` by sessions.
* **Errors that do not stop the handler.** Several cases set `ERROR` and move on
  all the same (P:548, P:703, P:1687).
* **Two files that must agree.** `handle_finalize` says how many screens there
  are, `handle_query_contract_ui` has them; the table of selectors and the
  enumeration they are cast to are in the same order, or one operation is shown
  as another.
* **Calldata that ends anywhere.** `handle_finalize` does not ask whether parsing
  was complete: fields of which nothing arrived are on the screens as well, and
  what they show is what the `memset` of the initialisation left there.

### 1.4 What makes each part correct

* Initialisation: each function starts its own handler at a parameter it has a
  case for (`HandledParam`), under its own name (`ReadmeDisplay`).
* Parser: what is kept of a field is that field's bytes in their places
  (`NoWrongByte`), read where the head says the field is
  (`FieldWhereHeadPoints`), once (`NoOverwrite`), with the byte count of that
  field (`BytesMissingFresh`) and inside the arrays (`ArrayIndexInBounds`). As a
  whole it is a reader in one pass (`OnePassSpec`): every word gives bytes of its
  own, to cells no word before it has filled, of a memory that starts blank.
* Screens: the promised ones exist (`PromisedScreensExist`) and say what the
  README says they do (`ReadmeDisplay`).
* The whole: a transaction the README describes is neither refused
  (`SupportedAccepted`) nor left pending (`ReviewCompletes`), whatever was signed
  or refused before; one beyond its limits is never shown (`OverLimitRefused`),
  nor is one that is supported but for an offset, a length or a number of elements
  the parser cannot read (`OversizedRefused`); of one whose calldata ends early the user sees what
  arrived, where it belongs, and nothing else (`TruncatedDisplay`); and the plugin
  with its host is an implementation of the promise "show all that arrived, in
  order, or refuse it before the first screen" (`ClearSigningSpec`).
* String copies of the fuzzer's build: a buffer holds the string, cut off at its
  end, and nothing behind it is touched (`TruncatedString`).

The hazards, each at its line, and the properties that cover them are in
`PROJECT.json`.

## 2. The modules

```
EnsDefs        enumerations, sizes, selector table, cases of each switch
  EnsParser    context and globals; init and the 15 handlers, as actions
    EnsScreens finalize, query-id, query-ui: functions of the context
      EnsHost  the host's session: one action per call it makes
        EnsStream          any words, in any number          -> MCStream
          (OnePass)        the abstract reader, refined
          EnsStreamProofs  types, switch cases, arrays, bytes_missing,
                           promised screens: theorems
            EnsOnePassProofs   the kinds of words; the reader in one pass:
                               theorems
              EnsPlaceProofs     every byte in its place: theorems
        EnsSigning         the calldata of real calls        -> MCSigning, MCFindings
          EnsServedProofs    accepted, or refused for a number: theorems
            EnsDisplayProofs   what is kept of every field: lemmas
              EnsSigningProofs   the display, the limits, the promise: theorems
          (AbiCalls)       the encoder and the README's table
            (AbiFaults)    truncated and damaged calldata
              AbiProofs    where each word of a call is: lemmas
          (ClearSigning)   the abstract promise, refined
  StringCopies strlcpy and strlcat of fuzzing/mocks.c
    StringCopiesProofs       the string, cut off: theorem
```

### 2.1 The calldata and the buffers

A byte is represented by **where it comes from**: a cell of a buffer in `text`
holds the position in the calldata of the byte copied into it, or 0 while the
zero of the `memset` is still there (position 0 is a byte of the selector, which
no handler copies). A fixed-size field (`statics`) holds the position of its
first byte. This is what makes "the byte shown is the byte of that field" a
statement about numbers, and it costs nothing: no handler looks at a byte it
copies.

A 32-byte word is what the handlers do look at: whether `U2BE_from_parameter`
succeeds (`small`: its first 30 bytes are 0), the number that returns (`low`),
the two bytes that another union member reads as its length (`alias`), and the
number of decimal digits it prints with (`digits`).

### 2.2 State and actions against the code

| TLA+ | Code |
| --- | --- |
| `next_param`, `offset`, `go_to_offset`, `selectorIndex` | the fields of `context_t`, a `parameter` and a `selector_t` as strings named after the enumerators |
| `offsets`, `len`, `text`, `ellipsis` | the saved offsets, lengths, 32-byte buffers and flags of the union member of the selector, by slot 0..2: name 0, proof 1, input 2; key 0, value 1; hash 0; element `i` of an array `i` |
| `statics` | `bytes32_t` and `address_t` fields |
| `count`, `id`, `offsets_start` | `n_names`/`n_calls`, `id`, `offsets_start` |
| `bytes_missing`, `name_offset`, `input_offset` | the globals (P:3, P:900, P:901) |
| `InitContract` | `handle_init_contract` with its three early ends: interface version, context size, unknown selector (which clears the context first) |
| `ProvideParameter`, `SendWord` | `handle_provide_parameter` on one word, the dispatch and the handler of the selector, and the host's test of the result |
| `Finalize`, `ProvideToken`, `QueryContractId`, `QueryContractUi` | the handlers of the same name; the last one shows one screen or fails on an invalid index or a value too long |

The fifteen handlers repeat a few patterns, and `EnsParser` has an operator for
each: `SkipToOffset` (the early return), `Refuse`, `IgnoreWord` (case `NONE`),
`CopyParameter`, `CopyAddress`, `SaveOffset`, `SaveOffsetAnyway` (without the
return after the error), `ReadLength`, `ReadLengthAt` (with the position check),
`ReadCount`, `ReadElementOffset`, and `ReadField` with the three cases of a
dynamic field (`ReadShort`/`ReadLong`, `ReadSecondLast`, `ReadLast`). A handler is
then the list of its cases, in the order of the `switch`, and where it differs
from its neighbours that shows: setAddr's field is read with `alias` and not with
its length, the claim with a resolver has its offsets in globals, renewAll and
multicall go on to the next element.

### 2.3 What is promised, and faults

`ClearSigning` knows requests, what is shown of each and which are served;
nothing of words or offsets. `EnsSigning` implements it: a session is open from
`handle_init_contract` to the last screen, and a screen of the review is the next
one of the display.

`OnePass` knows memory cells and words that come one after the other; nothing of
parameters. `EnsStream` implements it for any calldata: the fifteen handlers are
its `Read`, `handle_init_contract` its `Start`, and the rest of the review leaves
the memory as it is. It says what the invariants about cells cannot: that a cell
gets a byte of *this* word and no other word's, and that it was blank, across
sessions too.

The host hands over what it was sent, so a transaction has two faults. `cut`
words are missing at its end: `handle_finalize` accepts it wherever it ends, and
`DisplayLeft` says what is then to be seen (a string is shorter; of a byte array
and of a fixed field the rest is 0; an array whose number of elements did not
arrive has none). Or word `large` holds a number of more than 16 bits:
`U2BE_from_parameter` fails, and when that word is an offset, a length or a number
of elements (`Numbers`) the transaction must be refused. Words are never lost in
the middle, reordered or repeated: the host walks a buffer.

`StringCopies` is apart from the rest: the functions of `fuzzing/mocks.c` under
any sequence of calls on one buffer, with the bytes behind it. The screens of
`EnsScreens` treat a title as a string, which those copies justify.

### 2.4 Abstractions

* The bytes of a name are not 0, so `%s` prints the cells that were filled.
* Hexadecimal digits, decimal digits and wording are not spelled out; the format
  of a screen is a string, and whether a number with its unit fits the buffer of
  79 bytes is computed from its number of digits.
* Union members alias in one way, the one the code uses: `hash_len` read while
  `set_addr` is active. Everywhere else a selector reads its own member.
* The host never skips a word and never sends a part of one.
* `handle_provide_token` accepts whatever it is given and keeps nothing of it:
  its action changes the phase.

## 3. What is checked

All runs finish in seconds, but `signing_sessions`, `signing_refinement` and
`stream_claims`, which take about a minute.

| Run | Module, bounds | Shows |
| --- | --- | --- |
| `stream_fields` | eleven functions with neither array nor claim and an unknown selector; ten words; up to 11 words per session | under any calldata of those words, session after session: the types, no unhandled parameter, `bytes_missing` is the one of the field, no wrong byte, every field from where the head points, nothing read twice, and the refinement of `OnePass` |
| `stream_arrays` | renewAll, multicall, and setName to leave globals behind; ten words; up to 11 per session | the same for elements, array indexes in bounds, the promised screens exist; the refinement of `OnePass` |
| `stream_claims` | the two claims; seven words; up to 12 per session | no wrong byte, and every field from where the head points, for three offsets, two of them in globals: of both claims a name and a proof that are longer than 32 bytes are read to their ends (the name of the resolver's claim is left out of the second, its offset is zeroed once used) |
| `signing_sessions` | canonical calldata of 241 calls of all fifteen functions, with lengths 0 to 95; a call of every function ended after any of its words, or with any one of its numbers out of range; any after any, including refused ones | each supported call is shown as the README says and never refused; those over the limits are never shown; of a truncated call exactly what arrived is shown and nothing of the call before; a damaged one is refused before a screen |
| `signing_refinement` | one call of every function and those over the limits; a field and an array cut after any word or damaged | the refinement of `ClearSigning`, with its liveness, and that each supported review is completed |
| `string_copies` | buffers of 1 to 6 bytes, strings of 0 to 7 characters, any number of calls | the buffer holds the string, cut off, with its NUL; the bytes behind it are not written |
| six `finding_*` | one function each | section 5 |

**Why the bounds are enough.** What a handler does with a word depends on whether
it is small, on its number as an offset (compared with the current position), as
a length (divided by and reduced modulo 32, compared with 16 missing bytes) and
as a count (compared with 2 or 3). The word sets have offsets to heads of one to
six words, so tails that are found, missed and overtaken; lengths of one, two,
three and more words in every split of the last 16 bytes; counts below, at and above
the limits; a length and an element offset with which the sought position wraps in 16
bits; and a word that is no 16-bit number. Eleven words are a head, and the
lengths and the data of two fields of three words; for arrays, of two elements one
of which is long. Twelve give the claims their third field, whole: the
name of proveAndClaimWithResolver has its length at 160 and at least 40 bytes, so the
inputs are at 256 and the proof at 288, the tenth word, with two words of data; that
of proveAndClaim has its length at 96, so the inputs are at 192, and the proof is
sought at 256 past a word that is skipped. Because any session follows
any other, the globals a session meets are all those a session of that length can
leave. A truncated call follows a complete one of the same function, which is what
it takes to show bytes of the earlier one; it is cut between any two of its words,
so before, in and after each field and between the two words of a field's end. For
the string copies a buffer of one byte leaves room for the NUL only, and strings
are shorter than, as long as and longer than the buffer.

**Deadlock** is checked in every run: a host can always start a session.

**Fairness.** `EnsStream` has none: it states safety only. `EnsSigning` has weak
fairness of `Step`, the host's loop going on with the words and the screens of
the session under way: the code is one loop in one thread without waiting, so the
only reason for it not to take its next step is that it has ended. Nothing is
assumed of the user, who may never sign again (`Sign` is not fair). `ClearSigning`
promises that an open request is not left pending, and that follows.

**Mutants.** For every checked property an operator beside the code's own is a
plausible bug (a forgotten `id++`, the first 16 bytes of a fuller word, two rows
of the table swapped, a global not reset) under which the run must fail. They are
marked `mutant` and nothing uses them.

## 4. What is proved

Checked by TLAPS. About `EnsStream`: for **any** set of words, **any** set of
selectors and **any** number of words per session, over any number of sessions,

| Theorem | Property | Meaning |
| --- | --- | --- |
| `TypeCorrect` | `TypeOK` | every variable keeps its C type; each copy leaves a buffer its 32 bytes, `bytes_missing` stays below 32 |
| `DefaultUnreachable` | `HandledParam` | the default labels of all handlers are unreachable |
| `ArraysSafe` | `ArrayIndexInBounds` | no element index is past the accepted number, nor the number past the arrays |
| `MissingBytesFresh` | `BytesMissingFresh` | the global `bytes_missing` is the one of the field being completed, and no copy has a negative size |
| `ScreensPromised` | `PromisedScreensExist` | the review has exactly the screens that were promised, wherever the calldata ended |
| `OnePassRefinement` | `OnePassSpec` | the plugin implements the reader in one pass: a word's bytes go to blank memory, and no other word's |
| `ReadOnce` | `NoOverwrite` | nothing that was read is read over |
| `EveryByteInPlace` | `NoWrongByte` | a cell holds the byte of its field that belongs there, or nothing |
| `HeadObeyed` | `FieldWhereHeadPoints` | a field that was read was read where the head says it is (the name of the claim with a resolver excepted) |

About `EnsSigning`, for any set of calls with fields and arrays of any length, and
about `StringCopies`, for buffers and strings of any length:

| Theorem | Property | Meaning |
| --- | --- | --- |
| `SupportedIsAccepted` | `SupportedAccepted` | a supported transaction, whole or cut short, is never refused |
| `SupportedIsShown` | `ReadmeDisplay` | a supported transaction has been shown as the README says: every parameter in order, each byte from its place, under its operation (the proof of renewAll is in the README but on no screen: section 5) |
| `TruncatedIsShown` | `TruncatedDisplay` | of one cut short after any word what arrived is shown, where it belongs, and nothing else |
| `ClearSigningKept` | safety of `ClearSigningSpec` | the plugin with its host implements the promise, step by step, for transactions that have an answer (`Answered`) |
| `OversizedIsRefused` | `OversizedRefused` | one with an offset, length or number of elements that is no 16-bit number is refused before a screen |
| `LimitsEnforced` | `OverLimitRefused` | renewAll with more than 2 names and multicall with more than 3 calls are refused before a screen |
| `StringsTruncated` | `TruncatedString` | a buffer holds the string, cut off at its end, and nothing behind it is written |

The first five are in `EnsStreamProofs`, then two in `EnsOnePassProofs` and two in
`EnsPlaceProofs`. `SupportedIsAccepted` and `OversizedIsRefused` are in
`EnsServedProofs`, the display, the promise and the limits in `EnsSigningProofs`, the
last in `StringCopiesProofs`. `AbiProofs` and `EnsDisplayProofs` have lemmas only.

With these every invariant that a run checks is a theorem, and of the two refinements
`OnePassSpec` is one as it stands, and `ClearSigningSpec` but for its fairness and with
the hypothesis of section 4.1.

### 4.1 Assumptions

`WordsAssumption` (the words are words), `MaxWordsAssumption` (the bound is a
natural number; nothing in the proofs depends on it), `CallsAssumption` (the calls
are calls of the README's functions), `BufferAssumption` (a buffer has a byte) and
`CharsAssumption` (no character is the NUL). The model's abstractions are those of
section 2.4.

`ClearSigningKept` alone has a hypothesis: every call is `Answered`, that is, it is
supported, or supported but for an offset, length or number of elements out of range,
or over a limit. Of other calls the promise does not hold: the findings of section 5
are among them. The calls of `signing_refinement` satisfy it, which TLC evaluates on
the run (`RefinementAnswered` in `MCSigning`).

### 4.2 Types, cases, arrays

The inductive invariant is

    IInv == TypeOK /\ Expected /\ (Parsing => ElementOK)

`TypeOK` alone is not inductive: that the next parameter is a case of the
selector's own handler (`Expected`) is what makes each step one of that handler's.
`ArrayIndexInBounds` is not inductive either: the count is read long before the
index is used, and `ReadCount` does not reset the index, so that it is 0 when the
elements begin rests on nothing having moved it before. `ElementOK` says so. It
holds only while the host goes on: a refused count moves the parser to the
elements with a number that is out of range, which is why the invariant claims it
of the parsing phase and not of a refused session.

The proof has one lemma per pattern of section 2.2 (what it leaves of the context
and where it goes next), one per handler (its cases name only its own parameters),
one per action, and the rule of invariance. Types of 16 and 8 bits are used
through lemmas about them (`U16Type`, `U8Type`), never enumerated.

`BytesMissingFresh` is inductive relative to `IInv` once it is stated of refused
sessions too (`Fresh`): no case but that of a field's first word goes on to the
middle of a field, and that one sets `bytes_missing`. setAddr is excepted because
it sets it from the wrong length. `PromisedScreensExist` needs `ScreensInv`: an
accepted count is at most 3, although it is a `uint16_t` of which
`handle_finalize` keeps 8 bits, and what was promised is what `FinalizeScreens`
still says, since nothing of the context changes after the calldata.

### 4.3 One pass

`EnsOnePassProofs` begins with the kinds of words there are. `Stage` numbers the cases: each handler takes its own in that one order, and only
the elements of an array go back in it. One lemma per handler shows that the word
it is given is of one of six kinds (`Kinds`): quiet (refused, ignored or waited
for), a fixed-size field, an offset, a length, the input of a claim, or data of a
dynamic field; with the stages it goes between. After that the fifteen handlers
are done with: what follows is proved once of each kind.

`OnePassSpec` and `NoOverwrite` say that a cell that is filled was blank. Neither
is inductive, for they speak of the cells of the case that runs, and those were
left alone by cases long before. `BlankInv` says which cells are blank at a stage:
a fixed-size field up to its own case; all of a buffer up to its field's first
word, its last half up to the second-last word, and up to the last word the cells
which the second-last did not reach (`FirstBlank`). Elements of an array go back
in the stages, but to a greater `id`, whose buffer is blank. `bytes_missing` cuts
the last half in two, and that the two words of it meet where it says is where
`MissingBytesFresh` is needed.

### 4.4 Every byte in its place

`PlaceInv` follows a field up to its first data: its length is sought where its
offset says (`ElementSought`, `ProofSought`) or compared with it, and when the
first data comes the parser is where the head says the data starts (`DataPlaced`).
`SoughtInv` follows it from there: its last two words are as far behind its first
as its length says. Both must live with wrapping: an offset is a `uint16_t`, and
`parameterOffset` has 32 bits. The argument is that **an offset that wrapped names
a word that has gone by**. A word is sought at most 2^16 bytes after one that was
read, so a wrapped offset is less than the current position, and the position only
grows within a session. So when the sought word comes, its offset has not wrapped.
What is left of the field when the word does not come is blank (finding
`finding_huge_name`), which `NoWrongByte` allows: it is about wrong bytes, and
that none is missing is `TruncatedDisplay` and `ReadmeDisplay`.

### 4.5 Real calls

The calldata of a call is laid out by `AbiCalls` with `FlattenSeq`, a recursive
function of the community modules over sequences of any length. What it computes
is shown by induction, stated for a *set* of numbers (`SetInduction`, from
`WFMin`): the induction theorems of the library take an operator and cannot be
used here. `JoinExists` and `PartsPlaced` follow: of parts that are joined each is
where the ones before it end. From that `AbiProofs` has the whole layout: the head
word of a parameter holds the offset of its tail (`OffsetWords`), the tail starts
with a length (`DataWords`) or a number of elements, an element's offset leads to
its length (`ArrayWords`), and `Numbers` are those words and no others
(`NumberWords`); all of them within reach of 16-bit positions when the call is
supported (`PositionFits`).

The limits: the invariant `LimitsInv` walks a call that is over a limit word
by word to the number of its elements (`CountWord`); there `ReadCount` refuses it, whether the number is small or
has more than 16 bits, and moves on to the elements all the same (P:548, P:1687),
so that the refusal rests on the host, which ends the session at the error.

`SupportedAccepted` and `OversizedRefused` come from one invariant, `ServedInv`,
which knows where the parser is in a supported call at every word of it, the last
ones of a cut-off call and the word that is too large included. Neither property is
inductive: that a word passes the position check of its case rests on an offset read
long before. `OnTrack` has one predicate per handler, which names the parameter that
is due, the word it is due at (`Due`: there now, or sought there), and what has been
saved that is still needed: the offset of a tail that has not begun, in `offsets` or
in a global, the length of the string in progress (`InField`), the offsets of the
elements of an array (`AtElement`). In each, the too large word, if there is one, is
not behind (`Ahead`). A lemma per handler (`RegisterStep`, ..., `MulticallStep`)
takes it one word on: the word with a number is read and the parser goes on, or it
is the too large one and the result is an error (`Goes`). The two cases of
prove_claim that go on after an error (`SaveOffsetAnyway`) are therefore harmless
because the host does not go on. What remains when no number is left to read is
`Trailing`: any word is taken, so where the calldata is cut does not matter. At the
end of the calldata the large word has been met (`AheadOnTrack`), so a call that
gets there is not `Oversized`. In the review nothing is refused either: the screens
of the promise exist and every value has room (`ScreensReady`), a duration because
a supported one has at most 76 digits (`Times`).

That each conjunct of `Supported` is needed shows in the proof as it does in the
findings: `SelfContained` lengths keep a word from being taken for the next length,
and the bound on the size keeps `offset` from wrapping.

### 4.6 The display

`TruncatedDisplay` and `ReadmeDisplay` compare what the user has seen at the end of a
review with the calldata. Neither is inductive: what a screen shows was copied by
cases long before, in the middle of other fields, and what it does not show is blank
because of the `memset` at the start of the session. The invariant is

    DisplayInv == Buffers /\ (IsSupported(call) => idle \/ Parses \/ Reviews)

on top of `ServedInv`, which excludes the errors.

`Parses`, in `EnsDisplayProofs`, says for each function which word the parser takes
next and what the context holds of the words before it, as a function of the number of
words that have been sent and of nothing else. Of a parameter of fixed size it holds
the position of its word or nothing (`WordKept`). Of a string or byte array it holds
the length, the flag of the ellipsis, and of each of the 32 cells the position that
belongs there once that has gone by, and 0 until then (`DataKept`, with `ByteSource`:
the cell's own byte in the first half, of a long field the one as far from the end in
the second). That says at once what has been filled and what is still blank, which is
why one invariant serves calldata that ends anywhere. `OnTrack` of section 4.5 is not
enough: once no number is left to read it allows any word (`Trailing`), and of the
buffers it says nothing.

The middle of a field is proved once for all fields: a first word that is all of it
(`ShortStep`) or the first of several (`LongStep`), the second-last of which the end
of the last 16 bytes reaches into (`SecondStep`), the last (`LastWordStep`), and the
words between that no case takes (`FieldSkipped`). `LongParts` has the arithmetic of
lengths modulo 32 that decides which of them come. `FieldStep` is their sum. Each
handler then has one lemma (`CommitShown`, ..., `MulticallShown`): its cases keep its
part of `Parses`, and leave the words and fields behind it as they were. For an array
the induction over its elements is one over the words: `ParsesElement` has the
element the parser is at, `ElementsKept` all of them, at slots that differ.

At the end of the calldata `AllShown` says that what has been kept is what the
screens need: `ScreensOf` is `DisplayLeft(call)`, and the number of screens that
`handle_finalize` promises is the number there are, also when an array's number of
elements never came. It has a lemma per function again, for the screens are a list per
function in the code (`handle_query_contract_ui.c`). In the review nothing of the
context changes, so that `Reviews` carries it to the last screen. `ReadmeDisplay` is
the case of a call of which nothing is missing.

`ClearSigningKept` takes each action of the host to a step of the promise or to none:
`Sign` opens a request, a word that is refused refuses it (it is not served, by
`SupportedAccepted`), a screen is the next one of the display, and when there are no
screens the last call of the review is `ShowNothing`. That no other request reaches
the review is `OversizedRefused` and `OverLimitRefused`.

`DisplayInv` was model-checked over all calls of `signing_sessions` before it was
proved.

### 4.7 String copies

`TruncatedString` speaks of `strlen`, which is a `CHOOSE`. `StringInv` says without
it what the buffer holds: the string, its NUL, and the bytes behind the buffer. That
`strlen` is the length of that string follows as no character is a NUL.

### 4.8 Not proved, only checked

* Liveness: `ReviewCompletes`, and of `ClearSigningSpec` that a request is not left
  pending (its two fairness conditions). The prover has no rule for them; they need
  `ENABLED` too, which is beyond it.
* The findings of section 5, which are counterexamples.

## 5. Findings

Each has a run in which TLC finds the transaction, and quotes the sentence it
contradicts in `PROJECT.json`.

| Run | What happens |
| --- | --- |
| `finding_set_addr` | setAddr with more than 32 bytes: the last 16 are computed from bytes of the coin type (P:1273), so bytes 16..31 are shown in their place |
| `finding_renew_all` | renewAll with a first name of 64, 96, ... bytes: one word too many is consumed (P:645) and the second name is shown empty |
| `finding_set_text` | setText with a key of 64, 96, ... bytes: for the same reason (P:1436) it is refused |
| `finding_huge_name` | a name of 65488 bytes: the sought offset wraps in 16 bits (P:116) and the last 16 bytes are shown as nothing |
| `finding_duration` | a duration of 77 digits is shown without its unit: no room is counted for the NUL |
| `finding_renew_all_proof` | the README lists a proof for renewAll that no screen shows |

`Supported` in `AbiCalls` is the set of transactions outside of these: the
properties of `EnsSigning` hold there, each conjunct of it names one such limit.
`SelfContained` excludes empty fields that others follow as well: the parser takes a
word for their data where there is none (P:1726), and what becomes of the next field
is what the second and the third run show of a field of 64 bytes.

## 6. What is not modelled

The SDK (a submodule that is not here: modelled by what its functions do to the
plugin's state), the emulator tests, build files, icons and workflows, none of
which has state. `PROJECT.json` lists each with its reason.

## 7. Order of the work

Definitions, parser, screens, host; any calldata (`EnsStream`) with its runs; real
calldata (`EnsSigning`) with its runs and the refinement; the findings; truncated and
damaged calldata (`AbiFaults`); the refinement for any calldata (`OnePass`); the
string copies; then the proofs, from any calldata to real calls: types, one pass,
every byte in its place, the limits, what is accepted and refused, what is shown, the
promise. Nothing of the plan is left. A change of a handler shows first in the runs,
then in that handler's lemma of `EnsOnePassProofs`, `EnsServedProofs` and
`EnsDisplayProofs`; what follows them does not mention parameters.
