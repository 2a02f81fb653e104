------------------------------ MODULE EnsSigning ------------------------------
(***************************************************************************)
(* The plugin signing real transactions: session after session, the host   *)
(* feeds it the calldata of a call, canonical or damaged, ends it after    *)
(* the last word that arrived, and asks for every screen.                  *)
(***************************************************************************)
EXTENDS EnsHost, AbiFaults

CONSTANT Calls  \* the transactions the user is asked to sign

\* They are calls, of fields of any length; nothing is assumed of which.
ASSUME CallsAssumption == Calls \subseteq Transactions

VARIABLE call   \* the transaction of this session

signing == <<vars, call>>

\* The calls the plugin handles, whether or not all of their words arrive.
IsSupported(c) == Supported(c) /\ c.large = 0

\* The number, from 1, of the word the host sends next.
WordNumber == (parameterOffset - SELECTOR_SIZE) \div PARAMETER_LENGTH + 1

Init == HostInit /\ call \in Calls

Sign(c) ==
    /\ InitContract(c.selector, TRUE, TRUE)
    /\ call' = c

SendWord ==
    /\ WordNumber \in DOMAIN Sent(call)
    /\ ProvideParameter(Sent(call)[WordNumber])
    /\ UNCHANGED call

EndOfCalldata ==
    /\ WordNumber \notin DOMAIN Sent(call)
    /\ Finalize
    /\ UNCHANGED call

Review ==
    /\ ProvideToken \/ QueryContractId \/ QueryContractUi
    /\ UNCHANGED call

Step == SendWord \/ EndOfCalldata \/ Review

Next ==
    \/ \E c \in Calls : Sign(c)
    \/ Step

\* The host's loop over the words and the screens runs to its end.
Spec == Init /\ [][Next]_signing /\ WF_signing(Step)

(***************************************************************************)
(* Properties.                                                             *)
(***************************************************************************)

\* Whatever was signed or refused before, a supported transaction whose
\* review is complete has been shown as README.md says: every parameter, in
\* order, each byte from its place in the calldata, under its operation.
\* (The proof of renewAll is not in Display: see RenewAllProofShown in
\* MCFindings.)
ReadmeDisplay ==
    phase = "reviewed" /\ IsSupported(call) /\ Intact(call)
        => /\ shown = Display(call)
           /\ version = Operation(call)

\* handle_finalize accepts a transaction that ends early.  Then every screen
\* there is shows what arrived of its parameter, in its place: a string is
\* shorter, other bytes are 0, and nothing is left of an earlier session.
TruncatedDisplay ==
    phase = "reviewed" /\ IsSupported(call) => shown = DisplayLeft(call)

\* A transaction that is supported but for an offset, a length or a number of
\* elements that is no 16-bit number is refused before anything is shown,
\* although the cases of prove_claim that meet one move on as if they had read
\* it.  (Beyond Supported a length can be taken for data: after an element of
\* 64 bytes the parser is a word too far.)
OversizedRefused ==
    Supported(call) /\ Oversized(call) => phase \in {"idle", "parsing", "refused"}

\* A supported transaction is never refused, neither by a position check nor
\* for the room a value takes on the screen, even if it ends early.
SupportedAccepted == IsSupported(call) => phase # "refused"

\* The README's limits are enforced before anything is shown: renewAll with
\* more than 2 names and multicall with more than 3 calls are refused.
OverLimitRefused ==
    OverLimit(call) /\ Intact(call) => phase \in {"idle", "parsing", "refused"}

\* Every supported transaction the host starts on is reviewed to the end.
ReviewCompletes ==
    phase = "parsing" /\ IsSupported(call) ~> phase = "reviewed"

\* A transaction that has an answer in README.md and the parser's range: it is
\* served, or one of its numbers is out of that range, or it is over a limit.
Answered(c) ==
    IsSupported(c) \/ (Supported(c) /\ Oversized(c)) \/ (OverLimit(c) /\ Intact(c))

\* The status of the session, to the user.
Status ==
    IF phase \in {"idle", "refused"} THEN phase
    ELSE IF phase = "reviewed" THEN "shown" ELSE "open"

Abstract == INSTANCE ClearSigning WITH
    Requests <- Calls, Display <- DisplayLeft, Served <- IsSupported,
    request <- call, status <- Status, screens <- shown

\* The plugin and its host implement the promise of a clear-signing plugin.
ClearSigningSpec == Abstract!Spec
=============================================================================
