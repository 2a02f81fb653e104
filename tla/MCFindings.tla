------------------------------ MODULE MCFindings ------------------------------
(***************************************************************************)
(* Transactions of functions README.md lists that the plugin does not show *)
(* as README.md says.  Each property quotes the sentence it formalises;    *)
(* each run finds the transaction that breaks it.                          *)
(***************************************************************************)
EXTENDS EnsSigning

Call(selector, lens) ==
    [selector |-> selector, lens |-> lens, inputs |-> 1, digits |-> 76,
     cut |-> 0, large |-> 0]

LongAddresses  == { Call("8b95dd71", << n >>) : n \in {20, 60} }
FullNames      == { Call("e8d6dbb4", << m, 5 >>) : m \in {5, 32, 40, 64} }
FullKeys       == { Call("10f13a8c", << m, 5 >>) : m \in {5, 32, 40, 64} }
HugeNames      == { Call("c47f0027", << 65488 >>) }
LongDurations  == { [Call("acf1a841", << 5 >>) EXCEPT !.digits = d] : d \in {76, 77} }
Renewals       == { Call("e8d6dbb4", << 5 >>) }

\* README.md:67 "For strings and byte arrays bigger then 32, plugin is showing
\* the first and last 16 bytes": of the byte array of setAddr.
LongAddressShown ==
    phase = "reviewed" /\ call.selector = "8b95dd71" => shown = Display(call)

\* README.md:65 "For renewAll, ENS plugin will only support signing
\* transactions with 2 names maximum": with two, both are shown.
EveryNameShown ==
    phase = "reviewed" /\ call.selector = "e8d6dbb4" => shown = Display(call)

\* README.md:60 lists setText with "string Key" and "string Value", and
\* README.md:67 strings bigger than 32 bytes: such a call is not refused.
LongKeyAccepted ==
    call.selector = "10f13a8c" => phase # "refused"

\* README.md:67 again, of a name the length of which fits the 16 bits the
\* parser reads it into.
HugeNameShown ==
    phase = "reviewed" /\ call.selector = "c47f0027" => shown = Display(call)

\* handle_query_contract_ui.c:20 "Concatenate the amount string, space, and
\* unit": a duration that is shown is shown with its unit.
DurationHasUnit ==
    phase = "reviewed" => \A i \in DOMAIN shown : shown[i].format # "cut off"

\* README.md:53 lists a "bytes proof" among the parameters displayed of
\* renewAll.
RenewAllProofShown ==
    phase = "reviewed" /\ call.selector = "e8d6dbb4"
        => \E i \in DOMAIN shown : shown[i].title = "Proof"
=============================================================================
