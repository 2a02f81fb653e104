----------------------------- MODULE EnsScreens -----------------------------
(***************************************************************************)
(* What the plugin promises and shows once the calldata is parsed:         *)
(* handle_finalize (how many screens), handle_query_contract_id (the name  *)
(* of the operation) and handle_query_contract_ui (the screens).           *)
(*                                                                         *)
(* A screen is its title, the format of its value, the positions in the    *)
(* calldata of the bytes it shows, in order, and whether "..." stands      *)
(* between the first half of them and the second.                          *)
(***************************************************************************)
EXTENDS EnsParser

\* sizeof(msg) in fuzzing/fuzz_plugin.c: the 78 digits of 2^256 and a NUL.
MSG_LENGTH == 79

Screen(title, format, bytes, dots) ==
    [title |-> title, format |-> format, bytes |-> bytes, dots |-> dots]

\* The n bytes of a fixed-size field: consecutive bytes of the calldata, or
\* the 0s of the memset when the calldata ended before it.
Span(f, n) ==
    [j \in 1 .. n |-> IF statics[f].at = 0 THEN 0 ELSE statics[f].at + j - 1]

\* handle_finalize.
FinalizeScreensNoDuration ==   \* mutant: renew_all's last screen is not counted
    IF selectorIndex \in {"RENEW_ALL", "MULTICALL"} THEN U8(count) ELSE 1

FinalizeScreens ==
    CASE selectorIndex \in {"COMMIT", "SET_NAME"} -> 1
      [] selectorIndex \in {"RENEW", "SET_OWNER", "SET_RESOLVER", "SET_CONTENT_HASH"} -> 2
      [] selectorIndex \in {"SET_TEXT", "SET_ADDR", "PROVE_AND_CLAIM"} -> 3
      [] selectorIndex = "REGISTER" -> 4
      [] selectorIndex \in {"REGISTER_WITH_CONFIG", "SET_SUBNODE",
                            "PROVE_AND_CLAIM_RESOLVER"} -> 5
      [] selectorIndex = "RENEW_ALL" -> U8(1 + count)
      [] selectorIndex = "MULTICALL" -> U8(count)

\* handle_query_contract_id: msg->version.
Version ==
    CASE selectorIndex = "COMMIT" -> "Commit"
      [] selectorIndex = "REGISTER" -> "Register"
      [] selectorIndex = "REGISTER_WITH_CONFIG" -> "RegisterWithConfig"
      [] selectorIndex = "RENEW" -> "Renew"
      [] selectorIndex = "SET_NAME" -> "SetName"
      [] selectorIndex = "RENEW_ALL" -> "RenewAll"
      [] selectorIndex = "PROVE_AND_CLAIM" -> "ProveAndClaim"
      [] selectorIndex = "PROVE_AND_CLAIM_RESOLVER" -> "ProveAndClaimWithResolver"
      [] selectorIndex = "SET_OWNER" -> "SetOwner"
      [] selectorIndex = "SET_RESOLVER" -> "SetResolver"
      [] selectorIndex = "SET_SUBNODE" -> "SetSubnode"
      [] selectorIndex = "SET_CONTENT_HASH" -> "SetContentHash"
      [] selectorIndex = "SET_ADDR" -> "SetAddress"
      [] selectorIndex = "SET_TEXT" -> "SetText"
      [] selectorIndex = "MULTICALL" -> "Multicall"

(***************************************************************************)
(* The set_*_ui helpers.  A dynamic buffer is printed up to its first 0    *)
(* byte (a name) or for as many bytes as were kept of it (a byte array);   *)
(* the bytes of a name in the calldata are not 0.                          *)
(***************************************************************************)

\* The cells first .. last as "%s" prints them: up to the first NUL.
Printed(k, first, last) ==
    LET nuls == { j \in first .. last : text[k][j] = 0 }
        n    == IF nuls = {} THEN last - first + 1
                ELSE (CHOOSE j \in nuls : \A i \in nuls : j <= i) - first
    IN [j \in 1 .. n |-> text[k][first + j - 1]]

\* set_name_ui: "%.*s...%s" or "%s".
set_name_ui(k, title) ==
    Screen(title, "string",
           IF ellipsis[k]
           THEN Printed(k, 0, HALF_PARAMETER_LENGTH - 1) \o
                Printed(k, HALF_PARAMETER_LENGTH, PARAMETER_LENGTH - 1)
           ELSE Printed(k, 0, PARAMETER_LENGTH - 1),
           ellipsis[k])

\* set_bytes_ui: the dots stand after half of the bytes.
set_bytes_ui(k, title) ==
    Screen(title, "hex",
           [j \in 1 .. Least(len[k], PARAMETER_LENGTH) |-> text[k][j - 1]],
           ellipsis[k])

set_bytes32_ui(f, title) ==
    Screen(title, "hex", Span(f, PARAMETER_LENGTH), FALSE)
set_addr_ui(f, title) ==
    Screen(title, "address", Span(f, 20), FALSE)
set_bytes32_as_int_ui(f, title) ==
    Screen(title, "integer", Span(f, PARAMETER_LENGTH), FALSE)

\* set_uint265_with_prefix asks for room for the digits, the space and the
\* "s", but not for the NUL: with no byte to spare snprintf cuts the unit off.
UnitFormatTight(digits) ==   \* mutant: off by one
    IF digits + 3 >= MSG_LENGTH THEN "no room" ELSE "seconds"

UnitFormat(digits) ==
    CASE digits + 2 > MSG_LENGTH -> "no room"
      [] digits + 2 = MSG_LENGTH -> "cut off"
      [] OTHER                   -> "seconds"

set_bytes32_as_int_unit_ui(f, title) ==
    Screen(title, UnitFormat(statics[f].digits),
           Span(f, PARAMETER_LENGTH), FALSE)

(***************************************************************************)
(* handle_query_contract_ui: the screens of each selector, in the order of *)
(* screenIndex.                                                            *)
(***************************************************************************)
CommitScreens == << set_bytes32_ui("commitment", "Commitment") >>

RegisterScreens ==
    << set_name_ui(Name, "Name"), set_addr_ui("owner", "Owner"),
       set_bytes32_as_int_unit_ui("duration", "Duration"),
       set_bytes32_ui("secret", "Secret") >>

RegisterWithConfigScreens ==
    << set_name_ui(Name, "Name"), set_addr_ui("owner", "Owner"),
       set_bytes32_ui("secret", "Secret"), set_addr_ui("resolver", "Resolver"),
       set_addr_ui("addr", "Addr") >>

RenewScreens ==
    << set_name_ui(Name, "Name"), set_bytes32_as_int_unit_ui("duration", "Duration") >>

SetNameScreens == << set_name_ui(Name, "Name") >>

RenewAllScreens ==
    [i \in 1 .. count |-> set_name_ui(i - 1, "Name")] \o
      << set_bytes32_as_int_unit_ui("duration", "Duration") >>

ClaimScreens ==
    << set_bytes_ui(Name, "Name"), set_bytes32_as_int_ui("n_inputs", "Total Inputs"),
       set_bytes_ui(Proof, "Proof") >>

ClaimResolverScreens ==
    << set_bytes_ui(Name, "Name"), set_bytes32_as_int_ui("n_inputs", "Total Inputs"),
       set_bytes_ui(Proof, "Proof"), set_addr_ui("resolver", "Resolver"),
       set_addr_ui("addr", "Addr") >>

SetOwnerScreens ==
    << set_bytes32_ui("node", "Node"), set_addr_ui("owner", "Owner") >>

SetResolverScreens ==
    << set_bytes32_ui("node", "Node"), set_addr_ui("resolver", "Resolver") >>

SetSubnodeScreens ==
    << set_bytes32_ui("node", "Node"), set_bytes32_ui("label", "Label"),
       set_addr_ui("owner", "Owner"), set_addr_ui("resolver", "Resolver"),
       set_bytes32_as_int_unit_ui("ttl", "TTL") >>

SetAddrScreens ==
    << set_bytes32_ui("node", "Node"), set_bytes32_as_int_ui("coinType", "Coin Type"),
       set_bytes_ui(Hash, "a") >>

SetContentHashScreens ==
    << set_bytes32_ui("node", "Node"), set_bytes_ui(Hash, "Hash") >>

SetTextScreens ==
    << set_bytes32_ui("node", "Node"), set_name_ui(Key, "Key"),
       set_name_ui(Value, "Value") >>

MulticallScreens == [i \in 1 .. count |-> set_bytes_ui(i - 1, "Call")]

ScreensOf ==
    CASE selectorIndex = "COMMIT" -> CommitScreens
      [] selectorIndex = "REGISTER" -> RegisterScreens
      [] selectorIndex = "REGISTER_WITH_CONFIG" -> RegisterWithConfigScreens
      [] selectorIndex = "RENEW" -> RenewScreens
      [] selectorIndex = "SET_NAME" -> SetNameScreens
      [] selectorIndex = "RENEW_ALL" -> RenewAllScreens
      [] selectorIndex = "PROVE_AND_CLAIM" -> ClaimScreens
      [] selectorIndex = "PROVE_AND_CLAIM_RESOLVER" -> ClaimResolverScreens
      [] selectorIndex = "SET_OWNER" -> SetOwnerScreens
      [] selectorIndex = "SET_RESOLVER" -> SetResolverScreens
      [] selectorIndex = "SET_SUBNODE" -> SetSubnodeScreens
      [] selectorIndex = "SET_ADDR" -> SetAddrScreens
      [] selectorIndex = "SET_CONTENT_HASH" -> SetContentHashScreens
      [] selectorIndex = "SET_TEXT" -> SetTextScreens
      [] selectorIndex = "MULTICALL" -> MulticallScreens

\* Screen number i is shown: screenIndex = i - 1 is valid and its value fits.
ScreenOk(i) ==
    /\ i \in DOMAIN ScreensOf
    /\ ScreensOf[i].format # "no room"
=============================================================================
