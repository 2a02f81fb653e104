------------------------------- MODULE EnsDefs -------------------------------
(***************************************************************************)
(* The enumerations, sizes and selector table of the plugin                *)
(* (src/ens_plugin.h, src/contract.c).  A parameter state, a selector and  *)
(* a result code are strings named after the C enumerators.                *)
(***************************************************************************)
EXTENDS Integers, Sequences

PARAMETER_LENGTH == 32
HALF_PARAMETER_LENGTH == 16
SELECTOR_SIZE == 4

\* Assignment to a uint16_t or a uint8_t.
UINT16_MAX == 65535
UINT8_MAX  == 255
UInt16 == 0 .. UINT16_MAX
UInt8  == 0 .. UINT8_MAX
U16(x) == x % (UINT16_MAX + 1)
U8(x)  == x % (UINT8_MAX + 1)

Least(a, b) == IF a <= b THEN a ELSE b

\* enum selector_t, in order; find_selector returns the index it loops over.
selector_t ==
    << "COMMIT", "REGISTER", "REGISTER_WITH_CONFIG", "RENEW", "SET_NAME",
       "RENEW_ALL", "PROVE_AND_CLAIM", "PROVE_AND_CLAIM_RESOLVER",
       "SET_OWNER", "SET_RESOLVER", "SET_SUBNODE", "SET_ADDR", "SET_TEXT",
       "MULTICALL", "SET_CONTENT_HASH" >>

SelectorIndexes == { selector_t[i] : i \in DOMAIN selector_t }

ENS_SELECTORS_SWAPPED ==   \* mutant: two rows swapped against the enumeration
    << "f14fcbc8", "85f6d155", "f7a16963", "acf1a841", "c47f0027",
       "e8d6dbb4", "8bbedf75", "224199c2",
       "1896f70a", "5b0fc9c3", "5ef2c7f0", "8b95dd71", "10f13a8c",
       "ac9650d8", "304e6ade" >>

ENS_SELECTORS ==
    << "f14fcbc8", "85f6d155", "f7a16963", "acf1a841", "c47f0027",
       "e8d6dbb4", "8bbedf75", "224199c2",
       "5b0fc9c3", "1896f70a", "5ef2c7f0", "8b95dd71", "10f13a8c",
       "ac9650d8", "304e6ade" >>

SelectorMatches(selector) ==
    { i \in DOMAIN ENS_SELECTORS : ENS_SELECTORS[i] = selector }

\* The first match of the loop.
find_selector(selector) ==
    selector_t[CHOOSE i \in SelectorMatches(selector) :
                   \A j \in SelectorMatches(selector) : i <= j]

\* handle_init_contract: the first parameter each handler expects.
FirstParamNoHash(s) ==   \* mutant: SET_CONTENT_HASH put in the wrong group
    CASE s = "COMMIT"    -> "COMMITMENT"
      [] s = "MULTICALL" -> "CALL_OFFSET"
      [] s \in {"SET_OWNER", "SET_RESOLVER", "SET_SUBNODE", "SET_ADDR", "SET_TEXT"} -> "NODE"
      [] OTHER           -> "NAME_OFFSET"

FirstParam(s) ==
    CASE s = "COMMIT"    -> "COMMITMENT"
      [] s = "MULTICALL" -> "CALL_OFFSET"
      [] s \in {"SET_OWNER", "SET_RESOLVER", "SET_SUBNODE",
                "SET_CONTENT_HASH", "SET_ADDR", "SET_TEXT"} -> "NODE"
      [] OTHER           -> "NAME_OFFSET"

(***************************************************************************)
(* The member of the union ens_tx_t.body a selector uses has at most three *)
(* dynamic fields (name_t or bytes32_t buffers with a length) and three    *)
(* saved ABI offsets; both are numbered 0 .. 2.  Element i of names[],     *)
(* call[] and offsets[] is number i.                                       *)
(***************************************************************************)
Slots == 0 .. 2
Name  == 0
Proof == 1
Input == 2
Key   == 0
Value == 1
Hash  == 0

\* Fixed-size 32-byte and 20-byte fields of the union's members.
Statics == {"commitment", "owner", "duration", "secret", "resolver", "addr",
            "n_inputs", "node", "label", "ttl", "coinType"}

\* The switch cases of each handler.
NameParams  == {"NAME_LENGTH", "NAME", "NAME_OFFSET_1", "NAME_OFFSET_2"}
ProofParams == {"PROOF_LEN", "PROOF", "PROOF_1", "PROOF_2"}
HashParams  == {"HASH_OFFSET", "HASH_LEN", "HASH", "HASH_1", "HASH_2"}
KeyParams   == {"KEY_LENGTH", "KEY", "KEY_1", "KEY_2"}
ValueParams == {"VALUE_LENGTH", "VALUE", "VALUE_1", "VALUE_2"}
CallParams  == {"CALL_LEN", "CALL", "CALL_1", "CALL_2"}
ClaimParams == {"NAME_OFFSET", "INPUT_OFFSET", "PROOF_OFFSET", "INPUT"}
                   \cup NameParams \cup ProofParams

ParamsOf(s) == {"NONE"} \cup
    CASE s = "COMMIT"       -> {"COMMITMENT"}
      [] s = "REGISTER"     -> {"NAME_OFFSET", "OWNER", "DURATION", "SECRET"} \cup NameParams
      [] s = "REGISTER_WITH_CONFIG" ->
             {"NAME_OFFSET", "OWNER", "SECRET", "RESOLVER", "ADDR"} \cup NameParams
      [] s = "RENEW"        -> {"NAME_OFFSET", "DURATION"} \cup NameParams
      [] s = "SET_NAME"     -> {"NAME_OFFSET"} \cup NameParams
      [] s = "RENEW_ALL"    -> {"NAME_OFFSET", "DURATION", "N_NAME", "OFFSETS"} \cup NameParams
      [] s = "PROVE_AND_CLAIM" -> ClaimParams
      [] s = "PROVE_AND_CLAIM_RESOLVER" -> {"RESOLVER", "ADDR"} \cup ClaimParams
      [] s = "SET_OWNER"    -> {"NODE", "OWNER"}
      [] s = "SET_RESOLVER" -> {"NODE", "RESOLVER"}
      [] s = "SET_SUBNODE"  -> {"NODE", "LABEL", "OWNER", "RESOLVER", "TTL"}
      [] s = "SET_ADDR"     -> {"NODE", "COINTYPE"} \cup HashParams
      [] s = "SET_TEXT"     -> {"NODE", "KEY_OFFSET", "VALUE_OFFSET"} \cup KeyParams \cup ValueParams
      [] s = "SET_CONTENT_HASH" -> {"NODE"} \cup HashParams
      [] s = "MULTICALL"    -> {"CALL_OFFSET", "N_CALL", "OFFSETS"} \cup CallParams

Params == UNION { ParamsOf(s) : s \in SelectorIndexes }

\* names[2] and call[3]: the capacity of the arrays of renew_all and multicall.
Capacity(s) == IF s = "RENEW_ALL" THEN 2 ELSE 3
=============================================================================
