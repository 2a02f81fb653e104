------------------------------- MODULE EnsHost -------------------------------
(***************************************************************************)
(* The host that calls the plugin, in the order of the loop of             *)
(* fuzzing/fuzz_plugin.c: init, one provide-parameter per word of the      *)
(* calldata, finalize, provide-token, query-id, one query-ui per screen.   *)
(* Any result but OK ends the session, and so does the last screen; the    *)
(* next session starts with the plugin's globals as they were left.        *)
(***************************************************************************)
EXTENDS EnsScreens

VARIABLES
  phase,       \* what the host has called so far in this session
  numScreens,  \* msg->numScreens of handle_finalize
  version,     \* msg->version of handle_query_contract_id
  shown        \* the screens the user has been shown, in order

host == <<phase, parameterOffset, numScreens, version, shown>>
vars == <<context, globals, result, host>>

Phases == {"idle", "refused", "parsing", "finalized", "resolved", "review", "reviewed"}

\* No session is under way.
Ended == phase \in {"idle", "refused", "reviewed"}

\* The context is the host's zeroed memory until the first handle_init_contract.
HostInit ==
    /\ selectorIndex = "COMMIT"
    /\ next_param = "COMMITMENT"
    /\ offset = 0
    /\ go_to_offset = FALSE
    /\ statics = [f \in Statics |-> NoStatic]
    /\ offsets = [k \in Slots |-> 0]
    /\ len = [k \in Slots |-> 0]
    /\ text = [k \in Slots |-> NoBytes]
    /\ ellipsis = [k \in Slots |-> FALSE]
    /\ count = 0
    /\ id = 0
    /\ offsets_start = 0
    /\ bytes_missing = 0
    /\ name_offset = 0
    /\ input_offset = 0
    /\ parameterOffset = SELECTOR_SIZE
    /\ result = "OK"
    /\ phase = "idle"
    /\ numScreens = 0
    /\ version = ""
    /\ shown = << >>

\* The host goes on to phase p, or gives up when the call failed.
Continue(p) == phase' = IF result' = "OK" THEN p ELSE "refused"

InitContract(selector, versionOk, roomOk) ==
    /\ Ended
    /\ handle_init_contract(selector, versionOk, roomOk)
    /\ Continue("parsing")
    /\ parameterOffset' = SELECTOR_SIZE
    /\ numScreens' = 0
    /\ version' = ""
    /\ shown' = << >>

ProvideParameter(w) ==
    /\ phase = "parsing"
    /\ handle_provide_parameter(w)
    /\ Continue("parsing")
    /\ parameterOffset' = parameterOffset + PARAMETER_LENGTH
    /\ UNCHANGED <<numScreens, version, shown>>

\* handle_finalize does not look at next_param: it accepts a call whose
\* calldata ended early.
Finalize ==
    /\ phase = "parsing"
    /\ numScreens' = FinalizeScreens
    /\ result' = "OK"
    /\ Continue("finalized")
    /\ UNCHANGED <<context, globals, parameterOffset, version, shown>>

ProvideToken ==
    /\ phase = "finalized"
    /\ result' = "OK"
    /\ Continue("resolved")
    /\ UNCHANGED <<context, globals, parameterOffset, numScreens, version, shown>>

QueryContractId ==
    /\ phase = "resolved"
    /\ version' = Version
    /\ result' = "OK"
    /\ Continue(IF numScreens = 0 THEN "reviewed" ELSE "review")
    /\ UNCHANGED <<context, globals, parameterOffset, numScreens, shown>>

QueryContractUi ==
    /\ phase = "review"
    /\ UNCHANGED <<context, globals, parameterOffset, numScreens, version>>
    /\ LET i == Len(shown) + 1
       IN \/ /\ ScreenOk(i)
             /\ result' = "OK"
             /\ shown' = Append(shown, ScreensOf[i])
             /\ Continue(IF i = numScreens THEN "reviewed" ELSE "review")
          \/ /\ ~ScreenOk(i)
             /\ result' = "ERROR"
             /\ Continue("review")
             /\ UNCHANGED shown
=============================================================================
