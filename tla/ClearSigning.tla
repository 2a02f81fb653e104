---------------------------- MODULE ClearSigning ----------------------------
(***************************************************************************)
(* What a clear-signing plugin promises its user: of a transaction it      *)
(* serves, every parameter that arrived is shown, in order and nothing     *)
(* else; one it does not serve is refused without a screen.  How calldata  *)
(* is parsed is no part of it.                                             *)
(***************************************************************************)
EXTENDS Sequences, Naturals

CONSTANTS
  Requests,    \* the transactions
  Display(_),  \* what README.md says is shown of a transaction
  Served(_)    \* whether it is served

VARIABLES
  request,  \* the transaction being reviewed
  status,   \* "idle", "open", "shown" or "refused"
  screens   \* what the user has seen of it

vars == <<request, status, screens>>

Init ==
    /\ request \in Requests
    /\ status = "idle"
    /\ screens = << >>

Open ==
    /\ status # "open"
    /\ request' \in Requests
    /\ status' = "open"
    /\ screens' = << >>

Show ==
    /\ status = "open"
    /\ Served(request)
    /\ Len(screens) < Len(Display(request))
    /\ screens' = Append(screens, Display(request)[Len(screens) + 1])
    /\ status' = IF Len(screens') = Len(Display(request)) THEN "shown" ELSE "open"
    /\ UNCHANGED request

\* Of a transaction that ends early there may be nothing to show.
ShowNothing ==
    /\ status = "open"
    /\ Served(request)
    /\ Display(request) = << >>
    /\ status' = "shown"
    /\ UNCHANGED <<request, screens>>

Refuse ==
    /\ status = "open"
    /\ ~Served(request)
    /\ status' = "refused"
    /\ UNCHANGED <<request, screens>>

Next == Open \/ Show \/ ShowNothing \/ Refuse

\* An open request is not left pending.
Spec == Init /\ [][Next]_vars /\ WF_vars(Show \/ ShowNothing) /\ WF_vars(Refuse)
=============================================================================
