------------------------------ MODULE Payment ------------------------------
(***************************************************************************)
(* What a transaction sender promises the caller of a fill or a claim,     *)
(* free of nonces, fees and mempools: an action is worth at most one       *)
(* transaction at a time, it lands at most once, and the caller is told    *)
(* "confirmed" only of an action that landed and "dead" only of one that   *)
(* no transaction already sent can perform any more.                       *)
(***************************************************************************)
CONSTANT Action

VARIABLES
    state, \* state[a]: "clear" (nothing sent can land), "open", "landed"
    told   \* told[a]: the last definite answer given for a, or "unknown"

vars == <<state, told>>

Init == state = [a \in Action |-> "clear"] /\ told = [a \in Action |-> "unknown"]

(* A transaction for a is handed to a node, while none sent earlier can    *)
(* land; what the caller was told of an earlier one is out of date.        *)
Send(a) == state[a] = "clear" /\ state'[a] = "open" /\ told'[a] = "unknown"

(* The transaction performs the action.                                    *)
Land(a) == state[a] = "open" /\ state'[a] = "landed" /\ told'[a] = told[a]

(* Every transaction sent for a lost its nonce, or was dropped.            *)
Die(a) == state[a] = "open" /\ state'[a] = "clear" /\ told'[a] = told[a]

(* A definite answer.                                                      *)
Tell(a) ==
    /\ state'[a] = state[a]
    /\ \/ state[a] = "landed" /\ told'[a] = "confirmed"
       \/ state[a] = "clear" /\ told'[a] = "dead"

(* A caller asks again, or is answered "in doubt".                         *)
Ask(a) == state'[a] = state[a] /\ told'[a] = "unknown"

Stay(a) == state'[a] = state[a] /\ told'[a] = told[a]

(* One block can settle several actions at once.                           *)
Next ==
    /\ state' \in [Action -> {"clear", "open", "landed"}]
    /\ told' \in [Action -> {"unknown", "confirmed", "dead"}]
    /\ \A a \in Action : Send(a) \/ Land(a) \/ Die(a) \/ Tell(a) \/ Ask(a) \/ Stay(a)

Spec == Init /\ [][Next]_vars
=============================================================================
