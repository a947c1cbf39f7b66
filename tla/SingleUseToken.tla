--------------------------- MODULE SingleUseToken ---------------------------
(***************************************************************************)
(* What a replay nonce promises, whoever implements it (RFC 8555, 6.5): a  *)
(* token is handed out once, can be redeemed once, and may lose its value  *)
(* at any time before that, never to regain it.                            *)
(***************************************************************************)
CONSTANT Token

VARIABLE state

TokenState == {"unissued", "live", "spent", "void"}

Init == state = [t \in Token |-> "unissued"]

Issue(t) ==
    /\ state[t] = "unissued"
    /\ state' = [state EXCEPT ![t] = "live"]

Redeem(t) ==
    /\ state[t] = "live"
    /\ state' = [state EXCEPT ![t] = "spent"]

(* Any number of live tokens lose their value in one step. *)
Void(T) ==
    /\ \A t \in T : state[t] = "live"
    /\ state' = [t \in Token |-> IF t \in T THEN "void" ELSE state[t]]

Next ==
    \/ \E t \in Token : Issue(t) \/ Redeem(t)
    \/ \E T \in SUBSET Token : Void(T)

Spec == Init /\ [][Next]_state
=============================================================================
