--------------------------- MODULE PrivateLedger ---------------------------
(***************************************************************************)
(* What the encrypted token promises its users, with no encryption: every  *)
(* user has a plaintext balance per token, value enters by a deposit or a  *)
(* mint, moves between two users, and leaves by a withdrawal or a burn,    *)
(* and nobody ever spends more than they have.                             *)
(***************************************************************************)
EXTENDS Integers

CONSTANTS Users, TokenIds

VARIABLE plain  \* plain[u][id]: what user u owns in token id

Init == plain = [u \in Users |-> [id \in TokenIds |-> 0]]

Enter(u, id, value) ==
    plain' = [plain EXCEPT ![u][id] = @ + value]

Leave(u, id, value) ==
    /\ value <= plain[u][id]
    /\ plain' = [plain EXCEPT ![u][id] = @ - value]

Move(from, to, id, value) ==
    /\ value <= plain[from][id]
    /\ plain' = [[plain EXCEPT ![from][id] = @ - value] EXCEPT ![to][id] = @ + value]

(* The value a step moves is read off the two states, so that any natural  *)
(* number is allowed and TLC need not enumerate them.                      *)
Gain(u, id) == plain'[u][id] - plain[u][id]

Next ==
    \E u \in Users, id \in TokenIds :
        \/ Gain(u, id) \in Nat /\ Enter(u, id, Gain(u, id))
        \/ -Gain(u, id) \in Nat /\ Leave(u, id, -Gain(u, id))
        \/ \E w \in Users \ {u} :
               -Gain(u, id) \in Nat /\ Move(u, w, id, -Gain(u, id))

Spec == Init /\ [][Next]_plain
=============================================================================
