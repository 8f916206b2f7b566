----------------------------- MODULE MCEngineGate -----------------------------
(* Two scenarios around the approval gate in one run of DelegationEngine;  *)
(* the first root token decides which.  If it is broad, carrying more than *)
(* sensitive scopes, one worker serves the agents and the gate, with every *)
(* choice of scopes, ttl and depth limit.  If not, one operator decides    *)
(* and polls, one request at a time, while agents delegate a sensitive     *)
(* scope and tokens are revoked, until every clock has run out.            *)
EXTENDS DelegationEngine, TLC

CONSTANTS w1, w2

Minting  == (w1 :> {"root", "delegate", "approve"}) @@ (w2 :> {})
Deciding == (w1 :> {"approve", "deny", "collect"}) @@ (w2 :> {"root", "delegate", "revoke"})
GateCalls == [w \in Worker |-> Minting[w] \cup Deciding[w]]

Asks(calls) == \A w \in Worker : req[w].op \in calls[w] \cup {"none"}
Broad(scopes) == ~(scopes \subseteq Sensitive)
Roots == {j \in signed : claims[j].chain = <<>>}

WithinMinting ==
    /\ \A j \in Roots : Broad(claims[j].scopes)
    /\ Asks(Minting)
    /\ now < Horizon

WithinDeciding ==
    /\ \A j \in Roots : ~Broad(claims[j].scopes)
    /\ Asks(Deciding)
    /\ \A w \in Worker : ~Broad(req[w].scopes) /\ req[w].ttl < 2
    /\ \A j \in signed : claims[j].maxDepth = 2

WithinOne == WithinMinting' \/ WithinDeciding'

Ids == Permutations(Jti) \cup Permutations(Approval)
=============================================================================
