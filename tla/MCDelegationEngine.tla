------------------------- MODULE MCDelegationEngine -------------------------
(* Small instances of DelegationEngine for TLC.                            *)
EXTENDS DelegationEngine, TLC

CONSTANTS w1, w2

(* Which endpoints the clients of each worker call.                        *)

(* The agents' requests race with revocations.                             *)
AgentsAndRevoker ==
    (w1 :> {"root", "delegate", "approve", "verify"}) @@ (w2 :> {"revoke"})

(* Requests of every kind that writes a row another one may hold.          *)
Contention == [w \in Worker |-> Endpoint \ {"verify"}]

(* Two operators decide at once.                                           *)
TwoOperators == [w \in Worker |-> {"root", "delegate", "approve", "deny"}]

Ids == Permutations(Jti) \cup Permutations(Approval)
=============================================================================
