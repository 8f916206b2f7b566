----------------------------- MODULE MCFirewall -----------------------------
(* Small instances of Firewall, and of the risk state over it, for TLC.    *)
EXTENDS Risk, TLC

CONSTANTS t1, t2, read, send

Both(a, b) == (t1 :> a) @@ (t2 :> b)

(* An agent acts, with a root or with its child, while who minted revokes.  *)
ActAndRevoke ==
    [calls |-> Both({"mint_root", "delegate", "revoke"}, {"action"}),
     asks |-> {{read}}, depths |-> {1}, horizon |-> 0, ids |-> 2, roots |-> 1, acts |-> 1]

(* A thread acts and revokes while another resolves what it queues.        *)
ReviewQueue ==
    [calls |-> Both({"mint_root", "action", "revoke"}, {"resolve_review"}),
     asks |-> {{read}}, depths |-> {1}, horizon |-> 0, ids |-> 1, roots |-> 1, acts |-> 2]

(* Two operators revoke overlapping subtrees; one of them verifies too.    *)
TwoRevokers ==
    [calls |-> Both({"mint_root", "delegate", "revoke"}, {"revoke", "verify"}),
     asks |-> {{read}}, depths |-> {1}, horizon |-> 0, ids |-> 2, roots |-> 2, acts |-> 0]

(* A chain grows under the walk of a revoke.                               *)
DeepTree ==
    [calls |-> Both({"mint_root", "delegate"}, {"revoke"}),
     asks |-> {{read}}, depths |-> {2}, horizon |-> 0, ids |-> 3, roots |-> 1, acts |-> 0]

(* One operator decides while the agent asks, polls and delegates.         *)
GateAndAgent ==
    [calls |-> Both({"mint_root", "delegate", "collect"},
                    {"approve", "deny", "pending_approvals"}),
     asks |-> {{read}, {read, send}}, depths |-> {1}, horizon |-> 4,
     ids |-> 3, roots |-> 1, acts |-> 0]

(* The operator who decides revokes as well.                               *)
GateAndRevoke ==
    [calls |-> Both({"mint_root", "delegate"}, {"approve", "revoke"}),
     asks |-> {{send}}, depths |-> {1}, horizon |-> 0, ids |-> 2, roots |-> 2, acts |-> 0]

(* The agent acts with what was approved, or with its own root.            *)
GateAndAct ==
    [calls |-> Both({"mint_root", "delegate", "collect", "action"}, {"approve"}),
     asks |-> {{send}}, depths |-> {1}, horizon |-> 0, ids |-> 2, roots |-> 2, acts |-> 1]

(* `send' was classified, `read' falls back.                               *)
MCScopeClass == send :> "email"
MCClassWeight == ("email" :> 10) @@ ("record_modification" :> 40)
MCRecoverability == (send :> 3) @@ (read :> 2)

AllScenarios == {ActAndRevoke, ReviewQueue, TwoRevokers, DeepTree, GateAndAgent,
                 GateAndRevoke, GateAndAct}

Ids == Permutations(Jti) \cup Permutations(Action) \cup Permutations(Review)
=============================================================================
