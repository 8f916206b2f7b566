----------------------------- MODULE MCGuardrails -----------------------------
(* Small instances of Guardrails for TLC.                                  *)
EXTENDS Guardrails, TLC

CONSTANTS t1, t2, r1, agent, bench

OneProcess == [t \in Thread |-> r1]

OneEach == [e \in Endpoint |-> 1]

(* An agent delegates, an exempt one verifies, and somebody presents       *)
(* tokens that do not decode.                                              *)
Traffic == {<<agent, "delegate">>, <<bench, "verify">>, <<None, "verify">>}

Threads == Permutations(Thread)
=============================================================================
