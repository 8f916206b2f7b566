--------------------------- MODULE MCRevocationStore ---------------------------
(* Small instances of RevocationStore for TLC.                             *)
EXTENDS RevocationStore, TLC

CONSTANTS parent, child

(* One delegation: revoking the parent revokes both.                       *)
OneEdge == (parent :> {parent, child}) @@ (child :> {child})

Workers == Permutations(Worker)
=============================================================================
