----------------------------- MODULE MCAuditLogger -----------------------------
(* Small instances of AuditLogger for TLC.                                 *)
EXTENDS AuditLogger, TLC

Symmetric == Permutations(Worker) \cup Permutations(Buffered)
=============================================================================
