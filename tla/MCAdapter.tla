----------------------------- MODULE MCAdapter -----------------------------
(* A graph that delegates a plain and a sensitive scope, with tokens and    *)
(* approvals enough for a delegation below a delegation and a second try.   *)
EXTENDS Adapter

CONSTANTS read, send

MCAsks == {{read}, {send}}
=============================================================================
