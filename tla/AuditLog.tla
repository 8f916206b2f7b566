-------------------------------- MODULE AuditLog --------------------------------
(***************************************************************************)
(* What the audit log promises, whatever its writer does: a log that only  *)
(* grows, into which every accepted event enters at most once, unless it   *)
(* is lost on the way.                                                     *)
(***************************************************************************)
EXTENDS Naturals, Sequences

CONSTANT Event

VARIABLES
    log,      \* the events, in the order of their rows
    pending   \* accepted, and not yet in the log

EventsOf(s) == {s[i] : i \in DOMAIN s}

Init ==
    /\ log = <<>>
    /\ pending = {}

Accept ==
    \E e \in Event :
        /\ e \notin pending \cup EventsOf(log)
        /\ pending' = pending \cup {e}
        /\ UNCHANGED log

(* Any number of pending events, in any order, after all that is there.    *)
Write ==
    /\ Len(log) < Len(log')
    /\ log = SubSeq(log', 1, Len(log))
    /\ LET new == Len(log) + 1 .. Len(log') IN
       /\ \A i \in new : log'[i] \in pending
       /\ \A i, j \in new : log'[i] = log'[j] => i = j
       /\ pending' = pending \ {log'[i] : i \in new}

Lose ==
    \E some \in SUBSET pending :
        /\ pending' = pending \ some
        /\ UNCHANGED log

Next == Accept \/ Write \/ Lose

Spec == Init /\ [][Next]_<<log, pending>>
=============================================================================
