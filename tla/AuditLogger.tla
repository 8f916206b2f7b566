------------------------------ MODULE AuditLogger ------------------------------
(***************************************************************************)
(* The writer of the hash-chained audit log.                               *)
(*                                                                         *)
(* Handler threads and the flush loop share a buffer, the tail of the      *)
(* chain and one lock.  A handler already holds a connection of the pool   *)
(* for its request when it logs; a write takes another one, under the      *)
(* lock.  verify_success events are buffered, all others are written       *)
(* before log returns.                                                     *)
(*                                                                         *)
(* SHA-256 is taken to be collision-free: a row hash is the sequence of    *)
(* events it covers.                                                       *)
(***************************************************************************)
EXTENDS Integers, Sequences, FiniteSets

CONSTANTS
    Worker,     \* handler threads
    Loop,       \* the thread of the flush loop
    Sync,       \* events written before log returns
    Buffered,   \* verify_success events
    MaxBuffer,  \* audit_buffer_max_size
    PoolSize,   \* connections of the pool
    None

Thread == Worker \cup {Loop}
Event  == Sync \cup Buffered

ASSUME AuditAssumption ==
    /\ Loop \notin Worker
    /\ Sync \cap Buffered = {}
    /\ MaxBuffer \in Nat \ {0}
    /\ PoolSize \in Nat \ {0}
    /\ IsFiniteSet(Worker)
    /\ None \notin Seq(Event)

VARIABLES
    rows,     \* audit_log, in the order of id
    buffer,   \* _buffer
    tail,     \* _tail_hash
    pc,       \* where each thread is in the logger
    batch,    \* the events it has in hand
    staged,   \* the rows its session has added
    holds,    \* handlers whose request holds a connection
    issued,   \* history: events passed to log
    told,     \* history: events whose log returned at once, or that a writer saw committed
    lost,     \* history: events dropped by a failed write or a crash
    fork      \* history: has a commit been applied whose reply was lost?

work == <<pc, batch, staged>>
vars == <<rows, buffer, tail, pc, batch, staged, holds, issued, told, lost, fork>>

-----------------------------------------------------------------------------
(* The chain.                                                              *)

Genesis == <<>>

(* compute_row_hash.                                                       *)
RowHash(prev, e) == Append(prev, e)

(* The rows of a batch, each chained to the one before.                    *)
Chained(prev, events) ==
    LET hash(i) == prev \o SubSeq(events, 1, i)
    IN [i \in 1 .. Len(events) |->
           [event |-> events[i], prev |-> hash(i - 1), hash |-> RowHash(hash(i - 1), events[i])]]

Tip(rs) == IF rs = <<>> THEN Genesis ELSE rs[Len(rs)].hash

(* Mutant: the content of a row is not hashed again. *)
Broken_LinksOnly(rs, i) == rs[i].prev # Tip(SubSeq(rs, 1, i - 1))

Broken(rs, i) ==
    \/ rs[i].prev # Tip(SubSeq(rs, 1, i - 1))
    \/ rs[i].hash # RowHash(rs[i].prev, rs[i].event)

(* verify_integrity: the first broken row, 0 if there is none.             *)
FirstBroken(rs) ==
    LET broken == {i \in DOMAIN rs : Broken(rs, i)}
    IN IF broken = {} THEN 0 ELSE CHOOSE i \in broken : \A j \in broken : i <= j

-----------------------------------------------------------------------------

Goto(t, l) == pc' = [pc EXCEPT ![t] = l]
Take(t, events) == batch' = [batch EXCEPT ![t] = events]

Locked == \E t \in Thread : pc[t] \in {"connect", "commit"}
Free   == PoolSize - Cardinality(holds) - Cardinality({t \in Thread : pc[t] = "commit"})

EventsIn(s) == {s[i] : i \in DOMAIN s}
Written  == {rows[i].event : i \in DOMAIN rows}
Volatile == EventsIn(buffer) \cup UNION {EventsIn(batch[t]) : t \in Thread}

-----------------------------------------------------------------------------
(* Requests: the session of a handler takes a connection at its first      *)
(* statement and gives it back when the request ends.                      *)

Query(w) ==
    /\ pc[w] = "idle" /\ w \notin holds
    /\ Free > 0
    /\ holds' = holds \cup {w}
    /\ UNCHANGED <<rows, buffer, tail, work, issued, told, lost, fork>>

EndRequest(w) ==
    /\ pc[w] = "idle" /\ w \in holds
    /\ holds' = holds \ {w}
    /\ UNCHANGED <<rows, buffer, tail, work, issued, told, lost, fork>>

-----------------------------------------------------------------------------
(* log and flush.                                                          *)

(* Mutant: every event is buffered. *)
Log_Buffered(w) ==
    \E e \in Event \ issued :
        /\ pc[w] = "idle"
        /\ issued' = issued \cup {e}
        /\ Take(w, <<e>>)
        /\ Goto(w, "append")
        /\ UNCHANGED <<rows, buffer, tail, staged, holds, told, lost, fork>>

Log(w) ==
    \E e \in Event \ issued :
        /\ pc[w] = "idle"
        /\ issued' = issued \cup {e}
        /\ Take(w, <<e>>)
        /\ Goto(w, IF e \in Buffered THEN "append" ELSE "write")
        /\ UNCHANGED <<rows, buffer, tail, staged, holds, told, lost, fork>>

(* Mutant: the thread that fills the buffer flushes what was there before. *)
Enqueue_FlushInstead(w) ==
    /\ pc[w] = "append" /\ ~Locked
    /\ buffer' = IF Len(buffer) + 1 >= MaxBuffer THEN buffer ELSE buffer \o batch[w]
    /\ told' = told \cup EventsIn(batch[w])
    /\ Take(w, <<>>)
    /\ Goto(w, IF Len(buffer) + 1 >= MaxBuffer THEN "swap" ELSE "idle")
    /\ UNCHANGED <<rows, tail, staged, holds, issued, lost, fork>>

(* The event is accepted; the thread that fills the buffer flushes it.     *)
Enqueue(w) ==
    /\ pc[w] = "append" /\ ~Locked
    /\ buffer' = buffer \o batch[w]
    /\ told' = IF Len(buffer') >= MaxBuffer THEN told ELSE told \cup EventsIn(batch[w])
    /\ Take(w, <<>>)
    /\ Goto(w, IF Len(buffer') >= MaxBuffer THEN "swap" ELSE "idle")
    /\ UNCHANGED <<rows, tail, staged, holds, issued, lost, fork>>

(* The flush loop, the integrity and flush endpoints, and stop.            *)
Flush(t) ==
    /\ pc[t] = "idle"
    /\ Goto(t, "swap")
    /\ UNCHANGED <<rows, buffer, tail, batch, staged, holds, issued, told, lost, fork>>

(* Mutant: the buffer is emptied only by the loop. *)
Swap_Copy(t) ==
    /\ pc[t] = "swap" /\ ~Locked
    /\ buffer' = IF t = Loop THEN <<>> ELSE buffer
    /\ Take(t, buffer)
    /\ Goto(t, IF buffer = <<>> THEN "idle" ELSE "write")
    /\ UNCHANGED <<rows, tail, staged, holds, issued, told, lost, fork>>

Swap(t) ==
    /\ pc[t] = "swap" /\ ~Locked
    /\ buffer' = <<>>
    /\ Take(t, buffer)
    /\ Goto(t, IF buffer = <<>> THEN "idle" ELSE "write")
    /\ UNCHANGED <<rows, tail, staged, holds, issued, told, lost, fork>>

-----------------------------------------------------------------------------
(* _write_batch.                                                           *)

(* Mutant: the lock covers the buffer, not the chain. *)
Acquire_NoLock(t) ==
    /\ pc[t] = "write"
    /\ Goto(t, "connect")
    /\ UNCHANGED <<rows, buffer, tail, batch, staged, holds, issued, told, lost, fork>>

Acquire(t) ==
    /\ pc[t] = "write" /\ ~Locked
    /\ Goto(t, "connect")
    /\ UNCHANGED <<rows, buffer, tail, batch, staged, holds, issued, told, lost, fork>>

Connect(t) ==
    /\ pc[t] = "connect"
    /\ Free > 0
    /\ tail' = IF tail = None THEN Tip(rows) ELSE tail
    /\ staged' = [staged EXCEPT ![t] = Chained(tail', batch[t])]
    /\ Goto(t, "commit")
    /\ UNCHANGED <<rows, buffer, batch, holds, issued, told, lost, fork>>

(* The lock is released and nothing is left in hand.                       *)
Leave(t) ==
    /\ Take(t, <<>>)
    /\ staged' = [staged EXCEPT ![t] = <<>>]
    /\ Goto(t, "idle")

Commit(t) ==
    /\ pc[t] = "commit"
    /\ rows' = rows \o staged[t]
    /\ tail' = Tip(staged[t])
    /\ told' = told \cup EventsIn(batch[t])
    /\ fork' = IF fork = "behind" THEN "forked" ELSE fork
    /\ Leave(t)
    /\ UNCHANGED <<buffer, holds, issued, lost>>

(* The commit is applied, its reply is lost: an exception, and _tail_hash  *)
(* stays where it was.                                                     *)
CommitLost(t) ==
    /\ pc[t] = "commit"
    /\ rows' = rows \o staged[t]
    /\ fork' = IF fork = "none" THEN "behind" ELSE "forked"
    /\ Leave(t)
    /\ UNCHANGED <<buffer, tail, holds, issued, told, lost>>

(* Mutant: an exception ends the flush loop. *)
Fail_LoopDies(t) ==
    /\ lost' = lost \cup EventsIn(batch[t])
    /\ Take(t, <<>>)
    /\ staged' = [staged EXCEPT ![t] = <<>>]
    /\ Goto(t, IF t = Loop THEN "dead" ELSE "idle")
    /\ UNCHANGED <<rows, buffer, tail, holds, issued, told, fork>>

(* An exception: the batch is gone, the loop logs it and goes on.          *)
Fail(t) ==
    /\ lost' = lost \cup EventsIn(batch[t])
    /\ Leave(t)
    /\ UNCHANGED <<rows, buffer, tail, holds, issued, told, fork>>

WriteFails(t) == pc[t] \in {"connect", "commit"} /\ Fail(t)

(* Mutant: a thread waits for a connection as long as it takes. *)
PoolTimeout_Never(t) == FALSE /\ Fail(t)

(* No connection became free in time.                                      *)
PoolTimeout(t) == pc[t] = "connect" /\ Free <= 0 /\ Fail(t)

(* Mutant: the tail of the last process is kept. *)
LoadTail_Genesis == tail' = Genesis

LoadTail == tail' = Tip(rows)

(* The process ends, at any point, and start loads the tail.               *)
Restart ==
    /\ LoadTail
    /\ buffer' = <<>>
    /\ pc' = [t \in Thread |-> "idle"]
    /\ batch' = [t \in Thread |-> <<>>]
    /\ staged' = [t \in Thread |-> <<>>]
    /\ holds' = {}
    /\ lost' = lost \cup Volatile
    /\ fork' = IF fork = "behind" THEN "none" ELSE fork
    /\ UNCHANGED <<rows, issued, told>>

Init ==
    /\ rows = <<>> /\ buffer = <<>>
    /\ tail \in {None, Genesis}
    /\ pc = [t \in Thread |-> "idle"]
    /\ batch = [t \in Thread |-> <<>>]
    /\ staged = [t \in Thread |-> <<>>]
    /\ holds = {}
    /\ issued = {} /\ told = {} /\ lost = {}
    /\ fork = "none"

Handles(w) == Query(w) \/ EndRequest(w) \/ Log(w) \/ Enqueue(w)

Writes(t) ==
    \/ Flush(t) \/ Swap(t) \/ Acquire(t) \/ Connect(t) \/ PoolTimeout(t)
    \/ Commit(t) \/ CommitLost(t) \/ WriteFails(t)

Next ==
    \/ \E w \in Worker : Handles(w)
    \/ \E t \in Thread : Writes(t)
    \/ Restart

(* The loop wakes up; a thread that waits for the lock gets it if it is    *)
(* free again and again; a writer goes on, the pool answers in time.       *)
TakesLock(t) == Enqueue(t) \/ Swap(t) \/ Acquire(t)
GoesOn(t)    == Connect(t) \/ PoolTimeout(t) \/ Commit(t)

Fairness ==
    /\ WF_vars(Flush(Loop))
    /\ \A t \in Thread : SF_vars(TakesLock(t)) /\ WF_vars(GoesOn(t))

Spec == Init /\ [][Next]_vars /\ Fairness

-----------------------------------------------------------------------------
(* Properties.                                                             *)

Hash == Seq(Event)

AuditTypeOK ==
    /\ rows \in Seq([event : Event, prev : Hash, hash : Hash])
    /\ buffer \in Seq(Buffered)
    /\ tail \in Hash \cup {None}
    /\ pc \in [Thread -> {"idle", "append", "swap", "write", "connect", "commit"}]
    /\ batch \in [Thread -> Seq(Event)]
    /\ \A t \in Thread : pc[t] \in {"idle", "swap"} <=> batch[t] = <<>>
    /\ \A t \in Thread : pc[t] # "commit" => staged[t] = <<>>
    /\ Cardinality({t \in Thread : pc[t] \in {"connect", "commit"}}) <= 1
    /\ Free >= 0
    /\ holds \subseteq Worker
    /\ told \subseteq issued /\ issued \subseteq Event /\ lost \subseteq issued
    /\ fork \in {"none", "behind", "forked"}

(* verify_integrity finds the log intact exactly when no batch was chained *)
(* to a tail that a commit with a lost reply had left behind: whatever     *)
(* threads, flushes, failures and restarts came between.                   *)
ChainIntact == FirstBroken(rows) = 0 <=> fork # "forked"

(* A synchronous event whose log has returned is in the table for good.    *)
SyncIsDurable == told \cap Sync \subseteq Written

(* A verify_success that was accepted is written, on its way, or lost to a *)
(* failed write or a crash; no flush drops or overlooks it.                *)
NothingVanishes == told \cap Buffered \subseteq Written \cup Volatile \cup lost

(* Both: what log accepted is kept as long as log said it would be.        *)
AcceptedIsKept == SyncIsDurable /\ NothingVanishes

(* The writer implements AuditLog: rows are only ever added after the      *)
(* others, and an event has at most one.                                   *)
Promise == INSTANCE AuditLog WITH
               log <- [i \in DOMAIN rows |-> rows[i].event], pending <- Volatile
KeepsPromise == Promise!Spec

(* What was changed after it was written is found, and where: an edited    *)
(* field, a removed row and two swapped rows at their place, a row forged  *)
(* with its own hash at the next.  (Nothing follows the last row: its      *)
(* removal, or its forgery, leaves a chain that is intact.)                *)
Edited(rs, i)  == {[rs EXCEPT ![i].event = e] : e \in Event \ {rs[i].event}}
Removed(rs, i) == SubSeq(rs, 1, i - 1) \o SubSeq(rs, i + 1, Len(rs))
Swapped(rs, i) == [rs EXCEPT ![i] = rs[i + 1], ![i + 1] = rs[i]]
Forged(rs, i)  ==
    {[rs EXCEPT ![i].event = e, ![i].hash = RowHash(rs[i].prev, e)] : e \in Event \ {rs[i].event}}

TamperLocated ==
    FirstBroken(rows) = 0 =>
        /\ \A i \in DOMAIN rows : \A rs \in Edited(rows, i) : FirstBroken(rs) = i
        /\ \A i \in 1 .. Len(rows) - 1 :
             /\ \A rs \in {Removed(rows, i), Swapped(rows, i)} : FirstBroken(rs) = i
             /\ \A rs \in Forged(rows, i) : FirstBroken(rs) = i + 1

(* No call of log or flush waits for ever, though every writer needs a     *)
(* second connection while handlers hold the others and wait for the lock. *)
CallsReturn == \A t \in Thread : pc[t] # "idle" ~> pc[t] = "idle"

(* No event stays in memory for ever.                                      *)
EventsSettle == \A e \in Buffered : e \in Volatile ~> e \notin Volatile
=============================================================================
