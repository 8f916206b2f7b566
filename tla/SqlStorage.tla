------------------------------- MODULE SqlStorage -------------------------------
(***************************************************************************)
(* agperms' SqlStorage: the Storage protocol over SQLAlchemy sessions.     *)
(*                                                                         *)
(* A session borrows a connection, sends a statement at a time, commits,   *)
(* and when it ends rolls back what its connection has not committed.  An  *)
(* operation is one session, revoke_many two, a walk one for each level.   *)
(* The server is read-committed: a statement sees the committed rows and   *)
(* those written through its own connection; a row that another connection *)
(* has written and not committed makes a writer wait.                      *)
(*                                                                         *)
(* With a SQLite url the engine has a StaticPool: all sessions share one   *)
(* connection, and so one transaction (Shared).  With any other url they   *)
(* have a connection each, as long as the pool has one.                    *)
(***************************************************************************)
EXTENDS Integers, Sequences, FiniteSets

CONSTANTS
    Caller, Jti, Keys, Values, Request, None,  \* as in Storage
    Shared,     \* the url is a SQLite url
    PoolSize,   \* pool_size + max_overflow
    Scenarios   \* what the callers of one behaviour ask for, and its bounds

(* The rows there are at first, what each caller may ask for, and how often*)
Scenario == [rows : SUBSET (Keys \X Values), asks : [Caller -> SUBSET Request],
             calls : [Caller -> Nat]]

VARIABLES
    db, closed, call, reply, before,  \* as in Storage; db is what is committed
    scenario,  \* the scenario of this behaviour: it never changes
    left,      \* how many calls each caller still makes
    pc,        \* where the call of each caller is
    loc,       \* its local variables
    staged,    \* what each connection has written and not committed
    told       \* history: rows the callers were told of that nothing may change

contract == <<db, closed, call, reply, before>>
vars == <<contract, scenario, left, pc, loc, staged, told>>

Contract == INSTANCE Storage

Label == {"idle", "open", "select", "flush", "commit", "reselect", "exit", "return"}
Local == [next : {"select", "flush"}, level : SUBSET Jti, found : SUBSET Jti,
          fresh : SUBSET Keys, fault : BOOLEAN]
NoLocal == [next |-> "select", level |-> {}, found |-> {}, fresh |-> {}, fault |-> FALSE]

Lasting == {"token", "edge", "revocation", "subject", "audit"}
Updates == {"close_action", "update_approval", "update_review"}
Inserts == Contract!Op \ (Updates \cup {"read", "is_revoked", "descendants"})

(* Which tables a request is about; an edge has no columns.                *)
Tables(r) ==
    /\ \A k \in DOMAIN r.put :
         /\ r.op \in Updates => k[1] \notin Lasting
         /\ r.op = "revoke_many" => k[1] = "revocation"
         /\ k[1] = "edge" => r.put[k] = "row"
    /\ r.op = "add_edge" => \E k \in Keys : DOMAIN r.put = {k} /\ k[1] = "edge"
    /\ r.op = "get_or_create_subject" =>
         \E k \in Keys : DOMAIN r.put = {k} /\ k[1] = "subject"

ASSUME SqlAssumption ==
    /\ Contract!WellFormed
    /\ Shared \in BOOLEAN
    /\ PoolSize \in Nat \ {0}
    /\ Scenarios \subseteq Scenario
    /\ \A r \in Request : Tables(r)
    /\ \A s \in Scenarios : \A row \in s.rows : row[1][1] = "edge" => row[2] = "row"

Connection == IF Shared THEN {"static"} ELSE Caller
Conn(c) == IF Shared THEN "static" ELSE c
Nothing == [k \in Keys |-> None]
Overlay(contents, written) ==
    [k \in Keys |-> IF written[k] # None THEN written[k] ELSE contents[k]]

(* What a statement of this caller sees.                                   *)
Visible(c) == Overlay(db, staged[Conn(c)])

InSession(c) == pc[c] \in {"select", "flush", "commit", "reselect", "exit"}
Pooled == Cardinality({c \in Caller : InSession(c)}) < PoolSize

-----------------------------------------------------------------------------
Goto(c, l) == pc' = [pc EXCEPT ![c] = l]

(* The outcome of the operation is known; what is left is to go.           *)
Conclude(c, answer, l) ==
    /\ reply' = [reply EXCEPT ![c] = answer]
    /\ Goto(c, l)

(* The operation raises because a connection, a statement or the storage   *)
(* itself is not to be had.                                                *)
Break(c, l) ==
    /\ Conclude(c, Contract!Raised, l)
    /\ loc' = [loc EXCEPT ![c].fault = TRUE]

Rollback(c) == staged' = [staged EXCEPT ![Conn(c)] = Nothing]

(* Which statement the first session of a request begins with.             *)
FirstStep(r) ==
    IF r.op \in Inserts \ {"revoke_many", "get_or_create_subject"} THEN "flush"
                                                                   ELSE "select"

Ask(c) ==
    /\ pc[c] = "idle"
    /\ left[c] > 0
    /\ left' = [left EXCEPT ![c] = @ - 1]
    /\ \E r \in scenario.asks[c] :
         /\ call' = [call EXCEPT ![c] = r]
         /\ before' = [before EXCEPT ![c] = Contract!History(r)]
         /\ loc' = [loc EXCEPT ![c] =
              [next |-> FirstStep(r), fresh |-> DOMAIN r.put, fault |-> FALSE,
               level |-> IF r.op = "descendants" THEN {r.root} ELSE {},
               found |-> IF r.op = "descendants" THEN {r.root} ELSE {}]]
    /\ Goto(c, "open")
    /\ UNCHANGED <<db, closed, reply, scenario, staged, told>>

(* _session: a closed storage has none.                                    *)
Open(c) ==
    /\ pc[c] = "open"
    /\ IF closed
       THEN Break(c, "return")
       ELSE /\ Shared \/ Pooled
            /\ Goto(c, loc[c].next)
            /\ UNCHANGED <<reply, loc>>
    /\ UNCHANGED <<db, closed, call, before, scenario, left, staged, told>>

(* No connection comes back within the timeout of the pool.                *)
PoolTimeout(c) ==
    /\ pc[c] = "open"
    /\ ~closed /\ ~Shared /\ ~Pooled
    /\ Break(c, "return")
    /\ UNCHANGED <<db, closed, call, before, scenario, left, staged, told>>

-----------------------------------------------------------------------------
(* The SELECT of each operation.                                           *)

(* One statement reads all the rows: the lookups, the lists, is_revoked.   *)
Lookup(c) ==
    LET r == call[c] IN
    /\ r.op \in {"read", "is_revoked"}
    /\ Conclude(c, Contract!Ok(Contract!Rows(Visible(c), DOMAIN r.put)), "exit")
    /\ UNCHANGED loc

(* Mutant: the walk ends below the first level. *)
WalkLevel_ChildrenOnly(c) ==
    LET level == Contract!Children(Visible(c), loc[c].level)
        found == loc[c].found \cup level
    IN
    /\ call[c].op = "descendants"
    /\ UNCHANGED loc
    /\ Conclude(c, Contract!Ok({<<<<"descendant", j>>, "row">> : j \in found}), "exit")

(* children_of one level; the next level is read in a session of its own.  *)
WalkLevel(c) ==
    LET level == Contract!Children(Visible(c), loc[c].level) \ loc[c].found
        found == loc[c].found \cup level
    IN
    /\ call[c].op = "descendants"
    /\ loc' = [loc EXCEPT ![c].level = level, ![c].found = found]
    /\ IF level = {}
       THEN Conclude(c, Contract!Ok({<<<<"descendant", j>>, "row">> : j \in found}), "exit")
       ELSE Goto(c, "exit") /\ UNCHANGED reply

(* revoked_among; the others are inserted in a second session.             *)
RevokedAmong(c) ==
    LET fresh == Contract!Missing(Visible(c), DOMAIN call[c].put) IN
    /\ call[c].op = "revoke_many"
    /\ loc' = [loc EXCEPT ![c].fresh = fresh, ![c].next = "flush"]
    /\ IF fresh = {}
       THEN Conclude(c, Contract!Ok({}), "exit")
       ELSE Goto(c, "exit") /\ UNCHANGED reply

(* The subject is there, or it is inserted in the same session.            *)
FindSubject(c) ==
    LET keys == DOMAIN call[c].put IN
    /\ call[c].op = "get_or_create_subject"
    /\ IF Contract!Missing(Visible(c), keys) = {}
       THEN Conclude(c, Contract!Ok(Contract!Rows(Visible(c), keys)), "exit")
       ELSE Goto(c, "flush") /\ UNCHANGED reply
    /\ UNCHANGED loc

(* There is no such record: close_action says so, the others raise.        *)
Unknown(c) == IF call[c].op = "close_action" THEN Contract!Ok({}) ELSE Contract!Raised

(* The record is loaded; only the columns that change will be written.     *)
LoadRecord(c) ==
    LET put     == call[c].put
        changed == {k \in DOMAIN put : Visible(c)[k] # put[k]}
    IN
    /\ call[c].op \in Updates
    /\ loc' = [loc EXCEPT ![c].fresh = changed]
    /\ CASE Contract!Missing(Visible(c), DOMAIN put) # {} ->
              Conclude(c, Unknown(c), "exit")
         [] changed = {} ->
              Conclude(c, Contract!Ok(Contract!Rows(put, DOMAIN put)), "exit")
         [] OTHER -> Goto(c, "flush") /\ UNCHANGED reply

Select(c) ==
    /\ pc[c] = "select"
    /\ Lookup(c) \/ WalkLevel(c) \/ RevokedAmong(c) \/ FindSubject(c) \/ LoadRecord(c)
    /\ UNCHANGED <<db, closed, call, before, scenario, left, staged, told>>

-----------------------------------------------------------------------------
(* The flush that a commit begins with sends the INSERTs or the UPDATE.    *)

Written(c) ==
    [k \in loc[c].fresh |->
       IF call[c].op = "get_or_create_subject" THEN c ELSE call[c].put[k]]

(* Mutant: a writer waits until a row that is taken is free. *)
Locked_UntilFree(c) ==
    \E n \in Connection, k \in loc[c].fresh :
        call[c].op \in Inserts /\ Overlay(db, staged[n])[k] # None

(* Another transaction holds one of the rows.                              *)
Locked(c) ==
    \E n \in Connection \ {Conn(c)}, k \in loc[c].fresh : staged[n][k] # None

Conflict(c) ==
    call[c].op \in Inserts /\ Contract!Present(Visible(c), loc[c].fresh) # {}

Flush(c) ==
    /\ pc[c] = "flush"
    /\ ~Locked(c)
    /\ ~Conflict(c)
    /\ staged' = [staged EXCEPT ![Conn(c)] = Contract!Put(@, Written(c))]
    /\ Goto(c, "commit")
    /\ UNCHANGED <<contract, scenario, left, loc, told>>

(* Mutant: losing the race for a new subject is an error like any other. *)
OnConflict_NoRetry(c) ==
    IF call[c].op = "add_edge"
    THEN Conclude(c, Contract!Ok(Contract!Rows(call[c].put, loc[c].fresh)), "exit")
    ELSE Conclude(c, Contract!Raised, "exit")

(* IntegrityError: the edge is there already, the subject is looked up     *)
(* again, and the other operations raise.                                  *)
OnConflict(c) ==
    CASE call[c].op = "add_edge" ->
           Conclude(c, Contract!Ok(Contract!Rows(call[c].put, loc[c].fresh)), "exit")
      [] call[c].op = "get_or_create_subject" -> Goto(c, "reselect") /\ UNCHANGED reply
      [] OTHER -> Conclude(c, Contract!Raised, "exit")

FlushConflict(c) ==
    /\ pc[c] = "flush"
    /\ ~Locked(c)
    /\ Conflict(c)
    /\ OnConflict(c)
    /\ Rollback(c)
    /\ UNCHANGED <<db, closed, call, before, scenario, left, loc, told>>

(* The winner's row is the one that counts; if it is gone, raise.          *)
Reselect(c) ==
    LET keys == DOMAIN call[c].put IN
    /\ pc[c] = "reselect"
    /\ Conclude(c, IF Contract!Missing(Visible(c), keys) = {}
                   THEN Contract!Ok(Contract!Rows(Visible(c), keys))
                   ELSE Contract!Raised, "exit")
    /\ UNCHANGED <<db, closed, call, before, scenario, left, loc, staged, told>>

(* What the caller is told once its transaction is committed.              *)
Committed(c) ==
    IF call[c].op \in Updates
    THEN Contract!Rows(call[c].put, DOMAIN call[c].put)
    ELSE Contract!Rows(Written(c), loc[c].fresh)

(* Mutant: the session ends without a commit. *)
Commit_Forgotten(c) ==
    /\ pc[c] = "commit"
    /\ Conclude(c, Contract!Ok(Committed(c)), "exit")
    /\ UNCHANGED <<db, closed, call, before, scenario, left, loc, staged, told>>

(* Everything that was written through the connection becomes durable.  The*)
(* acknowledgement of a server may get lost: then commit raises.           *)
Commit(c) ==
    /\ pc[c] = "commit"
    /\ db' = Overlay(db, staged[Conn(c)])
    /\ Rollback(c)
    /\ \/ Conclude(c, Contract!Ok(Committed(c)), "exit") /\ UNCHANGED loc
       \/ ~Shared /\ Break(c, "exit")
    /\ UNCHANGED <<closed, call, before, scenario, left, told>>

(* A statement raises, the commit included; the exit rolls back.           *)
Fail(c) ==
    /\ pc[c] \in {"select", "flush", "commit", "reselect"}
    /\ Break(c, "exit")
    /\ UNCHANGED <<db, closed, call, before, scenario, left, staged, told>>

-----------------------------------------------------------------------------
(* Session.__exit__ and the pool roll back what the connection has not     *)
(* committed, and the connection is free again.  The operation goes on     *)
(* with its next session, or returns.                                      *)

Lasts(rows) == {row \in rows : row[1][1] \in Lasting /\ row[2] # None}

Return(c) ==
    /\ call' = [call EXCEPT ![c] = None]
    /\ reply' = [reply EXCEPT ![c] = Contract!NoReply]
    /\ before' = [before EXCEPT ![c] = Contract!NoHistory]
    /\ loc' = [loc EXCEPT ![c] = NoLocal]
    /\ told' = told \cup Lasts(reply[c].rows)
    /\ Goto(c, "idle")

Exit(c) ==
    /\ pc[c] = "exit"
    /\ Rollback(c)
    /\ IF reply[c] = Contract!NoReply
       THEN Goto(c, "open") /\ UNCHANGED <<call, reply, before, loc, told>>
       ELSE Return(c)
    /\ UNCHANGED <<db, closed, scenario, left>>

(* There was no session.                                                   *)
Leave(c) ==
    /\ pc[c] = "return"
    /\ Return(c)
    /\ UNCHANGED <<db, closed, scenario, left, staged>>

(* close disposes of the idle connections; a session that has one keeps it.*)
(* The static connection is closed under all of them.                      *)
Close ==
    /\ ~closed
    /\ closed' = TRUE
    /\ IF Shared
       THEN /\ staged' = [n \in Connection |-> Nothing]
            /\ pc' = [c \in Caller |-> IF InSession(c) THEN "exit" ELSE pc[c]]
            /\ reply' = [c \in Caller |-> IF InSession(c) THEN Contract!Raised ELSE reply[c]]
            /\ loc' = [c \in Caller |-> [loc[c] EXCEPT !.fault = @ \/ InSession(c)]]
       ELSE UNCHANGED <<staged, pc, reply, loc>>
    /\ UNCHANGED <<db, call, before, scenario, left, told>>

(* The process dies between any two steps and opens the database again.    *)
Restart ==
    /\ closed \/ \E c \in Caller : pc[c] # "idle"
    /\ closed' = FALSE
    /\ call' = [c \in Caller |-> None]
    /\ reply' = [c \in Caller |-> Contract!NoReply]
    /\ before' = [c \in Caller |-> Contract!NoHistory]
    /\ pc' = [c \in Caller |-> "idle"]
    /\ loc' = [c \in Caller |-> NoLocal]
    /\ staged' = [n \in Connection |-> Nothing]
    /\ UNCHANGED <<db, scenario, left, told>>

-----------------------------------------------------------------------------
Init ==
    /\ scenario \in Scenarios
    /\ db = [k \in Keys |-> IF \E v \in Values : <<k, v>> \in scenario.rows
                            THEN CHOOSE v \in Values : <<k, v>> \in scenario.rows
                            ELSE None]
    /\ closed = FALSE
    /\ call = [c \in Caller |-> None]
    /\ reply = [c \in Caller |-> Contract!NoReply]
    /\ before = [c \in Caller |-> Contract!NoHistory]
    /\ left = scenario.calls
    /\ pc = [c \in Caller |-> "idle"]
    /\ loc = [c \in Caller |-> NoLocal]
    /\ staged = [n \in Connection |-> Nothing]
    /\ told = {}

Step(c) ==
    \/ Open(c) \/ PoolTimeout(c) \/ Select(c) \/ Flush(c) \/ FlushConflict(c)
    \/ Reselect(c) \/ Commit(c) \/ Exit(c) \/ Leave(c)

Next ==
    \/ \E c \in Caller : Ask(c) \/ Step(c) \/ Fail(c)
    \/ Close
    \/ Restart

Spec == Init /\ [][Next]_vars

(* Threads keep running, and a server does not starve a waiting writer.    *)
FairSpec == Spec /\ \A c \in Caller : WF_vars(Step(c))

-----------------------------------------------------------------------------
(* Properties.                                                             *)

SqlTypeOK ==
    /\ scenario \in Scenarios
    /\ db \in [Keys -> Values \cup {None}]
    /\ closed \in BOOLEAN
    /\ call \in [Caller -> Request \cup {None}]
    /\ left \in [Caller -> Nat]
    /\ pc \in [Caller -> Label]
    /\ loc \in [Caller -> Local]
    /\ staged \in [Connection -> [Keys -> Values \cup {None}]]

(* Without a shared connection, SqlStorage is a Storage: each operation    *)
(* takes effect at one instant between its call and its return, or raises; *)
(* a subtree is revoked as a whole; concurrent first resolutions of one    *)
(* subject converge; a walk finds all that was below its root when it      *)
(* began; whoever asks a closed storage gets no answer.                    *)
ImplementsStorage == Contract!Spec

(* What a caller was told is durable: a row that an operation returned as  *)
(* written, or that a lookup returned, is committed, and stays.            *)
ToldIsDurable == \A row \in told : db[row[1]] = row[2]

(* Two callers that write the same edge, or resolve the same new subject,  *)
(* converge: neither raises, unless a statement or a connection failed.    *)
RaceIsNoError ==
    \A c \in Caller :
        /\ reply[c] = Contract!Raised
        /\ call[c].op \in {"add_edge", "get_or_create_subject"}
        => loc[c].fault

(* No operation waits for ever, for a connection or for a row.             *)
EveryCallAnswered == \A c \in Caller : pc[c] # "idle" ~> pc[c] = "idle"
=============================================================================
