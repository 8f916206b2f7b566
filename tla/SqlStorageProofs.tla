---------------------------- MODULE SqlStorageProofs ----------------------------
(* Theorems about SqlStorage with a connection for each session: what a    *)
(* caller is told is durable, races for one row are no errors, and every   *)
(* step is a step of Storage or none.  The shared connection of a SQLite   *)
(* url is excluded by a hypothesis: with it the first and the last fail.   *)
EXTENDS SqlStorage, TLAPS

-----------------------------------------------------------------------------
(* The inductive invariant.                                                *)

TypesOK ==
    /\ SqlTypeOK
    /\ DOMAIN reply = Caller /\ DOMAIN before = Caller

(* What a call is at each step of it.                                      *)
Writing(c) == pc[c] # "idle" /\ (pc[c] \in {"flush", "commit"} \/ loc[c].next = "flush")

CallOK(c) ==
    /\ pc[c] = "idle" => call[c] = None
    /\ pc[c] # "idle" =>
         /\ call[c] \in Request /\ call[c] \in scenario.asks[c]
         /\ loc[c].fresh \subseteq DOMAIN call[c].put
         /\ call[c].op \notin Updates \cup {"revoke_many"} =>
              loc[c].fresh = DOMAIN call[c].put
         /\ loc[c].next = "flush" => call[c].op \in Inserts
    /\ Writing(c) => call[c].op \in Inserts \cup Updates
    /\ pc[c] = "reselect" => call[c].op = "get_or_create_subject"
    /\ pc[c] \notin {"exit", "return"} => reply[c] = Contract!NoReply
    /\ pc[c] = "return" => reply[c] # Contract!NoReply

(* What a connection has written is what its call writes, rows nobody else *)
(* is writing; what it inserts is not there yet.                           *)
StagedOK(c) ==
    /\ pc[c] \notin {"commit", "exit"} => staged[c] = Nothing
    /\ pc[c] = "commit" =>
         /\ \A k \in Keys :
              staged[c][k] = IF k \in loc[c].fresh THEN Written(c)[k] ELSE None
         /\ call[c].op \in Inserts => \A k \in loc[c].fresh : db[k] = None
    /\ \A k \in Keys, d \in Caller \ {c} : staged[c][k] # None => staged[d][k] = None

EdgesOK == \A k \in Keys : k[1] = "edge" => db[k] \in {None, "row"}

(* A row that lasts, and is there.                                         *)
Durable(row) ==
    /\ row[1] \in Keys /\ row[1][1] \in Lasting
    /\ row[2] # None /\ db[row[1]] = row[2]

RepliesOK(c) ==
    /\ \A row \in Lasts(reply[c].rows) : Durable(row)
    /\ reply[c] = Contract!Raised /\ call[c].op \in {"add_edge", "get_or_create_subject"}
         => loc[c].fault
    /\ pc[c] = "reselect" => \A k \in DOMAIN call[c].put : db[k] # None

IInv ==
    /\ TypesOK
    /\ EdgesOK
    /\ \A c \in Caller : CallOK(c) /\ StagedOK(c) /\ RepliesOK(c)
    /\ \A row \in told : Durable(row)

(* A record is updated by one caller.                                      *)
OneUpdater ==
    \A s \in Scenarios, c \in Caller, d \in Caller : c # d =>
        \A r \in s.asks[c], q \in s.asks[d] :
            r.op \in Updates /\ q.op \in Updates => DOMAIN r.put \cap DOMAIN q.put = {}

(* Two callers may update one record: a column that the first to load it   *)
(* need not write may be written by the other before the first commits.    *)
(* The record that is then committed is neither's, and both are told that  *)
(* theirs is: all the columns are written that either found different.     *)
Mixes(c) ==
    /\ Contract!Waiting(c)
    /\ call[c].op \in Updates
    /\ Contract!Missing(db, DOMAIN call[c].put) = {}
    /\ \E columns \in SUBSET DOMAIN call[c].put :
         db' = Contract!Put(db, Contract!Only(call[c].put, columns))
    /\ reply' \in {[reply EXCEPT ![c] = answer] : answer \in
          {Contract!Ok(Contract!Rows(call[c].put, DOMAIN call[c].put)), Contract!Raised}}
    /\ UNCHANGED <<closed, call, before>>

(* What the refinement needs besides.  A storage is closed once for all    *)
(* until the restart; what a revocation will not insert is there; the      *)
(* columns an update will not write are as they should be; a walk misses   *)
(* none of the edges there were when it began.                             *)
ClosedOK(c) ==
    /\ before[c].closed => closed
    /\ InSession(c) => ~before[c].closed

RevokedOK(c) ==
    call[c].op = "revoke_many" /\ Writing(c) =>
        \A k \in DOMAIN call[c].put \ loc[c].fresh : db[k] # None

UpdateOK(c) ==
    call[c].op \in Updates /\ pc[c] \in {"flush", "commit"} =>
        \A k \in DOMAIN call[c].put :
            /\ db[k] # None
            /\ OneUpdater /\ k \notin loc[c].fresh => db[k] = call[c].put[k]

(* The edges there were when it began account for all that was below.      *)
Accounts(c, edges) ==
    /\ \A p, j \in Jti : <<p, j>> \in edges => db[<<"edge", p, j>>] # None
    /\ \A p \in loc[c].found \ loc[c].level, j \in Jti : <<p, j>> \in edges => j \in loc[c].found
    /\ \A found \in SUBSET Jti :
         /\ call[c].root \in found
         /\ \A p \in found, j \in Jti : <<p, j>> \in edges => j \in found
         => before[c].reach \subseteq found

WalkOK(c) ==
    call[c] # None /\ call[c].op = "descendants" =>
        /\ call[c].root \in loc[c].found
        /\ loc[c].level \subseteq loc[c].found
        /\ loc[c].found \subseteq Contract!Descendants(db, call[c].root)
        /\ pc[c] \notin {"exit", "return"} \/ reply[c] = Contract!NoReply =>
             \E edges \in SUBSET (Jti \X Jti) : Accounts(c, edges)

Serving(c) == ClosedOK(c) /\ (call[c] # None => RevokedOK(c) /\ UpdateOK(c)) /\ WalkOK(c)
RInv == IInv /\ \A c \in Caller : Serving(c)

-----------------------------------------------------------------------------
(* Facts about the constants and the operators.                            *)

LEMMA Separate ==
    ASSUME ~Shared
    PROVE  Connection = Caller /\ \A c \in Caller : Conn(c) = c
BY DEF Connection, Conn

LEMMA Asked ==
    ASSUME NEW r \in Request
    PROVE  /\ r.op \in Contract!Op /\ DOMAIN r.put \subseteq Keys
           /\ \A k \in DOMAIN r.put : r.put[k] \in Values
           /\ r.op = "descendants" => r.root \in Jti
           /\ Tables(r) /\ r # None
BY SqlAssumption DEF Contract!WellFormed

LEMMA Constants ==
    /\ None \notin Values /\ Caller \subseteq Values /\ "row" \in Values
    /\ \A p, j \in Jti : <<"edge", p, j>> \in Keys
BY SqlAssumption DEF Contract!WellFormed

LEMMA Kinds ==
    /\ Updates \cap Inserts = {} /\ Inserts \subseteq Contract!Op /\ Updates \subseteq Contract!Op
    /\ {"read", "is_revoked", "descendants"} \cap (Inserts \cup Updates) = {}
    /\ Contract!Op = Inserts \cup Updates \cup {"read", "is_revoked", "descendants"}
    /\ {"add_edge", "get_or_create_subject", "revoke_many", "put_token", "put_action",
        "append_audit_batch", "put_approval", "put_review"} = Inserts
BY DEF Updates, Inserts, Contract!Op

LEMMA NothingSeen ==
    ASSUME IInv, ~Shared, NEW c \in Caller, staged[c] = Nothing
    PROVE  Visible(c) = db
<1>1. db \in [Keys -> Values \cup {None}] /\ Conn(c) = c
    BY Separate DEF IInv, TypesOK, SqlTypeOK
<1>2. \A k \in Keys : Nothing[k] = None
    BY DEF Nothing
<1>3. Visible(c) = [k \in Keys |-> db[k]]
    BY <1>1, <1>2 DEF Visible, Overlay
<1> QED BY <1>1, <1>3

LEMMA Replies ==
    /\ \A rows : Contract!Ok(rows) # Contract!Raised /\ Contract!Ok(rows) # Contract!NoReply
    /\ Contract!Raised # Contract!NoReply
    /\ \A rows : Contract!Ok(rows).rows = rows
    /\ Contract!Raised.rows = {} /\ Contract!NoReply.rows = {}
<1>1. \A rows : Contract!Ok(rows).status = "ok" /\ Contract!Ok(rows).rows = rows
    BY DEF Contract!Ok
<1>2. Contract!Raised.status = "error" /\ Contract!Raised.rows = {}
    BY DEF Contract!Raised
<1>3. Contract!NoReply.status = "none" /\ Contract!NoReply.rows = {}
    BY DEF Contract!NoReply
<1> QED BY <1>1, <1>2, <1>3

(* What is read off the committed rows is durable.                         *)
LEMMA ReadLasts ==
    ASSUME NEW keys \in SUBSET Keys
    PROVE  \A row \in Lasts(Contract!Rows(db, keys)) : Durable(row)
<1> SUFFICES ASSUME NEW row \in Lasts(Contract!Rows(db, keys)) PROVE Durable(row)
    OBVIOUS
<1>1. PICK k \in keys : row = <<k, db[k]>>
    BY DEF Lasts, Contract!Rows
<1>2. row[1] = k /\ row[2] = db[k] /\ row[1][1] \in Lasting /\ row[2] # None
    BY <1>1 DEF Lasts
<1> QED BY <1>2 DEF Durable

-----------------------------------------------------------------------------
(* Frames.                                                                 *)

SameThread(d) ==
    /\ pc'[d] = pc[d] /\ call'[d] = call[d] /\ reply'[d] = reply[d]
    /\ loc'[d] = loc[d] /\ before'[d] = before[d] /\ staged'[d] = staged[d]

(* Committed rows stay, and those that last stay as they are.              *)
Grown ==
    \A k \in Keys : db[k] # None =>
        db'[k] # None /\ (k[1] \in Lasting => db'[k] = db[k])

Takes(c) == Ask(c) \/ Step(c) \/ Fail(c)
Quiet(c) == Takes(c) /\ ~Flush(c) /\ ~Commit(c)

LEMMA OthersStay ==
    ASSUME IInv, ~Shared, NEW c \in Caller, Takes(c), NEW d \in Caller, d # c
    PROVE  SameThread(d)
<1>1. /\ DOMAIN pc = Caller /\ DOMAIN call = Caller /\ DOMAIN reply = Caller
      /\ DOMAIN loc = Caller /\ DOMAIN before = Caller /\ DOMAIN staged = Caller
      /\ Conn(c) = c
    BY Separate DEF IInv, TypesOK, SqlTypeOK
<1>2. CASE Ask(c)
    BY <1>1, <1>2 DEF Ask, Goto, SameThread
<1>3. CASE Open(c) \/ PoolTimeout(c) \/ Fail(c)
    BY <1>1, <1>3 DEF Open, PoolTimeout, Fail, Break, Conclude, Goto, SameThread
<1>4. CASE Select(c)
    BY <1>1, <1>4 DEF Select, Lookup, WalkLevel, RevokedAmong, FindSubject, LoadRecord,
       Conclude, Goto, SameThread
<1>5. CASE Flush(c) \/ FlushConflict(c)
    BY <1>1, <1>5 DEF Flush, FlushConflict, OnConflict, Rollback, Conclude, Goto, SameThread,
       contract
<1>6. CASE Reselect(c) \/ Commit(c)
    BY <1>1, <1>6 DEF Reselect, Commit, Rollback, Break, Conclude, Goto, SameThread
<1>7. CASE Exit(c) \/ Leave(c)
    BY <1>1, <1>7 DEF Exit, Leave, Return, Rollback, Goto, SameThread
<1> QED BY <1>2, <1>3, <1>4, <1>5, <1>6, <1>7 DEF Takes, Step

LEMMA QuietKeeps ==
    ASSUME IInv, ~Shared, NEW c \in Caller, Quiet(c)
    PROVE  /\ UNCHANGED <<db, scenario>>
           /\ staged' = staged \/ staged' = [staged EXCEPT ![c] = Nothing]
<1>1. Conn(c) = c
    BY Separate
<1> QED BY <1>1 DEF Quiet, Takes, Step, Ask, Open, PoolTimeout, Fail, Select, FlushConflict,
       Reselect, Exit, Leave, Rollback, Break

LEMMA QuietOthers ==
    ASSUME IInv, ~Shared, NEW c \in Caller, Quiet(c), NEW d \in Caller, d # c
    PROVE  CallOK(d)' /\ StagedOK(d)' /\ RepliesOK(d)'
<1>1. SameThread(d) /\ UNCHANGED <<db, scenario>>
    BY OthersStay, QuietKeeps DEF Quiet
<1>2. CallOK(d) /\ StagedOK(d) /\ RepliesOK(d)
    BY DEF IInv
<1>3. CallOK(d)'
    BY <1>1, <1>2 DEF CallOK, Writing, SameThread
<1>4. StagedOK(d)'
    <2>1. \A k \in Keys, e \in Caller \ {d} : staged'[d][k] # None => staged'[e][k] = None
        <3> SUFFICES ASSUME NEW k \in Keys, NEW e \in Caller \ {d}, staged'[d][k] # None
                     PROVE  staged'[e][k] = None
            OBVIOUS
        <3>1. staged[e][k] = None
            BY <1>1, <1>2 DEF StagedOK, SameThread
        <3>2. DOMAIN staged = Caller
            BY Separate DEF IInv, TypesOK, SqlTypeOK
        <3>3. staged'[e] \in {staged[e], Nothing}
            BY <3>2, QuietKeeps
        <3> QED BY <3>1, <3>3 DEF Nothing
    <2> QED BY <1>1, <1>2, <2>1 DEF StagedOK, SameThread, Written
<1>5. RepliesOK(d)'
    BY <1>1, <1>2 DEF RepliesOK, SameThread, Durable
<1> QED BY <1>3, <1>4, <1>5

(* The staged rows of the caller itself, when it drops or keeps them.      *)
LEMMA QuietStaged ==
    ASSUME IInv, ~Shared, NEW c \in Caller, Quiet(c),
           pc'[c] # "commit",
           (pc'[c] = "exit" /\ UNCHANGED staged) \/ staged'[c] = Nothing
    PROVE  StagedOK(c)'
<1>1. StagedOK(c) /\ DOMAIN staged = Caller
    BY Separate DEF IInv, TypesOK, SqlTypeOK
<1>2. \A k \in Keys, e \in Caller \ {c} : staged'[c][k] # None => staged'[e][k] = None
    <2>1. CASE UNCHANGED staged
        BY <1>1, <2>1 DEF StagedOK
    <2>2. CASE staged'[c] = Nothing
        BY <2>2 DEF Nothing
    <2> QED BY <2>1, <2>2
<1> QED BY <1>1, <1>2 DEF StagedOK

LEMMA ScenarioOK ==
    ASSUME IInv
    PROVE  /\ scenario \in Scenarios /\ scenario \in Scenario
           /\ \A c \in Caller : scenario.asks[c] \subseteq Request
BY SqlAssumption DEF IInv, TypesOK, SqlTypeOK, Scenario

LEMMA AskInv ==
    ASSUME IInv, ~Shared, NEW c \in Caller, Ask(c)
    PROVE  TypesOK' /\ CallOK(c)' /\ StagedOK(c)' /\ RepliesOK(c)' /\ told' = told
<1>1. PICK r \in scenario.asks[c] :
        /\ call' = [call EXCEPT ![c] = r]
        /\ before' = [before EXCEPT ![c] = Contract!History(r)]
        /\ loc' = [loc EXCEPT ![c] =
              [next |-> FirstStep(r), fresh |-> DOMAIN r.put, fault |-> FALSE,
               level |-> IF r.op = "descendants" THEN {r.root} ELSE {},
               found |-> IF r.op = "descendants" THEN {r.root} ELSE {}]]
    BY DEF Ask
<1>2. r \in Request
    BY ScenarioOK
<1>3. /\ r.op \in Contract!Op /\ DOMAIN r.put \subseteq Keys /\ r # None
      /\ r.op = "descendants" => r.root \in Jti
    BY <1>2, Asked
<1>4. FirstStep(r) \in {"select", "flush"} /\ (FirstStep(r) = "flush" => r.op \in Inserts)
    BY DEF FirstStep
<1>5. /\ pc[c] = "idle" /\ pc' = [pc EXCEPT ![c] = "open"]
      /\ left[c] > 0 /\ left' = [left EXCEPT ![c] = left[c] - 1]
      /\ UNCHANGED <<db, closed, reply, scenario, staged, told>>
    BY DEF Ask, Goto
<1>6. TypesOK /\ CallOK(c) /\ StagedOK(c) /\ RepliesOK(c)
    BY DEF IInv
<1>7. TypesOK'
    <2>1. left' \in [Caller -> Nat]
        <3>1. left \in [Caller -> Nat]
            BY <1>6 DEF TypesOK, SqlTypeOK
        <3>2. left[c] - 1 \in Nat
            BY <3>1, <1>5
        <3> QED BY <3>1, <3>2, <1>5
    <2>2. loc' \in [Caller -> Local]
        BY <1>1, <1>3, <1>4, <1>6 DEF TypesOK, SqlTypeOK, Local
    <2>3. pc' \in [Caller -> Label] /\ call' \in [Caller -> Request \cup {None}]
        BY <1>1, <1>2, <1>5, <1>6 DEF TypesOK, SqlTypeOK, Label
    <2> QED BY <1>1, <1>5, <1>6, <2>1, <2>2, <2>3 DEF TypesOK, SqlTypeOK
<1>8. /\ pc'[c] = "open" /\ call'[c] = r /\ loc'[c].fresh = DOMAIN r.put
      /\ loc'[c].next = FirstStep(r)
    BY <1>1, <1>5, <1>6 DEF TypesOK, SqlTypeOK
<1>9. CallOK(c)'
    BY <1>2, <1>4, <1>5, <1>6, <1>8 DEF CallOK, Writing
<1>10. StagedOK(c)'
    BY <1>5, <1>6, <1>8 DEF StagedOK
<1>11. RepliesOK(c)'
    BY <1>5, <1>6, <1>8, Replies DEF RepliesOK, CallOK, Lasts
<1> QED BY <1>5, <1>7, <1>9, <1>10, <1>11

(* A statement or a connection fails.                                      *)
LEMMA BreakInv ==
    ASSUME IInv, ~Shared, NEW c \in Caller, pc[c] \notin {"idle", "exit", "return"},
           NEW l \in {"exit", "return"}, Break(c, l),
           UNCHANGED <<db, closed, call, before, scenario, left, staged, told>>,
           staged[c] = Nothing \/ l = "exit"
    PROVE  TypesOK' /\ CallOK(c)' /\ StagedOK(c)' /\ RepliesOK(c)'
<1>1. TypesOK /\ CallOK(c) /\ StagedOK(c) /\ RepliesOK(c)
    BY DEF IInv
<1>2. reply' = [reply EXCEPT ![c] = Contract!Raised] /\ pc' = [pc EXCEPT ![c] = l]
    BY DEF Break, Conclude, Goto
<1>3. loc' = [loc EXCEPT ![c] = [loc[c] EXCEPT !.fault = TRUE]]
    BY DEF Break
<1>4. loc[c] \in Local
    BY <1>1 DEF TypesOK, SqlTypeOK
<1>5. /\ loc'[c].fault = TRUE /\ loc'[c].fresh = loc[c].fresh /\ loc'[c] \in Local
      /\ loc'[c].next = loc[c].next
      /\ pc'[c] = l /\ reply'[c] = Contract!Raised
    BY <1>1, <1>2, <1>3, <1>4 DEF TypesOK, SqlTypeOK, Local
<1>6. TypesOK'
    <2>1. loc' \in [Caller -> Local] /\ pc' \in [Caller -> Label]
        BY <1>1, <1>2, <1>3, <1>5 DEF TypesOK, SqlTypeOK, Label
    <2> QED BY <1>1, <1>2, <2>1 DEF TypesOK, SqlTypeOK
<1>7. CallOK(c)'
    BY <1>1, <1>5, Replies DEF CallOK, Writing
<1>8. StagedOK(c)'
    BY <1>1, <1>5 DEF StagedOK
<1>9. RepliesOK(c)'
    BY <1>1, <1>5, Replies DEF RepliesOK, Lasts
<1> QED BY <1>6, <1>7, <1>8, <1>9

-----------------------------------------------------------------------------
(* The two ways a call moves: with its answer, and without it.             *)

(* What the locals of a call may become.                                   *)
Moves(c, l) ==
    /\ l \in Local /\ loc' = [loc EXCEPT ![c] = l]
    /\ l.fresh \subseteq DOMAIN call[c].put
    /\ call[c].op \notin Updates \cup {"revoke_many"} => l.fresh = DOMAIN call[c].put
    /\ l.next = "flush" => call[c].op \in Inserts

LEMMA Stays ==
    ASSUME IInv, NEW c \in Caller, pc[c] # "idle", UNCHANGED loc
    PROVE  Moves(c, loc[c])
<1>1. loc \in [Caller -> Local] /\ CallOK(c)
    BY DEF IInv, TypesOK, SqlTypeOK
<1>2. loc' = [loc EXCEPT ![c] = loc[c]]
    BY <1>1
<1> QED BY <1>1, <1>2 DEF CallOK, Moves, Writing

LEMMA AnswerInv ==
    ASSUME IInv, ~Shared, NEW c \in Caller, pc[c] \notin {"idle", "exit", "return"},
           NEW l, Moves(c, l), NEW answer, answer # Contract!NoReply,
           Conclude(c, answer, "exit"),
           \A row \in Lasts(answer.rows) : Durable(row),
           answer = Contract!Raised => call[c].op \notin {"add_edge", "get_or_create_subject"},
           UNCHANGED <<db, closed, call, before, scenario, left, told>>,
           staged' = staged \/ staged' = [staged EXCEPT ![c] = Nothing]
    PROVE  TypesOK' /\ CallOK(c)' /\ RepliesOK(c)' /\ pc'[c] = "exit"
<1>1. TypesOK /\ CallOK(c) /\ RepliesOK(c)
    BY DEF IInv
<1>2. /\ reply' = [reply EXCEPT ![c] = answer] /\ pc' = [pc EXCEPT ![c] = "exit"]
      /\ l \in Local /\ loc' = [loc EXCEPT ![c] = l]
    BY DEF Conclude, Goto, Moves
<1>3. /\ loc'[c] = l /\ pc'[c] = "exit" /\ reply'[c] = answer
      /\ loc' \in [Caller -> Local] /\ pc' \in [Caller -> Label]
    BY <1>1, <1>2 DEF TypesOK, SqlTypeOK, Label
<1>4. staged' \in [Connection -> [Keys -> Values \cup {None}]]
    BY <1>1, Separate DEF TypesOK, SqlTypeOK, Nothing
<1>5. TypesOK'
    BY <1>1, <1>2, <1>3, <1>4 DEF TypesOK, SqlTypeOK
<1>6. CallOK(c)'
    BY <1>1, <1>3 DEF CallOK, Writing, Moves
<1>7. RepliesOK(c)'
    BY <1>1, <1>3 DEF RepliesOK, Durable
<1> QED BY <1>3, <1>5, <1>6, <1>7

LEMMA GoOnInv ==
    ASSUME IInv, ~Shared, NEW c \in Caller, pc[c] # "idle", pc[c] # "return",
           reply[c] = Contract!NoReply,
           NEW l, Moves(c, l), NEW next \in {"open", "select", "flush", "reselect", "exit"},
           Goto(c, next), UNCHANGED reply,
           next = "flush" => call[c].op \in Inserts \cup Updates,
           next = "reselect" => /\ call[c].op = "get_or_create_subject"
                                /\ \A k \in DOMAIN call[c].put : db[k] # None,
           UNCHANGED <<db, closed, call, before, scenario, left, told>>,
           staged' = staged \/ staged' = [staged EXCEPT ![c] = Nothing]
    PROVE  TypesOK' /\ CallOK(c)' /\ RepliesOK(c)' /\ pc'[c] = next
<1>1. TypesOK /\ CallOK(c) /\ RepliesOK(c)
    BY DEF IInv
<1>2. pc' = [pc EXCEPT ![c] = next] /\ l \in Local /\ loc' = [loc EXCEPT ![c] = l]
    BY DEF Goto, Moves
<1>3. /\ loc'[c] = l /\ pc'[c] = next
      /\ loc' \in [Caller -> Local] /\ pc' \in [Caller -> Label]
    BY <1>1, <1>2 DEF TypesOK, SqlTypeOK, Label
<1>4. staged' \in [Connection -> [Keys -> Values \cup {None}]]
    BY <1>1, Separate DEF TypesOK, SqlTypeOK, Nothing
<1>5. TypesOK'
    BY <1>1, <1>3, <1>4 DEF TypesOK, SqlTypeOK
<1>6. CallOK(c)'
    BY <1>1, <1>3 DEF CallOK, Writing, Moves
<1>7. RepliesOK(c)'
    BY <1>1, <1>3, Replies DEF RepliesOK, Lasts
<1> QED BY <1>3, <1>5, <1>6, <1>7

-----------------------------------------------------------------------------
(* The steps that write no row.                                            *)

Own(c) == TypesOK /\ CallOK(c) /\ StagedOK(c) /\ RepliesOK(c)

LEMMA OpenInv ==
    ASSUME IInv, ~Shared, NEW c \in Caller, Open(c) \/ PoolTimeout(c)
    PROVE  Own(c)'
<1>1. pc[c] = "open" /\ CallOK(c) /\ StagedOK(c)
    BY DEF Open, PoolTimeout, IInv
<1>2. staged[c] = Nothing /\ reply[c] = Contract!NoReply
    BY <1>1 DEF CallOK, StagedOK
<1>3. UNCHANGED <<db, closed, call, before, scenario, left, staged, told>>
    BY DEF Open, PoolTimeout
<1>4. CASE Break(c, "return")
    BY <1>1, <1>2, <1>3, <1>4, BreakInv DEF Own
<1>5. CASE Goto(c, loc[c].next) /\ UNCHANGED <<reply, loc>>
    <2>1. loc[c].next \in {"select", "flush"}
        BY DEF IInv, TypesOK, SqlTypeOK, Local
    <2>2. Moves(c, loc[c])
        BY <1>1, <1>5, Stays
    <2>3. loc[c].next = "flush" => call[c].op \in Inserts
        BY <1>1 DEF CallOK, Writing
    <2>4. TypesOK' /\ CallOK(c)' /\ RepliesOK(c)' /\ pc'[c] = loc[c].next
        <3> DEFINE l == loc[c]  next == loc[c].next
        <3>1. next \in {"open", "select", "flush", "reselect", "exit"} /\ Moves(c, l)
            BY <2>1, <2>2
        <3>2. next = "flush" => call[c].op \in Inserts \cup Updates
            BY <2>1, <2>3
        <3>3. next # "reselect" /\ Goto(c, next)
            BY <1>5, <2>1
        <3> HIDE DEF l, next
        <3>4. TypesOK' /\ CallOK(c)' /\ RepliesOK(c)' /\ pc'[c] = next
            BY <1>1, <1>2, <1>3, <1>5, <3>1, <3>2, <3>3, GoOnInv
        <3> QED BY <3>4 DEF next
    <2>5. StagedOK(c)'
        <3>1. \A k \in Keys : staged'[c][k] = None
            BY <1>2, <1>3 DEF Nothing
        <3> QED BY <1>2, <1>3, <2>1, <2>4, <3>1 DEF StagedOK
    <2> QED BY <2>4, <2>5 DEF Own
<1> QED BY <1>4, <1>5 DEF Open, PoolTimeout

LEMMA LookupInv ==
    ASSUME IInv, ~Shared, NEW c \in Caller, pc[c] = "select", Lookup(c),
           UNCHANGED <<db, closed, call, before, scenario, left, staged, told>>
    PROVE  Own(c)'
<1> DEFINE keys == DOMAIN call[c].put
           answer == Contract!Ok(Contract!Rows(Visible(c), keys))
<1>1. CallOK(c) /\ StagedOK(c)
    BY DEF IInv
<1>2. call[c] \in Request /\ keys \subseteq Keys /\ staged[c] = Nothing
    BY <1>1, Asked DEF CallOK, StagedOK
<1>3. Visible(c) = db
    BY <1>2, NothingSeen
<1>4. \A row \in Lasts(answer.rows) : Durable(row)
    BY <1>2, <1>3, ReadLasts, Replies
<1>5. Conclude(c, answer, "exit") /\ UNCHANGED loc
    BY DEF Lookup
<1>6. Moves(c, loc[c])
    BY <1>5, Stays
<1>7. answer # Contract!NoReply /\ answer # Contract!Raised
    BY Replies
<1> HIDE DEF answer, keys
<1>8. TypesOK' /\ CallOK(c)' /\ RepliesOK(c)' /\ pc'[c] = "exit"
    BY <1>4, <1>5, <1>6, <1>7, AnswerInv
<1>9. StagedOK(c)'
    BY <1>2, <1>8 DEF StagedOK, Nothing
<1> QED BY <1>8, <1>9 DEF Own

LEMMA SelectSays ==
    ASSUME IInv, ~Shared, NEW c \in Caller, pc[c] = "select"
    PROVE  /\ call[c] \in Request /\ DOMAIN call[c].put \subseteq Keys
           /\ staged[c] = Nothing /\ Visible(c) = db /\ reply[c] = Contract!NoReply
           /\ loc[c] \in Local /\ loc[c].fresh \subseteq DOMAIN call[c].put
           /\ call[c].op \notin Updates \cup {"revoke_many"} =>
                loc[c].fresh = DOMAIN call[c].put
           /\ loc[c].next = "flush" => call[c].op \in Inserts
<1>1. CallOK(c) /\ StagedOK(c) /\ TypesOK
    BY DEF IInv
<1>2. call[c] \in Request /\ staged[c] = Nothing
    BY <1>1 DEF CallOK, StagedOK
<1>3. Visible(c) = db
    BY <1>2, NothingSeen
<1> QED BY <1>1, <1>2, <1>3, Asked DEF CallOK, TypesOK, SqlTypeOK, Writing

LEMMA StillNothing ==
    ASSUME NEW c \in Caller, staged'[c] = Nothing, pc'[c] # "commit"
    PROVE  StagedOK(c)'
BY DEF StagedOK, Nothing

Found(found) == Contract!Ok({<<<<"descendant", j>>, "row">> : j \in found})

LEMMA WalkSays ==
    ASSUME NEW c \in Caller, WalkLevel(c), loc[c] \in Local
    PROVE  \E level, found, l :
             /\ level = Contract!Children(Visible(c), loc[c].level) \ loc[c].found
             /\ found = loc[c].found \cup level
             /\ l = [loc[c] EXCEPT !.level = level, !.found = found]
             /\ loc' = [loc EXCEPT ![c] = l]
             /\ call[c].op = "descendants"
             /\ \/ level = {} /\ Conclude(c, Found(found), "exit")
                \/ level # {} /\ Goto(c, "exit") /\ UNCHANGED reply
             /\ l \in Local /\ l.fresh = loc[c].fresh /\ l.next = loc[c].next
             /\ l.level = level /\ l.found = found
<1> DEFINE level == Contract!Children(Visible(c), loc[c].level) \ loc[c].found
           found == loc[c].found \cup level
           l == [loc[c] EXCEPT !.level = level, !.found = found]
<1>1. level \subseteq Jti /\ found \subseteq Jti
    BY DEF Contract!Children, Local
<1>2. loc' = [loc EXCEPT ![c] = l] /\ call[c].op = "descendants"
    BY DEF WalkLevel
<1>3. \/ level = {} /\ Conclude(c, Found(found), "exit")
      \/ level # {} /\ Goto(c, "exit") /\ UNCHANGED reply
    BY DEF WalkLevel, Found
<1>4. /\ l \in Local /\ l.fresh = loc[c].fresh /\ l.next = loc[c].next
      /\ l.level = level /\ l.found = found
    <2> HIDE DEF level, found
    <2> QED BY <1>1 DEF Local
<1> HIDE DEF l
<1>5. level = Contract!Children(Visible(c), loc[c].level) \ loc[c].found
    OBVIOUS
<1>6. found = loc[c].found \cup level
    OBVIOUS
<1>7. l = [loc[c] EXCEPT !.level = level, !.found = found]
    BY DEF l
<1> HIDE DEF level, found
<1> QED BY <1>2, <1>3, <1>4, <1>5, <1>6, <1>7

LEMMA FoundReply ==
    ASSUME NEW found
    PROVE  /\ Found(found) # Contract!NoReply /\ Found(found) # Contract!Raised
           /\ \A row \in Lasts(Found(found).rows) : Durable(row)
BY Replies DEF Found, Lasts, Lasting

LEMMA WalkLevelInv ==
    ASSUME IInv, ~Shared, NEW c \in Caller, pc[c] = "select", WalkLevel(c),
           UNCHANGED <<db, closed, call, before, scenario, left, staged, told>>
    PROVE  Own(c)'
<1>1. /\ loc[c] \in Local /\ staged[c] = Nothing /\ reply[c] = Contract!NoReply
      /\ loc[c].fresh \subseteq DOMAIN call[c].put
      /\ call[c].op \notin Updates \cup {"revoke_many"} =>
                loc[c].fresh = DOMAIN call[c].put
      /\ loc[c].next = "flush" => call[c].op \in Inserts
    BY SelectSays
<1>2. PICK level, found, l :
             /\ loc' = [loc EXCEPT ![c] = l]
             /\ call[c].op = "descendants"
             /\ \/ level = {} /\ Conclude(c, Found(found), "exit")
                \/ level # {} /\ Goto(c, "exit") /\ UNCHANGED reply
             /\ l \in Local /\ l.fresh = loc[c].fresh /\ l.next = loc[c].next
    BY <1>1, WalkSays
<1>3. Moves(c, l)
    BY <1>1, <1>2 DEF Moves
<1>4. TypesOK' /\ CallOK(c)' /\ RepliesOK(c)' /\ pc'[c] = "exit"
    <2>1. CASE Conclude(c, Found(found), "exit")
        BY <1>2, <1>3, <2>1, AnswerInv, FoundReply
    <2>2. CASE Goto(c, "exit") /\ UNCHANGED reply
        BY <1>1, <1>3, <2>2, GoOnInv
    <2> QED BY <1>2, <2>1, <2>2
<1> QED BY <1>1, <1>4, StillNothing DEF Own

LEMMA RevokedAmongSays ==
    ASSUME NEW c \in Caller, RevokedAmong(c), loc[c] \in Local, call[c] \in Request
    PROVE  \E fresh, l :
             /\ fresh = Contract!Missing(Visible(c), DOMAIN call[c].put)
             /\ loc' = [loc EXCEPT ![c] = l]
             /\ call[c].op = "revoke_many"
             /\ \/ fresh = {} /\ Conclude(c, Contract!Ok({}), "exit")
                \/ fresh # {} /\ Goto(c, "exit") /\ UNCHANGED reply
             /\ l \in Local /\ l.fresh = fresh /\ l.next = "flush"
             /\ l.level = loc[c].level /\ l.found = loc[c].found
<1> DEFINE fresh == Contract!Missing(Visible(c), DOMAIN call[c].put)
           l == [loc[c] EXCEPT !.fresh = fresh, !.next = "flush"]
<1>1. fresh \subseteq Keys
    BY Asked DEF Contract!Missing
<1>2. loc' = [loc EXCEPT ![c] = l] /\ call[c].op = "revoke_many"
    BY DEF RevokedAmong
<1>3. \/ fresh = {} /\ Conclude(c, Contract!Ok({}), "exit")
      \/ fresh # {} /\ Goto(c, "exit") /\ UNCHANGED reply
    BY DEF RevokedAmong
<1>4. fresh = Contract!Missing(Visible(c), DOMAIN call[c].put)
    OBVIOUS
<1> HIDE DEF fresh
<1>5. /\ l \in Local /\ l.fresh = fresh /\ l.next = "flush"
      /\ l.level = loc[c].level /\ l.found = loc[c].found
    BY <1>1 DEF Local
<1> HIDE DEF l
<1> QED BY <1>2, <1>3, <1>4, <1>5

LEMMA RevokedAmongInv ==
    ASSUME IInv, ~Shared, NEW c \in Caller, pc[c] = "select", RevokedAmong(c),
           UNCHANGED <<db, closed, call, before, scenario, left, staged, told>>
    PROVE  Own(c)'
<1>1. /\ loc[c] \in Local /\ staged[c] = Nothing /\ reply[c] = Contract!NoReply
      /\ call[c] \in Request
    BY SelectSays
<1>2. PICK fresh, l :
             /\ fresh = Contract!Missing(Visible(c), DOMAIN call[c].put)
             /\ loc' = [loc EXCEPT ![c] = l]
             /\ call[c].op = "revoke_many"
             /\ \/ fresh = {} /\ Conclude(c, Contract!Ok({}), "exit")
                \/ fresh # {} /\ Goto(c, "exit") /\ UNCHANGED reply
             /\ l \in Local /\ l.fresh = fresh /\ l.next = "flush"
    BY <1>1, RevokedAmongSays
<1>3. Moves(c, l)
    BY <1>1, <1>2, Kinds DEF Moves, Contract!Missing
<1>4. TypesOK' /\ CallOK(c)' /\ RepliesOK(c)' /\ pc'[c] = "exit"
    <2>1. CASE Conclude(c, Contract!Ok({}), "exit")
        <3>1. \A row \in Lasts(Contract!Ok({}).rows) : Durable(row)
            BY Replies DEF Lasts
        <3> QED BY <1>2, <1>3, <2>1, <3>1, AnswerInv, Replies
    <2>2. CASE Goto(c, "exit") /\ UNCHANGED reply
        BY <1>1, <1>3, <2>2, GoOnInv
    <2> QED BY <1>2, <2>1, <2>2
<1> QED BY <1>1, <1>4, StillNothing DEF Own

LEMMA FindSubjectInv ==
    ASSUME IInv, ~Shared, NEW c \in Caller, pc[c] = "select", FindSubject(c),
           UNCHANGED <<db, closed, call, before, scenario, left, staged, told>>
    PROVE  Own(c)'
<1> DEFINE keys == DOMAIN call[c].put
           answer == Contract!Ok(Contract!Rows(Visible(c), keys))
<1>1. /\ keys \subseteq Keys /\ staged[c] = Nothing /\ Visible(c) = db
      /\ reply[c] = Contract!NoReply
    BY SelectSays
<1>2. call[c].op = "get_or_create_subject" /\ UNCHANGED loc
    BY DEF FindSubject
<1>3. Moves(c, loc[c])
    BY <1>2, Stays
<1>4. CASE Conclude(c, answer, "exit")
    <2>1. \A row \in Lasts(answer.rows) : Durable(row)
        BY <1>1, ReadLasts, Replies
    <2>2. answer # Contract!NoReply /\ answer # Contract!Raised
        BY Replies
    <2> HIDE DEF answer
    <2>3. TypesOK' /\ CallOK(c)' /\ RepliesOK(c)' /\ pc'[c] = "exit"
        BY <1>3, <1>4, <2>1, <2>2, AnswerInv
    <2> QED BY <1>1, <2>3, StillNothing DEF Own
<1>5. CASE Goto(c, "flush") /\ UNCHANGED reply
    <2>1. TypesOK' /\ CallOK(c)' /\ RepliesOK(c)' /\ pc'[c] = "flush"
        BY <1>1, <1>2, <1>3, <1>5, GoOnInv, Kinds
    <2> QED BY <1>1, <2>1, StillNothing DEF Own
<1> QED BY <1>4, <1>5 DEF FindSubject

LEMMA LoadRecordSays ==
    ASSUME NEW c \in Caller, LoadRecord(c), loc[c] \in Local, call[c] \in Request
    PROVE  LET put == call[c].put IN
           \E changed, l :
             /\ changed = {k \in DOMAIN put : Visible(c)[k] # put[k]}
             /\ call[c].op \in Updates
             /\ loc' = [loc EXCEPT ![c] = l]
             /\ l \in Local /\ l.fresh = changed /\ l.next = loc[c].next
             /\ l.level = loc[c].level /\ l.found = loc[c].found
             /\ \/ /\ Contract!Missing(Visible(c), DOMAIN put) # {}
                   /\ Conclude(c, Unknown(c), "exit")
                \/ /\ Contract!Missing(Visible(c), DOMAIN put) = {} /\ changed = {}
                   /\ Conclude(c, Contract!Ok(Contract!Rows(put, DOMAIN put)), "exit")
                \/ /\ Contract!Missing(Visible(c), DOMAIN put) = {} /\ changed # {}
                   /\ Goto(c, "flush") /\ UNCHANGED reply
<1> DEFINE put == call[c].put
           changed == {k \in DOMAIN put : Visible(c)[k] # put[k]}
           l == [loc[c] EXCEPT !.fresh = changed]
<1>1. changed \subseteq Keys
    BY Asked
<1>2. loc' = [loc EXCEPT ![c] = l] /\ call[c].op \in Updates
    BY DEF LoadRecord
<1>3. Contract!Missing(Visible(c), DOMAIN put) # {} => changed # {}
    BY Asked, Constants DEF Contract!Missing
<1>6. \/ /\ Contract!Missing(Visible(c), DOMAIN put) # {}
         /\ Conclude(c, Unknown(c), "exit")
      \/ /\ Contract!Missing(Visible(c), DOMAIN put) = {} /\ changed = {}
         /\ Conclude(c, Contract!Ok(Contract!Rows(put, DOMAIN put)), "exit")
      \/ /\ Contract!Missing(Visible(c), DOMAIN put) = {} /\ changed # {}
         /\ Goto(c, "flush") /\ UNCHANGED reply
    <2>1. CASE Contract!Missing(Visible(c), DOMAIN put) # {}
        BY <1>3, <2>1 DEF LoadRecord
    <2>2. CASE Contract!Missing(Visible(c), DOMAIN put) = {} /\ changed = {}
        BY <2>2 DEF LoadRecord
    <2>3. CASE Contract!Missing(Visible(c), DOMAIN put) = {} /\ changed # {}
        BY <2>3 DEF LoadRecord
    <2> QED BY <2>1, <2>2, <2>3
<1>4. changed = {k \in DOMAIN put : Visible(c)[k] # put[k]}
    OBVIOUS
<1> HIDE DEF changed
<1>5. /\ l \in Local /\ l.fresh = changed /\ l.next = loc[c].next
      /\ l.level = loc[c].level /\ l.found = loc[c].found
    BY <1>1 DEF Local
<1> HIDE DEF l
<1> QED BY <1>2, <1>4, <1>5, <1>6

(* What an update tells is no row that lasts.                              *)
LEMMA UpdatesTell ==
    ASSUME NEW r \in Request, r.op \in Updates, NEW contents, NEW keys \in SUBSET DOMAIN r.put
    PROVE  Lasts(Contract!Rows(contents, keys)) = {}
BY Asked DEF Lasts, Contract!Rows, Tables

LEMMA LoadRecordInv ==
    ASSUME IInv, ~Shared, NEW c \in Caller, pc[c] = "select", LoadRecord(c),
           UNCHANGED <<db, closed, call, before, scenario, left, staged, told>>
    PROVE  Own(c)'
<1> DEFINE put == call[c].put
<1>1. /\ loc[c] \in Local /\ staged[c] = Nothing /\ reply[c] = Contract!NoReply
      /\ call[c] \in Request /\ (loc[c].next = "flush" => call[c].op \in Inserts)
    BY SelectSays
<1>2. PICK changed, l :
             /\ changed = {k \in DOMAIN put : Visible(c)[k] # put[k]}
             /\ call[c].op \in Updates
             /\ loc' = [loc EXCEPT ![c] = l]
             /\ l \in Local /\ l.fresh = changed /\ l.next = loc[c].next
             /\ \/ Conclude(c, Unknown(c), "exit")
                \/ Conclude(c, Contract!Ok(Contract!Rows(put, DOMAIN put)), "exit")
                \/ Goto(c, "flush") /\ UNCHANGED reply
    BY <1>1, LoadRecordSays
<1>3. Moves(c, l) /\ call[c].op \notin {"add_edge", "get_or_create_subject"}
    BY <1>1, <1>2 DEF Moves, Updates
<1>4. CASE Conclude(c, Unknown(c), "exit")
    <2>1. Unknown(c) # Contract!NoReply /\ Unknown(c).rows = {}
        BY Replies DEF Unknown
    <2>2. \A row \in Lasts(Unknown(c).rows) : Durable(row)
        BY <2>1 DEF Lasts
    <2> QED BY <1>1, <1>3, <1>4, <2>1, <2>2, AnswerInv, StillNothing DEF Own
<1>5. CASE Conclude(c, Contract!Ok(Contract!Rows(put, DOMAIN put)), "exit")
    <2>1. Lasts(Contract!Rows(put, DOMAIN put)) = {}
        BY <1>1, <1>2, UpdatesTell
    <2> DEFINE answer == Contract!Ok(Contract!Rows(put, DOMAIN put))
    <2>2. /\ answer # Contract!NoReply /\ answer # Contract!Raised
          /\ \A row \in Lasts(answer.rows) : Durable(row)
        BY <2>1, Replies
    <2>3. Conclude(c, answer, "exit")
        BY <1>5
    <2> HIDE DEF answer
    <2>4. TypesOK' /\ CallOK(c)' /\ RepliesOK(c)' /\ pc'[c] = "exit"
        BY <1>1, <1>3, <2>2, <2>3, AnswerInv
    <2> QED BY <1>1, <2>4, StillNothing DEF Own
<1>6. CASE Goto(c, "flush") /\ UNCHANGED reply
    <2>1. TypesOK' /\ CallOK(c)' /\ RepliesOK(c)' /\ pc'[c] = "flush"
        BY <1>1, <1>2, <1>3, <1>6, GoOnInv
    <2> QED BY <1>1, <2>1, StillNothing DEF Own
<1> QED BY <1>2, <1>4, <1>5, <1>6

LEMMA SelectInv ==
    ASSUME IInv, ~Shared, NEW c \in Caller, Select(c)
    PROVE  Own(c)'
BY LookupInv, WalkLevelInv, RevokedAmongInv, FindSubjectInv, LoadRecordInv DEF Select

(* A conflict: one of the rows is there.  Nothing is staged, and nothing of*)
(* it is told but an edge, which is as the caller asked.                   *)
LEMMA ConflictSays ==
    ASSUME IInv, ~Shared, NEW c \in Caller, pc[c] = "flush", Conflict(c)
    PROVE  /\ call[c] \in Request /\ staged[c] = Nothing /\ Visible(c) = db
           /\ reply[c] = Contract!NoReply /\ call[c].op \in Inserts
           /\ loc[c].fresh \subseteq DOMAIN call[c].put
           /\ \E k \in loc[c].fresh : k \in Keys /\ db[k] # None
           /\ call[c].op \in {"add_edge", "get_or_create_subject"} =>
                /\ loc[c].fresh = DOMAIN call[c].put
                /\ \A k \in DOMAIN call[c].put : k \in Keys /\ db[k] # None
           /\ call[c].op = "add_edge" =>
                \A k \in DOMAIN call[c].put : k[1] = "edge" /\ db[k] = call[c].put[k]
<1>1. CallOK(c) /\ StagedOK(c) /\ TypesOK /\ EdgesOK
    BY DEF IInv
<1>2. /\ call[c] \in Request /\ staged[c] = Nothing /\ reply[c] = Contract!NoReply
      /\ loc[c].fresh \subseteq DOMAIN call[c].put
    BY <1>1 DEF CallOK, StagedOK
<1>3. Visible(c) = db
    BY <1>2, NothingSeen
<1>4. call[c].op \in Inserts /\ \E k \in loc[c].fresh : db[k] # None
    BY <1>3 DEF Conflict, Contract!Present
<1>5. Tables(call[c]) /\ DOMAIN call[c].put \subseteq Keys
    BY <1>2, Asked
<1>6. ASSUME call[c].op \in {"add_edge", "get_or_create_subject"}
      PROVE  /\ loc[c].fresh = DOMAIN call[c].put
             /\ \A k \in DOMAIN call[c].put : k \in Keys /\ db[k] # None
    <2>1. loc[c].fresh = DOMAIN call[c].put
        BY <1>1, <1>6 DEF CallOK, Updates
    <2>2. \E k \in Keys : DOMAIN call[c].put = {k}
        BY <1>5, <1>6 DEF Tables
    <2> QED BY <1>4, <2>1, <2>2
<1>7. ASSUME call[c].op = "add_edge", NEW k \in DOMAIN call[c].put
      PROVE  k[1] = "edge" /\ db[k] = call[c].put[k]
    <2>1. k[1] = "edge" /\ call[c].put[k] = "row" /\ k \in Keys /\ db[k] # None
        BY <1>5, <1>6, <1>7 DEF Tables
    <2> QED BY <1>1, <2>1 DEF EdgesOK
<1> QED BY <1>2, <1>3, <1>4, <1>5, <1>6, <1>7

LEMMA FlushConflictInv ==
    ASSUME IInv, ~Shared, NEW c \in Caller, FlushConflict(c)
    PROVE  Own(c)'
<1>1. /\ pc[c] = "flush" /\ Conflict(c) /\ Conn(c) = c
      /\ OnConflict(c) /\ Rollback(c)
      /\ UNCHANGED <<db, closed, call, before, scenario, left, loc, told>>
    BY Separate DEF FlushConflict
<1>2. /\ call[c] \in Request /\ staged[c] = Nothing /\ reply[c] = Contract!NoReply
      /\ call[c].op \in {"add_edge", "get_or_create_subject"} =>
                /\ loc[c].fresh = DOMAIN call[c].put
                /\ \A k \in DOMAIN call[c].put : k \in Keys /\ db[k] # None
      /\ call[c].op = "add_edge" =>
                \A k \in DOMAIN call[c].put : k[1] = "edge" /\ db[k] = call[c].put[k]
    BY <1>1, ConflictSays
<1>3. Moves(c, loc[c])
    BY <1>1, Stays
<1>4. staged' = [staged EXCEPT ![c] = Nothing] /\ staged'[c] = Nothing
    BY <1>1, Separate DEF Rollback, IInv, TypesOK, SqlTypeOK
<1>5. CASE call[c].op = "add_edge"
    <2> DEFINE rows == Contract!Rows(call[c].put, loc[c].fresh)
               answer == Contract!Ok(rows)
    <2>1. Conclude(c, answer, "exit")
        BY <1>1, <1>5 DEF OnConflict
    <2>2. rows = Contract!Rows(db, DOMAIN call[c].put)
        BY <1>2, <1>5 DEF Contract!Rows
    <2>3. \A row \in Lasts(rows) : Durable(row)
        BY <1>2, <1>5, <2>2, ReadLasts
    <2> HIDE DEF rows
    <2>4. /\ answer # Contract!NoReply /\ answer # Contract!Raised
          /\ \A row \in Lasts(answer.rows) : Durable(row)
        BY <2>3, Replies
    <2> HIDE DEF answer
    <2>5. TypesOK' /\ CallOK(c)' /\ RepliesOK(c)' /\ pc'[c] = "exit"
        BY <1>1, <1>3, <1>4, <2>1, <2>4, AnswerInv
    <2> QED BY <1>4, <2>5, StillNothing DEF Own
<1>6. CASE call[c].op = "get_or_create_subject"
    <2>1. Goto(c, "reselect") /\ UNCHANGED reply
        BY <1>1, <1>6 DEF OnConflict
    <2>2. \A k \in DOMAIN call[c].put : db[k] # None
        BY <1>2, <1>6
    <2>3. TypesOK' /\ CallOK(c)' /\ RepliesOK(c)' /\ pc'[c] = "reselect"
        BY <1>1, <1>2, <1>3, <1>4, <1>6, <2>1, <2>2, GoOnInv
    <2> QED BY <1>4, <2>3, StillNothing DEF Own
<1>7. CASE call[c].op \notin {"add_edge", "get_or_create_subject"}
    <2>1. Conclude(c, Contract!Raised, "exit")
        BY <1>1, <1>7 DEF OnConflict
    <2>2. \A row \in Lasts(Contract!Raised.rows) : Durable(row)
        BY Replies DEF Lasts
    <2>3. TypesOK' /\ CallOK(c)' /\ RepliesOK(c)' /\ pc'[c] = "exit"
        BY <1>1, <1>3, <1>4, <1>7, <2>1, <2>2, AnswerInv, Replies
    <2> QED BY <1>4, <2>3, StillNothing DEF Own
<1> QED BY <1>5, <1>6, <1>7

(* The winner's row is there, and stays.                                   *)
LEMMA ReselectInv ==
    ASSUME IInv, ~Shared, NEW c \in Caller, Reselect(c)
    PROVE  Own(c)'
<1> DEFINE keys == DOMAIN call[c].put
           answer == Contract!Ok(Contract!Rows(db, keys))
<1>1. /\ pc[c] = "reselect" /\ CallOK(c) /\ StagedOK(c) /\ RepliesOK(c)
      /\ UNCHANGED <<db, closed, call, before, scenario, left, loc, staged, told>>
    BY DEF Reselect, IInv
<1>2. /\ call[c] \in Request /\ staged[c] = Nothing /\ keys \subseteq Keys
      /\ \A k \in keys : db[k] # None
    BY <1>1, Asked DEF CallOK, StagedOK, RepliesOK
<1>3. Visible(c) = db
    BY <1>2, NothingSeen
<1>4. Contract!Missing(Visible(c), keys) = {}
    BY <1>2, <1>3 DEF Contract!Missing
<1>5. Conclude(c, answer, "exit")
    BY <1>3, <1>4 DEF Reselect
<1>6. /\ answer # Contract!NoReply /\ answer # Contract!Raised
      /\ \A row \in Lasts(answer.rows) : Durable(row)
    BY <1>2, ReadLasts, Replies
<1>7. Moves(c, loc[c])
    BY <1>1, Stays
<1> HIDE DEF answer, keys
<1>8. TypesOK' /\ CallOK(c)' /\ RepliesOK(c)' /\ pc'[c] = "exit"
    BY <1>1, <1>5, <1>6, <1>7, AnswerInv
<1> QED BY <1>1, <1>2, <1>8, StillNothing DEF Own

LEMMA FailInv ==
    ASSUME IInv, ~Shared, NEW c \in Caller, Fail(c)
    PROVE  Own(c)'
<1>1. pc[c] \notin {"idle", "exit", "return"}
    BY DEF Fail
<1> QED BY <1>1, BreakInv DEF Fail, Own

LEMMA ReturnInv ==
    ASSUME IInv, ~Shared, NEW c \in Caller, pc[c] \in {"exit", "return"}, Return(c),
           UNCHANGED <<db, closed, scenario, left>>,
           staged' = [staged EXCEPT ![c] = Nothing]
    PROVE  Own(c)' /\ \A row \in told' : Durable(row)'
<1>1. TypesOK /\ RepliesOK(c)
    BY DEF IInv
<1>2. /\ pc' = [pc EXCEPT ![c] = "idle"] /\ call' = [call EXCEPT ![c] = None]
      /\ reply' = [reply EXCEPT ![c] = Contract!NoReply]
      /\ before' = [before EXCEPT ![c] = Contract!NoHistory]
      /\ loc' = [loc EXCEPT ![c] = NoLocal]
      /\ told' = told \cup Lasts(reply[c].rows)
    BY DEF Return, Goto
<1>3. NoLocal \in Local
    BY DEF NoLocal, Local
<1>4. TypesOK'
    <2>1. loc' \in [Caller -> Local] /\ pc' \in [Caller -> Label]
        BY <1>1, <1>2, <1>3 DEF TypesOK, SqlTypeOK, Label
    <2>2. staged' \in [Connection -> [Keys -> Values \cup {None}]]
        BY <1>1, Separate DEF TypesOK, SqlTypeOK, Nothing
    <2> QED BY <1>1, <1>2, <2>1, <2>2 DEF TypesOK, SqlTypeOK
<1>5. /\ pc'[c] = "idle" /\ call'[c] = None /\ reply'[c] = Contract!NoReply
      /\ staged'[c] = Nothing
    BY <1>1, <1>2, Separate DEF TypesOK, SqlTypeOK
<1>6. CallOK(c)'
    BY <1>5 DEF CallOK, Writing
<1>7. StagedOK(c)'
    BY <1>5, StillNothing
<1>8. RepliesOK(c)'
    BY <1>5, Replies DEF RepliesOK, Lasts
<1>9. \A row \in told' : Durable(row)'
    BY <1>1, <1>2 DEF IInv, RepliesOK, Durable
<1> QED BY <1>4, <1>6, <1>7, <1>8, <1>9 DEF Own

LEMMA ExitInv ==
    ASSUME IInv, ~Shared, NEW c \in Caller, Exit(c)
    PROVE  Own(c)' /\ \A row \in told' : Durable(row)'
<1>1. /\ pc[c] = "exit" /\ staged' = [staged EXCEPT ![c] = Nothing]
      /\ UNCHANGED <<db, closed, scenario, left>>
    BY Separate DEF Exit, Rollback
<1>2. CASE Return(c)
    BY <1>1, <1>2, ReturnInv
<1>3. CASE /\ reply[c] = Contract!NoReply /\ Goto(c, "open")
           /\ UNCHANGED <<call, reply, before, loc, told>>
    <2>1. Moves(c, loc[c])
        BY <1>1, <1>3, Stays
    <2>2. TypesOK' /\ CallOK(c)' /\ RepliesOK(c)' /\ pc'[c] = "open"
        BY <1>1, <1>3, <2>1, GoOnInv
    <2>3. staged'[c] = Nothing
        BY <1>1, Separate DEF IInv, TypesOK, SqlTypeOK
    <2> QED BY <1>1, <1>3, <2>2, <2>3, StillNothing DEF Own, IInv, Durable
<1> QED BY <1>2, <1>3 DEF Exit

LEMMA LeaveInv ==
    ASSUME IInv, ~Shared, NEW c \in Caller, Leave(c)
    PROVE  Own(c)' /\ \A row \in told' : Durable(row)'
<1>1. pc[c] = "return" /\ Return(c) /\ UNCHANGED <<db, closed, scenario, left, staged>>
    BY DEF Leave
<1>2. staged[c] = Nothing /\ DOMAIN staged = Caller
    BY <1>1, Separate DEF IInv, StagedOK, TypesOK, SqlTypeOK
<1>3. staged' = [staged EXCEPT ![c] = Nothing]
    <2>1. staged \in [Caller -> [Keys -> Values \cup {None}]]
        BY Separate DEF IInv, TypesOK, SqlTypeOK
    <2> QED BY <1>1, <1>2, <2>1
<1> QED BY <1>1, <1>3, ReturnInv

LEMMA QuietInv ==
    ASSUME IInv, ~Shared, NEW c \in Caller, Quiet(c)
    PROVE  IInv'
<1>1. Own(c)'
    BY AskInv, OpenInv, SelectInv, FlushConflictInv, ReselectInv, FailInv, ExitInv, LeaveInv
       DEF Quiet, Takes, Step, Own
<1>2. \A row \in told' : Durable(row)'
    <2>1. CASE Exit(c) \/ Leave(c)
        BY <2>1, ExitInv, LeaveInv
    <2>2. CASE UNCHANGED told
        BY <2>2, QuietKeeps DEF IInv, Durable
    <2> QED BY <2>1, <2>2 DEF Quiet, Takes, Step, Ask, Open, PoolTimeout, Fail, Select,
            FlushConflict, Reselect
<1>3. EdgesOK'
    BY QuietKeeps DEF EdgesOK, IInv
<1> QED BY <1>1, <1>2, <1>3, QuietOthers DEF IInv, Own

-----------------------------------------------------------------------------
(* The steps that write.                                                   *)

(* What a call writes.                                                     *)
LEMMA WritesSay ==
    ASSUME IInv, NEW c \in Caller, pc[c] \in {"flush", "commit"}
    PROVE  LET r == call[c] IN
           /\ r \in Request /\ r.op \in Inserts \cup Updates /\ Tables(r)
           /\ loc[c].fresh \subseteq DOMAIN r.put /\ DOMAIN r.put \subseteq Keys
           /\ Written(c) = [k \in loc[c].fresh |->
                              IF r.op = "get_or_create_subject" THEN c ELSE r.put[k]]
           /\ \A k \in loc[c].fresh : Written(c)[k] \in Values /\ Written(c)[k] # None
           /\ \A k \in loc[c].fresh : k[1] = "edge" => Written(c)[k] = "row"
           /\ r.op \in Updates => \A k \in loc[c].fresh : k[1] \notin Lasting
           /\ reply[c] = Contract!NoReply /\ r # None
<1> DEFINE r == call[c]
<1>1. CallOK(c)
    BY DEF IInv
<1>2. /\ r \in Request /\ r.op \in Inserts \cup Updates
      /\ loc[c].fresh \subseteq DOMAIN r.put /\ reply[c] = Contract!NoReply
    BY <1>1 DEF CallOK, Writing
<1>3. /\ DOMAIN r.put \subseteq Keys /\ Tables(r) /\ r # None
      /\ \A k \in DOMAIN r.put : r.put[k] \in Values
    BY <1>2, Asked
<1>4. Written(c) = [k \in loc[c].fresh |->
                              IF r.op = "get_or_create_subject" THEN c ELSE r.put[k]]
    BY DEF Written
<1>5. \A k \in loc[c].fresh : Written(c)[k] \in Values /\ Written(c)[k] # None
    BY <1>2, <1>3, <1>4, Constants
<1>6. \A k \in loc[c].fresh : k[1] = "edge" => Written(c)[k] = "row"
    <2> SUFFICES ASSUME NEW k \in loc[c].fresh, k[1] = "edge" PROVE Written(c)[k] = "row"
        OBVIOUS
    <2>1. r.op # "get_or_create_subject"
        BY <1>2, <1>3 DEF Tables
    <2>2. r.put[k] = "row"
        BY <1>2, <1>3 DEF Tables
    <2> QED BY <1>4, <2>1, <2>2
<1>7. r.op \in Updates => \A k \in loc[c].fresh : k[1] \notin Lasting
    BY <1>2, <1>3 DEF Tables
<1> QED BY <1>2, <1>3, <1>4, <1>5, <1>6, <1>7

LEMMA FlushSays ==
    ASSUME IInv, ~Shared, NEW c \in Caller, Flush(c)
    PROVE  /\ pc[c] = "flush" /\ pc' = [pc EXCEPT ![c] = "commit"]
           /\ \A d \in Caller \ {c} : staged'[d] = staged[d]
           /\ staged' \in [Caller -> [Keys -> Values \cup {None}]]
           /\ \A k \in Keys :
                staged'[c][k] = IF k \in loc[c].fresh THEN Written(c)[k] ELSE None
           /\ \A k \in loc[c].fresh, d \in Caller \ {c} : staged[d][k] = None
           /\ call[c].op \in Inserts => \A k \in loc[c].fresh : db[k] = None
           /\ UNCHANGED <<contract, scenario, left, loc, told>>
<1>1. /\ pc[c] = "flush" /\ ~Locked(c) /\ ~Conflict(c)
      /\ staged' = [staged EXCEPT ![Conn(c)] = Contract!Put(staged[Conn(c)], Written(c))]
      /\ pc' = [pc EXCEPT ![c] = "commit"]
      /\ UNCHANGED <<contract, scenario, left, loc, told>>
    BY DEF Flush, Goto
<1>2. Connection = Caller /\ Conn(c) = c
    BY Separate
<1>3. staged \in [Caller -> [Keys -> Values \cup {None}]] /\ staged[c] = Nothing
    BY <1>1, <1>2 DEF IInv, TypesOK, SqlTypeOK, StagedOK
<1>4. Visible(c) = db
    BY <1>3, NothingSeen
<1>5. /\ \A k \in loc[c].fresh : Written(c)[k] \in Values
      /\ DOMAIN Written(c) = loc[c].fresh
    BY <1>1, WritesSay
<1>6. Contract!Put(Nothing, Written(c)) =
        [k \in Keys |-> IF k \in loc[c].fresh THEN Written(c)[k] ELSE None]
    BY <1>5 DEF Contract!Put, Nothing
<1>7. staged' = [staged EXCEPT ![c] =
        [k \in Keys |-> IF k \in loc[c].fresh THEN Written(c)[k] ELSE None]]
    BY <1>1, <1>2, <1>3, <1>6
<1>8. [k \in Keys |-> IF k \in loc[c].fresh THEN Written(c)[k] ELSE None]
        \in [Keys -> Values \cup {None}]
    BY <1>5
<1>9. \A k \in loc[c].fresh, d \in Caller \ {c} : staged[d][k] = None
    BY <1>1, <1>2 DEF Locked
<1>10. call[c].op \in Inserts => \A k \in loc[c].fresh : db[k] = None
    BY <1>1, <1>4 DEF Conflict, Contract!Present
<1> DEFINE mine == [k \in Keys |-> IF k \in loc[c].fresh THEN Written(c)[k] ELSE None]
<1>11. \A k \in Keys : mine[k] = IF k \in loc[c].fresh THEN Written(c)[k] ELSE None
    OBVIOUS
<1> HIDE DEF mine
<1>12. /\ staged' \in [Caller -> [Keys -> Values \cup {None}]] /\ staged'[c] = mine
       /\ \A d \in Caller \ {c} : staged'[d] = staged[d]
    BY <1>3, <1>7, <1>8 DEF mine
<1> QED BY <1>1, <1>9, <1>10, <1>11, <1>12

LEMMA FlushInv ==
    ASSUME IInv, ~Shared, NEW c \in Caller, Flush(c)
    PROVE  IInv'
<1>1. /\ pc[c] = "flush" /\ pc' = [pc EXCEPT ![c] = "commit"]
      /\ \A d \in Caller \ {c} : staged'[d] = staged[d]
      /\ staged' \in [Caller -> [Keys -> Values \cup {None}]]
      /\ \A k \in Keys :
           staged'[c][k] = IF k \in loc[c].fresh THEN Written(c)[k] ELSE None
      /\ \A k \in loc[c].fresh, d \in Caller \ {c} : staged[d][k] = None
      /\ call[c].op \in Inserts => \A k \in loc[c].fresh : db[k] = None
      /\ UNCHANGED <<db, closed, call, reply, before, scenario, left, loc, told>>
    BY FlushSays DEF contract
<1>2. TypesOK
    BY DEF IInv
<1>3. pc' \in [Caller -> Label] /\ pc'[c] = "commit"
    BY <1>1, <1>2 DEF TypesOK, SqlTypeOK, Label
<1>4. TypesOK'
    BY <1>1, <1>2, <1>3, Separate DEF TypesOK, SqlTypeOK
<1>5. EdgesOK' /\ \A row \in told' : Durable(row)'
    BY <1>1 DEF IInv, EdgesOK, Durable
<1>6. ASSUME NEW d \in Caller PROVE CallOK(d)' /\ RepliesOK(d)'
    <2>1. CallOK(d) /\ RepliesOK(d)
        BY DEF IInv
    <2>2. pc'[d] = IF d = c THEN "commit" ELSE pc[d]
        BY <1>1, <1>2 DEF TypesOK, SqlTypeOK
    <2>3. CallOK(d)'
        BY <1>1, <2>1, <2>2 DEF CallOK, Writing
    <2>4. RepliesOK(d)'
        BY <1>1, <2>1, <2>2 DEF RepliesOK, Durable
    <2> QED BY <2>3, <2>4
<1>7. ASSUME NEW d \in Caller PROVE StagedOK(d)'
    <2>1. StagedOK(d)
        BY DEF IInv
    <2>2. \A k \in Keys, e \in Caller \ {d} : staged'[d][k] # None => staged'[e][k] = None
        <3> SUFFICES ASSUME NEW k \in Keys, NEW e \in Caller \ {d}, staged'[d][k] # None
                     PROVE  staged'[e][k] = None
            OBVIOUS
        <3>1. CASE d = c
            BY <1>1, <3>1
        <3>2. CASE e = c
            BY <1>1, <3>2
        <3>3. CASE d # c /\ e # c
            BY <1>1, <2>1, <3>3 DEF StagedOK
        <3> QED BY <3>1, <3>2, <3>3
    <2>3. CASE d = c
        <3>1. Written(c)' = Written(c)
            BY <1>1 DEF Written
        <3> QED BY <1>1, <1>3, <2>2, <2>3, <3>1 DEF StagedOK
    <2>4. CASE d # c
        <3>1. Written(d)' = Written(d) /\ pc'[d] = pc[d] /\ staged'[d] = staged[d]
            BY <1>1, <1>2, <2>4 DEF Written, TypesOK, SqlTypeOK
        <3> QED BY <1>1, <2>1, <2>2, <3>1 DEF StagedOK
    <2> QED BY <2>3, <2>4
<1> QED BY <1>4, <1>5, <1>6, <1>7 DEF IInv

LEMMA CommitSays ==
    ASSUME IInv, ~Shared, NEW c \in Caller, Commit(c)
    PROVE  /\ pc[c] = "commit" /\ staged' = [staged EXCEPT ![c] = Nothing]
           /\ db' = [k \in Keys |-> IF k \in loc[c].fresh THEN Written(c)[k] ELSE db[k]]
           /\ db' \in [Keys -> Values \cup {None}]
           /\ \/ Conclude(c, Contract!Ok(Committed(c)), "exit") /\ UNCHANGED loc
              \/ Break(c, "exit")
           /\ UNCHANGED <<closed, call, before, scenario, left, told>>
           /\ call[c].op \in Inserts => \A k \in loc[c].fresh : db[k] = None
<1>1. /\ pc[c] = "commit" /\ db' = Overlay(db, staged[Conn(c)]) /\ Rollback(c)
      /\ \/ Conclude(c, Contract!Ok(Committed(c)), "exit") /\ UNCHANGED loc
         \/ Break(c, "exit")
      /\ UNCHANGED <<closed, call, before, scenario, left, told>>
    BY DEF Commit
<1>2. Conn(c) = c /\ StagedOK(c) /\ db \in [Keys -> Values \cup {None}]
    BY Separate DEF IInv, TypesOK, SqlTypeOK
<1>3. /\ \A k \in Keys :
           staged[c][k] = IF k \in loc[c].fresh THEN Written(c)[k] ELSE None
      /\ call[c].op \in Inserts => \A k \in loc[c].fresh : db[k] = None
    BY <1>1, <1>2 DEF StagedOK
<1>4. \A k \in loc[c].fresh : Written(c)[k] \in Values /\ Written(c)[k] # None
    BY <1>1, WritesSay
<1>5. db' = [k \in Keys |-> IF staged[c][k] # None THEN staged[c][k] ELSE db[k]]
    BY <1>1, <1>2 DEF Overlay
<1>6. \A k \in Keys : (IF staged[c][k] # None THEN staged[c][k] ELSE db[k])
                    = (IF k \in loc[c].fresh THEN Written(c)[k] ELSE db[k])
    BY <1>3, <1>4
<1>7. db' = [k \in Keys |-> IF k \in loc[c].fresh THEN Written(c)[k] ELSE db[k]]
    BY <1>5, <1>6
<1>8. db' \in [Keys -> Values \cup {None}]
    BY <1>2, <1>4, <1>7
<1>9. staged' = [staged EXCEPT ![c] = Nothing]
    BY <1>1, <1>2 DEF Rollback
<1> QED BY <1>1, <1>3, <1>7, <1>8, <1>9

LEMMA CommitGrows ==
    ASSUME IInv, ~Shared, NEW c \in Caller, Commit(c)
    PROVE  Grown /\ EdgesOK'
<1>1. /\ pc[c] = "commit"
      /\ db' = [k \in Keys |-> IF k \in loc[c].fresh THEN Written(c)[k] ELSE db[k]]
      /\ call[c].op \in Inserts => \A k \in loc[c].fresh : db[k] = None
    BY CommitSays
<1>2. /\ call[c].op \in Inserts \cup Updates
      /\ \A k \in loc[c].fresh : Written(c)[k] # None
      /\ \A k \in loc[c].fresh : k[1] = "edge" => Written(c)[k] = "row"
      /\ call[c].op \in Updates => \A k \in loc[c].fresh : k[1] \notin Lasting
    BY <1>1, WritesSay
<1>3. Grown
    BY <1>1, <1>2 DEF Grown
<1>4. EdgesOK'
    BY <1>1, <1>2 DEF EdgesOK, IInv
<1> QED BY <1>3, <1>4

LEMMA DurableStays ==
    ASSUME Grown, NEW row, Durable(row)
    PROVE  Durable(row)'
BY DEF Grown, Durable

LEMMA CommitTypes ==
    ASSUME IInv, ~Shared, NEW c \in Caller, Commit(c)
    PROVE  /\ TypesOK' /\ pc' = [pc EXCEPT ![c] = "exit"]
           /\ \/ reply'[c] = Contract!Ok(Committed(c)) /\ UNCHANGED loc
              \/ reply'[c] = Contract!Raised /\ loc'[c].fault = TRUE
           /\ loc'[c].fresh = loc[c].fresh /\ loc'[c].next = loc[c].next
<1>1. TypesOK
    BY DEF IInv
<1>2. /\ staged' = [staged EXCEPT ![c] = Nothing] /\ db' \in [Keys -> Values \cup {None}]
      /\ UNCHANGED <<closed, call, before, scenario, left, told>>
      /\ \/ Conclude(c, Contract!Ok(Committed(c)), "exit") /\ UNCHANGED loc
         \/ Break(c, "exit")
    BY CommitSays
<1>3. staged' \in [Connection -> [Keys -> Values \cup {None}]]
    BY <1>1, <1>2, Separate DEF TypesOK, SqlTypeOK, Nothing
<1>4. pc' = [pc EXCEPT ![c] = "exit"] /\ pc' \in [Caller -> Label]
    BY <1>1, <1>2 DEF Conclude, Break, Goto, TypesOK, SqlTypeOK, Label
<1>5. loc[c] \in Local
    BY <1>1 DEF TypesOK, SqlTypeOK
<1>6. CASE Conclude(c, Contract!Ok(Committed(c)), "exit") /\ UNCHANGED loc
    <2>1. reply' = [reply EXCEPT ![c] = Contract!Ok(Committed(c))]
        BY <1>6 DEF Conclude
    <2>2. TypesOK'
        BY <1>1, <1>2, <1>3, <1>4, <1>6, <2>1 DEF TypesOK, SqlTypeOK
    <2> QED BY <1>1, <1>4, <1>6, <2>1, <2>2 DEF TypesOK
<1>7. CASE Break(c, "exit")
    <2>1. /\ reply' = [reply EXCEPT ![c] = Contract!Raised]
          /\ loc' = [loc EXCEPT ![c] = [loc[c] EXCEPT !.fault = TRUE]]
        BY <1>7 DEF Break, Conclude
    <2> DEFINE l == [loc[c] EXCEPT !.fault = TRUE]
    <2>2. l \in Local /\ l.fault = TRUE /\ l.fresh = loc[c].fresh /\ l.next = loc[c].next
        BY <1>5 DEF Local
    <2>3. loc' = [loc EXCEPT ![c] = l]
        BY <2>1
    <2> HIDE DEF l
    <2>4. loc' \in [Caller -> Local] /\ loc'[c] = l
        BY <1>1, <2>2, <2>3 DEF TypesOK, SqlTypeOK
    <2>5. TypesOK'
        BY <1>1, <1>2, <1>3, <1>4, <2>1, <2>4 DEF TypesOK, SqlTypeOK
    <2> QED BY <1>1, <1>4, <2>1, <2>2, <2>4, <2>5 DEF TypesOK
<1> QED BY <1>2, <1>6, <1>7

(* What the caller is told is what it has written.                         *)
LEMMA CommittedLasts ==
    ASSUME IInv, ~Shared, NEW c \in Caller, Commit(c)
    PROVE  \A row \in Lasts(Committed(c)) : Durable(row)'
<1>1. /\ pc[c] = "commit"
      /\ db' = [k \in Keys |-> IF k \in loc[c].fresh THEN Written(c)[k] ELSE db[k]]
    BY CommitSays
<1>2. /\ call[c] \in Request /\ loc[c].fresh \subseteq Keys
    BY <1>1, WritesSay
<1>3. CASE call[c].op \in Updates
    BY <1>2, <1>3, UpdatesTell DEF Committed
<1>4. CASE call[c].op \notin Updates
    <2> SUFFICES ASSUME NEW row \in Lasts(Contract!Rows(Written(c), loc[c].fresh))
                 PROVE  Durable(row)'
        BY <1>4 DEF Committed
    <2>1. PICK k \in loc[c].fresh : row = <<k, Written(c)[k]>>
        BY DEF Lasts, Contract!Rows
    <2>2. row[1] = k /\ row[2] = Written(c)[k] /\ row[1][1] \in Lasting /\ row[2] # None
        BY <2>1 DEF Lasts
    <2>3. db'[k] = Written(c)[k]
        BY <1>1, <1>2
    <2> QED BY <1>2, <2>2, <2>3 DEF Durable
<1> QED BY <1>3, <1>4

LEMMA CommitOwn ==
    ASSUME IInv, ~Shared, NEW c \in Caller, Commit(c)
    PROVE  CallOK(c)' /\ StagedOK(c)' /\ RepliesOK(c)'
<1>1. CallOK(c)
    BY DEF IInv
<1>2. /\ pc[c] = "commit" /\ staged' = [staged EXCEPT ![c] = Nothing]
      /\ UNCHANGED <<call, scenario>>
    BY CommitSays
<1>3. /\ pc'[c] = "exit" /\ staged'[c] = Nothing
    <2>1. pc' = [pc EXCEPT ![c] = "exit"]
        BY CommitTypes
    <2>2. DOMAIN pc = Caller /\ DOMAIN staged = Caller
        BY Separate DEF IInv, TypesOK, SqlTypeOK
    <2> QED BY <1>2, <2>1, <2>2
<1>4. /\ \/ reply'[c] = Contract!Ok(Committed(c))
         \/ reply'[c] = Contract!Raised /\ loc'[c].fault = TRUE
      /\ loc'[c].fresh = loc[c].fresh /\ loc'[c].next = loc[c].next
    BY CommitTypes
<1>5. CallOK(c)'
    BY <1>1, <1>2, <1>3, <1>4 DEF CallOK, Writing
<1>6. StagedOK(c)'
    BY <1>3, StillNothing
<1>7. \A row \in Lasts(reply'[c].rows) : Durable(row)'
    <2>1. CASE reply'[c] = Contract!Ok(Committed(c))
        BY <2>1, CommittedLasts, Replies
    <2>2. CASE reply'[c] = Contract!Raised
        BY <2>2, Replies DEF Lasts
    <2> QED BY <1>4, <2>1, <2>2
<1>8. RepliesOK(c)'
    BY <1>3, <1>4, <1>7, Replies DEF RepliesOK, Lasts
<1> QED BY <1>5, <1>6, <1>8

LEMMA CommitOthers ==
    ASSUME IInv, ~Shared, NEW c \in Caller, Commit(c), NEW d \in Caller, d # c
    PROVE  CallOK(d)' /\ StagedOK(d)' /\ RepliesOK(d)'
<1>1. CallOK(d) /\ StagedOK(d) /\ RepliesOK(d) /\ StagedOK(c)
    BY DEF IInv
<1>2. SameThread(d) /\ scenario' = scenario
    BY OthersStay, CommitSays DEF Takes, Step
<1>3. CallOK(d)'
    BY <1>1, <1>2 DEF CallOK, Writing, SameThread
<1>4. /\ pc[c] = "commit" /\ staged' = [staged EXCEPT ![c] = Nothing]
      /\ db' = [k \in Keys |-> IF k \in loc[c].fresh THEN Written(c)[k] ELSE db[k]]
    BY CommitSays
<1>5. DOMAIN staged = Caller
    BY Separate DEF IInv, TypesOK, SqlTypeOK
<1>6. \A k \in Keys, e \in Caller \ {d} : staged'[d][k] # None => staged'[e][k] = None
    <2> SUFFICES ASSUME NEW k \in Keys, NEW e \in Caller \ {d}, staged'[d][k] # None
                 PROVE  staged'[e][k] = None
        OBVIOUS
    <2>1. staged[e][k] = None
        BY <1>1, <1>2 DEF StagedOK, SameThread
    <2>2. staged'[e] \in {staged[e], Nothing}
        BY <1>4, <1>5
    <2> QED BY <2>1, <2>2 DEF Nothing
<1>7. pc[d] = "commit" => \A k \in loc[d].fresh : db'[k] = db[k]
    <2> SUFFICES ASSUME pc[d] = "commit", NEW k \in loc[d].fresh PROVE db'[k] = db[k]
        OBVIOUS
    <2>1. k \in Keys /\ Written(d)[k] # None
        BY WritesSay
    <2>2. staged[d][k] # None
        BY <1>1, <2>1 DEF StagedOK
    <2>3. staged[c][k] = None
        BY <1>1, <2>1, <2>2 DEF StagedOK
    <2>4. k \in loc[c].fresh => staged[c][k] = Written(c)[k] /\ Written(c)[k] # None
        BY <1>1, <1>4, <2>1, WritesSay DEF StagedOK
    <2> QED BY <1>4, <2>1, <2>3, <2>4
<1>8. StagedOK(d)'
    <2>1. Written(d)' = Written(d)
        BY <1>2 DEF Written, SameThread
    <2>2. ASSUME pc[d] = "commit", call[d].op \in Inserts, NEW k \in loc[d].fresh
          PROVE  db'[k] = None
        BY <1>1, <1>7, <2>2 DEF StagedOK
    <2> QED BY <1>1, <1>2, <1>6, <2>1, <2>2 DEF StagedOK, SameThread
<1>9. RepliesOK(d)'
    <2>1. Grown
        BY CommitGrows
    <2>2. \A row \in Lasts(reply[d].rows) : Durable(row)'
        BY <1>1, <2>1, DurableStays DEF RepliesOK
    <2>3. pc[d] = "reselect" => \A k \in DOMAIN call[d].put : db'[k] # None
        <3> SUFFICES ASSUME pc[d] = "reselect", NEW k \in DOMAIN call[d].put
                     PROVE  db'[k] # None
            OBVIOUS
        <3>1. k \in Keys
            BY <1>1, Asked DEF CallOK
        <3> QED BY <1>1, <2>1, <3>1 DEF RepliesOK, Grown
    <2> QED BY <1>1, <1>2, <2>2, <2>3 DEF RepliesOK, SameThread
<1> QED BY <1>3, <1>8, <1>9

LEMMA CommitInv ==
    ASSUME IInv, ~Shared, NEW c \in Caller, Commit(c)
    PROVE  IInv'
<1>1. \A row \in told' : Durable(row)'
    <2>1. told' = told /\ Grown
        BY CommitSays, CommitGrows
    <2> QED BY <2>1, DurableStays DEF IInv
<1> QED BY <1>1, CommitTypes, CommitGrows, CommitOwn, CommitOthers DEF IInv

-----------------------------------------------------------------------------
(* The storage as a whole.                                                 *)

LEMMA CloseInv ==
    ASSUME IInv, ~Shared, Close
    PROVE  IInv'
<1>1. /\ closed' = TRUE
      /\ UNCHANGED <<staged, pc, reply, loc, db, call, before, scenario, left, told>>
    BY DEF Close
<1>2. TypesOK'
    BY <1>1 DEF IInv, TypesOK, SqlTypeOK
<1>3. \A c \in Caller : CallOK(c)' /\ StagedOK(c)' /\ RepliesOK(c)'
    BY <1>1 DEF IInv, CallOK, StagedOK, RepliesOK, Writing, Written, Durable
<1> QED BY <1>1, <1>2, <1>3 DEF IInv, EdgesOK, Durable

(* Nobody calls, and nothing is staged.                                    *)
LEMMA AtRest ==
    ASSUME ~Shared, NEW c \in Caller,
           pc'[c] = "idle", call'[c] = None, reply'[c] = Contract!NoReply,
           staged'[c] = Nothing
    PROVE  CallOK(c)' /\ StagedOK(c)' /\ RepliesOK(c)'
<1>1. CallOK(c)'
    BY DEF CallOK, Writing
<1>2. RepliesOK(c)'
    BY Replies DEF RepliesOK, Lasts
<1> QED BY <1>1, <1>2, StillNothing

LEMMA RestartInv ==
    ASSUME IInv, ~Shared, Restart
    PROVE  IInv'
<1>1. /\ closed' = FALSE
      /\ call' = [c \in Caller |-> None]
      /\ reply' = [c \in Caller |-> Contract!NoReply]
      /\ before' = [c \in Caller |-> Contract!NoHistory]
      /\ pc' = [c \in Caller |-> "idle"]
      /\ loc' = [c \in Caller |-> NoLocal]
      /\ staged' = [n \in Caller |-> Nothing]
      /\ UNCHANGED <<db, scenario, left, told>>
    BY Separate DEF Restart
<1>2. TypesOK'
    <2>1. NoLocal \in Local /\ Nothing \in [Keys -> Values \cup {None}] /\ "idle" \in Label
        BY DEF NoLocal, Local, Nothing, Label
    <2> QED BY <1>1, <2>1, Separate DEF IInv, TypesOK, SqlTypeOK
<1>3. \A c \in Caller : CallOK(c)' /\ StagedOK(c)' /\ RepliesOK(c)'
    BY <1>1, AtRest
<1>4. EdgesOK' /\ \A row \in told' : Durable(row)'
    BY <1>1 DEF IInv, EdgesOK, Durable
<1> QED BY <1>2, <1>3, <1>4 DEF IInv

LEMMA InitInv ==
    ASSUME Init, ~Shared
    PROVE  IInv
<1> DEFINE Row(k) == \E v \in Values : <<k, v>> \in scenario.rows
           first(k) == IF Row(k) THEN CHOOSE v \in Values : <<k, v>> \in scenario.rows
                                 ELSE None
<1>1. /\ scenario \in Scenarios
      /\ db = [k \in Keys |-> first(k)]
      /\ closed = FALSE
      /\ call = [c \in Caller |-> None]
      /\ reply = [c \in Caller |-> Contract!NoReply]
      /\ before = [c \in Caller |-> Contract!NoHistory]
      /\ left = scenario.calls
      /\ pc = [c \in Caller |-> "idle"]
      /\ loc = [c \in Caller |-> NoLocal]
      /\ staged = [n \in Caller |-> Nothing]
      /\ told = {}
    BY Separate DEF Init
<1>2. \A k \in Keys : Row(k) => first(k) \in Values /\ <<k, first(k)>> \in scenario.rows
    OBVIOUS
<1>3. \A k \in Keys : ~Row(k) => first(k) = None
    OBVIOUS
<1>4. scenario.calls \in [Caller -> Nat]
    BY <1>1, SqlAssumption DEF Scenario
<1> HIDE DEF Row, first
<1>5. db \in [Keys -> Values \cup {None}]
    BY <1>1, <1>2, <1>3
<1>6. TypesOK
    <2>1. NoLocal \in Local /\ Nothing \in [Keys -> Values \cup {None}] /\ "idle" \in Label
        BY DEF NoLocal, Local, Nothing, Label
    <2> QED BY <1>1, <1>4, <1>5, <2>1, Separate DEF TypesOK, SqlTypeOK
<1>7. EdgesOK
    <2> SUFFICES ASSUME NEW k \in Keys, k[1] = "edge", Row(k) PROVE first(k) = "row"
        BY <1>1, <1>3 DEF EdgesOK
    <2> DEFINE row == <<k, first(k)>>
    <2>1. row \in scenario.rows /\ row[1] = k /\ row[2] = first(k)
        BY <1>2
    <2>2. \A r \in scenario.rows : r[1][1] = "edge" => r[2] = "row"
        BY <1>1, SqlAssumption
    <2> HIDE DEF row
    <2> QED BY <2>1, <2>2
<1>8. ASSUME NEW c \in Caller PROVE CallOK(c) /\ StagedOK(c) /\ RepliesOK(c)
    <2>1. /\ pc[c] = "idle" /\ call[c] = None /\ reply[c] = Contract!NoReply
          /\ staged[c] = Nothing
        BY <1>1
    <2>2. CallOK(c)
        BY <2>1 DEF CallOK, Writing
    <2>3. StagedOK(c)
        BY <2>1 DEF StagedOK, Nothing
    <2>4. RepliesOK(c)
        BY <2>1, Replies DEF RepliesOK, Lasts
    <2> QED BY <2>2, <2>3, <2>4
<1> QED BY <1>1, <1>6, <1>7, <1>8 DEF IInv

LEMMA NextInv ==
    ASSUME IInv, ~Shared, [Next]_vars
    PROVE  IInv'
<1>1. ASSUME NEW c \in Caller, Takes(c) PROVE IInv'
    BY <1>1, QuietInv, FlushInv, CommitInv DEF Quiet
<1>2. CASE UNCHANGED vars
    <2>1. UNCHANGED <<db, closed, call, reply, before, scenario, left, pc, loc, staged, told>>
        BY <1>2 DEF vars, contract
    <2>2. TypesOK'
        BY <2>1 DEF IInv, TypesOK, SqlTypeOK
    <2>3. \A c \in Caller : CallOK(c)' /\ StagedOK(c)' /\ RepliesOK(c)'
        BY <2>1 DEF IInv, CallOK, StagedOK, RepliesOK, Writing, Written, Durable
    <2> QED BY <2>1, <2>2, <2>3 DEF IInv, EdgesOK, Durable
<1> QED BY <1>1, <1>2, CloseInv, RestartInv DEF Next, Takes

-----------------------------------------------------------------------------
(* The theorems of the two invariants.                                     *)

LEMMA IInvHolds ==
    ASSUME ~Shared
    PROVE  Spec => []IInv
<1>1. Init => IInv
    BY InitInv
<1>2. IInv /\ [Next]_vars => IInv'
    BY NextInv
<1> QED BY <1>1, <1>2, PTL DEF Spec

(* Every variable stays in its type, with a connection for each session.   *)
THEOREM SqlTypeCorrect ==
    ASSUME ~Shared
    PROVE  Spec => []SqlTypeOK
<1>1. IInv => SqlTypeOK
    BY DEF IInv, TypesOK
<1> QED BY <1>1, IInvHolds, PTL

(* With a connection for each session, whatever a caller was told of a row *)
(* that nothing changes again (a token, an edge, a revocation, a subject,  *)
(* an audit row) is committed and stays so: through rollbacks of its own   *)
(* and other sessions, lost acknowledgements, restarts and a close.        *)
THEOREM ToldIsDurableHolds ==
    ASSUME ~Shared
    PROVE  Spec => []ToldIsDurable
<1>1. IInv => ToldIsDurable
    BY DEF IInv, Durable, ToldIsDurable
<1> QED BY <1>1, IInvHolds, PTL

(* With a connection for each session, two callers that write one edge or  *)
(* resolve one new subject converge: the loser of the race finds the row   *)
(* of the winner, and raises only when a statement or a connection failed. *)
THEOREM RaceIsNoErrorHolds ==
    ASSUME ~Shared
    PROVE  Spec => []RaceIsNoError
<1>1. IInv => RaceIsNoError
    BY DEF IInv, RepliesOK, RaceIsNoError
<1> QED BY <1>1, IInvHolds, PTL

-----------------------------------------------------------------------------
(* The refinement: what a call may still answer.                           *)

LEMMA TakesGrow ==
    ASSUME IInv, ~Shared, NEW c \in Caller, Takes(c)
    PROVE  Grown /\ closed' = closed /\ scenario' = scenario
<1>1. CASE Quiet(c)
    BY <1>1, QuietKeeps DEF Grown, Quiet, Takes, Step, Ask, Open, PoolTimeout, Fail, Select,
       FlushConflict, Reselect, Exit, Leave
<1>2. CASE Flush(c)
    BY <1>2 DEF Flush, contract, Grown
<1>3. CASE Commit(c)
    BY <1>3, CommitGrows, CommitSays
<1> QED BY <1>1, <1>2, <1>3 DEF Quiet

LEMMA ChildrenGrow ==
    ASSUME Grown, NEW parents \in SUBSET Jti
    PROVE  Contract!Children(db, parents) \subseteq Contract!Children(db', parents)
BY Constants DEF Grown, Contract!Children

LEMMA DescendantsGrow ==
    ASSUME Grown, NEW root \in Jti
    PROVE  Contract!Descendants(db, root) \subseteq Contract!Descendants(db', root)
<1> SUFFICES ASSUME NEW j \in Jti, j \in Contract!Descendants(db, root),
                    NEW found \in SUBSET Jti, root \in found, Contract!Below(db', found)
             PROVE  j \in found
    BY DEF Contract!Descendants
<1>1. Contract!Below(db, found)
    BY ChildrenGrow DEF Contract!Below
<1> QED BY <1>1 DEF Contract!Descendants

LEMMA AccountsStay ==
    ASSUME Grown, NEW c \in Caller, NEW edges \in SUBSET (Jti \X Jti), Accounts(c, edges),
           loc'[c] = loc[c], call'[c] = call[c], before'[c] = before[c]
    PROVE  Accounts(c, edges)'
<1>1. \A p, j \in Jti : <<p, j>> \in edges => db'[<<"edge", p, j>>] # None
    BY Constants DEF Grown, Accounts
<1> QED BY <1>1 DEF Accounts

(* A walk that has not moved: its promise still holds.                     *)
LEMMA WalkStays ==
    ASSUME IInv, Grown, NEW c \in Caller, WalkOK(c), call[c] \in Request \cup {None},
           loc'[c] = loc[c], call'[c] = call[c], before'[c] = before[c],
           /\ pc'[c] \notin {"exit", "return"} \/ reply'[c] = Contract!NoReply
           => pc[c] \notin {"exit", "return"} \/ reply[c] = Contract!NoReply
    PROVE  WalkOK(c)'
<1> SUFFICES ASSUME call[c] # None, call[c].op = "descendants" PROVE WalkOK(c)'
    BY DEF WalkOK
<1>1. call[c].root \in Jti
    BY Asked
<1>2. /\ call[c].root \in loc[c].found /\ loc[c].level \subseteq loc[c].found
      /\ loc[c].found \subseteq Contract!Descendants(db, call[c].root)
    BY DEF WalkOK
<1>3. loc[c].found \subseteq Contract!Descendants(db', call[c].root)
    BY <1>1, <1>2, DescendantsGrow
<1>4. ASSUME pc'[c] \notin {"exit", "return"} \/ reply'[c] = Contract!NoReply
      PROVE  \E edges \in SUBSET (Jti \X Jti) : Accounts(c, edges)'
    <2>1. PICK edges \in SUBSET (Jti \X Jti) : Accounts(c, edges)
        BY <1>4 DEF WalkOK
    <2>2. Accounts(c, edges)'
        BY <2>1, AccountsStay
    <2> QED BY <2>2
<1> QED BY <1>2, <1>3, <1>4 DEF WalkOK

(* An update of another caller leaves the record there; with one updater   *)
(* it is about other columns.                                              *)
LEMMA OthersServing ==
    ASSUME RInv, ~Shared, NEW c \in Caller, Takes(c), NEW d \in Caller, d # c
    PROVE  Serving(d)'
<1>1. /\ SameThread(d) /\ Grown /\ closed' = closed /\ IInv /\ Serving(d)
      /\ CallOK(c) /\ CallOK(d) /\ StagedOK(c)
    BY OthersStay, TakesGrow DEF RInv, IInv
<1>2. call[d] \in Request \cup {None}
    BY <1>1 DEF IInv, TypesOK, SqlTypeOK
<1>3. ClosedOK(d)'
    BY <1>1 DEF Serving, ClosedOK, InSession, SameThread
<1>4. call[d] # None => RevokedOK(d)'
    <2> SUFFICES ASSUME call[d] # None, call[d].op = "revoke_many", Writing(d),
                        NEW k \in DOMAIN call[d].put \ loc[d].fresh
                 PROVE  db'[k] # None
        BY <1>1 DEF RevokedOK, Writing, SameThread
    <2>1. k \in Keys /\ db[k] # None
        BY <1>1, <1>2, Asked DEF Serving, RevokedOK
    <2> QED BY <1>1, <2>1 DEF Grown
<1>5. call[d] # None => UpdateOK(d)'
    <2> SUFFICES ASSUME call[d] # None, call[d].op \in Updates, pc[d] \in {"flush", "commit"},
                        NEW k \in DOMAIN call[d].put
                 PROVE  /\ db'[k] # None
                        /\ OneUpdater /\ k \notin loc[d].fresh => db'[k] = call[d].put[k]
        BY <1>1 DEF UpdateOK, SameThread
    <2>1. /\ k \in Keys /\ db[k] # None
          /\ OneUpdater /\ k \notin loc[d].fresh => db[k] = call[d].put[k]
        BY <1>1, <1>2, Asked DEF Serving, UpdateOK
    <2>4. db'[k] # None
        BY <1>1, <2>1 DEF Grown
    <2>2. CASE ~Commit(c)
        <3>1. db' = db
            BY <1>1, <2>2, QuietKeeps DEF Quiet, Takes, Step, Flush, contract
        <3> QED BY <2>1, <3>1
    <2>3. CASE Commit(c)
        <3>1. /\ pc[c] = "commit"
              /\ db' = [i \in Keys |-> IF i \in loc[c].fresh THEN Written(c)[i] ELSE db[i]]
              /\ call[c].op \in Inserts => \A i \in loc[c].fresh : db[i] = None
            BY <1>1, <2>3, CommitSays
        <3>2. /\ call[c].op \in Inserts \cup Updates
              /\ loc[c].fresh \subseteq DOMAIN call[c].put
            BY <1>1, <3>1, WritesSay
        <3>3. ASSUME OneUpdater PROVE k \notin loc[c].fresh
            <4>1. CASE call[c].op \in Inserts
                BY <2>1, <3>1, <4>1
            <4>2. CASE call[c].op \in Updates
                <5>1. call[c] \in scenario.asks[c] /\ call[d] \in scenario.asks[d]
                    BY <1>1, <3>1 DEF CallOK
                <5>2. scenario \in Scenarios
                    BY <1>1, ScenarioOK
                <5>3. DOMAIN call[c].put \cap DOMAIN call[d].put = {}
                    BY <3>3, <4>2, <5>1, <5>2 DEF OneUpdater
                <5> QED BY <3>2, <5>3
            <4> QED BY <3>2, <4>1, <4>2
        <3> QED BY <2>1, <2>4, <3>1, <3>3
    <2> QED BY <2>2, <2>3
<1>6. WalkOK(d)'
    BY <1>1, <1>2, WalkStays DEF Serving, SameThread
<1> QED BY <1>1, <1>3, <1>4, <1>5, <1>6 DEF Serving, SameThread

(* A call arrives.                                                         *)
LEMMA AskServing ==
    ASSUME RInv, ~Shared, NEW c \in Caller, Ask(c)
    PROVE  Serving(c)'
<1>1. PICK r \in scenario.asks[c] :
        /\ call' = [call EXCEPT ![c] = r]
        /\ before' = [before EXCEPT ![c] = Contract!History(r)]
        /\ loc' = [loc EXCEPT ![c] =
              [next |-> FirstStep(r), fresh |-> DOMAIN r.put, fault |-> FALSE,
               level |-> IF r.op = "descendants" THEN {r.root} ELSE {},
               found |-> IF r.op = "descendants" THEN {r.root} ELSE {}]]
    BY DEF Ask
<1>2. IInv /\ r \in Request /\ r # None /\ (r.op = "descendants" => r.root \in Jti)
    BY ScenarioOK, Asked DEF RInv
<1>3. pc' = [pc EXCEPT ![c] = "open"] /\ UNCHANGED <<db, closed>>
    BY DEF Ask, Goto
<1>4. /\ pc'[c] = "open" /\ call'[c] = r /\ before'[c] = Contract!History(r)
      /\ loc'[c].next = FirstStep(r)
      /\ r.op = "descendants" => loc'[c].level = {r.root} /\ loc'[c].found = {r.root}
    BY <1>1, <1>2, <1>3 DEF IInv, TypesOK, SqlTypeOK
<1>5. ClosedOK(c)'
    BY <1>3, <1>4 DEF ClosedOK, InSession, Contract!History
<1>6. RevokedOK(c)' /\ UpdateOK(c)'
    BY <1>4 DEF RevokedOK, UpdateOK, Writing, FirstStep
<1>7. WalkOK(c)'
    <2> SUFFICES ASSUME r.op = "descendants" PROVE WalkOK(c)'
        BY <1>4 DEF WalkOK
    <2>1. PICK edges \in SUBSET (Jti \X Jti) :
            \A p, j \in Jti : <<p, j>> \in edges <=> db[<<"edge", p, j>>] # None
        <3> DEFINE all == {e \in Jti \X Jti : db[<<"edge", e[1], e[2]>>] # None}
        <3>1. \A p, j \in Jti : <<p, j>> \in all <=> db[<<"edge", p, j>>] # None
            OBVIOUS
        <3>2. all \in SUBSET (Jti \X Jti)
            OBVIOUS
        <3> HIDE DEF all
        <3> QED BY <3>1, <3>2
    <2>3. before'[c].reach = Contract!Descendants(db, r.root)
        BY <1>4 DEF Contract!History
    <2>4. ASSUME NEW found \in SUBSET Jti, r.root \in found,
                 \A p \in found, j \in Jti : <<p, j>> \in edges => j \in found
          PROVE  before'[c].reach \subseteq found
        <3>1. Contract!Below(db, found)
            BY <2>1, <2>4 DEF Contract!Below, Contract!Children
        <3> QED BY <2>3, <2>4, <3>1 DEF Contract!Descendants
    <2>5. /\ loc'[c].level = {r.root} /\ loc'[c].found = {r.root}
          /\ call'[c] = r /\ db' = db
        BY <1>3, <1>4
    <2>6. Accounts(c, edges)'
        <3>1. \A p \in loc'[c].found \ loc'[c].level, j \in Jti :
                <<p, j>> \in edges => j \in loc'[c].found
            BY <2>5
        <3> QED BY <2>1, <2>4, <2>5, <3>1 DEF Accounts
    <2>7. r.root \in Contract!Descendants(db, r.root)
        BY <1>2 DEF Contract!Descendants
    <2>8. {r.root} \subseteq Contract!Descendants(db', r.root)
        BY <2>5, <2>7
    <2>9. \E e \in SUBSET (Jti \X Jti) : Accounts(c, e)'
        BY <2>6
    <2> QED BY <2>5, <2>8, <2>9 DEF WalkOK
<1> QED BY <1>4, <1>5, <1>6, <1>7 DEF Serving

(* A call goes on as it was, and starts no writing.                        *)
LEMMA OnServing ==
    ASSUME RInv, ~Shared, NEW c \in Caller, Takes(c), pc[c] # "idle",
           loc'[c].next = loc[c].next, loc'[c].fresh = loc[c].fresh,
           loc'[c].level = loc[c].level, loc'[c].found = loc[c].found,
           call'[c] = call[c], before'[c] = before[c], UNCHANGED db,
           pc'[c] # "idle",
           InSession(c)' => InSession(c) \/ ~closed,
           pc'[c] \in {"flush", "commit"} =>
               \/ pc[c] \in {"flush", "commit"}
               \/ loc[c].next = "flush"
               \/ call[c].op \notin Updates \cup {"revoke_many"},
           /\ pc'[c] \notin {"exit", "return"} \/ reply'[c] = Contract!NoReply
           => pc[c] \notin {"exit", "return"} \/ reply[c] = Contract!NoReply
    PROVE  Serving(c)'
<1>1. IInv /\ Serving(c) /\ CallOK(c) /\ Grown /\ closed' = closed
    BY TakesGrow DEF RInv, IInv
<1>2. ClosedOK(c)'
    BY <1>1 DEF Serving, ClosedOK
<1>3. call[c] \in Request /\ call[c] # None
    BY <1>1, Asked DEF CallOK
<1>4. RevokedOK(c)'
    BY <1>1, <1>3 DEF Serving, RevokedOK, Writing
<1>5. UpdateOK(c)'
    BY <1>1, <1>3, Kinds DEF Serving, UpdateOK, CallOK
<1>6. WalkOK(c)'
    <2> SUFFICES ASSUME call[c].op = "descendants" PROVE WalkOK(c)'
        BY <1>3 DEF WalkOK
    <2>1. ASSUME NEW edges \in SUBSET (Jti \X Jti), Accounts(c, edges)
          PROVE  Accounts(c, edges)'
        BY <2>1 DEF Accounts
    <2>2. WalkOK(c)
        BY <1>1 DEF Serving
    <2> QED BY <1>3, <2>1, <2>2 DEF WalkOK
<1> QED BY <1>2, <1>4, <1>5, <1>6 DEF Serving

NextLevel(c, level, found) ==
    /\ level = Contract!Children(Visible(c), loc[c].level) \ loc[c].found
    /\ found = loc[c].found \cup level

(* One level of the walk: all found are below the root, and once there are *)
(* no more, none of those that were below it at the call is missing.       *)
LEMMA WalkFinds ==
    ASSUME RInv, ~Shared, NEW c \in Caller, pc[c] = "select", call[c].op = "descendants",
           NEW level, NEW found, NextLevel(c, level, found)
    PROVE  /\ call[c].root \in found /\ level \subseteq found
           /\ found \subseteq Contract!Descendants(db, call[c].root)
           /\ \E edges \in SUBSET (Jti \X Jti) :
                /\ Accounts(c, edges)
                /\ \A p \in found \ level, j \in Jti : <<p, j>> \in edges => j \in found
           /\ level = {} => before[c].reach \subseteq found
<1>0. /\ level = Contract!Children(Visible(c), loc[c].level) \ loc[c].found
      /\ found = loc[c].found \cup level
    BY DEF NextLevel
<1>1. /\ IInv /\ WalkOK(c) /\ call[c] \in Request /\ call[c] # None
      /\ Visible(c) = db /\ loc[c] \in Local
    BY SelectSays, Asked DEF RInv, Serving
<1>2. PICK edges \in SUBSET (Jti \X Jti) : Accounts(c, edges)
    BY <1>1 DEF WalkOK
<1>3. /\ call[c].root \in loc[c].found /\ loc[c].level \subseteq loc[c].found
      /\ loc[c].found \subseteq Contract!Descendants(db, call[c].root)
    BY <1>1 DEF WalkOK
<1>4. found \in SUBSET Jti /\ loc[c].level \subseteq Jti
    BY <1>0, <1>1 DEF Local, Contract!Children
<1>5. found \subseteq Contract!Descendants(db, call[c].root)
    <2> SUFFICES ASSUME NEW j \in level, NEW all \in SUBSET Jti,
                        call[c].root \in all, Contract!Below(db, all)
                 PROVE  j \in all
        BY <1>0, <1>3, <1>4 DEF Contract!Descendants
    <2>1. loc[c].found \subseteq all
        BY <1>3 DEF Contract!Descendants
    <2>2. j \in Contract!Children(db, all)
        BY <1>0, <1>1, <1>3, <2>1 DEF Contract!Children
    <2> QED BY <2>2 DEF Contract!Below
<1>6. ASSUME NEW p \in found \ level, NEW j \in Jti, <<p, j>> \in edges
      PROVE  j \in found
    <2>1. CASE p \in loc[c].level
        <3>1. p \in Jti /\ db[<<"edge", p, j>>] # None
            BY <1>0, <1>2, <1>4, <1>6, <2>1 DEF Accounts
        <3>2. j \in Contract!Children(db, loc[c].level)
            BY <2>1, <3>1 DEF Contract!Children
        <3> QED BY <1>0, <1>1, <3>2
    <2>2. CASE p \notin loc[c].level
        BY <1>0, <1>2, <1>6, <2>2 DEF Accounts
    <2> QED BY <2>1, <2>2
<1>7. level = {} => before[c].reach \subseteq found
    BY <1>0, <1>2, <1>3, <1>4, <1>6 DEF Accounts
<1> QED BY <1>0, <1>2, <1>3, <1>5, <1>6, <1>7

LEMMA WalkServing ==
    ASSUME RInv, ~Shared, NEW c \in Caller, Select(c), WalkLevel(c)
    PROVE  Serving(c)'
<1>1. /\ pc[c] = "select" /\ IInv /\ Serving(c)
      /\ UNCHANGED <<db, closed, call, before, scenario, left, staged, told>>
    BY DEF Select, RInv
<1>2. loc[c] \in Local /\ DOMAIN loc = Caller /\ DOMAIN pc = Caller
    BY <1>1 DEF IInv, TypesOK, SqlTypeOK
<1>3. PICK level, found, l :
             /\ level = Contract!Children(Visible(c), loc[c].level) \ loc[c].found
             /\ found = loc[c].found \cup level
             /\ l = [loc[c] EXCEPT !.level = level, !.found = found]
             /\ loc' = [loc EXCEPT ![c] = l]
             /\ call[c].op = "descendants"
             /\ \/ level = {} /\ Conclude(c, Found(found), "exit")
                \/ level # {} /\ Goto(c, "exit") /\ UNCHANGED reply
             /\ l \in Local /\ l.fresh = loc[c].fresh /\ l.next = loc[c].next
             /\ l.level = level /\ l.found = found
    BY <1>2, WalkSays
<1>4. loc'[c].level = level /\ loc'[c].found = found /\ pc'[c] = "exit"
    BY <1>2, <1>3 DEF Conclude, Goto
<1>11. NextLevel(c, level, found) /\ call[c].op = "descendants" /\ pc[c] = "select"
    BY <1>1, <1>3 DEF NextLevel
<1>5. /\ call[c].root \in found /\ level \subseteq found
      /\ found \subseteq Contract!Descendants(db, call[c].root)
    BY <1>11, WalkFinds
<1>6. PICK edges \in SUBSET (Jti \X Jti) :
        /\ Accounts(c, edges)
        /\ \A p \in found \ level, j \in Jti : <<p, j>> \in edges => j \in found
    BY <1>11, WalkFinds
<1>7. Accounts(c, edges)'
    BY <1>1, <1>4, <1>6 DEF Accounts
<1>8. WalkOK(c)'
    BY <1>1, <1>4, <1>5, <1>7 DEF WalkOK
<1>9. RevokedOK(c)' /\ UpdateOK(c)'
    BY <1>1, <1>3, <1>4 DEF RevokedOK, UpdateOK
<1>10. ClosedOK(c)'
    BY <1>1, <1>4 DEF ClosedOK, Serving, InSession
<1> QED BY <1>8, <1>9, <1>10 DEF Serving

LEMMA RevokedAmongServing ==
    ASSUME RInv, ~Shared, NEW c \in Caller, Select(c), RevokedAmong(c)
    PROVE  Serving(c)'
<1>1. /\ pc[c] = "select" /\ IInv /\ Serving(c)
      /\ UNCHANGED <<db, closed, call, before, scenario, left, staged, told>>
    BY DEF Select, RInv
<1>2. /\ loc[c] \in Local /\ call[c] \in Request /\ Visible(c) = db
      /\ DOMAIN loc = Caller /\ DOMAIN pc = Caller
    BY <1>1, SelectSays DEF IInv, TypesOK, SqlTypeOK
<1>3. PICK fresh, l :
             /\ fresh = Contract!Missing(Visible(c), DOMAIN call[c].put)
             /\ loc' = [loc EXCEPT ![c] = l]
             /\ call[c].op = "revoke_many"
             /\ Conclude(c, Contract!Ok({}), "exit") \/ Goto(c, "exit")
             /\ l.fresh = fresh
    BY <1>2, RevokedAmongSays
<1>4. loc'[c].fresh = fresh /\ pc'[c] = "exit"
    BY <1>2, <1>3 DEF Conclude, Goto
<1>5. RevokedOK(c)'
    BY <1>1, <1>2, <1>3, <1>4 DEF RevokedOK, Contract!Missing
<1>6. UpdateOK(c)' /\ WalkOK(c)' /\ ClosedOK(c)'
    BY <1>1, <1>3, <1>4 DEF UpdateOK, WalkOK, ClosedOK, Serving, InSession
<1> QED BY <1>5, <1>6 DEF Serving

LEMMA LoadRecordServing ==
    ASSUME RInv, ~Shared, NEW c \in Caller, Select(c), LoadRecord(c)
    PROVE  Serving(c)'
<1>1. /\ pc[c] = "select" /\ IInv /\ Serving(c)
      /\ UNCHANGED <<db, closed, call, before, scenario, left, staged, told>>
    BY DEF Select, RInv
<1>2. /\ loc[c] \in Local /\ call[c] \in Request /\ Visible(c) = db
      /\ DOMAIN loc = Caller /\ DOMAIN pc = Caller
    BY <1>1, SelectSays DEF IInv, TypesOK, SqlTypeOK
<1> DEFINE put == call[c].put
<1>3. PICK changed, l :
             /\ changed = {k \in DOMAIN put : Visible(c)[k] # put[k]}
             /\ call[c].op \in Updates
             /\ loc' = [loc EXCEPT ![c] = l]
             /\ l.fresh = changed
             /\ \/ Conclude(c, Unknown(c), "exit")
                \/ Conclude(c, Contract!Ok(Contract!Rows(put, DOMAIN put)), "exit")
                \/ /\ Contract!Missing(Visible(c), DOMAIN put) = {}
                   /\ Goto(c, "flush")
    BY <1>2, LoadRecordSays
<1>4. /\ loc'[c].fresh = changed /\ pc'[c] \in {"exit", "flush"}
      /\ pc'[c] = "flush" => Contract!Missing(Visible(c), DOMAIN put) = {}
    BY <1>2, <1>3 DEF Conclude, Goto
<1>5. UpdateOK(c)'
    BY <1>1, <1>2, <1>3, <1>4 DEF UpdateOK, Contract!Missing
<1>6. RevokedOK(c)' /\ WalkOK(c)'
    BY <1>1, <1>3 DEF RevokedOK, WalkOK, Updates
<1>7. ClosedOK(c)'
    BY <1>1, <1>4 DEF ClosedOK, Serving, InSession
<1> QED BY <1>5, <1>6, <1>7 DEF Serving

LEMMA CommitServing ==
    ASSUME RInv, ~Shared, NEW c \in Caller, Commit(c)
    PROVE  Serving(c)'
<1>1. /\ IInv /\ Serving(c) /\ pc[c] = "commit" /\ closed' = closed /\ Grown
      /\ UNCHANGED <<call, before>>
    BY CommitSays, CommitGrows DEF RInv
<1>2. /\ call[c].op \in Inserts \cup Updates /\ DOMAIN call[c].put \subseteq Keys
      /\ call[c] # None
    BY <1>1, WritesSay
<1>3. DOMAIN pc = Caller /\ pc' = [pc EXCEPT ![c] = "exit"]
    BY <1>1, CommitTypes DEF IInv, TypesOK, SqlTypeOK
<1>4. pc'[c] = "exit" /\ loc'[c].fresh = loc[c].fresh
    BY <1>1, <1>3, CommitTypes
<1>5. RevokedOK(c)'
    BY <1>1, <1>2, <1>4 DEF RevokedOK, Serving, Writing, Grown
<1>6. UpdateOK(c)' /\ ClosedOK(c)'
    BY <1>1, <1>4 DEF UpdateOK, ClosedOK, Serving, InSession
<1>7. WalkOK(c)'
    BY <1>1, <1>2, Kinds DEF WalkOK
<1> QED BY <1>5, <1>6, <1>7 DEF Serving

LEMMA ReturnServing ==
    ASSUME RInv, ~Shared, NEW c \in Caller, Return(c)
    PROVE  Serving(c)'
<1>1. call'[c] = None /\ before'[c] = Contract!NoHistory /\ pc'[c] = "idle"
    BY DEF Return, Goto, RInv, IInv, TypesOK, SqlTypeOK
<1>2. ClosedOK(c)' /\ WalkOK(c)'
    BY <1>1 DEF ClosedOK, WalkOK, InSession, Contract!NoHistory
<1> QED BY <1>1, <1>2 DEF Serving

(* The steps that leave the locals as they were.                           *)
LEMMA PlainServing ==
    ASSUME RInv, ~Shared, NEW c \in Caller,
           \/ Open(c) \/ PoolTimeout(c) \/ Fail(c) \/ Flush(c) \/ FlushConflict(c) \/ Reselect(c)
           \/ Select(c) /\ (Lookup(c) \/ FindSubject(c))
           \/ Exit(c) /\ reply[c] = Contract!NoReply
    PROVE  Serving(c)'
<1>1. /\ DOMAIN pc = Caller /\ DOMAIN reply = Caller /\ loc \in [Caller -> Local] /\ CallOK(c)
    BY DEF RInv, IInv, TypesOK, SqlTypeOK
<1>2. ASSUME NEW l, Break(c, l)
      PROVE  /\ loc'[c].next = loc[c].next /\ loc'[c].fresh = loc[c].fresh
             /\ loc'[c].level = loc[c].level /\ loc'[c].found = loc[c].found
             /\ pc'[c] = l /\ reply'[c] = Contract!Raised
    <2>1. loc' = [loc EXCEPT ![c] = [loc[c] EXCEPT !.fault = TRUE]]
        BY <1>2 DEF Break
    <2>2. loc[c] \in Local
        BY <1>1
    <2> DEFINE m == [loc[c] EXCEPT !.fault = TRUE]
    <2>3. /\ m.next = loc[c].next /\ m.fresh = loc[c].fresh
          /\ m.level = loc[c].level /\ m.found = loc[c].found
        BY <2>2 DEF Local
    <2>4. loc'[c] = m
        BY <1>1, <2>1
    <2> HIDE DEF m
    <2> QED BY <1>1, <1>2, <2>3, <2>4 DEF Break, Conclude, Goto
<1>3. CASE Open(c) \/ PoolTimeout(c)
    <2>1. /\ pc[c] = "open" /\ Takes(c)
          /\ UNCHANGED <<db, closed, call, before, scenario, left, staged, told>>
        BY <1>3 DEF Open, PoolTimeout, Takes, Step
    <2>2. CASE Break(c, "return")
        BY <1>2, <2>1, <2>2, OnServing, Replies DEF InSession
    <2>3. CASE ~closed /\ Goto(c, loc[c].next) /\ UNCHANGED <<reply, loc>>
        <3>1. pc'[c] = loc[c].next /\ loc[c].next \in {"select", "flush"}
            BY <1>1, <2>3 DEF Goto, Local
        <3> QED BY <2>1, <2>3, <3>1, OnServing
    <2> QED BY <1>3, <2>2, <2>3 DEF Open, PoolTimeout
<1>4. CASE Fail(c)
    <2>1. /\ pc[c] \in {"select", "flush", "commit", "reselect"} /\ Takes(c) /\ Break(c, "exit")
          /\ UNCHANGED <<db, closed, call, before, scenario, left, staged, told>>
        BY <1>4 DEF Fail, Takes
    <2> QED BY <1>2, <2>1, OnServing, Replies DEF InSession
<1>5. CASE Flush(c)
    <2>1. pc[c] = "flush" /\ pc'[c] = "commit" /\ Takes(c) /\ UNCHANGED <<contract, loc>>
        BY <1>1, <1>5 DEF Flush, Goto, Takes, Step
    <2> QED BY <2>1, OnServing DEF InSession, contract
<1>6. CASE FlushConflict(c)
    <2>1. /\ pc[c] = "flush" /\ pc'[c] \in {"exit", "reselect"} /\ Takes(c)
          /\ UNCHANGED <<db, closed, call, before, loc>>
        BY <1>1, <1>6 DEF FlushConflict, OnConflict, Conclude, Goto, Takes, Step
    <2> QED BY <2>1, OnServing DEF InSession
<1>7. CASE Reselect(c)
    <2>1. /\ pc[c] = "reselect" /\ pc'[c] = "exit" /\ Takes(c)
          /\ UNCHANGED <<db, closed, call, before, loc>>
        BY <1>1, <1>7 DEF Reselect, Conclude, Goto, Takes, Step
    <2> QED BY <2>1, OnServing DEF InSession
<1>8. CASE Select(c) /\ (Lookup(c) \/ FindSubject(c))
    <2>1. /\ pc[c] = "select" /\ pc'[c] \in {"exit", "flush"} /\ Takes(c)
          /\ pc'[c] = "flush" => call[c].op = "get_or_create_subject"
          /\ UNCHANGED <<db, closed, call, before, loc>>
        BY <1>1, <1>8 DEF Select, Lookup, FindSubject, Conclude, Goto, Takes, Step
    <2>2. call[c].op = "get_or_create_subject" => call[c].op \notin Updates \cup {"revoke_many"}
        BY DEF Updates
    <2> QED BY <2>1, <2>2, OnServing DEF InSession
<1>9. CASE Exit(c) /\ reply[c] = Contract!NoReply
    <2>1. /\ pc[c] = "exit" /\ pc'[c] = "open" /\ Takes(c)
          /\ UNCHANGED <<db, closed, call, reply, before, loc>>
        BY <1>1, <1>9 DEF Exit, Goto, Takes, Step
    <2> QED BY <1>9, <2>1, OnServing DEF InSession
<1> QED BY <1>3, <1>4, <1>5, <1>6, <1>7, <1>8, <1>9

LEMMA TakesServing ==
    ASSUME RInv, ~Shared, NEW c \in Caller, Takes(c)
    PROVE  Serving(c)'
<1>1. CASE Select(c)
    BY <1>1, PlainServing, WalkServing, RevokedAmongServing, LoadRecordServing DEF Select
<1>2. CASE Exit(c)
    BY <1>2, PlainServing, ReturnServing DEF Exit
<1> QED BY <1>1, <1>2, AskServing, CommitServing, ReturnServing, PlainServing
        DEF Takes, Step, Leave

LEMMA RInvNext ==
    ASSUME RInv, ~Shared, [Next]_vars
    PROVE  RInv'
<1>1. IInv'
    BY NextInv DEF RInv
<1>2. ASSUME NEW c \in Caller, Takes(c), NEW d \in Caller PROVE Serving(d)'
    BY <1>2, TakesServing, OthersServing
<1>3. ASSUME Close, NEW d \in Caller PROVE Serving(d)'
    <2>1. /\ closed' = TRUE /\ Serving(d)
          /\ UNCHANGED <<pc, reply, loc, db, call, before>>
        BY <1>3 DEF Close, RInv
    <2>2. \A edges \in SUBSET (Jti \X Jti) : Accounts(d, edges) => Accounts(d, edges)'
        BY <2>1 DEF Accounts
    <2> QED BY <2>1, <2>2 DEF Serving, ClosedOK, RevokedOK, UpdateOK, WalkOK, InSession, Writing
<1>4. ASSUME Restart, NEW d \in Caller PROVE Serving(d)'
    <2>1. call'[d] = None /\ before'[d] = Contract!NoHistory /\ pc'[d] = "idle"
        BY <1>4 DEF Restart
    <2> QED BY <2>1 DEF Serving, ClosedOK, WalkOK, InSession, Contract!NoHistory
<1>5. ASSUME UNCHANGED vars, NEW d \in Caller PROVE Serving(d)'
    <2>1. Serving(d) /\ UNCHANGED <<closed, pc, reply, loc, db, call, before>>
        BY <1>5 DEF vars, contract, RInv
    <2>2. \A edges \in SUBSET (Jti \X Jti) : Accounts(d, edges) => Accounts(d, edges)'
        BY <2>1 DEF Accounts
    <2> QED BY <2>1, <2>2 DEF Serving, ClosedOK, RevokedOK, UpdateOK, WalkOK, InSession, Writing
<1> QED BY <1>1, <1>2, <1>3, <1>4, <1>5 DEF Next, Takes, RInv

LEMMA RInvInit ==
    ASSUME Init, ~Shared
    PROVE  RInv
<1>1. IInv
    BY InitInv
<1>2. ASSUME NEW c \in Caller PROVE Serving(c)
    <2>1. call[c] = None /\ before[c] = Contract!NoHistory /\ pc[c] = "idle"
        BY DEF Init
    <2> QED BY <2>1 DEF Serving, ClosedOK, WalkOK, InSession, Contract!NoHistory
<1> QED BY <1>1, <1>2 DEF RInv

-----------------------------------------------------------------------------
(* Each step is a step of Storage, or none.                                *)

LEMMA IsWaiting ==
    ASSUME IInv, NEW c \in Caller, pc[c] \notin {"idle", "exit", "return"}
    PROVE  call[c] \in Request /\ call[c] # None /\ Contract!Waiting(c)
<1>1. CallOK(c)
    BY DEF IInv
<1>2. call[c] \in Request /\ reply[c] = Contract!NoReply
    BY <1>1 DEF CallOK
<1> QED BY <1>2, Asked DEF Contract!Waiting

(* The operation raises, and leaves no trace.                              *)
LEMMA Refused ==
    ASSUME NEW c \in Caller, Contract!Waiting(c),
           reply' = [reply EXCEPT ![c] = Contract!Raised],
           UNCHANGED <<db, closed, call, before>>
    PROVE  Contract!Next
BY DEF Contract!Next, Contract!Refuse

(* The operation takes effect, and answers or raises.                      *)
LEMMA Served ==
    ASSUME NEW c \in Caller, Contract!Waiting(c), NEW rows,
           Contract!Outcome(db', rows) \in Contract!Outcomes(c, call[c]),
           \/ reply' = [reply EXCEPT ![c] = Contract!Ok(rows)]
           \/ reply' = [reply EXCEPT ![c] = Contract!Raised],
           UNCHANGED <<closed, call, before>>
    PROVE  Contract!Next
<1> DEFINE o == Contract!Outcome(db', rows)
<1>1. o.db = db' /\ o.rows = rows
    BY DEF Contract!Outcome
<1>2. o \in Contract!Outcomes(c, call[c])
    OBVIOUS
<1> HIDE DEF o
<1>3. Contract!Serve(c)
    BY <1>1, <1>2 DEF Contract!Serve
<1> QED BY <1>3 DEF Contract!Next

(* The outcomes of each kind of operation.                                 *)
LEMMA OutcomesOf ==
    ASSUME NEW c \in Caller, NEW r
    PROVE  /\ r.op \in {"append_audit_batch", "put_approval", "put_review"} =>
                Contract!Outcomes(c, r) = Contract!PutRows(r)
           /\ r.op \in {"put_token", "put_action"} =>
                Contract!Outcomes(c, r) = Contract!PutNew(r)
           /\ r.op = "add_edge" => Contract!Outcomes(c, r) = Contract!AddEdge(r)
           /\ r.op = "revoke_many" => Contract!Outcomes(c, r) = Contract!RevokeMany(r)
           /\ r.op = "get_or_create_subject" =>
                Contract!Outcomes(c, r) = Contract!GetOrCreateSubject(c, r)
           /\ r.op \in {"update_approval", "update_review"} =>
                Contract!Outcomes(c, r) = Contract!UpdateRow(r)
           /\ r.op = "close_action" => Contract!Outcomes(c, r) = Contract!CloseAction(r)
           /\ r.op = "read" => Contract!Outcomes(c, r) = Contract!Read(r)
           /\ r.op = "is_revoked" => Contract!Outcomes(c, r) = Contract!IsRevoked(c, r)
           /\ r.op = "descendants" => Contract!Outcomes(c, r) = Contract!Walk(c, r)
BY DEF Contract!Outcomes

LEMMA PutNothing ==
    ASSUME IInv, NEW put, \A k \in DOMAIN put : k \in Keys => db[k] = put[k]
    PROVE  Contract!Put(db, put) = db
<1>1. db \in [Keys -> Values \cup {None}]
    BY DEF IInv, TypesOK, SqlTypeOK
<1>2. Contract!Put(db, put) = [k \in Keys |-> db[k]]
    BY DEF Contract!Put
<1> QED BY <1>1, <1>2

LEMMA LookupMaps ==
    ASSUME RInv, ~Shared, NEW c \in Caller, Select(c), Lookup(c)
    PROVE  Contract!Next
<1>1. /\ pc[c] = "select" /\ IInv /\ ClosedOK(c) /\ call[c].op \in {"read", "is_revoked"}
      /\ UNCHANGED <<db, closed, call, before>>
    BY DEF Select, Lookup, RInv, Serving
<1>2. Visible(c) = db /\ Contract!Waiting(c)
    BY <1>1, SelectSays, IsWaiting
<1> DEFINE rows == Contract!Rows(db, DOMAIN call[c].put)
<1>3. reply' = [reply EXCEPT ![c] = Contract!Ok(rows)]
    BY <1>2 DEF Lookup, Conclude
<1>4. ~before[c].closed
    BY <1>1 DEF ClosedOK, InSession
<1>5. Contract!Outcomes(c, call[c]) = Contract!Read(call[c])
    BY <1>1, <1>4, OutcomesOf DEF Contract!IsRevoked
<1>6. Contract!Outcome(db', rows) \in Contract!Outcomes(c, call[c])
    BY <1>1, <1>5 DEF Contract!Read
<1> HIDE DEF rows
<1> QED BY <1>1, <1>2, <1>3, <1>6, Served

(* The last level of a walk: all that was below the root at the call, and  *)
(* nothing that is not below it now.                                       *)
LEMMA WalkMaps ==
    ASSUME RInv, ~Shared, NEW c \in Caller, Select(c), WalkLevel(c)
    PROVE  Contract!Next \/ UNCHANGED contract
<1>1. /\ pc[c] = "select" /\ IInv
      /\ UNCHANGED <<db, closed, call, before>>
    BY DEF Select, RInv
<1>2. loc[c] \in Local /\ Contract!Waiting(c)
    BY <1>1, IsWaiting DEF IInv, TypesOK, SqlTypeOK
<1>3. PICK level, found, l :
             /\ level = Contract!Children(Visible(c), loc[c].level) \ loc[c].found
             /\ found = loc[c].found \cup level
             /\ l = [loc[c] EXCEPT !.level = level, !.found = found]
             /\ loc' = [loc EXCEPT ![c] = l]
             /\ call[c].op = "descendants"
             /\ \/ level = {} /\ Conclude(c, Found(found), "exit")
                \/ level # {} /\ Goto(c, "exit") /\ UNCHANGED reply
             /\ l \in Local /\ l.fresh = loc[c].fresh /\ l.next = loc[c].next
             /\ l.level = level /\ l.found = found
    BY <1>2, WalkSays
<1>4. NextLevel(c, level, found) /\ call[c].op = "descendants"
    BY <1>3 DEF NextLevel
<1>5. CASE level # {} /\ UNCHANGED reply
    BY <1>1, <1>5 DEF contract
<1>6. CASE level = {} /\ Conclude(c, Found(found), "exit")
    <2>1. /\ found \subseteq Contract!Descendants(db, call[c].root)
          /\ before[c].reach \subseteq found
        BY <1>1, <1>4, <1>6, WalkFinds
    <2> DEFINE rows == {<<<<"descendant", j>>, "row">> : j \in found}
    <2>2. reply' = [reply EXCEPT ![c] = Contract!Ok(rows)]
        BY <1>6 DEF Conclude, Found
    <2>3. Contract!Outcome(db, rows) \in Contract!Walk(c, call[c])
        BY <2>1 DEF Contract!Walk
    <2>4. Contract!Outcome(db', rows) \in Contract!Outcomes(c, call[c])
        BY <1>1, <1>4, <2>3, OutcomesOf
    <2> HIDE DEF rows
    <2> QED BY <1>1, <1>2, <2>2, <2>4, Served
<1> QED BY <1>3, <1>5, <1>6

LEMMA RevokedAmongMaps ==
    ASSUME RInv, ~Shared, NEW c \in Caller, Select(c), RevokedAmong(c)
    PROVE  Contract!Next \/ UNCHANGED contract
<1>1. /\ pc[c] = "select" /\ IInv
      /\ UNCHANGED <<db, closed, call, before>>
    BY DEF Select, RInv
<1>2. /\ loc[c] \in Local /\ call[c] \in Request /\ Visible(c) = db
      /\ Contract!Waiting(c)
    BY <1>1, SelectSays, IsWaiting
<1>3. /\ call[c].op = "revoke_many"
      /\ \/ /\ Contract!Missing(Visible(c), DOMAIN call[c].put) = {}
            /\ Conclude(c, Contract!Ok({}), "exit")
         \/ UNCHANGED reply
    BY DEF RevokedAmong
<1>4. CASE UNCHANGED reply
    BY <1>1, <1>4 DEF contract
<1>5. CASE /\ Contract!Missing(db, DOMAIN call[c].put) = {}
           /\ Conclude(c, Contract!Ok({}), "exit")
    <2>1. Contract!Put(db, Contract!Only(call[c].put, {})) = db
        BY <1>1, PutNothing DEF Contract!Only
    <2>2. Contract!Rows(call[c].put, {}) = {}
        BY DEF Contract!Rows
    <2>3. Contract!Outcome(db, {}) \in Contract!RevokeMany(call[c])
        BY <1>5, <2>1, <2>2 DEF Contract!RevokeMany
    <2>4. Contract!Outcome(db', {}) \in Contract!Outcomes(c, call[c])
        BY <1>1, <1>3, <2>3, OutcomesOf
    <2>5. reply' = [reply EXCEPT ![c] = Contract!Ok({})]
        BY <1>5 DEF Conclude
    <2> QED BY <1>1, <1>2, <2>4, <2>5, Served
<1> QED BY <1>2, <1>3, <1>4, <1>5

(* The subject is there: nothing is made.                                  *)
LEMMA SubjectFound ==
    ASSUME IInv, NEW c \in Caller, Contract!Waiting(c),
           call[c].op = "get_or_create_subject",
           Contract!Missing(db, DOMAIN call[c].put) = {},
           reply' = [reply EXCEPT ![c] = Contract!Ok(Contract!Rows(db, DOMAIN call[c].put))],
           UNCHANGED <<db, closed, call, before>>
    PROVE  Contract!Next
<1> DEFINE rows == Contract!Rows(db, DOMAIN call[c].put)
<1>1. Contract!Put(db, [k \in {} |-> c]) = db
    BY PutNothing
<1>2. Contract!Outcome(db, rows) \in Contract!GetOrCreateSubject(c, call[c])
    BY <1>1 DEF Contract!GetOrCreateSubject
<1>3. Contract!Outcome(db', rows) \in Contract!Outcomes(c, call[c])
    BY <1>2, OutcomesOf
<1> HIDE DEF rows
<1> QED BY <1>3, Served DEF rows

LEMMA FindSubjectMaps ==
    ASSUME RInv, ~Shared, NEW c \in Caller, Select(c), FindSubject(c)
    PROVE  Contract!Next \/ UNCHANGED contract
<1>1. /\ pc[c] = "select" /\ IInv /\ call[c].op = "get_or_create_subject"
      /\ UNCHANGED <<db, closed, call, before>>
    BY DEF Select, FindSubject, RInv
<1>2. Visible(c) = db /\ Contract!Waiting(c)
    BY <1>1, SelectSays, IsWaiting
<1>3. \/ /\ Contract!Missing(db, DOMAIN call[c].put) = {}
         /\ reply' = [reply EXCEPT ![c] = Contract!Ok(Contract!Rows(db, DOMAIN call[c].put))]
      \/ UNCHANGED reply
    BY <1>2 DEF FindSubject, Conclude
<1>4. CASE UNCHANGED reply
    BY <1>1, <1>4 DEF contract
<1> QED BY <1>1, <1>2, <1>3, <1>4, SubjectFound

LEMMA LoadRecordMaps ==
    ASSUME RInv, ~Shared, NEW c \in Caller, Select(c), LoadRecord(c)
    PROVE  Contract!Next \/ UNCHANGED contract
<1>1. /\ pc[c] = "select" /\ IInv
      /\ UNCHANGED <<db, closed, call, before>>
    BY DEF Select, RInv
<1>2. /\ loc[c] \in Local /\ call[c] \in Request /\ Visible(c) = db
      /\ Contract!Waiting(c)
    BY <1>1, SelectSays, IsWaiting
<1> DEFINE put == call[c].put
           rows == Contract!Rows(put, DOMAIN put)
<1>3. PICK changed, l :
             /\ changed = {k \in DOMAIN put : Visible(c)[k] # put[k]}
             /\ call[c].op \in Updates
             /\ loc' = [loc EXCEPT ![c] = l]
             /\ l \in Local /\ l.fresh = changed /\ l.next = loc[c].next
             /\ l.level = loc[c].level /\ l.found = loc[c].found
             /\ \/ /\ Contract!Missing(Visible(c), DOMAIN put) # {}
                   /\ Conclude(c, Unknown(c), "exit")
                \/ /\ Contract!Missing(Visible(c), DOMAIN put) = {} /\ changed = {}
                   /\ Conclude(c, Contract!Ok(Contract!Rows(put, DOMAIN put)), "exit")
                \/ /\ Contract!Missing(Visible(c), DOMAIN put) = {} /\ changed # {}
                   /\ Goto(c, "flush") /\ UNCHANGED reply
    BY <1>2, LoadRecordSays
<1>4. CASE UNCHANGED reply
    BY <1>1, <1>4 DEF contract
<1>5. CASE /\ Contract!Missing(db, DOMAIN put) # {}
           /\ Conclude(c, Unknown(c), "exit")
    <2>1. reply' = [reply EXCEPT ![c] = Unknown(c)]
        BY <1>5 DEF Conclude
    <2>2. CASE call[c].op = "close_action"
        <3>1. Contract!Outcome(db, {}) \in Contract!CloseAction(call[c])
            BY <1>5 DEF Contract!CloseAction
        <3>2. Contract!Outcome(db', {}) \in Contract!Outcomes(c, call[c])
            BY <1>1, <2>2, <3>1, OutcomesOf
        <3>3. reply' = [reply EXCEPT ![c] = Contract!Ok({})]
            BY <2>1, <2>2 DEF Unknown
        <3> QED BY <1>1, <1>2, <3>2, <3>3, Served
    <2>3. CASE call[c].op # "close_action"
        BY <1>1, <1>2, <2>1, <2>3, Refused DEF Unknown
    <2> QED BY <2>2, <2>3
<1>6. CASE /\ Contract!Missing(db, DOMAIN put) = {} /\ changed = {}
           /\ Conclude(c, Contract!Ok(rows), "exit")
    <2>1. Contract!Put(db, put) = db
        BY <1>1, <1>2, <1>3, <1>6, PutNothing
    <2>2. Contract!Outcome(db, rows) \in Contract!PutRows(call[c])
        BY <2>1 DEF Contract!PutRows
    <2>3. Contract!Outcomes(c, call[c]) = Contract!PutRows(call[c])
        BY <1>3, <1>6, OutcomesOf DEF Updates, Contract!UpdateRow, Contract!CloseAction
    <2>4. Contract!Outcome(db', rows) \in Contract!Outcomes(c, call[c])
        BY <1>1, <2>2, <2>3
    <2>5. reply' = [reply EXCEPT ![c] = Contract!Ok(rows)]
        BY <1>6 DEF Conclude
    <2> HIDE DEF rows
    <2> QED BY <1>1, <1>2, <2>4, <2>5, Served
<1> QED BY <1>2, <1>3, <1>4, <1>5, <1>6

LEMMA FlushConflictMaps ==
    ASSUME RInv, ~Shared, NEW c \in Caller, FlushConflict(c)
    PROVE  Contract!Next \/ UNCHANGED contract
<1>1. /\ pc[c] = "flush" /\ Conflict(c) /\ OnConflict(c) /\ IInv
      /\ UNCHANGED <<db, closed, call, before>>
    BY DEF FlushConflict, RInv
<1>2. Contract!Waiting(c)
    BY <1>1, IsWaiting
<1>3. /\ call[c].op = "add_edge" => loc[c].fresh = DOMAIN call[c].put
      /\ call[c].op = "add_edge" => \A k \in DOMAIN call[c].put : db[k] = call[c].put[k]
    BY <1>1, ConflictSays
<1>4. CASE call[c].op = "add_edge"
    <2> DEFINE rows == Contract!Rows(call[c].put, DOMAIN call[c].put)
    <2>1. reply' = [reply EXCEPT ![c] = Contract!Ok(rows)]
        BY <1>1, <1>3, <1>4 DEF OnConflict, Conclude
    <2>2. Contract!Put(db, call[c].put) = db
        BY <1>1, <1>3, <1>4, PutNothing
    <2>3. Contract!Outcome(db, rows) \in Contract!AddEdge(call[c])
        BY <2>2 DEF Contract!AddEdge, Contract!PutRows
    <2>4. Contract!Outcome(db', rows) \in Contract!Outcomes(c, call[c])
        BY <1>1, <1>4, <2>3, OutcomesOf
    <2> HIDE DEF rows
    <2> QED BY <1>1, <1>2, <2>1, <2>4, Served
<1>5. CASE call[c].op = "get_or_create_subject"
    BY <1>1, <1>5 DEF OnConflict, contract
<1>6. CASE call[c].op \notin {"add_edge", "get_or_create_subject"}
    <2>1. reply' = [reply EXCEPT ![c] = Contract!Raised]
        BY <1>1, <1>6 DEF OnConflict, Conclude
    <2> QED BY <1>1, <1>2, <2>1, Refused
<1> QED BY <1>4, <1>5, <1>6

LEMMA ReselectMaps ==
    ASSUME RInv, ~Shared, NEW c \in Caller, Reselect(c)
    PROVE  Contract!Next
<1>1. /\ pc[c] = "reselect" /\ IInv /\ CallOK(c) /\ StagedOK(c) /\ RepliesOK(c)
      /\ UNCHANGED <<db, closed, call, before>>
    BY DEF Reselect, RInv, IInv
<1>2. Contract!Waiting(c) /\ call[c].op = "get_or_create_subject" /\ staged[c] = Nothing
    BY <1>1, IsWaiting DEF CallOK, StagedOK
<1>3. Visible(c) = db
    BY <1>1, <1>2, NothingSeen
<1>4. Contract!Missing(db, DOMAIN call[c].put) = {}
    BY <1>1 DEF RepliesOK, Contract!Missing
<1>5. reply' = [reply EXCEPT ![c] = Contract!Ok(Contract!Rows(db, DOMAIN call[c].put))]
    BY <1>3, <1>4 DEF Reselect, Conclude
<1> QED BY <1>1, <1>2, <1>4, <1>5, SubjectFound

(* A commit makes durable what the operation promises, and answers it.     *)
LEMMA CommitOutcome ==
    ASSUME RInv, ~Shared, NEW c \in Caller, Commit(c), call[c].op \in Updates => OneUpdater
    PROVE  Contract!Outcome(db', Committed(c)) \in Contract!Outcomes(c, call[c])
<1> DEFINE r == call[c]
           put == call[c].put
           fresh == loc[c].fresh
<1>1. /\ IInv /\ pc[c] = "commit" /\ CallOK(c) /\ Serving(c)
      /\ db \in [Keys -> Values \cup {None}]
    BY CommitSays DEF RInv, IInv, TypesOK, SqlTypeOK
<1>2. /\ db' = [k \in Keys |-> IF k \in fresh THEN Written(c)[k] ELSE db[k]]
      /\ r.op \in Inserts => \A k \in fresh : db[k] = None
    BY <1>1, CommitSays
<1>3. /\ r \in Request /\ r.op \in Inserts \cup Updates /\ r # None
      /\ fresh \subseteq DOMAIN put /\ DOMAIN put \subseteq Keys
      /\ Written(c) = [k \in fresh |-> IF r.op = "get_or_create_subject" THEN c ELSE put[k]]
    BY <1>1, WritesSay
<1>4. r.op \notin Updates \cup {"revoke_many"} => fresh = DOMAIN put
    BY <1>1 DEF CallOK
<1>5. r.op \notin Updates => Committed(c) = Contract!Rows(Written(c), fresh)
    BY DEF Committed
<1>6. CASE r.op \in Inserts \ {"revoke_many", "get_or_create_subject"}
    <2>1. r.op \notin Updates /\ fresh = DOMAIN put
        BY <1>4, <1>6, Kinds
    <2>2. \A k \in fresh : Written(c)[k] = put[k]
        BY <1>3, <1>6
    <2>3. db' = Contract!Put(db, put)
        BY <1>2, <2>1, <2>2 DEF Contract!Put
    <2>4. Committed(c) = Contract!Rows(put, DOMAIN put)
        BY <1>5, <2>1, <2>2 DEF Contract!Rows
    <2>5. Contract!Outcome(db', Committed(c)) \in Contract!PutRows(r)
        BY <2>3, <2>4 DEF Contract!PutRows
    <2>6. Contract!Present(db, DOMAIN put) = {}
        BY <1>2, <1>6, <2>1 DEF Contract!Present
    <2>7. /\ Contract!PutNew(r) = Contract!PutRows(r)
          /\ Contract!AddEdge(r) = Contract!PutRows(r)
        BY <2>6 DEF Contract!PutNew, Contract!AddEdge
    <2>8. Contract!Outcomes(c, r) = Contract!PutRows(r)
        BY <1>6, <2>7, OutcomesOf, Kinds
    <2> QED BY <2>5, <2>8
<1>7. CASE r.op = "revoke_many"
    <2>1. r.op \notin Updates /\ r.op \in Inserts
        BY <1>7, Kinds
    <2>2. fresh = Contract!Missing(db, DOMAIN put)
        <3>1. \A k \in DOMAIN put \ fresh : db[k] # None
            BY <1>1, <1>3, <1>7 DEF Serving, RevokedOK, Writing
        <3> QED BY <1>2, <1>3, <2>1, <3>1 DEF Contract!Missing
    <2>3. \A k \in fresh : Written(c)[k] = put[k]
        BY <1>3, <1>7
    <2>4. db' = Contract!Put(db, Contract!Only(put, fresh))
        BY <1>2, <2>3 DEF Contract!Put, Contract!Only
    <2>5. Committed(c) = Contract!Rows(put, fresh)
        BY <1>5, <2>1, <2>3 DEF Contract!Rows
    <2>6. Contract!Outcome(db', Committed(c)) \in Contract!RevokeMany(r)
        BY <2>2, <2>4, <2>5 DEF Contract!RevokeMany
    <2> QED BY <1>7, <2>6, OutcomesOf
<1>8. CASE r.op = "get_or_create_subject"
    <2>1. r.op \notin Updates /\ r.op \in Inserts /\ fresh = DOMAIN put
        BY <1>4, <1>8, Kinds
    <2>2. Contract!Missing(db, DOMAIN put) = DOMAIN put
        BY <1>2, <2>1 DEF Contract!Missing
    <2>3. \A k \in fresh : Written(c)[k] = c
        BY <1>3, <1>8
    <2>4. db' = Contract!Put(db, [k \in DOMAIN put |-> c])
        BY <1>2, <2>1, <2>3 DEF Contract!Put
    <2>5. Committed(c) = Contract!Rows(db', DOMAIN put)
        <3>1. \A k \in DOMAIN put : db'[k] = Written(c)[k]
            BY <1>2, <1>3, <2>1
        <3> QED BY <1>5, <2>1, <3>1 DEF Contract!Rows
    <2>6. Contract!Outcome(db', Committed(c)) \in Contract!GetOrCreateSubject(c, r)
        BY <2>2, <2>4, <2>5 DEF Contract!GetOrCreateSubject
    <2> QED BY <1>8, <2>6, OutcomesOf
<1>9. CASE r.op \in Updates
    <2>1. \A k \in DOMAIN put : db[k] # None /\ (k \notin fresh => db[k] = put[k])
        BY <1>1, <1>3, <1>9 DEF Serving, UpdateOK
    <2>2. \A k \in fresh : Written(c)[k] = put[k]
        BY <1>3, <1>9 DEF Updates
    <2>3. db' = Contract!Put(db, put)
        BY <1>2, <1>3, <2>1, <2>2 DEF Contract!Put
    <2>4. Committed(c) = Contract!Rows(put, DOMAIN put)
        BY <1>9 DEF Committed
    <2>5. Contract!Outcome(db', Committed(c)) \in Contract!PutRows(r)
        BY <2>3, <2>4 DEF Contract!PutRows
    <2>6. Contract!Missing(db, DOMAIN put) = {}
        BY <2>1 DEF Contract!Missing
    <2>7. Contract!Outcomes(c, r) = Contract!PutRows(r)
        BY <1>9, <2>6, OutcomesOf DEF Updates, Contract!UpdateRow, Contract!CloseAction
    <2> QED BY <2>5, <2>7
<1> QED BY <1>3, <1>6, <1>7, <1>8, <1>9

(* An update beside another one writes the columns it found different.     *)
LEMMA CommitMixes ==
    ASSUME RInv, ~Shared, NEW c \in Caller, Commit(c), call[c].op \in Updates
    PROVE  Mixes(c)
<1>1. IInv /\ pc[c] = "commit" /\ CallOK(c) /\ Serving(c)
    BY CommitSays DEF RInv, IInv
<1>2. /\ db' = [k \in Keys |-> IF k \in loc[c].fresh THEN Written(c)[k] ELSE db[k]]
      /\ UNCHANGED <<closed, call, before>>
    BY <1>1, CommitSays
<1>3. /\ loc[c].fresh \subseteq DOMAIN call[c].put /\ call[c] # None
      /\ Written(c) = [k \in loc[c].fresh |-> call[c].put[k]]
    BY <1>1, WritesSay DEF Updates
<1>4. db' = Contract!Put(db, Contract!Only(call[c].put, loc[c].fresh))
    BY <1>2, <1>3 DEF Contract!Put, Contract!Only
<1>5. Contract!Missing(db, DOMAIN call[c].put) = {}
    BY <1>1, <1>3 DEF Serving, UpdateOK, Contract!Missing
<1>6. Committed(c) = Contract!Rows(call[c].put, DOMAIN call[c].put)
    BY DEF Committed
<1>7. \/ reply' = [reply EXCEPT ![c] = Contract!Ok(Committed(c))]
      \/ reply' = [reply EXCEPT ![c] = Contract!Raised]
    BY DEF Commit, Conclude, Break
<1>8. Contract!Waiting(c)
    BY <1>1, IsWaiting
<1> QED BY <1>2, <1>3, <1>4, <1>5, <1>6, <1>7, <1>8 DEF Mixes

LEMMA CommitMaps ==
    ASSUME RInv, ~Shared, NEW c \in Caller, Commit(c), call[c].op \in Updates => OneUpdater
    PROVE  Contract!Next
<1>1. Contract!Outcome(db', Committed(c)) \in Contract!Outcomes(c, call[c])
    BY CommitOutcome
<1>2. pc[c] = "commit" /\ UNCHANGED <<closed, call, before>> /\ IInv
    BY CommitSays DEF RInv
<1>3. \/ reply' = [reply EXCEPT ![c] = Contract!Ok(Committed(c))]
      \/ reply' = [reply EXCEPT ![c] = Contract!Raised]
    BY DEF Commit, Conclude, Break
<1>4. Contract!Waiting(c)
    BY <1>2, IsWaiting
<1> QED BY <1>1, <1>2, <1>3, <1>4, Served

LEMMA BreakMaps ==
    ASSUME RInv, NEW c \in Caller, pc[c] \notin {"idle", "exit", "return"},
           NEW l, Break(c, l), UNCHANGED <<db, closed, call, before>>
    PROVE  Contract!Next
<1>1. Contract!Waiting(c)
    BY IsWaiting DEF RInv
<1> QED BY <1>1, Refused DEF Break, Conclude

LEMMA ReturnMaps ==
    ASSUME RInv, NEW c \in Caller, pc[c] \in {"exit", "return"},
           reply[c] # Contract!NoReply, Return(c), UNCHANGED <<db, closed>>
    PROVE  Contract!Next
<1>1. CallOK(c)
    BY DEF RInv, IInv
<1>2. call[c] # None
    BY <1>1, Asked DEF CallOK
<1>3. Contract!Return(c)
    BY <1>2 DEF Return, Contract!Return
<1> QED BY <1>3 DEF Contract!Next

LEMMA AskMaps ==
    ASSUME RInv, NEW c \in Caller, Ask(c)
    PROVE  Contract!Next
<1>1. pc[c] = "idle" /\ CallOK(c) /\ UNCHANGED <<db, closed, reply>>
    BY DEF Ask, RInv, IInv
<1>2. call[c] = None
    BY <1>1 DEF CallOK
<1>3. \E r \in Request : /\ call' = [call EXCEPT ![c] = r]
                         /\ before' = [before EXCEPT ![c] = Contract!History(r)]
    BY ScenarioOK DEF Ask, RInv
<1>4. Contract!Ask(c)
    BY <1>1, <1>2, <1>3 DEF Contract!Ask
<1> QED BY <1>4 DEF Contract!Next

LEMMA TakesMaps ==
    ASSUME RInv, ~Shared, NEW c \in Caller, Takes(c)
    PROVE  Contract!Next \/ UNCHANGED contract \/ (~OneUpdater /\ Mixes(c))
<1>1. CASE Open(c) \/ PoolTimeout(c)
    <2>1. pc[c] = "open" /\ UNCHANGED <<db, closed, call, before>>
        BY <1>1 DEF Open, PoolTimeout
    <2>2. CASE Break(c, "return")
        BY <2>1, <2>2, BreakMaps
    <2>3. CASE UNCHANGED reply
        BY <2>1, <2>3 DEF contract
    <2> QED BY <1>1, <2>2, <2>3 DEF Open, PoolTimeout
<1>2. CASE Fail(c)
    <2>1. /\ pc[c] \in {"select", "flush", "commit", "reselect"} /\ Break(c, "exit")
          /\ UNCHANGED <<db, closed, call, before>>
        BY <1>2 DEF Fail
    <2> QED BY <2>1, BreakMaps
<1>3. CASE Select(c)
    BY <1>3, LookupMaps, WalkMaps, RevokedAmongMaps, FindSubjectMaps, LoadRecordMaps DEF Select
<1>4. CASE Flush(c)
    BY <1>4 DEF Flush
<1>5. CASE Exit(c)
    <2>1. pc[c] = "exit" /\ UNCHANGED <<db, closed>>
        BY <1>5 DEF Exit
    <2>2. CASE reply[c] = Contract!NoReply
        BY <1>5, <2>2 DEF Exit, contract
    <2>3. CASE reply[c] # Contract!NoReply
        BY <1>5, <2>1, <2>3, ReturnMaps DEF Exit
    <2> QED BY <2>2, <2>3
<1>6. CASE Leave(c)
    <2>1. pc[c] = "return" /\ UNCHANGED <<db, closed>> /\ Return(c)
        BY <1>6 DEF Leave
    <2>2. reply[c] # Contract!NoReply
        BY <2>1 DEF RInv, IInv, CallOK
    <2> QED BY <2>1, <2>2, ReturnMaps
<1> QED BY <1>1, <1>2, <1>3, <1>4, <1>5, <1>6, AskMaps, FlushConflictMaps, ReselectMaps,
        CommitMaps, CommitMixes DEF Takes, Step

LEMMA NextMaps ==
    ASSUME RInv, ~Shared, [Next]_vars
    PROVE  /\ Contract!Next \/ UNCHANGED contract \/ \E c \in Caller : Mixes(c)
           /\ OneUpdater => [Contract!Next]_(Contract!vars)
<1> DEFINE Mixed == ~OneUpdater /\ \E c \in Caller : Mixes(c)
<1>1. UNCHANGED contract => UNCHANGED Contract!vars
    BY DEF contract, Contract!vars
<1>2. ASSUME NEW c \in Caller, Takes(c) PROVE Contract!Next \/ UNCHANGED contract \/ Mixed
    BY <1>2, TakesMaps
<1>3. ASSUME Close PROVE Contract!Next
    BY <1>3 DEF Close, Contract!Close, Contract!Next
<1>4. ASSUME Restart PROVE Contract!Next
    BY <1>4 DEF Restart, Contract!Restart, Contract!Next
<1>5. UNCHANGED vars => UNCHANGED contract
    BY DEF vars
<1>6. Contract!Next \/ UNCHANGED contract \/ Mixed
    BY <1>2, <1>3, <1>4, <1>5 DEF Next, Takes
<1> QED BY <1>1, <1>6

LEMMA RInvHolds ==
    ASSUME ~Shared
    PROVE  Spec => []RInv
<1>1. Init => RInv
    BY RInvInit
<1>2. RInv /\ [Next]_vars => RInv'
    BY RInvNext
<1> QED BY <1>1, <1>2, PTL DEF Spec

(* With a connection for each session, and no record that two callers      *)
(* update, SqlStorage is a Storage: whatever the interleaving of sessions, *)
(* conflicts, lost acknowledgements, restarts and closes, each operation   *)
(* takes effect at one instant between its call and its return or raises,  *)
(* and a walk over any tree finds what was below its root when it began.   *)
THEOREM ImplementsStorageHolds ==
    ASSUME ~Shared, OneUpdater
    PROVE  Spec => ImplementsStorage
<1>1. Init => Contract!Init
    <2> SUFFICES ASSUME Init PROVE Contract!Init
        OBVIOUS
    <2>1. db \in [Keys -> Values \cup {None}]
        BY InitInv DEF IInv, TypesOK, SqlTypeOK
    <2> QED BY <2>1 DEF Init, Contract!Init
<1>2. RInv /\ [Next]_vars => [Contract!Next]_(Contract!vars)
    BY NextMaps
<1> QED BY <1>1, <1>2, RInvHolds, PTL DEF Spec, ImplementsStorage, Contract!Spec

(* With a connection for each session, whatever two callers update at once *)
(* is all that departs from Storage: every step is a step of it, a stutter,*)
(* or an update of a record that is there, which writes at one instant     *)
(* some of the columns it was asked to write and nothing else.  No lookup, *)
(* insert, revocation or walk is affected.                                 *)
THEOREM UpdatesMixAtMost ==
    ASSUME ~Shared
    PROVE  Spec => [][Contract!Next \/ \E c \in Caller : Mixes(c)]_contract
<1>1. RInv /\ [Next]_vars => [Contract!Next \/ \E c \in Caller : Mixes(c)]_contract
    BY NextMaps
<1> QED BY <1>1, RInvHolds, PTL DEF Spec

=============================================================================
