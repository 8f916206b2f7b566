-------------------------------- MODULE Storage --------------------------------
(***************************************************************************)
(* What agperms asks of a storage backend, its Storage protocol: every     *)
(* operation takes effect at one instant between its call and its return,  *)
(* or it raises.  The effects are those of MemoryStorage, which runs each  *)
(* operation under one reentrant lock.  Three things more are allowed,     *)
(* because a backend behind a network cannot do without: an operation may  *)
(* raise and leave no trace, it may raise although it took effect (the     *)
(* commit was not acknowledged), and the walk of a tree that grows in the  *)
(* meantime may miss what was added after it began.                        *)
(*                                                                         *)
(* A row is a key and a value.  A request holds the rows it is about, in   *)
(* `put': those it writes, or, for a lookup, any rows with these keys.  A  *)
(* record that is updated column by column has a key for each column.      *)
(***************************************************************************)
EXTENDS Integers, Sequences, FiniteSets

CONSTANTS
    Caller,   \* the threads that share one storage object
    Jti,      \* token ids
    Keys,     \* the keys of the rows: <<table, id>>, <<"edge", parent, child>>
    Values,   \* what the rows say: "row", a status, the id of a subject
    Request,  \* what the callers ask for
    None      \* no row, no request

Op == {"put_token", "put_action", "append_audit_batch", "put_approval", "put_review",
       "add_edge", "revoke_many", "get_or_create_subject", "close_action",
       "update_approval", "update_review", "read", "is_revoked", "descendants"}

(* What is assumed of the constants; SqlStorage assumes it.                *)
WellFormed ==
    /\ None \notin Values /\ None \notin Request
    /\ {"row"} \cup Caller \subseteq Values
    /\ \A p, j \in Jti : <<"edge", p, j>> \in Keys
    /\ \A r \in Request :
         /\ r.op \in Op /\ DOMAIN r.put \subseteq Keys
         /\ \A k \in DOMAIN r.put : r.put[k] \in Values
         /\ r.op = "descendants" => r.root \in Jti

VARIABLES
    db,      \* the rows
    closed,  \* close() was called
    call,    \* the request each caller waits for
    reply,   \* what it will be told
    before   \* history: what held when it called

vars == <<db, closed, call, reply, before>>

NoReply  == [status |-> "none", rows |-> {}]
Raised   == [status |-> "error", rows |-> {}]
Ok(rows) == [status |-> "ok", rows |-> rows]
NoHistory == [reach |-> {}, closed |-> FALSE]

Present(contents, keys) == {k \in keys : contents[k] # None}
Missing(contents, keys) == {k \in keys : contents[k] = None}
Put(contents, put) == [k \in Keys |-> IF k \in DOMAIN put THEN put[k] ELSE contents[k]]
Rows(contents, keys) == {<<k, contents[k]>> : k \in keys}
Only(put, keys) == [k \in keys |-> put[k]]

(* children_of: the tokens one level below `parents'.                      *)
Children(contents, parents) ==
    {j \in Jti : \E p \in parents : contents[<<"edge", p, j>>] # None}

(* descendants_breadth_first: the root, and all that can be reached from it*)
Below(contents, found) == Children(contents, found) \subseteq found
Descendants(contents, root) ==
    {j \in Jti : \A found \in SUBSET Jti :
                   root \in found /\ Below(contents, found) => j \in found}

-----------------------------------------------------------------------------
(* What each operation may do to the rows, and answer.                     *)

Outcome(contents, rows) == [db |-> contents, rows |-> rows]

(* put_approval, put_review, append_audit_batch: all of the rows at once.  *)
PutRows(r) == {Outcome(Put(db, r.put), Rows(r.put, DOMAIN r.put))}

(* put_token, put_action: the row must be new.                             *)
PutNew(r) == IF Present(db, DOMAIN r.put) = {} THEN PutRows(r) ELSE {}

(* A duplicate edge is no error.                                           *)
AddEdge(r) == PutRows(r)

(* All of the tokens are revoked at once; the answer is those that were    *)
(* not revoked yet.                                                        *)
RevokeMany(r) ==
    LET fresh == Missing(db, DOMAIN r.put) IN
    {Outcome(Put(db, Only(r.put, fresh)), Rows(r.put, fresh))}

(* The subject of this hash and kind, made (with a new id) if there is none*)
GetOrCreateSubject(c, r) ==
    LET new   == [k \in Missing(db, DOMAIN r.put) |-> c]
        after == Put(db, new)
    IN  {Outcome(after, Rows(after, DOMAIN r.put))}

(* update_approval, update_review: the record must be there, and is        *)
(* replaced as a whole.                                                    *)
UpdateRow(r) == IF Missing(db, DOMAIN r.put) = {} THEN PutRows(r) ELSE {}

(* There may be no such action: that is an answer.                         *)
CloseAction(r) ==
    IF Missing(db, DOMAIN r.put) = {} THEN PutRows(r) ELSE {Outcome(db, {})}

(* The lookups and lists.                                                  *)
Read(r) == {Outcome(db, Rows(db, DOMAIN r.put))}

(* A storage that was closed must not answer.                              *)
IsRevoked(c, r) == IF before[c].closed THEN {} ELSE Read(r)

Walk(c, r) ==
    {Outcome(db, {<<<<"descendant", j>>, "row">> : j \in found}) :
       found \in {s \in SUBSET Descendants(db, r.root) : before[c].reach \subseteq s}}

Outcomes(c, r) ==
    CASE r.op \in {"append_audit_batch", "put_approval", "put_review"} -> PutRows(r)
      [] r.op \in {"put_token", "put_action"}  -> PutNew(r)
      [] r.op = "add_edge"                     -> AddEdge(r)
      [] r.op = "revoke_many"                  -> RevokeMany(r)
      [] r.op = "get_or_create_subject"        -> GetOrCreateSubject(c, r)
      [] r.op \in {"update_approval", "update_review"} -> UpdateRow(r)
      [] r.op = "close_action"                 -> CloseAction(r)
      [] r.op = "read"                         -> Read(r)
      [] r.op = "is_revoked"                   -> IsRevoked(c, r)
      [] r.op = "descendants"                  -> Walk(c, r)

-----------------------------------------------------------------------------
History(r) ==
    [reach |-> IF r.op = "descendants" THEN Descendants(db, r.root) ELSE {},
     closed |-> closed]

Ask(c) ==
    /\ call[c] = None
    /\ \E r \in Request :
         /\ call' = [call EXCEPT ![c] = r]
         /\ before' = [before EXCEPT ![c] = History(r)]
    /\ UNCHANGED <<db, closed, reply>>

Waiting(c) == call[c] # None /\ reply[c] = NoReply

(* The operation takes effect; it may raise all the same.                  *)
Serve(c) ==
    /\ Waiting(c)
    /\ \E o \in Outcomes(c, call[c]) :
         /\ db' = o.db
         /\ \E answer \in {Ok(o.rows), Raised} : reply' = [reply EXCEPT ![c] = answer]
    /\ UNCHANGED <<closed, call, before>>

(* It raises, and nothing happened.                                        *)
Refuse(c) ==
    /\ Waiting(c)
    /\ reply' = [reply EXCEPT ![c] = Raised]
    /\ UNCHANGED <<db, closed, call, before>>

Return(c) ==
    /\ call[c] # None
    /\ reply[c] # NoReply
    /\ call' = [call EXCEPT ![c] = None]
    /\ reply' = [reply EXCEPT ![c] = NoReply]
    /\ before' = [before EXCEPT ![c] = NoHistory]
    /\ UNCHANGED <<db, closed>>

Close ==
    /\ closed' = TRUE
    /\ UNCHANGED <<db, call, reply, before>>

(* The process dies: the calls are gone, the rows stay.                    *)
Restart ==
    /\ closed' = FALSE
    /\ call' = [c \in Caller |-> None]
    /\ reply' = [c \in Caller |-> NoReply]
    /\ before' = [c \in Caller |-> NoHistory]
    /\ UNCHANGED db

Init ==
    /\ db \in [Keys -> Values \cup {None}]
    /\ closed = FALSE
    /\ call = [c \in Caller |-> None]
    /\ reply = [c \in Caller |-> NoReply]
    /\ before = [c \in Caller |-> NoHistory]

Next ==
    \/ \E c \in Caller : Ask(c) \/ Serve(c) \/ Refuse(c) \/ Return(c)
    \/ Close
    \/ Restart

Spec == Init /\ [][Next]_vars
=============================================================================
