--------------------------- MODULE DelegationEngine ---------------------------
(***************************************************************************)
(* The enforcement checkpoint of the service: DelegationEngine with the    *)
(* transaction get_db opens around every request.                          *)
(*                                                                         *)
(* FastAPI runs a synchronous handler on a pool thread, so several         *)
(* requests are in their handlers at once.  A handler reads committed rows *)
(* (Postgres, READ COMMITTED), stages its own writes in its session, and   *)
(* session_scope commits them after the handler returns, or rolls them     *)
(* back when it raises.  The audit log has a session of its own, so an     *)
(* audit row is durable before the request it belongs to commits.          *)
(*                                                                         *)
(* One action is one step between two reads or flushes of the database;    *)
(* what a handler computes in between is part of that action.  A handler   *)
(* that returns an error has staged nothing that survives: it Ends.        *)
(*                                                                         *)
(* Revocation lookups read the rows of the revocation table; the Redis     *)
(* cache in front of them is the subject of RevocationStore.               *)
(***************************************************************************)
EXTENDS Integers, Sequences, FiniteSets

CONSTANTS
    Worker,           \* request threads, each serving one request at a time
    Jti,              \* token ids (uuid4: never drawn twice)
    Approval,         \* approval ids (uuid4)
    Scope,
    Sensitive,        \* settings.sensitive_scopes
    TTLs,             \* the ttl_seconds a client may ask for
    MaxTTL,           \* settings.max_ttl_seconds
    Depths,           \* the max_depth a root token may be minted with
    ApprovalTimeout,  \* settings.approval_timeout_seconds
    Horizon,          \* bound: the clock stops here, in half seconds
    Calls,            \* the endpoints that the clients of each worker call
    None              \* no token, no approval

Endpoint == {"root", "delegate", "verify", "approve", "deny", "collect", "revoke"}

ASSUME EngineAssumption ==
    /\ Sensitive \subseteq Scope
    /\ TTLs \subseteq Nat
    /\ Depths \subseteq Nat
    /\ MaxTTL \in Nat
    /\ ApprovalTimeout \in Nat
    /\ Horizon \in Nat
    /\ Calls \in [Worker -> SUBSET Endpoint]
    /\ None \notin Jti \cup Approval

VARIABLES
    now,      \* the wall clock, in half seconds
    signed,   \* the jtis of the JWTs signed so far
    claims,   \* what each JWT says
    asked,    \* what each approval request asks for
    records,  \* committed token_record rows
    edges,    \* committed delegation_edge rows
    revoked,  \* committed revocation rows
    gate,     \* committed pending_approval rows
    audit,    \* durable audit rows: <<action, id>>
    pc,       \* where the handler of each worker is
    req,      \* the request it serves
    loc,      \* its local variables
    txn,      \* the writes staged in its session
    known     \* history: what was committed when its request arrived

world   == <<now, signed, claims, asked, audit>>
db      == <<records, edges, revoked, gate>>
threads == <<pc, req, loc, txn, known>>
vars    == <<now, signed, claims, asked, audit, records, edges, revoked, gate,
             pc, req, loc, txn, known>>

-----------------------------------------------------------------------------
(* The data.                                                               *)

Claims == [scopes : SUBSET Scope, exp : Nat, chain : Seq(Jti), depth : Nat,
           maxDepth : Nat, root : Jti, via : Approval \cup {None}]
Ask    == [parent : Jti \cup {None}, scopes : SUBSET Scope, ttl : Nat,
           parentExp : Nat, expires : Nat]
Status == {"absent", "pending", "approved", "denied", "expired"}
Row    == [status : Status, child : Jti \cup {None}, collected : BOOLEAN]
Label  == {"idle", "lookup", "mint", "allowed", "load", "sign", "decide",
           "expire", "refresh", "mark", "walk", "already", "insert", "commit"}
Request == [op : Endpoint \cup {"none"}, tok : Jti \cup {None},
            scopes : SUBSET Scope, ttl : Nat, appr : Approval \cup {None}]
Local  == [todo : Seq(Jti), seen : SUBSET Jti, level : SUBSET Jti,
           stale : SUBSET Approval]
Staged == [tokens : SUBSET Jti, edges : SUBSET (Jti \X Jti), revoked : SUBSET Jti,
           status : [Approval -> Status \cup {"keep"}], collected : SUBSET Approval]

AuditRow == {"root_token_minted", "token_minted", "approval_pending", "approval_granted",
             "approval_rejected", "approval_denied", "approval_expired", "token_revoked"}
              \X (Jti \cup Approval)

NoRequest == [op |-> "none", tok |-> None, scopes |-> {}, ttl |-> 0, appr |-> None]
NoLocal   == [todo |-> <<>>, seen |-> {}, level |-> {}, stale |-> {}]
NoWrites  == [tokens |-> {}, edges |-> {}, revoked |-> {},
              status |-> [a \in Approval |-> "keep"], collected |-> {}]

(* utcnow_ts() drops the fraction of the second that utcnow() keeps: exp is *)
(* compared with whole seconds, a timestamp column with the exact instant.  *)
Seconds == now \div 2
TokenExpired(exp) == exp < Seconds
InstantPassed(ts) == 2 * ts < now

Lesser(m, n) == IF m <= n THEN m ELSE n

(* The token and everything it descends from; verify and delegate look up  *)
(* its own jti, then those of its chain, oldest first.                     *)
Lineage(j) == {j} \cup {claims[j].chain[i] : i \in 1 .. Len(claims[j].chain)}

(* Mutant: the ancestors are looked up, the token itself is not. *)
Lookups_ChainOnly(j) == claims[j].chain

(* Mutant: the token is looked up, its ancestors are not. *)
Lookups_OwnJtiOnly(j) == <<j>>

Lookups(j) == <<j>> \o claims[j].chain

(* Mutant: one ordinary scope lets the sensitive ones through. *)
NeedsApproval_MixedRequest(scopes) == scopes \subseteq Sensitive

NeedsApproval(scopes) == scopes \cap Sensitive # {}

(* A row that another transaction has updated and not committed makes an   *)
(* UPDATE of it wait.                                                      *)
RowsLocked(w) == {a \in Approval : txn[w].status[a] \in {"approved", "denied", "expired"}}
                   \cup txn[w].collected
Unlocked(w, A) == \A v \in Worker \ {w} : RowsLocked(v) \cap A = {}

-----------------------------------------------------------------------------
(* Steps every handler takes.                                              *)

Goto(w, l)  == pc' = [pc EXCEPT ![w] = l]
Stage(w, t) == txn' = [txn EXCEPT ![w] = t]

Arrive(w, r, l, local, seen) ==
    /\ pc[w] = "idle"
    /\ r.op \in Calls[w]
    /\ req' = [req EXCEPT ![w] = r]
    /\ loc' = [loc EXCEPT ![w] = local]
    /\ known' = [known EXCEPT ![w] = seen]
    /\ Goto(w, l)

(* Mutant: the session is neither rolled back nor closed. *)
End_TransactionLeftOpen(w) ==
    /\ pc' = [pc EXCEPT ![w] = "idle"]
    /\ req' = [req EXCEPT ![w] = NoRequest]
    /\ loc' = [loc EXCEPT ![w] = NoLocal]
    /\ UNCHANGED txn
    /\ known' = [known EXCEPT ![w] = {}]

(* The handler raises, or has nothing to commit: the session is closed and *)
(* what it staged is gone.                                                 *)
End(w) ==
    /\ pc' = [pc EXCEPT ![w] = "idle"]
    /\ req' = [req EXCEPT ![w] = NoRequest]
    /\ loc' = [loc EXCEPT ![w] = NoLocal]
    /\ txn' = [txn EXCEPT ![w] = NoWrites]
    /\ known' = [known EXCEPT ![w] = {}]

(* session.commit(): the staged rows become visible together.  An UPDATE   *)
(* writes only the columns its handler changed.                            *)
Commit(w) ==
    /\ pc[w] = "commit"
    /\ records' = records \cup txn[w].tokens
    /\ edges' = edges \cup txn[w].edges
    /\ revoked' = revoked \cup txn[w].revoked
    /\ gate' = [a \in Approval |->
         [status    |-> IF txn[w].status[a] = "keep" THEN gate[a].status
                                                     ELSE txn[w].status[a],
          child     |-> IF txn[w].status[a] = "approved"
                        THEN CHOOSE j \in txn[w].tokens : TRUE ELSE gate[a].child,
          collected |-> gate[a].collected \/ a \in txn[w].collected]]
    /\ End(w)
    /\ UNCHANGED world

(* The commit fails, a guardrail refuses the request (429, 503), or the    *)
(* database connection is lost in the middle of the handler.               *)
Abort(w) ==
    /\ pc[w] # "idle"
    /\ End(w)
    /\ UNCHANGED <<world, db>>
-----------------------------------------------------------------------------
(* Minting.                                                                *)

Fresh == Jti \ signed
FreshApproval == {a \in Approval : asked[a].parent = None}

(* Bound: a request that will need an id is opened while one is left for it. *)
IdLeft ==
    Cardinality({w \in Worker : /\ req[w].op \in {"delegate", "approve"}
                               /\ ~NeedsApproval(req[w].scopes)
                               /\ txn[w].tokens = {}}) < Cardinality(Fresh)
ApprovalIdLeft ==
    Cardinality({w \in Worker : /\ req[w].op = "delegate"
                               /\ NeedsApproval(req[w].scopes)})
      < Cardinality(FreshApproval)

Sign(j, c) ==
    /\ signed' = signed \cup {j}
    /\ claims' = [claims EXCEPT ![j] = c]

(* Mutant: every event is buffered in memory, as verify_success is. *)
Log_Buffered(rows) == audit' = audit

Log(rows) == audit' = audit \cup rows

(* Mutant: a root token leaves root_jti unset. *)
RootClaims_NoRoot(j, scopes, ttl, depth) ==
    [scopes |-> scopes, exp |-> Seconds + Lesser(ttl, MaxTTL), chain |-> <<>>,
     depth |-> 0, maxDepth |-> depth, root |-> None, via |-> None]

RootClaims(j, scopes, ttl, depth) ==
    [scopes |-> scopes, exp |-> Seconds + Lesser(ttl, MaxTTL), chain |-> <<>>,
     depth |-> 0, maxDepth |-> depth, root |-> j, via |-> None]

(* Mutant: the ttl asked for decides alone. *)
ChildExp_Unclamped(ttl, parentExp) == Seconds + ttl

(* The expiry of a child: never later than the expiry of its parent, which *)
(* delegate reads in the claims and approve in the row of the request.     *)
ChildExp(ttl, parentExp) == Lesser(Seconds + ttl, parentExp)

ChildClaims(p, scopes, exp, approval) ==
    [scopes |-> scopes, exp |-> exp, chain |-> Append(claims[p].chain, p),
     depth |-> claims[p].depth + 1, maxDepth |-> claims[p].maxDepth,
     root |-> claims[p].root, via |-> approval]

(* _persist_token and record_edge in one session.                          *)
Persist(w, p, j) ==
    Stage(w, [txn[w] EXCEPT !.tokens = {j}, !.edges = {<<p, j>>}])

MintRoot(w) ==
    \E j \in Fresh, scopes \in SUBSET Scope \ {{}}, ttl \in TTLs, depth \in Depths :
        /\ IdLeft
        /\ Arrive(w, [NoRequest EXCEPT !.op = "root", !.scopes = scopes, !.ttl = ttl],
                  "commit", NoLocal, {})
        /\ Sign(j, RootClaims(j, scopes, ttl, depth))
        /\ Stage(w, [txn[w] EXCEPT !.tokens = {j}])
        /\ Log({<<"root_token_minted", j>>})
        /\ UNCHANGED <<now, asked, db>>

-----------------------------------------------------------------------------
(* delegate and verify: the presented token is decoded and compared with   *)
(* the clock, then is_revoked is asked once for every jti of its lineage.  *)

Delegate(w) ==
    \E j \in records, scopes \in SUBSET Scope \ {{}}, ttl \in TTLs :
        /\ IF NeedsApproval(scopes) THEN ApprovalIdLeft ELSE IdLeft
        /\ ~TokenExpired(claims[j].exp)
        /\ Arrive(w, [NoRequest EXCEPT !.op = "delegate", !.tok = j,
                                       !.scopes = scopes, !.ttl = ttl],
                  "lookup", [NoLocal EXCEPT !.todo = Lookups(j)], revoked)
        /\ UNCHANGED <<world, db, txn>>

Verify(w) ==
    \E j \in records, s \in Scope :
        /\ ~TokenExpired(claims[j].exp)
        /\ Arrive(w, [NoRequest EXCEPT !.op = "verify", !.tok = j, !.scopes = {s}],
                  "lookup", [NoLocal EXCEPT !.todo = Lookups(j)], revoked)
        /\ UNCHANGED <<world, db, txn>>

LookupRevoked(w) ==
    /\ pc[w] = "lookup"
    /\ loc[w].todo # <<>>
    /\ Head(loc[w].todo) \in revoked
    /\ End(w)
    /\ UNCHANGED <<world, db>>

LookupLive(w) ==
    /\ pc[w] = "lookup"
    /\ loc[w].todo # <<>>
    /\ Head(loc[w].todo) \notin revoked
    /\ loc' = [loc EXCEPT ![w].todo = Tail(@)]
    /\ UNCHANGED <<world, db, pc, req, txn, known>>

VerifyAllows(w) ==
    /\ pc[w] = "lookup"
    /\ req[w].op = "verify"
    /\ loc[w].todo = <<>>
    /\ req[w].scopes \subseteq claims[req[w].tok].scopes
    /\ Goto(w, "allowed")
    /\ UNCHANGED <<world, db, req, loc, txn, known>>

VerifyLacksScope(w) ==
    /\ pc[w] = "lookup"
    /\ req[w].op = "verify"
    /\ loc[w].todo = <<>>
    /\ ~(req[w].scopes \subseteq claims[req[w].tok].scopes)
    /\ End(w)
    /\ UNCHANGED <<world, db>>

Respond(w) ==
    /\ pc[w] = "allowed"
    /\ End(w)
    /\ UNCHANGED <<world, db>>

(* _assert_root_alive: a record at depth 0, the instant it expires at not  *)
(* passed, its jti not revoked.                                            *)
RootAlive(root) ==
    /\ root \in records
    /\ claims[root].depth = 0
    /\ ~InstantPassed(claims[root].exp)
    /\ root \notin revoked

DelegateRootAlive(w) ==
    /\ pc[w] = "lookup"
    /\ req[w].op = "delegate"
    /\ loc[w].todo = <<>>
    /\ RootAlive(claims[req[w].tok].root)
    /\ Goto(w, "mint")
    /\ UNCHANGED <<world, db, req, loc, txn, known>>

DelegateRootBroken(w) ==
    /\ pc[w] = "lookup"
    /\ req[w].op = "delegate"
    /\ loc[w].todo = <<>>
    /\ ~RootAlive(claims[req[w].tok].root)
    /\ End(w)
    /\ UNCHANGED <<world, db>>

(* Mutant: the depth of the parent is compared, not the child's. *)
MayDelegate_ParentDepth(p, scopes) ==
    /\ scopes \subseteq claims[p].scopes
    /\ claims[p].depth <= claims[p].maxDepth

MayDelegate(p, scopes) ==
    /\ scopes \subseteq claims[p].scopes
    /\ claims[p].depth + 1 <= claims[p].maxDepth

DelegateDenied(w) ==
    /\ pc[w] = "mint"
    /\ ~MayDelegate(req[w].tok, req[w].scopes)
    /\ End(w)
    /\ UNCHANGED <<world, db>>

DelegateMint(w) ==
    LET p == req[w].tok IN
    /\ pc[w] = "mint"
    /\ MayDelegate(p, req[w].scopes)
    /\ ~NeedsApproval(req[w].scopes)
    /\ \E j \in Fresh :
         /\ Sign(j, ChildClaims(p, req[w].scopes, ChildExp(req[w].ttl, claims[p].exp), None))
         /\ Persist(w, p, j)
         /\ Log({<<"token_minted", j>>})
    /\ Goto(w, "commit")
    /\ UNCHANGED <<now, asked, db, req, loc, known>>

(* _create_pending_approval: the request is parked, nothing is signed.     *)
DelegatePark(w) ==
    LET p == req[w].tok IN
    /\ pc[w] = "mint"
    /\ MayDelegate(p, req[w].scopes)
    /\ NeedsApproval(req[w].scopes)
    /\ \E a \in FreshApproval :
         /\ asked' = [asked EXCEPT ![a] =
              [parent |-> p, scopes |-> req[w].scopes, ttl |-> req[w].ttl,
               parentExp |-> claims[p].exp,
               expires |-> Lesser(Seconds + ApprovalTimeout, claims[p].exp)]]
         /\ Stage(w, [txn[w] EXCEPT !.status[a] = "pending"])
         /\ Log({<<"approval_pending", a>>})
    /\ Goto(w, "commit")
    /\ UNCHANGED <<now, signed, claims, db, req, loc, known>>

-----------------------------------------------------------------------------
(* The approval gate.  _load_pending reads the row; a row that is decided, *)
(* or whose deadline has passed, is refused with 409 and, the exception    *)
(* rolling the session back, left as it was.                               *)

(* Mutant: a decided request times out too. *)
Stale_Decided(a) == gate[a].status # "absent" /\ InstantPassed(asked[a].expires)

Stale(a) == gate[a].status = "pending" /\ InstantPassed(asked[a].expires)

(* Mutant: only the deadline is checked. *)
LoadPending_Decided(a) == gate[a].status # "absent" /\ ~InstantPassed(asked[a].expires)

LoadPending(a) == gate[a].status = "pending" /\ ~Stale(a)

Approve(w) ==
    \E a \in Approval :
        /\ IdLeft
        /\ LoadPending(a)
        /\ Arrive(w, [NoRequest EXCEPT !.op = "approve", !.appr = a], "load",
                  NoLocal, revoked)
        /\ UNCHANGED <<world, db, txn>>

(* The parent was revoked, or expired, while the request was queued: the   *)
(* new status is staged and flushed, a rejection is audited, the exception *)
(* undoes the former.                                                      *)
ApproveParentRevoked(w) ==
    LET a == req[w].appr IN
    /\ pc[w] = "load"
    /\ asked[a].parent \in revoked
    /\ Unlocked(w, {a})
    /\ Log({<<"approval_rejected", a>>})
    /\ End(w)
    /\ UNCHANGED <<now, signed, claims, asked, db>>

ApproveParentExpired(w) ==
    LET a == req[w].appr IN
    /\ pc[w] = "load"
    /\ asked[a].parent \notin revoked
    /\ TokenExpired(asked[a].parentExp)
    /\ Unlocked(w, {a})
    /\ End(w)
    /\ UNCHANGED <<world, db>>

(* Mutant: what was found when the request was parked is good enough. *)
ApproveParentLive_Unchecked(w) ==
    /\ pc[w] = "load"
    /\ ~TokenExpired(asked[req[w].appr].parentExp)
    /\ Goto(w, "sign")
    /\ UNCHANGED <<world, db, req, loc, txn, known>>

ApproveParentLive(w) ==
    LET a == req[w].appr IN
    /\ pc[w] = "load"
    /\ asked[a].parent \notin revoked
    /\ ~TokenExpired(asked[a].parentExp)
    /\ Goto(w, "sign")
    /\ UNCHANGED <<world, db, req, loc, txn, known>>

(* The child is clamped to the parent_exp stored with the request.         *)
ApproveSign(w) ==
    LET a == req[w].appr
        p == asked[a].parent
    IN
    /\ pc[w] = "sign"
    /\ \E j \in Fresh :
         /\ Sign(j, ChildClaims(p, asked[a].scopes, ChildExp(asked[a].ttl, asked[a].parentExp), a))
         /\ Persist(w, p, j)
    /\ Goto(w, "decide")
    /\ UNCHANGED <<now, asked, audit, db, req, loc, known>>

ApproveDecide(w) ==
    LET a == req[w].appr IN
    /\ pc[w] = "decide"
    /\ req[w].op = "approve"
    /\ Unlocked(w, {a})
    /\ Stage(w, [txn[w] EXCEPT !.status[a] = "approved"])
    /\ Log({<<"approval_granted", j>> : j \in txn[w].tokens})
    /\ Goto(w, "commit")
    /\ UNCHANGED <<now, signed, claims, asked, db, req, loc, known>>

Deny(w) ==
    \E a \in Approval :
        /\ LoadPending(a)
        /\ Arrive(w, [NoRequest EXCEPT !.op = "deny", !.appr = a], "decide",
                  NoLocal, revoked)
        /\ UNCHANGED <<world, db, txn>>

DenyDecide(w) ==
    LET a == req[w].appr IN
    /\ pc[w] = "decide"
    /\ req[w].op = "deny"
    /\ Unlocked(w, {a})
    /\ Stage(w, [txn[w] EXCEPT !.status[a] = "denied"])
    /\ Log({<<"approval_denied", a>>})
    /\ Goto(w, "commit")
    /\ UNCHANGED <<now, signed, claims, asked, db, req, loc, known>>

(* collect_pending: the agent polls.  expire_stale_approvals reads every   *)
(* pending row, audits the stale ones and flushes them together; then the  *)
(* polled row is read again.                                               *)
Collect(w) ==
    \E a \in Approval :
      LET stale == {b \in Approval : Stale(b)} IN
        /\ gate[a].status # "absent"
        /\ Arrive(w, [NoRequest EXCEPT !.op = "collect", !.appr = a],
                  IF stale = {} THEN "refresh" ELSE "expire",
                  [NoLocal EXCEPT !.stale = stale], revoked)
        /\ Log({<<"approval_expired", b>> : b \in stale})
        /\ UNCHANGED <<now, signed, claims, asked, db, txn>>

CollectExpire(w) ==
    LET stale == loc[w].stale IN
    /\ pc[w] = "expire"
    /\ Unlocked(w, stale)
    /\ Stage(w, [txn[w] EXCEPT !.status =
                   [b \in Approval |-> IF b \in stale THEN "expired" ELSE @[b]]])
    /\ Goto(w, "refresh")
    /\ UNCHANGED <<world, db, req, loc, known>>

CollectRefresh(w) ==
    LET a == req[w].appr
        approved == a \notin loc[w].stale /\ gate[a].status = "approved"
    IN
    /\ pc[w] = "refresh"
    /\ Goto(w, IF approved /\ ~gate[a].collected THEN "mark" ELSE "commit")
    /\ UNCHANGED <<world, db, req, loc, txn, known>>

CollectMark(w) ==
    LET a == req[w].appr IN
    /\ pc[w] = "mark"
    /\ Unlocked(w, {a})
    /\ Stage(w, [txn[w] EXCEPT !.collected = {a}])
    /\ Goto(w, "commit")
    /\ UNCHANGED <<world, db, req, loc, known>>

-----------------------------------------------------------------------------
(* revoke: a breadth-first walk of the committed edges, one SELECT a       *)
(* level, then the rows that are missing are inserted and audited.         *)

Descendants(j) == {d \in records : j \in Lineage(d)}

Revoke(w) ==
    \E j \in records :
        /\ Arrive(w, [NoRequest EXCEPT !.op = "revoke", !.tok = j], "walk",
                  [NoLocal EXCEPT !.seen = {j}, !.level = {j}], Descendants(j))
        /\ UNCHANGED <<world, db, txn>>

(* Mutant: the children of the target are selected, level after level. *)
Below_ChildrenOnly(w) == {c \in Jti : <<req[w].tok, c>> \in edges} \ loc[w].seen

Below(w) == {c \in Jti : \E p \in loc[w].level : <<p, c>> \in edges} \ loc[w].seen

RevokeLevel(w) ==
    LET below == Below(w) IN
    /\ pc[w] = "walk"
    /\ loc' = [loc EXCEPT ![w].seen = @ \cup below, ![w].level = below]
    /\ Goto(w, IF below = {} THEN "already" ELSE "walk")
    /\ UNCHANGED <<world, db, req, txn, known>>

RevokeAlready(w) ==
    /\ pc[w] = "already"
    /\ loc' = [loc EXCEPT ![w].level = loc[w].seen \ revoked]
    /\ Goto(w, "insert")
    /\ UNCHANGED <<world, db, req, txn, known>>

(* The jti is the primary key: an INSERT waits for another transaction's   *)
(* uncommitted row, and fails once that row is committed.                  *)
RevokeInsert(w) ==
    /\ pc[w] = "insert"
    /\ \A v \in Worker \ {w} : txn[v].revoked \cap loc[w].level = {}
    /\ loc[w].level \cap revoked = {}
    /\ Stage(w, [txn[w] EXCEPT !.revoked = loc[w].level])
    /\ Log({<<"token_revoked", t>> : t \in loc[w].seen})
    /\ Goto(w, "commit")
    /\ UNCHANGED <<now, signed, claims, asked, db, req, loc, known>>

RevokeConflict(w) ==
    /\ pc[w] = "insert"
    /\ loc[w].level \cap revoked # {}
    /\ End(w)
    /\ UNCHANGED <<world, db>>

-----------------------------------------------------------------------------
(* The process dies and starts again: what was staged is gone, startup     *)
(* expires the stale approvals before a request is served.                 *)
Restart ==
    LET stale == {a \in Approval : Stale(a)} IN
    /\ pc' = [w \in Worker |-> "idle"]
    /\ req' = [w \in Worker |-> NoRequest]
    /\ loc' = [w \in Worker |-> NoLocal]
    /\ txn' = [w \in Worker |-> NoWrites]
    /\ known' = [w \in Worker |-> {}]
    /\ gate' = [a \in Approval |->
         IF a \in stale THEN [gate[a] EXCEPT !.status = "expired"] ELSE gate[a]]
    /\ Log({<<"approval_expired", a>> : a \in stale})
    /\ UNCHANGED <<now, signed, claims, asked, records, edges, revoked>>

Tick ==
    /\ now < Horizon
    /\ now' = now + 1
    /\ UNCHANGED <<signed, claims, asked, audit, db, threads>>

Init ==
    /\ now = 0
    /\ signed = {} /\ records = {} /\ edges = {} /\ revoked = {} /\ audit = {}
    /\ claims = [j \in Jti |-> [scopes |-> {}, exp |-> 0, chain |-> <<>>, depth |-> 0,
                               maxDepth |-> 0, root |-> j, via |-> None]]
    /\ asked = [a \in Approval |-> [parent |-> None, scopes |-> {}, ttl |-> 0,
                                    parentExp |-> 0, expires |-> 0]]
    /\ gate = [a \in Approval |-> [status |-> "absent", child |-> None, collected |-> FALSE]]
    /\ pc = [w \in Worker |-> "idle"]
    /\ req = [w \in Worker |-> NoRequest]
    /\ loc = [w \in Worker |-> NoLocal]
    /\ txn = [w \in Worker |-> NoWrites]
    /\ known = [w \in Worker |-> {}]

(* A request arrives.                                                      *)
Open(w) ==
    \/ MintRoot(w) \/ Delegate(w) \/ Verify(w) \/ Approve(w) \/ Deny(w)
    \/ Collect(w) \/ Revoke(w)

(* Its handler takes a step that waits for no other transaction.           *)
Advance(w) ==
    \/ LookupRevoked(w) \/ LookupLive(w) \/ VerifyAllows(w) \/ VerifyLacksScope(w)
    \/ Respond(w) \/ DelegateRootAlive(w) \/ DelegateRootBroken(w) \/ DelegateDenied(w)
    \/ DelegateMint(w) \/ DelegatePark(w) \/ ApproveParentLive(w)
    \/ ApproveSign(w) \/ CollectRefresh(w) \/ RevokeLevel(w)
    \/ RevokeAlready(w) \/ RevokeConflict(w) \/ Commit(w)

(* It writes a row another transaction may hold.                           *)
Write(w) ==
    \/ ApproveParentRevoked(w) \/ ApproveParentExpired(w) \/ ApproveDecide(w)
    \/ DenyDecide(w) \/ CollectExpire(w) \/ CollectMark(w) \/ RevokeInsert(w)

Next ==
    \/ \E w \in Worker : Open(w) \/ Advance(w) \/ Write(w) \/ Abort(w)
    \/ Restart
    \/ Tick

Spec == Init /\ [][Next]_vars

(* The pool runs every thread; Postgres queues the waiters for a row lock. *)
FairSpec ==
    /\ Spec
    /\ \A w \in Worker : WF_vars(Advance(w)) /\ SF_vars(Write(w))

-----------------------------------------------------------------------------
(* Properties.                                                             *)

TypeOK ==
    /\ now \in Nat
    /\ signed \subseteq Jti
    /\ claims \in [Jti -> Claims]
    /\ asked \in [Approval -> Ask]
    /\ records \subseteq Jti
    /\ edges \subseteq Jti \X Jti
    /\ revoked \subseteq Jti
    /\ gate \in [Approval -> Row]
    /\ audit \subseteq AuditRow
    /\ pc \in [Worker -> Label]
    /\ req \in [Worker -> Request]
    /\ loc \in [Worker -> Local]
    /\ txn \in [Worker -> Staged]
    /\ known \in [Worker -> SUBSET Jti]

(* No token is wider or longer-lived than any token it descends from, by   *)
(* delegation or through the approval gate, however late the approval.     *)
Narrowing ==
    \A j \in signed : \A a \in Lineage(j) :
        /\ claims[j].scopes \subseteq claims[a].scopes
        /\ claims[j].exp <= claims[a].exp

(* The chain a token carries is the chain of its parent with the parent    *)
(* added: it leads, one hop at a time, from a depth-0 root to the token,   *)
(* and is no longer than the root's max_depth, which every hop keeps.      *)
ChainOfCustody ==
    \A j \in signed :
      LET c == claims[j]
          full == Append(c.chain, j)
      IN
        /\ c.depth = Len(c.chain)
        /\ c.depth <= c.maxDepth
        /\ c.root = full[1]
        /\ \A i \in 1 .. Len(c.chain) :
             /\ c.chain[i] \in records
             /\ claims[c.chain[i]].chain = SubSeq(c.chain, 1, i - 1)
             /\ claims[c.chain[i]].maxDepth = c.maxDepth

(* A delegated token that carries a sensitive scope was minted by an       *)
(* approval, for the very parent and scopes that the human was shown.      *)
SensitiveIsApproved ==
    \A j \in signed :
        LET c == claims[j] IN
        c.depth > 0 /\ c.scopes \cap Sensitive # {} =>
            /\ c.via # None
            /\ asked[c.via].scopes = c.scopes
            /\ asked[c.via].parent = c.chain[Len(c.chain)]

(* verify never allows a token when it, or a token it descends from, was   *)
(* revoked before the request arrived, whatever commits meanwhile.         *)
AllowedIsLive ==
    \A w \in Worker : pc[w] = "allowed" => Lineage(req[w].tok) \cap known[w] = {}

(* delegate never mints below a token that was revoked before it arrived.  *)
MintedIsLive ==
    \A w \in Worker : pc[w] = "commit" /\ req[w].op = "delegate" =>
        \A j \in txn[w].tokens : Lineage(j) \cap known[w] = {}

(* approve looks its parent up alone, and some steps before it mints: the  *)
(* parent of what it mints was not revoked before the human's request.     *)
ApprovedIsLive ==
    \A w \in Worker : pc[w] = "commit" /\ req[w].op = "approve" =>
        \A j \in txn[w].tokens : claims[j].chain[Len(claims[j].chain)] \notin known[w]

(* All three: what was revoked before a request arrived lets nothing       *)
(* through, though approve mints below a live parent of a revoked root; of *)
(* the token it mints there, verify and delegate will say no.              *)
LiveWhenAsked == AllowedIsLive /\ MintedIsLive /\ ApprovedIsLive

(* A revoke that is about to answer 200 revokes every token that descended *)
(* from its target, by the chain the token carries, when it arrived: the   *)
(* edges that delegate and approve record lead to all of them.             *)
RevokeReachesDescendants ==
    \A w \in Worker : pc[w] = "commit" /\ req[w].op = "revoke" =>
        known[w] \subseteq revoked \cup txn[w].revoked

(* Mints, revocations and decisions are in the audit log before the caller *)
(* can learn of them: no committed row is without its audit row.           *)
AuditFirst ==
    /\ \A j \in records : \E action \in {"root_token_minted", "token_minted",
                                          "approval_granted"} : <<action, j>> \in audit
    /\ \A j \in revoked : <<"token_revoked", j>> \in audit
    /\ \A a \in Approval :
         /\ gate[a].status = "pending" => <<"approval_pending", a>> \in audit
         /\ gate[a].status = "denied" => <<"approval_denied", a>> \in audit
         /\ gate[a].status = "expired" => <<"approval_expired", a>> \in audit

MintedThrough(a) == {j \in records : claims[j].via = a}

(* A request that a human denied, or that timed out, mints nothing.        *)
DeniedMintsNothing ==
    \A a \in Approval :
        gate[a].status \in {"denied", "expired"} => MintedThrough(a) = {}

(* One approval mints one token, the one the row hands to the agent.       *)
OneChildPerApproval ==
    \A a \in Approval : MintedThrough(a) \subseteq {gate[a].child}

(* A decision is not revised.                                              *)
DecisionIsFinal ==
    [][\A a \in Approval : gate[a].status \in {"approved", "denied", "expired"} =>
          gate'[a].status = gate[a].status]_vars

(* approve mints only under a root that was live when the human approved.  *)
ApprovedUnderLiveRoot ==
    \A w \in Worker : pc[w] = "commit" /\ req[w].op = "approve" =>
        \A j \in txn[w].tokens : claims[j].root \notin known[w]

(* Every request is answered: no handler waits for a row for ever.         *)
EveryRequestEnds == \A w \in Worker : pc[w] # "idle" ~> pc[w] = "idle"

=============================================================================
