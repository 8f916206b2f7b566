------------------------------- MODULE Firewall -------------------------------
(***************************************************************************)
(* The embeddable library, agperms.Firewall over SqlStorage: capabilities, *)
(* the actions declared under them, and the reviews a revoke queues for    *)
(* the actions it cannot vouch for.                                        *)
(*                                                                         *)
(* The threads of one process call the methods of one Firewall.  There is  *)
(* no transaction around a method: every call of the Storage protocol is   *)
(* atomic and durable on its own, so a method is a sequence of steps, one  *)
(* for each call that reads or writes shared rows, and it may stop after   *)
(* any of them.  What is written before it stops stays written.            *)
(*                                                                         *)
(* Subjects, anomaly findings and the audit rows of a refusal are left     *)
(* out: nothing reads them back.  A limit that is exceeded and a breaker   *)
(* that is open end a call like a failing storage does (Abort).            *)
(***************************************************************************)
EXTENDS Integers, Sequences, FiniteSets

CONSTANTS
    Thread,           \* the threads of the process
    Jti,              \* token ids (uuid4: never drawn twice)
    Action,           \* action ids (uuid4)
    Review,           \* review ids (uuid4)
    Approval,         \* approval ids (uuid4)
    Scope,
    Sensitive,        \* config.sensitive_scopes
    TTLs,             \* the ttl_seconds a caller may ask for
    MaxTTL,           \* config.max_ttl_seconds
    ApprovalTimeout,  \* config.approval_timeout_seconds
    Scenarios,        \* what the callers of one behaviour do, and its bounds
    None              \* no token, no action, no approval, no review

Method == {"mint_root", "delegate", "verify", "action", "revoke", "resolve_review",
           "approve", "deny", "collect", "pending_approvals"}

(* The methods each thread calls, the scopes they ask for, the max_depth   *)
(* of a root; and four bounds: the clock stops at `horizon', no more than  *)
(* `ids' tokens, `roots' of them roots, are minted and `acts' actions      *)
(* declared.                                                               *)
Scenario == [calls : [Thread -> SUBSET Method], asks : SUBSET (SUBSET Scope),
             depths : SUBSET Nat, horizon : Nat, ids : Nat, roots : Nat, acts : Nat]

ASSUME FirewallAssumption ==
    /\ Sensitive \subseteq Scope
    /\ TTLs \subseteq Nat /\ MaxTTL \in Nat /\ ApprovalTimeout \in Nat
    /\ Scenarios \subseteq Scenario
    /\ \A s \in Scenarios : {} \notin s.asks
    /\ None \notin Jti \cup Action \cup Review \cup Approval

VARIABLES
    scenario, \* the scenario of this behaviour: it never changes
    now,      \* the wall clock, in half seconds
    tokens,   \* the token rows
    claims,   \* what the token of each row says
    edges,    \* the delegation edges
    revoked,  \* the revocation rows
    actions,  \* the action rows
    reviews,  \* the review rows
    gate,     \* the approval rows
    audit,    \* the audit rows: <<action, id>>
    held,     \* the capabilities that a caller was given
    block,    \* history: how far the guarded code of each action came
    pc,       \* where each thread is
    req,      \* the call it is in
    loc,      \* the local variables of that call
    known     \* history: what held when the call began, or revoked

rows    == <<tokens, claims, edges, revoked, actions, reviews, gate>>
threads == <<pc, req, loc, known>>
vars    == <<scenario, now, tokens, claims, edges, revoked, actions, reviews, gate,
             audit, held, block, pc, req, loc, known>>

-----------------------------------------------------------------------------
(* The data.                                                               *)

Claims == [scopes : SUBSET Scope, exp : Nat, chain : Seq(Jti), depth : Nat,
           maxDepth : Nat, via : Approval \cup {None}]
ActionRow == [jti : Jti \cup {None}, state : {"absent", "OPEN", "CLEAN", "PARTIAL"}]
ReviewRow == [action : Action \cup {None}, class : {"none", "UNKNOWN", "PARTIAL"},
              reviewed : BOOLEAN]
ApprovalRow == [status : {"absent", "pending", "approved", "denied", "expired"},
                parent : Jti \cup {None}, scopes : SUBSET Scope, ttl : Nat,
                parentExp : Nat, expires : Nat, child : Jti \cup {None}]
Id == Jti \cup Action \cup Review \cup Approval
AuditRow == {"root_minted", "delegated", "action_started", "action_completed",
             "action_failed", "revoked", "review_queued", "review_resolved",
             "approval_pending", "approval_granted", "approval_rejected",
             "approval_denied", "approval_expired"} \X Id

Label == {"idle", "lookup", "mint", "edge", "log", "open", "enter", "block", "close",
          "allowed", "walk", "gather", "already", "insert", "reviewed", "queue",
          "report", "resolve", "parent", "deadline", "lapse", "reject", "grant", "refuse",
          "hand", "sweep"}

Call  == [op : Method \cup {"none"}, tok : Jti \cup {None}, scopes : SUBSET Scope,
          ttl : Nat, appr : Approval \cup {None}, rev : Review \cup {None}]
Local == [todo : Seq(Jti), targets : SUBSET Jti, level : SUBSET Jti,
          cand : SUBSET (Action \X {"UNKNOWN", "PARTIAL"}), act : Action \cup {None},
          child : Jti \cup {None}, stale : SUBSET Approval,
          row : AuditRow \cup {<<"none", None>>}, give : SUBSET Jti, then : Label]
Known == [revoked : SUBSET Jti, below : SUBSET Jti, acts : SUBSET Action,
          open : SUBSET Action]

NoCall  == [op |-> "none", tok |-> None, scopes |-> {}, ttl |-> 0, appr |-> None,
            rev |-> None]
NoLocal == [todo |-> <<>>, targets |-> {}, level |-> {}, cand |-> {}, act |-> None,
            child |-> None, stale |-> {}, row |-> <<"none", None>>, give |-> {},
            then |-> "idle"]
NoHistory == [revoked |-> {}, below |-> {}, acts |-> {}, open |-> {}]

(* utcnow_ts() drops the fraction of the second that utcnow() keeps: exp is *)
(* compared with whole seconds, a deadline column with the exact instant.   *)
Seconds == now \div 2
Expired(ts) == ts < Seconds
Past(ts) == 2 * ts < now

Lesser(m, n) == IF m <= n THEN m ELSE n

(* A token and its ancestor_jtis.                                          *)
Lineage(j) == {j} \cup {claims[j].chain[i] : i \in 1 .. Len(claims[j].chain)}
Descendants(j) == {d \in tokens : j \in Lineage(d)}

Recorded == {a \in Action : actions[a].state # "absent"}
Reviewed == {a \in Action : \E r \in Review : reviews[r].action = a}

(* Mutant: the ancestors are not asked about. *)
Lookups_OwnJtiOnly(j) == <<j>>

(* What is_revoked is asked about, in this order. *)
Lookups(j) == <<j>> \o claims[j].chain

-----------------------------------------------------------------------------
(* How a call begins, writes to the audit log, and ends.                   *)

Goto(t, l) == pc' = [pc EXCEPT ![t] = l]

Begin(t, call, l, local, history) ==
    /\ pc[t] = "idle"
    /\ call.op \in scenario.calls[t]
    /\ req' = [req EXCEPT ![t] = call]
    /\ loc' = [loc EXCEPT ![t] = local]
    /\ known' = [known EXCEPT ![t] = history]
    /\ Goto(t, l)

End(t) ==
    /\ Goto(t, "idle")
    /\ req' = [req EXCEPT ![t] = NoCall]
    /\ loc' = [loc EXCEPT ![t] = NoLocal]
    /\ known' = [known EXCEPT ![t] = NoHistory]

(* The next step of the call is self._audit.log(...); after it the call    *)
(* goes on at `then', or returns the capabilities `give' to its caller.    *)
Logging(t, event, id, give, then) ==
    /\ loc' = [loc EXCEPT ![t].row = <<event, id>>, ![t].give = give, ![t].then = then]
    /\ Goto(t, "log")

(* AuditLog.log: its lock and its cached tail make the append one step.    *)
Log(t) ==
    /\ pc[t] = "log"
    /\ audit' = audit \cup {loc[t].row}
    /\ held' = held \cup loc[t].give
    /\ IF loc[t].then = "idle"
       THEN End(t)
       ELSE /\ Goto(t, loc[t].then)
            /\ loc' = [loc EXCEPT ![t].row = NoLocal.row, ![t].then = "idle"]
            /\ UNCHANGED <<req, known>>
    /\ UNCHANGED <<scenario, now, rows, block>>

(* A storage call raises, a guardrail refuses the call, or a check fails:  *)
(* the exception leaves the method.  The guarded code of an action cannot  *)
(* be left this way: action() has an exit for every exception it raises.   *)
Abort(t) ==
    /\ pc[t] \notin {"idle", "enter", "block"}
    /\ End(t)
    /\ UNCHANGED <<scenario, now, rows, audit, held, block>>

(* The process dies and starts again on the same store; the callers kept   *)
(* their tokens, which a fixed jwt_secret still verifies.                  *)
Crash ==
    /\ \E t \in Thread : pc[t] # "idle"
    /\ pc' = [t \in Thread |-> "idle"]
    /\ req' = [t \in Thread |-> NoCall]
    /\ loc' = [t \in Thread |-> NoLocal]
    /\ known' = [t \in Thread |-> NoHistory]
    /\ UNCHANGED <<scenario, now, rows, audit, held, block>>

(* A call that is refused by what it is given changes no row: an expired   *)
(* token, an approval already decided, a review already resolved.          *)
Refused(t) ==
    /\ pc[t] = "idle"
    /\ UNCHANGED vars

Tick ==
    /\ now < scenario.horizon
    /\ now' = now + 1
    /\ UNCHANGED <<scenario, rows, audit, held, block, threads>>

-----------------------------------------------------------------------------
(* Minting.  put_token stores the row of the token that was just signed.   *)

FreshJti == IF Cardinality(tokens) < scenario.ids THEN Jti \ tokens ELSE {}

PutToken(j, c) ==
    /\ tokens' = tokens \cup {j}
    /\ claims' = [claims EXCEPT ![j] = c]

RootClaims(scopes, ttl, depth) ==
    [scopes |-> scopes, exp |-> Seconds + Lesser(ttl, MaxTTL), chain |-> <<>>,
     depth |-> 0, maxDepth |-> depth, via |-> None]

(* Mutant: the expiry of the parent is not looked at. *)
ChildClaims_Unclamped(p, scopes, ttl, parentExp, approval) ==
    [scopes |-> scopes, exp |-> Seconds + ttl,
     chain |-> Append(claims[p].chain, p), depth |-> claims[p].depth + 1,
     maxDepth |-> claims[p].maxDepth, via |-> approval]

(* delegate takes the expiry of the parent from its claims, approve from   *)
(* the approval row.                                                       *)
ChildClaims(p, scopes, ttl, parentExp, approval) ==
    [scopes |-> scopes, exp |-> Lesser(Seconds + ttl, parentExp),
     chain |-> Append(claims[p].chain, p), depth |-> claims[p].depth + 1,
     maxDepth |-> claims[p].maxDepth, via |-> approval]

MintRoot(t) ==
    /\ Cardinality({j \in tokens : claims[j].depth = 0}) < scenario.roots
    /\ \E j \in FreshJti, scopes \in scenario.asks, ttl \in TTLs, depth \in scenario.depths :
            /\ Begin(t, [NoCall EXCEPT !.op = "mint_root"], "log",
                     [NoLocal EXCEPT !.row = <<"root_minted", j>>, !.give = {j}], NoHistory)
            /\ PutToken(j, RootClaims(scopes, ttl, depth))
            /\ UNCHANGED <<scenario, now, edges, revoked, actions, reviews, gate, audit, held,
                           block>>

-----------------------------------------------------------------------------
(* delegate, verify and action decode the token, compare it with the clock *)
(* and ask is_revoked about it and about each of its ancestors in turn.    *)

Present(t, call) ==
    /\ ~Expired(claims[call.tok].exp)
    /\ Begin(t, call, "lookup", [NoLocal EXCEPT !.todo = Lookups(call.tok)],
             [NoHistory EXCEPT !.revoked = revoked])
    /\ UNCHANGED <<scenario, now, rows, audit, held, block>>

Delegate(t) ==
    \E j \in held, scopes \in scenario.asks, ttl \in TTLs :
        Present(t, [NoCall EXCEPT !.op = "delegate", !.tok = j, !.scopes = scopes,
                                  !.ttl = ttl])

Verify(t) ==
    \E j \in held, s \in Scope, op \in {"verify", "action"} :
        Present(t, [NoCall EXCEPT !.op = op, !.tok = j, !.scopes = {s}])

IsRevoked(t) ==
    /\ pc[t] = "lookup"
    /\ loc[t].todo # <<>>
    /\ IF Head(loc[t].todo) \in revoked
       THEN End(t)
       ELSE /\ loc' = [loc EXCEPT ![t].todo = Tail(@)]
            /\ UNCHANGED <<pc, req, known>>
    /\ UNCHANGED <<scenario, now, rows, audit, held, block>>

(* verify: the scope was granted.  action: require() returned the claims.  *)
ScopeGranted(t) ==
    /\ pc[t] = "lookup"
    /\ loc[t].todo = <<>>
    /\ req[t].op \in {"verify", "action"}
    /\ req[t].scopes \subseteq claims[req[t].tok].scopes
    /\ Goto(t, IF req[t].op = "verify" THEN "allowed" ELSE "open")
    /\ UNCHANGED <<scenario, now, rows, audit, held, block, req, loc, known>>

ScopeNotGranted(t) ==
    /\ pc[t] = "lookup"
    /\ loc[t].todo = <<>>
    /\ req[t].op \in {"verify", "action"}
    /\ ~(req[t].scopes \subseteq claims[req[t].tok].scopes)
    /\ End(t)
    /\ UNCHANGED <<scenario, now, rows, audit, held, block>>

Allowed(t) ==
    /\ pc[t] = "allowed"
    /\ End(t)
    /\ UNCHANGED <<scenario, now, rows, audit, held, block>>

-----------------------------------------------------------------------------
(* The rest of delegate.                                                   *)

Root(j) == Append(claims[j].chain, j)[1]

RootAlive(j) ==
    /\ Root(j) \in tokens
    /\ claims[Root(j)].depth = 0
    /\ ~Past(claims[Root(j)].exp)
    /\ Root(j) \notin revoked

(* Mutant: the depth of the parent is compared with its bound. *)
MayDelegate_ParentDepth(p, scopes) ==
    /\ scopes \subseteq claims[p].scopes
    /\ claims[p].depth <= claims[p].maxDepth

MayDelegate(p, scopes) ==
    /\ scopes \subseteq claims[p].scopes
    /\ claims[p].depth + 1 <= claims[p].maxDepth

DelegateChecked(t) ==
    LET p == req[t].tok IN
    /\ pc[t] = "lookup"
    /\ loc[t].todo = <<>>
    /\ req[t].op = "delegate"
    /\ IF RootAlive(p) /\ MayDelegate(p, req[t].scopes)
       THEN Goto(t, "mint") /\ UNCHANGED <<req, loc, known>>
       ELSE End(t)
    /\ UNCHANGED <<scenario, now, rows, audit, held, block>>

(* Mutant: one ordinary scope lets the sensitive ones through. *)
NeedsApproval_MixedRequest(scopes) == scopes \subseteq Sensitive

NeedsApproval(scopes) == scopes \cap Sensitive # {}

DelegateMint(t) ==
    LET p == req[t].tok IN
    /\ pc[t] = "mint"
    /\ req[t].op = "delegate"
    /\ ~NeedsApproval(req[t].scopes)
    /\ \E j \in FreshJti :
         /\ PutToken(j, ChildClaims(p, req[t].scopes, req[t].ttl, claims[p].exp, None))
         /\ loc' = [loc EXCEPT ![t].child = j]
    /\ Goto(t, "edge")
    /\ UNCHANGED <<scenario, now, edges, revoked, actions, reviews, gate, audit, held, block,
                   req, known>>

(* _park_for_approval; then ApprovalRequired is raised.                    *)
DelegatePark(t) ==
    LET p == req[t].tok IN
    /\ pc[t] = "mint"
    /\ req[t].op = "delegate"
    /\ NeedsApproval(req[t].scopes)
    /\ \E ap \in Approval :
         /\ gate[ap].status = "absent"
         /\ gate' = [gate EXCEPT ![ap] =
              [status |-> "pending", parent |-> p, scopes |-> req[t].scopes,
               ttl |-> req[t].ttl, parentExp |-> claims[p].exp,
               expires |-> Lesser(Seconds + ApprovalTimeout, claims[p].exp),
               child |-> None]]
         /\ Logging(t, "approval_pending", ap, {}, "idle")
    /\ UNCHANGED <<scenario, now, tokens, claims, edges, revoked, actions, reviews, audit,
                   held, block, req, known>>

(* Mutant: the child is returned to the caller before its edge is stored. *)
AddEdge_Late(t) ==
    /\ pc[t] = "edge"
    /\ UNCHANGED edges
    /\ IF req[t].op = "delegate"
       THEN Logging(t, "delegated", loc[t].child, {loc[t].child}, "idle")
       ELSE Goto(t, "grant") /\ UNCHANGED loc
    /\ UNCHANGED <<scenario, now, tokens, claims, revoked, actions, reviews, gate, audit, held,
                   block, req, known>>

(* add_edge, in delegate and in approve.                                   *)
AddEdge(t) ==
    /\ pc[t] = "edge"
    /\ edges' = edges \cup {<<req[t].tok, loc[t].child>>}
    /\ IF req[t].op = "delegate"
       THEN Logging(t, "delegated", loc[t].child, {loc[t].child}, "idle")
       ELSE Goto(t, "grant") /\ UNCHANGED loc
    /\ UNCHANGED <<scenario, now, tokens, claims, revoked, actions, reviews, gate, audit, held,
                   block, req, known>>

-----------------------------------------------------------------------------
(* action(): the guarded code runs between put_action and close_action.    *)

(* Mutant: the audit row is buffered, it follows the guarded code. *)
PutAction_AsyncAudit(t) ==
    /\ pc[t] = "open"
    /\ Cardinality(Recorded) < scenario.acts
    /\ \E a \in Action \ Recorded :
         /\ actions' = [actions EXCEPT ![a] = [jti |-> req[t].tok, state |-> "OPEN"]]
         /\ loc' = [loc EXCEPT ![t].act = a]
    /\ Goto(t, "enter")
    /\ UNCHANGED <<scenario, now, tokens, claims, edges, revoked, reviews, gate, audit, held,
                   block, req, known>>

PutAction(t) ==
    /\ pc[t] = "open"
    /\ Cardinality(Recorded) < scenario.acts
    /\ \E a \in Action \ Recorded :
         /\ actions' = [actions EXCEPT ![a] = [jti |-> req[t].tok, state |-> "OPEN"]]
         /\ loc' = [loc EXCEPT ![t].act = a, ![t].row = <<"action_started", a>>,
                               ![t].then = "enter"]
    /\ Goto(t, "log")
    /\ UNCHANGED <<scenario, now, tokens, claims, edges, revoked, reviews, gate, audit, held,
                   block, req, known>>

EnterBlock(t) ==
    /\ pc[t] = "enter"
    /\ block' = [block EXCEPT ![loc[t].act] = "running"]
    /\ Goto(t, "block")
    /\ UNCHANGED <<scenario, now, rows, audit, held, req, loc, known>>

LeaveBlock(t) ==
    /\ pc[t] = "block"
    /\ \E outcome \in {"returned", "raised"} :
         block' = [block EXCEPT ![loc[t].act] = outcome]
    /\ Goto(t, "close")
    /\ UNCHANGED <<scenario, now, rows, audit, held, req, loc, known>>

(* Mutant: a `finally' closes every action alike. *)
CompletionState_Finally(a) == "CLEAN"

CompletionState(a) == IF block[a] = "returned" THEN "CLEAN" ELSE "PARTIAL"

CloseAction(t) ==
    LET a == loc[t].act IN
    /\ pc[t] = "close"
    /\ actions' = [actions EXCEPT ![a].state = CompletionState(a)]
    /\ Logging(t, IF CompletionState(a) = "CLEAN" THEN "action_completed"
                                                  ELSE "action_failed", a, {}, "idle")
    /\ UNCHANGED <<scenario, now, tokens, claims, edges, revoked, reviews, gate, audit, held,
                   block, req, known>>

-----------------------------------------------------------------------------
(* revoke: the tree is walked level by level, the actions are gathered     *)
(* before the revocation is written, the reviews are queued after it.      *)

Revoke(t) ==
    \E j \in tokens :
        /\ Begin(t, [NoCall EXCEPT !.op = "revoke", !.tok = j], "walk",
                 [NoLocal EXCEPT !.targets = {j}, !.level = {j}],
                 [NoHistory EXCEPT !.below = Descendants(j) \cap held,
                    !.acts = {a \in Recorded : actions[a].jti \in Descendants(j)}])
        /\ UNCHANGED <<scenario, now, rows, audit, held, block>>

(* children_of one level, without those seen before.                       *)
RevokeWalk(t) ==
    LET below == {c \in Jti : \E p \in loc[t].level : <<p, c>> \in edges} \ loc[t].targets
    IN
    /\ pc[t] = "walk"
    /\ loc' = [loc EXCEPT ![t].targets = @ \cup below, ![t].level = below]
    /\ Goto(t, IF below = {} THEN "gather" ELSE "walk")
    /\ UNCHANGED <<scenario, now, rows, audit, held, block, req, known>>

(* classify_action: no closing record means UNKNOWN.                       *)
Classify(a) == IF actions[a].state = "OPEN" THEN "UNKNOWN" ELSE actions[a].state

(* Mutant: only the actions that are still open are of interest. *)
ActionsForReview_OpenOnly(jtis) ==
    {a \in Recorded : actions[a].jti \in jtis /\ actions[a].state = "OPEN"}

ActionsForReview(jtis) ==
    {a \in Recorded : actions[a].jti \in jtis /\ actions[a].state # "CLEAN"}

RevokeGather(t) ==
    /\ pc[t] = "gather"
    /\ loc' = [loc EXCEPT ![t].cand =
                 {<<a, Classify(a)>> : a \in ActionsForReview(loc[t].targets)}]
    /\ Goto(t, "already")
    /\ UNCHANGED <<scenario, now, rows, audit, held, block, req, known>>

(* revoke_many reads which targets are revoked already, then inserts the   *)
(* others in one transaction, which fails if one of them was revoked since.*)
RevokeAlready(t) ==
    LET fresh == loc[t].targets \ revoked IN
    /\ pc[t] = "already"
    /\ loc' = [loc EXCEPT ![t].level = fresh]
    /\ Goto(t, IF fresh = {} THEN "reviewed" ELSE "insert")
    /\ UNCHANGED <<scenario, now, rows, audit, held, block, req, known>>

RevokeInsert(t) ==
    /\ pc[t] = "insert"
    /\ IF loc[t].level \cap revoked = {}
       THEN /\ revoked' = revoked \cup loc[t].level
            /\ known' = [known EXCEPT ![t].open =
                 {a \in Recorded : block[a] = "running" /\ actions[a].jti \in loc[t].level}]
            /\ Goto(t, "reviewed")
            /\ UNCHANGED <<req, loc>>
       ELSE /\ End(t)
            /\ UNCHANGED revoked
    /\ UNCHANGED <<scenario, now, tokens, claims, edges, actions, reviews, gate, audit, held,
                   block>>

(* Mutant: a repeated revoke queues every candidate again. *)
NotYetReviewed_All(cand) == cand

(* The candidates without a review, resolved or not.                       *)
NotYetReviewed(cand) == {c \in cand : c[1] \notin Reviewed}

(* _queue_reviews reads all reviews once, before it queues the first.      *)
RevokeReviewed(t) ==
    /\ pc[t] = "reviewed"
    /\ loc' = [loc EXCEPT ![t].cand = NotYetReviewed(@)]
    /\ Goto(t, "queue")
    /\ UNCHANGED <<scenario, now, rows, audit, held, block, req, known>>

PutReview(t) ==
    /\ pc[t] = "queue"
    /\ \E c \in loc[t].cand, r \in Review :
         /\ reviews[r].action = None
         /\ reviews' = [reviews EXCEPT ![r] = [action |-> c[1], class |-> c[2],
                                               reviewed |-> FALSE]]
         /\ loc' = [loc EXCEPT ![t].cand = @ \ {c}, ![t].row = <<"review_queued", r>>,
                               ![t].then = "queue"]
    /\ Goto(t, "log")
    /\ UNCHANGED <<scenario, now, tokens, claims, edges, revoked, actions, gate, audit, held,
                   block, req, known>>

RevokeQueued(t) ==
    /\ pc[t] = "queue"
    /\ loc[t].cand = {}
    /\ Goto(t, "report")
    /\ UNCHANGED <<scenario, now, rows, audit, held, block, req, loc, known>>

RevokeReport(t) ==
    /\ pc[t] = "report"
    /\ Logging(t, "revoked", req[t].tok, {}, "idle")
    /\ UNCHANGED <<scenario, now, rows, audit, held, block, req, known>>

(* resolve_review: the review is read, updated, and the note is logged.    *)
ResolveReview(t) ==
    \E r \in Review :
        /\ reviews[r].action # None
        /\ ~reviews[r].reviewed
        /\ Begin(t, [NoCall EXCEPT !.op = "resolve_review", !.rev = r], "resolve",
                 NoLocal, NoHistory)
        /\ UNCHANGED <<scenario, now, rows, audit, held, block>>

UpdateReview(t) ==
    /\ pc[t] = "resolve"
    /\ reviews' = [reviews EXCEPT ![req[t].rev].reviewed = TRUE]
    /\ Logging(t, "review_resolved", req[t].rev, {}, "idle")
    /\ UNCHANGED <<scenario, now, tokens, claims, edges, revoked, actions, gate, audit, held,
                   block, req, known>>

-----------------------------------------------------------------------------
(* The approval gate.  update_approval writes a decision over whatever the *)
(* row says by then: the status, and the child or no child.                *)

Decide(ap, status, child) ==
    gate' = [gate EXCEPT ![ap].status = status, ![ap].child = child]

(* Mutant: the status of the request is not looked at. *)
LoadPending_AnyStatus(ap) == gate[ap].status # "absent"

LoadPending(ap) == gate[ap].status = "pending"

(* _load_pending, the first step of approve and deny: a request past its   *)
(* deadline is marked expired instead.                                     *)
LoadApproval(t, op, l) ==
    \E ap \in Approval :
        /\ LoadPending(ap)
        /\ Begin(t, [NoCall EXCEPT !.op = op, !.appr = ap, !.tok = gate[ap].parent],
                 IF Past(gate[ap].expires) THEN "lapse" ELSE l, NoLocal, NoHistory)
        /\ UNCHANGED <<scenario, now, rows, audit, held, block>>

Approve(t) == LoadApproval(t, "approve", "parent")
Deny(t)    == LoadApproval(t, "deny", "refuse")

Lapse(t) ==
    /\ pc[t] = "lapse"
    /\ Decide(req[t].appr, "expired", None)
    /\ End(t)
    /\ UNCHANGED <<scenario, now, tokens, claims, edges, revoked, actions, reviews, audit,
                   held, block>>

(* is_revoked(parent), and then its expiry.                                *)
ApproveParent(t) ==
    /\ pc[t] = "parent"
    /\ Goto(t, IF req[t].tok \in revoked THEN "reject" ELSE "deadline")
    /\ UNCHANGED <<scenario, now, rows, audit, held, block, req, loc, known>>

ApproveDeadline(t) ==
    /\ pc[t] = "deadline"
    /\ Goto(t, IF Expired(gate[req[t].appr].parentExp) THEN "lapse" ELSE "mint")
    /\ UNCHANGED <<scenario, now, rows, audit, held, block, req, loc, known>>

ApproveReject(t) ==
    /\ pc[t] = "reject"
    /\ Decide(req[t].appr, "denied", None)
    /\ Logging(t, "approval_rejected", req[t].appr, {}, "idle")
    /\ UNCHANGED <<scenario, now, tokens, claims, edges, revoked, actions, reviews, audit,
                   held, block, req, known>>

ApproveMint(t) ==
    LET ap == req[t].appr IN
    /\ pc[t] = "mint"
    /\ req[t].op = "approve"
    /\ \E j \in FreshJti :
         /\ PutToken(j, ChildClaims(req[t].tok, gate[ap].scopes, gate[ap].ttl,
                                    gate[ap].parentExp, ap))
         /\ loc' = [loc EXCEPT ![t].child = j]
    /\ Goto(t, "edge")
    /\ UNCHANGED <<scenario, now, edges, revoked, actions, reviews, gate, audit, held, block,
                   req, known>>

ApproveGrant(t) ==
    /\ pc[t] = "grant"
    /\ Decide(req[t].appr, "approved", loc[t].child)
    /\ Logging(t, "approval_granted", loc[t].child, {loc[t].child}, "idle")
    /\ UNCHANGED <<scenario, now, tokens, claims, edges, revoked, actions, reviews, audit,
                   held, block, req, known>>

DenyRefuse(t) ==
    /\ pc[t] = "refuse"
    /\ Decide(req[t].appr, "denied", None)
    /\ Logging(t, "approval_denied", req[t].appr, {}, "idle")
    /\ UNCHANGED <<scenario, now, tokens, claims, edges, revoked, actions, reviews, audit,
                   held, block, req, known>>

(* collect returns the child of an approved request.  PendingApproval has  *)
(* slots and no __dict__, so the record that was read is written back as   *)
(* it is: `collected' stays false, and the write repeats at every call.    *)
Collect(t) ==
    \E ap \in Approval :
        /\ gate[ap].status = "approved"
        /\ Begin(t, [NoCall EXCEPT !.op = "collect", !.appr = ap], "hand",
                 [NoLocal EXCEPT !.child = gate[ap].child], NoHistory)
        /\ UNCHANGED <<scenario, now, rows, audit, held, block>>

CollectHand(t) ==
    /\ pc[t] = "hand"
    /\ Decide(req[t].appr, "approved", loc[t].child)
    /\ held' = held \cup {loc[t].child}
    /\ End(t)
    /\ UNCHANGED <<scenario, now, tokens, claims, edges, revoked, actions, reviews, audit,
                   block>>

(* expire_stale_approvals lists the pending requests once, then decides    *)
(* and logs the stale ones, one after the other.                           *)
PendingApprovals(t) ==
    LET stale == {ap \in Approval : LoadPending(ap) /\ Past(gate[ap].expires)} IN
    /\ stale # {}
    /\ Begin(t, [NoCall EXCEPT !.op = "pending_approvals"], "sweep",
             [NoLocal EXCEPT !.stale = stale], NoHistory)
    /\ UNCHANGED <<scenario, now, rows, audit, held, block>>

ExpireStale(t) ==
    /\ pc[t] = "sweep"
    /\ \E ap \in loc[t].stale :
         /\ Decide(ap, "expired", None)
         /\ loc' = [loc EXCEPT ![t].stale = @ \ {ap},
                      ![t].row = <<"approval_expired", ap>>,
                      ![t].then = IF loc[t].stale = {ap} THEN "idle" ELSE "sweep"]
    /\ Goto(t, "log")
    /\ UNCHANGED <<scenario, now, tokens, claims, edges, revoked, actions, reviews, audit,
                   held, block, req, known>>

-----------------------------------------------------------------------------
Init ==
    /\ scenario \in Scenarios
    /\ now = 0
    /\ tokens = {} /\ edges = {} /\ revoked = {} /\ audit = {} /\ held = {}
    /\ claims = [j \in Jti |-> [scopes |-> {}, exp |-> 0, chain |-> <<>>, depth |-> 0,
                               maxDepth |-> 0, via |-> None]]
    /\ actions = [a \in Action |-> [jti |-> None, state |-> "absent"]]
    /\ reviews = [r \in Review |-> [action |-> None, class |-> "none", reviewed |-> FALSE]]
    /\ gate = [ap \in Approval |-> [status |-> "absent", parent |-> None, scopes |-> {},
                                    ttl |-> 0, parentExp |-> 0, expires |-> 0,
                                    child |-> None]]
    /\ block = [a \in Action |-> "not run"]
    /\ pc = [t \in Thread |-> "idle"]
    /\ req = [t \in Thread |-> NoCall]
    /\ loc = [t \in Thread |-> NoLocal]
    /\ known = [t \in Thread |-> NoHistory]

Tokens(t) ==
    \/ MintRoot(t) \/ Delegate(t) \/ Verify(t) \/ IsRevoked(t) \/ ScopeGranted(t)
    \/ ScopeNotGranted(t) \/ Allowed(t) \/ DelegateChecked(t) \/ DelegateMint(t)
    \/ DelegatePark(t) \/ AddEdge(t)

InFlight(t) == PutAction(t) \/ EnterBlock(t) \/ LeaveBlock(t) \/ CloseAction(t)

Revocation(t) ==
    \/ Revoke(t) \/ RevokeWalk(t) \/ RevokeGather(t) \/ RevokeAlready(t) \/ RevokeInsert(t)
    \/ RevokeReviewed(t) \/ PutReview(t) \/ RevokeQueued(t) \/ RevokeReport(t)
    \/ ResolveReview(t) \/ UpdateReview(t)

Gate(t) ==
    \/ Approve(t) \/ Deny(t) \/ Lapse(t) \/ ApproveParent(t) \/ ApproveDeadline(t)
    \/ ApproveReject(t) \/ ApproveMint(t) \/ ApproveGrant(t) \/ DenyRefuse(t) \/ Collect(t) \/ CollectHand(t)
    \/ PendingApprovals(t) \/ ExpireStale(t)

Next ==
    \/ \E t \in Thread :
         Tokens(t) \/ InFlight(t) \/ Revocation(t) \/ Gate(t) \/ Log(t) \/ Abort(t)
         \/ Refused(t)
    \/ Crash
    \/ Tick

Spec == Init /\ [][Next]_vars

-----------------------------------------------------------------------------
(* Properties.                                                             *)

FwTypeOK ==
    /\ scenario \in Scenarios /\ now \in Nat
    /\ tokens \subseteq Jti /\ held \subseteq Jti /\ revoked \subseteq Jti
    /\ claims \in [Jti -> Claims]
    /\ edges \subseteq Jti \X Jti
    /\ actions \in [Action -> ActionRow]
    /\ reviews \in [Review -> ReviewRow]
    /\ gate \in [Approval -> ApprovalRow]
    /\ audit \subseteq AuditRow
    /\ block \in [Action -> {"not run", "running", "returned", "raised"}]
    /\ pc \in [Thread -> Label]
    /\ req \in [Thread -> Call]
    /\ loc \in [Thread -> Local]
    /\ known \in [Thread -> Known]

(* Every stored token is within each token it descends from, in scopes, in *)
(* expiry and in depth, whether delegate or approve minted it.             *)
Attenuation ==
    \A j \in tokens :
        /\ Len(claims[j].chain) = claims[j].depth
        /\ claims[j].depth <= claims[j].maxDepth
        /\ \A a \in Lineage(j) :
             /\ claims[j].scopes \subseteq claims[a].scopes
             /\ claims[j].exp <= claims[a].exp
             /\ claims[j].maxDepth = claims[a].maxDepth

(* A delegated token with a sensitive scope was minted by approving a      *)
(* request for these very scopes under that very parent.                   *)
GatedScopes ==
    \A j \in tokens : claims[j].depth > 0 /\ claims[j].scopes \cap Sensitive # {} =>
        /\ claims[j].via # None
        /\ gate[claims[j].via].scopes = claims[j].scopes
        /\ gate[claims[j].via].parent = claims[j].chain[claims[j].depth]

(* verify answers valid, and action opens, only for a token none of whose  *)
(* lineage was revoked when the call began.                                *)
AdmittedIsLive ==
    \A t \in Thread : pc[t] \in {"allowed", "open"} =>
        Lineage(req[t].tok) \cap known[t].revoked = {}

(* A revoke that is about to return has revoked every descendant that a    *)
(* caller held when it began: the edges it walks lead to all of them, even *)
(* when a delegation died between two of its writes.                       *)
RevokeReachesHeld ==
    \A t \in Thread : pc[t] = "report" => known[t].below \subseteq revoked

(* ... and there is a review for every action that was on record in the    *)
(* subtree when it began and is not CLEAN now, be it still open, failed,   *)
(* or left behind by a crash.                                              *)
InFlightReported ==
    \A t \in Thread : pc[t] = "report" =>
        \A a \in known[t].acts : actions[a].state # "CLEAN" => a \in Reviewed

(* The guarded code runs only once the action is on record, in its table   *)
(* and in the audit log, and it is not on record as closed while it runs.  *)
RunningIsOnRecord ==
    \A t \in Thread : pc[t] = "block" =>
        /\ actions[loc[t].act] = [jti |-> req[t].tok, state |-> "OPEN"]
        /\ <<"action_started", loc[t].act>> \in audit

(* UNKNOWN is never CLEAN: an action is on record as CLEAN only if its     *)
(* code returned, and as PARTIAL only if it raised, whatever died between. *)
CompletionIsTrue ==
    \A a \in Action :
        /\ actions[a].state = "CLEAN" => block[a] = "returned"
        /\ actions[a].state = "PARTIAL" => block[a] = "raised"

(* Both: the record of an action is there when its code runs, and true.    *)
RecordIsTrue == RunningIsOnRecord /\ CompletionIsTrue

(* No two threads call these methods.                                      *)
OneCalls(methods) ==
    \A t, u \in Thread :
        scenario.calls[t] \cap methods # {} /\ scenario.calls[u] \cap methods # {} => t = u

(* While a single thread revokes, no action is reviewed twice, however     *)
(* often the subtree is revoked and wherever an earlier revoke stopped.    *)
OneReviewPerAction ==
    OneCalls({"revoke"}) =>
        \A r, q \in Review : reviews[r].action # None /\ r # q =>
            reviews[r].action # reviews[q].action

(* While a single thread decides, a request that was denied or expired has *)
(* given no capability to anyone, and an approved one only its child: an   *)
(* approve that died half-way leaves a token that nobody holds.            *)
OneGrantPerApproval ==
    OneCalls({"approve", "deny", "pending_approvals"}) =>
        \A j \in held : claims[j].via # None =>
            /\ gate[claims[j].via].status = "approved"
            /\ gate[claims[j].via].child = j

(* If a token is revoked while an action block is open, the revoke reports *)
(* the action.                                                             *)
OpenIsReported ==
    \A t \in Thread : pc[t] = "report" => known[t].open \subseteq Reviewed
=============================================================================
