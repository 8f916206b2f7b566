--------------------------- MODULE FirewallProofs ---------------------------
(* Theorems about Firewall, for every number of threads, tokens, actions,  *)
(* reviews and approvals, and whatever the callers do.                     *)
EXTENDS Firewall, TLAPS

(* The last token of a chain is the parent.                                *)
Parent(j) == claims[j].chain[Len(claims[j].chain)]
Linked(j) == claims[j].chain # <<>> => <<Parent(j), j>> \in edges

(* Every stored token narrows each token of its chain, and each of those   *)
(* was handed to a caller.                                                 *)
HopOK(j, i) ==
    LET c == claims[j]
        a == c.chain[i]
    IN
    /\ a \in held
    /\ c.scopes \subseteq claims[a].scopes
    /\ c.exp <= claims[a].exp
    /\ claims[a].chain = SubSeq(c.chain, 1, i - 1)
    /\ claims[a].maxDepth = c.maxDepth

(* A sensitive scope was granted by an approval, for this parent.          *)
Shown(j) ==
    LET c == claims[j]
        ap == c.via
    IN
    IF ap = None
    THEN c.chain # <<>> => c.scopes \cap Sensitive = {}
    ELSE /\ ap \in Approval /\ gate[ap].status # "absent"
         /\ gate[ap].scopes = c.scopes
         /\ c.chain # <<>> /\ gate[ap].parent = Parent(j)

TokenOK(j) ==
    /\ claims[j].depth = Len(claims[j].chain)
    /\ claims[j].depth <= claims[j].maxDepth
    /\ \A i \in 1 .. Len(claims[j].chain) : HopOK(j, i)
    /\ Shown(j)

(* A token is linked to its parent before a caller holds it, and an edge   *)
(* leads from the parent of a token to the token.                          *)
TokensOK ==
    /\ held \subseteq tokens
    /\ \A j \in tokens : TokenOK(j)
    /\ \A j \in held : Linked(j)
    /\ \A e \in edges : e[2] \in tokens /\ claims[e[2]].chain # <<>> /\ e[1] = Parent(e[2])

(* A parked request asks for nothing its parent could not grant, and the   *)
(* child of an approved one is a linked token.                             *)
GateOK ==
    \A ap \in Approval :
        /\ gate[ap].status # "absent" =>
             /\ gate[ap].parent \in held
             /\ MayDelegate(gate[ap].parent, gate[ap].scopes)
             /\ gate[ap].parentExp = claims[gate[ap].parent].exp
        /\ gate[ap].status = "approved" =>
             /\ gate[ap].child \in tokens /\ Linked(gate[ap].child)
             /\ claims[gate[ap].child].via = ap

(* The steps of each method.                                               *)
AtStage(op, l) ==
    \/ op = "none" /\ l = "idle"
    \/ op = "mint_root" /\ l = "log"
    \/ op = "delegate" /\ l \in {"lookup", "mint", "edge", "log"}
    \/ op = "verify" /\ l \in {"lookup", "allowed"}
    \/ op = "action" /\ l \in {"lookup", "open", "log", "enter", "block", "close"}
    \/ op = "revoke" /\ l \in {"walk", "gather", "already", "insert", "reviewed", "queue",
                               "log", "report"}
    \/ op = "resolve_review" /\ l \in {"resolve", "log"}
    \/ op = "approve" /\ l \in {"lapse", "parent", "deadline", "reject", "mint", "edge",
                                "grant", "log"}
    \/ op = "deny" /\ l \in {"lapse", "refuse", "log"}
    \/ op = "collect" /\ l = "hand"
    \/ op = "pending_approvals" /\ l \in {"sweep", "log"}

(* The call writes an audit row, and goes on at l.                         *)
After(t, l) == pc[t] = "log" /\ loc[t].then = l

(* The call is past put_action and before the end of close_action.         *)
Owns(t) == pc[t] \in {"enter", "block", "close"} \/ After(t, "enter")

(* What a call relies on between its steps.                                *)
CallOK(t) ==
    /\ AtStage(req[t].op, pc[t])
    /\ pc[t] # "idle" => req[t].op \in scenario.calls[t]
    /\ pc[t] = "log" => /\ loc[t].row \in AuditRow
                        /\ loc[t].then \in {"idle", "enter", "queue", "sweep"}
                        /\ loc[t].then = "idle" \/ AtStage(req[t].op, loc[t].then)
    /\ req[t].op \in {"delegate", "verify", "action"} => req[t].tok \in held
    /\ req[t].op = "revoke" => req[t].tok \in tokens
    /\ pc[t] = "resolve" => req[t].rev \in Review /\ reviews[req[t].rev].action # None
    /\ pc[t] = "mint" /\ req[t].op = "delegate" => MayDelegate(req[t].tok, req[t].scopes)
    /\ req[t].op \in {"approve", "deny", "collect"} =>
         req[t].appr \in Approval /\ gate[req[t].appr].status # "absent"
    /\ req[t].op \in {"approve", "deny"} => req[t].tok = gate[req[t].appr].parent
    /\ pc[t] \in {"edge", "grant"} =>
         /\ loc[t].child \in tokens
         /\ claims[loc[t].child].chain = Append(claims[req[t].tok].chain, req[t].tok)
         /\ claims[loc[t].child].via = IF req[t].op = "approve" THEN req[t].appr ELSE None
    /\ pc[t] = "grant" => <<req[t].tok, loc[t].child>> \in edges
    /\ pc[t] = "hand" =>
         /\ loc[t].child \in tokens /\ Linked(loc[t].child)
         /\ claims[loc[t].child].via = req[t].appr
    /\ \A j \in loc[t].give : j \in tokens /\ Linked(j)
    /\ \A ap \in loc[t].stale : gate[ap].status # "absent"
    /\ Owns(t) => loc[t].act \in Action

CallsOK == \A t \in Thread : CallOK(t)

IInv == FwTypeOK /\ TokensOK /\ GateOK /\ CallsOK

-----------------------------------------------------------------------------
(* The type invariant.                                                     *)

RowsOK ==
    /\ scenario \in Scenarios /\ now \in Nat
    /\ tokens \subseteq Jti /\ held \subseteq Jti /\ revoked \subseteq Jti
    /\ claims \in [Jti -> Claims]
    /\ edges \subseteq Jti \X Jti
    /\ actions \in [Action -> ActionRow]
    /\ reviews \in [Review -> ReviewRow]
    /\ gate \in [Approval -> ApprovalRow]
    /\ audit \subseteq AuditRow
    /\ block \in [Action -> {"not run", "running", "returned", "raised"}]

ThreadsOK ==
    /\ pc \in [Thread -> Label]
    /\ req \in [Thread -> Call]
    /\ loc \in [Thread -> Local]
    /\ known \in [Thread -> Known]

LEMMA TypeParts == FwTypeOK <=> RowsOK /\ ThreadsOK
BY DEF FwTypeOK, RowsOK, ThreadsOK

LEMMA BlankTypes ==
    /\ NoCall \in Call /\ NoLocal \in Local /\ NoHistory \in Known
    /\ \A op \in Method \cup {"none"} : [NoCall EXCEPT !.op = op] \in Call
<1>1. NoCall \in Call
    BY DEF NoCall, Call
<1>2. NoLocal \in Local
    BY DEF NoLocal, Local, Label
<1>3. NoHistory \in Known
    BY DEF NoHistory, Known
<1>4. \A op \in Method \cup {"none"} : [NoCall EXCEPT !.op = op] \in Call
    BY DEF NoCall, Call
<1> QED BY <1>1, <1>2, <1>3, <1>4

LEMMA InitType == Init => FwTypeOK
<1> SUFFICES ASSUME Init PROVE RowsOK /\ ThreadsOK
    BY TypeParts
<1>1. RowsOK
    <2>1. claims \in [Jti -> Claims]
        <3> DEFINE c == [scopes |-> {}, exp |-> 0, chain |-> <<>>, depth |-> 0,
                         maxDepth |-> 0, via |-> None]
        <3>1. c \in Claims
            <4>1. <<>> \in Seq(Jti)
                OBVIOUS
            <4> QED BY <4>1 DEF Claims
        <3>2. claims = [j \in Jti |-> c]
            BY DEF Init
        <3> HIDE DEF c
        <3> QED BY <3>1, <3>2
    <2>2. actions \in [Action -> ActionRow] /\ reviews \in [Review -> ReviewRow]
        BY DEF Init, ActionRow, ReviewRow
    <2>3. gate \in [Approval -> ApprovalRow]
        BY DEF Init, ApprovalRow
    <2> QED BY <2>1, <2>2, <2>3 DEF Init, RowsOK
<1>2. ThreadsOK
    BY BlankTypes DEF Init, ThreadsOK, Label
<1> QED BY <1>1, <1>2

LEMMA ScenarioType ==
    ASSUME FwTypeOK
    PROVE  /\ scenario.calls \in [Thread -> SUBSET Method]
           /\ scenario.asks \subseteq SUBSET Scope /\ scenario.depths \subseteq Nat
BY FirewallAssumption DEF FwTypeOK, Scenario

(* What a call is when it begins, and that nothing is left when it ends.   *)
LEMMA BeginSays ==
    ASSUME FwTypeOK, NEW t \in Thread, NEW call \in Call, NEW l \in Label,
           NEW local \in Local, NEW history \in Known, Begin(t, call, l, local, history)
    PROVE  /\ ThreadsOK'
           /\ pc[t] = "idle" /\ call.op \in scenario.calls[t]
           /\ pc'[t] = l /\ req'[t] = call /\ loc'[t] = local /\ known'[t] = history
BY DEF FwTypeOK, ThreadsOK, Begin, Goto

LEMMA EndSays ==
    ASSUME FwTypeOK, NEW t \in Thread, End(t)
    PROVE  /\ ThreadsOK'
           /\ pc'[t] = "idle" /\ req'[t] = NoCall /\ loc'[t] = NoLocal
           /\ known'[t] = NoHistory
<1>1. "idle" \in Label
    BY DEF Label
<1> QED BY <1>1, BlankTypes DEF FwTypeOK, ThreadsOK, End, Goto

LEMMA LoggingSays ==
    ASSUME FwTypeOK, NEW t \in Thread, NEW event, NEW id, NEW row \in AuditRow, row = <<event, id>>,
           NEW give \in SUBSET Jti, NEW then \in Label, Logging(t, event, id, give, then)
    PROVE  /\ pc' \in [Thread -> Label] /\ loc' \in [Thread -> Local]
           /\ pc'[t] = "log" /\ loc'[t].row = row /\ loc'[t].give = give
           /\ loc'[t].then = then /\ loc'[t].child = loc[t].child
           /\ loc'[t].stale = loc[t].stale /\ loc'[t].cand = loc[t].cand
           /\ loc'[t].act = loc[t].act /\ loc'[t].level = loc[t].level
           /\ loc'[t].targets = loc[t].targets
<1>1. loc[t] \in Local /\ pc \in [Thread -> Label] /\ loc \in [Thread -> Local]
    BY DEF FwTypeOK
<1>2. loc' = [loc EXCEPT ![t].row = <<event, id>>, ![t].give = give, ![t].then = then]
    BY DEF Logging
<1>3. pc' = [pc EXCEPT ![t] = "log"] /\ "log" \in Label
    BY DEF Logging, Goto, Label
<1>5. loc' = [loc EXCEPT ![t] = [loc[t] EXCEPT !.row = row, !.give = give, !.then = then]]
    BY <1>1, <1>2 DEF Local
<1> DEFINE l == [loc[t] EXCEPT !.row = row, !.give = give, !.then = then]
<1>6. /\ l \in Local /\ l.row = row /\ l.give = give /\ l.then = then
      /\ l.child = loc[t].child /\ l.stale = loc[t].stale /\ l.cand = loc[t].cand
      /\ l.act = loc[t].act /\ l.level = loc[t].level /\ l.targets = loc[t].targets
    BY <1>1 DEF Local
<1>7. loc' = [loc EXCEPT ![t] = l]
    BY <1>5
<1> HIDE DEF l
<1>8. loc' \in [Thread -> Local] /\ loc'[t] = l
    BY <1>1, <1>6, <1>7
<1> QED BY <1>1, <1>3, <1>6, <1>8

-----------------------------------------------------------------------------
(* Two facts about every step.                                             *)

(* Rows are only added, and what identifies a row stays.                   *)
Grown ==
    /\ scenario' = scenario
    /\ tokens \subseteq tokens' /\ edges \subseteq edges' /\ revoked \subseteq revoked'
    /\ audit \subseteq audit' /\ held \subseteq held'
    /\ \A j \in tokens : claims'[j] = claims[j]
    /\ \A a \in Action : actions[a].state # "absent" =>
         actions'[a].state # "absent" /\ actions'[a].jti = actions[a].jti
    /\ \A r \in Review : reviews[r].action # None => reviews'[r].action = reviews[r].action
    /\ \A ap \in Approval : gate[ap].status # "absent" =>
         /\ gate'[ap].status # "absent" /\ gate'[ap].parent = gate[ap].parent
         /\ gate'[ap].scopes = gate[ap].scopes /\ gate'[ap].ttl = gate[ap].ttl
         /\ gate'[ap].parentExp = gate[ap].parentExp

SameThread(t) ==
    pc'[t] = pc[t] /\ req'[t] = req[t] /\ loc'[t] = loc[t] /\ known'[t] = known[t]

Step(t) == Tokens(t) \/ InFlight(t) \/ Revocation(t) \/ Gate(t) \/ Log(t) \/ Abort(t)

LEMMA OthersStay ==
    ASSUME FwTypeOK, NEW t \in Thread, Step(t), NEW u \in Thread, u # t
    PROVE  SameThread(u)
<1>0. /\ DOMAIN pc = Thread /\ DOMAIN req = Thread /\ DOMAIN loc = Thread
      /\ DOMAIN known = Thread
    BY DEF FwTypeOK
<1>1. CASE Tokens(t)
    BY <1>0, <1>1 DEF Tokens, MintRoot, Delegate, Verify, Present, Begin, IsRevoked,
       ScopeGranted, ScopeNotGranted, Allowed, DelegateChecked, DelegateMint, DelegatePark,
       AddEdge, Goto, End, Logging, SameThread
<1>2. CASE InFlight(t)
    BY <1>0, <1>2 DEF InFlight, PutAction, EnterBlock, LeaveBlock, CloseAction, Goto, Logging,
       SameThread
<1>3. CASE Revocation(t)
    BY <1>0, <1>3 DEF Revocation, Revoke, RevokeWalk, RevokeGather, RevokeAlready,
       RevokeInsert, RevokeReviewed, PutReview, RevokeQueued, RevokeReport, ResolveReview,
       UpdateReview, Begin, Goto, End, Logging, SameThread
<1>4. CASE Gate(t)
    BY <1>0, <1>4 DEF Gate, Approve, Deny, LoadApproval, Lapse, ApproveParent,
       ApproveDeadline, ApproveReject, ApproveMint, ApproveGrant, DenyRefuse, Collect,
       CollectHand, PendingApprovals, ExpireStale, Begin, Goto, End, Logging, SameThread
<1>5. CASE Log(t) \/ Abort(t)
    BY <1>0, <1>5 DEF Log, Abort, Goto, End, SameThread
<1> QED BY <1>1, <1>2, <1>3, <1>4, <1>5 DEF Step

LEMMA PutTokenGrows ==
    ASSUME FwTypeOK, NEW j \in FreshJti, NEW c, PutToken(j, c),
           UNCHANGED <<scenario, edges, revoked, actions, reviews, gate, audit, held>>
    PROVE  Grown
<1>1. j \in Jti /\ j \notin tokens
    BY DEF FreshJti
<1> QED BY <1>1 DEF FwTypeOK, PutToken, Grown

LEMMA DecideGrows ==
    ASSUME FwTypeOK, NEW ap, NEW status, status # "absent", NEW child,
           Decide(ap, status, child),
           UNCHANGED <<scenario, tokens, claims, edges, revoked, actions, reviews>>,
           audit \subseteq audit', held \subseteq held'
    PROVE  Grown
<1>1. \A b \in Approval : gate[b] \in ApprovalRow
    BY DEF FwTypeOK
<1>2. ASSUME NEW b \in Approval, gate[b].status # "absent"
      PROVE  /\ gate'[b].status # "absent" /\ gate'[b].parent = gate[b].parent
             /\ gate'[b].scopes = gate[b].scopes /\ gate'[b].ttl = gate[b].ttl
             /\ gate'[b].parentExp = gate[b].parentExp
    <2>1. gate'[b] = IF b = ap THEN [gate[b] EXCEPT !.status = status, !.child = child]
                               ELSE gate[b]
        BY DEF FwTypeOK, Decide, ApprovalRow
    <2> QED BY <1>1, <1>2, <2>1 DEF ApprovalRow
<1> QED BY <1>2 DEF Grown

LEMMA SameRowsGrow ==
    ASSUME UNCHANGED <<scenario, rows>>, audit \subseteq audit', held \subseteq held'
    PROVE  Grown
BY DEF rows, Grown

LEMMA TokensGrow ==
    ASSUME FwTypeOK, NEW t \in Thread, Tokens(t)
    PROVE  Grown
<1>1. CASE MintRoot(t) \/ DelegateMint(t)
    BY <1>1, PutTokenGrows DEF MintRoot, DelegateMint
<1>2. CASE DelegatePark(t)
    BY <1>2 DEF DelegatePark, Grown, FwTypeOK
<1>3. CASE AddEdge(t)
    BY <1>3 DEF AddEdge, Grown
<1>4. CASE UNCHANGED <<scenario, rows, audit, held>>
    BY <1>4, SameRowsGrow
<1> QED BY <1>1, <1>2, <1>3, <1>4 DEF Tokens, Delegate, Verify, Present, IsRevoked,
        ScopeGranted, ScopeNotGranted, Allowed, DelegateChecked

LEMMA InFlightGrow ==
    ASSUME FwTypeOK, NEW t \in Thread, InFlight(t)
    PROVE  Grown
<1>0. \A a \in Action : actions[a] \in ActionRow
    BY DEF FwTypeOK
<1>1. CASE PutAction(t)
    <2>1. PICK a \in Action \ Recorded :
             actions' = [actions EXCEPT ![a] = [jti |-> req[t].tok, state |-> "OPEN"]]
        BY <1>1 DEF PutAction
    <2> QED BY <1>1, <2>1 DEF PutAction, Grown, Recorded, FwTypeOK
<1>2. CASE CloseAction(t)
    <2>1. actions' = [actions EXCEPT ![loc[t].act].state = CompletionState(loc[t].act)]
        BY <1>2 DEF CloseAction
    <2>2. ASSUME NEW a \in Action, actions[a].state # "absent"
          PROVE  actions'[a].state # "absent" /\ actions'[a].jti = actions[a].jti
        BY <1>0, <2>1, <2>2 DEF FwTypeOK, ActionRow, CompletionState
    <2> QED BY <1>2, <2>2 DEF CloseAction, Grown
<1>3. CASE EnterBlock(t) \/ LeaveBlock(t)
    BY <1>3, SameRowsGrow DEF EnterBlock, LeaveBlock
<1> QED BY <1>1, <1>2, <1>3 DEF InFlight

LEMMA RevocationGrows ==
    ASSUME FwTypeOK, NEW t \in Thread, Revocation(t)
    PROVE  Grown
<1>0. \A r \in Review : reviews[r] \in ReviewRow
    BY DEF FwTypeOK
<1>1. CASE RevokeInsert(t)
    BY <1>1 DEF RevokeInsert, Grown
<1>2. CASE PutReview(t)
    BY <1>2 DEF PutReview, Grown, FwTypeOK
<1>3. CASE UpdateReview(t)
    <2>1. \A r \in Review : reviews'[r].action = reviews[r].action
        BY <1>0, <1>3 DEF UpdateReview, FwTypeOK, ReviewRow
    <2> QED BY <1>3, <2>1 DEF UpdateReview, Grown
<1>4. CASE UNCHANGED <<scenario, rows, audit, held>>
    BY <1>4, SameRowsGrow
<1> QED BY <1>1, <1>2, <1>3, <1>4 DEF Revocation, Revoke, RevokeWalk, RevokeGather,
        RevokeAlready, RevokeReviewed, RevokeQueued, RevokeReport, ResolveReview

LEMMA GateGrows ==
    ASSUME FwTypeOK, NEW t \in Thread, Gate(t)
    PROVE  Grown
<1>1. CASE ApproveMint(t)
    BY <1>1, PutTokenGrows DEF ApproveMint
<1>2. CASE Lapse(t) \/ ApproveReject(t) \/ ApproveGrant(t) \/ DenyRefuse(t)
           \/ CollectHand(t) \/ ExpireStale(t)
    BY <1>2, DecideGrows DEF Lapse, ApproveReject, ApproveGrant, DenyRefuse, CollectHand,
       ExpireStale
<1>3. CASE UNCHANGED <<scenario, rows, audit, held>>
    BY <1>3, SameRowsGrow
<1> QED BY <1>1, <1>2, <1>3 DEF Gate, Approve, Deny, LoadApproval, ApproveParent,
        ApproveDeadline, Collect, PendingApprovals

LEMMA StepGrows ==
    ASSUME FwTypeOK, [Next]_vars
    PROVE  Grown
<1>1. ASSUME NEW t \in Thread, Log(t) \/ Abort(t) \/ Refused(t) PROVE Grown
    BY <1>1, SameRowsGrow DEF Log, Abort, Refused, vars, rows
<1>2. CASE Crash \/ Tick \/ UNCHANGED vars
    BY <1>2, SameRowsGrow DEF Crash, Tick, vars, rows
<1> QED BY <1>1, <1>2, TokensGrow, InFlightGrow, RevocationGrows, GateGrows DEF Next

-----------------------------------------------------------------------------
(* What a call is when it begins.                                          *)

(* The local variables of a call of which only these are set.              *)
FreshLocal(l) ==
    /\ l.give = {} /\ l.stale = {} /\ l.cand = {} /\ l.then = "idle"

LEMMA LookupsType ==
    ASSUME FwTypeOK, NEW j \in Jti
    PROVE  Lookups(j) \in Seq(Jti)
<1> DEFINE chain == claims[j].chain
<1>1. chain \in Seq(Jti)
    BY DEF FwTypeOK, Claims
<1> HIDE DEF chain
<1>2. <<j>> \o chain \in Seq(Jti)
    BY <1>1
<1> QED BY <1>2 DEF Lookups, chain

LEMMA MintRootSays ==
    ASSUME FwTypeOK, NEW t \in Thread, MintRoot(t)
    PROVE  \E j \in FreshJti :
             /\ \E scopes \in SUBSET Scope, ttl \in Nat, depth \in Nat :
                  PutToken(j, RootClaims(scopes, ttl, depth))
             /\ pc[t] = "idle" /\ pc'[t] = "log" /\ req'[t].op = "mint_root"
             /\ "mint_root" \in scenario.calls[t]
             /\ loc'[t].row = <<"root_minted", j>> /\ loc'[t].give = {j}
             /\ loc'[t].stale = {} /\ loc'[t].cand = {} /\ loc'[t].then = "idle"
             /\ known'[t] = NoHistory /\ ThreadsOK'
<1>1. PICK j \in FreshJti : \E scopes \in scenario.asks : \E ttl \in TTLs :
      \E depth \in scenario.depths :
         /\ Begin(t, [NoCall EXCEPT !.op = "mint_root"], "log",
                  [NoLocal EXCEPT !.row = <<"root_minted", j>>, !.give = {j}], NoHistory)
         /\ PutToken(j, RootClaims(scopes, ttl, depth))
    BY DEF MintRoot
<1>2. PICK scopes \in scenario.asks : \E ttl \in TTLs : \E depth \in scenario.depths :
         /\ Begin(t, [NoCall EXCEPT !.op = "mint_root"], "log",
                  [NoLocal EXCEPT !.row = <<"root_minted", j>>, !.give = {j}], NoHistory)
         /\ PutToken(j, RootClaims(scopes, ttl, depth))
    BY <1>1
<1>3. PICK ttl \in TTLs : \E depth \in scenario.depths :
         /\ Begin(t, [NoCall EXCEPT !.op = "mint_root"], "log",
                  [NoLocal EXCEPT !.row = <<"root_minted", j>>, !.give = {j}], NoHistory)
         /\ PutToken(j, RootClaims(scopes, ttl, depth))
    BY <1>2
<1>4. PICK depth \in scenario.depths :
         /\ Begin(t, [NoCall EXCEPT !.op = "mint_root"], "log",
                  [NoLocal EXCEPT !.row = <<"root_minted", j>>, !.give = {j}], NoHistory)
         /\ PutToken(j, RootClaims(scopes, ttl, depth))
    BY <1>3
<1>5. /\ scopes \in SUBSET Scope /\ ttl \in Nat /\ depth \in Nat /\ j \in Jti
    BY ScenarioType, FirewallAssumption DEF FreshJti
<1> DEFINE call == [NoCall EXCEPT !.op = "mint_root"]
           row == <<"root_minted", j>>
           local == [NoLocal EXCEPT !.row = row, !.give = {j}]
<1>6. call \in Call /\ call.op = "mint_root"
    BY BlankTypes DEF Method, NoCall
<1>7. /\ local \in Local /\ local.row = row /\ local.give = {j} /\ local.stale = {}
      /\ local.cand = {} /\ local.then = "idle"
    <2>1. row \in AuditRow
        BY <1>5 DEF AuditRow, Id
    <2> HIDE DEF row
    <2> QED BY <1>5, <2>1, BlankTypes DEF NoLocal, Local
<1>8. Begin(t, call, "log", local, NoHistory) /\ "log" \in Label
    BY <1>4 DEF Label
<1> HIDE DEF call, local
<1>9. /\ ThreadsOK' /\ pc[t] = "idle" /\ call.op \in scenario.calls[t]
      /\ pc'[t] = "log" /\ req'[t] = call /\ loc'[t] = local /\ known'[t] = NoHistory
    BY <1>6, <1>7, <1>8, BlankTypes, BeginSays
<1>10. /\ \E s \in SUBSET Scope, m \in Nat, d \in Nat : PutToken(j, RootClaims(s, m, d))
       /\ pc[t] = "idle" /\ pc'[t] = "log" /\ req'[t].op = "mint_root"
       /\ "mint_root" \in scenario.calls[t]
       /\ loc'[t].row = <<"root_minted", j>> /\ loc'[t].give = {j}
       /\ loc'[t].stale = {} /\ loc'[t].cand = {} /\ loc'[t].then = "idle"
       /\ known'[t] = NoHistory /\ ThreadsOK'
    BY <1>4, <1>5, <1>6, <1>7, <1>9
<1> QED BY <1>10

(* delegate, verify and action present a token that a caller holds.        *)
LEMMA PresentSays ==
    ASSUME FwTypeOK, NEW t \in Thread, Delegate(t) \/ Verify(t)
    PROVE  \E j \in held :
             /\ pc[t] = "idle" /\ pc'[t] = "lookup" /\ req'[t].tok = j
             /\ req'[t].op \in {"delegate", "verify", "action"}
             /\ req'[t].op \in scenario.calls[t]
             /\ loc'[t].todo = Lookups(j) /\ FreshLocal(loc'[t])
             /\ known'[t] = [NoHistory EXCEPT !.revoked = revoked]
             /\ ThreadsOK' /\ UNCHANGED <<scenario, now, rows, audit, held, block>>
<1>1. ASSUME NEW j \in held, NEW scopes \in SUBSET Scope, NEW ttl \in Nat,
             NEW op \in {"delegate", "verify", "action"}, NEW call, call \in Call,
             call.op = op, call.tok = j, Present(t, call)
      PROVE  /\ pc[t] = "idle" /\ pc'[t] = "lookup" /\ req'[t].tok = j
             /\ req'[t].op \in {"delegate", "verify", "action"}
             /\ req'[t].op \in scenario.calls[t]
             /\ loc'[t].todo = Lookups(j) /\ FreshLocal(loc'[t])
             /\ known'[t] = [NoHistory EXCEPT !.revoked = revoked]
             /\ ThreadsOK' /\ UNCHANGED <<scenario, now, rows, audit, held, block>>
    <2> DEFINE local == [NoLocal EXCEPT !.todo = Lookups(j)]
               history == [NoHistory EXCEPT !.revoked = revoked]
    <2>1. /\ local \in Local /\ local.todo = Lookups(j) /\ FreshLocal(local)
        <3>1. j \in Jti /\ Lookups(j) \in Seq(Jti)
            BY LookupsType DEF FwTypeOK
        <3> QED BY <3>1, BlankTypes DEF NoLocal, Local, FreshLocal
    <2>2. history \in Known
        BY BlankTypes DEF FwTypeOK, NoHistory, Known
    <2>3. Begin(t, call, "lookup", local, history) /\ "lookup" \in Label
        BY <1>1 DEF Present, Label
    <2>4. UNCHANGED <<scenario, now, rows, audit, held, block>>
        BY <1>1 DEF Present
    <2> HIDE DEF local, history
    <2>5. /\ ThreadsOK' /\ pc[t] = "idle" /\ call.op \in scenario.calls[t]
          /\ pc'[t] = "lookup" /\ req'[t] = call /\ loc'[t] = local /\ known'[t] = history
        BY <1>1, <2>1, <2>2, <2>3, BeginSays
    <2> QED BY <1>1, <2>1, <2>4, <2>5 DEF history
<1>2. CASE Delegate(t)
    <2>1. PICK j \in held : \E scopes \in scenario.asks : \E ttl \in TTLs :
             Present(t, [NoCall EXCEPT !.op = "delegate", !.tok = j, !.scopes = scopes,
                                       !.ttl = ttl])
        BY <1>2 DEF Delegate
    <2>2. PICK scopes \in scenario.asks : \E ttl \in TTLs :
             Present(t, [NoCall EXCEPT !.op = "delegate", !.tok = j, !.scopes = scopes,
                                       !.ttl = ttl])
        BY <2>1
    <2>3. PICK ttl \in TTLs :
             Present(t, [NoCall EXCEPT !.op = "delegate", !.tok = j, !.scopes = scopes,
                                       !.ttl = ttl])
        BY <2>2
    <2> DEFINE call == [NoCall EXCEPT !.op = "delegate", !.tok = j, !.scopes = scopes,
                                      !.ttl = ttl]
    <2>4. scopes \in SUBSET Scope /\ ttl \in Nat /\ j \in Jti
        BY ScenarioType, FirewallAssumption DEF FwTypeOK
    <2>5. call \in Call /\ call.op = "delegate" /\ call.tok = j
        BY <2>4, BlankTypes DEF NoCall, Call, Method
    <2>6. Present(t, call)
        BY <2>3
    <2> HIDE DEF call
    <2> QED BY <1>1, <2>4, <2>5, <2>6
<1>3. CASE Verify(t)
    <2>1. PICK j \in held : \E s \in Scope : \E op \in {"verify", "action"} :
             Present(t, [NoCall EXCEPT !.op = op, !.tok = j, !.scopes = {s}])
        BY <1>3 DEF Verify
    <2>2. PICK s \in Scope : \E op \in {"verify", "action"} :
             Present(t, [NoCall EXCEPT !.op = op, !.tok = j, !.scopes = {s}])
        BY <2>1
    <2>3. PICK op \in {"verify", "action"} :
             Present(t, [NoCall EXCEPT !.op = op, !.tok = j, !.scopes = {s}])
        BY <2>2
    <2> DEFINE call == [NoCall EXCEPT !.op = op, !.tok = j, !.scopes = {s}]
    <2>4. call \in Call /\ call.op = op /\ call.tok = j
        <3>1. j \in Jti /\ op \in Method
            BY DEF FwTypeOK, Method
        <3> QED BY <3>1, BlankTypes DEF NoCall, Call
    <2>5. Present(t, call) /\ {s} \in SUBSET Scope /\ 0 \in Nat
        BY <2>3
    <2> HIDE DEF call
    <2> QED BY <1>1, <2>4, <2>5
<1> QED BY <1>2, <1>3

LEMMA RevokeSays ==
    ASSUME FwTypeOK, NEW t \in Thread, Revoke(t)
    PROVE  \E j \in tokens :
             /\ pc[t] = "idle" /\ pc'[t] = "walk" /\ req'[t].op = "revoke"
             /\ req'[t].tok = j /\ "revoke" \in scenario.calls[t]
             /\ loc'[t].targets = {j} /\ loc'[t].level = {j} /\ FreshLocal(loc'[t])
             /\ known'[t].below = Descendants(j) \cap held
             /\ known'[t].acts = {a \in Recorded : actions[a].jti \in Descendants(j)}
             /\ ThreadsOK' /\ UNCHANGED <<scenario, now, rows, audit, held, block>>
<1> DEFINE Acts(j) == {a \in Recorded : actions[a].jti \in Descendants(j)}
<1>1. PICK j \in tokens :
         /\ Begin(t, [NoCall EXCEPT !.op = "revoke", !.tok = j], "walk",
                  [NoLocal EXCEPT !.targets = {j}, !.level = {j}],
                  [NoHistory EXCEPT !.below = Descendants(j) \cap held, !.acts = Acts(j)])
         /\ UNCHANGED <<scenario, now, rows, audit, held, block>>
    BY DEF Revoke
<1> DEFINE call == [NoCall EXCEPT !.op = "revoke", !.tok = j]
           local == [NoLocal EXCEPT !.targets = {j}, !.level = {j}]
           history == [NoHistory EXCEPT !.below = Descendants(j) \cap held, !.acts = Acts(j)]
<1>2. j \in Jti
    BY DEF FwTypeOK
<1>3. call \in Call /\ call.op = "revoke" /\ call.tok = j
    BY <1>2, BlankTypes DEF NoCall, Call, Method
<1>4. local \in Local /\ local.targets = {j} /\ local.level = {j} /\ FreshLocal(local)
    BY <1>2, BlankTypes DEF NoLocal, Local, FreshLocal
<1>5. /\ history \in Known /\ history.below = Descendants(j) \cap held
      /\ history.acts = Acts(j)
    <2>1. Descendants(j) \cap held \subseteq Jti /\ Acts(j) \subseteq Action
        BY DEF FwTypeOK, Recorded
    <2> HIDE DEF Acts
    <2> QED BY <2>1, BlankTypes DEF NoHistory, Known
<1>6. Begin(t, call, "walk", local, history) /\ "walk" \in Label
    BY <1>1 DEF Label
<1>7. UNCHANGED <<scenario, now, rows, audit, held, block>>
    BY <1>1
<1> HIDE DEF call, local, history
<1>8. /\ ThreadsOK' /\ pc[t] = "idle" /\ call.op \in scenario.calls[t]
      /\ pc'[t] = "walk" /\ req'[t] = call /\ loc'[t] = local /\ known'[t] = history
    BY <1>3, <1>4, <1>5, <1>6, BeginSays
<1> QED BY <1>3, <1>4, <1>5, <1>7, <1>8

LEMMA ResolveReviewSays ==
    ASSUME FwTypeOK, NEW t \in Thread, ResolveReview(t)
    PROVE  \E r \in Review :
             /\ reviews[r].action # None
             /\ pc[t] = "idle" /\ pc'[t] = "resolve" /\ req'[t].op = "resolve_review"
             /\ req'[t].rev = r /\ "resolve_review" \in scenario.calls[t]
             /\ FreshLocal(loc'[t]) /\ known'[t] = NoHistory
             /\ ThreadsOK' /\ UNCHANGED <<scenario, now, rows, audit, held, block>>
<1>1. PICK r \in Review :
         /\ reviews[r].action # None
         /\ Begin(t, [NoCall EXCEPT !.op = "resolve_review", !.rev = r], "resolve",
                  NoLocal, NoHistory)
         /\ UNCHANGED <<scenario, now, rows, audit, held, block>>
    BY DEF ResolveReview
<1> DEFINE call == [NoCall EXCEPT !.op = "resolve_review", !.rev = r]
<1>2. call \in Call /\ call.op = "resolve_review" /\ call.rev = r
    BY BlankTypes DEF NoCall, Call, Method
<1>3. Begin(t, call, "resolve", NoLocal, NoHistory) /\ "resolve" \in Label
    BY <1>1 DEF Label
<1> HIDE DEF call
<1>4. /\ ThreadsOK' /\ pc[t] = "idle" /\ call.op \in scenario.calls[t]
      /\ pc'[t] = "resolve" /\ req'[t] = call /\ loc'[t] = NoLocal /\ known'[t] = NoHistory
    BY <1>2, <1>3, BlankTypes, BeginSays
<1> QED BY <1>1, <1>2, <1>4 DEF NoLocal, FreshLocal

(* approve and deny load a pending request.                                *)
LEMMA DecisionSays ==
    ASSUME FwTypeOK, NEW t \in Thread, Approve(t) \/ Deny(t)
    PROVE  \E ap \in Approval :
             /\ gate[ap].status = "pending" /\ pc[t] = "idle"
             /\ \/ req'[t].op = "approve" /\ pc'[t] \in {"lapse", "parent"}
                \/ req'[t].op = "deny" /\ pc'[t] \in {"lapse", "refuse"}
             /\ req'[t].op \in scenario.calls[t]
             /\ req'[t].appr = ap /\ req'[t].tok = gate[ap].parent
             /\ FreshLocal(loc'[t]) /\ known'[t] = NoHistory
             /\ ThreadsOK' /\ UNCHANGED <<scenario, now, rows, audit, held, block>>
<1>1. PICK op \in {"approve", "deny"} :
         LoadApproval(t, op, IF op = "approve" THEN "parent" ELSE "refuse")
    BY DEF Approve, Deny
<1> DEFINE l == IF op = "approve" THEN "parent" ELSE "refuse"
<1>2. PICK ap \in Approval :
         /\ LoadPending(ap)
         /\ Begin(t, [NoCall EXCEPT !.op = op, !.appr = ap, !.tok = gate[ap].parent],
                  IF Past(gate[ap].expires) THEN "lapse" ELSE l, NoLocal, NoHistory)
         /\ UNCHANGED <<scenario, now, rows, audit, held, block>>
    BY <1>1 DEF LoadApproval
<1> DEFINE call == [NoCall EXCEPT !.op = op, !.appr = ap, !.tok = gate[ap].parent]
           label == IF Past(gate[ap].expires) THEN "lapse" ELSE l
<1>3. gate[ap].parent \in Jti \cup {None}
    BY DEF FwTypeOK, ApprovalRow
<1>4. call \in Call /\ call.op = op /\ call.appr = ap /\ call.tok = gate[ap].parent
    BY <1>3, BlankTypes DEF NoCall, Call, Method
<1>5. label \in Label /\ label \in {"lapse", IF op = "approve" THEN "parent" ELSE "refuse"}
    BY DEF Label
<1>6. Begin(t, call, label, NoLocal, NoHistory)
    BY <1>2
<1>7. gate[ap].status = "pending" /\ UNCHANGED <<scenario, now, rows, audit, held, block>>
    BY <1>2 DEF LoadPending
<1> HIDE DEF call, label
<1>8. /\ ThreadsOK' /\ pc[t] = "idle" /\ call.op \in scenario.calls[t]
      /\ pc'[t] = label /\ req'[t] = call /\ loc'[t] = NoLocal /\ known'[t] = NoHistory
    BY <1>4, <1>5, <1>6, BlankTypes, BeginSays
<1> QED BY <1>4, <1>5, <1>7, <1>8 DEF NoLocal, FreshLocal

LEMMA CollectSays ==
    ASSUME FwTypeOK, NEW t \in Thread, Collect(t)
    PROVE  \E ap \in Approval :
             /\ gate[ap].status = "approved" /\ pc[t] = "idle" /\ pc'[t] = "hand"
             /\ req'[t].op = "collect" /\ "collect" \in scenario.calls[t]
             /\ req'[t].appr = ap /\ loc'[t].child = gate[ap].child
             /\ FreshLocal(loc'[t]) /\ known'[t] = NoHistory
             /\ ThreadsOK' /\ UNCHANGED <<scenario, now, rows, audit, held, block>>
<1>1. PICK ap \in Approval :
         /\ gate[ap].status = "approved"
         /\ Begin(t, [NoCall EXCEPT !.op = "collect", !.appr = ap], "hand",
                  [NoLocal EXCEPT !.child = gate[ap].child], NoHistory)
         /\ UNCHANGED <<scenario, now, rows, audit, held, block>>
    BY DEF Collect
<1> DEFINE call == [NoCall EXCEPT !.op = "collect", !.appr = ap]
           local == [NoLocal EXCEPT !.child = gate[ap].child]
<1>2. call \in Call /\ call.op = "collect" /\ call.appr = ap
    BY BlankTypes DEF NoCall, Call, Method
<1>3. local \in Local /\ local.child = gate[ap].child /\ FreshLocal(local)
    <2>1. gate[ap].child \in Jti \cup {None}
        BY DEF FwTypeOK, ApprovalRow
    <2> QED BY <2>1, BlankTypes DEF NoLocal, Local, FreshLocal
<1>4. Begin(t, call, "hand", local, NoHistory) /\ "hand" \in Label
    BY <1>1 DEF Label
<1> HIDE DEF call, local
<1>5. /\ ThreadsOK' /\ pc[t] = "idle" /\ call.op \in scenario.calls[t]
      /\ pc'[t] = "hand" /\ req'[t] = call /\ loc'[t] = local /\ known'[t] = NoHistory
    BY <1>2, <1>3, <1>4, BlankTypes, BeginSays
<1> QED BY <1>1, <1>2, <1>3, <1>5

LEMMA PendingApprovalsSays ==
    ASSUME FwTypeOK, NEW t \in Thread, PendingApprovals(t)
    PROVE  /\ pc[t] = "idle" /\ pc'[t] = "sweep" /\ req'[t].op = "pending_approvals"
           /\ "pending_approvals" \in scenario.calls[t]
           /\ loc'[t].stale \subseteq Approval
           /\ \A ap \in loc'[t].stale : gate[ap].status = "pending"
           /\ loc'[t].give = {} /\ loc'[t].cand = {} /\ loc'[t].then = "idle"
           /\ known'[t] = NoHistory
           /\ ThreadsOK' /\ UNCHANGED <<scenario, now, rows, audit, held, block>>
<1> DEFINE stale == {ap \in Approval : LoadPending(ap) /\ Past(gate[ap].expires)}
           call == [NoCall EXCEPT !.op = "pending_approvals"]
           local == [NoLocal EXCEPT !.stale = stale]
<1>1. call \in Call /\ call.op = "pending_approvals"
    BY BlankTypes DEF NoCall, Call, Method
<1>2. /\ local \in Local /\ local.stale = stale
      /\ local.give = {} /\ local.cand = {} /\ local.then = "idle"
    <2>1. stale \subseteq Approval
        OBVIOUS
    <2> HIDE DEF stale
    <2> QED BY <2>1, BlankTypes DEF NoLocal, Local
<1>3. /\ Begin(t, call, "sweep", local, NoHistory) /\ "sweep" \in Label
      /\ UNCHANGED <<scenario, now, rows, audit, held, block>>
    BY DEF PendingApprovals, Label
<1>4. stale \subseteq Approval /\ \A ap \in stale : gate[ap].status = "pending"
    BY DEF LoadPending
<1> HIDE DEF call, local, stale
<1>5. /\ ThreadsOK' /\ pc[t] = "idle" /\ call.op \in scenario.calls[t]
      /\ pc'[t] = "sweep" /\ req'[t] = call /\ loc'[t] = local /\ known'[t] = NoHistory
    BY <1>1, <1>2, <1>3, BlankTypes, BeginSays
<1> QED BY <1>1, <1>2, <1>3, <1>4, <1>5

-----------------------------------------------------------------------------
(* What a step of a call under way leaves.                                 *)

LEMMA LogSays ==
    ASSUME IInv, NEW t \in Thread, Log(t)
    PROVE  /\ pc[t] = "log" /\ audit' = audit \cup {loc[t].row}
           /\ loc[t].row \in AuditRow /\ held' = held \cup loc[t].give
           /\ UNCHANGED <<scenario, now, rows, block>> /\ ThreadsOK'
           /\ \/ loc[t].then = "idle" /\ End(t)
              \/ /\ loc[t].then # "idle" /\ pc'[t] = loc[t].then
                 /\ req' = req /\ known' = known /\ loc'[t].then = "idle"
                 /\ loc'[t].give = loc[t].give /\ loc'[t].stale = loc[t].stale
                 /\ loc'[t].cand = loc[t].cand /\ loc'[t].act = loc[t].act
<1>1. pc[t] = "log" /\ CallOK(t) /\ ThreadsOK /\ loc[t] \in Local /\ loc[t].then \in Label
    BY DEF Log, IInv, CallsOK, FwTypeOK, ThreadsOK, Local
<1>2. loc[t].row \in AuditRow
    BY <1>1 DEF CallOK
<1>3. CASE loc[t].then = "idle"
    BY <1>1, <1>2, <1>3, EndSays DEF Log, IInv
<1>4. CASE loc[t].then # "idle"
    <2>1. /\ loc' = [loc EXCEPT ![t].row = NoLocal.row, ![t].then = "idle"]
          /\ pc' = [pc EXCEPT ![t] = loc[t].then] /\ UNCHANGED <<req, known>>
        BY <1>4 DEF Log, Goto
    <2> DEFINE row == NoLocal.row
               l == [loc[t] EXCEPT !.row = row, !.then = "idle"]
    <2>2. row \in AuditRow \cup {<<"none", None>>} /\ "idle" \in Label
        BY DEF NoLocal, Label
    <2>3. loc' = [loc EXCEPT ![t] = l]
        BY <1>1, <2>1 DEF ThreadsOK, Local
    <2> HIDE DEF row
    <2>4. /\ l \in Local /\ l.then = "idle" /\ l.give = loc[t].give
          /\ l.stale = loc[t].stale /\ l.cand = loc[t].cand /\ l.act = loc[t].act
        BY <1>1, <2>2 DEF Local
    <2> HIDE DEF l
    <2>5. ThreadsOK' /\ loc'[t] = l /\ pc'[t] = loc[t].then
        BY <1>1, <2>1, <2>3, <2>4 DEF ThreadsOK
    <2> QED BY <1>1, <1>2, <1>4, <2>1, <2>4, <2>5 DEF Log
<1> QED BY <1>3, <1>4

(* DelegateMint and ApproveMint.                                           *)
LEMMA MintSays ==
    ASSUME IInv, NEW t \in Thread, DelegateMint(t) \/ ApproveMint(t)
    PROVE  \E j \in FreshJti :
             /\ \/ /\ req[t].op = "delegate" /\ ~NeedsApproval(req[t].scopes)
                   /\ PutToken(j, ChildClaims(req[t].tok, req[t].scopes, req[t].ttl,
                                              claims[req[t].tok].exp, None))
                \/ /\ req[t].op = "approve"
                   /\ PutToken(j, ChildClaims(req[t].tok, gate[req[t].appr].scopes,
                                    gate[req[t].appr].ttl, gate[req[t].appr].parentExp,
                                    req[t].appr))
             /\ pc[t] = "mint" /\ pc'[t] = "edge" /\ loc'[t].child = j
             /\ loc'[t].give = loc[t].give /\ loc'[t].stale = loc[t].stale
             /\ loc'[t].cand = loc[t].cand
             /\ req' = req /\ known' = known /\ ThreadsOK'
             /\ UNCHANGED <<scenario, now, edges, revoked, actions, reviews, gate, audit, held,
                            block>>
<1>1. PICK j \in FreshJti :
         /\ \/ /\ req[t].op = "delegate" /\ ~NeedsApproval(req[t].scopes)
               /\ PutToken(j, ChildClaims(req[t].tok, req[t].scopes, req[t].ttl,
                                          claims[req[t].tok].exp, None))
            \/ /\ req[t].op = "approve"
               /\ PutToken(j, ChildClaims(req[t].tok, gate[req[t].appr].scopes,
                                gate[req[t].appr].ttl, gate[req[t].appr].parentExp,
                                req[t].appr))
         /\ loc' = [loc EXCEPT ![t].child = j]
    BY DEF DelegateMint, ApproveMint
<1>2. /\ pc[t] = "mint" /\ pc' = [pc EXCEPT ![t] = "edge"] /\ UNCHANGED <<req, known>>
      /\ UNCHANGED <<scenario, now, edges, revoked, actions, reviews, gate, audit, held, block>>
    BY DEF DelegateMint, ApproveMint, Goto
<1>3. ThreadsOK /\ j \in Jti /\ loc[t] \in Local /\ "edge" \in Label
    BY DEF IInv, FwTypeOK, ThreadsOK, FreshJti, Label
<1>4. /\ ThreadsOK' /\ pc'[t] = "edge" /\ loc'[t].child = j
      /\ loc'[t].give = loc[t].give /\ loc'[t].stale = loc[t].stale
      /\ loc'[t].cand = loc[t].cand
    BY <1>1, <1>2, <1>3 DEF ThreadsOK, Local
<1> QED BY <1>1, <1>2, <1>4

LEMMA ParkSays ==
    ASSUME IInv, NEW t \in Thread, DelegatePark(t)
    PROVE  \E ap \in Approval :
             /\ gate[ap].status = "absent"
             /\ gate' = [gate EXCEPT ![ap] =
                  [status |-> "pending", parent |-> req[t].tok, scopes |-> req[t].scopes,
                   ttl |-> req[t].ttl, parentExp |-> claims[req[t].tok].exp,
                   expires |-> Lesser(Seconds + ApprovalTimeout, claims[req[t].tok].exp),
                   child |-> None]]
             /\ pc[t] = "mint" /\ req[t].op = "delegate" /\ pc'[t] = "log"
             /\ loc'[t].row = <<"approval_pending", ap>> /\ loc'[t].give = {}
             /\ loc'[t].then = "idle" /\ loc'[t].stale = loc[t].stale
             /\ loc'[t].cand = loc[t].cand
             /\ req' = req /\ known' = known /\ ThreadsOK'
             /\ UNCHANGED <<scenario, now, tokens, claims, edges, revoked, actions, reviews,
                            audit, held, block>>
<1>1. PICK ap \in Approval :
         /\ gate[ap].status = "absent"
         /\ gate' = [gate EXCEPT ![ap] =
              [status |-> "pending", parent |-> req[t].tok, scopes |-> req[t].scopes,
               ttl |-> req[t].ttl, parentExp |-> claims[req[t].tok].exp,
               expires |-> Lesser(Seconds + ApprovalTimeout, claims[req[t].tok].exp),
               child |-> None]]
         /\ Logging(t, "approval_pending", ap, {}, "idle")
    BY DEF DelegatePark
<1> DEFINE event == "approval_pending"
           give == {}
           then == "idle"
           row == <<event, ap>>
<1>2. row \in AuditRow /\ then \in Label /\ give \in SUBSET Jti
    BY DEF AuditRow, Id, Label
<1>3. Logging(t, event, ap, give, then) /\ FwTypeOK /\ row = <<event, ap>>
    BY <1>1 DEF IInv
<1> HIDE DEF event, give, then, row
<1>4. /\ pc' \in [Thread -> Label] /\ loc' \in [Thread -> Local]
      /\ pc'[t] = "log" /\ loc'[t].row = row /\ loc'[t].give = give
      /\ loc'[t].then = then /\ loc'[t].stale = loc[t].stale /\ loc'[t].cand = loc[t].cand
    BY <1>2, <1>3, LoggingSays
<1> QED BY <1>1, <1>4 DEF event, give, then, row, DelegatePark, ThreadsOK, IInv, FwTypeOK

(* A step of approve, deny or the sweep that writes the status of a        *)
(* request and logs it; LapseSays and HandSays are the two that do not log.*)
LEMMA DecideSays ==
    ASSUME IInv, NEW t \in Thread,
           ApproveReject(t) \/ ApproveGrant(t) \/ DenyRefuse(t) \/ ExpireStale(t)
    PROVE  \E ap \in Approval : \E status \in {"approved", "denied", "expired"} :
           \E child \in Jti \cup {None} :
             /\ Decide(ap, status, child) /\ gate[ap].status # "absent"
             /\ \/ /\ req[t].op = "pending_approvals" /\ status = "expired" /\ child = None
                   /\ pc[t] = "sweep"
                   /\ ap \in loc[t].stale /\ loc'[t].stale = loc[t].stale \ {ap}
                   /\ loc'[t].then \in {"idle", "sweep"} /\ loc'[t].give = loc[t].give
                \/ /\ req[t].op \in {"approve", "deny"} /\ ap = req[t].appr
                   /\ loc'[t].then = "idle" /\ loc'[t].stale = loc[t].stale
                   /\ \/ status = "denied" /\ child = None /\ loc'[t].give = {}
                         /\ pc[t] \in {"reject", "refuse"}
                      \/ /\ pc[t] = "grant" /\ status = "approved" /\ child = loc[t].child
                         /\ loc'[t].give = {child}
             /\ pc'[t] = "log" /\ loc'[t].row \in AuditRow /\ loc'[t].cand = loc[t].cand
             /\ req' = req /\ known' = known /\ ThreadsOK'
             /\ UNCHANGED <<scenario, now, tokens, claims, edges, revoked, actions, reviews,
                            audit, held, block>>
<1>0. /\ CallOK(t) /\ ThreadsOK /\ loc[t] \in Local /\ "idle" \in Label /\ "sweep" \in Label
      /\ "log" \in Label
    BY DEF IInv, CallsOK, FwTypeOK, ThreadsOK, Label
<1>1. CASE ApproveReject(t) \/ DenyRefuse(t)
    <2> DEFINE ap == req[t].appr
    <2>1. /\ Decide(ap, "denied", None) /\ pc[t] \in {"reject", "refuse"}
          /\ UNCHANGED <<scenario, now, tokens, claims, edges, revoked, actions, reviews,
                         audit, held, block, req, known>>
        BY <1>1 DEF ApproveReject, DenyRefuse
    <2>2. req[t].op \in {"approve", "deny"} /\ ap \in Approval /\ gate[ap].status # "absent"
        BY <1>0, <2>1 DEF CallOK, AtStage
    <2>3. PICK event \in {"approval_rejected", "approval_denied"} :
             Logging(t, event, ap, {}, "idle")
        BY <1>1 DEF ApproveReject, DenyRefuse
    <2> DEFINE give == {}
               then == "idle"
               row == <<event, ap>>
    <2>4. row \in AuditRow /\ give \in SUBSET Jti /\ then \in Label
        BY <1>0, <2>2 DEF AuditRow, Id
    <2>5. Logging(t, event, ap, give, then) /\ FwTypeOK /\ row = <<event, ap>>
        BY <2>3 DEF IInv
    <2> HIDE DEF ap, give, then, row
    <2>6. /\ pc' \in [Thread -> Label] /\ loc' \in [Thread -> Local]
          /\ pc'[t] = "log" /\ loc'[t].row = row /\ loc'[t].give = give
          /\ loc'[t].then = then /\ loc'[t].stale = loc[t].stale
          /\ loc'[t].cand = loc[t].cand
        BY <2>4, <2>5, LoggingSays
    <2>7. ThreadsOK'
        BY <1>0, <2>1, <2>6 DEF ThreadsOK
    <2> QED BY <2>1, <2>2, <2>4, <2>6, <2>7 DEF ap, give, then
<1>2. CASE ApproveGrant(t)
    <2> DEFINE ap == req[t].appr
               child == loc[t].child
    <2>1. /\ Decide(ap, "approved", child) /\ pc[t] = "grant"
          /\ Logging(t, "approval_granted", child, {child}, "idle")
          /\ UNCHANGED <<scenario, now, tokens, claims, edges, revoked, actions, reviews,
                         audit, held, block, req, known>>
        BY <1>2 DEF ApproveGrant
    <2>2. /\ req[t].op = "approve" /\ ap \in Approval /\ gate[ap].status # "absent"
          /\ child \in Jti
        BY <1>0, <2>1 DEF CallOK, AtStage, IInv, FwTypeOK
    <2> DEFINE event == "approval_granted"
               give == {child}
               then == "idle"
               row == <<event, child>>
    <2>3. row \in AuditRow /\ give \in SUBSET Jti /\ then \in Label
        BY <1>0, <2>2 DEF AuditRow, Id
    <2>4. Logging(t, event, child, give, then) /\ FwTypeOK /\ row = <<event, child>>
        BY <2>1 DEF IInv
    <2> HIDE DEF ap, child, event, give, then, row
    <2>5. /\ pc' \in [Thread -> Label] /\ loc' \in [Thread -> Local]
          /\ pc'[t] = "log" /\ loc'[t].row = row /\ loc'[t].give = give
          /\ loc'[t].then = then /\ loc'[t].stale = loc[t].stale
          /\ loc'[t].cand = loc[t].cand
        BY <2>3, <2>4, LoggingSays
    <2>6. ThreadsOK'
        BY <1>0, <2>1, <2>5 DEF ThreadsOK
    <2> QED BY <2>1, <2>2, <2>3, <2>5, <2>6 DEF ap, child, give, then
<1>3. CASE ExpireStale(t)
    <2>1. PICK ap \in loc[t].stale :
             /\ Decide(ap, "expired", None)
             /\ loc' = [loc EXCEPT ![t].stale = @ \ {ap},
                          ![t].row = <<"approval_expired", ap>>,
                          ![t].then = IF loc[t].stale = {ap} THEN "idle" ELSE "sweep"]
        BY <1>3 DEF ExpireStale
    <2>2. /\ pc[t] = "sweep" /\ pc' = [pc EXCEPT ![t] = "log"]
          /\ UNCHANGED <<scenario, now, tokens, claims, edges, revoked, actions, reviews,
                         audit, held, block, req, known>>
        BY <1>3 DEF ExpireStale, Goto
    <2>3. ap \in Approval /\ gate[ap].status # "absent" /\ req[t].op = "pending_approvals"
        BY <1>0, <2>2 DEF CallOK, AtStage, Local
    <2> DEFINE row == <<"approval_expired", ap>>
               then == IF loc[t].stale = {ap} THEN "idle" ELSE "sweep"
    <2>4. row \in AuditRow /\ then \in {"idle", "sweep"} /\ then \in Label
        BY <1>0, <2>3 DEF AuditRow, Id
    <2>5. loc' = [loc EXCEPT ![t].stale = @ \ {ap}, ![t].row = row, ![t].then = then]
        BY <2>1
    <2> HIDE DEF row, then
    <2> DEFINE l == [loc[t] EXCEPT !.stale = @ \ {ap}, !.row = row, !.then = then]
    <2>6. /\ l \in Local /\ l.stale = loc[t].stale \ {ap} /\ l.row = row /\ l.then = then
          /\ l.give = loc[t].give /\ l.cand = loc[t].cand
        BY <1>0, <2>4 DEF Local
    <2>7. loc' = [loc EXCEPT ![t] = l]
        BY <1>0, <2>5 DEF ThreadsOK, Local
    <2> HIDE DEF l
    <2>8. ThreadsOK' /\ loc'[t] = l /\ pc'[t] = "log"
        BY <1>0, <2>2, <2>6, <2>7 DEF ThreadsOK
    <2> QED BY <2>1, <2>2, <2>3, <2>4, <2>6, <2>8
<1> QED BY <1>1, <1>2, <1>3

(* _load_pending expires a request that is past its deadline; collect      *)
(* writes an approved row back.                                            *)
LEMMA LapseSays ==
    ASSUME IInv, NEW t \in Thread, Lapse(t)
    PROVE  /\ req[t].op \in {"approve", "deny"} /\ pc[t] = "lapse"
           /\ req[t].appr \in Approval /\ gate[req[t].appr].status # "absent"
           /\ Decide(req[t].appr, "expired", None) /\ End(t) /\ ThreadsOK'
           /\ UNCHANGED <<scenario, now, tokens, claims, edges, revoked, actions, reviews,
                          audit, held, block>>
<1>1. CallOK(t)
    BY DEF IInv, CallsOK
<1> QED BY <1>1, EndSays DEF Lapse, CallOK, AtStage, IInv

LEMMA HandSays ==
    ASSUME IInv, NEW t \in Thread, CollectHand(t)
    PROVE  /\ req[t].op = "collect" /\ pc[t] = "hand"
           /\ req[t].appr \in Approval /\ gate[req[t].appr].status # "absent"
           /\ Decide(req[t].appr, "approved", loc[t].child) /\ loc[t].child \in Jti
           /\ held' = held \cup {loc[t].child} /\ End(t) /\ ThreadsOK'
           /\ UNCHANGED <<scenario, now, tokens, claims, edges, revoked, actions, reviews,
                          audit, block>>
<1>1. CallOK(t) /\ tokens \subseteq Jti
    BY DEF IInv, CallsOK, FwTypeOK
<1> QED BY <1>1, EndSays DEF CollectHand, CallOK, AtStage, IInv

LEMMA AddEdgeSays ==
    ASSUME IInv, NEW t \in Thread, AddEdge(t)
    PROVE  /\ pc[t] = "edge" /\ edges' = edges \cup {<<req[t].tok, loc[t].child>>}
           /\ \/ /\ req[t].op = "approve" /\ pc'[t] = "grant" /\ loc' = loc
              \/ /\ req[t].op = "delegate" /\ pc'[t] = "log" /\ loc'[t].row \in AuditRow
                 /\ loc'[t].give = {loc[t].child} /\ loc'[t].then = "idle"
                 /\ loc'[t].stale = loc[t].stale /\ loc'[t].cand = loc[t].cand
           /\ req' = req /\ known' = known /\ ThreadsOK'
           /\ UNCHANGED <<scenario, now, tokens, claims, revoked, actions, reviews, gate, audit,
                          held, block>>
<1>0. /\ pc[t] = "edge" /\ edges' = edges \cup {<<req[t].tok, loc[t].child>>}
      /\ req' = req /\ known' = known
      /\ UNCHANGED <<scenario, now, tokens, claims, revoked, actions, reviews, gate, audit,
                     held, block>>
    BY DEF AddEdge
<1>1. CallOK(t) /\ ThreadsOK /\ tokens \subseteq Jti
    BY DEF IInv, CallsOK, FwTypeOK, ThreadsOK
<1>2. req[t].op \in {"delegate", "approve"} /\ loc[t].child \in Jti
    BY <1>0, <1>1 DEF CallOK, AtStage
<1>3. CASE req[t].op = "approve"
    <2>1. pc' = [pc EXCEPT ![t] = "grant"] /\ loc' = loc
        BY <1>3 DEF AddEdge, Goto
    <2> QED BY <1>0, <1>1, <1>3, <2>1 DEF ThreadsOK, Label
<1>4. CASE req[t].op = "delegate"
    <2> DEFINE event == "delegated"
               child == loc[t].child
               give == {child}
               then == "idle"
               row == <<event, child>>
    <2>1. row \in AuditRow /\ give \in SUBSET Jti /\ then \in Label
        BY <1>2 DEF AuditRow, Id, Label
    <2>2. Logging(t, event, child, give, then) /\ FwTypeOK /\ row = <<event, child>>
        BY <1>4 DEF AddEdge, IInv
    <2> HIDE DEF event, child, give, then, row
    <2>3. /\ pc' \in [Thread -> Label] /\ loc' \in [Thread -> Local]
          /\ pc'[t] = "log" /\ loc'[t].row = row /\ loc'[t].give = give
          /\ loc'[t].then = then /\ loc'[t].stale = loc[t].stale
          /\ loc'[t].cand = loc[t].cand
        BY <2>1, <2>2, LoggingSays
    <2>4. ThreadsOK'
        BY <1>0, <1>1, <2>3 DEF ThreadsOK
    <2> QED BY <1>0, <1>4, <2>1, <2>3, <2>4 DEF child, give, then
<1> QED BY <1>2, <1>3, <1>4

(* The steps of an action block.                                           *)
LEMMA PutActionSays ==
    ASSUME IInv, NEW t \in Thread, PutAction(t)
    PROVE  \E a \in Action \ Recorded :
             /\ actions' = [actions EXCEPT ![a] = [jti |-> req[t].tok, state |-> "OPEN"]]
             /\ pc[t] = "open" /\ req[t].op = "action" /\ pc'[t] = "log"
             /\ loc'[t].row = <<"action_started", a>> /\ loc'[t].act = a
             /\ loc'[t].row \in AuditRow /\ loc'[t].then = "enter"
             /\ loc'[t].give = loc[t].give
             /\ loc'[t].stale = loc[t].stale /\ loc'[t].cand = loc[t].cand
             /\ req' = req /\ known' = known /\ ThreadsOK'
             /\ UNCHANGED <<scenario, now, tokens, claims, edges, revoked, reviews, gate,
                            audit, held, block>>
<1>1. PICK a \in Action \ Recorded :
         /\ actions' = [actions EXCEPT ![a] = [jti |-> req[t].tok, state |-> "OPEN"]]
         /\ loc' = [loc EXCEPT ![t].act = a, ![t].row = <<"action_started", a>>,
                               ![t].then = "enter"]
    BY DEF PutAction
<1>2. /\ pc[t] = "open" /\ pc' = [pc EXCEPT ![t] = "log"]
      /\ UNCHANGED <<scenario, now, tokens, claims, edges, revoked, reviews, gate, audit, held,
                     block, req, known>>
    BY DEF PutAction, Goto
<1>3. CallOK(t) /\ ThreadsOK /\ loc[t] \in Local /\ "log" \in Label /\ "enter" \in Label
    BY DEF IInv, CallsOK, FwTypeOK, ThreadsOK, Label
<1> DEFINE row == <<"action_started", a>>
           l == [loc[t] EXCEPT !.act = a, !.row = row, !.then = "enter"]
<1>4. row \in AuditRow
    BY DEF AuditRow, Id
<1>5. loc' = [loc EXCEPT ![t] = l]
    BY <1>1, <1>3 DEF ThreadsOK, Local
<1> HIDE DEF row
<1>6. /\ l \in Local /\ l.act = a /\ l.row = row /\ l.then = "enter"
      /\ l.give = loc[t].give /\ l.stale = loc[t].stale /\ l.cand = loc[t].cand
    BY <1>3, <1>4 DEF Local
<1> HIDE DEF l
<1>7. ThreadsOK' /\ loc'[t] = l /\ pc'[t] = "log"
    BY <1>2, <1>3, <1>5, <1>6 DEF ThreadsOK
<1>8. req[t].op = "action"
    BY <1>2, <1>3 DEF CallOK, AtStage
<1> QED BY <1>1, <1>2, <1>4, <1>6, <1>7, <1>8 DEF row

LEMMA BlockSays ==
    ASSUME IInv, NEW t \in Thread, EnterBlock(t) \/ LeaveBlock(t)
    PROVE  /\ req[t].op = "action" /\ loc[t].act \in Action
           /\ \/ /\ pc[t] = "enter" /\ pc'[t] = "block"
                 /\ block' = [block EXCEPT ![loc[t].act] = "running"]
              \/ /\ pc[t] = "block" /\ pc'[t] = "close"
                 /\ \E outcome \in {"returned", "raised"} :
                      block' = [block EXCEPT ![loc[t].act] = outcome]
           /\ UNCHANGED <<scenario, now, rows, audit, held, req, loc, known>> /\ ThreadsOK'
<1>1. CallOK(t) /\ ThreadsOK /\ "block" \in Label /\ "close" \in Label
    BY DEF IInv, CallsOK, FwTypeOK, ThreadsOK, Label
<1> QED BY <1>1 DEF EnterBlock, LeaveBlock, Goto, CallOK, AtStage, Owns, ThreadsOK

LEMMA CloseActionSays ==
    ASSUME IInv, NEW t \in Thread, CloseAction(t)
    PROVE  /\ pc[t] = "close" /\ req[t].op = "action" /\ loc[t].act \in Action
           /\ actions' = [actions EXCEPT ![loc[t].act].state = CompletionState(loc[t].act)]
           /\ pc'[t] = "log" /\ loc'[t].row \in AuditRow /\ loc'[t].give = {}
           /\ loc'[t].then = "idle" /\ loc'[t].stale = loc[t].stale
           /\ loc'[t].cand = loc[t].cand
           /\ req' = req /\ known' = known /\ ThreadsOK'
           /\ UNCHANGED <<scenario, now, tokens, claims, edges, revoked, reviews, gate, audit,
                          held, block>>
<1> DEFINE a == loc[t].act
           event == IF CompletionState(a) = "CLEAN" THEN "action_completed"
                                                    ELSE "action_failed"
           give == {}
           then == "idle"
           row == <<event, a>>
<1>1. /\ pc[t] = "close" /\ Logging(t, event, a, give, then)
      /\ actions' = [actions EXCEPT ![a].state = CompletionState(a)]
      /\ UNCHANGED <<scenario, now, tokens, claims, edges, revoked, reviews, gate, audit, held,
                     block, req, known>>
    BY DEF CloseAction
<1>2. CallOK(t) /\ ThreadsOK
    BY DEF IInv, CallsOK, FwTypeOK, ThreadsOK
<1>3. req[t].op = "action" /\ a \in Action
    BY <1>1, <1>2 DEF CallOK, AtStage, Owns
<1>4. event \in {"action_completed", "action_failed"}
    OBVIOUS
<1> HIDE DEF a, event
<1>5. row \in AuditRow /\ give \in SUBSET Jti /\ then \in Label
    BY <1>3, <1>4 DEF AuditRow, Id, Label
<1>6. Logging(t, event, a, give, then) /\ FwTypeOK /\ row = <<event, a>>
    BY <1>1 DEF IInv
<1> HIDE DEF give, then, row
<1>7. /\ pc' \in [Thread -> Label] /\ loc' \in [Thread -> Local]
      /\ pc'[t] = "log" /\ loc'[t].row = row /\ loc'[t].give = give
      /\ loc'[t].then = then /\ loc'[t].stale = loc[t].stale /\ loc'[t].cand = loc[t].cand
    BY <1>5, <1>6, LoggingSays
<1>8. ThreadsOK'
    BY <1>1, <1>2, <1>7 DEF ThreadsOK
<1> QED BY <1>1, <1>3, <1>5, <1>7, <1>8 DEF a, give, then

(* The steps of revoke.                                                    *)
LEMMA RevokeWalkSays ==
    ASSUME IInv, NEW t \in Thread, RevokeWalk(t)
    PROVE  LET below == {c \in Jti : \E p \in loc[t].level : <<p, c>> \in edges}
                            \ loc[t].targets
           IN  /\ pc[t] = "walk" /\ req[t].op = "revoke"
               /\ pc'[t] = IF below = {} THEN "gather" ELSE "walk"
               /\ loc'[t].targets = loc[t].targets \cup below /\ loc'[t].level = below
               /\ loc'[t].give = loc[t].give /\ loc'[t].stale = loc[t].stale
               /\ loc'[t].cand = loc[t].cand
               /\ req' = req /\ known' = known /\ ThreadsOK'
               /\ UNCHANGED <<scenario, now, rows, audit, held, block>>
<1> DEFINE below == {c \in Jti : \E p \in loc[t].level : <<p, c>> \in edges} \ loc[t].targets
<1>1. /\ pc[t] = "walk" /\ pc' = [pc EXCEPT ![t] = IF below = {} THEN "gather" ELSE "walk"]
      /\ loc' = [loc EXCEPT ![t].targets = @ \cup below, ![t].level = below]
      /\ UNCHANGED <<scenario, now, rows, audit, held, block, req, known>>
    BY DEF RevokeWalk, Goto
<1>2. /\ CallOK(t) /\ ThreadsOK /\ loc[t] \in Local /\ "gather" \in Label /\ "walk" \in Label
      /\ below \subseteq Jti
    BY DEF IInv, CallsOK, FwTypeOK, ThreadsOK, Label
<1> HIDE DEF below
<1>3. /\ loc'[t].targets = loc[t].targets \cup below /\ loc'[t].level = below
      /\ loc'[t].give = loc[t].give /\ loc'[t].stale = loc[t].stale
      /\ loc'[t].cand = loc[t].cand /\ ThreadsOK'
    BY <1>1, <1>2 DEF ThreadsOK, Local
<1>4. req[t].op = "revoke"
    BY <1>1, <1>2 DEF CallOK, AtStage
<1>5. pc'[t] = IF below = {} THEN "gather" ELSE "walk"
    BY <1>1, <1>2 DEF ThreadsOK
<1> QED BY <1>1, <1>3, <1>4, <1>5 DEF below

LEMMA RevokeGatherSays ==
    ASSUME IInv, NEW t \in Thread, RevokeGather(t)
    PROVE  /\ pc[t] = "gather" /\ req[t].op = "revoke" /\ pc'[t] = "already"
           /\ loc'[t].cand = {<<a, Classify(a)>> : a \in ActionsForReview(loc[t].targets)}
           /\ loc'[t].targets = loc[t].targets
           /\ loc'[t].give = loc[t].give /\ loc'[t].stale = loc[t].stale
           /\ req' = req /\ known' = known /\ ThreadsOK'
           /\ UNCHANGED <<scenario, now, rows, audit, held, block>>
<1> DEFINE cand == {<<a, Classify(a)>> : a \in ActionsForReview(loc[t].targets)}
<1>1. /\ pc[t] = "gather" /\ pc' = [pc EXCEPT ![t] = "already"]
      /\ loc' = [loc EXCEPT ![t].cand = cand]
      /\ UNCHANGED <<scenario, now, rows, audit, held, block, req, known>>
    BY DEF RevokeGather, Goto
<1>2. /\ CallOK(t) /\ ThreadsOK /\ loc[t] \in Local /\ "already" \in Label
    BY DEF IInv, CallsOK, FwTypeOK, ThreadsOK, Label
<1>3. cand \subseteq Action \X {"UNKNOWN", "PARTIAL"}
    <2>1. ASSUME NEW a \in ActionsForReview(loc[t].targets)
          PROVE  a \in Action /\ Classify(a) \in {"UNKNOWN", "PARTIAL"}
        <3>1. a \in Action /\ actions[a] \in ActionRow /\ actions[a].state \notin {"absent", "CLEAN"}
            BY DEF ActionsForReview, Recorded, IInv, FwTypeOK
        <3> QED BY <3>1 DEF Classify, ActionRow
    <2> QED BY <2>1
<1> HIDE DEF cand
<1>4. /\ loc'[t].cand = cand /\ loc'[t].targets = loc[t].targets
      /\ loc'[t].give = loc[t].give /\ loc'[t].stale = loc[t].stale /\ ThreadsOK'
      /\ pc'[t] = "already"
    BY <1>1, <1>2, <1>3 DEF ThreadsOK, Local
<1>5. req[t].op = "revoke"
    BY <1>1, <1>2 DEF CallOK, AtStage
<1> QED BY <1>1, <1>4, <1>5 DEF cand

LEMMA RevokeAlreadySays ==
    ASSUME IInv, NEW t \in Thread, RevokeAlready(t)
    PROVE  /\ pc[t] = "already" /\ req[t].op = "revoke"
           /\ pc'[t] = IF loc[t].targets \subseteq revoked THEN "reviewed" ELSE "insert"
           /\ loc'[t].level = loc[t].targets \ revoked
           /\ loc'[t].cand = loc[t].cand
           /\ loc'[t].give = loc[t].give /\ loc'[t].stale = loc[t].stale
           /\ req' = req /\ known' = known /\ ThreadsOK'
           /\ UNCHANGED <<scenario, now, rows, audit, held, block>>
<1> DEFINE fresh == loc[t].targets \ revoked
           label == IF fresh = {} THEN "reviewed" ELSE "insert"
<1>1. /\ pc[t] = "already" /\ pc' = [pc EXCEPT ![t] = label]
      /\ loc' = [loc EXCEPT ![t].level = fresh]
      /\ UNCHANGED <<scenario, now, rows, audit, held, block, req, known>>
    BY DEF RevokeAlready, Goto
<1>2. CallOK(t) /\ ThreadsOK /\ loc[t] \in Local /\ label \in Label
    BY DEF IInv, CallsOK, FwTypeOK, ThreadsOK, Label
<1>3. /\ fresh \subseteq Jti
      /\ label = IF loc[t].targets \subseteq revoked THEN "reviewed" ELSE "insert"
    BY <1>2 DEF Local
<1> HIDE DEF fresh, label
<1>4. /\ loc'[t].cand = loc[t].cand /\ loc'[t].level = fresh
      /\ loc'[t].give = loc[t].give /\ loc'[t].stale = loc[t].stale /\ ThreadsOK'
      /\ pc'[t] = label
    BY <1>1, <1>2, <1>3 DEF ThreadsOK, Local
<1>5. req[t].op = "revoke"
    BY <1>1, <1>2 DEF CallOK, AtStage
<1> QED BY <1>1, <1>3, <1>4, <1>5 DEF fresh

LEMMA RevokeInsertSays ==
    ASSUME IInv, NEW t \in Thread, RevokeInsert(t)
    PROVE  /\ pc[t] = "insert" /\ req[t].op = "revoke" /\ ThreadsOK'
           /\ \/ /\ revoked' = revoked \cup loc[t].level /\ pc'[t] = "reviewed"
                 /\ req' = req /\ loc' = loc
                 /\ known'[t].below = known[t].below /\ known'[t].acts = known[t].acts
              \/ revoked' = revoked /\ End(t)
           /\ UNCHANGED <<scenario, now, tokens, claims, edges, actions, reviews, gate, audit,
                          held, block>>
<1>1. /\ pc[t] = "insert"
      /\ UNCHANGED <<scenario, now, tokens, claims, edges, actions, reviews, gate, audit,
                     held, block>>
    BY DEF RevokeInsert
<1>2. /\ CallOK(t) /\ ThreadsOK /\ known[t] \in Known /\ "reviewed" \in Label
    BY DEF IInv, CallsOK, FwTypeOK, ThreadsOK, Label
<1>3. req[t].op = "revoke"
    BY <1>1, <1>2 DEF CallOK, AtStage
<1>4. CASE loc[t].level \cap revoked = {}
    <2> DEFINE open == {a \in Recorded : block[a] = "running" /\ actions[a].jti \in loc[t].level}
    <2>1. /\ revoked' = revoked \cup loc[t].level /\ pc' = [pc EXCEPT ![t] = "reviewed"]
          /\ known' = [known EXCEPT ![t].open = open] /\ UNCHANGED <<req, loc>>
        BY <1>4 DEF RevokeInsert, Goto
    <2>2. open \subseteq Action
        BY DEF Recorded
    <2> HIDE DEF open
    <2>3. /\ known'[t].below = known[t].below /\ known'[t].acts = known[t].acts
          /\ pc'[t] = "reviewed" /\ ThreadsOK'
        BY <1>2, <2>1, <2>2 DEF ThreadsOK, Known
    <2> QED BY <1>1, <1>3, <2>1, <2>3
<1>5. CASE loc[t].level \cap revoked # {}
    <2>1. End(t) /\ revoked' = revoked
        BY <1>5 DEF RevokeInsert
    <2> QED BY <1>1, <1>3, <2>1, EndSays DEF IInv
<1> QED BY <1>4, <1>5

LEMMA RevokeReviewedSays ==
    ASSUME IInv, NEW t \in Thread, RevokeReviewed(t)
    PROVE  /\ pc[t] = "reviewed" /\ req[t].op = "revoke" /\ pc'[t] = "queue"
           /\ loc'[t].cand = NotYetReviewed(loc[t].cand)
           /\ loc'[t].give = loc[t].give /\ loc'[t].stale = loc[t].stale
           /\ req' = req /\ known' = known /\ ThreadsOK'
           /\ UNCHANGED <<scenario, now, rows, audit, held, block>>
<1> DEFINE cand == NotYetReviewed(loc[t].cand)
<1>1. /\ CallOK(t) /\ ThreadsOK /\ loc[t] \in Local /\ "queue" \in Label
    BY DEF IInv, CallsOK, FwTypeOK, ThreadsOK, Label
<1>2. /\ pc[t] = "reviewed" /\ pc' = [pc EXCEPT ![t] = "queue"]
      /\ loc' = [loc EXCEPT ![t].cand = cand]
      /\ UNCHANGED <<scenario, now, rows, audit, held, block, req, known>>
    BY <1>1 DEF RevokeReviewed, Goto, ThreadsOK
<1>3. cand \subseteq loc[t].cand
    BY DEF NotYetReviewed
<1> HIDE DEF cand
<1>4. /\ loc'[t].cand = cand /\ pc'[t] = "queue"
      /\ loc'[t].give = loc[t].give /\ loc'[t].stale = loc[t].stale /\ ThreadsOK'
    BY <1>1, <1>2, <1>3 DEF ThreadsOK, Local
<1>5. req[t].op = "revoke"
    BY <1>1, <1>2 DEF CallOK, AtStage
<1> QED BY <1>2, <1>4, <1>5 DEF cand

LEMMA PutReviewSays ==
    ASSUME IInv, NEW t \in Thread, PutReview(t)
    PROVE  \E c \in loc[t].cand : \E r \in Review :
             /\ reviews[r].action = None /\ c \in Action \X {"UNKNOWN", "PARTIAL"}
             /\ reviews' = [reviews EXCEPT ![r] = [action |-> c[1], class |-> c[2],
                                                   reviewed |-> FALSE]]
             /\ pc[t] = "queue" /\ req[t].op = "revoke" /\ pc'[t] = "log"
             /\ loc'[t].cand = loc[t].cand \ {c} /\ loc'[t].row \in AuditRow
             /\ loc'[t].then = "queue"
             /\ loc'[t].give = loc[t].give /\ loc'[t].stale = loc[t].stale
             /\ req' = req /\ known' = known /\ ThreadsOK'
             /\ UNCHANGED <<scenario, now, tokens, claims, edges, revoked, actions, gate, audit,
                            held, block>>
<1>1. PICK c \in loc[t].cand : \E r \in Review :
         /\ reviews[r].action = None
         /\ reviews' = [reviews EXCEPT ![r] = [action |-> c[1], class |-> c[2],
                                               reviewed |-> FALSE]]
         /\ loc' = [loc EXCEPT ![t].cand = @ \ {c}, ![t].row = <<"review_queued", r>>,
                               ![t].then = "queue"]
    BY DEF PutReview
<1>2. PICK r \in Review :
         /\ reviews[r].action = None
         /\ reviews' = [reviews EXCEPT ![r] = [action |-> c[1], class |-> c[2],
                                               reviewed |-> FALSE]]
         /\ loc' = [loc EXCEPT ![t].cand = @ \ {c}, ![t].row = <<"review_queued", r>>,
                               ![t].then = "queue"]
    BY <1>1
<1>3. /\ pc[t] = "queue" /\ pc' = [pc EXCEPT ![t] = "log"]
      /\ UNCHANGED <<scenario, now, tokens, claims, edges, revoked, actions, gate, audit, held,
                     block, req, known>>
    BY DEF PutReview, Goto
<1>4. CallOK(t) /\ ThreadsOK /\ loc[t] \in Local /\ "log" \in Label /\ "queue" \in Label
    BY DEF IInv, CallsOK, FwTypeOK, ThreadsOK, Label
<1> DEFINE row == <<"review_queued", r>>
           l == [loc[t] EXCEPT !.cand = @ \ {c}, !.row = row, !.then = "queue"]
<1>5. row \in AuditRow
    BY DEF AuditRow, Id
<1>6. loc' = [loc EXCEPT ![t] = l]
    BY <1>2, <1>4 DEF ThreadsOK, Local
<1> HIDE DEF row
<1>7. /\ l \in Local /\ l.cand = loc[t].cand \ {c} /\ l.row = row /\ l.then = "queue"
      /\ l.give = loc[t].give /\ l.stale = loc[t].stale
    BY <1>4, <1>5 DEF Local
<1> HIDE DEF l
<1>8. ThreadsOK' /\ loc'[t] = l /\ pc'[t] = "log"
    BY <1>3, <1>4, <1>6, <1>7 DEF ThreadsOK
<1>9. req[t].op = "revoke" /\ c \in Action \X {"UNKNOWN", "PARTIAL"}
    BY <1>3, <1>4 DEF CallOK, AtStage, Local
<1> QED BY <1>2, <1>3, <1>5, <1>7, <1>8, <1>9

LEMMA ReportsSay ==
    ASSUME IInv, NEW t \in Thread, RevokeReport(t) \/ UpdateReview(t)
    PROVE  /\ \/ pc[t] = "report" /\ req[t].op = "revoke" /\ UNCHANGED reviews
              \/ /\ pc[t] = "resolve" /\ req[t].op = "resolve_review"
                 /\ reviews' = [reviews EXCEPT ![req[t].rev].reviewed = TRUE]
           /\ pc'[t] = "log" /\ loc'[t].row \in AuditRow /\ loc'[t].give = {}
           /\ loc'[t].then = "idle" /\ loc'[t].stale = loc[t].stale
           /\ loc'[t].cand = loc[t].cand
           /\ req' = req /\ known' = known /\ ThreadsOK'
           /\ UNCHANGED <<scenario, now, tokens, claims, edges, revoked, actions, gate, audit,
                          held, block>>
<1>1. CallOK(t) /\ ThreadsOK /\ tokens \subseteq Jti
    BY DEF IInv, CallsOK, FwTypeOK, ThreadsOK
<1>2. PICK event \in {"revoked", "review_resolved"}, id \in Id :
         /\ Logging(t, event, id, {}, "idle")
         /\ \/ pc[t] = "report" /\ UNCHANGED reviews
            \/ /\ pc[t] = "resolve"
               /\ reviews' = [reviews EXCEPT ![req[t].rev].reviewed = TRUE]
         /\ UNCHANGED <<scenario, now, tokens, claims, edges, revoked, actions, gate, audit,
                        held, block, req, known>>
    <2>1. CASE RevokeReport(t)
        <3>1. pc[t] = "report" /\ Logging(t, "revoked", req[t].tok, {}, "idle")
            BY <2>1 DEF RevokeReport
        <3>2. req[t].tok \in Id
            BY <1>1, <3>1 DEF CallOK, AtStage, Id
        <3> QED BY <2>1, <3>1, <3>2 DEF RevokeReport, rows
    <2>2. CASE UpdateReview(t)
        <3>1. pc[t] = "resolve" /\ Logging(t, "review_resolved", req[t].rev, {}, "idle")
            BY <2>2 DEF UpdateReview
        <3>2. req[t].rev \in Id
            BY <1>1, <3>1 DEF CallOK, Id
        <3> QED BY <2>2, <3>1, <3>2 DEF UpdateReview
    <2> QED BY <2>1, <2>2
<1> DEFINE give == {}
           then == "idle"
           row == <<event, id>>
<1>3. row \in AuditRow /\ give \in SUBSET Jti /\ then \in Label
    BY DEF AuditRow, Label
<1>4. Logging(t, event, id, give, then) /\ FwTypeOK /\ row = <<event, id>>
    BY <1>2 DEF IInv
<1> HIDE DEF give, then, row
<1>5. /\ pc' \in [Thread -> Label] /\ loc' \in [Thread -> Local]
      /\ pc'[t] = "log" /\ loc'[t].row = row /\ loc'[t].give = give
      /\ loc'[t].then = then /\ loc'[t].stale = loc[t].stale /\ loc'[t].cand = loc[t].cand
    BY <1>3, <1>4, LoggingSays
<1>6. ThreadsOK'
    BY <1>1, <1>2, <1>5 DEF ThreadsOK
<1>7. \/ pc[t] = "report" /\ req[t].op = "revoke" /\ UNCHANGED reviews
      \/ /\ pc[t] = "resolve" /\ req[t].op = "resolve_review"
         /\ reviews' = [reviews EXCEPT ![req[t].rev].reviewed = TRUE]
    BY <1>1, <1>2 DEF CallOK, AtStage
<1> QED BY <1>2, <1>3, <1>5, <1>6, <1>7 DEF give, then

(* The steps that only read: the call goes on, or it ends.                 *)
Moves(t) ==
    \/ ScopeGranted(t) \/ (DelegateChecked(t) /\ ~End(t)) \/ RevokeQueued(t)
    \/ ApproveParent(t) \/ ApproveDeadline(t)

Ends(t) ==
    \/ Allowed(t) \/ ScopeNotGranted(t) \/ Abort(t)
    \/ DelegateChecked(t) /\ End(t)
    \/ IsRevoked(t) /\ End(t)

LEMMA MovesSay ==
    ASSUME IInv, NEW t \in Thread, Moves(t)
    PROVE  /\ \/ /\ pc[t] = "lookup" /\ loc[t].todo = <<>>
                 /\ \/ req[t].op = "verify" /\ pc'[t] = "allowed"
                    \/ req[t].op = "action" /\ pc'[t] = "open"
                    \/ /\ req[t].op = "delegate" /\ pc'[t] = "mint"
                       /\ MayDelegate(req[t].tok, req[t].scopes)
              \/ /\ pc[t] = "queue" /\ req[t].op = "revoke" /\ pc'[t] = "report"
                 /\ loc[t].cand = {}
              \/ /\ pc[t] \in {"parent", "deadline"} /\ req[t].op = "approve"
                 /\ pc'[t] \in {"reject", "deadline", "lapse", "mint"}
           /\ UNCHANGED <<req, loc, known>> /\ ThreadsOK'
           /\ UNCHANGED <<scenario, now, rows, audit, held, block>>
<1>0. /\ CallOK(t) /\ ThreadsOK
    BY DEF IInv, CallsOK, FwTypeOK, ThreadsOK
<1>1. CASE ScopeGranted(t)
    BY <1>0, <1>1 DEF ScopeGranted, Goto, ThreadsOK, Label
<1>2. CASE DelegateChecked(t) /\ ~End(t)
    BY <1>0, <1>2 DEF DelegateChecked, Goto, ThreadsOK, Label
<1>3. CASE RevokeQueued(t)
    BY <1>0, <1>3 DEF RevokeQueued, Goto, ThreadsOK, Label, CallOK, AtStage
<1>4. CASE ApproveParent(t) \/ ApproveDeadline(t)
    BY <1>0, <1>4 DEF ApproveParent, ApproveDeadline, Goto, ThreadsOK, Label, CallOK, AtStage
<1> QED BY <1>1, <1>2, <1>3, <1>4 DEF Moves

LEMMA EndsSay ==
    ASSUME IInv, NEW t \in Thread, Ends(t)
    PROVE  End(t) /\ ThreadsOK' /\ UNCHANGED <<scenario, now, rows, audit, held, block>>
BY EndSays DEF IInv, Ends, Allowed, ScopeNotGranted, DelegateChecked, Abort, IsRevoked

LEMMA LookupSays ==
    ASSUME IInv, NEW t \in Thread, IsRevoked(t), ~End(t)
    PROVE  /\ pc[t] = "lookup" /\ pc'[t] = "lookup" /\ loc[t].todo # <<>>
           /\ Head(loc[t].todo) \notin revoked /\ loc'[t].todo = Tail(loc[t].todo)
           /\ loc'[t].give = loc[t].give /\ loc'[t].stale = loc[t].stale
           /\ loc'[t].cand = loc[t].cand
           /\ req' = req /\ known' = known /\ ThreadsOK'
           /\ UNCHANGED <<scenario, now, rows, audit, held, block>>
<1> DEFINE rest == Tail(loc[t].todo)
<1>1. ThreadsOK /\ loc[t] \in Local
    BY DEF IInv, FwTypeOK, ThreadsOK
<1>2. /\ pc[t] = "lookup" /\ loc[t].todo # <<>> /\ Head(loc[t].todo) \notin revoked
      /\ loc' = [loc EXCEPT ![t].todo = rest]
      /\ UNCHANGED <<scenario, now, rows, audit, held, block, pc, req, known>>
    BY <1>1 DEF IsRevoked, ThreadsOK
<1>3. rest \in Seq(Jti)
    <2> DEFINE todo == loc[t].todo
    <2>1. todo \in Seq(Jti) /\ todo # <<>>
        BY <1>1, <1>2 DEF Local
    <2> HIDE DEF todo
    <2>2. Tail(todo) \in Seq(Jti)
        BY <2>1
    <2> QED BY <2>2 DEF todo
<1> HIDE DEF rest
<1>4. /\ loc'[t].todo = rest /\ loc'[t].give = loc[t].give /\ loc'[t].stale = loc[t].stale
      /\ loc'[t].cand = loc[t].cand /\ ThreadsOK'
    BY <1>1, <1>2, <1>3 DEF ThreadsOK, Local
<1> QED BY <1>2, <1>4 DEF rest

(* The steps, in the groups of the lemmas above.                           *)
Begins(t) ==
    \/ Delegate(t) \/ Verify(t) \/ Revoke(t) \/ ResolveReview(t) \/ Approve(t) \/ Deny(t)
    \/ Collect(t) \/ PendingApprovals(t)

Decides(t) == ApproveReject(t) \/ ApproveGrant(t) \/ DenyRefuse(t) \/ ExpireStale(t)

LEMMA StepCases ==
    ASSUME NEW t \in Thread, Step(t)
    PROVE  \/ MintRoot(t) \/ Begins(t) \/ (IsRevoked(t) /\ ~End(t)) \/ Moves(t) \/ Ends(t)
           \/ DelegateMint(t) \/ ApproveMint(t) \/ DelegatePark(t) \/ AddEdge(t)
           \/ PutAction(t) \/ EnterBlock(t) \/ LeaveBlock(t) \/ CloseAction(t)
           \/ RevokeWalk(t) \/ RevokeGather(t) \/ RevokeAlready(t) \/ RevokeInsert(t)
           \/ RevokeReviewed(t) \/ PutReview(t) \/ RevokeReport(t) \/ UpdateReview(t)
           \/ Decides(t) \/ Lapse(t) \/ CollectHand(t) \/ Log(t)
<1>1. CASE Tokens(t)
    <2>1. CASE IsRevoked(t)
        BY <2>1 DEF Ends
    <2>2. CASE DelegateChecked(t)
        BY <2>2 DEF Ends, Moves
    <2>3. CASE ScopeGranted(t) \/ ScopeNotGranted(t) \/ Allowed(t)
        BY <2>3 DEF Ends, Moves
    <2> QED BY <1>1, <2>1, <2>2, <2>3 DEF Tokens, Begins
<1>2. CASE InFlight(t)
    BY <1>2 DEF InFlight
<1>3. CASE Revocation(t)
    BY <1>3 DEF Revocation, Begins, Moves
<1>4. CASE Gate(t)
    BY <1>4 DEF Gate, Begins, Moves, Decides
<1>5. CASE Log(t) \/ Abort(t)
    BY <1>5 DEF Ends
<1> QED BY <1>1, <1>2, <1>3, <1>4, <1>5 DEF Step

LEMMA BeginsSay ==
    ASSUME FwTypeOK, NEW t \in Thread, Begins(t)
    PROVE  /\ pc[t] = "idle" /\ ThreadsOK' /\ loc'[t].give = {} /\ loc'[t].cand = {}
           /\ pc'[t] \in {"lookup", "walk", "resolve", "lapse", "parent", "refuse", "hand",
                          "sweep"}
           /\ UNCHANGED <<scenario, now, rows, audit, held, block>>
<1>1. CASE Delegate(t) \/ Verify(t)
    BY <1>1, PresentSays DEF FreshLocal
<1>2. CASE Revoke(t)
    BY <1>2, RevokeSays DEF FreshLocal
<1>3. CASE ResolveReview(t)
    BY <1>3, ResolveReviewSays DEF FreshLocal
<1>4. CASE Approve(t) \/ Deny(t)
    BY <1>4, DecisionSays DEF FreshLocal
<1>5. CASE Collect(t)
    BY <1>5, CollectSays DEF FreshLocal
<1>6. CASE PendingApprovals(t)
    BY <1>6, PendingApprovalsSays
<1> QED BY <1>1, <1>2, <1>3, <1>4, <1>5, <1>6 DEF Begins

-----------------------------------------------------------------------------
(* Every step keeps the types.                                             *)

LEMMA LesserIsLower ==
    ASSUME NEW m \in Nat, NEW n \in Nat
    PROVE  Lesser(m, n) \in Nat /\ Lesser(m, n) <= m /\ Lesser(m, n) <= n
BY DEF Lesser

LEMMA SecondsNat == ASSUME now \in Nat PROVE Seconds \in Nat
BY DEF Seconds

LEMMA RootType ==
    ASSUME FwTypeOK, NEW scopes \in SUBSET Scope, NEW ttl \in Nat, NEW depth \in Nat
    PROVE  RootClaims(scopes, ttl, depth) \in Claims
<1>1. Lesser(ttl, MaxTTL) \in Nat /\ Seconds \in Nat
    BY FirewallAssumption, LesserIsLower, SecondsNat DEF FwTypeOK
<1>2. Seconds + Lesser(ttl, MaxTTL) \in Nat /\ <<>> \in Seq(Jti)
    BY <1>1
<1> QED BY <1>2 DEF RootClaims, Claims

LEMMA ChildType ==
    ASSUME FwTypeOK, NEW p \in Jti, NEW scopes \in SUBSET Scope, NEW ttl \in Nat,
           NEW parentExp \in Nat, NEW ap \in Approval \cup {None}
    PROVE  /\ ChildClaims(p, scopes, ttl, parentExp, ap) \in Claims
           /\ ChildClaims(p, scopes, ttl, parentExp, ap).exp <= parentExp
<1>0. Seconds \in Nat
    BY SecondsNat DEF FwTypeOK
<1>1. Seconds + ttl \in Nat
    BY <1>0
<1>2. /\ Lesser(Seconds + ttl, parentExp) \in Nat
      /\ Lesser(Seconds + ttl, parentExp) <= parentExp
    BY <1>1, LesserIsLower
<1>3. claims[p] \in Claims
    BY DEF FwTypeOK
<1> DEFINE chain == claims[p].chain
<1>4. Append(chain, p) \in Seq(Jti)
    <2>1. chain \in Seq(Jti)
        BY <1>3 DEF Claims
    <2> HIDE DEF chain
    <2> QED BY <2>1
<1> QED BY <1>2, <1>3, <1>4 DEF ChildClaims, Claims

LEMMA PutTokenType ==
    ASSUME RowsOK, NEW j \in FreshJti, NEW c \in Claims, PutToken(j, c),
           UNCHANGED <<scenario, now, edges, revoked, actions, reviews, gate, audit, held,
                       block>>
    PROVE  RowsOK'
<1>1. j \in Jti
    BY DEF FreshJti
<1>2. claims' \in [Jti -> Claims] /\ tokens' \subseteq Jti
    BY <1>1 DEF RowsOK, PutToken
<1> QED BY <1>2 DEF RowsOK

LEMMA SameRowsType ==
    ASSUME RowsOK, UNCHANGED <<scenario, now, rows, audit, held, block>>
    PROVE  RowsOK'
BY DEF RowsOK, rows

LEMMA DecideType ==
    ASSUME RowsOK, NEW ap \in Approval, NEW status \in {"approved", "denied", "expired"},
           NEW child \in Jti \cup {None}, Decide(ap, status, child),
           UNCHANGED <<scenario, now, tokens, claims, edges, revoked, actions, reviews, audit,
                       block>>, held' \subseteq Jti
    PROVE  RowsOK'
<1>1. gate' \in [Approval -> ApprovalRow]
    <2> DEFINE row == [gate[ap] EXCEPT !.status = status, !.child = child]
    <2>1. gate[ap] \in ApprovalRow /\ gate \in [Approval -> ApprovalRow]
        BY DEF RowsOK
    <2>2. row \in ApprovalRow
        BY <2>1 DEF ApprovalRow
    <2>3. gate' = [gate EXCEPT ![ap] = row]
        BY <2>1 DEF Decide
    <2> HIDE DEF row
    <2> QED BY <2>1, <2>2, <2>3
<1> QED BY <1>1 DEF RowsOK

LEMMA MintParts ==
    ASSUME IInv, NEW t \in Thread, NEW j,
           \/ /\ req[t].op = "delegate" /\ ~NeedsApproval(req[t].scopes) /\ pc[t] = "mint"
              /\ PutToken(j, ChildClaims(req[t].tok, req[t].scopes, req[t].ttl,
                                         claims[req[t].tok].exp, None))
           \/ /\ req[t].op = "approve" /\ pc[t] = "mint"
              /\ PutToken(j, ChildClaims(req[t].tok, gate[req[t].appr].scopes,
                               gate[req[t].appr].ttl, gate[req[t].appr].parentExp,
                               req[t].appr))
    PROVE  \E p \in held : \E scopes \in SUBSET Scope : \E ttl \in Nat :
           \E ap \in Approval \cup {None} :
             /\ p = req[t].tok /\ ap = IF req[t].op = "approve" THEN req[t].appr ELSE None
             /\ PutToken(j, ChildClaims(p, scopes, ttl, claims[p].exp, ap))
             /\ MayDelegate(p, scopes) /\ claims[p].exp \in Nat
             /\ ap = None => scopes \cap Sensitive = {}
             /\ ap # None => /\ gate[ap].status # "absent"
                             /\ gate[ap].scopes = scopes /\ gate[ap].parent = p
<1>0. /\ CallOK(t) /\ req[t] \in Call /\ \A ap \in Approval : gate[ap] \in ApprovalRow
      /\ \A j_1 \in held : claims[j_1].exp \in Nat
    BY DEF IInv, CallsOK, FwTypeOK, Claims
<1>1. CASE req[t].op = "delegate" /\ PutToken(j, ChildClaims(req[t].tok, req[t].scopes,
              req[t].ttl, claims[req[t].tok].exp, None)) /\ ~NeedsApproval(req[t].scopes)
              /\ pc[t] = "mint"
    <2>1. /\ req[t].tok \in held /\ MayDelegate(req[t].tok, req[t].scopes)
          /\ req[t].scopes \in SUBSET Scope /\ req[t].ttl \in Nat
          /\ req[t].scopes \cap Sensitive = {}
        BY <1>0, <1>1 DEF CallOK, Call, NeedsApproval
    <2> QED BY <1>0, <1>1, <2>1
<1>2. CASE req[t].op = "approve" /\ PutToken(j, ChildClaims(req[t].tok,
              gate[req[t].appr].scopes, gate[req[t].appr].ttl, gate[req[t].appr].parentExp,
              req[t].appr))
    <2> DEFINE ap == req[t].appr
    <2>1. ap \in Approval /\ gate[ap].status # "absent" /\ req[t].tok = gate[ap].parent
        BY <1>0, <1>2 DEF CallOK
    <2>2. /\ gate[ap].parent \in held /\ MayDelegate(gate[ap].parent, gate[ap].scopes)
          /\ gate[ap].parentExp = claims[gate[ap].parent].exp
        BY <2>1 DEF IInv, GateOK
    <2>3. gate[ap].scopes \in SUBSET Scope /\ gate[ap].ttl \in Nat
        BY <1>0, <2>1 DEF ApprovalRow
    <2>4. ap # None
        BY <2>1, FirewallAssumption
    <2> QED BY <1>0, <1>2, <2>1, <2>2, <2>3, <2>4
<1> QED BY <1>1, <1>2

(* A child of a held token, minted by delegate or by approve.              *)
ChildMint(t, j, p, ap) ==
    /\ p = req[t].tok /\ ap = IF req[t].op = "approve" THEN req[t].appr ELSE None
    /\ \E scopes \in SUBSET Scope : \E ttl \in Nat :
         /\ PutToken(j, ChildClaims(p, scopes, ttl, claims[p].exp, ap))
         /\ MayDelegate(p, scopes)
         /\ ap = None => scopes \cap Sensitive = {}
         /\ ap # None => gate[ap].scopes = scopes
    /\ claims[p].exp \in Nat
    /\ ap # None => gate[ap].status # "absent" /\ gate[ap].parent = p
    /\ pc[t] = "mint" /\ pc'[t] = "edge" /\ loc'[t].child = j
    /\ req[t].op \in {"delegate", "approve"}
    /\ loc'[t].give = loc[t].give /\ loc'[t].stale = loc[t].stale
    /\ loc'[t].cand = loc[t].cand
    /\ req' = req /\ known' = known /\ ThreadsOK'
    /\ UNCHANGED <<scenario, now, edges, revoked, actions, reviews, gate, audit, held, block>>

LEMMA ChildMinted ==
    ASSUME IInv, NEW t \in Thread, DelegateMint(t) \/ ApproveMint(t)
    PROVE  \E j \in FreshJti, p \in held, ap \in Approval \cup {None} : ChildMint(t, j, p, ap)
<1>1. PICK j \in FreshJti :
         /\ \/ /\ req[t].op = "delegate" /\ ~NeedsApproval(req[t].scopes)
               /\ PutToken(j, ChildClaims(req[t].tok, req[t].scopes, req[t].ttl,
                                          claims[req[t].tok].exp, None))
            \/ /\ req[t].op = "approve"
               /\ PutToken(j, ChildClaims(req[t].tok, gate[req[t].appr].scopes,
                                gate[req[t].appr].ttl, gate[req[t].appr].parentExp,
                                req[t].appr))
         /\ pc[t] = "mint" /\ pc'[t] = "edge" /\ loc'[t].child = j
         /\ loc'[t].give = loc[t].give /\ loc'[t].stale = loc[t].stale
         /\ loc'[t].cand = loc[t].cand
         /\ req' = req /\ known' = known /\ ThreadsOK'
         /\ UNCHANGED <<scenario, now, edges, revoked, actions, reviews, gate, audit, held,
                        block>>
    BY MintSays
<1>2. PICK p \in held : \E scopes \in SUBSET Scope : \E ttl \in Nat :
           \E ap \in Approval \cup {None} :
             /\ p = req[t].tok /\ ap = IF req[t].op = "approve" THEN req[t].appr ELSE None
             /\ PutToken(j, ChildClaims(p, scopes, ttl, claims[p].exp, ap))
             /\ MayDelegate(p, scopes) /\ claims[p].exp \in Nat
             /\ ap = None => scopes \cap Sensitive = {}
             /\ ap # None => /\ gate[ap].status # "absent"
                             /\ gate[ap].scopes = scopes /\ gate[ap].parent = p
    BY <1>1, MintParts
<1>3. \E ap \in Approval \cup {None} : ChildMint(t, j, p, ap)
    BY <1>1, <1>2 DEF ChildMint
<1> QED BY <1>3

LEMMA StepType ==
    ASSUME IInv, NEW t \in Thread, Step(t)
    PROVE  FwTypeOK'
<1>0. RowsOK
    BY TypeParts DEF IInv
<1> SUFFICES RowsOK' /\ ThreadsOK'
    BY DEF FwTypeOK, RowsOK, ThreadsOK
<1>1. CASE MintRoot(t)
    <2>1. PICK j \in FreshJti :
             /\ \E scopes \in SUBSET Scope, ttl \in Nat, depth \in Nat :
                  PutToken(j, RootClaims(scopes, ttl, depth))
             /\ ThreadsOK'
        BY <1>1, MintRootSays DEF IInv
    <2>2. PICK scopes \in SUBSET Scope, ttl \in Nat, depth \in Nat :
             PutToken(j, RootClaims(scopes, ttl, depth))
        BY <2>1
    <2>3. RootClaims(scopes, ttl, depth) \in Claims
        BY RootType DEF IInv
    <2>4. UNCHANGED <<scenario, now, edges, revoked, actions, reviews, gate, audit, held, block>>
        BY <1>1 DEF MintRoot
    <2> QED BY <1>0, <2>1, <2>2, <2>3, <2>4, PutTokenType
<1>2. CASE Begins(t)
    BY <1>0, <1>2, BeginsSay, SameRowsType DEF IInv
<1>3. CASE IsRevoked(t) /\ ~End(t)
    BY <1>0, <1>3, LookupSays, SameRowsType
<1>4. CASE Moves(t)
    BY <1>0, <1>4, MovesSay, SameRowsType
<1>5. CASE Ends(t)
    BY <1>0, <1>5, EndsSay, SameRowsType
<1>6. CASE DelegateMint(t) \/ ApproveMint(t)
    <2>1. PICK j \in FreshJti, p \in held, ap \in Approval \cup {None} :
             ChildMint(t, j, p, ap)
        BY <1>6, ChildMinted
    <2>2. PICK scopes \in SUBSET Scope, ttl \in Nat :
             PutToken(j, ChildClaims(p, scopes, ttl, claims[p].exp, ap))
        BY <2>1 DEF ChildMint
    <2>0. /\ claims[p].exp \in Nat /\ ThreadsOK'
          /\ UNCHANGED <<scenario, now, edges, revoked, actions, reviews, gate, audit, held,
                         block>>
        BY <2>1 DEF ChildMint
    <2>3. ChildClaims(p, scopes, ttl, claims[p].exp, ap) \in Claims
        <3>1. p \in Jti /\ FwTypeOK
            BY DEF IInv, FwTypeOK
        <3> DEFINE exp == claims[p].exp
        <3>2. exp \in Nat
            BY <2>0
        <3> HIDE DEF exp
        <3>3. ChildClaims(p, scopes, ttl, exp, ap) \in Claims
            BY <3>1, <3>2, ChildType
        <3> QED BY <3>3 DEF exp
    <2> QED BY <1>0, <2>0, <2>2, <2>3, PutTokenType
<1>7. CASE DelegatePark(t)
    <2>1. PICK ap \in Approval :
             /\ gate' = [gate EXCEPT ![ap] =
                  [status |-> "pending", parent |-> req[t].tok, scopes |-> req[t].scopes,
                   ttl |-> req[t].ttl, parentExp |-> claims[req[t].tok].exp,
                   expires |-> Lesser(Seconds + ApprovalTimeout, claims[req[t].tok].exp),
                   child |-> None]]
             /\ req[t].op = "delegate" /\ ThreadsOK'
             /\ UNCHANGED <<scenario, now, tokens, claims, edges, revoked, actions, reviews,
                            audit, held, block>>
        BY <1>7, ParkSays
    <2> DEFINE p == req[t].tok
               expires == Lesser(Seconds + ApprovalTimeout, claims[p].exp)
               row == [status |-> "pending", parent |-> p, scopes |-> req[t].scopes,
                       ttl |-> req[t].ttl, parentExp |-> claims[p].exp,
                       expires |-> expires, child |-> None]
    <2>2. p \in held /\ p \in Jti /\ req[t] \in Call
        BY <2>1 DEF IInv, CallsOK, CallOK, FwTypeOK
    <2>3. claims[p].exp \in Nat
        BY <2>2 DEF IInv, FwTypeOK, Claims
    <2>4. expires \in Nat
        <3>0. Seconds \in Nat /\ ApprovalTimeout \in Nat
            BY FirewallAssumption, SecondsNat DEF IInv, FwTypeOK
        <3>1. Seconds + ApprovalTimeout \in Nat
            BY <3>0
        <3> QED BY <2>3, <3>1, LesserIsLower
    <2> HIDE DEF expires
    <2>5. row \in ApprovalRow
        BY <2>2, <2>3, <2>4 DEF ApprovalRow, Call
    <2>6. gate' = [gate EXCEPT ![ap] = row]
        BY <2>1 DEF expires
    <2> HIDE DEF row
    <2> QED BY <1>0, <2>1, <2>5, <2>6 DEF RowsOK
<1>8. CASE AddEdge(t)
    <2>1. /\ edges' = edges \cup {<<req[t].tok, loc[t].child>>} /\ ThreadsOK'
          /\ UNCHANGED <<scenario, now, tokens, claims, revoked, actions, reviews, gate, audit,
                         held, block>>
          /\ pc[t] = "edge"
        BY <1>8, AddEdgeSays
    <2> DEFINE e == <<req[t].tok, loc[t].child>>
    <2>2. req[t].tok \in Jti /\ loc[t].child \in Jti
        <3>1. /\ CallOK(t) /\ req[t].op \in {"delegate", "approve"} /\ tokens \subseteq Jti
              /\ held \subseteq Jti
            BY <2>1 DEF IInv, CallsOK, CallOK, AtStage, FwTypeOK
        <3>2. loc[t].child \in Jti
            BY <2>1, <3>1 DEF CallOK
        <3>3. CASE req[t].op = "delegate"
            BY <3>1, <3>2, <3>3 DEF CallOK
        <3>4. CASE req[t].op = "approve"
            BY <3>1, <3>2, <3>4 DEF CallOK, IInv, GateOK
        <3> QED BY <3>1, <3>2, <3>3, <3>4
    <2>3. e \in Jti \X Jti /\ edges' = edges \cup {e}
        BY <2>1, <2>2
    <2> HIDE DEF e
    <2>4. RowsOK'
        BY <1>0, <2>1, <2>3 DEF RowsOK
    <2> QED BY <2>1, <2>4
<1>9. CASE PutAction(t)
    <2>1. PICK a \in Action \ Recorded :
             /\ actions' = [actions EXCEPT ![a] = [jti |-> req[t].tok, state |-> "OPEN"]]
             /\ req[t].op = "action" /\ ThreadsOK'
             /\ UNCHANGED <<scenario, now, tokens, claims, edges, revoked, reviews, gate,
                            audit, held, block>>
        BY <1>9, PutActionSays
    <2>2. [jti |-> req[t].tok, state |-> "OPEN"] \in ActionRow
        BY <2>1 DEF IInv, CallsOK, CallOK, FwTypeOK, ActionRow
    <2> QED BY <1>0, <2>1, <2>2 DEF RowsOK
<1>10. CASE EnterBlock(t) \/ LeaveBlock(t)
    <2>1. /\ UNCHANGED <<scenario, now, rows, audit, held>> /\ ThreadsOK'
          /\ block' \in [Action -> {"not run", "running", "returned", "raised"}]
        BY <1>0, <1>10, BlockSays DEF RowsOK
    <2> QED BY <1>0, <2>1 DEF RowsOK, rows
<1>11. CASE CloseAction(t)
    <2> DEFINE a == loc[t].act
    <2>1. /\ actions' = [actions EXCEPT ![a].state = CompletionState(a)] /\ a \in Action
          /\ ThreadsOK'
          /\ UNCHANGED <<scenario, now, tokens, claims, edges, revoked, reviews, gate, audit,
                         held, block>>
        BY <1>11, CloseActionSays
    <2>2. CompletionState(a) \in {"CLEAN", "PARTIAL"}
        BY DEF CompletionState
    <2> HIDE DEF a
    <2>3. actions' \in [Action -> ActionRow]
        BY <1>0, <2>1, <2>2 DEF RowsOK, ActionRow
    <2> QED BY <1>0, <2>1, <2>3 DEF RowsOK
<1>12. CASE RevokeWalk(t)
    BY <1>0, <1>12, RevokeWalkSays, SameRowsType
<1>13. CASE RevokeGather(t)
    BY <1>0, <1>13, RevokeGatherSays, SameRowsType
<1>14. CASE RevokeAlready(t)
    BY <1>0, <1>14, RevokeAlreadySays, SameRowsType
<1>15. CASE RevokeInsert(t)
    <2>1. /\ ThreadsOK' /\ (revoked' = revoked \cup loc[t].level \/ revoked' = revoked)
          /\ UNCHANGED <<scenario, now, tokens, claims, edges, actions, reviews, gate, audit,
                         held, block>>
        BY <1>15, RevokeInsertSays
    <2> DEFINE level == loc[t].level
    <2>2. level \subseteq Jti
        BY DEF IInv, FwTypeOK, Local
    <2>3. revoked' = revoked \cup level \/ revoked' = revoked
        BY <2>1
    <2> HIDE DEF level
    <2>4. RowsOK'
        BY <1>0, <2>1, <2>2, <2>3 DEF RowsOK
    <2> QED BY <2>1, <2>4
<1>16. CASE RevokeReviewed(t)
    BY <1>0, <1>16, RevokeReviewedSays, SameRowsType
<1>17. CASE PutReview(t)
    <2>1. PICK c \in loc[t].cand : \E r \in Review :
             /\ c \in Action \X {"UNKNOWN", "PARTIAL"} /\ ThreadsOK'
             /\ reviews' = [reviews EXCEPT ![r] = [action |-> c[1], class |-> c[2],
                                                   reviewed |-> FALSE]]
             /\ UNCHANGED <<scenario, now, tokens, claims, edges, revoked, actions, gate, audit,
                            held, block>>
        BY <1>17, PutReviewSays
    <2>2. [action |-> c[1], class |-> c[2], reviewed |-> FALSE] \in ReviewRow
        BY <2>1 DEF ReviewRow
    <2>3. reviews' \in [Review -> ReviewRow]
        BY <1>0, <2>1, <2>2 DEF RowsOK
    <2> QED BY <1>0, <2>1, <2>3 DEF RowsOK
<1>18. CASE RevokeReport(t) \/ UpdateReview(t)
    <2>1. /\ ThreadsOK'
          /\ \/ UNCHANGED reviews
             \/ reviews' = [reviews EXCEPT ![req[t].rev].reviewed = TRUE]
          /\ UNCHANGED <<scenario, now, tokens, claims, edges, revoked, actions, gate, audit,
                         held, block>>
        BY <1>18, ReportsSay
    <2>2. reviews' \in [Review -> ReviewRow]
        <3>1. reviews \in [Review -> ReviewRow]
            BY <1>0 DEF RowsOK
        <3> DEFINE rv == req[t].rev
                   row == [reviews[rv] EXCEPT !.reviewed = TRUE]
        <3>2. CASE reviews' = [reviews EXCEPT ![rv].reviewed = TRUE] /\ rv \in Review
            <4>1. row \in ReviewRow
                BY <3>1, <3>2 DEF ReviewRow
            <4>2. reviews' = [reviews EXCEPT ![rv] = row]
                BY <3>1, <3>2
            <4> HIDE DEF row, rv
            <4> QED BY <3>1, <4>1, <4>2
        <3>3. CASE reviews' = [reviews EXCEPT ![rv].reviewed = TRUE] /\ rv \notin Review
            <4> HIDE DEF rv
            <4> QED BY <3>1, <3>3
        <3> QED BY <2>1, <3>1, <3>2, <3>3
    <2> QED BY <1>0, <2>1, <2>2 DEF RowsOK
<1>19. CASE Decides(t)
    <2>1. PICK ap \in Approval : \E status \in {"approved", "denied", "expired"} :
          \E child \in Jti \cup {None} :
             /\ Decide(ap, status, child) /\ ThreadsOK'
             /\ UNCHANGED <<scenario, now, tokens, claims, edges, revoked, actions, reviews,
                            audit, held, block>>
        BY <1>19, DecideSays DEF Decides
    <2> QED BY <1>0, <2>1, DecideType DEF RowsOK
<1>20. CASE Lapse(t)
    BY <1>0, <1>20, LapseSays, DecideType DEF RowsOK
<1>21. CASE CollectHand(t)
    <2> DEFINE ap == req[t].appr
               child == loc[t].child
    <2>1. /\ ap \in Approval /\ child \in Jti \cup {None} /\ Decide(ap, "approved", child)
          /\ ThreadsOK' /\ held' \subseteq Jti
          /\ UNCHANGED <<scenario, now, tokens, claims, edges, revoked, actions, reviews,
                         audit, block>>
        BY <1>0, <1>21, HandSays DEF RowsOK
    <2> HIDE DEF ap, child
    <2> QED BY <1>0, <2>1, DecideType
<1>22. CASE Log(t)
    <2>1. /\ audit' = audit \cup {loc[t].row} /\ loc[t].row \in AuditRow
          /\ held' = held \cup loc[t].give /\ loc[t].give \subseteq Jti
          /\ UNCHANGED <<scenario, now, rows, block>> /\ ThreadsOK'
        BY <1>22, LogSays DEF IInv, FwTypeOK, Local
    <2> QED BY <1>0, <2>1 DEF RowsOK, rows
<1> QED BY <1>1, <1>2, <1>3, <1>4, <1>5, <1>6, <1>7, <1>8, <1>9, <1>10, <1>11, <1>12, <1>13,
        <1>14, <1>15, <1>16, <1>17, <1>18, <1>19, <1>20, <1>21, <1>22, StepCases

-----------------------------------------------------------------------------
(* What was said of a row or of a call stays true when rows are added.     *)

LEMMA LinkedStays ==
    ASSUME Grown, NEW j \in tokens, Linked(j)
    PROVE  Linked(j)'
BY DEF Grown, Linked, Parent

LEMMA TokenStays ==
    ASSUME IInv, Grown, NEW j \in tokens
    PROVE  TokenOK(j)'
<1>1. TokenOK(j) /\ held \subseteq tokens /\ held \subseteq held'
    BY DEF IInv, TokensOK, Grown
<1>2. claims'[j] = claims[j] /\ \A a \in held : claims'[a] = claims[a]
    BY <1>1 DEF Grown
<1>3. ASSUME NEW i \in 1 .. Len(claims[j].chain) PROVE HopOK(j, i)'
    BY <1>1, <1>2 DEF TokenOK, HopOK
<1>4. Shown(j)'
    BY <1>1, <1>2 DEF TokenOK, Shown, Grown, Parent
<1> QED BY <1>1, <1>2, <1>3, <1>4 DEF TokenOK

LEMMA GateStays ==
    ASSUME IInv, Grown, NEW ap \in Approval, gate'[ap] = gate[ap]
    PROVE  /\ gate'[ap].status # "absent" =>
                /\ gate'[ap].parent \in held'
                /\ MayDelegate(gate[ap].parent, gate[ap].scopes)'
                /\ gate'[ap].parentExp = claims'[gate'[ap].parent].exp
           /\ gate'[ap].status = "approved" =>
                /\ gate'[ap].child \in tokens' /\ Linked(gate[ap].child)'
                /\ claims'[gate'[ap].child].via = ap
<1>1. GateOK /\ held \subseteq tokens /\ held \subseteq held' /\ tokens \subseteq tokens'
    BY DEF IInv, TokensOK, Grown
<1>2. \A j \in tokens : claims'[j] = claims[j]
    BY DEF Grown
<1>3. ASSUME gate[ap].status = "approved" PROVE Linked(gate[ap].child)'
    BY <1>1, <1>3, LinkedStays DEF GateOK
<1> QED BY <1>1, <1>2, <1>3 DEF GateOK, MayDelegate

LEMMA CallStays ==
    ASSUME IInv, Grown, NEW u \in Thread, SameThread(u)
    PROVE  CallOK(u)'
<1>1. CallOK(u) /\ held \subseteq tokens /\ held \subseteq held' /\ tokens \subseteq tokens'
    BY DEF IInv, CallsOK, TokensOK, Grown
<1>2. \A j \in tokens : claims'[j] = claims[j]
    BY DEF Grown
<1>3. pc'[u] = pc[u] /\ req'[u] = req[u] /\ loc'[u] = loc[u]
    BY DEF SameThread
<1>4. /\ AtStage(req[u].op, pc[u])'
      /\ pc'[u] # "idle" => req'[u].op \in scenario'.calls[u]
      /\ pc'[u] = "log" => /\ loc'[u].row \in AuditRow
                           /\ loc'[u].then \in {"idle", "enter", "queue", "sweep"}
                           /\ loc'[u].then = "idle" \/ AtStage(req[u].op, loc[u].then)'
      /\ Owns(u)' => loc'[u].act \in Action
      /\ req'[u].op \in {"delegate", "verify", "action"} => req'[u].tok \in held'
      /\ req'[u].op = "revoke" => req'[u].tok \in tokens'
    BY <1>1, <1>3 DEF CallOK, Grown, Owns, After, AtStage
<1>5. /\ pc'[u] = "resolve" => req'[u].rev \in Review /\ reviews'[req'[u].rev].action # None
      /\ req'[u].op \in {"approve", "deny", "collect"} =>
           req'[u].appr \in Approval /\ gate'[req'[u].appr].status # "absent"
      /\ req'[u].op \in {"approve", "deny"} => req'[u].tok = gate'[req'[u].appr].parent
    BY <1>1, <1>3 DEF CallOK, Grown
<1>6. pc'[u] = "mint" /\ req'[u].op = "delegate" => MayDelegate(req[u].tok, req[u].scopes)'
    BY <1>1, <1>2, <1>3 DEF CallOK, MayDelegate
<1>7. pc'[u] \in {"edge", "grant"} =>
        /\ loc'[u].child \in tokens'
        /\ claims'[loc'[u].child].chain = Append(claims'[req'[u].tok].chain, req'[u].tok)
        /\ claims'[loc'[u].child].via = IF req'[u].op = "approve" THEN req'[u].appr ELSE None
    <2>1. ASSUME pc[u] \in {"edge", "grant"} PROVE req[u].tok \in tokens
        <3>1. CASE req[u].op = "delegate"
            BY <1>1, <3>1 DEF CallOK
        <3>2. CASE req[u].op = "approve"
            BY <1>1, <3>2 DEF CallOK, IInv, GateOK
        <3> QED BY <1>1, <2>1, <3>1, <3>2 DEF CallOK, AtStage
    <2> QED BY <1>1, <1>2, <1>3, <2>1 DEF CallOK
<1>8. pc'[u] = "grant" => <<req'[u].tok, loc'[u].child>> \in edges'
    BY <1>1, <1>3 DEF CallOK, Grown
<1>9. pc'[u] = "hand" =>
        /\ loc'[u].child \in tokens' /\ Linked(loc[u].child)'
        /\ claims'[loc'[u].child].via = req'[u].appr
    <2>1. ASSUME pc[u] = "hand" PROVE loc[u].child \in tokens /\ Linked(loc[u].child)
        BY <1>1, <2>1 DEF CallOK
    <2>2. ASSUME pc[u] = "hand" PROVE Linked(loc[u].child)'
        BY <2>1, <2>2, <1>3, LinkedStays
    <2> QED BY <1>1, <1>2, <1>3, <2>2 DEF CallOK
<1>10. \A j \in loc'[u].give : j \in tokens' /\ Linked(j)'
    BY <1>1, <1>3, LinkedStays DEF CallOK
<1>11. \A ap \in loc'[u].stale : gate'[ap].status # "absent"
    <2>1. loc[u].stale \subseteq Approval
        BY DEF IInv, FwTypeOK, Local
    <2> QED BY <1>1, <1>3, <2>1 DEF CallOK, Grown
<1> QED BY <1>4, <1>5, <1>6, <1>7, <1>8, <1>9, <1>10, <1>11 DEF CallOK

LEMMA EndedOK ==
    ASSUME IInv, NEW t \in Thread, End(t)
    PROVE  CallOK(t)'
<1>1. pc'[t] = "idle" /\ req'[t] = NoCall /\ loc'[t] = NoLocal
    BY EndSays DEF IInv
<1> QED BY <1>1 DEF CallOK, AtStage, NoCall, NoLocal, Owns, After

-----------------------------------------------------------------------------
(* The token rows.                                                         *)

LEMMA SameTokensOK ==
    ASSUME IInv, Grown, UNCHANGED <<tokens, claims, edges, held>>
    PROVE  TokensOK'
<1>1. /\ held' \subseteq tokens'
      /\ \A j \in held' : Linked(j)'
      /\ \A e \in edges' : e[2] \in tokens' /\ claims'[e[2]].chain # <<>> /\ e[1] = Parent(e[2])'
    BY DEF IInv, TokensOK, Linked, Parent
<1> QED BY <1>1, TokenStays DEF TokensOK

(* A token that is added is well-formed, the others stay so.               *)
LEMMA MintedOK ==
    ASSUME IInv, Grown, NEW j, tokens' = tokens \cup {j}, TokenOK(j)', UNCHANGED <<edges, held>>
    PROVE  TokensOK'
<1>1. held' \subseteq tokens' /\ held' \subseteq tokens
    BY DEF IInv, TokensOK
<1>2. \A i \in held' : Linked(i)'
    BY <1>1, LinkedStays DEF IInv, TokensOK
<1>3. ASSUME NEW e \in edges'
      PROVE  e[2] \in tokens' /\ claims'[e[2]].chain # <<>> /\ e[1] = Parent(e[2])'
    BY DEF IInv, TokensOK, Grown, Parent
<1> QED BY <1>1, <1>2, <1>3, TokenStays DEF TokensOK

(* A caller is given linked tokens only.                                   *)
LEMMA GivenOK ==
    ASSUME IInv, Grown, NEW give \in SUBSET tokens, \A j \in give : Linked(j),
           UNCHANGED <<tokens, claims, edges>>, held' = held \cup give
    PROVE  TokensOK'
<1>1. /\ held' \subseteq tokens'
      /\ \A j \in held' : Linked(j)'
      /\ \A e \in edges' : e[2] \in tokens' /\ claims'[e[2]].chain # <<>> /\ e[1] = Parent(e[2])'
    BY DEF IInv, TokensOK, Linked, Parent
<1> QED BY <1>1, TokenStays DEF TokensOK

LEMMA RootOK ==
    ASSUME IInv, NEW j \in FreshJti, NEW scopes \in SUBSET Scope, NEW ttl \in Nat,
           NEW depth \in Nat, PutToken(j, RootClaims(scopes, ttl, depth))
    PROVE  TokenOK(j)' /\ Linked(j)'
<1>1. claims'[j] = RootClaims(scopes, ttl, depth)
    BY DEF IInv, FwTypeOK, PutToken, FreshJti
<1>2. /\ claims'[j].chain = <<>> /\ claims'[j].depth = 0 /\ claims'[j].maxDepth = depth
      /\ claims'[j].via = None
    BY <1>1 DEF RootClaims
<1>3. Len(<<>>) = 0 /\ 1 .. 0 = {}
    OBVIOUS
<1>4. /\ claims'[j].depth = Len(claims'[j].chain)
      /\ claims'[j].depth <= claims'[j].maxDepth
      /\ \A i \in 1 .. Len(claims'[j].chain) : HopOK(j, i)'
    BY <1>2, <1>3
<1> QED BY <1>2, <1>4 DEF TokenOK, Shown, Linked

LEMMA ChildOK ==
    ASSUME IInv, Grown, NEW t \in Thread, NEW j \in FreshJti, NEW p \in held,
           NEW ap \in Approval \cup {None}, ChildMint(t, j, p, ap)
    PROVE  /\ TokenOK(j)' /\ tokens' = tokens \cup {j}
           /\ claims'[j].chain = Append(claims[p].chain, p) /\ claims'[j].via = ap
<1>1. PICK scopes \in SUBSET Scope, ttl \in Nat :
        /\ PutToken(j, ChildClaims(p, scopes, ttl, claims[p].exp, ap))
        /\ MayDelegate(p, scopes)
        /\ ap = None => scopes \cap Sensitive = {}
        /\ ap # None => gate[ap].scopes = scopes
    BY DEF ChildMint
<1>2. /\ p \in tokens /\ p \in Jti /\ claims[p] \in Claims /\ TokenOK(p) /\ j \notin tokens
      /\ j \in Jti
    BY DEF IInv, TokensOK, FwTypeOK, FreshJti
<1> DEFINE c == ChildClaims(p, scopes, ttl, claims[p].exp, ap)
<1>3. tokens' = tokens \cup {j} /\ claims'[j] = c
    BY <1>1, <1>2 DEF PutToken, IInv, FwTypeOK
<1>4. \A a \in held : claims'[a] = claims[a]
    BY DEF Grown, IInv, TokensOK
<1> DEFINE chain == claims[p].chain
<1>5. chain \in Seq(Jti) /\ claims[p].depth = Len(chain) /\ claims[p].depth + 1 <= claims[p].maxDepth
    BY <1>1, <1>2 DEF Claims, TokenOK, MayDelegate
<1>6. /\ c.scopes = scopes /\ c.chain = Append(chain, p) /\ c.depth = claims[p].depth + 1
      /\ c.maxDepth = claims[p].maxDepth /\ c.via = ap
    BY DEF ChildClaims
<1>7. c.exp <= claims[p].exp /\ c.exp \in Nat /\ claims[p].exp \in Nat
    <2> DEFINE exp == claims[p].exp
    <2>1. exp \in Nat /\ FwTypeOK
        BY <1>2 DEF Claims, IInv
    <2> HIDE DEF exp
    <2>2. /\ ChildClaims(p, scopes, ttl, exp, ap) \in Claims
          /\ ChildClaims(p, scopes, ttl, exp, ap).exp <= exp
        BY <1>2, <2>1, ChildType
    <2> QED BY <2>1, <2>2 DEF exp, Claims
<1>8. \A i \in 1 .. Len(chain) : HopOK(p, i)
    BY <1>2 DEF TokenOK
<1>9. scopes \subseteq claims[p].scopes
    BY <1>1 DEF MayDelegate
<1> HIDE DEF c
<1>10. /\ \A i \in 1 .. Len(chain) : chain[i] \in held
       /\ \A i \in 1 .. Len(chain) : claims[chain[i]].exp \in Nat
    <2>1. \A i \in 1 .. Len(chain) : chain[i] \in held
        BY <1>8 DEF HopOK
    <2>2. \A a \in held : claims[a].exp \in Nat
        BY DEF IInv, FwTypeOK, Claims
    <2> QED BY <2>1, <2>2
<1>11. ASSUME NEW i \in 1 .. Len(c.chain) PROVE HopOK(j, i)'
    <2>1. CASE i \in 1 .. Len(chain)
        <3> DEFINE a == chain[i]
        <3>1. /\ a \in held /\ claims[p].scopes \subseteq claims[a].scopes
              /\ claims[p].exp <= claims[a].exp /\ claims[a].chain = SubSeq(chain, 1, i - 1)
              /\ claims[a].maxDepth = claims[p].maxDepth
            BY <1>8, <2>1 DEF HopOK
        <3>2. c.exp <= claims[a].exp
            BY <1>7, <1>10, <2>1, <3>1
        <3>3. c.chain[i] = a /\ SubSeq(c.chain, 1, i - 1) = SubSeq(chain, 1, i - 1)
            <4> HIDE DEF chain
            <4>1. Append(chain, p)[i] = chain[i]
                BY <1>5, <2>1
            <4>2. SubSeq(Append(chain, p), 1, i - 1) = SubSeq(chain, 1, i - 1)
                BY <1>5, <2>1
            <4> QED BY <1>6, <4>1, <4>2
        <3>4. claims'[a] = claims[a] /\ a \in held'
            BY <1>4, <3>1 DEF Grown
        <3> HIDE DEF a, chain
        <3> QED BY <1>3, <1>6, <1>9, <3>1, <3>2, <3>3, <3>4 DEF HopOK
    <2>2. CASE i = Len(chain) + 1
        <3>1. c.chain[i] = p /\ SubSeq(c.chain, 1, i - 1) = chain
            <4> HIDE DEF chain
            <4>1. Append(chain, p)[i] = p /\ SubSeq(Append(chain, p), 1, Len(chain)) = chain
                BY <1>5, <2>2
            <4> QED BY <1>5, <1>6, <2>2, <4>1
        <3>2. claims'[p] = claims[p] /\ p \in held'
            BY <1>4 DEF Grown
        <3> QED BY <1>3, <1>6, <1>7, <1>9, <3>1, <3>2 DEF HopOK
    <2>3. i \in 1 .. Len(chain) \/ i = Len(chain) + 1
        <3> HIDE DEF chain
        <3> QED BY <1>5, <1>6
    <2> QED BY <2>1, <2>2, <2>3
<1>12. c.depth = Len(c.chain) /\ c.depth <= c.maxDepth
    <2> HIDE DEF chain
    <2> QED BY <1>5, <1>6
<1>13. Shown(j)'
    <2>1. c.chain # <<>> /\ c.chain[Len(c.chain)] = p
        <3> HIDE DEF chain
        <3> QED BY <1>5, <1>6
    <2>2. CASE ap = None
        BY <1>1, <1>3, <1>6, <2>2 DEF Shown
    <2>3. CASE ap # None
        <3>1. /\ ap \in Approval /\ gate' = gate /\ gate[ap].status # "absent"
              /\ gate[ap].parent = p /\ gate[ap].scopes = scopes
            BY <1>1, <2>3 DEF ChildMint
        <3> QED BY <1>3, <1>6, <2>1, <2>3, <3>1 DEF Shown, Parent
    <2> QED BY <2>2, <2>3
<1> QED BY <1>3, <1>6, <1>11, <1>12, <1>13 DEF TokenOK

-----------------------------------------------------------------------------
(* The step of a call keeps what is said of its own rows and of itself.    *)

StepOK(t) == TokensOK' /\ GateOK' /\ CallOK(t)'

LEMMA SameGateOK ==
    ASSUME IInv, Grown, gate' = gate
    PROVE  GateOK'
BY GateStays DEF GateOK

LEMMA SameRowsOK ==
    ASSUME IInv, Grown, UNCHANGED <<tokens, claims, edges, held, gate>>, NEW t \in Thread,
           CallOK(t)'
    PROVE  StepOK(t)
BY SameTokensOK, SameGateOK DEF StepOK

LEMMA SameAllOK ==
    ASSUME IInv, Grown, UNCHANGED <<scenario, now, rows, audit, held, block>>, NEW t \in Thread,
           CallOK(t)'
    PROVE  StepOK(t)
BY SameRowsOK DEF rows

LEMMA BeginsOK ==
    ASSUME IInv, Grown, NEW t \in Thread, Begins(t)
    PROVE  StepOK(t)
<1>0. UNCHANGED <<scenario, now, rows, audit, held, block>> /\ FwTypeOK /\ held \subseteq tokens
    BY BeginsSay DEF IInv, TokensOK
<1>1. CASE Delegate(t) \/ Verify(t)
    <2>1. CallOK(t)'
        BY <1>0, <1>1, PresentSays DEF CallOK, AtStage, FreshLocal, Owns, After, rows
    <2> QED BY <1>0, <2>1, SameAllOK
<1>2. CASE Revoke(t)
    <2>1. CallOK(t)'
        BY <1>0, <1>2, RevokeSays DEF CallOK, AtStage, FreshLocal, Owns, After, rows
    <2> QED BY <1>0, <2>1, SameAllOK
<1>3. CASE ResolveReview(t)
    <2>1. CallOK(t)'
        BY <1>0, <1>3, ResolveReviewSays DEF CallOK, AtStage, FreshLocal, Owns, After, rows
    <2> QED BY <1>0, <2>1, SameAllOK
<1>4. CASE Approve(t) \/ Deny(t)
    <2>1. CallOK(t)'
        BY <1>0, <1>4, DecisionSays DEF CallOK, AtStage, FreshLocal, Owns, After, rows
    <2> QED BY <1>0, <2>1, SameAllOK
<1>5. CASE Collect(t)
    <2>1. PICK ap \in Approval :
             /\ gate[ap].status = "approved" /\ pc[t] = "idle" /\ pc'[t] = "hand"
             /\ req'[t].op = "collect" /\ "collect" \in scenario.calls[t]
             /\ req'[t].appr = ap /\ loc'[t].child = gate[ap].child
             /\ FreshLocal(loc'[t])
        BY <1>0, <1>5, CollectSays
    <2>2. /\ gate[ap].child \in tokens /\ Linked(gate[ap].child)
          /\ claims[gate[ap].child].via = ap
        BY <2>1 DEF IInv, GateOK
    <2>3. CallOK(t)'
        BY <1>0, <2>1, <2>2 DEF CallOK, AtStage, FreshLocal, Owns, After, rows, Linked, Parent
    <2> QED BY <1>0, <2>3, SameAllOK
<1>6. CASE PendingApprovals(t)
    <2>1. CallOK(t)'
        BY <1>0, <1>6, PendingApprovalsSays DEF CallOK, AtStage, Owns, After, rows
    <2> QED BY <1>0, <2>1, SameAllOK
<1> QED BY <1>1, <1>2, <1>3, <1>4, <1>5, <1>6 DEF Begins

LEMMA MintOK ==
    ASSUME IInv, Grown, NEW t \in Thread, MintRoot(t) \/ DelegateMint(t) \/ ApproveMint(t)
    PROVE  StepOK(t)
<1>0. CallOK(t) /\ FwTypeOK /\ held \subseteq tokens
    BY DEF IInv, CallsOK, TokensOK
<1>1. CASE MintRoot(t)
    <2>1. PICK j \in FreshJti :
             /\ \E scopes \in SUBSET Scope, ttl \in Nat, depth \in Nat :
                  PutToken(j, RootClaims(scopes, ttl, depth))
             /\ pc[t] = "idle" /\ pc'[t] = "log" /\ req'[t].op = "mint_root"
             /\ "mint_root" \in scenario.calls[t]
             /\ loc'[t].row = <<"root_minted", j>> /\ loc'[t].give = {j}
             /\ loc'[t].stale = {} /\ loc'[t].cand = {} /\ loc'[t].then = "idle"
             /\ known'[t] = NoHistory /\ ThreadsOK'
        BY <1>0, <1>1, MintRootSays
    <2>6. PICK scopes \in SUBSET Scope, ttl \in Nat, depth \in Nat :
             PutToken(j, RootClaims(scopes, ttl, depth))
        BY <2>1
    <2>2. TokenOK(j)' /\ Linked(j)' /\ tokens' = tokens \cup {j}
        BY <2>6, RootOK DEF PutToken
    <2>3. UNCHANGED <<scenario, edges, held, gate>>
        BY <1>1 DEF MintRoot
    <2>4. <<"root_minted", j>> \in AuditRow
        BY DEF FreshJti, AuditRow, Id
    <2>5. CallOK(t)'
        BY <1>0, <2>1, <2>2, <2>3, <2>4 DEF CallOK, AtStage, Owns, After
    <2> QED BY <2>2, <2>3, <2>5, MintedOK, SameGateOK DEF StepOK
<1>2. CASE DelegateMint(t) \/ ApproveMint(t)
    <2>1. PICK j \in FreshJti, p \in held, ap \in Approval \cup {None} : ChildMint(t, j, p, ap)
        BY <1>2, ChildMinted
    <2>2. /\ TokenOK(j)' /\ tokens' = tokens \cup {j}
          /\ claims'[j].chain = Append(claims[p].chain, p) /\ claims'[j].via = ap
        BY <2>1, ChildOK
    <2>3. UNCHANGED <<scenario, edges, held, gate>>
        BY <2>1 DEF ChildMint
    <2>4. /\ p = req[t].tok /\ ap = IF req[t].op = "approve" THEN req[t].appr ELSE None
          /\ pc'[t] = "edge" /\ loc'[t].child = j /\ req' = req /\ pc[t] = "mint"
          /\ req[t].op \in {"delegate", "approve"}
          /\ loc'[t].give = loc[t].give /\ loc'[t].stale = loc[t].stale
        BY <2>1 DEF ChildMint
    <2>5. claims'[p] = claims[p] /\ \A i \in loc[t].give : Linked(i)' /\ i \in tokens'
        BY <1>0, <2>2, LinkedStays DEF Grown, CallOK
    <2>6. loc[t].stale \subseteq Approval
        BY <1>0 DEF FwTypeOK, Local
    <2>7. CallOK(t)'
        BY <1>0, <2>2, <2>3, <2>4, <2>5, <2>6 DEF CallOK, AtStage, Owns, After, Grown
    <2> QED BY <2>2, <2>3, <2>7, MintedOK, SameGateOK DEF StepOK
<1> QED BY <1>1, <1>2

LEMMA ParkOK ==
    ASSUME IInv, Grown, NEW t \in Thread, DelegatePark(t)
    PROVE  StepOK(t)
<1>0. CallOK(t) /\ FwTypeOK /\ held \subseteq tokens
    BY DEF IInv, CallsOK, TokensOK
<1> DEFINE p == req[t].tok
           row == [status |-> "pending", parent |-> p, scopes |-> req[t].scopes,
                   ttl |-> req[t].ttl, parentExp |-> claims[p].exp,
                   expires |-> Lesser(Seconds + ApprovalTimeout, claims[p].exp),
                   child |-> None]
<1>1. PICK ap \in Approval :
        /\ gate[ap].status = "absent"
        /\ gate' = [gate EXCEPT ![ap] = row]
        /\ pc[t] = "mint" /\ req[t].op = "delegate" /\ pc'[t] = "log"
        /\ loc'[t].row = <<"approval_pending", ap>> /\ loc'[t].give = {}
        /\ loc'[t].then = "idle" /\ loc'[t].stale = loc[t].stale
        /\ req' = req
        /\ UNCHANGED <<scenario, now, tokens, claims, edges, revoked, actions, reviews,
                       audit, held, block>>
    BY ParkSays
<1>2. p \in held /\ MayDelegate(p, req[t].scopes)
    BY <1>0, <1>1 DEF CallOK
<1>3. /\ row.status = "pending" /\ row.parent = p /\ row.scopes = req[t].scopes
      /\ row.parentExp = claims[p].exp
    OBVIOUS
<1> HIDE DEF row
<1>4. gate'[ap] = row /\ \A b \in Approval : b # ap => gate'[b] = gate[b]
    BY <1>1 DEF IInv, FwTypeOK
<1>5. GateOK'
    <2>1. ASSUME NEW b \in Approval
          PROVE  /\ gate'[b].status # "absent" =>
                      /\ gate'[b].parent \in held'
                      /\ MayDelegate(gate[b].parent, gate[b].scopes)'
                      /\ gate'[b].parentExp = claims'[gate'[b].parent].exp
                 /\ gate'[b].status = "approved" =>
                      /\ gate'[b].child \in tokens' /\ Linked(gate[b].child)'
                      /\ claims'[gate'[b].child].via = b
        <3>1. CASE b = ap
            BY <1>1, <1>2, <1>3, <1>4, <3>1 DEF MayDelegate
        <3>2. CASE b # ap
            BY <1>4, <3>2, GateStays
        <3> QED BY <3>1, <3>2
    <2> QED BY <2>1 DEF GateOK
<1>6. TokensOK'
    BY <1>1, SameTokensOK
<1>7. CallOK(t)'
    <2>1. <<"approval_pending", ap>> \in AuditRow
        BY DEF AuditRow, Id
    <2>2. loc[t].stale \subseteq Approval
        BY <1>0 DEF FwTypeOK, Local
    <2> QED BY <1>0, <1>1, <2>1, <2>2 DEF CallOK, AtStage, Owns, After, Grown
<1> QED BY <1>5, <1>6, <1>7 DEF StepOK

LEMMA AddEdgeOK ==
    ASSUME IInv, Grown, NEW t \in Thread, AddEdge(t)
    PROVE  StepOK(t)
<1>0. CallOK(t) /\ FwTypeOK /\ held \subseteq tokens
    BY DEF IInv, CallsOK, TokensOK
<1>1. /\ pc[t] = "edge" /\ edges' = edges \cup {<<req[t].tok, loc[t].child>>}
      /\ \/ /\ req[t].op = "approve" /\ pc'[t] = "grant" /\ loc' = loc
         \/ /\ req[t].op = "delegate" /\ pc'[t] = "log" /\ loc'[t].row \in AuditRow
            /\ loc'[t].give = {loc[t].child} /\ loc'[t].then = "idle"
            /\ loc'[t].stale = loc[t].stale
      /\ req' = req
      /\ UNCHANGED <<scenario, now, tokens, claims, revoked, actions, reviews, gate, audit,
                     held, block>>
    BY AddEdgeSays
<1>2. PICK p \in tokens, j \in tokens :
        p = req[t].tok /\ j = loc[t].child /\ claims[j].chain = Append(claims[p].chain, p)
    <2>1. req[t].op = "delegate" => req[t].tok \in tokens
        BY <1>0 DEF CallOK
    <2>2. req[t].op = "approve" => req[t].tok \in tokens
        BY <1>0 DEF CallOK, IInv, GateOK
    <2> QED BY <1>0, <1>1, <2>1, <2>2 DEF CallOK
<1>3. claims[j].chain # <<>> /\ Parent(j) = p
    <2> DEFINE chain == claims[p].chain
    <2>1. chain \in Seq(Jti) /\ p \in Jti
        BY <1>2 DEF IInv, FwTypeOK, Claims
    <2> HIDE DEF chain
    <2>2. Append(chain, p) # <<>> /\ Append(chain, p)[Len(Append(chain, p))] = p
        BY <2>1
    <2> QED BY <1>2, <2>2 DEF Parent, chain
<1>4. Linked(j)' /\ Parent(j)' = p /\ claims' = claims
    BY <1>1, <1>2, <1>3 DEF Linked, Parent
<1>5. TokensOK'
    <2>1. held' \subseteq tokens' /\ \A i \in held' : Linked(i)'
        BY <1>0, <1>1, LinkedStays DEF IInv, TokensOK
    <2>2. ASSUME NEW e \in edges'
          PROVE  e[2] \in tokens' /\ claims'[e[2]].chain # <<>> /\ e[1] = Parent(e[2])'
        <3>1. e \in edges \/ e = <<p, j>>
            BY <1>1, <1>2
        <3>2. CASE e \in edges
            BY <1>1, <3>2 DEF IInv, TokensOK, Parent
        <3>3. CASE e = <<p, j>>
            BY <1>1, <1>2, <1>3, <1>4, <3>3
        <3> QED BY <3>1, <3>2, <3>3
    <2>3. \A i \in tokens' : TokenOK(i)'
        BY <1>1, TokenStays
    <2> QED BY <2>1, <2>2, <2>3 DEF TokensOK
<1>6. GateOK'
    BY <1>1, SameGateOK
<1>7. CallOK(t)'
    <2>1. loc[t].stale \subseteq Approval
        BY <1>0 DEF FwTypeOK, Local
    <2>2. \A i \in loc[t].give : i \in tokens' /\ Linked(i)'
        BY <1>0, <1>1, LinkedStays DEF CallOK
    <2>3. CASE req[t].op = "approve" /\ pc'[t] = "grant" /\ loc' = loc
        BY <1>0, <1>1, <1>2, <2>1, <2>2, <2>3 DEF CallOK, AtStage, Owns, After, Grown
    <2>4. CASE /\ req[t].op = "delegate" /\ pc'[t] = "log" /\ loc'[t].row \in AuditRow
               /\ loc'[t].give = {loc[t].child} /\ loc'[t].then = "idle"
               /\ loc'[t].stale = loc[t].stale
        BY <1>0, <1>1, <1>2, <1>4, <2>1, <2>4 DEF CallOK, AtStage, Owns, After, Grown
    <2> QED BY <1>1, <2>3, <2>4
<1> QED BY <1>5, <1>6, <1>7 DEF StepOK

(* A step that leaves the call where it is, or moves it to l.              *)
LEMMA PlainOK ==
    ASSUME IInv, Grown, NEW t \in Thread, NEW l, pc'[t] = l, l # "log", l # "grant", l # "hand",
           l # "resolve", l # "edge", AtStage(req[t].op, l), req' = req,
           l = "mint" /\ req[t].op = "delegate" => MayDelegate(req[t].tok, req[t].scopes),
           loc'[t].give = loc[t].give, loc'[t].stale = loc[t].stale,
           l \in {"enter", "block", "close"} => loc'[t].act \in Action,
           pc[t] # "idle",
           UNCHANGED <<tokens, claims, edges, held, gate>>
    PROVE  StepOK(t)
<1>0. CallOK(t) /\ loc[t].stale \subseteq Approval
    BY DEF IInv, CallsOK, FwTypeOK, Local
<1>1. \A i \in loc[t].give : i \in tokens' /\ Linked(i)'
    BY <1>0, LinkedStays DEF CallOK
<1>2. l = "mint" /\ req[t].op = "delegate" => MayDelegate(req[t].tok, req[t].scopes)'
    BY DEF MayDelegate
<1>3. CallOK(t)'
    BY <1>0, <1>1, <1>2 DEF CallOK, AtStage, Owns, After, Grown
<1> QED BY <1>3, SameRowsOK

(* A step that is about to write an audit row.                             *)
LEMMA WritesOK ==
    ASSUME IInv, Grown, NEW t \in Thread, pc'[t] = "log", AtStage(req[t].op, "log"), req' = req,
           loc'[t].row \in AuditRow,
           loc'[t].then \in {"idle", "enter", "queue", "sweep"},
           loc'[t].then = "idle" \/ AtStage(req[t].op, loc'[t].then),
           loc'[t].then = "enter" => loc'[t].act \in Action,
           \A i \in loc'[t].give : i \in tokens /\ Linked(i),
           loc'[t].stale \subseteq loc[t].stale,
           pc[t] # "idle"
    PROVE  CallOK(t)'
<1>0. CallOK(t) /\ loc[t].stale \subseteq Approval /\ held \subseteq held'
    BY DEF IInv, CallsOK, FwTypeOK, Local, Grown
<1>1. \A i \in loc'[t].give : i \in tokens' /\ Linked(i)'
    BY LinkedStays DEF Grown
<1> QED BY <1>0, <1>1 DEF CallOK, AtStage, Owns, After, Grown

LEMMA MovesOK ==
    ASSUME IInv, Grown, NEW t \in Thread, Moves(t)
    PROVE  StepOK(t)
<1>1. /\ \/ /\ pc[t] = "lookup" /\ loc[t].todo = <<>>
            /\ \/ req[t].op = "verify" /\ pc'[t] = "allowed"
               \/ req[t].op = "action" /\ pc'[t] = "open"
               \/ /\ req[t].op = "delegate" /\ pc'[t] = "mint"
                  /\ MayDelegate(req[t].tok, req[t].scopes)
         \/ /\ pc[t] = "queue" /\ req[t].op = "revoke" /\ pc'[t] = "report"
            /\ loc[t].cand = {}
         \/ /\ pc[t] \in {"parent", "deadline"} /\ req[t].op = "approve"
            /\ pc'[t] \in {"reject", "deadline", "lapse", "mint"}
      /\ UNCHANGED <<req, loc>>
      /\ UNCHANGED <<tokens, claims, edges, held, gate>>
    BY MovesSay DEF rows
<1> DEFINE l == pc'[t]
<1>2. /\ l # "log" /\ l # "grant" /\ l # "hand" /\ l # "resolve" /\ l # "edge"
      /\ AtStage(req[t].op, l) /\ pc[t] # "idle" /\ l \notin {"enter", "block", "close"}
      /\ l = "mint" /\ req[t].op = "delegate" => MayDelegate(req[t].tok, req[t].scopes)
    BY <1>1 DEF AtStage
<1>3. pc'[t] = l
    OBVIOUS
<1> HIDE DEF l
<1> QED BY <1>1, <1>2, <1>3, PlainOK

LEMMA EndsOK ==
    ASSUME IInv, Grown, NEW t \in Thread, Ends(t)
    PROVE  StepOK(t)
<1>1. End(t) /\ UNCHANGED <<scenario, now, rows, audit, held, block>>
    BY EndsSay
<1> QED BY <1>1, EndedOK, SameAllOK

LEMMA LookupOK ==
    ASSUME IInv, Grown, NEW t \in Thread, IsRevoked(t), ~End(t)
    PROVE  StepOK(t)
<1>1. /\ pc[t] = "lookup" /\ pc'[t] = "lookup"
      /\ loc'[t].give = loc[t].give /\ loc'[t].stale = loc[t].stale
      /\ req' = req /\ UNCHANGED <<tokens, claims, edges, held, gate>>
    BY LookupSays DEF rows
<1>2. AtStage(req[t].op, "lookup")
    BY <1>1 DEF IInv, CallsOK, CallOK
<1> QED BY <1>1, <1>2, PlainOK

LEMMA ActOK ==
    ASSUME IInv, Grown, NEW t \in Thread,
           PutAction(t) \/ EnterBlock(t) \/ LeaveBlock(t) \/ CloseAction(t)
    PROVE  StepOK(t)
<1>0. CallOK(t)
    BY DEF IInv, CallsOK
<1>1. CASE PutAction(t)
    <2>1. PICK a \in Action \ Recorded :
             /\ actions' = [actions EXCEPT ![a] = [jti |-> req[t].tok, state |-> "OPEN"]]
             /\ pc[t] = "open" /\ req[t].op = "action" /\ pc'[t] = "log"
             /\ loc'[t].row = <<"action_started", a>> /\ loc'[t].act = a
             /\ loc'[t].row \in AuditRow /\ loc'[t].then = "enter"
             /\ loc'[t].give = loc[t].give
             /\ loc'[t].stale = loc[t].stale /\ loc'[t].cand = loc[t].cand
             /\ req' = req /\ known' = known /\ ThreadsOK'
             /\ UNCHANGED <<scenario, now, tokens, claims, edges, revoked, reviews, gate,
                            audit, held, block>>
        BY <1>1, PutActionSays
    <2>2. AtStage(req[t].op, "log") /\ AtStage(req[t].op, "enter")
        BY <2>1 DEF AtStage
    <2>3. \A i \in loc'[t].give : i \in tokens /\ Linked(i)
        BY <1>0, <2>1 DEF CallOK
    <2>4. CallOK(t)'
        BY <2>1, <2>2, <2>3, WritesOK
    <2> QED BY <2>1, <2>4, SameRowsOK
<1>2. CASE EnterBlock(t) \/ LeaveBlock(t)
    <2>1. /\ req[t].op = "action" /\ loc[t].act \in Action
          /\ pc[t] # "idle" /\ pc'[t] \in {"block", "close"}
          /\ UNCHANGED <<rows, held, req, loc>>
        BY <1>2, BlockSays
    <2>2. UNCHANGED <<tokens, claims, edges, held, gate>>
        BY <2>1 DEF rows
    <2> DEFINE l == pc'[t]
    <2>3. /\ l # "log" /\ l # "grant" /\ l # "hand" /\ l # "resolve" /\ l # "edge"
          /\ AtStage(req[t].op, l) /\ l # "mint"
        BY <2>1 DEF AtStage
    <2>4. pc'[t] = l
        OBVIOUS
    <2> HIDE DEF l
    <2> QED BY <2>1, <2>2, <2>3, <2>4, PlainOK
<1>3. CASE CloseAction(t)
    <2>1. /\ pc[t] = "close" /\ req[t].op = "action"
          /\ pc'[t] = "log" /\ loc'[t].row \in AuditRow /\ loc'[t].give = {}
          /\ loc'[t].then = "idle" /\ loc'[t].stale = loc[t].stale /\ req' = req
          /\ UNCHANGED <<tokens, claims, edges, gate, held>>
        BY <1>3, CloseActionSays
    <2>2. AtStage(req[t].op, "log")
        BY <2>1 DEF AtStage
    <2>4. CallOK(t)'
        BY <2>1, <2>2, WritesOK
    <2> QED BY <2>1, <2>4, SameRowsOK
<1> QED BY <1>1, <1>2, <1>3

LEMMA RevokeOK ==
    ASSUME IInv, Grown, NEW t \in Thread,
           \/ RevokeWalk(t) \/ RevokeGather(t) \/ RevokeAlready(t) \/ RevokeReviewed(t)
    PROVE  StepOK(t)
<1>1. /\ pc[t] # "idle" /\ req[t].op = "revoke" /\ req' = req
      /\ pc'[t] \in {"walk", "gather", "already", "insert", "reviewed", "queue"}
      /\ loc'[t].give = loc[t].give /\ loc'[t].stale = loc[t].stale
      /\ UNCHANGED <<tokens, claims, edges, gate, held>>
    <2>1. CASE RevokeWalk(t)
        BY <2>1, RevokeWalkSays DEF rows
    <2>2. CASE RevokeGather(t)
        BY <2>2, RevokeGatherSays DEF rows
    <2>3. CASE RevokeAlready(t)
        BY <2>3, RevokeAlreadySays DEF rows
    <2>4. CASE RevokeReviewed(t)
        BY <2>4, RevokeReviewedSays DEF rows
    <2> QED BY <2>1, <2>2, <2>3, <2>4
<1> DEFINE l == pc'[t]
<1>2. /\ l # "log" /\ l # "grant" /\ l # "hand" /\ l # "resolve" /\ l # "edge"
      /\ AtStage(req[t].op, l) /\ l # "mint" /\ l \notin {"enter", "block", "close"}
    BY <1>1 DEF AtStage
<1>3. pc'[t] = l
    OBVIOUS
<1> HIDE DEF l
<1> QED BY <1>1, <1>2, <1>3, PlainOK

LEMMA InsertOK ==
    ASSUME IInv, Grown, NEW t \in Thread, RevokeInsert(t)
    PROVE  StepOK(t)
<1>1. /\ pc[t] = "insert" /\ req[t].op = "revoke"
      /\ \/ pc'[t] = "reviewed" /\ req' = req /\ loc' = loc
         \/ End(t)
      /\ UNCHANGED <<tokens, claims, edges, gate, held>>
    BY RevokeInsertSays
<1>2. CASE pc'[t] = "reviewed" /\ req' = req /\ loc' = loc
    <2>1. AtStage(req[t].op, "reviewed")
        BY <1>1 DEF AtStage
    <2> QED BY <1>1, <1>2, <2>1, PlainOK
<1>3. CASE End(t)
    BY <1>1, <1>3, EndedOK, SameRowsOK
<1> QED BY <1>1, <1>2, <1>3

LEMMA ReviewOK ==
    ASSUME IInv, Grown, NEW t \in Thread, PutReview(t) \/ RevokeReport(t) \/ UpdateReview(t)
    PROVE  StepOK(t)
<1>0. CallOK(t)
    BY DEF IInv, CallsOK
<1>1. CASE PutReview(t)
    <2>1. /\ pc[t] = "queue" /\ req[t].op = "revoke" /\ pc'[t] = "log"
          /\ loc'[t].row \in AuditRow /\ loc'[t].then = "queue"
          /\ loc'[t].give = loc[t].give /\ loc'[t].stale = loc[t].stale /\ req' = req
          /\ UNCHANGED <<tokens, claims, edges, gate, held>>
        BY <1>1, PutReviewSays
    <2>2. AtStage(req[t].op, "log") /\ AtStage(req[t].op, "queue")
        BY <2>1 DEF AtStage
    <2>3. \A i \in loc'[t].give : i \in tokens /\ Linked(i)
        BY <1>0, <2>1 DEF CallOK
    <2>4. CallOK(t)'
        BY <2>1, <2>2, <2>3, WritesOK
    <2> QED BY <2>1, <2>4, SameRowsOK
<1>2. CASE RevokeReport(t) \/ UpdateReview(t)
    <2>1. /\ pc[t] # "idle" /\ req[t].op \in {"revoke", "resolve_review"} /\ pc'[t] = "log"
          /\ loc'[t].row \in AuditRow /\ loc'[t].then = "idle"
          /\ loc'[t].give = {} /\ loc'[t].stale = loc[t].stale /\ req' = req
          /\ UNCHANGED <<tokens, claims, edges, gate, held>>
        BY <1>2, ReportsSay
    <2>2. AtStage(req[t].op, "log")
        BY <2>1 DEF AtStage
    <2>4. CallOK(t)'
        BY <2>1, <2>2, WritesOK
    <2> QED BY <2>1, <2>4, SameRowsOK
<1> QED BY <1>1, <1>2

LEMMA DecidedOK ==
    ASSUME IInv, Grown, NEW ap \in Approval, NEW status \in {"approved", "denied", "expired"},
           NEW child, Decide(ap, status, child), gate[ap].status # "absent",
           status = "approved" =>
               child \in tokens /\ Linked(child) /\ claims[child].via = ap,
           held' = held \/ held' = held \cup {child}
    PROVE  GateOK'
<1>1. GateOK /\ gate[ap] \in ApprovalRow /\ held \subseteq held' /\ tokens \subseteq tokens'
    BY DEF IInv, FwTypeOK, Grown
<1>2. /\ gate'[ap].status = status /\ gate'[ap].child = child
      /\ gate'[ap].parent = gate[ap].parent /\ gate'[ap].scopes = gate[ap].scopes
      /\ gate'[ap].parentExp = gate[ap].parentExp
    BY <1>1 DEF Decide, IInv, FwTypeOK, ApprovalRow
<1>3. \A b \in Approval : b # ap => gate'[b] = gate[b]
    BY DEF Decide, IInv, FwTypeOK
<1>4. \A j \in tokens : claims'[j] = claims[j]
    BY DEF Grown
<1>5. gate[ap].parent \in held /\ gate[ap].parent \in tokens
    BY <1>1 DEF GateOK, IInv, TokensOK
<1>6. /\ gate'[ap].parent \in held' /\ MayDelegate(gate[ap].parent, gate[ap].scopes)'
      /\ gate'[ap].parentExp = claims'[gate'[ap].parent].exp
    BY <1>1, <1>2, <1>4, <1>5 DEF GateOK, MayDelegate
<1>7. status = "approved" =>
        /\ gate'[ap].child \in tokens' /\ Linked(gate[ap].child)'
        /\ claims'[gate'[ap].child].via = ap
    <2>1. ASSUME status = "approved" PROVE Linked(child)'
        BY <2>1, LinkedStays
    <2> QED BY <1>1, <1>2, <1>4, <2>1 DEF Linked, Parent
<1> QED BY <1>2, <1>3, <1>6, <1>7, GateStays DEF GateOK

LEMMA DecidesOK ==
    ASSUME IInv, Grown, NEW t \in Thread, Decides(t)
    PROVE  StepOK(t)
<1>0. CallOK(t)
    BY DEF IInv, CallsOK
<1>1. PICK ap \in Approval : \E status \in {"approved", "denied", "expired"} :
           \E child \in Jti \cup {None} :
             /\ Decide(ap, status, child) /\ gate[ap].status # "absent"
             /\ \/ /\ req[t].op = "pending_approvals" /\ status = "expired" /\ child = None
                   /\ pc[t] = "sweep"
                   /\ ap \in loc[t].stale /\ loc'[t].stale = loc[t].stale \ {ap}
                   /\ loc'[t].then \in {"idle", "sweep"} /\ loc'[t].give = loc[t].give
                \/ /\ req[t].op \in {"approve", "deny"} /\ ap = req[t].appr
                   /\ loc'[t].then = "idle" /\ loc'[t].stale = loc[t].stale
                   /\ \/ status = "denied" /\ child = None /\ loc'[t].give = {}
                         /\ pc[t] \in {"reject", "refuse"}
                      \/ /\ pc[t] = "grant" /\ status = "approved" /\ child = loc[t].child
                         /\ loc'[t].give = {child}
             /\ pc'[t] = "log" /\ loc'[t].row \in AuditRow /\ loc'[t].cand = loc[t].cand
             /\ req' = req /\ known' = known /\ ThreadsOK'
             /\ UNCHANGED <<scenario, now, tokens, claims, edges, revoked, actions, reviews,
                            audit, held, block>>
    BY DecideSays DEF Decides
<1>2. PICK status \in {"approved", "denied", "expired"}, child \in Jti \cup {None} :
         /\ Decide(ap, status, child) /\ gate[ap].status # "absent"
         /\ \/ /\ req[t].op = "pending_approvals" /\ status = "expired"
               /\ pc[t] = "sweep" /\ loc'[t].stale \subseteq loc[t].stale
               /\ loc'[t].then \in {"idle", "sweep"} /\ loc'[t].give = loc[t].give
            \/ /\ req[t].op \in {"approve", "deny"} /\ ap = req[t].appr
               /\ loc'[t].then = "idle" /\ loc'[t].stale = loc[t].stale
               /\ \/ status = "denied" /\ loc'[t].give = {} /\ pc[t] \in {"reject", "refuse"}
                  \/ /\ pc[t] = "grant" /\ status = "approved" /\ child = loc[t].child
                     /\ loc'[t].give = {child}
         /\ pc'[t] = "log" /\ loc'[t].row \in AuditRow
         /\ req' = req /\ UNCHANGED <<tokens, claims, edges, held>>
    BY <1>1
<1>3. ASSUME pc[t] = "grant"
      PROVE  /\ loc[t].child \in tokens /\ Linked(loc[t].child)
             /\ claims[loc[t].child].via = req[t].appr /\ req[t].op = "approve"
    <2>1. /\ req[t].op = "approve" /\ <<req[t].tok, loc[t].child>> \in edges
          /\ loc[t].child \in tokens /\ claims[loc[t].child].via = req[t].appr
        BY <1>0, <1>3 DEF CallOK, AtStage
    <2>2. req[t].tok = Parent(loc[t].child)
        BY <2>1 DEF IInv, TokensOK
    <2> QED BY <2>1, <2>2 DEF Linked
<1>4. status = "approved" => child \in tokens /\ Linked(child) /\ claims[child].via = ap
    BY <1>2, <1>3
<1>5. GateOK'
    BY <1>2, <1>4, DecidedOK
<1>6. TokensOK'
    BY <1>2, SameTokensOK
<1>7. CallOK(t)'
    <2>1. /\ AtStage(req[t].op, "log") /\ pc[t] # "idle"
          /\ loc'[t].then = "idle" \/ AtStage(req[t].op, loc'[t].then)
          /\ loc'[t].then # "enter"
        BY <1>2 DEF AtStage
    <2>2. \A i \in loc'[t].give : i \in tokens /\ Linked(i)
        BY <1>0, <1>2, <1>3 DEF CallOK
    <2>3. loc'[t].stale \subseteq loc[t].stale
        BY <1>2
    <2> QED BY <1>2, <2>1, <2>2, <2>3, WritesOK
<1> QED BY <1>5, <1>6, <1>7 DEF StepOK

LEMMA LapseOK ==
    ASSUME IInv, Grown, NEW t \in Thread, Lapse(t)
    PROVE  StepOK(t)
<1>1. /\ req[t].appr \in Approval /\ gate[req[t].appr].status # "absent"
      /\ Decide(req[t].appr, "expired", None) /\ End(t)
      /\ UNCHANGED <<tokens, claims, edges, held>>
    BY LapseSays
<1> DEFINE ap == req[t].appr
<1>2. ap \in Approval /\ Decide(ap, "expired", None) /\ gate[ap].status # "absent"
    BY <1>1
<1> HIDE DEF ap
<1>3. GateOK'
    BY <1>1, <1>2, DecidedOK
<1> QED BY <1>1, <1>3, SameTokensOK, EndedOK DEF StepOK

LEMMA HandOK ==
    ASSUME IInv, Grown, NEW t \in Thread, CollectHand(t)
    PROVE  StepOK(t)
<1>1. PICK ap \in Approval, child \in Jti :
         /\ ap = req[t].appr /\ child = loc[t].child /\ req[t].op = "collect" /\ pc[t] = "hand"
         /\ gate[ap].status # "absent" /\ Decide(ap, "approved", child)
         /\ held' = held \cup {child} /\ End(t) /\ UNCHANGED <<tokens, claims, edges>>
    BY HandSays
<1>2. child \in tokens /\ Linked(child) /\ claims[child].via = ap
    BY <1>1 DEF IInv, CallsOK, CallOK
<1>3. GateOK'
    BY <1>1, <1>2, DecidedOK
<1>4. TokensOK'
    <2>1. {child} \in SUBSET tokens /\ \A j \in {child} : Linked(j)
        BY <1>2
    <2> QED BY <1>1, <2>1, GivenOK
<1> QED BY <1>1, <1>3, <1>4, EndedOK DEF StepOK

LEMMA LogOK ==
    ASSUME IInv, Grown, NEW t \in Thread, Log(t)
    PROVE  StepOK(t)
<1>0. CallOK(t) /\ loc[t].stale \subseteq Approval
    BY DEF IInv, CallsOK, FwTypeOK, Local
<1>1. /\ pc[t] = "log" /\ held' = held \cup loc[t].give
      /\ UNCHANGED <<scenario, now, rows, block>>
      /\ \/ loc[t].then = "idle" /\ End(t)
         \/ /\ loc[t].then # "idle" /\ pc'[t] = loc[t].then
            /\ req' = req /\ loc'[t].then = "idle"
            /\ loc'[t].give = loc[t].give /\ loc'[t].stale = loc[t].stale
            /\ loc'[t].act = loc[t].act
    BY LogSays
<1>2. \A j \in loc[t].give : j \in tokens /\ Linked(j)
    BY <1>0 DEF CallOK
<1>3. TokensOK' /\ GateOK'
    <2> DEFINE give == loc[t].give
    <2>1. /\ give \in SUBSET tokens /\ \A j \in give : Linked(j)
          /\ UNCHANGED <<tokens, claims, edges, gate>> /\ held' = held \cup give
        BY <1>1, <1>2 DEF rows
    <2> HIDE DEF give
    <2> QED BY <2>1, GivenOK, SameGateOK
<1>4. CASE loc[t].then = "idle" /\ End(t)
    BY <1>3, <1>4, EndedOK DEF StepOK
<1>5. CASE /\ loc[t].then # "idle" /\ pc'[t] = loc[t].then
           /\ req' = req /\ loc'[t].then = "idle"
           /\ loc'[t].give = loc[t].give /\ loc'[t].stale = loc[t].stale
           /\ loc'[t].act = loc[t].act
    <2>1. loc[t].then \in {"enter", "queue", "sweep"}
        BY <1>0, <1>1, <1>5 DEF CallOK
    <2>2. \A j \in loc'[t].give : j \in tokens' /\ Linked(j)'
        BY <1>2, <1>5, LinkedStays DEF Grown
    <2>3. CallOK(t)'
        BY <1>0, <1>1, <1>5, <2>1, <2>2 DEF CallOK, AtStage, Owns, After, Grown
    <2> QED BY <1>3, <2>3 DEF StepOK
<1> QED BY <1>1, <1>4, <1>5

LEMMA StepKeeps ==
    ASSUME IInv, Grown, NEW t \in Thread, Step(t)
    PROVE  StepOK(t)
BY StepCases, BeginsOK, MovesOK, EndsOK, LookupOK, MintOK, ParkOK, AddEdgeOK, ActOK, RevokeOK,
   InsertOK, ReviewOK, DecidesOK, LapseOK, HandOK, LogOK

-----------------------------------------------------------------------------
(* The invariant.                                                          *)

LEMMA IInvInit == Init => IInv
<1> SUFFICES ASSUME Init PROVE IInv
    OBVIOUS
<1>1. TokensOK /\ GateOK
    BY DEF Init, TokensOK, GateOK
<1>2. CallsOK
    BY DEF Init, CallsOK, CallOK, AtStage, NoCall, NoLocal, Owns, After
<1> QED BY <1>1, <1>2, InitType DEF IInv

LEMMA IInvStep ==
    ASSUME IInv, [Next]_vars
    PROVE  IInv'
<1>0. Grown /\ FwTypeOK
    BY StepGrows DEF IInv
<1>1. ASSUME NEW t \in Thread, Step(t) PROVE IInv'
    <2>1. FwTypeOK' /\ StepOK(t)
        BY <1>0, <1>1, StepType, StepKeeps
    <2>2. ASSUME NEW u \in Thread, u # t PROVE CallOK(u)'
        BY <1>0, <1>1, <2>2, OthersStay, CallStays
    <2> QED BY <2>1, <2>2 DEF StepOK, IInv, CallsOK
<1>2. ASSUME UNCHANGED <<scenario, rows, audit, held, block, threads>>, now' \in Nat PROVE IInv'
    <2>1. FwTypeOK'
        BY <1>0, <1>2 DEF FwTypeOK, rows, threads
    <2>2. TokensOK' /\ GateOK'
        BY <1>0, <1>2, SameTokensOK, SameGateOK DEF rows
    <2>3. \A u \in Thread : SameThread(u)
        BY <1>2 DEF threads, SameThread
    <2>4. ASSUME NEW u \in Thread PROVE CallOK(u)'
        BY <1>0, <2>3, CallStays
    <2> QED BY <2>1, <2>2, <2>4 DEF IInv, CallsOK
<1>3. CASE Tick
    <2>1. now' \in Nat
        <3>1. now \in Nat
            BY <1>0 DEF FwTypeOK
        <3>2. now' = now + 1
            BY <1>3 DEF Tick
        <3> QED BY <3>1, <3>2
    <2> QED BY <1>2, <1>3, <2>1 DEF Tick
<1>4. CASE UNCHANGED vars \/ \E t \in Thread : Refused(t)
    <2>1. now' \in Nat /\ UNCHANGED <<scenario, rows, audit, held, block, threads>>
        BY <1>0, <1>4 DEF Refused, vars, rows, threads, FwTypeOK
    <2> QED BY <1>2, <2>1
<1>5. CASE Crash
    <2>1. /\ pc' = [t \in Thread |-> "idle"] /\ req' = [t \in Thread |-> NoCall]
          /\ loc' = [t \in Thread |-> NoLocal] /\ known' = [t \in Thread |-> NoHistory]
          /\ UNCHANGED <<scenario, now, rows, audit, held, block>>
        BY <1>5 DEF Crash
    <2>2. ThreadsOK'
        BY <2>1, BlankTypes DEF ThreadsOK, Label
    <2>3. RowsOK'
        BY <1>0, <2>1, TypeParts, SameRowsType
    <2>4. FwTypeOK'
        BY <2>2, <2>3 DEF FwTypeOK, RowsOK, ThreadsOK
    <2>5. TokensOK' /\ GateOK'
        BY <1>0, <2>1, SameTokensOK, SameGateOK DEF rows
    <2>6. CallsOK'
        BY <2>1 DEF CallsOK, CallOK, AtStage, NoCall, NoLocal, Owns, After
    <2> QED BY <2>4, <2>5, <2>6 DEF IInv
<1> QED BY <1>1, <1>3, <1>4, <1>5 DEF Next, Step

LEMMA IInvHolds == Spec => []IInv
BY IInvInit, IInvStep, PTL DEF Spec

(* The variables keep their types, in every scenario.                      *)
THEOREM FwTypeCorrect == Spec => []FwTypeOK
BY IInvHolds, PTL DEF IInv

(* Every stored token stays within each token it descends from: delegate   *)
(* and approve narrow the scopes, clamp the expiry and copy max_depth.     *)
THEOREM AttenuationHolds == Spec => []Attenuation
<1>1. ASSUME IInv PROVE Attenuation
    <2> SUFFICES ASSUME NEW j \in tokens
                 PROVE  /\ Len(claims[j].chain) = claims[j].depth
                        /\ claims[j].depth <= claims[j].maxDepth
                        /\ \A a \in Lineage(j) :
                             /\ claims[j].scopes \subseteq claims[a].scopes
                             /\ claims[j].exp <= claims[a].exp
                             /\ claims[j].maxDepth = claims[a].maxDepth
        BY DEF Attenuation
    <2>1. TokenOK(j) /\ claims[j].exp \in Nat
        BY <1>1 DEF IInv, TokensOK, FwTypeOK, Claims
    <2>2. ASSUME NEW i \in 1 .. Len(claims[j].chain) PROVE HopOK(j, i)
        BY <2>1 DEF TokenOK
    <2> QED BY <2>1, <2>2 DEF TokenOK, HopOK, Lineage
<1> QED BY <1>1, IInvHolds, PTL

(* A sensitive scope reaches a delegated token through approve only, from  *)
(* a request for these scopes that its own parent made.                    *)
THEOREM GatedScopesHolds == Spec => []GatedScopes
<1>1. ASSUME IInv PROVE GatedScopes
    <2> SUFFICES ASSUME NEW j \in tokens, claims[j].depth > 0,
                        claims[j].scopes \cap Sensitive # {}
                 PROVE  /\ claims[j].via # None
                        /\ gate[claims[j].via].scopes = claims[j].scopes
                        /\ gate[claims[j].via].parent = claims[j].chain[claims[j].depth]
        BY DEF GatedScopes
    <2>1. TokenOK(j) /\ claims[j].chain \in Seq(Jti)
        BY <1>1 DEF IInv, TokensOK, FwTypeOK, Claims
    <2>2. claims[j].chain # <<>> /\ claims[j].depth = Len(claims[j].chain)
        BY <2>1 DEF TokenOK
    <2> QED BY <2>1, <2>2 DEF TokenOK, Shown, Parent
<1> QED BY <1>1, IInvHolds, PTL

-----------------------------------------------------------------------------
(* The other steps of a call that has begun: it goes on, with its request. *)

Goes(t) ==
    /\ pc[t] # "idle" /\ req' = req
    /\ pc'[t] \in {"log", "edge", "grant", "block", "close", "walk", "gather", "already",
                   "insert", "reviewed", "queue", "enter", "sweep"}
    /\ req[t].op = "revoke" \/ known' = known
    /\ known'[t].below = known[t].below /\ known'[t].acts = known[t].acts

LEMMA GoesSays ==
    ASSUME IInv, NEW t \in Thread, Step(t)
    PROVE  \/ MintRoot(t) \/ Begins(t) \/ (IsRevoked(t) /\ ~End(t)) \/ Moves(t) \/ End(t)
           \/ Goes(t)
<1>1. CASE DelegateMint(t) \/ ApproveMint(t)
    BY <1>1, ChildMinted DEF ChildMint, Goes
<1>2. CASE DelegatePark(t)
    BY <1>2, ParkSays DEF Goes
<1>3. CASE AddEdge(t)
    BY <1>3, AddEdgeSays DEF Goes
<1>4. CASE PutAction(t)
    BY <1>4, PutActionSays DEF Goes
<1>5. CASE EnterBlock(t) \/ LeaveBlock(t)
    BY <1>5, BlockSays DEF Goes
<1>6. CASE CloseAction(t)
    BY <1>6, CloseActionSays DEF Goes
<1>7. CASE RevokeWalk(t) \/ RevokeGather(t)
    BY <1>7, RevokeWalkSays, RevokeGatherSays DEF Goes
<1>8. CASE RevokeAlready(t) \/ RevokeReviewed(t)
    BY <1>8, RevokeAlreadySays, RevokeReviewedSays DEF Goes
<1>9. CASE RevokeInsert(t)
    BY <1>9, RevokeInsertSays DEF Goes
<1>10. CASE PutReview(t)
    BY <1>10, PutReviewSays DEF Goes
<1>11. CASE RevokeReport(t) \/ UpdateReview(t)
    BY <1>11, ReportsSay DEF Goes
<1>12. CASE Decides(t)
    <2>1. pc[t] # "idle" /\ pc'[t] = "log" /\ req' = req /\ known' = known
        BY <1>12, DecideSays DEF Decides
    <2> QED BY <2>1 DEF Goes
<1>13. CASE Lapse(t) \/ CollectHand(t) \/ Ends(t)
    BY <1>13, LapseSays, HandSays, EndsSay
<1>14. CASE Log(t)
    BY <1>14, LogSays DEF Goes, IInv, CallsOK, CallOK
<1> QED BY <1>1, <1>2, <1>3, <1>4, <1>5, <1>6, <1>7, <1>8, <1>9, <1>10, <1>11, <1>12, <1>13,
        <1>14, StepCases

-----------------------------------------------------------------------------
(* What was revoked when the call began is refused.                        *)

(* What was revoked then is still to be looked up, or is not an ancestor.  *)
Asked(t) ==
    /\ req[t].op \in {"delegate", "verify", "action"} => known[t].revoked \subseteq revoked
    /\ pc[t] = "lookup" => \A j \in Lineage(req[t].tok) \cap known[t].revoked :
         \E i \in 1 .. Len(loc[t].todo) : loc[t].todo[i] = j
    /\ pc[t] \in {"allowed", "open"} => Lineage(req[t].tok) \cap known[t].revoked = {}

LiveInv == \A t \in Thread : Asked(t)

LEMMA LookupsLineage ==
    ASSUME FwTypeOK, NEW j \in Jti, NEW a \in Lineage(j)
    PROVE  \E i \in 1 .. Len(Lookups(j)) : Lookups(j)[i] = a
<1> DEFINE chain == claims[j].chain
<1>1. chain \in Seq(Jti)
    BY DEF FwTypeOK, Claims
<1>2. Lookups(j) = <<j>> \o chain /\ Lineage(j) = {j} \cup {chain[i] : i \in 1 .. Len(chain)}
    BY DEF Lookups, Lineage
<1> HIDE DEF chain
<1>3. /\ Len(<<j>> \o chain) = Len(chain) + 1 /\ (<<j>> \o chain)[1] = j
      /\ \A i \in 1 .. Len(chain) : (<<j>> \o chain)[i + 1] = chain[i]
    BY <1>1
<1>4. CASE a = j
    BY <1>1, <1>2, <1>3, <1>4
<1>5. CASE a # j
    <2>1. PICK i \in 1 .. Len(chain) : chain[i] = a
        BY <1>2, <1>5
    <2>2. i + 1 \in 1 .. Len(chain) + 1
        BY <1>1
    <2> QED BY <1>2, <1>3, <2>1, <2>2
<1> QED BY <1>4, <1>5

LEMMA InitIdle ==
    ASSUME Init, NEW t \in Thread
    PROVE  /\ pc[t] = "idle" /\ req[t].op = "none" /\ loc[t] = NoLocal
           /\ known[t] = NoHistory
BY DEF Init, NoCall

LEMMA AskedStays ==
    ASSUME IInv, Grown, NEW u \in Thread, SameThread(u), Asked(u)
    PROVE  Asked(u)'
<1>1. CallOK(u) /\ held \subseteq tokens
    BY DEF IInv, CallsOK, TokensOK
<1>2. /\ pc'[u] = pc[u] /\ req'[u] = req[u] /\ loc'[u] = loc[u] /\ known'[u] = known[u]
      /\ revoked \subseteq revoked'
    BY DEF SameThread, Grown
<1>3. pc[u] \in {"lookup", "allowed", "open"} => claims'[req[u].tok] = claims[req[u].tok]
    BY <1>1 DEF CallOK, AtStage, Grown
<1> QED BY <1>2, <1>3 DEF Asked, Lineage

LEMMA AskedStep ==
    ASSUME IInv, Grown, NEW t \in Thread, Step(t), Asked(t)
    PROVE  Asked(t)'
<1>0. CallOK(t) /\ held \subseteq tokens /\ FwTypeOK /\ revoked \subseteq revoked'
    BY DEF IInv, CallsOK, TokensOK, Grown
<1>1. CASE MintRoot(t)
    <2>1. pc'[t] = "log" /\ req'[t].op = "mint_root"
        BY <1>0, <1>1, MintRootSays
    <2> QED BY <2>1 DEF Asked
<1>2. CASE Begins(t)
    <2>1. CASE Delegate(t) \/ Verify(t)
        <3>1. PICK j \in held :
                /\ pc'[t] = "lookup" /\ req'[t].tok = j /\ loc'[t].todo = Lookups(j)
                /\ known'[t] = [NoHistory EXCEPT !.revoked = revoked]
                /\ UNCHANGED <<scenario, now, rows, audit, held, block>>
            BY <1>0, <2>1, PresentSays
        <3>2. known'[t].revoked = revoked /\ claims' = claims /\ j \in Jti
            BY <1>0, <3>1 DEF NoHistory, rows, FwTypeOK
        <3>3. \A a \in Lineage(j) : \E i \in 1 .. Len(Lookups(j)) : Lookups(j)[i] = a
            BY <1>0, <3>2, LookupsLineage
        <3>4. Lineage(req[t].tok)' = Lineage(j)
            BY <3>1, <3>2 DEF Lineage
        <3> QED BY <1>0, <3>1, <3>2, <3>3, <3>4 DEF Asked, Lineage
    <2>2. CASE Revoke(t)
        BY <1>0, <2>2, RevokeSays DEF Asked
    <2>3. CASE ResolveReview(t)
        BY <1>0, <2>3, ResolveReviewSays DEF Asked
    <2>4. CASE Approve(t) \/ Deny(t)
        BY <1>0, <2>4, DecisionSays DEF Asked
    <2>5. CASE Collect(t)
        BY <1>0, <2>5, CollectSays DEF Asked
    <2>6. CASE PendingApprovals(t)
        BY <1>0, <2>6, PendingApprovalsSays DEF Asked
    <2> QED BY <1>2, <2>1, <2>2, <2>3, <2>4, <2>5, <2>6 DEF Begins
<1>3. CASE IsRevoked(t) /\ ~End(t)
    <2> DEFINE todo == loc[t].todo
    <2>1. /\ pc[t] = "lookup" /\ pc'[t] = "lookup" /\ todo # <<>>
          /\ Head(todo) \notin revoked /\ loc'[t].todo = Tail(todo)
          /\ req' = req /\ known' = known
          /\ UNCHANGED <<scenario, now, rows, audit, held, block>>
        BY <1>3, LookupSays
    <2>2. req[t].op \in {"delegate", "verify", "action"} /\ claims' = claims
          /\ known[t].revoked \subseteq revoked
        BY <1>0, <2>1 DEF CallOK, AtStage, Asked, rows
    <2>3. todo \in Seq(Jti)
        BY <1>0 DEF FwTypeOK, Local
    <2>4. ASSUME NEW j \in Lineage(req[t].tok) \cap known[t].revoked
          PROVE  \E i \in 1 .. Len(Tail(todo)) : Tail(todo)[i] = j
        <3>1. PICK i \in 1 .. Len(todo) : todo[i] = j
            BY <2>1 DEF Asked
        <3>2. j # Head(todo)
            BY <2>1, <2>2
        <3> HIDE DEF todo
        <3>3. i # 1
            BY <2>1, <2>3, <3>1, <3>2
        <3>4. i - 1 \in 1 .. Len(Tail(todo)) /\ Tail(todo)[i - 1] = todo[i]
            BY <2>1, <2>3, <3>1, <3>3
        <3> QED BY <3>1, <3>4
    <2>5. \A j \in Lineage(req[t].tok)' \cap known'[t].revoked :
            \E i \in 1 .. Len(loc'[t].todo) : loc'[t].todo[i] = j
        BY <2>1, <2>2, <2>4 DEF Lineage
    <2> QED BY <1>0, <2>1, <2>2, <2>5 DEF Asked
<1>4. CASE Moves(t)
    <2>1. /\ pc[t] = "lookup" => loc[t].todo = <<>>
          /\ pc'[t] \in {"allowed", "open"} => pc[t] = "lookup"
          /\ pc'[t] # "lookup"
          /\ UNCHANGED <<req, loc, known>> /\ UNCHANGED <<scenario, now, rows, audit, held, block>>
        BY <1>4, MovesSay
    <2>2. claims' = claims /\ Len(<<>>) = 0 /\ 1 .. 0 = {}
        BY <2>1 DEF rows
    <2>3. pc[t] = "lookup" => Lineage(req[t].tok) \cap known[t].revoked = {}
        BY <2>1, <2>2 DEF Asked
    <2> QED BY <1>0, <2>1, <2>2, <2>3 DEF Asked, Lineage
<1>5. CASE End(t)
    <2>1. pc'[t] = "idle" /\ req'[t].op = "none"
        BY <1>0, <1>5, EndSays DEF NoCall
    <2> QED BY <2>1 DEF Asked
<1>6. CASE Goes(t)
    BY <1>0, <1>6 DEF Goes, Asked
<1> QED BY <1>1, <1>2, <1>3, <1>4, <1>5, <1>6, GoesSays

LEMMA LiveStep ==
    ASSUME IInv, LiveInv, [Next]_vars
    PROVE  LiveInv'
<1>0. Grown /\ FwTypeOK
    BY StepGrows DEF IInv
<1>1. ASSUME NEW t \in Thread, Step(t) PROVE LiveInv'
    <2>1. Asked(t)'
        BY <1>0, <1>1, AskedStep DEF LiveInv
    <2>2. ASSUME NEW u \in Thread, u # t PROVE Asked(u)'
        BY <1>0, <1>1, <2>2, OthersStay, AskedStays DEF LiveInv
    <2> QED BY <2>1, <2>2 DEF LiveInv
<1>2. CASE UNCHANGED threads
    <2>1. ASSUME NEW u \in Thread PROVE Asked(u)'
        BY <1>0, <1>2, AskedStays DEF LiveInv, threads, SameThread
    <2> QED BY <2>1 DEF LiveInv
<1>3. CASE Crash
    BY <1>3 DEF Crash, LiveInv, Asked, NoCall
<1> QED BY <1>1, <1>2, <1>3 DEF Next, Step, Tick, Refused, vars, threads

(* verify and action ask is_revoked about every ancestor after they began, *)
(* and a revocation is never undone: what was revoked then is refused.     *)
THEOREM AdmittedIsLiveHolds == Spec => []AdmittedIsLive
<1>1. Init => LiveInv
    BY InitIdle DEF LiveInv, Asked
<1>2. LiveInv => AdmittedIsLive
    BY DEF LiveInv, Asked, AdmittedIsLive
<1> QED BY <1>1, <1>2, LiveStep, IInvHolds, PTL DEF Spec

-----------------------------------------------------------------------------
(* The record of an action.                                                *)

(* Between put_action and close_action, the row of the call's action.      *)
Recording(t) ==
    LET a == loc[t].act IN
    /\ Owns(t) => actions[a] = [jti |-> req[t].tok, state |-> "OPEN"]
    /\ After(t, "enter") => loc[t].row = <<"action_started", a>>
    /\ pc[t] \in {"enter", "block"} => <<"action_started", a>> \in audit
    /\ pc[t] = "close" => block[a] \in {"returned", "raised"}

RecordInv ==
    /\ \A t \in Thread : Recording(t)
    /\ \A t, u \in Thread : Owns(t) /\ Owns(u) /\ loc[t].act = loc[u].act => t = u
    /\ CompletionIsTrue

(* The steps that are none of action()'s own.                              *)
LEMMA OffRecord ==
    ASSUME IInv, NEW t \in Thread, Step(t)
    PROVE  \/ PutAction(t) \/ EnterBlock(t) \/ LeaveBlock(t) \/ CloseAction(t) \/ Log(t)
           \/ UNCHANGED <<actions, block>> /\ ~Owns(t)'
<1>0. FwTypeOK
    BY DEF IInv
<1>1. CASE MintRoot(t)
    <2>1. pc'[t] = "log" /\ loc'[t].then = "idle"
        BY <1>0, <1>1, MintRootSays
    <2> QED BY <1>1, <2>1 DEF Owns, After, MintRoot
<1>2. CASE Begins(t)
    <2>1. pc'[t] \notin {"log", "enter", "block", "close"}
        BY <1>0, <1>2, BeginsSay
    <2> QED BY <1>0, <1>2, <2>1, BeginsSay DEF Owns, After, rows
<1>3. CASE IsRevoked(t) /\ ~End(t)
    BY <1>3, LookupSays DEF Owns, After, rows
<1>4. CASE Moves(t)
    BY <1>4, MovesSay DEF Owns, After, rows
<1>5. CASE Ends(t)
    BY <1>0, <1>5, EndsSay, EndSays DEF Owns, After, rows
<1>6. CASE DelegateMint(t) \/ ApproveMint(t)
    BY <1>6, ChildMinted DEF ChildMint, Owns, After
<1>7. CASE DelegatePark(t)
    <2>1. pc'[t] = "log" /\ loc'[t].then = "idle"
        BY <1>7, ParkSays
    <2> QED BY <1>7, <2>1 DEF Owns, After, DelegatePark
<1>8. CASE AddEdge(t)
    BY <1>8, AddEdgeSays DEF Owns, After
<1>9. CASE RevokeWalk(t) \/ RevokeGather(t)
    BY <1>9, RevokeWalkSays, RevokeGatherSays DEF Owns, After, rows
<1>10. CASE RevokeAlready(t) \/ RevokeReviewed(t)
    BY <1>10, RevokeAlreadySays, RevokeReviewedSays DEF Owns, After, rows
<1>11. CASE RevokeInsert(t)
    BY <1>0, <1>11, RevokeInsertSays, EndSays DEF Owns, After
<1>12. CASE PutReview(t)
    BY <1>12, PutReviewSays DEF Owns, After
<1>13. CASE RevokeReport(t) \/ UpdateReview(t)
    BY <1>13, ReportsSay DEF Owns, After
<1>14. CASE Decides(t)
    <2>1. pc'[t] = "log" /\ loc'[t].then \in {"idle", "sweep"} /\ UNCHANGED <<actions, block>>
        BY <1>14, DecideSays DEF Decides
    <2> QED BY <2>1 DEF Owns, After
<1>15. CASE Lapse(t) \/ CollectHand(t)
    BY <1>0, <1>15, LapseSays, HandSays, EndSays DEF Owns, After
<1> QED BY <1>1, <1>2, <1>3, <1>4, <1>5, <1>6, <1>7, <1>8, <1>9, <1>10, <1>11, <1>12, <1>13,
        <1>14, <1>15, StepCases

(* Another thread keeps its action while its row and its block stay.       *)
LEMMA RecordingStays ==
    ASSUME IInv, Grown, NEW u \in Thread, SameThread(u), Recording(u),
           Owns(u) => /\ actions'[loc[u].act] = actions[loc[u].act]
                      /\ block'[loc[u].act] = block[loc[u].act]
    PROVE  Recording(u)' /\ (Owns(u)' => Owns(u) /\ loc'[u].act = loc[u].act)
<1>1. pc'[u] = pc[u] /\ req'[u] = req[u] /\ loc'[u] = loc[u] /\ audit \subseteq audit'
    BY DEF SameThread, Grown
<1>2. Owns(u)' = Owns(u) /\ After(u, "enter")' = After(u, "enter")
    BY <1>1 DEF Owns, After
<1>3. pc[u] \in {"enter", "block", "close"} => Owns(u)
    BY DEF Owns
<1> QED BY <1>1, <1>2, <1>3 DEF Recording

(* One step of action(): it owns the action that it declared, alone.       *)
LEMMA RecordStep ==
    ASSUME IInv, Grown, RecordInv, NEW t \in Thread, Step(t),
           \A u \in Thread \ {t} : SameThread(u)
    PROVE  RecordInv'
<1>0. /\ Recording(t) /\ CallOK(t) /\ CompletionIsTrue /\ DOMAIN actions = Action
      /\ DOMAIN block = Action /\ \A a \in Action : actions[a] \in ActionRow
      /\ \A u \in Thread : Owns(u) => loc[u].act \in Action
    BY DEF RecordInv, IInv, CallsOK, CallOK, FwTypeOK
<1>1. ASSUME Recording(t)', CompletionIsTrue',
             \A u \in Thread \ {t} : Owns(u) =>
                /\ actions'[loc[u].act] = actions[loc[u].act]
                /\ block'[loc[u].act] = block[loc[u].act],
             \A u \in Thread \ {t} : Owns(u) /\ Owns(t)' => loc'[t].act # loc[u].act
      PROVE  RecordInv'
    <2>1. ASSUME NEW u \in Thread \ {t}
          PROVE  Recording(u)' /\ (Owns(u)' => Owns(u) /\ loc'[u].act = loc[u].act)
        BY <1>1, <2>1, RecordingStays DEF RecordInv
    <2>2. \A u \in Thread : Recording(u)'
        BY <1>1, <2>1
    <2>3. ASSUME NEW u \in Thread, NEW v \in Thread, Owns(u)', Owns(v)',
                 loc'[u].act = loc'[v].act
          PROVE  u = v
        <3>1. CASE u # t /\ v # t
            BY <2>1, <2>3, <3>1 DEF RecordInv
        <3>2. CASE u = t \/ v = t
            BY <1>1, <2>1, <2>3, <3>2
        <3> QED BY <3>1, <3>2
    <2> QED BY <1>1, <2>2, <2>3 DEF RecordInv
<1>2. CASE PutAction(t)
    <2>1. PICK a \in Action \ Recorded :
             /\ actions' = [actions EXCEPT ![a] = [jti |-> req[t].tok, state |-> "OPEN"]]
             /\ pc[t] = "open" /\ req[t].op = "action" /\ pc'[t] = "log"
             /\ loc'[t].row = <<"action_started", a>> /\ loc'[t].act = a
             /\ loc'[t].row \in AuditRow /\ loc'[t].then = "enter"
             /\ loc'[t].give = loc[t].give
             /\ loc'[t].stale = loc[t].stale /\ loc'[t].cand = loc[t].cand
             /\ req' = req /\ known' = known /\ ThreadsOK'
             /\ UNCHANGED <<scenario, now, tokens, claims, edges, revoked, reviews, gate,
                            audit, held, block>>
        BY <1>2, PutActionSays
    <2>2. /\ actions'[a] = [jti |-> req[t].tok, state |-> "OPEN"]
          /\ \A b \in Action : b # a => actions'[b] = actions[b]
          /\ actions[a].state = "absent"
        BY <1>0, <2>1 DEF Recorded
    <2>3. Recording(t)'
        BY <2>1, <2>2 DEF Recording, Owns, After
    <2>4. ASSUME NEW u \in Thread \ {t}, Owns(u) PROVE loc[u].act # a
        <3>0. Recording(u)
            BY DEF RecordInv
        <3>1. actions[loc[u].act].state = "OPEN"
            BY <2>4, <3>0 DEF Recording
        <3> QED BY <2>2, <3>1
    <2>5. CompletionIsTrue'
        BY <1>0, <2>1, <2>2 DEF CompletionIsTrue
    <2> QED BY <1>0, <1>1, <2>1, <2>2, <2>3, <2>4, <2>5
<1>3. CASE EnterBlock(t) \/ LeaveBlock(t)
    <2> DEFINE a == loc[t].act
    <2>1. /\ a \in Action
          /\ \/ /\ pc[t] = "enter" /\ pc'[t] = "block"
                /\ block' = [block EXCEPT ![a] = "running"]
             \/ /\ pc[t] = "block" /\ pc'[t] = "close"
                /\ \E outcome \in {"returned", "raised"} : block' = [block EXCEPT ![a] = outcome]
          /\ UNCHANGED <<scenario, now, rows, audit, held, req, loc, known>>
        BY <1>3, BlockSays
    <2>2. Owns(t) /\ actions[a].state = "OPEN" /\ actions' = actions
        BY <1>0, <2>1 DEF Owns, Recording, rows
    <2>3. \A b \in Action : b # a => block'[b] = block[b]
        BY <1>0, <2>1
    <2>4. Recording(t)'
        BY <1>0, <2>1, <2>2 DEF Recording, Owns, After
    <2>5. ASSUME NEW u \in Thread \ {t}, Owns(u) PROVE loc[u].act # a
        BY <2>2, <2>5 DEF RecordInv
    <2>6. CompletionIsTrue'
        BY <1>0, <2>2, <2>3 DEF CompletionIsTrue
    <2> QED BY <1>0, <1>1, <2>1, <2>2, <2>3, <2>4, <2>5, <2>6
<1>4. CASE CloseAction(t)
    <2>1. PICK a \in Action :
          /\ a = loc[t].act /\ pc[t] = "close" /\ pc'[t] = "log" /\ loc'[t].then = "idle"
          /\ actions' = [actions EXCEPT ![a].state = CompletionState(a)]
          /\ block' = block
        BY <1>4, CloseActionSays
    <2>2. Owns(t) /\ block[a] \in {"returned", "raised"} /\ ~Owns(t)'
        BY <1>0, <2>1 DEF Owns, After, Recording
    <2>3. /\ actions'[a].state = CompletionState(a)
          /\ \A b \in Action : b # a => actions'[b] = actions[b]
        BY <1>0, <2>1 DEF ActionRow
    <2>4. Recording(t)'
        BY <2>1, <2>2 DEF Recording, Owns, After
    <2>5. ASSUME NEW u \in Thread \ {t}, Owns(u) PROVE loc[u].act # a
        BY <2>1, <2>2, <2>5 DEF RecordInv
    <2>6. CompletionIsTrue'
        BY <1>0, <2>1, <2>2, <2>3 DEF CompletionIsTrue, CompletionState
    <2> QED BY <1>0, <1>1, <2>1, <2>2, <2>3, <2>4, <2>5, <2>6
<1>5. CASE Log(t)
    <2>1. /\ pc[t] = "log" /\ audit' = audit \cup {loc[t].row}
          /\ UNCHANGED <<scenario, now, rows, block>>
          /\ \/ loc[t].then = "idle" /\ End(t)
             \/ /\ pc'[t] = loc[t].then /\ loc[t].then \in {"enter", "queue", "sweep"}
                /\ req' = req /\ loc'[t].act = loc[t].act
        BY <1>0, <1>5, LogSays DEF CallOK
    <2>2. actions' = actions /\ block' = block
        BY <2>1 DEF rows
    <2>3. CompletionIsTrue'
        BY <1>0, <2>2 DEF CompletionIsTrue
    <2>4. CASE loc[t].then = "idle" /\ End(t)
        <3>1. pc'[t] = "idle"
            BY <2>4, EndSays DEF IInv
        <3>2. Recording(t)' /\ ~Owns(t)'
            BY <3>1 DEF Recording, Owns, After
        <3> QED BY <1>1, <2>2, <2>3, <3>2
    <2>5. CASE /\ pc'[t] = loc[t].then /\ loc[t].then \in {"enter", "queue", "sweep"}
               /\ req' = req /\ loc'[t].act = loc[t].act
        <3>1. Owns(t)' => Owns(t) /\ loc[t].then = "enter"
            BY <2>1, <2>5 DEF Owns, After
        <3>2. Recording(t)'
            BY <1>0, <2>1, <2>2, <2>5, <3>1 DEF Recording, Owns, After
        <3>3. \A u \in Thread \ {t} : Owns(u) /\ Owns(t)' => loc'[t].act # loc[u].act
            BY <2>5, <3>1 DEF RecordInv
        <3> QED BY <1>1, <2>2, <2>3, <3>2, <3>3
    <2> QED BY <2>1, <2>4, <2>5
<1>6. CASE UNCHANGED <<actions, block>> /\ ~Owns(t)'
    <2>1. Recording(t)'
        BY <1>6 DEF Recording, Owns
    <2>2. CompletionIsTrue'
        BY <1>0, <1>6 DEF CompletionIsTrue
    <2> QED BY <1>1, <1>6, <2>1, <2>2
<1> QED BY <1>2, <1>3, <1>4, <1>5, <1>6, OffRecord

LEMMA RecordNext ==
    ASSUME IInv, RecordInv, [Next]_vars
    PROVE  RecordInv'
<1>0. Grown /\ FwTypeOK
    BY StepGrows DEF IInv
<1>1. ASSUME NEW t \in Thread, Step(t) PROVE RecordInv'
    <2>1. \A u \in Thread \ {t} : SameThread(u)
        BY <1>0, <1>1, OthersStay
    <2> QED BY <1>0, <1>1, <2>1, RecordStep
<1>2. CASE UNCHANGED threads /\ UNCHANGED rows /\ UNCHANGED block
    <2>1. ASSUME NEW u \in Thread
          PROVE  Recording(u)' /\ (Owns(u)' => Owns(u) /\ loc'[u].act = loc[u].act)
        BY <1>0, <1>2, RecordingStays DEF RecordInv, threads, rows, SameThread
    <2> QED BY <1>2, <2>1 DEF RecordInv, CompletionIsTrue, rows
<1>3. CASE Crash
    <2>1. UNCHANGED <<actions, block>> /\ \A u \in Thread : pc'[u] = "idle"
        BY <1>3 DEF Crash, rows
    <2> QED BY <2>1 DEF RecordInv, Recording, Owns, After, CompletionIsTrue
<1> QED BY <1>1, <1>2, <1>3 DEF Next, Step, Tick, Refused, vars, threads, rows

LEMMA RecordInit == Init => RecordInv
<1> SUFFICES ASSUME Init PROVE RecordInv
    OBVIOUS
<1>1. \A t \in Thread : Recording(t) /\ ~Owns(t)
    BY InitIdle DEF Recording, Owns, After
<1>2. CompletionIsTrue
    BY DEF Init, CompletionIsTrue
<1> QED BY <1>1, <1>2 DEF RecordInv

(* The guarded code of an action runs on record only, and what is recorded *)
(* of how it ended is what happened, wherever a thread or the process dies.*)
THEOREM RecordIsTrueHolds == Spec => []RecordIsTrue
<1>1. IInv /\ RecordInv => RecordIsTrue
    BY DEF RecordInv, Recording, Owns, RecordIsTrue, RunningIsOnRecord
<1> QED BY <1>1, RecordInit, RecordNext, IInvHolds, PTL DEF Spec

-----------------------------------------------------------------------------
(* A revoke reaches every descendant that was held.                        *)

(* The walk is on its way to d: a token of the chain of d is in the level  *)
(* that is read next, and no later one was seen.                           *)
Ahead(t, d) ==
    \E m \in 1 .. Len(claims[d].chain) :
        /\ claims[d].chain[m] \in loc[t].level
        /\ \A n \in m + 1 .. Len(claims[d].chain) : claims[d].chain[n] \notin loc[t].targets

(* The revoke queues its candidates, one by one.                           *)
Queueing(t) == pc[t] = "queue" \/ After(t, "queue")

Walked(t) ==
    /\ known[t].below \subseteq held
    /\ pc[t] = "walk" => /\ loc[t].level \subseteq loc[t].targets
                         /\ \A d \in known[t].below \ loc[t].targets : Ahead(t, d)
    /\ pc[t] \in {"gather", "already"} => known[t].below \subseteq loc[t].targets
    /\ pc[t] = "insert" => known[t].below \subseteq loc[t].level \cup revoked
    /\ pc[t] \in {"reviewed", "report"} \/ Queueing(t) => known[t].below \subseteq revoked

WalkInv == \A t \in Thread : Walked(t)

LEMMA OthersWalked ==
    ASSUME IInv, Grown, NEW u \in Thread, SameThread(u), Walked(u)
    PROVE  Walked(u)'
<1>1. /\ pc'[u] = pc[u] /\ loc'[u] = loc[u] /\ known'[u] = known[u]
      /\ revoked \subseteq revoked' /\ held \subseteq held'
    BY DEF SameThread, Grown
<1>2. \A d \in held : claims'[d] = claims[d]
    BY DEF Grown, IInv, TokensOK
<1>3. ASSUME NEW d \in known[u].below, Ahead(u, d) PROVE Ahead(u, d)'
    <2>1. claims'[d] = claims[d]
        BY <1>2 DEF Walked
    <2> QED BY <1>1, <1>3, <2>1 DEF Ahead
<1>4. Queueing(u)' = Queueing(u)
    BY <1>1 DEF Queueing, After
<1> QED BY <1>1, <1>3, <1>4 DEF Walked

LEMMA NotRevoking ==
    ASSUME NEW t \in Thread, known'[t].below \subseteq held',
           pc'[t] \notin {"walk", "gather", "already", "insert", "reviewed", "report", "queue"},
           pc'[t] = "log" => loc'[t].then # "queue"
    PROVE  Walked(t)'
BY DEF Walked, Queueing, After

(* A chain names a token once.                                             *)
LEMMA ChainIsSimple ==
    ASSUME IInv, NEW d \in tokens, NEW m \in 1 .. Len(claims[d].chain),
           NEW n \in 1 .. Len(claims[d].chain), claims[d].chain[m] = claims[d].chain[n]
    PROVE  m = n
<1> DEFINE chain == claims[d].chain
<1>1. HopOK(d, m) /\ HopOK(d, n) /\ chain \in Seq(Jti)
    BY DEF IInv, FwTypeOK, TokensOK, TokenOK, Claims
<1>2. SubSeq(chain, 1, m - 1) = SubSeq(chain, 1, n - 1)
    BY <1>1 DEF HopOK
<1>3. Len(SubSeq(chain, 1, m - 1)) = m - 1 /\ Len(SubSeq(chain, 1, n - 1)) = n - 1
    <2>1. chain \in Seq(Jti) /\ m \in 1 .. Len(chain) /\ n \in 1 .. Len(chain)
        BY <1>1
    <2> HIDE DEF chain
    <2> QED BY <2>1
<1> QED BY <1>2, <1>3

(* The parent of a hop is the hop before it, and there is an edge.         *)
LEMMA HopHasEdge ==
    ASSUME IInv, NEW d \in held, NEW m \in 1 .. Len(claims[d].chain)
    PROVE  LET chain == claims[d].chain
               next  == IF m = Len(chain) THEN d ELSE chain[m + 1]
           IN  next \in held /\ Parent(next) = chain[m] /\ <<chain[m], next>> \in edges
<1> DEFINE chain == claims[d].chain
           next  == IF m = Len(chain) THEN d ELSE chain[m + 1]
<1>0. d \in tokens /\ claims[d] \in Claims /\ TokenOK(d)
    BY DEF IInv, FwTypeOK, TokensOK
<1>1. TokenOK(d) /\ chain \in Seq(Jti) /\ Len(chain) \in Nat
    BY <1>0 DEF Claims
<1>2. next \in held /\ claims[next].chain = SubSeq(chain, 1, m)
    <2>1. CASE m = Len(chain)
        <3>1. SubSeq(chain, 1, m) = chain
            <4>1. chain \in Seq(Jti)
                BY <1>1
            <4> HIDE DEF chain
            <4> QED BY <2>1, <4>1
        <3> QED BY <2>1, <3>1
    <2>2. CASE m # Len(chain)
        <3>1. m + 1 \in 1 .. Len(chain) /\ (m + 1) - 1 = m
            BY <1>1, <2>2
        <3>2. HopOK(d, m + 1)
            BY <1>1, <3>1 DEF TokenOK
        <3> QED BY <2>2, <3>1, <3>2 DEF HopOK
    <2> QED BY <2>1, <2>2
<1>3. /\ Len(SubSeq(chain, 1, m)) = m /\ SubSeq(chain, 1, m)[m] = chain[m]
      /\ SubSeq(chain, 1, m) # <<>>
    <2>1. chain \in Seq(Jti) /\ m \in 1 .. Len(chain)
        BY <1>1
    <2> HIDE DEF chain
    <2> QED BY <2>1
<1>4. Parent(next) = chain[m] /\ claims[next].chain # <<>>
    BY <1>2, <1>3 DEF Parent
<1>5. Linked(next)
    BY <1>2 DEF IInv, TokensOK
<1> QED BY <1>2, <1>4, <1>5 DEF Linked

LEMMA StartsWalk ==
    ASSUME IInv, NEW t \in Thread, Revoke(t)
    PROVE  Walked(t)'
<1>1. PICK j \in tokens :
         /\ pc[t] = "idle" /\ pc'[t] = "walk" /\ req'[t].op = "revoke"
         /\ req'[t].tok = j /\ "revoke" \in scenario.calls[t]
         /\ loc'[t].targets = {j} /\ loc'[t].level = {j} /\ FreshLocal(loc'[t])
         /\ known'[t].below = Descendants(j) \cap held
         /\ known'[t].acts = {a \in Recorded : actions[a].jti \in Descendants(j)}
         /\ ThreadsOK' /\ UNCHANGED <<scenario, now, rows, audit, held, block>>
    BY RevokeSays DEF IInv
<1>0. claims' = claims
    BY <1>1 DEF rows
<1>2. ASSUME NEW d \in Descendants(j), d # j PROVE Ahead(t, d)'
    <2>1. PICK m \in 1 .. Len(claims[d].chain) : j = claims[d].chain[m]
        BY <1>2 DEF Descendants, Lineage
    <2>0. d \in tokens /\ claims[d] \in Claims
        BY DEF Descendants, IInv, FwTypeOK
    <2>2. d \in tokens /\ Len(claims[d].chain) \in Nat
        BY <2>0 DEF Claims
    <2>3. ASSUME NEW n \in m + 1 .. Len(claims[d].chain) PROVE claims[d].chain[n] # j
        BY <2>1, <2>2, ChainIsSimple
    <2> QED BY <1>0, <1>1, <2>1, <2>3 DEF Ahead
<1> QED BY <1>1, <1>2 DEF Walked, Queueing, After

(* One level further, nothing was missed: the next hop of a chain is in    *)
(* the new level, and no later one is.                                     *)
LEMMA LevelWalked ==
    ASSUME IInv, NEW t \in Thread, Walked(t), RevokeWalk(t)
    PROVE  Walked(t)'
<1> DEFINE targets == loc[t].targets
           level   == loc[t].level
           below   == {c \in Jti : \E p \in level : <<p, c>> \in edges} \ targets
<1>1. /\ loc'[t].targets = targets \cup below /\ loc'[t].level = below /\ pc[t] = "walk"
      /\ pc'[t] = IF below = {} THEN "gather" ELSE "walk"
      /\ UNCHANGED <<claims, held, known>>
    BY RevokeWalkSays DEF rows
<1>2. /\ level \subseteq targets /\ known[t].below \subseteq held
      /\ \A d \in known[t].below \ targets : Ahead(t, d)
    BY <1>1 DEF Walked
<1>3. \A p \in level, c \in Jti : <<p, c>> \in edges => c \in below \cup targets
    OBVIOUS
<1>4. \A c \in below : Parent(c) \in level
    <2>1. ASSUME NEW c \in below PROVE Parent(c) \in level
        <3>1. PICK p \in level : <<p, c>> \in edges
            BY <2>1
        <3>2. p = Parent(c)
            BY <3>1 DEF IInv, TokensOK
        <3> QED BY <3>1, <3>2
    <2> QED BY <2>1
<1> HIDE DEF below
<1>5. ASSUME NEW d \in known[t].below, d \notin targets \cup below
      PROVE  below # {} /\ Ahead(t, d)'
    <2> DEFINE chain == claims[d].chain
    <2>1. PICK m \in 1 .. Len(chain) :
             /\ chain[m] \in level
             /\ \A n \in m + 1 .. Len(chain) : chain[n] \notin targets
        BY <1>2, <1>5 DEF Ahead
    <2>0. d \in held /\ held \subseteq Jti /\ claims[d] \in Claims
        BY <1>2 DEF IInv, FwTypeOK
    <2>2. d \in held /\ Len(chain) \in Nat /\ held \subseteq Jti
        BY <2>0 DEF Claims
    <2>3. m # Len(chain)
        <3>1. m = Len(chain) => <<chain[m], d>> \in edges
            BY <2>2, HopHasEdge
        <3> QED BY <1>3, <1>5, <2>1, <2>2, <3>1
    <2>4. m + 1 \in m + 1 .. Len(chain) /\ m + 1 \in 1 .. Len(chain)
        BY <2>2, <2>3
    <2>5. chain[m + 1] \in below
        <3>1. chain[m + 1] \in held /\ <<chain[m], chain[m + 1]>> \in edges
            BY <2>2, <2>3, HopHasEdge
        <3>2. chain[m + 1] \notin targets
            BY <2>1, <2>4
        <3> QED BY <1>3, <2>1, <2>2, <3>1, <3>2
    <2>6. ASSUME NEW n \in (m + 1) + 1 .. Len(chain) PROVE chain[n] \notin targets \cup below
        <3>1. /\ n \in m + 1 .. Len(chain) /\ n - 1 \in 1 .. Len(chain)
              /\ n - 1 \in m + 1 .. Len(chain) /\ n - 1 # Len(chain) /\ (n - 1) + 1 = n
            BY <2>2
        <3>2. Parent(chain[n]) = chain[n - 1]
            BY <2>2, <3>1, HopHasEdge
        <3>3. chain[n] \notin targets /\ chain[n - 1] \notin targets
            BY <2>1, <3>1
        <3> QED BY <1>2, <1>4, <3>2, <3>3
    <2> HIDE DEF targets
    <2>7. Ahead(t, d)'
        BY <1>1, <2>4, <2>5, <2>6 DEF Ahead
    <2> QED BY <2>5, <2>7
<1>6. CASE below = {}
    BY <1>1, <1>2, <1>5, <1>6 DEF Walked, Queueing, After
<1>7. CASE below # {}
    BY <1>1, <1>2, <1>5, <1>7 DEF Walked, Queueing, After
<1> QED BY <1>6, <1>7

LEMMA EndWalked ==
    ASSUME IInv, NEW t \in Thread, End(t)
    PROVE  Walked(t)'
<1>1. pc'[t] = "idle" /\ known'[t].below = {}
    BY EndSays DEF IInv, NoHistory
<1> QED BY <1>1, NotRevoking

LEMMA StepWalked ==
    ASSUME IInv, Grown, NEW t \in Thread, Step(t), Walked(t)
    PROVE  Walked(t)'
<1>0. /\ CallOK(t) /\ FwTypeOK /\ held \subseteq held' /\ revoked \subseteq revoked'
      /\ known[t].below \subseteq held
    BY DEF IInv, CallsOK, Grown, Walked
<1>1. CASE MintRoot(t)
    <2>1. pc'[t] = "log" /\ loc'[t].then = "idle" /\ known'[t].below = {}
        BY <1>0, <1>1, MintRootSays DEF NoHistory
    <2> QED BY <2>1, NotRevoking
<1>2. CASE Begins(t)
    <2>1. CASE Revoke(t)
        BY <2>1, StartsWalk
    <2>2. CASE ~Revoke(t)
        <3>1. pc'[t] \in {"lookup", "resolve", "lapse", "parent", "refuse", "hand", "sweep"}
              /\ known'[t].below = {}
            <4>1. CASE Delegate(t) \/ Verify(t)
                BY <1>0, <4>1, PresentSays DEF NoHistory
            <4>2. CASE ResolveReview(t)
                BY <1>0, <4>2, ResolveReviewSays DEF NoHistory
            <4>3. CASE Approve(t) \/ Deny(t)
                BY <1>0, <4>3, DecisionSays DEF NoHistory
            <4>4. CASE Collect(t)
                BY <1>0, <4>4, CollectSays DEF NoHistory
            <4>5. CASE PendingApprovals(t)
                BY <1>0, <4>5, PendingApprovalsSays DEF NoHistory
            <4> QED BY <1>2, <2>2, <4>1, <4>2, <4>3, <4>4, <4>5 DEF Begins
        <3> QED BY <3>1, NotRevoking
    <2> QED BY <2>1, <2>2
<1>3. CASE IsRevoked(t) /\ ~End(t)
    <2>1. pc'[t] = "lookup" /\ known' = known
        BY <1>3, LookupSays
    <2> QED BY <1>0, <2>1, NotRevoking
<1>4. CASE Moves(t)
    <2>1. /\ known' = known /\ pc'[t] # "log"
          /\ \/ pc[t] = "queue" /\ pc'[t] = "report"
             \/ pc'[t] \notin {"walk", "gather", "already", "insert", "reviewed", "report",
                               "queue"}
        BY <1>4, MovesSay
    <2> QED BY <1>0, <2>1, NotRevoking DEF Walked, Queueing, After
<1>5. CASE Ends(t) \/ Lapse(t) \/ CollectHand(t)
    BY <1>5, EndsSay, LapseSays, HandSays, EndWalked
<1>6. CASE DelegateMint(t) \/ ApproveMint(t)
    <2>1. pc'[t] = "edge" /\ known' = known
        BY <1>6, ChildMinted DEF ChildMint
    <2> QED BY <1>0, <2>1, NotRevoking
<1>7. CASE DelegatePark(t)
    <2>1. pc'[t] = "log" /\ loc'[t].then = "idle" /\ known' = known
        BY <1>7, ParkSays
    <2> QED BY <1>0, <2>1, NotRevoking
<1>8. CASE AddEdge(t)
    <2>1. known' = known /\ (pc'[t] = "grant" \/ (pc'[t] = "log" /\ loc'[t].then = "idle"))
        BY <1>8, AddEdgeSays
    <2> QED BY <1>0, <2>1, NotRevoking
<1>9. CASE PutAction(t)
    <2>1. pc'[t] = "log" /\ loc'[t].then = "enter" /\ known' = known
        BY <1>9, PutActionSays
    <2> QED BY <1>0, <2>1, NotRevoking
<1>10. CASE EnterBlock(t) \/ LeaveBlock(t)
    <2>1. pc'[t] \in {"block", "close"} /\ known' = known
        BY <1>10, BlockSays
    <2> QED BY <1>0, <2>1, NotRevoking
<1>11. CASE CloseAction(t)
    <2>1. pc'[t] = "log" /\ loc'[t].then = "idle" /\ known' = known
        BY <1>11, CloseActionSays
    <2> QED BY <1>0, <2>1, NotRevoking
<1>12. CASE RevokeWalk(t)
    BY <1>12, LevelWalked
<1>13. CASE RevokeGather(t)
    <2>1. /\ pc[t] = "gather" /\ pc'[t] = "already" /\ loc'[t].targets = loc[t].targets
          /\ known' = known
        BY <1>13, RevokeGatherSays
    <2> QED BY <1>0, <2>1 DEF Walked, Queueing, After
<1>14. CASE RevokeAlready(t)
    <2>1. /\ pc[t] = "already" /\ loc'[t].level = loc[t].targets \ revoked /\ known' = known
          /\ pc'[t] = IF loc[t].targets \subseteq revoked THEN "reviewed" ELSE "insert"
        BY <1>14, RevokeAlreadySays
    <2> QED BY <1>0, <2>1 DEF Walked, Queueing, After
<1>15. CASE RevokeInsert(t)
    <2>1. CASE End(t)
        BY <2>1, EndWalked
    <2>2. CASE ~End(t)
        <3>1. /\ pc[t] = "insert" /\ pc'[t] = "reviewed" /\ known'[t].below = known[t].below
              /\ revoked' = revoked \cup loc[t].level
            BY <1>15, <2>2, RevokeInsertSays
        <3> QED BY <1>0, <3>1 DEF Walked, Queueing, After
    <2> QED BY <2>1, <2>2
<1>16. CASE RevokeReviewed(t)
    <2>1. pc[t] = "reviewed" /\ pc'[t] = "queue" /\ known' = known
        BY <1>16, RevokeReviewedSays
    <2> QED BY <1>0, <2>1 DEF Walked, Queueing, After
<1>17. CASE PutReview(t)
    <2>1. pc[t] = "queue" /\ pc'[t] = "log" /\ known' = known
        BY <1>17, PutReviewSays
    <2> QED BY <1>0, <2>1 DEF Walked, Queueing, After
<1>18. CASE RevokeReport(t) \/ UpdateReview(t)
    <2>1. pc'[t] = "log" /\ loc'[t].then = "idle" /\ known' = known
        BY <1>18, ReportsSay
    <2> QED BY <1>0, <2>1, NotRevoking
<1>19. CASE Decides(t)
    <2>1. pc'[t] = "log" /\ loc'[t].then \in {"idle", "sweep"} /\ known' = known
        BY <1>19, DecideSays DEF Decides
    <2> QED BY <1>0, <2>1, NotRevoking
<1>20. CASE Log(t)
    <2>1. CASE End(t)
        BY <2>1, EndWalked
    <2>2. CASE ~End(t)
        <3>1. /\ pc[t] = "log" /\ pc'[t] = loc[t].then /\ known' = known
              /\ loc[t].then \in {"enter", "queue", "sweep"}
            BY <1>0, <1>20, <2>2, LogSays DEF CallOK
        <3> QED BY <1>0, <3>1 DEF Walked, Queueing, After
    <2> QED BY <2>1, <2>2
<1> QED BY <1>1, <1>2, <1>3, <1>4, <1>5, <1>6, <1>7, <1>8, <1>9, <1>10, <1>11, <1>12, <1>13,
        <1>14, <1>15, <1>16, <1>17, <1>18, <1>19, <1>20, StepCases

LEMMA WalkNext ==
    ASSUME IInv, WalkInv, [Next]_vars
    PROVE  WalkInv'
<1>0. Grown /\ FwTypeOK
    BY StepGrows DEF IInv
<1>1. ASSUME NEW t \in Thread, Step(t) PROVE WalkInv'
    <2>1. Walked(t)'
        BY <1>0, <1>1, StepWalked DEF WalkInv
    <2>2. ASSUME NEW u \in Thread, u # t PROVE Walked(u)'
        BY <1>0, <1>1, <2>2, OthersStay, OthersWalked DEF WalkInv
    <2> QED BY <2>1, <2>2 DEF WalkInv
<1>2. CASE UNCHANGED threads
    <2>1. ASSUME NEW u \in Thread PROVE Walked(u)'
        BY <1>0, <1>2, OthersWalked DEF WalkInv, threads, SameThread
    <2> QED BY <2>1 DEF WalkInv
<1>3. CASE Crash
    <2>1. \A t \in Thread : pc'[t] = "idle" /\ known'[t].below = {}
        BY <1>3 DEF Crash, NoHistory
    <2> QED BY <2>1, NotRevoking DEF WalkInv
<1> QED BY <1>1, <1>2, <1>3 DEF Next, Step, Tick, Refused, vars, threads

LEMMA WalkInit == Init => WalkInv
BY InitIdle DEF WalkInv, Walked, Queueing, After, NoHistory

(* The edges that a revoke walks lead to every descendant that a caller    *)
(* held when it began, whatever is minted, returned and revoked under it.  *)
THEOREM RevokeReachesHeldHolds == Spec => []RevokeReachesHeld
<1>1. WalkInv => RevokeReachesHeld
    BY DEF WalkInv, Walked, RevokeReachesHeld
<1> QED BY <1>1, WalkInit, WalkNext, IInvHolds, PTL DEF Spec

-----------------------------------------------------------------------------
(* Every action that a revoke found is reported.                           *)

(* What a step leaves that is none of revoke's own, and logs nothing.      *)
OffRevoke(t) ==
    /\ \A r \in Review : reviews'[r].action = reviews[r].action
    /\ loc'[t].cand \subseteq loc[t].cand
    /\ known'[t].acts = {} \/ known'[t] = known[t]
    /\ pc'[t] \notin {"already", "insert", "reviewed", "queue", "report"}
    /\ pc'[t] = "log" => loc'[t].then # "queue"

LEMMA EndOffRevoke ==
    ASSUME IInv, NEW t \in Thread, End(t), reviews' = reviews
    PROVE  OffRevoke(t)
<1>1. pc'[t] = "idle" /\ loc'[t] = NoLocal /\ known'[t] = NoHistory
    BY EndSays DEF IInv
<1> QED BY <1>1 DEF OffRevoke, NoLocal, NoHistory

LEMMA RevokeCases ==
    ASSUME IInv, NEW t \in Thread, Step(t)
    PROVE  \/ Revoke(t) \/ RevokeGather(t) \/ RevokeAlready(t) \/ RevokeInsert(t)
           \/ RevokeReviewed(t) \/ PutReview(t) \/ RevokeQueued(t) \/ Log(t) \/ OffRevoke(t)
<1>0. FwTypeOK /\ \A r \in Review : reviews[r] \in ReviewRow
    BY DEF IInv, FwTypeOK
<1>1. CASE MintRoot(t)
    <2>1. /\ pc'[t] = "log" /\ loc'[t].then = "idle" /\ loc'[t].cand = {} /\ reviews' = reviews
          /\ known'[t] = NoHistory
        BY <1>0, <1>1, MintRootSays DEF MintRoot
    <2> QED BY <2>1 DEF OffRevoke, NoHistory
<1>2. CASE Begins(t) /\ ~Revoke(t)
    <2>1. /\ loc'[t].cand = {} /\ reviews' = reviews
          /\ pc'[t] \notin {"already", "insert", "reviewed", "queue", "report", "log"}
        BY <1>0, <1>2, BeginsSay DEF rows
    <2>2. known'[t].acts = {}
        <3>1. CASE Delegate(t) \/ Verify(t)
            BY <1>0, <3>1, PresentSays DEF NoHistory
        <3>2. CASE ResolveReview(t)
            BY <1>0, <3>2, ResolveReviewSays DEF NoHistory
        <3>3. CASE Approve(t) \/ Deny(t)
            BY <1>0, <3>3, DecisionSays DEF NoHistory
        <3>4. CASE Collect(t)
            BY <1>0, <3>4, CollectSays DEF NoHistory
        <3>5. CASE PendingApprovals(t)
            BY <1>0, <3>5, PendingApprovalsSays DEF NoHistory
        <3> QED BY <1>2, <3>1, <3>2, <3>3, <3>4, <3>5 DEF Begins
    <2> QED BY <2>1, <2>2 DEF OffRevoke
<1>3. CASE IsRevoked(t) /\ ~End(t)
    BY <1>3, LookupSays DEF OffRevoke, rows
<1>4. CASE Moves(t) /\ ~RevokeQueued(t)
    <2>1. pc[t] # "queue"
        BY <1>4 DEF Moves, ScopeGranted, DelegateChecked, ApproveParent, ApproveDeadline
    <2> QED BY <1>4, <2>1, MovesSay DEF OffRevoke, rows
<1>5. CASE Ends(t) \/ Lapse(t) \/ CollectHand(t)
    BY <1>5, EndsSay, LapseSays, HandSays, EndOffRevoke DEF rows
<1>6. CASE DelegateMint(t) \/ ApproveMint(t)
    BY <1>6, ChildMinted DEF ChildMint, OffRevoke
<1>7. CASE DelegatePark(t)
    <2>1. /\ pc'[t] = "log" /\ loc'[t].then = "idle" /\ loc'[t].cand = loc[t].cand
          /\ reviews' = reviews /\ known' = known
        BY <1>7, ParkSays
    <2> QED BY <2>1 DEF OffRevoke
<1>8. CASE AddEdge(t)
    BY <1>8, AddEdgeSays DEF OffRevoke
<1>9. CASE PutAction(t)
    BY <1>9, PutActionSays DEF OffRevoke
<1>10. CASE EnterBlock(t) \/ LeaveBlock(t)
    BY <1>10, BlockSays DEF OffRevoke, rows
<1>11. CASE CloseAction(t)
    BY <1>11, CloseActionSays DEF OffRevoke
<1>12. CASE RevokeWalk(t)
    BY <1>12, RevokeWalkSays DEF OffRevoke, rows
<1>13. CASE RevokeReport(t) \/ UpdateReview(t)
    <2>1. \A r \in Review : reviews'[r].action = reviews[r].action
        <3>1. /\ reviews \in [Review -> ReviewRow]
              /\ \/ reviews' = reviews
                 \/ reviews' = [reviews EXCEPT ![req[t].rev].reviewed = TRUE]
            BY <1>0, <1>13, ReportsSay DEF FwTypeOK
        <3> QED BY <3>1 DEF ReviewRow
    <2> QED BY <1>13, <2>1, ReportsSay DEF OffRevoke
<1>14. CASE Decides(t)
    <2>1. /\ pc'[t] = "log" /\ loc'[t].then # "queue" /\ loc'[t].cand = loc[t].cand
          /\ reviews' = reviews /\ known' = known
        BY <1>14, DecideSays DEF Decides
    <2> QED BY <2>1 DEF OffRevoke
<1> QED BY <1>1, <1>2, <1>3, <1>4, <1>5, <1>6, <1>7, <1>8, <1>9, <1>10, <1>11, <1>12, <1>13,
        <1>14, StepCases

(* The actions that the call must report, and those it has gathered.       *)
Due(t)      == {a \in known[t].acts : actions[a].state # "CLEAN"}
Gathered(t) == {c[1] : c \in loc[t].cand}

Reported(t) ==
    /\ \A a \in known[t].acts : a \in Recorded /\ actions[a].jti \in known[t].below
    /\ pc[t] \in {"already", "insert", "reviewed"} => Due(t) \subseteq Gathered(t)
    /\ Queueing(t) => Due(t) \subseteq Gathered(t) \cup Reviewed
    /\ pc[t] = "report" => Due(t) \subseteq Reviewed

ReportInv ==
    /\ \A a \in Recorded : actions[a].jti \in held
    /\ \A t \in Thread : Reported(t)

(* An action that is CLEAN stays CLEAN.                                    *)
CleanStays == \A a \in Recorded : actions'[a].state # "CLEAN" => actions[a].state # "CLEAN"

LEMMA ActionsStep ==
    ASSUME IInv, RecordInv, Grown, NEW t \in Thread, Step(t),
           \A a \in Recorded : actions[a].jti \in held
    PROVE  CleanStays /\ \A a \in Recorded' : actions'[a].jti \in held'
<1>0. /\ CallOK(t) /\ Recording(t) /\ DOMAIN actions = Action
      /\ \A a \in Action : actions[a] \in ActionRow
    BY DEF IInv, CallsOK, FwTypeOK, RecordInv
<1>1. \A a \in Recorded : a \in Recorded' /\ actions'[a].jti \in held'
    BY DEF Grown, Recorded
<1>2. CASE PutAction(t)
    <2>1. PICK a \in Action \ Recorded :
             /\ actions' = [actions EXCEPT ![a] = [jti |-> req[t].tok, state |-> "OPEN"]]
             /\ req[t].op = "action"
        BY <1>2, PutActionSays
    <2>2. \A b \in Action \ {a} : actions'[b] = actions[b]
        BY <1>0, <2>1
    <2>3. actions'[a].jti = req[t].tok /\ req[t].tok \in held'
        BY <1>0, <2>1 DEF CallOK, Grown
    <2>4. \A b \in Recorded' : b \in Recorded \/ b = a
        BY <2>1, <2>2 DEF Recorded
    <2> QED BY <1>1, <2>1, <2>2, <2>3, <2>4 DEF CleanStays, Recorded
<1>3. CASE CloseAction(t)
    <2>1. PICK a \in Action :
             /\ pc[t] = "close" /\ a = loc[t].act
             /\ actions' = [actions EXCEPT ![a].state = CompletionState(a)]
        BY <1>3, CloseActionSays
    <2>2. actions[a].state = "OPEN"
        BY <1>0, <2>1 DEF Recording, Owns
    <2>3. \A b \in Action \ {a} : actions'[b] = actions[b]
        BY <1>0, <2>1
    <2>4. \A b \in Recorded' : b \in Recorded
        BY <2>2, <2>3 DEF Recorded
    <2> QED BY <1>1, <2>2, <2>3, <2>4 DEF CleanStays, Recorded
<1>4. CASE actions' = actions
    BY <1>1, <1>4 DEF CleanStays, Recorded
<1>5. EnterBlock(t) \/ LeaveBlock(t) \/ Log(t) => actions' = actions
    BY DEF EnterBlock, LeaveBlock, Log, rows
<1> QED BY <1>2, <1>3, <1>4, <1>5, OffRecord

(* A review stays, and a call has no more to report than before.           *)
LEMMA ReportStays ==
    ASSUME IInv, Grown, CleanStays, NEW u \in Thread, Reported(u), known'[u].acts = known[u].acts,
           known'[u].below = known[u].below
    PROVE  /\ Reviewed \subseteq Reviewed' /\ Due(u)' \subseteq Due(u)
           /\ \A a \in known'[u].acts : a \in Recorded' /\ actions'[a].jti \in known'[u].below
<1>1. Reviewed \subseteq Reviewed'
    BY FirewallAssumption DEF Grown, Reviewed
<1>2. \A a \in known[u].acts : a \in Recorded /\ a \in Recorded' /\ actions'[a].jti = actions[a].jti
    BY DEF Reported, Recorded, Grown
<1>3. Due(u)' \subseteq Due(u)
    BY <1>2 DEF CleanStays, Due
<1> QED BY <1>1, <1>2, <1>3 DEF Reported

LEMMA OthersReported ==
    ASSUME IInv, Grown, CleanStays, NEW u \in Thread, SameThread(u), Reported(u)
    PROVE  Reported(u)'
<1>1. /\ pc'[u] = pc[u] /\ loc'[u] = loc[u] /\ known'[u] = known[u]
      /\ Queueing(u)' = Queueing(u) /\ Gathered(u)' = Gathered(u)
    BY DEF SameThread, Queueing, After, Gathered
<1>2. /\ Reviewed \subseteq Reviewed' /\ Due(u)' \subseteq Due(u)
      /\ \A a \in known'[u].acts : a \in Recorded' /\ actions'[a].jti \in known'[u].below
    BY <1>1, ReportStays
<1> QED BY <1>1, <1>2 DEF Reported

LEMMA StepReported ==
    ASSUME IInv, Grown, CleanStays, NEW t \in Thread, Step(t), Walked(t), Reported(t),
           \A a \in Recorded : actions[a].jti \in held
    PROVE  Reported(t)'
<1>0. /\ FwTypeOK /\ CallOK(t)
      /\ \A a \in known[t].acts : a \in Recorded /\ actions[a].jti \in known[t].below
    BY DEF IInv, CallsOK, Reported
<1>1. CASE Revoke(t)
    <2>1. PICK j \in tokens :
             /\ pc'[t] = "walk"
             /\ known'[t].below = Descendants(j) \cap held
             /\ known'[t].acts = {a \in Recorded : actions[a].jti \in Descendants(j)}
             /\ UNCHANGED <<scenario, now, rows, audit, held, block>>
        BY <1>0, <1>1, RevokeSays
    <2>2. actions' = actions /\ Recorded' = Recorded
        BY <2>1 DEF rows, Recorded
    <2> QED BY <2>1, <2>2 DEF Reported, Queueing, After
<1>2. CASE RevokeGather(t)
    <2>1. /\ pc[t] = "gather" /\ pc'[t] = "already" /\ known' = known /\ actions' = actions
          /\ loc'[t].cand = {<<a, Classify(a)>> : a \in ActionsForReview(loc[t].targets)}
        BY <1>2, RevokeGatherSays DEF rows
    <2>2. known[t].below \subseteq loc[t].targets
        BY <2>1 DEF Walked
    <2>3. ASSUME NEW a \in Due(t) PROVE a \in Gathered(t)'
        <3>1. a \in ActionsForReview(loc[t].targets)
            BY <1>0, <2>2 DEF Due, ActionsForReview
        <3>2. <<a, Classify(a)>> \in loc'[t].cand /\ <<a, Classify(a)>>[1] = a
            BY <2>1, <3>1
        <3> QED BY <3>2 DEF Gathered
    <2>4. Due(t)' = Due(t) /\ Recorded' = Recorded
        BY <2>1 DEF Due, Recorded
    <2> QED BY <1>0, <2>1, <2>3, <2>4 DEF Reported, Queueing, After
<1>3. CASE RevokeAlready(t)
    <2>1. /\ pc[t] = "already" /\ loc'[t].cand = loc[t].cand /\ known' = known
          /\ pc'[t] \in {"reviewed", "insert"} /\ actions' = actions
        BY <1>3, RevokeAlreadySays DEF rows
    <2>2. Due(t)' = Due(t) /\ Recorded' = Recorded /\ Gathered(t)' = Gathered(t)
        BY <2>1 DEF Due, Recorded, Gathered
    <2> QED BY <1>0, <2>1, <2>2 DEF Reported, Queueing, After
<1>4. CASE RevokeInsert(t)
    <2>1. CASE End(t)
        <3>1. pc'[t] = "idle" /\ known'[t].acts = {}
            BY <1>0, <2>1, EndSays DEF NoHistory
        <3> QED BY <3>1 DEF Reported, Queueing, After
    <2>2. CASE ~End(t)
        <3>1. /\ pc[t] = "insert" /\ pc'[t] = "reviewed" /\ loc' = loc /\ actions' = actions
              /\ known'[t].below = known[t].below /\ known'[t].acts = known[t].acts
            BY <1>4, <2>2, RevokeInsertSays
        <3>2. Due(t)' = Due(t) /\ Recorded' = Recorded /\ Gathered(t)' = Gathered(t)
            BY <3>1 DEF Due, Recorded, Gathered
        <3> QED BY <1>0, <3>1, <3>2 DEF Reported, Queueing, After
    <2> QED BY <2>1, <2>2
<1>5. CASE RevokeReviewed(t)
    <2>1. /\ pc[t] = "reviewed" /\ pc'[t] = "queue" /\ known' = known /\ actions' = actions
          /\ reviews' = reviews /\ loc'[t].cand = NotYetReviewed(loc[t].cand)
        BY <1>5, RevokeReviewedSays DEF rows
    <2>2. Due(t)' = Due(t) /\ Recorded' = Recorded /\ Reviewed' = Reviewed
        BY <2>1 DEF Due, Recorded, Reviewed
    <2>3. Gathered(t) \subseteq Gathered(t)' \cup Reviewed
        BY <2>1 DEF Gathered, NotYetReviewed
    <2> QED BY <1>0, <2>1, <2>2, <2>3 DEF Reported, Queueing, After
<1>6. CASE PutReview(t)
    <2>1. PICK c \in loc[t].cand : \E r \in Review :
             /\ reviews' = [reviews EXCEPT ![r] = [action |-> c[1], class |-> c[2],
                                                   reviewed |-> FALSE]]
             /\ pc[t] = "queue" /\ pc'[t] = "log" /\ c \in Action \X {"UNKNOWN", "PARTIAL"}
             /\ loc'[t].cand = loc[t].cand \ {c} /\ loc'[t].then = "queue"
             /\ known' = known /\ actions' = actions
        BY <1>6, PutReviewSays
    <2>2. /\ Reviewed \subseteq Reviewed' /\ Due(t)' \subseteq Due(t)
          /\ \A a \in known'[t].acts : a \in Recorded' /\ actions'[a].jti \in known'[t].below
        BY <2>1, ReportStays
    <2>3. c[1] \in Reviewed'
        <3>1. PICK r \in Review :
                 reviews' = [reviews EXCEPT ![r] = [action |-> c[1], class |-> c[2],
                                                    reviewed |-> FALSE]]
            BY <2>1
        <3>2. reviews'[r].action = c[1] /\ c[1] \in Action
            BY <1>0, <2>1, <3>1 DEF FwTypeOK
        <3> QED BY <3>2 DEF Reviewed
    <2>4. Gathered(t) \subseteq Gathered(t)' \cup {c[1]}
        BY <2>1 DEF Gathered
    <2> QED BY <2>1, <2>2, <2>3, <2>4 DEF Reported, Queueing, After
<1>7. CASE RevokeQueued(t)
    <2>1. /\ pc[t] = "queue" /\ loc[t].cand = {} /\ pc'[t] = "report" /\ known' = known
          /\ actions' = actions /\ reviews' = reviews
        BY <1>7, MovesSay DEF Moves, RevokeQueued, rows
    <2>2. Due(t)' = Due(t) /\ Recorded' = Recorded /\ Reviewed' = Reviewed /\ Gathered(t) = {}
        BY <2>1 DEF Due, Recorded, Reviewed, Gathered
    <2> QED BY <1>0, <2>1, <2>2 DEF Reported, Queueing, After
<1>8. CASE Log(t)
    <2>1. CASE End(t)
        <3>1. pc'[t] = "idle" /\ known'[t].acts = {}
            BY <1>0, <2>1, EndSays DEF NoHistory
        <3> QED BY <3>1 DEF Reported, Queueing, After
    <2>2. CASE ~End(t)
        <3>1. /\ pc[t] = "log" /\ pc'[t] = loc[t].then /\ known' = known
              /\ loc[t].then \in {"enter", "queue", "sweep"} /\ loc'[t].cand = loc[t].cand
              /\ actions' = actions /\ reviews' = reviews
            BY <1>0, <1>8, <2>2, LogSays DEF CallOK, rows
        <3>2. /\ Due(t)' = Due(t) /\ Recorded' = Recorded /\ Reviewed' = Reviewed
              /\ Gathered(t)' = Gathered(t)
            BY <3>1 DEF Due, Recorded, Reviewed, Gathered
        <3> QED BY <1>0, <3>1, <3>2 DEF Reported, Queueing, After
    <2> QED BY <2>1, <2>2
<1>9. CASE OffRevoke(t)
    <2>1. \A a \in known'[t].acts : a \in Recorded' /\ actions'[a].jti \in known'[t].below
        BY <1>9, ReportStays DEF OffRevoke
    <2> QED BY <1>9, <2>1 DEF OffRevoke, Reported, Queueing, After
<1> QED BY <1>1, <1>2, <1>3, <1>4, <1>5, <1>6, <1>7, <1>8, <1>9, RevokeCases

LEMMA ReportNext ==
    ASSUME IInv, RecordInv, WalkInv, ReportInv, [Next]_vars
    PROVE  ReportInv'
<1>0. Grown /\ FwTypeOK /\ \A a \in Recorded : actions[a].jti \in held
    BY StepGrows DEF IInv, ReportInv
<1>1. ASSUME NEW t \in Thread, Step(t) PROVE ReportInv'
    <2>1. CleanStays /\ \A a \in Recorded' : actions'[a].jti \in held'
        BY <1>0, <1>1, ActionsStep
    <2>2. Reported(t)'
        BY <1>0, <1>1, <2>1, StepReported DEF WalkInv, ReportInv
    <2>3. ASSUME NEW u \in Thread, u # t PROVE Reported(u)'
        BY <1>0, <1>1, <2>1, <2>3, OthersStay, OthersReported DEF ReportInv
    <2> QED BY <2>1, <2>2, <2>3 DEF ReportInv
<1>2. CASE UNCHANGED threads /\ UNCHANGED rows /\ UNCHANGED held
    <2>1. CleanStays /\ \A a \in Recorded' : actions'[a].jti \in held'
        BY <1>0, <1>2 DEF CleanStays, Recorded, rows
    <2>2. ASSUME NEW u \in Thread PROVE Reported(u)'
        BY <1>0, <1>2, <2>1, OthersReported DEF ReportInv, threads, SameThread
    <2> QED BY <2>1, <2>2 DEF ReportInv
<1>3. CASE Crash
    <2>1. \A a \in Recorded' : actions'[a].jti \in held'
        BY <1>0, <1>3 DEF Crash, Recorded, rows
    <2>2. \A t \in Thread : pc'[t] = "idle" /\ known'[t].acts = {}
        BY <1>3 DEF Crash, NoHistory
    <2> QED BY <2>1, <2>2 DEF ReportInv, Reported, Queueing, After
<1> QED BY <1>1, <1>2, <1>3 DEF Next, Step, Tick, Refused, vars, threads, rows

(* A revoke that returns has a review for every action that was on record  *)
(* in the subtree when it began and is not CLEAN.                          *)
THEOREM InFlightReportedHolds == Spec => []InFlightReported
<1>1. Init => ReportInv
    <2> SUFFICES ASSUME Init PROVE ReportInv
        OBVIOUS
    <2>1. \A a \in Recorded : actions[a].jti \in held
        BY DEF Init, Recorded
    <2>2. \A t \in Thread : pc[t] = "idle" /\ known[t].acts = {}
        BY InitIdle DEF NoHistory
    <2> QED BY <2>1, <2>2 DEF ReportInv, Reported, Queueing, After
<1>2. ReportInv => InFlightReported
    BY DEF ReportInv, Reported, Due, InFlightReported
<1> QED BY <1>1, <1>2, WalkInit, WalkNext, RecordInit, RecordNext, ReportNext, IInvHolds,
        PTL DEF Spec

-----------------------------------------------------------------------------
(* No action is reviewed twice.                                            *)

(* An action is queued under one class.                                    *)
Single(t) == \A c, d \in loc[t].cand : c[1] = d[1] => c = d

(* What is still to be queued was not queued by anybody else.              *)
Unreviewed(t) == Queueing(t) => Gathered(t) \cap Reviewed = {}

Distinct ==
    \A r, q \in Review : reviews[r].action # None /\ r # q =>
        reviews[r].action # reviews[q].action

ReviewInv ==
    /\ \A t \in Thread : Single(t)
    /\ OneCalls({"revoke"}) => Distinct /\ \A t \in Thread : Unreviewed(t)

LEMMA SameReviews ==
    ASSUME \A r \in Review : reviews'[r].action = reviews[r].action
    PROVE  Reviewed' = Reviewed /\ Distinct' = Distinct
BY DEF Reviewed, Distinct

(* Only a revoke queues reviews.                                           *)
LEMMA QueueingRevokes ==
    ASSUME IInv, NEW u \in Thread, Queueing(u)
    PROVE  "revoke" \in scenario.calls[u]
<1>1. CallOK(u)
    BY DEF IInv, CallsOK
<1>2. req[u].op = "revoke" /\ pc[u] # "idle"
    BY <1>1 DEF Queueing, After, CallOK, AtStage
<1> QED BY <1>1, <1>2 DEF CallOK

LEMMA OthersUnreviewed ==
    ASSUME NEW u \in Thread, SameThread(u), Single(u)
    PROVE  Single(u)' /\ (Unreviewed(u) /\ Reviewed' = Reviewed => Unreviewed(u)')
BY DEF SameThread, Single, Unreviewed, Queueing, After, Gathered

(* The candidates of one call, and the reviews, in one step of the call.   *)
LEMMA StepReviews ==
    ASSUME IInv, NEW t \in Thread, Step(t), Single(t)
    PROVE  /\ Single(t)'
           /\ \/ /\ PutReview(t)
                 /\ Distinct /\ Unreviewed(t) => Distinct' /\ Unreviewed(t)'
              \/ /\ Reviewed' = Reviewed /\ Distinct' = Distinct
                 /\ Unreviewed(t) => Unreviewed(t)'
<1>0. FwTypeOK /\ CallOK(t) /\ reviews \in [Review -> ReviewRow]
    BY DEF IInv, CallsOK, FwTypeOK
<1>1. ASSUME reviews' = reviews, loc'[t].cand \subseteq loc[t].cand,
             pc'[t] # "queue", pc'[t] = "log" => loc'[t].then # "queue"
      PROVE  Single(t)' /\ Unreviewed(t)' /\ Reviewed' = Reviewed /\ Distinct' = Distinct
    BY <1>1, SameReviews DEF Single, Unreviewed, Queueing, After
<1>2. ASSUME reviews' = reviews, End(t)
      PROVE  Single(t)' /\ Unreviewed(t)' /\ Reviewed' = Reviewed /\ Distinct' = Distinct
    <2>1. pc'[t] = "idle" /\ loc'[t].cand = {}
        BY <1>0, <1>2, EndSays DEF NoLocal
    <2> QED BY <1>1, <1>2, <2>1
<1>3. CASE Revoke(t)
    BY <1>0, <1>1, <1>3, RevokeSays DEF FreshLocal, rows
<1>4. CASE RevokeGather(t)
    <2>1. /\ pc'[t] = "already" /\ reviews' = reviews
          /\ loc'[t].cand = {<<a, Classify(a)>> : a \in ActionsForReview(loc[t].targets)}
        BY <1>4, RevokeGatherSays DEF rows
    <2>2. Single(t)'
        BY <2>1 DEF Single
    <2> QED BY <2>1, <2>2, SameReviews DEF Unreviewed, Queueing, After
<1>5. CASE RevokeAlready(t) \/ RevokeQueued(t)
    <2>1. pc'[t] \in {"reviewed", "insert", "report"} /\ loc'[t].cand = loc[t].cand
        BY <1>0, <1>5, RevokeAlreadySays DEF RevokeQueued, Goto, FwTypeOK
    <2>2. reviews' = reviews
        BY <1>5 DEF RevokeAlready, RevokeQueued, rows
    <2> QED BY <1>1, <2>1, <2>2
<1>6. CASE RevokeInsert(t)
    <2>1. reviews' = reviews
        BY <1>6 DEF RevokeInsert
    <2>2. CASE ~End(t)
        <3>1. pc'[t] = "reviewed" /\ loc' = loc
            BY <1>6, <2>2, RevokeInsertSays
        <3> QED BY <1>1, <2>1, <3>1
    <2> QED BY <1>2, <2>1, <2>2
<1>7. CASE RevokeReviewed(t)
    <2>1. /\ pc'[t] = "queue" /\ reviews' = reviews
          /\ loc'[t].cand = NotYetReviewed(loc[t].cand)
        BY <1>7, RevokeReviewedSays DEF rows
    <2>2. Single(t)'
        BY <2>1 DEF Single, NotYetReviewed
    <2>3. Gathered(t)' \cap Reviewed = {}
        BY <2>1 DEF Gathered, NotYetReviewed
    <2> QED BY <2>1, <2>2, <2>3, SameReviews DEF Unreviewed
<1>8. CASE PutReview(t)
    <2>1. PICK c \in loc[t].cand : \E r \in Review :
             /\ reviews[r].action = None
             /\ reviews' = [reviews EXCEPT ![r] = [action |-> c[1], class |-> c[2],
                                                   reviewed |-> FALSE]]
             /\ pc[t] = "queue" /\ loc'[t].cand = loc[t].cand \ {c}
             /\ c \in Action \X {"UNKNOWN", "PARTIAL"}
        BY <1>8, PutReviewSays
    <2>2. PICK r \in Review :
             /\ reviews[r].action = None
             /\ reviews' = [reviews EXCEPT ![r] = [action |-> c[1], class |-> c[2],
                                                   reviewed |-> FALSE]]
        BY <2>1
    <2>3. /\ reviews'[r].action = c[1]
          /\ \A q \in Review \ {r} : reviews'[q].action = reviews[q].action
        BY <1>0, <2>2
    <2>4. Single(t)'
        BY <2>1 DEF Single
    <2>5. c[1] \in Gathered(t) /\ c[1] \notin Gathered(t)'
        BY <2>1 DEF Gathered, Single
    <2>6. ASSUME Distinct, Unreviewed(t) PROVE Distinct' /\ Unreviewed(t)'
        <3>1. Gathered(t) \cap Reviewed = {} /\ Gathered(t)' \subseteq Gathered(t)
            BY <2>1, <2>6 DEF Unreviewed, Queueing, Gathered
        <3>2. Reviewed' \subseteq Reviewed \cup {c[1]}
            BY <2>3 DEF Reviewed
        <3>3. \A q \in Review : reviews[q].action # c[1]
            <4>1. c[1] \in Action
                BY <2>1
            <4> QED BY <2>5, <3>1, <4>1 DEF Reviewed
        <3> QED BY <2>3, <2>5, <2>6, <3>1, <3>2, <3>3 DEF Distinct, Unreviewed
    <2> QED BY <1>8, <2>4, <2>6
<1>9. CASE Log(t)
    <2>1. reviews' = reviews
        BY <1>9 DEF Log, rows
    <2>2. CASE ~End(t)
        <3>1. /\ pc[t] = "log" /\ pc'[t] = loc[t].then /\ loc'[t].cand = loc[t].cand
              /\ loc[t].then \in {"enter", "queue", "sweep"}
            BY <1>0, <1>9, <2>2, LogSays DEF CallOK
        <3>2. Single(t)' /\ Gathered(t)' = Gathered(t) /\ (Queueing(t)' => Queueing(t))
            BY <3>1 DEF Single, Gathered, Queueing, After
        <3> QED BY <2>1, <3>2, SameReviews DEF Unreviewed
    <2> QED BY <1>2, <2>1, <2>2
<1>10. CASE OffRevoke(t)
    <2>1. Reviewed' = Reviewed /\ Distinct' = Distinct
        BY <1>10, SameReviews DEF OffRevoke
    <2> QED BY <1>10, <2>1 DEF OffRevoke, Single, Unreviewed, Queueing, After
<1> QED BY <1>1, <1>2, <1>3, <1>4, <1>5, <1>6, <1>7, <1>8, <1>9, <1>10, RevokeCases

LEMMA ReviewNext ==
    ASSUME IInv, ReviewInv, [Next]_vars
    PROVE  ReviewInv'
<1>0. FwTypeOK /\ OneCalls({"revoke"})' = OneCalls({"revoke"})
    BY StepGrows DEF IInv, Grown, OneCalls
<1>1. ASSUME NEW t \in Thread, Step(t) PROVE ReviewInv'
    <2>1. /\ Single(t)'
          /\ \/ /\ PutReview(t)
                /\ Distinct /\ Unreviewed(t) => Distinct' /\ Unreviewed(t)'
             \/ /\ Reviewed' = Reviewed /\ Distinct' = Distinct
                /\ Unreviewed(t) => Unreviewed(t)'
        BY <1>1, StepReviews DEF ReviewInv
    <2>2. ASSUME NEW u \in Thread, u # t
          PROVE  Single(u)' /\ (Unreviewed(u) /\ Reviewed' = Reviewed => Unreviewed(u)')
        BY <1>0, <1>1, <2>2, OthersStay, OthersUnreviewed DEF ReviewInv
    <2>3. ASSUME OneCalls({"revoke"}), PutReview(t), NEW u \in Thread, u # t
          PROVE  Unreviewed(u)'
        <3>1. "revoke" \in scenario.calls[t]
            BY <2>3, QueueingRevokes DEF PutReview, Queueing
        <3>2. "revoke" \notin scenario.calls[u]
            BY <2>3, <3>1 DEF OneCalls
        <3>3. ~Queueing(u)
            BY <3>2, QueueingRevokes
        <3>4. ~Queueing(u)'
            BY <1>0, <1>1, <2>3, <3>3, OthersStay DEF SameThread, Queueing, After
        <3> QED BY <3>4 DEF Unreviewed
    <2> QED BY <1>0, <2>1, <2>2, <2>3 DEF ReviewInv
<1>2. CASE UNCHANGED threads /\ UNCHANGED rows
    <2>1. Reviewed' = Reviewed /\ Distinct' = Distinct
        BY <1>2, SameReviews DEF rows
    <2>2. ASSUME NEW u \in Thread
          PROVE  Single(u)' /\ (Unreviewed(u) /\ Reviewed' = Reviewed => Unreviewed(u)')
        BY <1>2, OthersUnreviewed DEF ReviewInv, threads, SameThread
    <2> QED BY <1>0, <2>1, <2>2 DEF ReviewInv
<1>3. CASE Crash
    <2>1. Distinct' = Distinct
        BY <1>3, SameReviews DEF Crash, rows
    <2>2. \A t \in Thread : pc'[t] = "idle" /\ loc'[t].cand = {}
        BY <1>3 DEF Crash, NoLocal
    <2> QED BY <1>0, <2>1, <2>2 DEF ReviewInv, Single, Unreviewed, Queueing, After
<1> QED BY <1>1, <1>2, <1>3 DEF Next, Step, Tick, Refused, vars, threads, rows

(* Where one thread revokes, an action never gets a second review, however *)
(* often its subtree is revoked and wherever an earlier revoke died.       *)
THEOREM OneReviewPerActionHolds == Spec => []OneReviewPerAction
<1>1. Init => ReviewInv
    <2> SUFFICES ASSUME Init PROVE ReviewInv
        OBVIOUS
    <2>1. \A t \in Thread : pc[t] = "idle" /\ loc[t].cand = {}
        BY InitIdle DEF NoLocal
    <2>2. Distinct
        BY DEF Init, Distinct
    <2> QED BY <2>1, <2>2 DEF ReviewInv, Single, Unreviewed, Queueing, After
<1>2. ReviewInv => OneReviewPerAction
    BY DEF ReviewInv, Distinct, OneReviewPerAction
<1> QED BY <1>1, <1>2, ReviewNext, IInvHolds, PTL DEF Spec

-----------------------------------------------------------------------------
(* A request that is decided gives what was decided.                       *)

Deciders == {"approve", "deny", "pending_approvals"}

(* A token that an approval minted is the child of that approval.          *)
Granted(j) ==
    claims[j].via # None =>
        gate[claims[j].via].status = "approved" /\ gate[claims[j].via].child = j

(* What a call has read of a request is still so.                          *)
Deciding(t) ==
    /\ req[t].op \in {"approve", "deny"} /\ pc[t] # "log" =>
         gate[req[t].appr].status = "pending"
    /\ loc[t].stale # {} => req[t].op = "pending_approvals"
    /\ \A ap \in loc[t].stale : gate[ap].status = "pending"
    /\ pc[t] = "hand" => /\ gate[req[t].appr].status = "approved"
                         /\ gate[req[t].appr].child = loc[t].child
    /\ \A j \in loc[t].give : Granted(j)

GrantInv ==
    OneCalls(Deciders) =>
        (\A t \in Thread : Deciding(t)) /\ (\A j \in held : Granted(j))

(* An approved request stays as it is, and a pending one stays pending.    *)
ApprovedStay ==
    \A ap \in Approval : gate[ap].status = "approved" =>
        gate'[ap].status = "approved" /\ gate'[ap].child = gate[ap].child
PendingStay ==
    \A ap \in Approval : gate[ap].status = "pending" => gate'[ap].status = "pending"

LEMMA DecideWrites ==
    ASSUME FwTypeOK, NEW ap \in Approval, NEW status, NEW child, Decide(ap, status, child)
    PROVE  /\ gate'[ap].status = status /\ gate'[ap].child = child
           /\ \A b \in Approval \ {ap} : gate'[b] = gate[b]
<1>1. gate \in [Approval -> ApprovalRow]
    BY DEF FwTypeOK
<1> QED BY <1>1 DEF Decide, ApprovalRow

LEMMA GateCases ==
    ASSUME NEW t \in Thread, Step(t)
    PROVE  \/ Decides(t) \/ Lapse(t) \/ CollectHand(t) \/ DelegatePark(t)
           \/ gate' = gate
<1>1. CASE Tokens(t)
    BY <1>1 DEF Tokens, MintRoot, Delegate, Verify, Present, IsRevoked, ScopeGranted,
       ScopeNotGranted, Allowed, DelegateChecked, DelegateMint, AddEdge, rows
<1>2. CASE InFlight(t)
    BY <1>2 DEF InFlight, PutAction, EnterBlock, LeaveBlock, CloseAction, rows
<1>3. CASE Revocation(t)
    BY <1>3 DEF Revocation, Revoke, RevokeWalk, RevokeGather, RevokeAlready, RevokeInsert,
       RevokeReviewed, PutReview, RevokeQueued, RevokeReport, ResolveReview, UpdateReview, rows
<1>4. CASE Gate(t)
    BY <1>4 DEF Gate, Decides, Approve, Deny, LoadApproval, ApproveParent, ApproveDeadline,
       ApproveMint, Collect, PendingApprovals, rows
<1>5. CASE Log(t) \/ Abort(t)
    BY <1>5 DEF Log, Abort, rows
<1> QED BY <1>1, <1>2, <1>3, <1>4, <1>5 DEF Step

(* Who decides what it found pending leaves the approved requests alone,   *)
(* and nobody else touches a pending one.                                  *)
LEMMA GateStep ==
    ASSUME IInv, NEW t \in Thread, Step(t), Deciding(t)
    PROVE  ApprovedStay /\ (req[t].op \notin Deciders => PendingStay)
<1>0. FwTypeOK /\ CallOK(t)
    BY DEF IInv, CallsOK
<1>1. CASE Decides(t)
    <2>1. PICK ap \in Approval : \E status \in {"approved", "denied", "expired"} :
          \E child \in Jti \cup {None} :
             /\ Decide(ap, status, child)
             /\ \/ req[t].op = "pending_approvals" /\ ap \in loc[t].stale
                \/ /\ req[t].op \in {"approve", "deny"} /\ ap = req[t].appr
                   /\ pc[t] \in {"reject", "refuse", "grant"}
        BY <1>1, DecideSays DEF Decides
    <2>2. gate[ap].status = "pending" /\ req[t].op \in Deciders
        BY <2>1 DEF Deciding, Deciders
    <2>3. \A b \in Approval \ {ap} : gate'[b] = gate[b]
        BY <1>0, <2>1, DecideWrites
    <2> QED BY <2>2, <2>3 DEF ApprovedStay
<1>2. CASE Lapse(t)
    <2>1. PICK ap \in Approval :
             /\ ap = req[t].appr /\ req[t].op \in {"approve", "deny"} /\ pc[t] = "lapse"
             /\ Decide(ap, "expired", None)
        BY <1>2, LapseSays
    <2>2. gate[ap].status = "pending" /\ req[t].op \in Deciders
        BY <2>1 DEF Deciding, Deciders
    <2>3. \A b \in Approval \ {ap} : gate'[b] = gate[b]
        BY <1>0, <2>1, DecideWrites
    <2> QED BY <2>2, <2>3 DEF ApprovedStay
<1>3. CASE CollectHand(t)
    <2>1. PICK ap \in Approval :
             /\ ap = req[t].appr /\ pc[t] = "hand" /\ Decide(ap, "approved", loc[t].child)
        BY <1>3, HandSays
    <2>2. gate[ap].status = "approved" /\ gate[ap].child = loc[t].child
        BY <2>1 DEF Deciding
    <2>3. /\ gate'[ap].status = "approved" /\ gate'[ap].child = loc[t].child
          /\ \A b \in Approval \ {ap} : gate'[b] = gate[b]
        BY <1>0, <2>1, DecideWrites
    <2> QED BY <2>2, <2>3 DEF ApprovedStay, PendingStay
<1>4. CASE DelegatePark(t)
    <2>1. PICK ap \in Approval :
             /\ gate[ap].status = "absent"
             /\ gate' = [gate EXCEPT ![ap] =
                  [status |-> "pending", parent |-> req[t].tok, scopes |-> req[t].scopes,
                   ttl |-> req[t].ttl, parentExp |-> claims[req[t].tok].exp,
                   expires |-> Lesser(Seconds + ApprovalTimeout, claims[req[t].tok].exp),
                   child |-> None]]
        BY <1>4, ParkSays
    <2>2. \A b \in Approval \ {ap} : gate'[b] = gate[b]
        BY <1>0, <2>1 DEF FwTypeOK
    <2> QED BY <2>1, <2>2 DEF ApprovedStay, PendingStay
<1>5. CASE gate' = gate
    BY <1>5 DEF ApprovedStay, PendingStay
<1> QED BY <1>1, <1>2, <1>3, <1>4, <1>5, GateCases

LEMMA GrantedStays ==
    ASSUME IInv, Grown, ApprovedStay, NEW j \in tokens, Granted(j)
    PROVE  Granted(j)'
<1>1. claims'[j] = claims[j]
    BY DEF Grown
<1>2. claims[j].via # None => claims[j].via \in Approval
    BY DEF IInv, TokensOK, TokenOK, Shown
<1> QED BY <1>1, <1>2 DEF Granted, ApprovedStay

LEMMA OthersDeciding ==
    ASSUME IInv, Grown, ApprovedStay, NEW u \in Thread, SameThread(u), Deciding(u),
           req[u].op \in Deciders => PendingStay
    PROVE  Deciding(u)'
<1>1. /\ pc'[u] = pc[u] /\ req'[u] = req[u] /\ loc'[u] = loc[u] /\ CallOK(u)
      /\ loc[u].stale \subseteq Approval
    BY DEF SameThread, IInv, CallsOK, FwTypeOK, Local
<1>2. \A j \in loc[u].give : j \in tokens
    BY <1>1 DEF CallOK
<1>3. \A j \in loc[u].give : Granted(j)'
    BY <1>2, GrantedStays DEF Deciding
<1>4. req[u].op \in {"approve", "deny", "collect"} => req[u].appr \in Approval
    BY <1>1 DEF CallOK
<1>5. pc[u] = "hand" => req[u].op = "collect"
    BY <1>1 DEF CallOK, AtStage
<1> QED BY <1>1, <1>3, <1>4, <1>5 DEF Deciding, Deciders, ApprovedStay, PendingStay

(* A call that is not about a request, or is past it.                      *)
LEMMA NotDeciding ==
    ASSUME NEW t \in Thread, loc'[t].stale = {}, pc'[t] # "hand",
           req'[t].op \in {"approve", "deny"} => pc'[t] = "log",
           \A j \in loc'[t].give : Granted(j)'
    PROVE  Deciding(t)'
BY DEF Deciding

LEMMA EndDeciding ==
    ASSUME IInv, NEW t \in Thread, End(t)
    PROVE  Deciding(t)'
<1>1. /\ pc'[t] = "idle" /\ req'[t].op = "none" /\ loc'[t].stale = {} /\ loc'[t].give = {}
    BY EndSays DEF IInv, NoCall, NoLocal
<1> QED BY <1>1, NotDeciding

(* A step of a call that leaves the requests alone.                        *)
LEMMA KeepsDeciding ==
    ASSUME IInv, Grown, NEW t \in Thread, Deciding(t), gate' = gate, req' = req, pc'[t] # "hand",
           loc'[t].stale = loc[t].stale,
           \A j \in loc'[t].give : 
               j \in loc[t].give \/ (claims[j].via = None /\ j \in tokens),
           pc[t] = "log" => req[t].op \notin {"approve", "deny"}
    PROVE  Deciding(t)'
<1>1. CallOK(t) /\ ApprovedStay
    BY DEF IInv, CallsOK, ApprovedStay
<1>2. ASSUME NEW j \in loc'[t].give PROVE Granted(j)'
    <2>1. j \in tokens /\ Granted(j)
        BY <1>1, <1>2 DEF CallOK, Deciding, Granted
    <2> QED BY <1>1, <2>1, GrantedStays
<1> QED BY <1>2 DEF Deciding

LEMMA BeginsDeciding ==
    ASSUME IInv, NEW t \in Thread, MintRoot(t) \/ Begins(t)
    PROVE  Deciding(t)'
<1>0. FwTypeOK
    BY DEF IInv
<1>1. CASE MintRoot(t)
    <2>1. PICK j \in FreshJti :
             /\ \E scopes \in SUBSET Scope, ttl \in Nat, depth \in Nat :
                  PutToken(j, RootClaims(scopes, ttl, depth))
             /\ pc'[t] = "log" /\ loc'[t].give = {j} /\ loc'[t].stale = {}
        BY <1>0, <1>1, MintRootSays
    <2>2. j \in Jti
        BY DEF FreshJti
    <2>3. claims'[j].via = None
        <3>1. PICK scopes \in SUBSET Scope, ttl \in Nat, depth \in Nat :
                 claims' = [claims EXCEPT ![j] = RootClaims(scopes, ttl, depth)]
            BY <2>1 DEF PutToken
        <3> QED BY <1>0, <2>2, <3>1 DEF RootClaims, FwTypeOK
    <2> QED BY <2>1, <2>3, NotDeciding DEF Granted
<1>2. CASE Begins(t)
    <2>0. gate' = gate /\ loc'[t].give = {}
        BY <1>0, <1>2, BeginsSay DEF rows
    <2>1. CASE Delegate(t) \/ Verify(t)
        <3>1. /\ pc'[t] = "lookup" /\ loc'[t].stale = {}
              /\ req'[t].op \in {"delegate", "verify", "action"}
            BY <1>0, <2>1, PresentSays DEF FreshLocal
        <3> QED BY <2>0, <3>1, NotDeciding
    <2>2. CASE Revoke(t)
        <3>1. pc'[t] = "walk" /\ loc'[t].stale = {} /\ req'[t].op = "revoke"
            BY <1>0, <2>2, RevokeSays DEF FreshLocal
        <3> QED BY <2>0, <3>1, NotDeciding
    <2>3. CASE ResolveReview(t)
        <3>1. pc'[t] = "resolve" /\ loc'[t].stale = {} /\ req'[t].op = "resolve_review"
            BY <1>0, <2>3, ResolveReviewSays DEF FreshLocal
        <3> QED BY <2>0, <3>1, NotDeciding
    <2>4. CASE Approve(t) \/ Deny(t)
        <3>1. /\ gate[req'[t].appr].status = "pending" /\ loc'[t].stale = {}
              /\ pc'[t] # "hand"
            BY <1>0, <2>4, DecisionSays DEF FreshLocal
        <3> QED BY <2>0, <3>1 DEF Deciding
    <2>5. CASE Collect(t)
        <3>1. /\ gate[req'[t].appr].status = "approved" /\ req'[t].op = "collect"
              /\ loc'[t].child = gate[req'[t].appr].child /\ loc'[t].stale = {}
            BY <1>0, <2>5, CollectSays DEF FreshLocal
        <3> QED BY <2>0, <3>1 DEF Deciding
    <2>6. CASE PendingApprovals(t)
        <3>1. /\ req'[t].op = "pending_approvals" /\ pc'[t] = "sweep"
              /\ \A ap \in loc'[t].stale : gate[ap].status = "pending"
            BY <1>0, <2>6, PendingApprovalsSays
        <3> QED BY <2>0, <3>1 DEF Deciding
    <2> QED BY <1>2, <2>1, <2>2, <2>3, <2>4, <2>5, <2>6 DEF Begins
<1> QED BY <1>1, <1>2

LEMMA DecidesDeciding ==
    ASSUME IInv, Grown, ApprovedStay, NEW t \in Thread, Decides(t), Deciding(t)
    PROVE  Deciding(t)'
<1>0. FwTypeOK /\ CallOK(t)
    BY DEF IInv, CallsOK
<1> DEFINE Wrote(ap, status, child) ==
         /\ Decide(ap, status, child)
         /\ \/ /\ req[t].op = "pending_approvals" /\ ap \in loc[t].stale
               /\ loc'[t].stale = loc[t].stale \ {ap} /\ loc'[t].give = loc[t].give
            \/ /\ req[t].op \in {"approve", "deny"} /\ ap = req[t].appr
               /\ loc'[t].stale = loc[t].stale
               /\ \/ loc'[t].give = {}
                  \/ /\ pc[t] = "grant" /\ status = "approved" /\ child = loc[t].child
                     /\ loc'[t].give = {child}
         /\ pc'[t] = "log" /\ req' = req /\ claims' = claims
<1>1. \E ap \in Approval : \E status \in {"approved", "denied", "expired"} :
      \E child \in Jti \cup {None} : Wrote(ap, status, child)
    BY DecideSays DEF Decides
<1> HIDE DEF Wrote
<1>2. PICK ap \in Approval, status \in {"approved", "denied", "expired"},
           child \in Jti \cup {None} : Wrote(ap, status, child)
    BY <1>1
<1> USE DEF Wrote
<1>3. Wrote(ap, status, child)
    BY <1>2
<1>4. /\ gate'[ap].status = status /\ gate'[ap].child = child
      /\ \A b \in Approval \ {ap} : gate'[b] = gate[b]
    BY <1>0, <1>3, DecideWrites
<1>5. \A j \in loc[t].give : Granted(j)'
    BY <1>0, GrantedStays DEF Deciding, CallOK
<1>6. CASE req[t].op = "pending_approvals"
    <2>1. /\ loc'[t].stale = loc[t].stale \ {ap} /\ loc'[t].give = loc[t].give
          /\ loc[t].stale \subseteq Approval
        BY <1>0, <1>3, <1>6 DEF FwTypeOK, Local
    <2>2. \A b \in loc'[t].stale : gate'[b].status = "pending"
        BY <1>4, <2>1 DEF Deciding
    <2> QED BY <1>3, <1>5, <1>6, <2>1, <2>2 DEF Deciding
<1>7. CASE req[t].op \in {"approve", "deny"}
    <2>1. loc'[t].stale = {}
        BY <1>3, <1>7 DEF Deciding
    <2>2. CASE loc'[t].give = {}
        BY <1>3, <2>1, <2>2, NotDeciding
    <2>3. CASE /\ pc[t] = "grant" /\ status = "approved" /\ child = loc[t].child
               /\ loc'[t].give = {child} /\ ap = req[t].appr
        <3>1. claims[child].via = IF req[t].op = "approve" THEN ap ELSE None
            BY <1>0, <2>3 DEF CallOK
        <3>2. req[t].op = "approve"
            BY <1>0, <2>3 DEF CallOK, AtStage
        <3>3. Granted(child)'
            BY <1>3, <1>4, <2>3, <3>1, <3>2 DEF Granted
        <3> QED BY <1>3, <2>1, <2>3, <3>3, NotDeciding
    <2> QED BY <1>3, <1>7, <2>2, <2>3
<1> QED BY <1>3, <1>6, <1>7

LEMMA StepDeciding ==
    ASSUME IInv, Grown, ApprovedStay, NEW t \in Thread, Step(t), Deciding(t),
           \A j \in held : Granted(j)
    PROVE  Deciding(t)' /\ \A j \in held' : Granted(j)'
<1>0. FwTypeOK /\ CallOK(t) /\ \A j \in held : Granted(j)'
    BY GrantedStays DEF IInv, CallsOK, TokensOK
<1>1. CASE CollectHand(t)
    <2>1. PICK child \in Jti :
             /\ child = loc[t].child /\ req[t].op = "collect" /\ pc[t] = "hand"
             /\ req[t].appr \in Approval /\ held' = held \cup {child} /\ End(t)
             /\ Decide(req[t].appr, "approved", child) /\ claims' = claims
        BY <1>1, HandSays
    <2>2. claims[child].via = req[t].appr
        BY <1>0, <2>1 DEF CallOK
    <2>3. Granted(child)'
        BY <1>0, <2>1, <2>2, DecideWrites DEF Granted
    <2> QED BY <1>0, <2>1, <2>3, EndDeciding
<1>2. CASE Log(t)
    <2>1. held' = held \cup loc[t].give /\ gate' = gate
        BY <1>2 DEF Log, rows
    <2>2. \A j \in loc[t].give : Granted(j)'
        BY <1>0, GrantedStays DEF Deciding, CallOK
    <2>3. CASE End(t)
        BY <1>0, <2>1, <2>2, <2>3, EndDeciding
    <2>4. CASE ~End(t)
        <3>1. /\ pc[t] = "log" /\ pc'[t] = loc[t].then /\ req' = req
              /\ loc[t].then \in {"enter", "queue", "sweep"}
              /\ loc'[t].stale = loc[t].stale /\ loc'[t].give = loc[t].give
            BY <1>0, <1>2, <2>4, LogSays DEF CallOK
        <3>2. req[t].op \notin {"approve", "deny"}
            BY <1>0, <3>1 DEF CallOK, AtStage
        <3>3. Deciding(t)'
            BY <2>1, <3>1, <3>2, KeepsDeciding
        <3> QED BY <1>0, <2>1, <2>2, <3>3
    <2> QED BY <2>3, <2>4
<1>3. CASE ~CollectHand(t) /\ ~Log(t)
    <2>1. held' = held
        BY <1>3 DEF Step, Tokens, MintRoot, Delegate, Verify, Present, IsRevoked, ScopeGranted,
           ScopeNotGranted, Allowed, DelegateChecked, DelegateMint, DelegatePark, AddEdge,
           InFlight, PutAction, EnterBlock, LeaveBlock, CloseAction, Revocation, Revoke,
           RevokeWalk, RevokeGather, RevokeAlready, RevokeInsert, RevokeReviewed, PutReview,
           RevokeQueued, RevokeReport, ResolveReview, UpdateReview, Gate, Approve, Deny,
           LoadApproval, Lapse, ApproveParent, ApproveDeadline, ApproveReject, ApproveMint,
           ApproveGrant, DenyRefuse, Collect, PendingApprovals, ExpireStale, Abort
    <2>2. Deciding(t)'
        <3>1. CASE MintRoot(t) \/ Begins(t)
            BY <3>1, BeginsDeciding
        <3>2. CASE Ends(t) \/ Lapse(t)
            BY <3>2, EndsSay, LapseSays, EndDeciding
        <3>3. CASE IsRevoked(t) /\ ~End(t)
            BY <3>3, LookupSays, KeepsDeciding DEF rows
        <3>4. CASE Moves(t)
            <4>1. /\ pc'[t] # "hand" /\ pc[t] # "log" /\ req' = req /\ loc' = loc /\ gate' = gate
                BY <3>4, MovesSay DEF rows
            <4> QED BY <4>1, KeepsDeciding
        <3>5. CASE DelegateMint(t) \/ ApproveMint(t)
            <4>1. /\ pc'[t] = "edge" /\ pc[t] = "mint" /\ req' = req /\ gate' = gate
                  /\ loc'[t].give = loc[t].give /\ loc'[t].stale = loc[t].stale
                BY <3>5, ChildMinted DEF ChildMint
            <4> QED BY <4>1, KeepsDeciding
        <3>6. CASE DelegatePark(t)
            <4>1. /\ pc'[t] = "log" /\ req' = req /\ req[t].op = "delegate"
                  /\ loc'[t].give = {} /\ loc'[t].stale = loc[t].stale
                BY <3>6, ParkSays
            <4> QED BY <4>1, NotDeciding DEF Deciding
        <3>7. CASE AddEdge(t)
            <4>1. /\ pc[t] = "edge" /\ pc'[t] \in {"grant", "log"} /\ req' = req /\ gate' = gate
                  /\ loc'[t].stale = loc[t].stale
                  /\ \/ loc'[t].give = loc[t].give
                     \/ req[t].op = "delegate" /\ loc'[t].give = {loc[t].child}
                BY <3>7, AddEdgeSays
            <4>2. loc[t].child \in tokens /\ (req[t].op = "delegate" => claims[loc[t].child].via = None)
                BY <1>0, <4>1 DEF CallOK
            <4> QED BY <4>1, <4>2, KeepsDeciding
        <3>8. CASE PutAction(t)
            BY <3>8, PutActionSays, KeepsDeciding
        <3>9. CASE EnterBlock(t) \/ LeaveBlock(t)
            BY <3>9, BlockSays, KeepsDeciding DEF rows
        <3>10. CASE CloseAction(t)
            BY <3>10, CloseActionSays, KeepsDeciding
        <3>11. CASE RevokeWalk(t) \/ RevokeGather(t)
            BY <3>11, RevokeWalkSays, RevokeGatherSays, KeepsDeciding DEF rows
        <3>12. CASE RevokeAlready(t) \/ RevokeReviewed(t)
            BY <3>12, RevokeAlreadySays, RevokeReviewedSays, KeepsDeciding DEF rows
        <3>13. CASE RevokeInsert(t)
            BY <3>13, RevokeInsertSays, KeepsDeciding, EndDeciding DEF RevokeInsert
        <3>14. CASE PutReview(t)
            BY <3>14, PutReviewSays, KeepsDeciding
        <3>15. CASE RevokeReport(t) \/ UpdateReview(t)
            BY <3>15, ReportsSay, KeepsDeciding
        <3>16. CASE Decides(t)
            BY <3>16, DecidesDeciding
        <3> QED BY <1>3, <3>1, <3>2, <3>3, <3>4, <3>5, <3>6, <3>7, <3>8, <3>9, <3>10, <3>11,
                <3>12, <3>13, <3>14, <3>15, <3>16, StepCases
    <2> QED BY <1>0, <2>1, <2>2
<1> QED BY <1>1, <1>2, <1>3

LEMMA GrantNext ==
    ASSUME IInv, GrantInv, [Next]_vars
    PROVE  GrantInv'
<1>0. Grown /\ FwTypeOK /\ OneCalls(Deciders)' = OneCalls(Deciders)
    BY StepGrows DEF IInv, Grown, OneCalls, Deciders
<1> SUFFICES ASSUME OneCalls(Deciders)
             PROVE  (\A t \in Thread : Deciding(t)') /\ (\A j \in held' : Granted(j)')
    BY <1>0 DEF GrantInv
<1>1. (\A t \in Thread : Deciding(t)) /\ (\A j \in held : Granted(j)) /\ held \subseteq tokens
    BY DEF GrantInv, IInv, TokensOK
<1>2. ASSUME NEW t \in Thread, Step(t)
      PROVE  (\A u \in Thread : Deciding(u)') /\ (\A j \in held' : Granted(j)')
    <2>1. ApprovedStay /\ (req[t].op \notin Deciders => PendingStay)
        BY <1>1, <1>2, GateStep
    <2>2. Deciding(t)' /\ \A j \in held' : Granted(j)'
        BY <1>0, <1>1, <1>2, <2>1, StepDeciding
    <2>3. ASSUME NEW u \in Thread, u # t PROVE Deciding(u)'
        <3>1. \A v \in Thread : req[v].op \in Deciders => scenario.calls[v] \cap Deciders # {}
            <4>1. \A v \in Thread : CallOK(v)
                BY DEF IInv, CallsOK
            <4> QED BY <4>1 DEF CallOK, AtStage, Deciders
        <3>2. req[u].op \in Deciders => PendingStay
            BY <2>1, <2>3, <3>1 DEF OneCalls
        <3>3. SameThread(u)
            BY <1>0, <1>2, <2>3, OthersStay
        <3> QED BY <1>0, <1>1, <2>1, <3>2, <3>3, OthersDeciding
    <2> QED BY <2>2, <2>3
<1>3. CASE UNCHANGED threads /\ UNCHANGED rows /\ UNCHANGED held
    <2>1. ApprovedStay /\ PendingStay
        BY <1>3 DEF ApprovedStay, PendingStay, rows
    <2>2. \A u \in Thread : Deciding(u)'
        BY <1>0, <1>1, <1>3, <2>1, OthersDeciding DEF threads, SameThread
    <2> QED BY <1>0, <1>1, <1>3, <2>1, <2>2, GrantedStays
<1>4. CASE Crash
    <2>1. ApprovedStay /\ held' = held
        BY <1>4 DEF ApprovedStay, Crash, rows
    <2>2. ASSUME NEW t \in Thread PROVE Deciding(t)'
        <3>1. /\ pc'[t] = "idle" /\ req'[t].op = "none" /\ loc'[t].stale = {}
              /\ loc'[t].give = {}
            BY <1>4 DEF Crash, NoCall, NoLocal
        <3> QED BY <3>1, NotDeciding
    <2> QED BY <1>0, <1>1, <2>1, <2>2, GrantedStays
<1> QED BY <1>2, <1>3, <1>4 DEF Next, Step, Tick, Refused, vars, threads, rows

(* Where one thread decides, a request that was denied or expired gave no  *)
(* capability, and an approved one only its child, wherever an approve died.*)
THEOREM OneGrantPerApprovalHolds == Spec => []OneGrantPerApproval
<1>1. Init => GrantInv
    <2> SUFFICES ASSUME Init PROVE GrantInv
        OBVIOUS
    <2>1. ASSUME NEW t \in Thread PROVE Deciding(t)
        <3>1. /\ pc[t] = "idle" /\ req[t].op = "none" /\ loc[t].stale = {} /\ loc[t].give = {}
            BY InitIdle DEF NoLocal
        <3> QED BY <3>1 DEF Deciding
    <2>2. held = {}
        BY DEF Init
    <2> QED BY <2>1, <2>2 DEF GrantInv
<1>2. GrantInv => OneGrantPerApproval
    BY DEF GrantInv, Granted, Deciders, OneGrantPerApproval
<1> QED BY <1>1, <1>2, GrantNext, IInvHolds, PTL DEF Spec

=============================================================================
