----------------------- MODULE DelegationEngineProofs -----------------------
(* Theorems about DelegationEngine, for every number of workers, tokens,   *)
(* approvals and scopes.                                                   *)
EXTENDS DelegationEngine, TLAPS

(* Every signed JWT narrows each token of its chain, and the chain is the  *)
(* chain of custody: what Narrowing and ChainOfCustody say of one token,   *)
(* hop by hop.                                                             *)
HopOK(j, i) ==
    LET c == claims[j]
        a == c.chain[i]
    IN
    /\ a \in records
    /\ c.scopes \subseteq claims[a].scopes
    /\ c.exp <= claims[a].exp
    /\ claims[a].chain = SubSeq(c.chain, 1, i - 1)
    /\ claims[a].maxDepth = c.maxDepth

TokenOK(j) ==
    /\ claims[j].depth = Len(claims[j].chain)
    /\ claims[j].depth <= claims[j].maxDepth
    /\ claims[j].root = Append(claims[j].chain, j)[1]
    /\ \A i \in 1 .. Len(claims[j].chain) : HopOK(j, i)

TokensOK ==
    /\ records \subseteq signed
    /\ \A j \in signed : TokenOK(j)

(* A parked request asks for nothing its parent could not grant, and keeps *)
(* the expiry of the parent.                                               *)
AskedOK ==
    \A a \in Approval :
        /\ gate[a].status # "absent" => asked[a].parent # None
        /\ asked[a].parent # None =>
             /\ asked[a].parent \in records
             /\ MayDelegate(asked[a].parent, asked[a].scopes)
             /\ asked[a].parentExp = claims[asked[a].parent].exp

(* What a handler relies on between its steps.                             *)
HandlerOK(w) ==
    /\ pc[w] \in {"lookup", "mint"} => req[w].tok \in records
    /\ pc[w] \in {"load", "sign", "decide", "expire", "refresh", "mark"} =>
         req[w].appr \in Approval /\ asked[req[w].appr].parent # None
    /\ pc[w] = "decide" /\ req[w].op = "approve" => txn[w].tokens # {}
    /\ \A a \in loc[w].stale : asked[a].parent # None
    /\ txn[w].tokens \subseteq signed
    /\ \A a \in Approval :
         /\ txn[w].status[a] # "keep" => asked[a].parent # None
         /\ txn[w].status[a] = "approved" => txn[w].tokens # {}

HandlersOK == \A w \in Worker : HandlerOK(w)

IInv == TypeOK /\ TokensOK /\ AskedOK /\ HandlersOK

LEMMA InitType == Init => TypeOK
BY EngineAssumption DEF Init, TypeOK, Claims, Ask, Row, Label, Request, Local, Staged,
   Status, Endpoint, NoRequest, NoLocal, NoWrites

LEMMA InitInv == Init => IInv
<1> SUFFICES ASSUME Init PROVE IInv
    OBVIOUS
<1>1. TypeOK
    BY InitType
<1>2. TokensOK
    BY DEF Init, TokensOK
<1>3. AskedOK
    BY DEF Init, AskedOK
<1>4. HandlersOK
    BY DEF Init, HandlersOK, HandlerOK, NoLocal, NoWrites
<1> QED BY <1>1, <1>2, <1>3, <1>4 DEF IInv

(* End leaves a thread idle with nothing staged.                           *)
LEMMA EndInv ==
    ASSUME IInv, NEW w \in Worker, End(w), UNCHANGED <<world, db>>
    PROVE  IInv'
<1>1. TypeOK'
    BY DEF IInv, TypeOK, End, world, db, Label, Request, Local, Staged, Endpoint,
       NoRequest, NoLocal, NoWrites, Status
<1>2. TokensOK'
    BY DEF IInv, TokensOK, TokenOK, HopOK, world, db
<1>3. AskedOK'
    BY DEF IInv, AskedOK, MayDelegate, world, db
<1>4. HandlersOK'
    BY DEF IInv, TypeOK, HandlersOK, HandlerOK, End, world, db, NoLocal, NoWrites
<1> QED BY <1>1, <1>2, <1>3, <1>4 DEF IInv

-----------------------------------------------------------------------------
(* Signing.                                                                *)

LEMMA LesserIsLower ==
    ASSUME NEW m \in Nat, NEW n \in Nat
    PROVE  Lesser(m, n) \in Nat /\ Lesser(m, n) <= m /\ Lesser(m, n) <= n
BY DEF Lesser

LEMMA SecondsNat == ASSUME now \in Nat PROVE Seconds \in Nat
BY DEF Seconds

(* A token that was signed keeps what it says, and what holds of it.       *)
LEMMA SignKeeps ==
    ASSUME IInv, NEW j \in Fresh, NEW c, Sign(j, c), UNCHANGED records
    PROVE  /\ \A k \in signed : claims'[k] = claims[k]
           /\ \A k \in signed : TokenOK(k)'
<1>1. \A k \in signed : claims'[k] = claims[k]
    BY DEF IInv, TypeOK, Sign, Fresh
<1>2. ASSUME NEW k \in signed PROVE TokenOK(k)'
    <2>1. claims'[k] = claims[k] /\ k \in Jti /\ TokenOK(k)
        BY <1>1 DEF IInv, TypeOK, TokensOK
    <2>2. ASSUME NEW i \in 1 .. Len(claims[k].chain) PROVE HopOK(k, i)'
        <3>1. HopOK(k, i)
            BY <2>1 DEF TokenOK
        <3>2. claims[k].chain[i] \in signed
            BY <3>1 DEF HopOK, IInv, TokensOK
        <3>3. claims'[claims[k].chain[i]] = claims[claims[k].chain[i]]
            BY <3>2, <1>1
        <3> QED BY <3>1, <3>3, <2>1 DEF HopOK
    <2> QED BY <2>1, <2>2 DEF TokenOK
<1> QED BY <1>1, <1>2

(* A child of a committed token narrows it, and with it its whole chain.   *)
LEMMA ChildOK ==
    ASSUME IInv, NEW p \in records, NEW j \in Fresh, NEW scopes \in SUBSET Scope,
           NEW exp \in Nat, NEW a \in Approval \cup {None},
           MayDelegate(p, scopes), exp <= claims[p].exp,
           Sign(j, ChildClaims(p, scopes, exp, a)), UNCHANGED records
    PROVE  /\ claims' \in [Jti -> Claims]
           /\ signed' \subseteq Jti
           /\ TokensOK'
<1> DEFINE c == ChildClaims(p, scopes, exp, a)
<1>1. p \in signed /\ p \in Jti /\ j \in Jti /\ j # p /\ claims[p] \in Claims
    BY DEF IInv, TypeOK, TokensOK, Fresh
<1>2. c \in Claims
    BY <1>1 DEF Claims, ChildClaims
<1>3. claims' \in [Jti -> Claims] /\ signed' \subseteq Jti
    BY <1>1, <1>2 DEF IInv, TypeOK, Sign
<1>4. claims'[j] = c /\ claims'[p] = claims[p]
    BY <1>1 DEF Sign, IInv, TypeOK
<1>5. TokenOK(p) /\ claims[p].chain \in Seq(Jti)
    BY <1>1 DEF IInv, TokensOK, Claims
<1>6. /\ c.chain = Append(claims[p].chain, p)
      /\ Len(c.chain) = Len(claims[p].chain) + 1
      /\ c.chain \in Seq(Jti)
      /\ c.chain[Len(c.chain)] = p
      /\ \A i \in 1 .. Len(claims[p].chain) : c.chain[i] = claims[p].chain[i]
    BY <1>1, <1>5 DEF ChildClaims
<1>7. SubSeq(c.chain, 1, Len(claims[p].chain)) = claims[p].chain
    BY <1>1, <1>5, <1>6
<1>8. ASSUME NEW i \in 1 .. Len(c.chain) PROVE HopOK(j, i)'
    <2>1. CASE i = Len(c.chain)
        BY <2>1, <1>1, <1>4, <1>5, <1>6, <1>7 DEF HopOK, ChildClaims, MayDelegate
    <2>2. CASE i # Len(c.chain)
        <3>1. i \in 1 .. Len(claims[p].chain)
            BY <2>2, <1>6, <1>5
        <3>2. HopOK(p, i)
            BY <3>1, <1>5 DEF TokenOK
        <3>3. claims[p].chain[i] \in signed
            BY <3>2 DEF HopOK, IInv, TokensOK
        <3>5. SubSeq(c.chain, 1, i - 1) = SubSeq(claims[p].chain, 1, i - 1)
            BY <3>1, <1>1, <1>5, <1>6
        <3>6. c.scopes \subseteq claims[p].scopes /\ c.exp <= claims[p].exp
              /\ c.maxDepth = claims[p].maxDepth
            BY DEF ChildClaims, MayDelegate
        <3>7. claims[claims[p].chain[i]].exp \in Nat /\ claims[p].exp \in Nat /\ c.exp \in Nat
            BY <1>1, <1>2, <3>3 DEF IInv, TypeOK, TokensOK, Claims
        <3> DEFINE b == claims[p].chain[i]
        <3>8. /\ b \in records
              /\ c.scopes \subseteq claims[b].scopes
              /\ claims[b].chain = SubSeq(c.chain, 1, i - 1)
              /\ claims[b].maxDepth = c.maxDepth
            BY <3>2, <3>5, <3>6 DEF HopOK
        <3>9. c.exp <= claims[b].exp
            BY <3>2, <3>6, <3>7 DEF HopOK
        <3>10. c.chain[i] = b /\ claims'[b] = claims[b]
            BY <3>1, <3>3, <1>6, SignKeeps
        <3> HIDE DEF c, b
        <3> QED BY <3>8, <3>9, <3>10, <1>4 DEF HopOK
    <2> QED BY <2>1, <2>2
<1>9. TokenOK(j)'
    <2>1. claims'[j].depth = Len(claims'[j].chain)
        BY <1>4, <1>5, <1>6 DEF ChildClaims, TokenOK
    <2>2. claims'[j].depth <= claims'[j].maxDepth
        BY <1>4 DEF ChildClaims, MayDelegate
    <2>3. claims'[j].root = Append(claims'[j].chain, j)[1]
        BY <1>1, <1>4, <1>5, <1>6 DEF ChildClaims, TokenOK
    <2> QED BY <2>1, <2>2, <2>3, <1>8, <1>4 DEF TokenOK
<1> QED BY <1>3, <1>9, SignKeeps DEF TokensOK, IInv, Sign

-----------------------------------------------------------------------------
(* The steps.                                                              *)

(* A step that signs, parks and commits nothing keeps what holds of the    *)
(* tokens and of the requests.                                             *)
LEMMA Frame ==
    ASSUME IInv, UNCHANGED <<signed, claims, asked, records, gate>>
    PROVE  TokensOK' /\ AskedOK'
<1>1. TokensOK'
    BY DEF IInv, TokensOK, TokenOK, HopOK
<1>2. AskedOK'
    BY DEF IInv, AskedOK, MayDelegate
<1> QED BY <1>1, <1>2

(* A handler that does not move relies on what only grows.                 *)
LEMMA OthersKeep ==
    ASSUME IInv, NEW v \in Worker,
           pc'[v] = pc[v], req'[v] = req[v], loc'[v] = loc[v], txn'[v] = txn[v],
           records \subseteq records', signed \subseteq signed',
           \A a \in Approval : asked[a].parent # None => asked'[a] = asked[a]
    PROVE  HandlerOK(v)'
<1>1. HandlerOK(v) /\ loc[v].stale \subseteq Approval
    BY DEF IInv, HandlersOK, TypeOK, Local
<1> QED BY <1>1 DEF HandlerOK

LEMMA ArriveInv ==
    ASSUME IInv, NEW w \in Worker, NEW r \in Request, NEW l \in Label,
           NEW local \in Local, NEW seen \in SUBSET Jti,
           Arrive(w, r, l, local, seen),
           UNCHANGED <<now, signed, claims, asked, db, txn>>,
           audit' \subseteq AuditRow,
           l \in {"lookup", "load", "decide", "expire", "refresh", "walk"},
           l = "lookup" => r.tok \in records,
           l \in {"load", "decide", "expire", "refresh"} =>
               r.appr \in Approval /\ asked[r.appr].parent # None,
           l = "decide" => r.op = "deny",
           \A a \in local.stale : asked[a].parent # None
    PROVE  IInv'
<1>1. TypeOK'
    BY DEF IInv, TypeOK, Arrive, Goto, db
<1>2. TokensOK' /\ AskedOK'
    BY Frame DEF db
<1>3. HandlersOK'
    <2>1. ASSUME NEW v \in Worker, v # w PROVE HandlerOK(v)'
        BY <2>1, OthersKeep DEF IInv, TypeOK, Arrive, Goto, db
    <2>2. HandlerOK(w)'
        BY DEF IInv, TypeOK, HandlersOK, HandlerOK, Arrive, Goto, db
    <2> QED BY <2>1, <2>2 DEF HandlersOK
<1> QED BY <1>1, <1>2, <1>3 DEF IInv

LEMMA LookupsType ==
    ASSUME IInv, NEW j \in records
    PROVE  Lookups(j) \in Seq(Jti)
BY DEF IInv, TypeOK, Claims, Lookups

LEMMA BlankTypes == NoRequest \in Request /\ NoLocal \in Local
<1>1. NoRequest \in Request
    BY DEF NoRequest, Request
<1>2. NoLocal \in Local
    BY DEF NoLocal, Local
<1> QED BY <1>1, <1>2

LEMMA ApprovalRequest ==
    ASSUME NEW a \in Approval, NEW op \in Endpoint
    PROVE  [NoRequest EXCEPT !.op = op, !.appr = a] \in Request
BY DEF NoRequest, Request

LEMMA OpenInv ==
    ASSUME IInv, NEW w \in Worker, Open(w)
    PROVE  IInv'
<1>1. CASE MintRoot(w)
    <2>1. PICK j \in Fresh, scopes \in SUBSET Scope, ttl \in TTLs, depth \in Depths :
             /\ Arrive(w, [NoRequest EXCEPT !.op = "root", !.scopes = scopes, !.ttl = ttl],
                       "commit", NoLocal, {})
             /\ Sign(j, RootClaims(j, scopes, ttl, depth))
             /\ Stage(w, [txn[w] EXCEPT !.tokens = {j}])
             /\ Log({<<"root_token_minted", j>>})
             /\ UNCHANGED <<now, asked, db>>
        BY <1>1 DEF MintRoot
    <2>2. j \in Jti /\ j \notin signed /\ ttl \in Nat /\ depth \in Nat
        BY EngineAssumption DEF Fresh
    <2>3. RootClaims(j, scopes, ttl, depth) \in Claims
        <3>1. Lesser(ttl, MaxTTL) \in Nat /\ Seconds \in Nat
            BY <2>2, EngineAssumption, LesserIsLower, SecondsNat DEF IInv, TypeOK
        <3>2. Seconds + Lesser(ttl, MaxTTL) \in Nat
            BY <3>1
        <3> QED BY <2>2, <3>2 DEF RootClaims, Claims
    <2>4. TypeOK'
        <3>1. claims' \in [Jti -> Claims] /\ signed' \subseteq Jti
            <4>1. claims \in [Jti -> Claims] /\ signed \subseteq Jti
                BY DEF IInv, TypeOK
            <4>2. claims' = [claims EXCEPT ![j] = RootClaims(j, scopes, ttl, depth)]
                  /\ signed' = signed \cup {j}
                BY <2>1 DEF Sign
            <4> QED BY <4>1, <4>2, <2>2, <2>3
        <3>2. txn' \in [Worker -> Staged]
            <4>1. txn \in [Worker -> Staged]
                BY DEF IInv, TypeOK
            <4>2. [txn[w] EXCEPT !.tokens = {j}] \in Staged
                BY <4>1, <2>2 DEF Staged
            <4>3. txn' = [txn EXCEPT ![w] = [txn[w] EXCEPT !.tokens = {j}]]
                BY <2>1 DEF Stage
            <4> QED BY <4>1, <4>2, <4>3
        <3>3. pc' \in [Worker -> Label]
            BY <2>1 DEF IInv, TypeOK, Arrive, Goto, Label
        <3>4. req' \in [Worker -> Request]
            BY <2>1, <2>2 DEF IInv, TypeOK, Arrive, Request, NoRequest, Endpoint
        <3>5. loc' \in [Worker -> Local] /\ known' \in [Worker -> SUBSET Jti]
            BY <2>1 DEF IInv, TypeOK, Arrive, Local, NoLocal
        <3>6. audit' \subseteq AuditRow
            BY <2>1, <2>2 DEF IInv, TypeOK, Log, AuditRow
        <3> QED BY <2>1, <3>1, <3>2, <3>3, <3>4, <3>5, <3>6 DEF IInv, TypeOK, db
    <2>5. TokenOK(j)'
        <3>1. claims'[j] = RootClaims(j, scopes, ttl, depth)
            BY <2>1, <2>2 DEF IInv, TypeOK, Sign
        <3> QED BY <3>1, <2>2 DEF TokenOK, RootClaims
    <2>6. \A k \in signed : claims'[k] = claims[k] /\ TokenOK(k)'
        BY <2>1, SignKeeps DEF db
    <2>7. TokensOK'
        BY <2>1, <2>5, <2>6 DEF IInv, TokensOK, Sign, db
    <2>8. AskedOK'
        BY <2>1, <2>6 DEF IInv, TokensOK, AskedOK, MayDelegate, db
    <2>9. HandlersOK'
        <3>1. ASSUME NEW v \in Worker, v # w PROVE HandlerOK(v)'
            BY <2>1, <3>1, OthersKeep DEF IInv, TypeOK, Arrive, Sign, Stage, Goto, db
        <3>2. HandlerOK(w)'
            BY <2>1 DEF IInv, TypeOK, HandlersOK, HandlerOK, Arrive, Sign, Stage, Goto, db,
               NoLocal, Staged
        <3> QED BY <3>1, <3>2 DEF HandlersOK
    <2> QED BY <2>4, <2>7, <2>8, <2>9 DEF IInv
<1>2. CASE Delegate(w)
    <2>1. PICK j \in records, scopes \in SUBSET Scope, ttl \in TTLs :
             /\ Arrive(w, [NoRequest EXCEPT !.op = "delegate", !.tok = j,
                                            !.scopes = scopes, !.ttl = ttl],
                       "lookup", [NoLocal EXCEPT !.todo = Lookups(j)], revoked)
             /\ UNCHANGED <<world, db, txn>>
        BY <1>2 DEF Delegate
    <2>2. [NoRequest EXCEPT !.op = "delegate", !.tok = j, !.scopes = scopes, !.ttl = ttl]
             \in Request
        BY EngineAssumption DEF NoRequest, Request, Endpoint, IInv, TypeOK
    <2>3. [NoLocal EXCEPT !.todo = Lookups(j)] \in Local
        BY LookupsType DEF NoLocal, Local, IInv, TypeOK
    <2> DEFINE r == [NoRequest EXCEPT !.op = "delegate", !.tok = j,
                                    !.scopes = scopes, !.ttl = ttl]
               local == [NoLocal EXCEPT !.todo = Lookups(j)]
    <2>4. /\ Arrive(w, r, "lookup", local, revoked)
          /\ r \in Request /\ local \in Local /\ local.stale = {}
          /\ r.tok \in records
        BY <2>1, <2>2, <2>3 DEF NoRequest, NoLocal
    <2>5. /\ UNCHANGED <<now, signed, claims, asked, db, txn>>
          /\ audit' \subseteq AuditRow /\ revoked \in SUBSET Jti /\ "lookup" \in Label
        BY <2>1 DEF world, IInv, TypeOK, Label
    <2> HIDE DEF r, local
    <2> QED BY <2>4, <2>5, ArriveInv
<1>3. CASE Verify(w)
    <2>1. PICK j \in records, s \in Scope :
             /\ Arrive(w, [NoRequest EXCEPT !.op = "verify", !.tok = j, !.scopes = {s}],
                       "lookup", [NoLocal EXCEPT !.todo = Lookups(j)], revoked)
             /\ UNCHANGED <<world, db, txn>>
        BY <1>3 DEF Verify
    <2>2. [NoRequest EXCEPT !.op = "verify", !.tok = j, !.scopes = {s}] \in Request
        BY DEF NoRequest, Request, Endpoint, IInv, TypeOK
    <2>3. [NoLocal EXCEPT !.todo = Lookups(j)] \in Local
        BY LookupsType DEF NoLocal, Local, IInv, TypeOK
    <2> DEFINE r == [NoRequest EXCEPT !.op = "verify", !.tok = j, !.scopes = {s}]
               local == [NoLocal EXCEPT !.todo = Lookups(j)]
    <2>4. /\ Arrive(w, r, "lookup", local, revoked)
          /\ r \in Request /\ local \in Local /\ local.stale = {}
          /\ r.tok \in records
        BY <2>1, <2>2, <2>3 DEF NoRequest, NoLocal
    <2>5. /\ UNCHANGED <<now, signed, claims, asked, db, txn>>
          /\ audit' \subseteq AuditRow /\ revoked \in SUBSET Jti /\ "lookup" \in Label
        BY <2>1 DEF world, IInv, TypeOK, Label
    <2> HIDE DEF r, local
    <2> QED BY <2>4, <2>5, ArriveInv
<1>4. CASE Approve(w)
    <2>1. PICK a \in Approval :
             /\ LoadPending(a)
             /\ Arrive(w, [NoRequest EXCEPT !.op = "approve", !.appr = a], "load",
                       NoLocal, revoked)
             /\ UNCHANGED <<world, db, txn>>
        BY <1>4 DEF Approve
    <2>2. [NoRequest EXCEPT !.op = "approve", !.appr = a] \in Request
        BY ApprovalRequest DEF Endpoint
    <2>3. asked[a].parent # None
        BY <2>1 DEF LoadPending, IInv, AskedOK
    <2> DEFINE r == [NoRequest EXCEPT !.op = "approve", !.appr = a]
               local == NoLocal
    <2>4. /\ Arrive(w, r, "load", local, revoked)
          /\ r \in Request /\ local \in Local /\ local.stale = {}
          /\ r.appr = a /\ a \in Approval /\ asked[r.appr].parent # None
        BY <2>1, <2>2, <2>3, BlankTypes DEF NoRequest, NoLocal
    <2>5. /\ UNCHANGED <<now, signed, claims, asked, db, txn>>
          /\ audit' \subseteq AuditRow /\ revoked \in SUBSET Jti /\ "load" \in Label
        BY <2>1 DEF world, IInv, TypeOK, Label
    <2> HIDE DEF r, local
    <2> QED BY <2>4, <2>5, ArriveInv
<1>5. CASE Deny(w)
    <2>1. PICK a \in Approval :
             /\ LoadPending(a)
             /\ Arrive(w, [NoRequest EXCEPT !.op = "deny", !.appr = a], "decide",
                       NoLocal, revoked)
             /\ UNCHANGED <<world, db, txn>>
        BY <1>5 DEF Deny
    <2>2. [NoRequest EXCEPT !.op = "deny", !.appr = a] \in Request
        BY ApprovalRequest DEF Endpoint
    <2>3. asked[a].parent # None
        BY <2>1 DEF LoadPending, IInv, AskedOK
    <2> DEFINE r == [NoRequest EXCEPT !.op = "deny", !.appr = a]
               local == NoLocal
    <2>4. /\ Arrive(w, r, "decide", local, revoked)
          /\ r \in Request /\ local \in Local /\ local.stale = {}
          /\ r.appr = a /\ a \in Approval /\ asked[r.appr].parent # None /\ r.op = "deny"
        BY <2>1, <2>2, <2>3, BlankTypes DEF NoRequest, NoLocal
    <2>5. /\ UNCHANGED <<now, signed, claims, asked, db, txn>>
          /\ audit' \subseteq AuditRow /\ revoked \in SUBSET Jti /\ "decide" \in Label
        BY <2>1 DEF world, IInv, TypeOK, Label
    <2> HIDE DEF r, local
    <2> QED BY <2>4, <2>5, ArriveInv
<1>6. CASE Collect(w)
    <2> DEFINE stale == {b \in Approval : Stale(b)}
    <2>1. PICK a \in Approval :
             /\ gate[a].status # "absent"
             /\ Arrive(w, [NoRequest EXCEPT !.op = "collect", !.appr = a],
                       IF stale = {} THEN "refresh" ELSE "expire",
                       [NoLocal EXCEPT !.stale = stale], revoked)
             /\ Log({<<"approval_expired", b>> : b \in stale})
             /\ UNCHANGED <<now, signed, claims, asked, db, txn>>
        BY <1>6 DEF Collect
    <2>2. [NoRequest EXCEPT !.op = "collect", !.appr = a] \in Request
        BY ApprovalRequest DEF Endpoint
    <2>6. [NoLocal EXCEPT !.stale = stale] \in Local
        BY BlankTypes DEF Local
    <2>3. asked[a].parent # None /\ \A b \in stale : asked[b].parent # None
        BY <2>1 DEF Stale, IInv, AskedOK
    <2>4. audit' \subseteq AuditRow
        BY <2>1 DEF IInv, TypeOK, Log, AuditRow
    <2>5. (IF stale = {} THEN "refresh" ELSE "expire") \in {"refresh", "expire"}
        OBVIOUS
    <2> DEFINE r == [NoRequest EXCEPT !.op = "collect", !.appr = a]
               local == [NoLocal EXCEPT !.stale = stale]
               l == IF stale = {} THEN "refresh" ELSE "expire"
    <2>7. /\ Arrive(w, r, l, local, revoked)
          /\ r \in Request /\ local \in Local /\ local.stale = stale
          /\ r.appr = a /\ a \in Approval
        BY <2>1, <2>2, <2>6 DEF NoRequest, NoLocal
    <2>8. /\ UNCHANGED <<now, signed, claims, asked, db, txn>>
          /\ revoked \in SUBSET Jti /\ l \in {"refresh", "expire"} /\ l \in Label
        BY <2>1, <2>5 DEF IInv, TypeOK, Label
    <2> HIDE DEF r, local, l, stale
    <2> QED BY <2>3, <2>4, <2>7, <2>8, ArriveInv
<1>7. CASE Revoke(w)
    <2>1. PICK j \in records :
             /\ Arrive(w, [NoRequest EXCEPT !.op = "revoke", !.tok = j], "walk",
                       [NoLocal EXCEPT !.seen = {j}, !.level = {j}], Descendants(j))
             /\ UNCHANGED <<world, db, txn>>
        BY <1>7 DEF Revoke
    <2>2. [NoRequest EXCEPT !.op = "revoke", !.tok = j] \in Request
        BY DEF NoRequest, Request, Endpoint, IInv, TypeOK
    <2>3. [NoLocal EXCEPT !.seen = {j}, !.level = {j}] \in Local
        BY BlankTypes DEF Local, IInv, TypeOK
    <2>6. Descendants(j) \in SUBSET Jti
        BY DEF Descendants, IInv, TypeOK
    <2> DEFINE r == [NoRequest EXCEPT !.op = "revoke", !.tok = j]
               local == [NoLocal EXCEPT !.seen = {j}, !.level = {j}]
    <2>4. /\ Arrive(w, r, "walk", local, Descendants(j))
          /\ r \in Request /\ local \in Local /\ local.stale = {}
          /\ r.tok \in records
        BY <2>1, <2>2, <2>3 DEF NoRequest, NoLocal
    <2>5. /\ UNCHANGED <<now, signed, claims, asked, db, txn>>
          /\ audit' \subseteq AuditRow /\ Descendants(j) \in SUBSET Jti /\ "walk" \in Label
        BY <2>1, <2>6 DEF world, IInv, TypeOK, Label
    <2> HIDE DEF r, local
    <2> QED BY <2>4, <2>5, ArriveInv
<1> QED BY <1>1, <1>2, <1>3, <1>4, <1>5, <1>6, <1>7 DEF Open

(* A handler moves on, and the tokens and the requests stay as they are.   *)
LEMMA MoveInv ==
    ASSUME IInv, NEW w \in Worker, TypeOK',
           UNCHANGED <<signed, claims, asked, records, gate>>,
           \A v \in Worker \ {w} : /\ pc'[v] = pc[v] /\ req'[v] = req[v]
                                   /\ loc'[v] = loc[v] /\ txn'[v] = txn[v],
           HandlerOK(w)'
    PROVE  IInv'
<1>1. TokensOK' /\ AskedOK'
    BY Frame
<1>2. ASSUME NEW v \in Worker, v # w PROVE HandlerOK(v)'
    BY <1>2, OthersKeep
<1> QED BY <1>1, <1>2 DEF IInv, HandlersOK

LEMMA ReadInv ==
    ASSUME IInv, NEW w \in Worker, UNCHANGED <<world, db, req, txn, known>>,
           NEW l \in Label, NEW local \in Local,
           pc' = [pc EXCEPT ![w] = l], loc' = [loc EXCEPT ![w] = local],
           local.stale = loc[w].stale,
           l \in {"lookup", "mint"} => pc[w] \in {"lookup", "mint"},
           l \in {"load", "sign", "decide", "expire", "refresh", "mark"} =>
               pc[w] \in {"load", "sign", "decide", "expire", "refresh", "mark"},
           l # "decide"
    PROVE  IInv'
<1>1. TypeOK'
    BY DEF IInv, TypeOK, world, db
<1>2. HandlerOK(w)'
    BY DEF IInv, TypeOK, HandlersOK, HandlerOK, world, db
<1>3. \A v \in Worker \ {w} : /\ pc'[v] = pc[v] /\ req'[v] = req[v]
                              /\ loc'[v] = loc[v] /\ txn'[v] = txn[v]
    BY DEF IInv, TypeOK
<1> QED BY <1>1, <1>2, <1>3, MoveInv DEF world, db

(* A handler moves on and reads nothing it keeps.                          *)
LEMMA GotoInv ==
    ASSUME IInv, NEW w \in Worker, UNCHANGED <<world, db, req, loc, txn, known>>,
           NEW l \in Label, Goto(w, l),
           l \in {"lookup", "mint"} => pc[w] \in {"lookup", "mint"},
           l \in {"load", "sign", "decide", "expire", "refresh", "mark"} =>
               pc[w] \in {"load", "sign", "decide", "expire", "refresh", "mark"},
           l # "decide"
    PROVE  IInv'
<1>1. loc' = [loc EXCEPT ![w] = loc[w]] /\ loc[w] \in Local
    BY DEF IInv, TypeOK
<1> QED BY <1>1, ReadInv DEF Goto

(* A handler stages a write and audits it.                                 *)
LEMMA StageInv ==
    ASSUME IInv, NEW w \in Worker,
           UNCHANGED <<now, signed, claims, asked, db, req, loc, known>>,
           NEW l \in {"refresh", "commit"}, Goto(w, l), pc[w] # "walk",
           l = "refresh" => pc[w] = "expire",
           NEW t \in Staged, Stage(w, t), audit' \subseteq AuditRow,
           t.tokens = txn[w].tokens,
           \A a \in Approval : t.status[a] # txn[w].status[a] =>
               /\ asked[a].parent # None
               /\ t.status[a] = "approved" => t.tokens # {}
    PROVE  IInv'
<1>1. TypeOK'
    BY DEF IInv, TypeOK, Label, Goto, Stage, db
<1>2. txn'[w] = t /\ pc'[w] = l
    BY DEF IInv, TypeOK, Goto, Stage
<1>3. HandlerOK(w)
    BY DEF IInv, HandlersOK
<1>4. HandlerOK(w)'
    BY <1>2, <1>3 DEF HandlerOK, db
<1>5. \A v \in Worker \ {w} : /\ pc'[v] = pc[v] /\ req'[v] = req[v]
                              /\ loc'[v] = loc[v] /\ txn'[v] = txn[v]
    BY DEF IInv, TypeOK, Goto, Stage
<1> QED BY <1>1, <1>4, <1>5, MoveInv DEF db

(* A child is signed below a committed token and staged with its edge.     *)
LEMMA MintInv ==
    ASSUME IInv, NEW w \in Worker, NEW p \in records, NEW j \in Fresh,
           NEW scopes \in SUBSET Scope, NEW ttl \in Nat, NEW a \in Approval \cup {None},
           MayDelegate(p, scopes),
           Sign(j, ChildClaims(p, scopes, ChildExp(ttl, claims[p].exp), a)),
           Persist(w, p, j), audit' \subseteq AuditRow,
           UNCHANGED <<now, asked, db, req, loc, known>>,
           NEW l \in {"commit", "decide"}, Goto(w, l), l = "decide" => pc[w] = "sign"
    PROVE  IInv'
<1> DEFINE exp == ChildExp(ttl, claims[p].exp)
<1>1. p \in Jti /\ j \in Jti /\ p \in signed /\ claims[p].exp \in Nat
    BY DEF IInv, TypeOK, TokensOK, Claims, Fresh
<1>2. exp \in Nat /\ exp <= claims[p].exp
    <2>1. Seconds + ttl \in Nat
        BY SecondsNat DEF IInv, TypeOK
    <2> QED BY <2>1, <1>1, LesserIsLower DEF ChildExp
<1>3. claims' \in [Jti -> Claims] /\ signed' \subseteq Jti /\ TokensOK'
    <2> HIDE DEF exp
    <2> QED BY <1>2, ChildOK DEF db, exp
<1>4. TypeOK'
    <2>1. [txn[w] EXCEPT !.tokens = {j}, !.edges = {<<p, j>>}] \in Staged
        <3>1. txn[w] \in Staged
            BY DEF IInv, TypeOK
        <3>2. {j} \in SUBSET Jti /\ {<<p, j>>} \in SUBSET (Jti \X Jti)
            BY <1>1
        <3> QED BY <3>1, <3>2 DEF Staged
    <2>2. txn' \in [Worker -> Staged]
        BY <2>1 DEF IInv, TypeOK, Persist, Stage
    <2> QED BY <2>2, <1>3 DEF IInv, TypeOK, Goto, Label, db
<1>5. AskedOK'
    BY SignKeeps DEF IInv, TokensOK, AskedOK, MayDelegate, db
<1>6. HandlersOK'
    <2>1. ASSUME NEW v \in Worker, v # w PROVE HandlerOK(v)'
        BY <2>1, OthersKeep DEF IInv, TypeOK, Sign, Persist, Stage, Goto, db
    <2>2. txn'[w].tokens = {j} /\ txn'[w].status = txn[w].status /\ pc'[w] = l
        BY DEF IInv, TypeOK, Persist, Stage, Staged, Goto
    <2>3. HandlerOK(w)
        BY DEF IInv, HandlersOK
    <2>4. HandlerOK(w)'
        BY <2>2, <2>3 DEF HandlerOK, Sign, db
    <2> QED BY <2>1, <2>4 DEF HandlersOK
<1> QED BY <1>3, <1>4, <1>5, <1>6 DEF IInv

LEMMA AdvanceInv ==
    ASSUME IInv, NEW w \in Worker, Advance(w)
    PROVE  IInv'
<1>1. CASE LookupRevoked(w) \/ VerifyLacksScope(w) \/ Respond(w) \/ DelegateRootBroken(w)
           \/ DelegateDenied(w) \/ RevokeConflict(w)
    BY <1>1, EndInv DEF LookupRevoked, VerifyLacksScope, Respond, DelegateRootBroken,
       DelegateDenied, RevokeConflict
<1>2. CASE LookupLive(w)
    <2>1. loc[w] \in Local /\ loc[w].todo \in Seq(Jti)
        BY DEF IInv, TypeOK, Local
    <2>2. [loc[w] EXCEPT !.todo = Tail(loc[w].todo)] \in Local
        <3>1. Tail(loc[w].todo) \in Seq(Jti)
            BY <1>2, <2>1 DEF LookupLive
        <3> QED BY <2>1, <3>1 DEF Local
    <2>3. loc' = [loc EXCEPT ![w] = [loc[w] EXCEPT !.todo = Tail(loc[w].todo)]]
        BY <1>2 DEF LookupLive
    <2>4. pc' = [pc EXCEPT ![w] = "lookup"] /\ pc[w] = "lookup"
        BY <1>2 DEF LookupLive, IInv, TypeOK
    <2>5. [loc[w] EXCEPT !.todo = Tail(loc[w].todo)].stale = loc[w].stale
        BY <2>1 DEF Local
    <2> QED BY <1>2, <2>2, <2>3, <2>4, <2>5, ReadInv DEF LookupLive, Label
<1>3. CASE VerifyAllows(w) \/ DelegateRootAlive(w) \/ ApproveParentLive(w)
    BY <1>3, GotoInv DEF VerifyAllows, DelegateRootAlive, ApproveParentLive, Label
<1>4. CASE CollectRefresh(w)
    <2>1. PICK l \in {"mark", "commit"} : Goto(w, l)
        BY <1>4 DEF CollectRefresh
    <2> QED BY <1>4, <2>1, GotoInv DEF CollectRefresh, Label
<1>5. CASE RevokeLevel(w)
    <2> DEFINE below == Below(w)
               local == [loc[w] EXCEPT !.seen = loc[w].seen \cup below, !.level = below]
    <2>1. loc[w] \in Local /\ below \in SUBSET Jti
        BY DEF IInv, TypeOK, Below
    <2>2. PICK l \in {"already", "walk"} : Goto(w, l)
        BY <1>5 DEF RevokeLevel
    <2>3. loc' = [loc EXCEPT ![w] = local]
        BY <1>5 DEF RevokeLevel
    <2> HIDE DEF below
    <2>4. local \in Local /\ local.stale = loc[w].stale
        BY <2>1 DEF Local
    <2> HIDE DEF local
    <2> QED BY <1>5, <2>2, <2>3, <2>4, ReadInv DEF RevokeLevel, Label, Goto
<1>6. CASE RevokeAlready(w)
    <2> DEFINE local == [loc[w] EXCEPT !.level = loc[w].seen \ revoked]
    <2>1. loc[w] \in Local
        BY DEF IInv, TypeOK
    <2>2. local \in Local /\ local.stale = loc[w].stale
        BY <2>1 DEF Local
    <2>3. loc' = [loc EXCEPT ![w] = local]
        BY <1>6 DEF RevokeAlready
    <2> HIDE DEF local
    <2> QED BY <1>6, <2>2, <2>3, ReadInv DEF RevokeAlready, Label, Goto
<1>7. CASE DelegateMint(w)
    <2>1. PICK j \in Fresh :
             /\ Sign(j, ChildClaims(req[w].tok, req[w].scopes,
                          ChildExp(req[w].ttl, claims[req[w].tok].exp), None))
             /\ Persist(w, req[w].tok, j)
             /\ Log({<<"token_minted", j>>})
        BY <1>7 DEF DelegateMint
    <2>2. audit' \subseteq AuditRow
        BY <2>1 DEF IInv, TypeOK, Log, AuditRow, Fresh
    <2>3. req[w].tok \in records /\ req[w].scopes \in SUBSET Scope /\ req[w].ttl \in Nat
        BY <1>7 DEF DelegateMint, IInv, TypeOK, HandlersOK, HandlerOK, Request
    <2> QED BY <1>7, <2>1, <2>2, <2>3, MintInv DEF DelegateMint
<1>8. CASE ApproveSign(w)
    <2> DEFINE a == req[w].appr
    <2>1. a \in Approval /\ asked[a].parent \in records
          /\ MayDelegate(asked[a].parent, asked[a].scopes)
          /\ asked[a].parentExp = claims[asked[a].parent].exp
        BY <1>8 DEF ApproveSign, IInv, HandlersOK, HandlerOK, AskedOK
    <2>2. asked[a].scopes \in SUBSET Scope /\ asked[a].ttl \in Nat
        BY <2>1 DEF IInv, TypeOK, Ask
    <2>3. PICK j \in Fresh :
             /\ Sign(j, ChildClaims(asked[a].parent, asked[a].scopes,
                          ChildExp(asked[a].ttl, asked[a].parentExp), a))
             /\ Persist(w, asked[a].parent, j)
        BY <1>8 DEF ApproveSign
    <2>4. audit' \subseteq AuditRow
        BY <1>8 DEF ApproveSign, IInv, TypeOK
    <2> QED BY <1>8, <2>1, <2>2, <2>3, <2>4, MintInv DEF ApproveSign
<1>9. CASE DelegatePark(w)
    <2> DEFINE p == req[w].tok
    <2>1. p \in records /\ p \in Jti /\ p # None
        BY <1>9, EngineAssumption DEF DelegatePark, IInv, TypeOK, HandlersOK, HandlerOK
    <2> DEFINE ask == [parent |-> p, scopes |-> req[w].scopes, ttl |-> req[w].ttl,
                       parentExp |-> claims[p].exp,
                       expires |-> Lesser(Seconds + ApprovalTimeout, claims[p].exp)]
    <2>2. PICK a \in FreshApproval :
             /\ asked' = [asked EXCEPT ![a] = ask]
             /\ Stage(w, [txn[w] EXCEPT !.status[a] = "pending"])
             /\ Log({<<"approval_pending", a>>})
        BY <1>9 DEF DelegatePark
    <2>3. a \in Approval /\ asked[a].parent = None
        BY DEF FreshApproval
    <2>4. ask \in Ask
        <3>1. claims[p].exp \in Nat
            BY <2>1 DEF IInv, TypeOK, Claims
        <3>2. Seconds + ApprovalTimeout \in Nat
            BY SecondsNat, EngineAssumption DEF IInv, TypeOK
        <3>3. Lesser(Seconds + ApprovalTimeout, claims[p].exp) \in Nat
            BY <3>1, <3>2, LesserIsLower
        <3>4. req[w].scopes \in SUBSET Scope /\ req[w].ttl \in Nat
            BY DEF IInv, TypeOK, Request
        <3> QED BY <2>1, <3>1, <3>3, <3>4 DEF Ask
    <2>5. MayDelegate(p, ask.scopes) /\ ask.parent = p /\ ask.parentExp = claims[p].exp
        BY <1>9 DEF DelegatePark
    <2> HIDE DEF ask
    <2>6. asked' \in [Approval -> Ask] /\ asked'[a] = ask
          /\ \A b \in Approval \ {a} : asked'[b] = asked[b]
        BY <2>2, <2>3, <2>4 DEF IInv, TypeOK
    <2>7. [txn[w] EXCEPT !.status[a] = "pending"] \in Staged
        <3>1. txn[w] \in Staged
            BY DEF IInv, TypeOK
        <3>2. [txn[w].status EXCEPT ![a] = "pending"] \in [Approval -> Status \cup {"keep"}]
            BY <2>3, <3>1 DEF Staged, Status
        <3> QED BY <3>1, <3>2 DEF Staged
    <2>8. TypeOK'
        <3>1. audit' \subseteq AuditRow
            BY <2>2, <2>3 DEF IInv, TypeOK, Log, AuditRow
        <3>2. pc' \in [Worker -> Label]
            BY <1>9 DEF DelegatePark, IInv, TypeOK, Goto, Label
        <3>3. txn' \in [Worker -> Staged]
            BY <2>2, <2>7 DEF IInv, TypeOK, Stage
        <3>4. UNCHANGED <<now, signed, claims, db, req, loc, known>>
            BY <1>9 DEF DelegatePark
        <3> QED BY <2>6, <3>1, <3>2, <3>3, <3>4 DEF IInv, TypeOK, db
    <2>9. TokensOK'
        BY <1>9 DEF DelegatePark, IInv, TokensOK, TokenOK, HopOK, db
    <2>10. AskedOK'
        BY <1>9, <2>1, <2>3, <2>5, <2>6 DEF DelegatePark, IInv, AskedOK, MayDelegate, db
    <2>11. HandlersOK'
        <3>1. ASSUME NEW v \in Worker, v # w PROVE HandlerOK(v)'
            BY <1>9, <2>2, <2>3, <2>6, <3>1, OthersKeep
            DEF DelegatePark, IInv, TypeOK, Stage, Goto, db
        <3>2. HandlerOK(w)
            BY DEF IInv, HandlersOK
        <3>3. /\ pc'[w] = "commit" /\ req'[w] = req[w] /\ loc'[w] = loc[w]
              /\ txn'[w].tokens = txn[w].tokens
              /\ \A b \in Approval : txn'[w].status[b] = IF b = a THEN "pending"
                                                                 ELSE txn[w].status[b]
            BY <1>9, <2>2, <2>3 DEF DelegatePark, IInv, TypeOK, Stage, Goto, Staged
        <3>4. /\ signed' = signed
              /\ \A b \in Approval : asked[b].parent # None => asked'[b].parent # None
              /\ asked'[a].parent # None
            BY <1>9, <2>1, <2>3, <2>5, <2>6 DEF DelegatePark
        <3>5. loc[w].stale \subseteq Approval
            BY DEF IInv, TypeOK, Local
        <3>6. HandlerOK(w)'
            BY <3>2, <3>3, <3>4, <3>5 DEF HandlerOK
        <3> QED BY <3>1, <3>6 DEF HandlersOK
    <2> QED BY <2>8, <2>9, <2>10, <2>11 DEF IInv
<1>10. CASE Commit(w)
    <2>1. /\ HandlerOK(w) /\ txn[w] \in Staged
          /\ txn[w].tokens \subseteq Jti /\ txn[w].tokens \subseteq signed
        BY DEF IInv, TypeOK, HandlersOK, HandlerOK, Staged
    <2>2. TypeOK'
        <3>1. gate' \in [Approval -> Row]
            <4>1. ASSUME NEW a \in Approval PROVE gate'[a] \in Row
                <5>1. gate[a] \in Row /\ txn[w].status[a] \in Status \cup {"keep"}
                    BY <2>1 DEF IInv, TypeOK, Staged
                <5>2. gate'[a].status \in Status
                    BY <1>10, <5>1 DEF Commit, Row
                <5>3. gate'[a].child \in Jti \cup {None}
                    <6>1. CASE txn[w].status[a] = "approved"
                        <7>1. (CHOOSE j \in txn[w].tokens : TRUE) \in txn[w].tokens
                            BY <2>1, <6>1 DEF HandlerOK
                        <7> QED BY <1>10, <2>1, <6>1, <7>1 DEF Commit
                    <6>2. CASE txn[w].status[a] # "approved"
                        BY <1>10, <5>1, <6>2 DEF Commit, Row
                    <6> QED BY <6>1, <6>2
                <5>4. gate'[a] = [status |-> gate'[a].status, child |-> gate'[a].child,
                                  collected |-> gate'[a].collected]
                      /\ gate'[a].collected \in BOOLEAN
                    BY <1>10 DEF Commit
                <5> QED BY <5>2, <5>3, <5>4 DEF Row
            <4> QED BY <1>10, <4>1 DEF Commit
        <3>2. records' \subseteq Jti /\ edges' \subseteq Jti \X Jti /\ revoked' \subseteq Jti
            BY <1>10, <2>1 DEF Commit, IInv, TypeOK, Staged
        <3>3. /\ pc' \in [Worker -> Label] /\ req' \in [Worker -> Request]
              /\ loc' \in [Worker -> Local] /\ known' \in [Worker -> SUBSET Jti]
            BY <1>10, BlankTypes DEF Commit, End, IInv, TypeOK, Label
        <3>4. txn' \in [Worker -> Staged]
            BY <1>10 DEF Commit, End, IInv, TypeOK, Staged, NoWrites
        <3> QED BY <1>10, <3>1, <3>2, <3>3, <3>4 DEF Commit, IInv, TypeOK, world
    <2>3. TokensOK'
        BY <1>10, <2>1 DEF Commit, IInv, TokensOK, TokenOK, HopOK, world
    <2>4. AskedOK'
        <3>1. ASSUME NEW a \in Approval, gate'[a].status # "absent"
              PROVE  asked[a].parent # None
            BY <1>10, <2>1, <3>1 DEF Commit, IInv, AskedOK, HandlerOK
        <3> QED BY <1>10, <3>1 DEF Commit, IInv, AskedOK, MayDelegate, world
    <2>5. HandlersOK'
        <3>1. ASSUME NEW v \in Worker, v # w PROVE HandlerOK(v)'
            BY <1>10, <3>1, OthersKeep DEF Commit, End, IInv, TypeOK, world
        <3>2. HandlerOK(w)'
            BY <1>10 DEF Commit, End, IInv, TypeOK, HandlerOK, world, NoLocal, NoWrites
        <3> QED BY <3>1, <3>2 DEF HandlersOK
    <2> QED BY <2>2, <2>3, <2>4, <2>5 DEF IInv
<1> QED BY <1>1, <1>2, <1>3, <1>4, <1>5, <1>6, <1>7, <1>8, <1>9, <1>10 DEF Advance

LEMMA WriteInv ==
    ASSUME IInv, NEW w \in Worker, Write(w)
    PROVE  IInv'
<1> DEFINE a == req[w].appr
<1>0. /\ HandlerOK(w) /\ txn[w] \in Staged /\ loc[w] \in Local
      /\ txn[w].tokens \subseteq Jti
    BY DEF IInv, TypeOK, HandlersOK, Staged
<1>1. CASE ApproveParentRevoked(w)
    <2>1. a \in Approval
        BY <1>0, <1>1 DEF ApproveParentRevoked, HandlerOK
    <2>2. audit' \subseteq AuditRow
        BY <1>1, <2>1 DEF ApproveParentRevoked, Log, IInv, TypeOK, AuditRow
    <2>3. TypeOK'
        <3>1. /\ pc' \in [Worker -> Label] /\ req' \in [Worker -> Request]
              /\ loc' \in [Worker -> Local] /\ known' \in [Worker -> SUBSET Jti]
            BY <1>1, BlankTypes DEF ApproveParentRevoked, End, IInv, TypeOK, Label
        <3>2. txn' \in [Worker -> Staged]
            BY <1>1 DEF ApproveParentRevoked, End, IInv, TypeOK, Staged, NoWrites
        <3> QED BY <1>1, <2>2, <3>1, <3>2 DEF ApproveParentRevoked, IInv, TypeOK, db
    <2>4. HandlerOK(w)'
        BY <1>1 DEF ApproveParentRevoked, End, IInv, TypeOK, HandlerOK, NoLocal, NoWrites
    <2> QED BY <1>1, <2>3, <2>4, MoveInv DEF ApproveParentRevoked, End, db
<1>2. CASE ApproveDecide(w)
    <2> DEFINE t == [txn[w] EXCEPT !.status[a] = "approved"]
    <2>1. a \in Approval /\ asked[a].parent # None /\ txn[w].tokens # {}
        BY <1>0, <1>2 DEF ApproveDecide, HandlerOK
    <2>2. t \in Staged /\ t.tokens = txn[w].tokens
          /\ \A b \in Approval \ {a} : t.status[b] = txn[w].status[b]
        <3>1. [txn[w].status EXCEPT ![a] = "approved"] \in [Approval -> Status \cup {"keep"}]
            BY <1>0, <2>1 DEF Staged, Status
        <3> QED BY <1>0, <2>1, <3>1 DEF Staged
    <2>3. audit' \subseteq AuditRow
        BY <1>0, <1>2 DEF ApproveDecide, Log, IInv, TypeOK, AuditRow
    <2>4. Stage(w, t)
        BY <1>2 DEF ApproveDecide
    <2> HIDE DEF t
    <2> QED BY <1>2, <2>1, <2>2, <2>3, <2>4, StageInv DEF ApproveDecide
<1>3. CASE DenyDecide(w)
    <2> DEFINE t == [txn[w] EXCEPT !.status[a] = "denied"]
    <2>1. a \in Approval /\ asked[a].parent # None
        BY <1>0, <1>3 DEF DenyDecide, HandlerOK
    <2>2. t \in Staged /\ t.tokens = txn[w].tokens /\ t.status[a] = "denied"
          /\ \A b \in Approval \ {a} : t.status[b] = txn[w].status[b]
        <3>1. [txn[w].status EXCEPT ![a] = "denied"] \in [Approval -> Status \cup {"keep"}]
            BY <1>0, <2>1 DEF Staged, Status
        <3> QED BY <1>0, <2>1, <3>1 DEF Staged
    <2>3. audit' \subseteq AuditRow
        BY <1>3, <2>1 DEF DenyDecide, Log, IInv, TypeOK, AuditRow
    <2>4. Stage(w, t)
        BY <1>3 DEF DenyDecide
    <2> HIDE DEF t
    <2> QED BY <1>3, <2>1, <2>2, <2>3, <2>4, StageInv DEF DenyDecide
<1>4. CASE CollectExpire(w)
    <2> DEFINE t == [txn[w] EXCEPT !.status =
                       [b \in Approval |-> IF b \in loc[w].stale THEN "expired"
                                                                ELSE txn[w].status[b]]]
    <2>1. \A b \in loc[w].stale : asked[b].parent # None
        BY <1>0 DEF HandlerOK
    <2>2. t \in Staged /\ t.tokens = txn[w].tokens
          /\ \A b \in Approval : t.status[b] = IF b \in loc[w].stale THEN "expired"
                                                                    ELSE txn[w].status[b]
        BY <1>0 DEF Staged, Status
    <2>3. audit' \subseteq AuditRow
        BY <1>4 DEF CollectExpire, world, IInv, TypeOK
    <2>4. Stage(w, t)
        BY <1>4 DEF CollectExpire
    <2> HIDE DEF t
    <2> QED BY <1>4, <2>1, <2>2, <2>3, <2>4, StageInv DEF CollectExpire, world
<1>5. CASE CollectMark(w)
    <2> DEFINE t == [txn[w] EXCEPT !.collected = {a}]
    <2>1. a \in Approval
        BY <1>0, <1>5 DEF CollectMark, HandlerOK
    <2>2. t \in Staged /\ t.tokens = txn[w].tokens /\ t.status = txn[w].status
        BY <1>0, <2>1 DEF Staged
    <2>3. audit' \subseteq AuditRow
        BY <1>5 DEF CollectMark, world, IInv, TypeOK
    <2>4. Stage(w, t)
        BY <1>5 DEF CollectMark
    <2> HIDE DEF t
    <2> QED BY <1>5, <2>2, <2>3, <2>4, StageInv DEF CollectMark, world
<1>6. CASE RevokeInsert(w)
    <2> DEFINE t == [txn[w] EXCEPT !.revoked = loc[w].level]
    <2>1. loc[w].level \subseteq Jti /\ loc[w].seen \subseteq Jti
        BY <1>0 DEF Local
    <2>2. t \in Staged /\ t.tokens = txn[w].tokens /\ t.status = txn[w].status
        BY <1>0, <2>1 DEF Staged
    <2>3. audit' \subseteq AuditRow
        BY <1>6, <2>1 DEF RevokeInsert, Log, IInv, TypeOK, AuditRow
    <2>4. Stage(w, t)
        BY <1>6 DEF RevokeInsert
    <2> HIDE DEF t
    <2> QED BY <1>6, <2>2, <2>3, <2>4, StageInv DEF RevokeInsert
<1>7. CASE ApproveParentExpired(w)
    BY <1>7, EndInv DEF ApproveParentExpired
<1> QED BY <1>1, <1>2, <1>3, <1>4, <1>5, <1>6, <1>7 DEF Write

LEMMA RestartInv ==
    ASSUME IInv, Restart
    PROVE  IInv'
<1>1. TypeOK'
    <2>1. gate' \in [Approval -> Row]
        BY DEF Restart, IInv, TypeOK, Row, Status
    <2>2. audit' \subseteq AuditRow
        BY DEF Restart, IInv, TypeOK, Log, AuditRow
    <2>3. /\ pc' \in [Worker -> Label] /\ req' \in [Worker -> Request]
          /\ loc' \in [Worker -> Local] /\ known' \in [Worker -> SUBSET Jti]
        BY BlankTypes DEF Restart, Label
    <2>4. txn' \in [Worker -> Staged]
        BY DEF Restart, Staged, NoWrites
    <2> QED BY <2>1, <2>2, <2>3, <2>4 DEF Restart, IInv, TypeOK
<1>2. TokensOK'
    BY DEF Restart, IInv, TokensOK, TokenOK, HopOK
<1>3. AskedOK'
    <2>1. \A a \in Approval : gate'[a].status # "absent" => gate[a].status # "absent"
        BY DEF Restart, Stale
    <2> QED BY <2>1 DEF Restart, IInv, AskedOK, MayDelegate
<1>4. HandlersOK'
    BY DEF Restart, HandlersOK, HandlerOK, NoLocal, NoWrites
<1> QED BY <1>1, <1>2, <1>3, <1>4 DEF IInv

LEMMA TickInv ==
    ASSUME IInv, Tick
    PROVE  IInv'
<1>1. TypeOK'
    BY DEF Tick, IInv, TypeOK, db, threads
<1>2. TokensOK' /\ AskedOK'
    BY Frame DEF Tick, db
<1>3. HandlersOK'
    BY DEF Tick, IInv, HandlersOK, HandlerOK, db, threads
<1> QED BY <1>1, <1>2, <1>3 DEF IInv

LEMMA StutterInv ==
    ASSUME IInv, UNCHANGED vars
    PROVE  IInv'
<1>1. TypeOK'
    BY DEF IInv, TypeOK, vars
<1>2. TokensOK' /\ AskedOK'
    BY Frame DEF vars
<1>3. HandlersOK'
    BY DEF IInv, HandlersOK, HandlerOK, vars
<1> QED BY <1>1, <1>2, <1>3 DEF IInv

LEMMA NextInv == IInv /\ [Next]_vars => IInv'
<1> SUFFICES ASSUME IInv, [Next]_vars PROVE IInv'
    OBVIOUS
<1>1. ASSUME NEW w \in Worker, Open(w) \/ Advance(w) \/ Write(w) \/ Abort(w) PROVE IInv'
    BY <1>1, OpenInv, AdvanceInv, WriteInv, EndInv DEF Abort
<1> QED BY <1>1, RestartInv, TickInv, StutterInv DEF Next

LEMMA Invariance == Spec => []IInv
<1>1. Init => IInv
    BY InitInv
<1>2. IInv /\ [Next]_vars => IInv'
    BY NextInv
<1> QED BY <1>1, <1>2, PTL DEF Spec

-----------------------------------------------------------------------------
(* What holds in every reachable state.                                    *)

(* Every variable keeps its type: no step signs a JWT, stages a row or     *)
(* writes an audit row that is not one.                                    *)
THEOREM TypeCorrect == Spec => []TypeOK
<1>1. IInv => TypeOK
    BY DEF IInv
<1> QED BY <1>1, Invariance, PTL

(* Attenuation: scopes and expiry only narrow along a chain of delegations *)
(* (delegate and approve), whatever the interleaving.                      *)
THEOREM NarrowingHolds == Spec => []Narrowing
<1>1. ASSUME IInv PROVE Narrowing
  <2> SUFFICES ASSUME NEW j \in signed, NEW a \in Lineage(j)
               PROVE  /\ claims[j].scopes \subseteq claims[a].scopes
                      /\ claims[j].exp =< claims[a].exp
      BY DEF Narrowing
  <2>1. claims[j] \in Claims
      BY <1>1 DEF IInv, TypeOK
  <2>2. CASE a = j
      BY <2>1, <2>2 DEF Claims
  <2>3. CASE a # j
    <3>1. PICK i \in 1..Len(claims[j].chain) : a = claims[j].chain[i]
        BY <2>3 DEF Lineage
    <3>2. HopOK(j, i)
        BY <1>1, <3>1 DEF IInv, TokensOK, TokenOK
    <3> QED BY <3>1, <3>2 DEF HopOK
  <2> QED BY <2>2, <2>3
<1> QED BY <1>1, Invariance, PTL

(* Provenance: the chain of a token is the chain of its parent with the    *)
(* parent added, up to a depth-0 root, and never exceeds max_depth.        *)
THEOREM ChainHolds == Spec => []ChainOfCustody
<1>1. IInv => ChainOfCustody
    BY DEF IInv, TypeOK, TokensOK, TokenOK, HopOK, ChainOfCustody, Claims
<1> QED BY <1>1, Invariance, PTL

-----------------------------------------------------------------------------
(* The rest is about what happens between the steps of a handler: what the *)
(* audit log, the revocations and the approval rows say when another       *)
(* worker, or a restart, comes in between.                                 *)

-----------------------------------------------------------------------------
(* Two facts about every step.                                             *)

(* Rows are only added, and what a JWT or a parked request says stays.     *)
Grown ==
    /\ signed \subseteq signed' /\ records \subseteq records' /\ edges \subseteq edges'
    /\ revoked \subseteq revoked' /\ audit \subseteq audit'
    /\ \A j \in signed : claims'[j] = claims[j]
    /\ \A a \in Approval : asked[a].parent # None => asked'[a] = asked[a]

SameThread(w) ==
    /\ pc'[w] = pc[w] /\ req'[w] = req[w] /\ loc'[w] = loc[w]
    /\ txn'[w] = txn[w] /\ known'[w] = known[w]

Step(w) == Open(w) \/ Advance(w) \/ Write(w) \/ Abort(w)

LEMMA SignGrows ==
    ASSUME IInv, NEW j \in Fresh, NEW c, Sign(j, c)
    PROVE  signed \subseteq signed' /\ \A k \in signed : claims'[k] = claims[k]
BY DEF IInv, TypeOK, Sign, Fresh

LEMMA OpenGrows ==
    ASSUME IInv, NEW w \in Worker, Open(w)
    PROVE  Grown
<1>1. CASE MintRoot(w)
    BY <1>1, SignGrows DEF MintRoot, Grown, db, Log
<1>2. CASE ~MintRoot(w)
    BY <1>2 DEF Open, Delegate, Verify, Approve, Deny, Collect, Revoke, Grown, world, db, Log
<1> QED BY <1>1, <1>2

LEMMA AdvanceGrows ==
    ASSUME IInv, NEW w \in Worker, Advance(w)
    PROVE  Grown
<1>1. CASE DelegateMint(w)
    BY <1>1, SignGrows DEF DelegateMint, Grown, db, Log
<1>2. CASE DelegatePark(w)
    BY <1>2 DEF DelegatePark, Grown, db, Log, FreshApproval, IInv, TypeOK
<1>3. CASE ApproveSign(w)
    BY <1>3, SignGrows DEF ApproveSign, Grown, db
<1>4. CASE Commit(w)
    BY <1>4 DEF Commit, Grown, world
<1>5. CASE UNCHANGED <<world, db>>
    BY <1>5 DEF Grown, world, db
<1> QED BY <1>1, <1>2, <1>3, <1>4, <1>5 DEF Advance, LookupRevoked, LookupLive, VerifyAllows,
        VerifyLacksScope, Respond, DelegateRootAlive, DelegateRootBroken, DelegateDenied,
        ApproveParentLive, CollectRefresh, RevokeLevel, RevokeAlready, RevokeConflict

LEMMA WriteGrows ==
    ASSUME IInv, NEW w \in Worker, Write(w)
    PROVE  Grown
BY DEF Write, ApproveParentRevoked, ApproveParentExpired, ApproveDecide, DenyDecide,
   CollectExpire, CollectMark, RevokeInsert, Grown, world, db, Log

LEMMA StepGrows ==
    ASSUME IInv, [Next]_vars
    PROVE  Grown
<1>1. ASSUME NEW w \in Worker, Step(w) PROVE Grown
    <2>1. CASE Abort(w)
        BY <2>1 DEF Abort, Grown, world, db
    <2> QED BY <1>1, <2>1, OpenGrows, AdvanceGrows, WriteGrows DEF Step
<1>2. CASE Restart
    BY <1>2 DEF Restart, Grown, Log
<1>3. CASE Tick
    BY <1>3 DEF Tick, Grown, db
<1>4. CASE UNCHANGED vars
    BY <1>4 DEF Grown, vars
<1> QED BY <1>1, <1>2, <1>3, <1>4 DEF Next, Step

LEMMA OthersStay ==
    ASSUME IInv, NEW w \in Worker, Step(w), NEW v \in Worker, v # w
    PROVE  SameThread(v)
<1>0. /\ DOMAIN pc = Worker /\ DOMAIN req = Worker /\ DOMAIN loc = Worker
      /\ DOMAIN txn = Worker /\ DOMAIN known = Worker
    BY DEF IInv, TypeOK
<1>1. CASE Open(w)
    BY <1>0, <1>1 DEF Open, MintRoot, Delegate, Verify, Approve, Deny, Collect, Revoke,
       Arrive, Stage, Goto, SameThread
<1>2. CASE Advance(w)
    BY <1>0, <1>2 DEF Advance, LookupRevoked, LookupLive, VerifyAllows, VerifyLacksScope,
       Respond, DelegateRootAlive, DelegateRootBroken, DelegateDenied, DelegateMint,
       DelegatePark, ApproveParentLive, ApproveSign, CollectRefresh, RevokeLevel,
       RevokeAlready, RevokeConflict, Commit, End, Persist, Stage, Goto, SameThread
<1>3. CASE Write(w)
    BY <1>0, <1>3 DEF Write, ApproveParentRevoked, ApproveParentExpired, ApproveDecide,
       DenyDecide, CollectExpire, CollectMark, RevokeInsert, End, Stage, Goto, SameThread
<1>4. CASE Abort(w)
    BY <1>0, <1>4 DEF Abort, End, SameThread
<1> QED BY <1>1, <1>2, <1>3, <1>4 DEF Step

LEMMA OnlyCommitWrites ==
    ASSUME NEW w \in Worker, Step(w), ~Commit(w)
    PROVE  UNCHANGED db
BY DEF Step, Open, MintRoot, Delegate, Verify, Approve, Deny, Collect, Revoke,
   Advance, LookupRevoked, LookupLive, VerifyAllows, VerifyLacksScope, Respond,
   DelegateRootAlive, DelegateRootBroken, DelegateDenied, DelegateMint, DelegatePark,
   ApproveParentLive, ApproveSign, CollectRefresh, RevokeLevel, RevokeAlready,
   RevokeConflict, Write, ApproveParentRevoked, ApproveParentExpired, ApproveDecide,
   DenyDecide, CollectExpire, CollectMark, RevokeInsert, Abort

LEMMA OnlyTheseSign ==
    ASSUME NEW w \in Worker, Step(w), ~MintRoot(w), ~DelegateMint(w), ~ApproveSign(w)
    PROVE  UNCHANGED <<signed, claims>>
BY DEF Step, Open, Delegate, Verify, Approve, Deny, Collect, Revoke,
   Advance, LookupRevoked, LookupLive, VerifyAllows, VerifyLacksScope, Respond,
   DelegateRootAlive, DelegateRootBroken, DelegateDenied, DelegatePark,
   ApproveParentLive, CollectRefresh, RevokeLevel, RevokeAlready,
   RevokeConflict, Commit, Write, ApproveParentRevoked, ApproveParentExpired,
   ApproveDecide, DenyDecide, CollectExpire, CollectMark, RevokeInsert, Abort, world

LEMMA LastOfAppend ==
    ASSUME NEW S, NEW s \in Seq(S), NEW e \in S
    PROVE  Append(s, e) # <<>> /\ Append(s, e)[Len(Append(s, e))] = e
OBVIOUS

-----------------------------------------------------------------------------
(* What a request is when it arrives.                                      *)

LEMMA ArriveSays ==
    ASSUME IInv, NEW w \in Worker, NEW r, NEW l, NEW local, NEW seen,
           Arrive(w, r, l, local, seen)
    PROVE  /\ pc[w] = "idle" /\ pc'[w] = l /\ req'[w] = r /\ r.op \in Calls[w]
           /\ loc'[w] = local /\ known'[w] = seen
BY DEF IInv, TypeOK, Arrive, Goto

LEMMA AsksSay ==
    ASSUME IInv, NEW w \in Worker, Delegate(w) \/ Verify(w)
    PROVE  \E j \in records :
             /\ pc[w] = "idle" /\ pc'[w] = "lookup"
             /\ req'[w].op \in {"delegate", "verify"} \cap Calls[w] /\ req'[w].tok = j
             /\ loc'[w].todo = Lookups(j) /\ loc'[w].stale = {}
             /\ loc'[w].seen = {} /\ loc'[w].level = {}
             /\ known'[w] = revoked /\ txn' = txn /\ UNCHANGED <<world, db>>
<1>1. ASSUME NEW j
      PROVE  LET local == [NoLocal EXCEPT !.todo = Lookups(j)] IN
             /\ local.todo = Lookups(j) /\ local.stale = {}
             /\ local.seen = {} /\ local.level = {}
    BY DEF NoLocal
<1>2. CASE Delegate(w)
    <2>1. PICK j \in records, scopes \in SUBSET Scope, ttl \in TTLs :
             /\ Arrive(w, [NoRequest EXCEPT !.op = "delegate", !.tok = j,
                                            !.scopes = scopes, !.ttl = ttl],
                       "lookup", [NoLocal EXCEPT !.todo = Lookups(j)], revoked)
             /\ UNCHANGED <<world, db, txn>>
        BY <1>2 DEF Delegate
    <2> DEFINE r == [NoRequest EXCEPT !.op = "delegate", !.tok = j,
                                    !.scopes = scopes, !.ttl = ttl]
               local == [NoLocal EXCEPT !.todo = Lookups(j)]
    <2>2. r.op = "delegate" /\ r.tok = j
        BY DEF NoRequest
    <2>3. Arrive(w, r, "lookup", local, revoked) /\ UNCHANGED <<world, db, txn>>
        BY <2>1
    <2>4. local.todo = Lookups(j) /\ local.stale = {} /\ local.seen = {} /\ local.level = {}
        BY <1>1
    <2> HIDE DEF r, local
    <2> QED BY <2>2, <2>3, <2>4, ArriveSays
<1>3. CASE Verify(w)
    <2>1. PICK j \in records, s \in Scope :
             /\ Arrive(w, [NoRequest EXCEPT !.op = "verify", !.tok = j, !.scopes = {s}],
                       "lookup", [NoLocal EXCEPT !.todo = Lookups(j)], revoked)
             /\ UNCHANGED <<world, db, txn>>
        BY <1>3 DEF Verify
    <2> DEFINE r == [NoRequest EXCEPT !.op = "verify", !.tok = j, !.scopes = {s}]
               local == [NoLocal EXCEPT !.todo = Lookups(j)]
    <2>2. r.op = "verify" /\ r.tok = j
        BY DEF NoRequest
    <2>3. Arrive(w, r, "lookup", local, revoked) /\ UNCHANGED <<world, db, txn>>
        BY <2>1
    <2>4. local.todo = Lookups(j) /\ local.stale = {} /\ local.seen = {} /\ local.level = {}
        BY <1>1
    <2> HIDE DEF r, local
    <2> QED BY <2>2, <2>3, <2>4, ArriveSays
<1> QED BY <1>2, <1>3

LEMMA DecisionsSay ==
    ASSUME IInv, NEW w \in Worker, Approve(w) \/ Deny(w)
    PROVE  \E a \in Approval :
             /\ LoadPending(a) /\ pc[w] = "idle"
             /\ \/ pc'[w] = "load" /\ req'[w].op = "approve"
                \/ pc'[w] = "decide" /\ req'[w].op = "deny"
             /\ req'[w].op \in Calls[w] /\ req'[w].appr = a
             /\ loc'[w].stale = {} /\ loc'[w].seen = {} /\ loc'[w].level = {}
             /\ known'[w] = revoked /\ txn' = txn /\ UNCHANGED <<world, db>>
<1>1. NoLocal.stale = {} /\ NoLocal.seen = {} /\ NoLocal.level = {}
    BY DEF NoLocal
<1>2. CASE Approve(w)
    <2>1. PICK a \in Approval :
             /\ LoadPending(a)
             /\ Arrive(w, [NoRequest EXCEPT !.op = "approve", !.appr = a], "load",
                       NoLocal, revoked)
             /\ UNCHANGED <<world, db, txn>>
        BY <1>2 DEF Approve
    <2> DEFINE r == [NoRequest EXCEPT !.op = "approve", !.appr = a]
    <2>2. r.op = "approve" /\ r.appr = a
        BY DEF NoRequest
    <2>3. Arrive(w, r, "load", NoLocal, revoked)
        BY <2>1
    <2> HIDE DEF r
    <2> QED BY <1>1, <2>1, <2>2, <2>3, ArriveSays
<1>3. CASE Deny(w)
    <2>1. PICK a \in Approval :
             /\ LoadPending(a)
             /\ Arrive(w, [NoRequest EXCEPT !.op = "deny", !.appr = a], "decide",
                       NoLocal, revoked)
             /\ UNCHANGED <<world, db, txn>>
        BY <1>3 DEF Deny
    <2> DEFINE r == [NoRequest EXCEPT !.op = "deny", !.appr = a]
    <2>2. r.op = "deny" /\ r.appr = a
        BY DEF NoRequest
    <2>3. Arrive(w, r, "decide", NoLocal, revoked)
        BY <2>1
    <2> HIDE DEF r
    <2> QED BY <1>1, <2>1, <2>2, <2>3, ArriveSays
<1> QED BY <1>2, <1>3

LEMMA CollectSays ==
    ASSUME IInv, NEW w \in Worker, Collect(w)
    PROVE  \E a \in Approval :
             /\ gate[a].status # "absent" /\ pc[w] = "idle"
             /\ pc'[w] \in {"refresh", "expire"} /\ req'[w].op = "collect"
             /\ req'[w].op \in Calls[w] /\ req'[w].appr = a
             /\ loc'[w].stale = {b \in Approval : Stale(b)}
             /\ \A b \in loc'[w].stale : <<"approval_expired", b>> \in audit'
             /\ loc'[w].seen = {} /\ loc'[w].level = {}
             /\ known'[w] = revoked /\ txn' = txn
             /\ UNCHANGED <<now, signed, claims, asked, db>>
<1> DEFINE stale == {b \in Approval : Stale(b)}
           local == [NoLocal EXCEPT !.stale = stale]
           l == IF stale = {} THEN "refresh" ELSE "expire"
<1>1. PICK a \in Approval :
         /\ gate[a].status # "absent"
         /\ Arrive(w, [NoRequest EXCEPT !.op = "collect", !.appr = a], l, local, revoked)
         /\ Log({<<"approval_expired", b>> : b \in stale})
         /\ UNCHANGED <<now, signed, claims, asked, db, txn>>
    BY DEF Collect
<1> DEFINE r == [NoRequest EXCEPT !.op = "collect", !.appr = a]
<1>2. r.op = "collect" /\ r.appr = a
    BY DEF NoRequest
<1>3. local.stale = stale /\ local.seen = {} /\ local.level = {}
    BY DEF NoLocal
<1>4. \A b \in stale : <<"approval_expired", b>> \in audit'
    BY <1>1 DEF Log
<1>5. l \in {"refresh", "expire"}
    OBVIOUS
<1>6. Arrive(w, r, l, local, revoked)
    BY <1>1
<1>7. UNCHANGED <<now, signed, claims, asked, db, txn>>
    BY <1>1
<1> HIDE DEF r, local, l
<1>8. /\ loc'[w] = local /\ req'[w] = r /\ pc[w] = "idle" /\ pc'[w] = l
      /\ r.op \in Calls[w] /\ known'[w] = revoked
    BY <1>6, ArriveSays
<1>9. loc'[w].stale = stale /\ gate[a].status # "absent"
    BY <1>1, <1>3, <1>8
<1> HIDE DEF stale
<1>10. \A b \in loc'[w].stale : <<"approval_expired", b>> \in audit'
    BY <1>4, <1>9
<1> QED BY <1>2, <1>3, <1>5, <1>7, <1>8, <1>9, <1>10 DEF stale

LEMMA RevokeSays ==
    ASSUME IInv, NEW w \in Worker, Revoke(w)
    PROVE  \E j \in records :
             /\ pc[w] = "idle" /\ pc'[w] = "walk"
             /\ req'[w].op = "revoke" /\ req'[w].op \in Calls[w] /\ req'[w].tok = j
             /\ loc'[w].seen = {j} /\ loc'[w].level = {j} /\ loc'[w].stale = {}
             /\ known'[w] = Descendants(j) /\ txn' = txn /\ UNCHANGED <<world, db>>
<1>1. PICK j \in records :
         /\ Arrive(w, [NoRequest EXCEPT !.op = "revoke", !.tok = j], "walk",
                   [NoLocal EXCEPT !.seen = {j}, !.level = {j}], Descendants(j))
         /\ UNCHANGED <<world, db, txn>>
    BY DEF Revoke
<1> DEFINE r == [NoRequest EXCEPT !.op = "revoke", !.tok = j]
           local == [NoLocal EXCEPT !.seen = {j}, !.level = {j}]
<1>2. r.op = "revoke" /\ r.tok = j
    BY DEF NoRequest
<1>3. local.seen = {j} /\ local.level = {j} /\ local.stale = {}
    BY DEF NoLocal
<1>4. Arrive(w, r, "walk", local, Descendants(j))
    BY <1>1
<1> HIDE DEF r, local
<1> QED BY <1>1, <1>2, <1>3, <1>4, ArriveSays

-----------------------------------------------------------------------------
(* What a step leaves staged.                                              *)

LEMMA StatusStaged ==
    ASSUME IInv, NEW w \in Worker, NEW a \in Approval, NEW status,
           Stage(w, [txn[w] EXCEPT !.status[a] = status])
    PROVE  /\ txn'[w].tokens = txn[w].tokens /\ txn'[w].edges = txn[w].edges
           /\ txn'[w].revoked = txn[w].revoked
           /\ \A b \in Approval :
                txn'[w].status[b] = IF b = a THEN status ELSE txn[w].status[b]
<1>1. txn \in [Worker -> Staged] /\ txn[w] \in Staged
    BY DEF IInv, TypeOK
<1>2. txn'[w] = [txn[w] EXCEPT !.status[a] = status]
    BY <1>1 DEF Stage
<1> QED BY <1>1, <1>2 DEF Staged

LEMMA ChildStaged ==
    ASSUME IInv, NEW w \in Worker, NEW p, NEW j, Persist(w, p, j)
    PROVE  /\ txn'[w].tokens = {j} /\ txn'[w].edges = {<<p, j>>}
           /\ txn'[w].revoked = txn[w].revoked /\ txn'[w].status = txn[w].status
<1>1. txn \in [Worker -> Staged] /\ txn[w] \in Staged
    BY DEF IInv, TypeOK
<1>2. txn'[w] = [txn[w] EXCEPT !.tokens = {j}, !.edges = {<<p, j>>}]
    BY <1>1 DEF Persist, Stage
<1> QED BY <1>1, <1>2 DEF Staged

LEMMA ChildSigned ==
    ASSUME IInv, NEW j \in Fresh, NEW p, NEW scopes, NEW exp, NEW via,
           Sign(j, ChildClaims(p, scopes, exp, via))
    PROVE  /\ claims'[j].chain = Append(claims[p].chain, p) /\ claims'[j].via = via
           /\ claims'[j].scopes = scopes /\ signed' = signed \cup {j}
           /\ j \in Jti /\ j \notin signed
BY DEF IInv, TypeOK, Sign, ChildClaims, Fresh

LEMMA MintRootSays ==
    ASSUME IInv, NEW w \in Worker, MintRoot(w)
    PROVE  \E j \in Fresh :
             /\ claims'[j].chain = <<>> /\ claims'[j].via = None /\ claims'[j].depth = 0
             /\ signed' = signed \cup {j} /\ j \in Jti /\ j \notin signed
             /\ txn'[w].tokens = {j} /\ txn'[w].edges = txn[w].edges
             /\ txn'[w].revoked = txn[w].revoked /\ txn'[w].status = txn[w].status
             /\ pc[w] = "idle" /\ pc'[w] = "commit"
             /\ req'[w].op = "root" /\ "root" \in Calls[w]
             /\ loc'[w].stale = {} /\ loc'[w].seen = {} /\ loc'[w].level = {}
             /\ known'[w] = {}
             /\ audit' = audit \cup {<<"root_token_minted", j>>}
             /\ UNCHANGED <<now, asked, db>>
<1>1. PICK j \in Fresh, scopes \in SUBSET Scope, ttl \in TTLs, depth \in Depths :
         /\ Arrive(w, [NoRequest EXCEPT !.op = "root", !.scopes = scopes, !.ttl = ttl],
                   "commit", NoLocal, {})
         /\ Sign(j, RootClaims(j, scopes, ttl, depth))
         /\ Stage(w, [txn[w] EXCEPT !.tokens = {j}])
         /\ Log({<<"root_token_minted", j>>})
         /\ UNCHANGED <<now, asked, db>>
    BY DEF MintRoot
<1>2. /\ claims'[j].chain = <<>> /\ claims'[j].via = None /\ claims'[j].depth = 0
      /\ signed' = signed \cup {j} /\ j \in Jti /\ j \notin signed
    BY <1>1 DEF IInv, TypeOK, Sign, RootClaims, Fresh
<1>3. /\ txn'[w].tokens = {j} /\ txn'[w].edges = txn[w].edges
      /\ txn'[w].revoked = txn[w].revoked /\ txn'[w].status = txn[w].status
    <2>1. txn \in [Worker -> Staged] /\ txn[w] \in Staged
        BY DEF IInv, TypeOK
    <2>2. txn'[w] = [txn[w] EXCEPT !.tokens = {j}]
        BY <1>1, <2>1 DEF Stage
    <2> QED BY <2>1, <2>2 DEF Staged
<1> DEFINE r == [NoRequest EXCEPT !.op = "root", !.scopes = scopes, !.ttl = ttl]
<1>4. r.op = "root"
    BY DEF NoRequest
<1>5. Arrive(w, r, "commit", NoLocal, {})
    BY <1>1
<1>6. NoLocal.stale = {} /\ NoLocal.seen = {} /\ NoLocal.level = {}
    BY DEF NoLocal
<1> HIDE DEF r
<1>7. /\ pc[w] = "idle" /\ pc'[w] = "commit" /\ req'[w].op = "root" /\ "root" \in Calls[w]
      /\ loc'[w] = NoLocal /\ known'[w] = {}
    BY <1>4, <1>5, ArriveSays
<1> QED BY <1>1, <1>2, <1>3, <1>6, <1>7 DEF Log

LEMMA DelegateMintSays ==
    ASSUME IInv, NEW w \in Worker, DelegateMint(w)
    PROVE  \E j \in Fresh :
             /\ claims'[j].chain = Append(claims[req[w].tok].chain, req[w].tok)
             /\ claims'[j].via = None /\ claims'[j].scopes = req[w].scopes
             /\ ~NeedsApproval(req[w].scopes)
             /\ signed' = signed \cup {j} /\ j \in Jti /\ j \notin signed
             /\ txn'[w].tokens = {j} /\ txn'[w].edges = {<<req[w].tok, j>>}
             /\ txn'[w].revoked = txn[w].revoked /\ txn'[w].status = txn[w].status
             /\ pc[w] = "mint" /\ pc'[w] = "commit"
             /\ audit' = audit \cup {<<"token_minted", j>>}
             /\ req[w].tok \in records
             /\ UNCHANGED <<now, asked, db, req, loc, known>>
<1>1. PICK j \in Fresh :
         /\ Sign(j, ChildClaims(req[w].tok, req[w].scopes,
                       ChildExp(req[w].ttl, claims[req[w].tok].exp), None))
         /\ Persist(w, req[w].tok, j)
         /\ Log({<<"token_minted", j>>})
    BY DEF DelegateMint
<1>2. pc[w] = "mint" /\ pc'[w] = "commit" /\ req[w].tok \in records
    BY DEF DelegateMint, Goto, IInv, TypeOK, HandlersOK, HandlerOK
<1>3. UNCHANGED <<now, asked, db, req, loc, known>> /\ ~NeedsApproval(req[w].scopes)
    BY DEF DelegateMint
<1> QED BY <1>1, <1>2, <1>3, ChildSigned, ChildStaged DEF Log

LEMMA DelegateParkSays ==
    ASSUME IInv, NEW w \in Worker, DelegatePark(w)
    PROVE  \E a \in Approval :
             /\ asked[a].parent = None
             /\ asked'[a].parent = req[w].tok /\ req[w].tok \in records
             /\ \A b \in Approval \ {a} : asked'[b] = asked[b]
             /\ txn'[w].tokens = txn[w].tokens /\ txn'[w].edges = txn[w].edges
             /\ txn'[w].revoked = txn[w].revoked
             /\ \A b \in Approval :
                  txn'[w].status[b] = IF b = a THEN "pending" ELSE txn[w].status[b]
             /\ pc[w] = "mint" /\ pc'[w] = "commit"
             /\ audit' = audit \cup {<<"approval_pending", a>>}
             /\ UNCHANGED <<now, signed, claims, db, req, loc, known>>
<1>1. PICK a \in FreshApproval :
         /\ asked' = [asked EXCEPT ![a] =
              [parent |-> req[w].tok, scopes |-> req[w].scopes, ttl |-> req[w].ttl,
               parentExp |-> claims[req[w].tok].exp,
               expires |-> Lesser(Seconds + ApprovalTimeout, claims[req[w].tok].exp)]]
         /\ Stage(w, [txn[w] EXCEPT !.status[a] = "pending"])
         /\ Log({<<"approval_pending", a>>})
    BY DEF DelegatePark
<1>2. a \in Approval /\ asked[a].parent = None
    BY DEF FreshApproval
<1>3. asked'[a].parent = req[w].tok /\ \A b \in Approval \ {a} : asked'[b] = asked[b]
    BY <1>1, <1>2 DEF IInv, TypeOK
<1>4. pc[w] = "mint" /\ pc'[w] = "commit" /\ req[w].tok \in records
    BY DEF DelegatePark, Goto, IInv, TypeOK, HandlersOK, HandlerOK
<1>5. UNCHANGED <<now, signed, claims, db, req, loc, known>>
    BY DEF DelegatePark
<1> QED BY <1>1, <1>2, <1>3, <1>4, <1>5, StatusStaged DEF Log

LEMMA ApproveSignSays ==
    ASSUME IInv, NEW w \in Worker, ApproveSign(w)
    PROVE  LET a == req[w].appr IN
           \E j \in Fresh :
             /\ claims'[j].chain = Append(claims[asked[a].parent].chain, asked[a].parent)
             /\ claims'[j].via = a /\ claims'[j].scopes = asked[a].scopes
             /\ signed' = signed \cup {j} /\ j \in Jti /\ j \notin signed
             /\ txn'[w].tokens = {j} /\ txn'[w].edges = {<<asked[a].parent, j>>}
             /\ txn'[w].revoked = txn[w].revoked /\ txn'[w].status = txn[w].status
             /\ pc[w] = "sign" /\ pc'[w] = "decide"
             /\ a \in Approval /\ asked[a].parent \in records
             /\ UNCHANGED <<now, asked, audit, db, req, loc, known>>
<1> DEFINE a == req[w].appr
<1>1. PICK j \in Fresh :
         /\ Sign(j, ChildClaims(asked[a].parent, asked[a].scopes,
                       ChildExp(asked[a].ttl, asked[a].parentExp), a))
         /\ Persist(w, asked[a].parent, j)
    BY DEF ApproveSign
<1>2. pc[w] = "sign" /\ pc'[w] = "decide"
    BY DEF ApproveSign, Goto, IInv, TypeOK
<1>3. a \in Approval /\ asked[a].parent \in records
    BY <1>2 DEF IInv, HandlersOK, HandlerOK, AskedOK
<1>4. UNCHANGED <<now, asked, audit, db, req, loc, known>>
    BY DEF ApproveSign
<1> DEFINE p == asked[a].parent
           exp == ChildExp(asked[a].ttl, asked[a].parentExp)
           scopes == asked[a].scopes
<1>5. Sign(j, ChildClaims(p, scopes, exp, a)) /\ Persist(w, p, j)
    BY <1>1
<1> HIDE DEF a, p, exp, scopes
<1>6. /\ claims'[j].chain = Append(claims[p].chain, p) /\ claims'[j].via = a
      /\ claims'[j].scopes = scopes /\ signed' = signed \cup {j}
      /\ j \in Jti /\ j \notin signed
    BY <1>5, ChildSigned
<1>7. /\ txn'[w].tokens = {j} /\ txn'[w].edges = {<<p, j>>}
      /\ txn'[w].revoked = txn[w].revoked /\ txn'[w].status = txn[w].status
    BY <1>5, ChildStaged
<1> QED BY <1>2, <1>3, <1>4, <1>6, <1>7 DEF a, p, scopes

-----------------------------------------------------------------------------
(* The audit log comes first.                                              *)

MintAudited(j) ==
    \E action \in {"root_token_minted", "token_minted", "approval_granted"} :
        <<action, j>> \in audit

(* The handler of each endpoint goes through the steps of that endpoint,   *)
(* and has a token staged only where it is about to commit it or, for an   *)
(* approval, to mark the row.                                              *)
InStep(w) ==
    /\ pc[w] \notin {"decide", "commit"} => txn[w].tokens = {}
    /\ pc[w] = "lookup" => req[w].op \in {"delegate", "verify"}
    /\ pc[w] = "mint" => req[w].op = "delegate"
    /\ pc[w] \in {"expire", "refresh", "mark"} => req[w].op = "collect"
    /\ pc[w] \in {"walk", "already", "insert"} => req[w].op = "revoke"
    /\ pc[w] \in {"load", "sign"} => req[w].op = "approve"
    /\ pc[w] = "decide" => req[w].op \in {"approve", "deny"}
    /\ pc[w] = "decide" /\ req[w].op = "deny" => txn[w].tokens = {}

(* What a handler is about to commit is in the audit log.                  *)
Vouched(w) ==
    /\ pc[w] = "commit" => \A j \in txn[w].tokens : MintAudited(j)
    /\ \A j \in txn[w].revoked : <<"token_revoked", j>> \in audit
    /\ \A a \in Approval :
         /\ txn[w].status[a] = "pending" => <<"approval_pending", a>> \in audit
         /\ txn[w].status[a] = "denied" => <<"approval_denied", a>> \in audit
         /\ txn[w].status[a] = "expired" => <<"approval_expired", a>> \in audit
    /\ \A a \in loc[w].stale : <<"approval_expired", a>> \in audit
    /\ pc[w] = "insert" => loc[w].level \subseteq loc[w].seen

AuditInv == \A w \in Worker : InStep(w) /\ Vouched(w)

(* A thread that did not move relies on an audit log that only grows.      *)
LEMMA OthersVouched ==
    ASSUME NEW v \in Worker, SameThread(v), Grown, InStep(v), Vouched(v)
    PROVE  InStep(v)' /\ Vouched(v)'
BY DEF SameThread, Grown, InStep, Vouched, MintAudited

LEMMA EndVouched ==
    ASSUME IInv, NEW w \in Worker, End(w)
    PROVE  InStep(w)' /\ Vouched(w)'
BY DEF IInv, TypeOK, End, NoLocal, NoWrites, InStep, Vouched

LEMMA OpenVouched ==
    ASSUME IInv, NEW w \in Worker, Open(w), InStep(w), Vouched(w), Grown
    PROVE  InStep(w)' /\ Vouched(w)'
<1>0. /\ DOMAIN pc = Worker /\ DOMAIN req = Worker /\ DOMAIN loc = Worker
      /\ DOMAIN txn = Worker /\ txn[w] \in Staged
    BY DEF IInv, TypeOK
<1>1. CASE MintRoot(w)
    BY <1>1, MintRootSays DEF InStep, Vouched, MintAudited
<1>2. CASE Delegate(w) \/ Verify(w) \/ Approve(w) \/ Deny(w) \/ Revoke(w)
    <2>1. /\ txn'[w] = txn[w] /\ loc'[w].stale = {} /\ pc[w] = "idle"
          /\ pc'[w] \in {"lookup", "load", "decide", "walk"}
          /\ pc'[w] = "decide" => req'[w].op = "deny"
          /\ pc'[w] = "load" => req'[w].op = "approve"
          /\ pc'[w] = "lookup" => req'[w].op \in {"delegate", "verify"}
          /\ pc'[w] = "walk" => req'[w].op = "revoke"
        <3>1. CASE Delegate(w) \/ Verify(w)
            BY <3>1, AsksSay
        <3>2. CASE Approve(w) \/ Deny(w)
            BY <3>2, DecisionsSay
        <3>3. CASE Revoke(w)
            BY <3>3, RevokeSays
        <3> QED BY <1>2, <3>1, <3>2, <3>3
    <2> QED BY <2>1 DEF InStep, Vouched, Grown
<1>3. CASE Collect(w)
    BY <1>3, CollectSays DEF InStep, Vouched, Grown
<1> QED BY <1>1, <1>2, <1>3 DEF Open

LEMMA AdvanceVouched ==
    ASSUME IInv, NEW w \in Worker, Advance(w), InStep(w), Vouched(w), Grown
    PROVE  InStep(w)' /\ Vouched(w)'
<1>0. /\ DOMAIN pc = Worker /\ DOMAIN req = Worker /\ DOMAIN loc = Worker
      /\ DOMAIN txn = Worker /\ txn[w] \in Staged /\ loc[w] \in Local
    BY DEF IInv, TypeOK
<1>1. CASE LookupRevoked(w) \/ VerifyLacksScope(w) \/ Respond(w) \/ DelegateRootBroken(w)
           \/ DelegateDenied(w) \/ RevokeConflict(w) \/ Commit(w)
    BY <1>1, EndVouched DEF LookupRevoked, VerifyLacksScope, Respond, DelegateRootBroken,
       DelegateDenied, RevokeConflict, Commit
<1>2. CASE LookupLive(w) \/ VerifyAllows(w) \/ DelegateRootAlive(w) \/ ApproveParentLive(w)
           \/ CollectRefresh(w) \/ RevokeLevel(w) \/ RevokeAlready(w)
    <2>1. /\ txn'[w] = txn[w] /\ loc'[w].stale = loc[w].stale /\ req'[w] = req[w]
          /\ pc[w] \notin {"decide", "commit"} /\ pc'[w] \notin {"decide", "load"}
          /\ pc'[w] = "sign" => pc[w] = "load"
          /\ pc'[w] = "mint" => req[w].op = "delegate"
          /\ pc'[w] \in {"expire", "refresh", "mark"} => pc[w] = "refresh"
          /\ pc'[w] \in {"walk", "already", "insert"} => pc[w] \in {"walk", "already"}
          /\ pc'[w] = "lookup" => pc[w] = "lookup"
          /\ pc'[w] = "insert" => loc'[w].level \subseteq loc'[w].seen
        BY <1>0, <1>2 DEF LookupLive, VerifyAllows, DelegateRootAlive, ApproveParentLive,
           CollectRefresh, RevokeLevel, RevokeAlready, Goto, Local
    <2> QED BY <2>1 DEF InStep, Vouched, Grown, MintAudited
<1>3. CASE DelegateMint(w)
    BY <1>3, DelegateMintSays DEF InStep, Vouched, MintAudited
<1>4. CASE DelegatePark(w)
    BY <1>4, DelegateParkSays DEF InStep, Vouched, MintAudited
<1>5. CASE ApproveSign(w)
    BY <1>5, ApproveSignSays DEF InStep, Vouched
<1> QED BY <1>1, <1>2, <1>3, <1>4, <1>5 DEF Advance

LEMMA WriteVouched ==
    ASSUME IInv, NEW w \in Worker, Write(w), InStep(w), Vouched(w), Grown
    PROVE  InStep(w)' /\ Vouched(w)'
<1> DEFINE a == req[w].appr
<1>0. /\ DOMAIN pc = Worker /\ DOMAIN txn = Worker /\ txn[w] \in Staged
      /\ loc[w] \in Local /\ HandlerOK(w)
    BY DEF IInv, TypeOK, HandlersOK
<1>1. CASE ApproveParentRevoked(w) \/ ApproveParentExpired(w)
    BY <1>1, EndVouched DEF ApproveParentRevoked, ApproveParentExpired
<1>2. CASE ApproveDecide(w)
    <2>1. a \in Approval
        BY <1>0, <1>2 DEF ApproveDecide, HandlerOK
    <2>2. /\ pc'[w] = "commit" /\ loc'[w] = loc[w]
          /\ Stage(w, [txn[w] EXCEPT !.status[a] = "approved"])
          /\ audit' = audit \cup {<<"approval_granted", j>> : j \in txn[w].tokens}
        BY <1>0, <1>2 DEF ApproveDecide, Goto, Log
    <2>3. /\ txn'[w].tokens = txn[w].tokens /\ txn'[w].revoked = txn[w].revoked
          /\ \A b \in Approval :
               txn'[w].status[b] = IF b = a THEN "approved" ELSE txn[w].status[b]
        <3> HIDE DEF a
        <3> QED BY <2>1, <2>2, StatusStaged
    <2> HIDE DEF a
    <2> QED BY <2>1, <2>2, <2>3 DEF InStep, Vouched, MintAudited
<1>3. CASE DenyDecide(w)
    <2>1. a \in Approval /\ txn[w].tokens = {}
        BY <1>0, <1>3 DEF DenyDecide, HandlerOK, InStep
    <2>2. /\ pc'[w] = "commit" /\ loc'[w] = loc[w]
          /\ Stage(w, [txn[w] EXCEPT !.status[a] = "denied"])
          /\ audit' = audit \cup {<<"approval_denied", a>>}
        BY <1>0, <1>3 DEF DenyDecide, Goto, Log
    <2>3. /\ txn'[w].tokens = txn[w].tokens /\ txn'[w].revoked = txn[w].revoked
          /\ \A b \in Approval :
               txn'[w].status[b] = IF b = a THEN "denied" ELSE txn[w].status[b]
        <3> HIDE DEF a
        <3> QED BY <2>1, <2>2, StatusStaged
    <2> HIDE DEF a
    <2> QED BY <2>1, <2>2, <2>3 DEF InStep, Vouched, MintAudited
<1>4. CASE CollectExpire(w)
    <2>1. /\ pc[w] = "expire" /\ pc'[w] = "refresh" /\ loc'[w] = loc[w] /\ audit' = audit
          /\ req'[w] = req[w]
          /\ txn'[w].tokens = txn[w].tokens /\ txn'[w].revoked = txn[w].revoked
          /\ \A b \in Approval : txn'[w].status[b] = IF b \in loc[w].stale THEN "expired"
                                                             ELSE txn[w].status[b]
        BY <1>0, <1>4 DEF CollectExpire, Goto, Stage, Staged, world
    <2> QED BY <2>1 DEF InStep, Vouched
<1>5. CASE CollectMark(w)
    <2>1. /\ pc[w] = "mark" /\ pc'[w] = "commit" /\ loc'[w] = loc[w] /\ audit' = audit
          /\ txn'[w].tokens = txn[w].tokens /\ txn'[w].revoked = txn[w].revoked
          /\ txn'[w].status = txn[w].status
        BY <1>0, <1>5 DEF CollectMark, Goto, Stage, Staged, world
    <2> QED BY <2>1 DEF InStep, Vouched
<1>6. CASE RevokeInsert(w)
    <2>1. /\ pc[w] = "insert" /\ pc'[w] = "commit" /\ loc'[w] = loc[w]
          /\ audit' = audit \cup {<<"token_revoked", t>> : t \in loc[w].seen}
          /\ txn'[w].tokens = txn[w].tokens /\ txn'[w].revoked = loc[w].level
          /\ txn'[w].status = txn[w].status
        BY <1>0, <1>6 DEF RevokeInsert, Goto, Stage, Staged, Log
    <2> QED BY <2>1 DEF InStep, Vouched
<1> QED BY <1>1, <1>2, <1>3, <1>4, <1>5, <1>6 DEF Write

LEMMA AuditNext ==
    ASSUME IInv, AuditInv, [Next]_vars
    PROVE  AuditInv'
<1>0. Grown
    BY StepGrows
<1>1. ASSUME NEW w \in Worker, Step(w) PROVE AuditInv'
    <2>1. ASSUME NEW v \in Worker, v # w PROVE InStep(v)' /\ Vouched(v)'
        BY <1>0, <1>1, <2>1, OthersStay, OthersVouched DEF AuditInv
    <2>2. InStep(w)' /\ Vouched(w)'
        <3>1. CASE Abort(w)
            BY <3>1, EndVouched DEF Abort
        <3> QED BY <1>0, <1>1, <3>1, OpenVouched, AdvanceVouched, WriteVouched
                DEF Step, AuditInv
    <2> QED BY <2>1, <2>2 DEF AuditInv
<1>2. CASE Restart
    BY <1>2 DEF Restart, AuditInv, InStep, Vouched, NoLocal, NoWrites
<1>3. CASE Tick \/ UNCHANGED vars
    <2>1. \A v \in Worker : SameThread(v)
        BY <1>3 DEF Tick, vars, threads, SameThread
    <2> QED BY <1>0, <2>1, OthersVouched DEF AuditInv
<1> QED BY <1>1, <1>2, <1>3 DEF Next, Step

(* A commit makes visible only what its handler has audited, and a restart *)
(* audits what it expires.                                                 *)
LEMMA AuditFirstNext ==
    ASSUME IInv, AuditInv, AuditFirst, [Next]_vars
    PROVE  AuditFirst'
<1>0. Grown
    BY StepGrows
<1>1. ASSUME NEW w \in Worker, Commit(w) PROVE AuditFirst'
    <2>1. Vouched(w) /\ pc[w] = "commit" /\ audit' = audit
        BY <1>1 DEF AuditInv, Commit, world
    <2>2. ASSUME NEW j \in records' PROVE MintAudited(j)'
        BY <1>1, <2>1, <2>2 DEF Commit, Vouched, AuditFirst, MintAudited
    <2>3. ASSUME NEW j \in revoked' PROVE <<"token_revoked", j>> \in audit'
        BY <1>1, <2>1, <2>3 DEF Commit, Vouched, AuditFirst
    <2>4. ASSUME NEW a \in Approval
          PROVE  /\ gate'[a].status = "pending" => <<"approval_pending", a>> \in audit'
                 /\ gate'[a].status = "denied" => <<"approval_denied", a>> \in audit'
                 /\ gate'[a].status = "expired" => <<"approval_expired", a>> \in audit'
        BY <1>1, <2>1 DEF Commit, Vouched, AuditFirst
    <2> QED BY <2>2, <2>3, <2>4 DEF AuditFirst, MintAudited
<1>2. CASE Restart
    BY <1>2 DEF Restart, Log, AuditFirst
<1>3. CASE UNCHANGED db
    BY <1>0, <1>3 DEF db, Grown, AuditFirst
<1>4. CASE Tick \/ UNCHANGED vars
    BY <1>3, <1>4 DEF Tick, vars, db
<1> QED BY <1>1, <1>2, <1>3, <1>4, OnlyCommitWrites DEF Next, Step

(* Fail-closed auditing: whatever order the handlers commit and die in, no *)
(* committed mint, revocation or decision is without its audit row.        *)
THEOREM AuditFirstHolds == Spec => []AuditFirst
<1>1. Init => AuditInv /\ AuditFirst
    BY DEF Init, AuditInv, InStep, Vouched, AuditFirst, NoLocal, NoWrites
<1>2. IInv /\ AuditInv /\ AuditFirst /\ [Next]_vars => AuditInv' /\ AuditFirst'
    BY AuditNext, AuditFirstNext
<1> QED BY <1>1, <1>2, Invariance, PTL DEF Spec

-----------------------------------------------------------------------------
(* The approval gate mints what the human was shown.                       *)

LEMMA ShownStays ==
    ASSUME IInv, SensitiveIsApproved, Grown, NEW j \in signed,
           claims[j].depth > 0, claims[j].scopes \cap Sensitive # {}
    PROVE  /\ claims[j].via # None
           /\ asked'[claims[j].via] = asked[claims[j].via]
<1> DEFINE c == claims[j]
           a == c.via
<1>1. c \in Claims /\ TokenOK(j)
    BY DEF IInv, TypeOK, TokensOK
<1>2. a # None /\ a \in Approval /\ asked[a].parent = c.chain[Len(c.chain)]
    BY <1>1 DEF SensitiveIsApproved, Claims
<1>3. Len(c.chain) \in 1 .. Len(c.chain)
    BY <1>1 DEF TokenOK, Claims
<1>4. c.chain[Len(c.chain)] \in records
    BY <1>1, <1>3 DEF TokenOK, HopOK
<1>5. asked[a].parent # None
    BY <1>2, <1>4, EngineAssumption DEF IInv, TypeOK
<1> QED BY <1>2, <1>5 DEF Grown

LEMMA ShownNext ==
    ASSUME IInv, SensitiveIsApproved, [Next]_vars
    PROVE  SensitiveIsApproved'
<1>0. Grown
    BY StepGrows
<1> DEFINE Shown(j) ==
       LET c == claims[j] IN
       c.depth > 0 /\ c.scopes \cap Sensitive # {} =>
           /\ c.via # None
           /\ asked[c.via].scopes = c.scopes
           /\ asked[c.via].parent = c.chain[Len(c.chain)]
<1>1. ASSUME NEW j \in signed PROVE Shown(j)'
    <2>1. claims'[j] = claims[j] /\ Shown(j)
        BY <1>0 DEF Grown, SensitiveIsApproved
    <2> QED BY <1>0, <2>1, ShownStays
<1>2. ASSUME NEW w \in Worker, Step(w), NEW j \in signed' \ signed PROVE Shown(j)'
    <2>1. CASE MintRoot(w)
        BY <1>2, <2>1, MintRootSays
    <2>2. CASE DelegateMint(w)
        BY <1>2, <2>2, DelegateMintSays DEF NeedsApproval
    <2>3. CASE ApproveSign(w)
        <3> DEFINE a == req[w].appr
        <3>1. /\ claims'[j].chain = Append(claims[asked[a].parent].chain, asked[a].parent)
              /\ claims'[j].via = a /\ claims'[j].scopes = asked[a].scopes
              /\ a \in Approval /\ asked[a].parent \in records /\ asked' = asked
            <4>1. PICK k \in Fresh :
                 /\ claims'[k].chain = Append(claims[asked[a].parent].chain, asked[a].parent)
                 /\ claims'[k].via = a /\ claims'[k].scopes = asked[a].scopes
                 /\ a \in Approval /\ asked[a].parent \in records /\ asked' = asked
                 /\ signed' = signed \cup {k}
                BY <2>3, ApproveSignSays
            <4>2. k = j
                BY <1>2, <4>1
            <4> QED BY <4>1, <4>2
        <3>2. claims[asked[a].parent].chain \in Seq(Jti) /\ asked[a].parent \in Jti
            BY <3>1 DEF IInv, TypeOK, Claims
        <3> DEFINE p == asked[a].parent
                   chain == claims[p].chain
        <3>3. chain \in Seq(Jti) /\ p \in Jti /\ claims'[j].chain = Append(chain, p)
            BY <3>1, <3>2
        <3> HIDE DEF chain, p
        <3>4. Append(chain, p)[Len(Append(chain, p))] = p
            BY <3>3, LastOfAppend
        <3>5. asked'[a].parent = claims'[j].chain[Len(claims'[j].chain)]
            BY <3>1, <3>3, <3>4 DEF p
        <3> QED BY <3>1, <3>5, EngineAssumption
    <2> QED BY <1>2, <2>1, <2>2, <2>3, OnlyTheseSign
<1>3. CASE \E w \in Worker : Step(w)
    BY <1>1, <1>2, <1>3 DEF SensitiveIsApproved
<1>4. CASE Restart \/ Tick \/ UNCHANGED vars
    BY <1>1, <1>4 DEF Restart, Tick, vars, SensitiveIsApproved
<1> QED BY <1>3, <1>4 DEF Next, Step

(* No step of delegate or approve signs a child with a sensitive scope but *)
(* through an approval, for the parent and scopes that its row shows.      *)
THEOREM SensitiveIsApprovedHolds == Spec => []SensitiveIsApproved
<1>1. Init => SensitiveIsApproved
    BY DEF Init, SensitiveIsApproved
<1>2. IInv /\ SensitiveIsApproved /\ [Next]_vars => SensitiveIsApproved'
    BY ShownNext
<1> QED BY <1>1, <1>2, Invariance, PTL DEF Spec

-----------------------------------------------------------------------------
(* The edges of the tree are the chains of the tokens.                     *)

Parent(j) == claims[j].chain[Len(claims[j].chain)]
Link(e)   == e[2] \in signed /\ claims[e[2]].chain # <<>> /\ e[1] = Parent(e[2])

LinksOf(w) ==
    /\ \A e \in txn[w].edges : Link(e)
    /\ \A j \in txn[w].tokens : claims[j].chain # <<>> => <<Parent(j), j>> \in txn[w].edges
    /\ txn[w].revoked \subseteq signed /\ known[w] \subseteq signed
    /\ loc[w].seen \subseteq signed /\ loc[w].level \subseteq signed

(* Every edge leads from the parent of a token to the token, every         *)
(* committed child has its edge, and only tokens are revoked.              *)
LinksInv ==
    /\ \A e \in edges : Link(e)
    /\ \A j \in records : claims[j].chain # <<>> => <<Parent(j), j>> \in edges
    /\ revoked \subseteq signed
    /\ \A w \in Worker : LinksOf(w)

LEMMA LinkStays ==
    ASSUME Grown, NEW e, Link(e)
    PROVE  Link(e)'
BY DEF Grown, Link, Parent

LEMMA OthersLinked ==
    ASSUME IInv, NEW v \in Worker, SameThread(v), Grown, LinksOf(v)
    PROVE  LinksOf(v)'
<1>1. txn[v].tokens \subseteq signed
    BY DEF IInv, HandlersOK, HandlerOK
<1>2. \A e \in txn'[v].edges : Link(e)'
    BY LinkStays DEF SameThread, LinksOf
<1>3. \A j \in txn'[v].tokens :
         claims'[j].chain # <<>> => <<Parent(j)', j>> \in txn'[v].edges
    BY <1>1 DEF SameThread, LinksOf, Grown, Parent
<1> QED BY <1>2, <1>3 DEF SameThread, LinksOf, Grown

LEMMA EndLinked ==
    ASSUME IInv, NEW w \in Worker, End(w)
    PROVE  LinksOf(w)'
BY DEF IInv, TypeOK, End, NoLocal, NoWrites, LinksOf

(* A step that stages neither tokens nor edges nor revocations.            *)
LEMMA SameLinks ==
    ASSUME IInv, NEW w \in Worker, LinksOf(w), Grown,
           txn'[w].tokens = txn[w].tokens, txn'[w].edges = txn[w].edges,
           txn'[w].revoked \subseteq signed, known'[w] \subseteq signed,
           loc'[w].seen \subseteq signed, loc'[w].level \subseteq signed
    PROVE  LinksOf(w)'
<1>1. txn[w].tokens \subseteq signed
    BY DEF IInv, HandlersOK, HandlerOK
<1>2. \A e \in txn'[w].edges : Link(e)'
    BY LinkStays DEF LinksOf
<1>3. \A j \in txn'[w].tokens :
         claims'[j].chain # <<>> => <<Parent(j)', j>> \in txn'[w].edges
    BY <1>1 DEF LinksOf, Grown, Parent
<1> QED BY <1>2, <1>3 DEF LinksOf, Grown

(* A child is staged with its edge.                                        *)
LEMMA ChildLinked ==
    ASSUME IInv, NEW w \in Worker, LinksOf(w), Grown, NEW j, NEW p \in records,
           claims'[j].chain = Append(claims[p].chain, p), signed' = signed \cup {j},
           txn'[w].tokens = {j}, txn'[w].edges = {<<p, j>>},
           txn'[w].revoked = txn[w].revoked, UNCHANGED <<loc, known>>
    PROVE  LinksOf(w)'
<1>1. claims[p].chain \in Seq(Jti) /\ p \in Jti
    BY DEF IInv, TypeOK, Claims
<1> DEFINE chain == claims[p].chain
<1>2. claims'[j].chain # <<>> /\ Parent(j)' = p
    <2>1. chain \in Seq(Jti) /\ claims'[j].chain = Append(chain, p)
        BY <1>1
    <2> HIDE DEF chain
    <2> QED BY <1>1, <2>1, LastOfAppend DEF Parent
<1>3. Link(<<p, j>>)'
    BY <1>2 DEF Link
<1> QED BY <1>2, <1>3 DEF LinksOf, Grown

LEMMA OpenLinked ==
    ASSUME IInv, NEW w \in Worker, Open(w), LinksInv, Grown
    PROVE  LinksOf(w)'
<1>0. LinksOf(w) /\ revoked \subseteq signed /\ records \subseteq signed
    BY DEF LinksInv, IInv, TokensOK
<1>1. CASE MintRoot(w)
    <2>1. PICK j \in Fresh :
             /\ claims'[j].chain = <<>> /\ txn'[w].tokens = {j} /\ txn'[w].edges = txn[w].edges
             /\ txn'[w].revoked = txn[w].revoked /\ known'[w] = {}
             /\ loc'[w].seen = {} /\ loc'[w].level = {}
        BY <1>1, MintRootSays
    <2>2. \A e \in txn'[w].edges : Link(e)'
        BY <1>0, <2>1, LinkStays DEF LinksOf
    <2> QED BY <1>0, <2>1, <2>2 DEF LinksOf, Grown
<1>2. ASSUME txn' = txn, known'[w] \subseteq signed,
             loc'[w].seen \subseteq signed, loc'[w].level \subseteq signed
      PROVE  LinksOf(w)'
    BY <1>0, <1>2, SameLinks DEF LinksOf
<1>3. CASE Delegate(w) \/ Verify(w)
    BY <1>0, <1>2, <1>3, AsksSay
<1>4. CASE Approve(w) \/ Deny(w)
    BY <1>0, <1>2, <1>4, DecisionsSay
<1>5. CASE Collect(w)
    BY <1>0, <1>2, <1>5, CollectSays
<1>6. CASE Revoke(w)
    BY <1>0, <1>2, <1>6, RevokeSays DEF Descendants
<1> QED BY <1>1, <1>3, <1>4, <1>5, <1>6 DEF Open

LEMMA AdvanceLinked ==
    ASSUME IInv, NEW w \in Worker, Advance(w), LinksInv, Grown
    PROVE  LinksOf(w)'
<1>0. /\ DOMAIN loc = Worker /\ loc[w] \in Local /\ LinksOf(w)
    BY DEF IInv, TypeOK, LinksInv
<1>1. CASE LookupRevoked(w) \/ VerifyLacksScope(w) \/ Respond(w) \/ DelegateRootBroken(w)
           \/ DelegateDenied(w) \/ RevokeConflict(w) \/ Commit(w)
    BY <1>1, EndLinked DEF LookupRevoked, VerifyLacksScope, Respond, DelegateRootBroken,
       DelegateDenied, RevokeConflict, Commit
<1>2. CASE LookupLive(w) \/ VerifyAllows(w) \/ DelegateRootAlive(w) \/ ApproveParentLive(w)
           \/ CollectRefresh(w) \/ RevokeLevel(w) \/ RevokeAlready(w)
    <2>1. UNCHANGED <<txn, known>> /\ loc'[w].seen \subseteq signed /\ loc'[w].level \subseteq signed
        <3>1. CASE RevokeLevel(w)
            <4>1. Below(w) \subseteq signed
                BY DEF Below, LinksInv, Link
            <4> QED BY <1>0, <3>1, <4>1 DEF RevokeLevel, Local, LinksOf
        <3>2. CASE ~RevokeLevel(w)
            BY <1>0, <1>2, <3>2 DEF LookupLive, VerifyAllows, DelegateRootAlive,
               ApproveParentLive, CollectRefresh, RevokeAlready, Local, LinksOf
        <3> QED BY <1>2, <3>1, <3>2 DEF RevokeLevel
    <2> QED BY <1>0, <2>1, SameLinks DEF LinksOf
<1>3. CASE DelegateMint(w)
    <2> DEFINE p == req[w].tok
    <2>1. PICK j \in Fresh :
             /\ claims'[j].chain = Append(claims[p].chain, p) /\ signed' = signed \cup {j}
             /\ txn'[w].tokens = {j} /\ txn'[w].edges = {<<p, j>>}
             /\ txn'[w].revoked = txn[w].revoked /\ UNCHANGED <<loc, known>>
             /\ p \in records
        BY <1>3, DelegateMintSays
    <2> HIDE DEF p
    <2> QED BY <1>0, <2>1, ChildLinked
<1>4. CASE DelegatePark(w)
    BY <1>0, <1>4, DelegateParkSays, SameLinks DEF LinksOf
<1>5. CASE ApproveSign(w)
    <2> DEFINE p == asked[req[w].appr].parent
    <2>1. PICK j \in Fresh :
             /\ claims'[j].chain = Append(claims[p].chain, p) /\ signed' = signed \cup {j}
             /\ txn'[w].tokens = {j} /\ txn'[w].edges = {<<p, j>>}
             /\ txn'[w].revoked = txn[w].revoked /\ UNCHANGED <<loc, known>>
             /\ p \in records
        BY <1>5, ApproveSignSays
    <2> HIDE DEF p
    <2> QED BY <1>0, <2>1, ChildLinked
<1> QED BY <1>1, <1>2, <1>3, <1>4, <1>5 DEF Advance

LEMMA WriteLinked ==
    ASSUME IInv, NEW w \in Worker, Write(w), LinksInv, Grown
    PROVE  LinksOf(w)'
<1>0. /\ txn \in [Worker -> Staged] /\ txn[w] \in Staged /\ LinksOf(w) /\ HandlerOK(w)
    BY DEF IInv, TypeOK, HandlersOK, LinksInv
<1>1. CASE ApproveParentRevoked(w) \/ ApproveParentExpired(w)
    BY <1>1, EndLinked DEF ApproveParentRevoked, ApproveParentExpired
<1>2. CASE ApproveDecide(w) \/ DenyDecide(w)
    <2> DEFINE a == req[w].appr
    <2>1. a \in Approval /\ UNCHANGED <<loc, known>>
        BY <1>0, <1>2 DEF ApproveDecide, DenyDecide, HandlerOK
    <2>2. PICK status : Stage(w, [txn[w] EXCEPT !.status[a] = status])
        BY <1>2 DEF ApproveDecide, DenyDecide
    <2> HIDE DEF a
    <2>3. /\ txn'[w].tokens = txn[w].tokens /\ txn'[w].edges = txn[w].edges
          /\ txn'[w].revoked = txn[w].revoked
        BY <2>1, <2>2, StatusStaged
    <2> QED BY <1>0, <2>1, <2>3, SameLinks DEF LinksOf
<1>3. CASE CollectExpire(w) \/ CollectMark(w) \/ RevokeInsert(w)
    <2>1. /\ txn'[w].tokens = txn[w].tokens /\ txn'[w].edges = txn[w].edges
          /\ txn'[w].revoked \subseteq signed /\ UNCHANGED <<loc, known>>
        BY <1>0, <1>3 DEF CollectExpire, CollectMark, RevokeInsert, Stage, Staged, LinksOf
    <2> QED BY <1>0, <2>1, SameLinks DEF LinksOf
<1> QED BY <1>1, <1>2, <1>3 DEF Write

LEMMA LinksNext ==
    ASSUME IInv, LinksInv, [Next]_vars
    PROVE  LinksInv'
<1>0. Grown /\ records \subseteq signed
    BY StepGrows DEF IInv, TokensOK
<1>1. ASSUME NEW w \in Worker, Step(w) PROVE \A v \in Worker : LinksOf(v)'
    <2>1. ASSUME NEW v \in Worker, v # w PROVE LinksOf(v)'
        BY <1>0, <1>1, <2>1, OthersStay, OthersLinked DEF LinksInv
    <2>2. LinksOf(w)'
        <3>1. CASE Abort(w)
            BY <3>1, EndLinked DEF Abort
        <3> QED BY <1>0, <1>1, <3>1, OpenLinked, AdvanceLinked, WriteLinked DEF Step
    <2> QED BY <2>1, <2>2
<1>2. CASE Restart
    <2>1. \A v \in Worker : LinksOf(v)'
        BY <1>2 DEF Restart, LinksOf, NoLocal, NoWrites
    <2> QED BY <1>2, <2>1 DEF Restart, LinksInv, Link, Parent
<1>3. ASSUME UNCHANGED db, \A v \in Worker : LinksOf(v)' PROVE LinksInv'
    <2>1. \A e \in edges : Link(e)'
        BY <1>0, LinkStays DEF LinksInv
    <2>2. \A j \in records : claims'[j].chain # <<>> => <<Parent(j)', j>> \in edges
        BY <1>0 DEF LinksInv, Grown, Parent
    <2> QED BY <1>0, <1>3, <2>1, <2>2 DEF LinksInv, db, Grown
<1>4. CASE Tick \/ UNCHANGED vars
    <2>1. UNCHANGED db /\ \A v \in Worker : SameThread(v)
        BY <1>4 DEF Tick, vars, db, threads, SameThread
    <2> QED BY <1>0, <1>3, <2>1, OthersLinked DEF LinksInv
<1>5. ASSUME NEW w \in Worker, Commit(w), \A v \in Worker : LinksOf(v)' PROVE LinksInv'
    <2>1. /\ UNCHANGED <<signed, claims>> /\ LinksOf(w)
          /\ edges' = edges \cup txn[w].edges /\ records' = records \cup txn[w].tokens
          /\ revoked' = revoked \cup txn[w].revoked
        BY <1>5 DEF Commit, world, LinksInv
    <2>2. \A e \in edges' : Link(e)'
        BY <2>1 DEF LinksInv, LinksOf, Link, Parent
    <2>3. \A j \in records' : claims'[j].chain # <<>> => <<Parent(j)', j>> \in edges'
        BY <2>1 DEF LinksInv, LinksOf, Parent
    <2> QED BY <1>5, <2>1, <2>2, <2>3 DEF LinksInv, LinksOf
<1>6. ASSUME NEW w \in Worker, Step(w) PROVE LinksInv'
    BY <1>1, <1>3, <1>5, <1>6, OnlyCommitWrites
<1> QED BY <1>2, <1>4, <1>6 DEF Next, Step

-----------------------------------------------------------------------------
(* What was revoked before a request arrived lets nothing through.         *)

(* While a handler looks up the lineage of the presented token, whatever   *)
(* of it was revoked when the request arrived has yet to be looked up;     *)
(* afterwards nothing of it was.                                           *)
Asked(w) ==
    /\ pc[w] \in {"lookup", "mint", "allowed"} =>
         req[w].tok \in records /\ known[w] \subseteq revoked
    /\ pc[w] = "lookup" => \A j \in Lineage(req[w].tok) \cap known[w] :
         \E i \in 1 .. Len(loc[w].todo) : loc[w].todo[i] = j
    /\ pc[w] \in {"mint", "allowed"} => Lineage(req[w].tok) \cap known[w] = {}
    /\ pc[w] = "commit" /\ req[w].op = "delegate" =>
         \A j \in txn[w].tokens : Lineage(j) \cap known[w] = {}

LiveInv == \A w \in Worker : Asked(w)

LEMMA LineageStays ==
    ASSUME Grown, NEW j \in signed
    PROVE  Lineage(j)' = Lineage(j)
BY DEF Grown, Lineage

(* The lookups of a request miss no token of the lineage.                  *)
LEMMA LookupsCover ==
    ASSUME IInv, NEW j \in records, NEW k \in Lineage(j)
    PROVE  \E i \in 1 .. Len(Lookups(j)) : Lookups(j)[i] = k
<1>1. j \in Jti /\ claims[j].chain \in Seq(Jti)
    BY DEF IInv, TypeOK, Claims
<1> DEFINE chain == claims[j].chain
<1>2. /\ Len(<<j>> \o chain) = Len(chain) + 1 /\ (<<j>> \o chain)[1] = j
      /\ \A i \in 1 .. Len(chain) : (<<j>> \o chain)[i + 1] = chain[i]
    <2>1. chain \in Seq(Jti)
        BY <1>1
    <2> HIDE DEF chain
    <2> QED BY <1>1, <2>1
<1>3. CASE k = j
    <2>1. 1 \in 1 .. Len(Lookups(j)) /\ Lookups(j)[1] = k
        BY <1>1, <1>2, <1>3 DEF Lookups
    <2> QED BY <2>1
<1>4. CASE k # j
    <2>1. PICK i \in 1 .. Len(chain) : k = chain[i]
        BY <1>4 DEF Lineage
    <2>2. i + 1 \in 1 .. Len(Lookups(j)) /\ Lookups(j)[i + 1] = k
        BY <1>1, <1>2, <2>1 DEF Lookups
    <2> QED BY <2>2
<1> QED BY <1>3, <1>4

LEMMA OthersAsked ==
    ASSUME IInv, NEW v \in Worker, SameThread(v), Grown, Asked(v)
    PROVE  Asked(v)'
<1>1. records \subseteq signed /\ txn[v].tokens \subseteq signed
    BY DEF IInv, TokensOK, HandlersOK, HandlerOK
<1>2. \A j \in signed : Lineage(j)' = Lineage(j)
    BY LineageStays
<1>3. /\ pc'[v] = pc[v] /\ req'[v] = req[v] /\ loc'[v] = loc[v] /\ txn'[v] = txn[v]
      /\ known'[v] = known[v]
    BY DEF SameThread
<1>4. ASSUME pc[v] \in {"lookup", "mint", "allowed"}
      PROVE  /\ req[v].tok \in records /\ known[v] \subseteq revoked
             /\ Lineage(req[v].tok)' = Lineage(req[v].tok)
    <2>1. req[v].tok \in signed /\ req'[v].tok = req[v].tok
        BY <1>1, <1>3, <1>4 DEF Asked
    <2> QED BY <1>4, <2>1 DEF Asked, Grown, Lineage
<1>5. ASSUME pc[v] \in {"lookup", "mint", "allowed"} PROVE Asked(v)'
    BY <1>3, <1>4, <1>5 DEF Asked, Grown
<1>6. ASSUME pc[v] \notin {"lookup", "mint", "allowed"} PROVE Asked(v)'
    BY <1>1, <1>2, <1>3, <1>6 DEF Asked
<1> QED BY <1>5, <1>6

LEMMA IdleAsked ==
    ASSUME NEW w \in Worker,
           pc'[w] \notin {"lookup", "mint", "allowed"},
           pc'[w] = "commit" /\ req'[w].op = "delegate" => txn'[w].tokens = {}
    PROVE  Asked(w)'
BY DEF Asked

LEMMA OpenAsked ==
    ASSUME IInv, NEW w \in Worker, Open(w)
    PROVE  Asked(w)'
<1>1. CASE Delegate(w) \/ Verify(w)
    <2>1. PICK j \in records :
             /\ pc'[w] = "lookup" /\ req'[w].tok = j /\ loc'[w].todo = Lookups(j)
             /\ known'[w] = revoked /\ UNCHANGED <<claims, records, revoked>>
        BY <1>1, AsksSay DEF world, db
    <2>2. \A k \in Lineage(j) : \E i \in 1 .. Len(Lookups(j)) : Lookups(j)[i] = k
        BY LookupsCover
    <2>3. Lineage(req[w].tok)' = Lineage(j)
        BY <2>1 DEF Lineage
    <2> QED BY <2>1, <2>2, <2>3 DEF Asked
<1>2. CASE MintRoot(w)
    BY <1>2, MintRootSays, IdleAsked
<1>3. CASE Approve(w) \/ Deny(w)
    BY <1>3, DecisionsSay, IdleAsked
<1>4. CASE Collect(w)
    BY <1>4, CollectSays, IdleAsked
<1>5. CASE Revoke(w)
    BY <1>5, RevokeSays, IdleAsked
<1> QED BY <1>1, <1>2, <1>3, <1>4, <1>5 DEF Open

LEMMA EndAsked ==
    ASSUME IInv, NEW w \in Worker, End(w)
    PROVE  Asked(w)'
BY IdleAsked DEF IInv, TypeOK, End

LEMMA AdvanceAsked ==
    ASSUME IInv, NEW w \in Worker, Advance(w), LiveInv, InStep(w), LinksInv, Grown
    PROVE  Asked(w)'
<1>0. /\ pc \in [Worker -> Label] /\ loc \in [Worker -> Local] /\ loc[w] \in Local
      /\ loc[w].todo \in Seq(Jti) /\ records \subseteq signed /\ Asked(w)
      /\ revoked \subseteq signed
    BY DEF IInv, TypeOK, Local, TokensOK, LiveInv, LinksInv
<1>1. CASE LookupRevoked(w) \/ VerifyLacksScope(w) \/ Respond(w) \/ DelegateRootBroken(w)
           \/ DelegateDenied(w) \/ RevokeConflict(w) \/ Commit(w)
    BY <1>1, EndAsked DEF LookupRevoked, VerifyLacksScope, Respond, DelegateRootBroken,
       DelegateDenied, RevokeConflict, Commit
<1>2. CASE LookupLive(w)
    <2> DEFINE todo == loc[w].todo
    <2>1. /\ todo # <<>> /\ Head(todo) \notin revoked /\ pc[w] = "lookup" /\ pc'[w] = "lookup"
          /\ loc'[w].todo = Tail(todo) /\ UNCHANGED <<claims, records, revoked, req, known>>
        BY <1>0, <1>2 DEF LookupLive, Local, world, db
    <2>2. ASSUME NEW j \in Lineage(req[w].tok) \cap known[w]
          PROVE  \E i \in 1 .. Len(Tail(todo)) : Tail(todo)[i] = j
        <3>1. PICK i \in 1 .. Len(todo) : todo[i] = j
            BY <1>0, <2>1 DEF Asked
        <3>2. i # 1
            BY <1>0, <2>1, <3>1 DEF Asked
        <3>3. i - 1 \in 1 .. Len(Tail(todo)) /\ Tail(todo)[i - 1] = j
            <4>1. todo \in Seq(Jti)
                BY <1>0
            <4> HIDE DEF todo
            <4> QED BY <2>1, <3>1, <3>2, <4>1
        <3> QED BY <3>3
    <2>3. Lineage(req[w].tok)' = Lineage(req[w].tok)
        BY <2>1 DEF Lineage
    <2>4. req'[w].tok \in records' /\ known'[w] \subseteq revoked'
        BY <1>0, <2>1 DEF Asked
    <2>5. \A j \in Lineage(req[w].tok)' \cap known'[w] :
             \E i \in 1 .. Len(loc'[w].todo) : loc'[w].todo[i] = j
        BY <2>1, <2>2, <2>3
    <2> QED BY <2>1, <2>4, <2>5 DEF Asked
<1>3. CASE VerifyAllows(w) \/ DelegateRootAlive(w)
    <2>1. /\ pc[w] = "lookup" /\ pc'[w] \in {"mint", "allowed"} /\ loc[w].todo = <<>>
          /\ UNCHANGED <<claims, records, revoked, req, known>>
        BY <1>0, <1>3 DEF VerifyAllows, DelegateRootAlive, Goto, world, db
    <2>2. Lineage(req[w].tok)' = Lineage(req[w].tok)
        BY <2>1 DEF Lineage
    <2>3. Lineage(req[w].tok) \cap known[w] = {}
        BY <1>0, <2>1 DEF Asked
    <2> QED BY <1>0, <2>1, <2>2, <2>3 DEF Asked
<1>4. CASE ApproveParentLive(w) \/ CollectRefresh(w) \/ RevokeLevel(w) \/ RevokeAlready(w)
    <2>1. /\ pc'[w] \in {"sign", "mark", "commit", "walk", "already", "insert"}
          /\ pc'[w] = "commit" => pc[w] = "refresh" /\ txn'[w] = txn[w]
        BY <1>0, <1>4 DEF ApproveParentLive, CollectRefresh, RevokeLevel, RevokeAlready, Goto
    <2> QED BY <2>1, IdleAsked DEF InStep
<1>5. CASE DelegateMint(w)
    <2> DEFINE p == req[w].tok
    <2>1. PICK j \in Fresh :
             /\ claims'[j].chain = Append(claims[p].chain, p)
             /\ txn'[w].tokens = {j} /\ j \notin signed /\ p \in records
             /\ pc[w] = "mint" /\ pc'[w] = "commit" /\ known' = known
        BY <1>5, DelegateMintSays
    <2>2. Lineage(p) \cap known[w] = {} /\ known[w] \subseteq signed
        BY <1>0, <2>1 DEF Asked
    <2>3. ASSUME NEW k \in Lineage(j)' PROVE k \notin known[w]
        <3>1. CASE k = j
            BY <2>1, <2>2, <3>1
        <3>2. CASE k # j
            <4>1. PICK i \in 1 .. Len(claims'[j].chain) : k = claims'[j].chain[i]
                BY <3>2 DEF Lineage
            <4>2. claims[p].chain \in Seq(Jti) /\ p \in Jti
                BY <2>1 DEF IInv, TypeOK, Claims
            <4> DEFINE chain == claims[p].chain
            <4>3. k = p \/ \E n \in 1 .. Len(chain) : k = chain[n]
                <5>1. /\ i \in 1 .. Len(Append(chain, p)) /\ k = Append(chain, p)[i]
                      /\ chain \in Seq(Jti)
                    BY <2>1, <4>1, <4>2
                <5> HIDE DEF chain, p
                <5> QED BY <4>2, <5>1
            <4> QED BY <2>2, <4>3 DEF Lineage
        <3> QED BY <3>1, <3>2
    <2> QED BY <2>1, <2>3 DEF Asked
<1>6. CASE DelegatePark(w)
    BY <1>6, DelegateParkSays, IdleAsked DEF InStep
<1>7. CASE ApproveSign(w)
    BY <1>7, ApproveSignSays, IdleAsked
<1> QED BY <1>1, <1>2, <1>3, <1>4, <1>5, <1>6, <1>7 DEF Advance

LEMMA WriteAsked ==
    ASSUME IInv, NEW w \in Worker, Write(w), InStep(w)
    PROVE  Asked(w)'
<1>0. pc \in [Worker -> Label] /\ txn \in [Worker -> Staged] /\ txn[w] \in Staged
    BY DEF IInv, TypeOK
<1>1. CASE ApproveParentRevoked(w) \/ ApproveParentExpired(w)
    BY <1>1, EndAsked DEF ApproveParentRevoked, ApproveParentExpired
<1>2. CASE ApproveDecide(w) \/ DenyDecide(w)
    BY <1>0, <1>2, IdleAsked DEF ApproveDecide, DenyDecide, Goto
<1>3. CASE CollectExpire(w) \/ CollectMark(w) \/ RevokeInsert(w)
    BY <1>0, <1>3, IdleAsked DEF CollectExpire, CollectMark, RevokeInsert, Goto, Stage, Staged,
       InStep
<1> QED BY <1>1, <1>2, <1>3 DEF Write

LEMMA LiveNext ==
    ASSUME IInv, AuditInv, LinksInv, LiveInv, [Next]_vars
    PROVE  LiveInv'
<1>0. Grown
    BY StepGrows
<1>1. ASSUME NEW w \in Worker, Step(w) PROVE LiveInv'
    <2>1. ASSUME NEW v \in Worker, v # w PROVE Asked(v)'
        BY <1>0, <1>1, <2>1, OthersStay, OthersAsked DEF LiveInv
    <2>2. Asked(w)'
        <3>1. CASE Abort(w)
            BY <3>1, EndAsked DEF Abort
        <3> QED BY <1>0, <1>1, <3>1, OpenAsked, AdvanceAsked, WriteAsked DEF Step, AuditInv
    <2> QED BY <2>1, <2>2 DEF LiveInv
<1>2. CASE Restart
    BY <1>2, IdleAsked DEF Restart, LiveInv
<1>3. CASE Tick \/ UNCHANGED vars
    <2>1. \A v \in Worker : SameThread(v)
        BY <1>3 DEF Tick, vars, threads, SameThread
    <2> QED BY <1>0, <2>1, OthersAsked DEF LiveInv
<1> QED BY <1>1, <1>2, <1>3 DEF Next, Step

(* approve looks up the parent of the request, alone, and mints two steps  *)
(* later: what was revoked before the human's request came in, the lookup  *)
(* has seen.                                                               *)
Approving(w) ==
    /\ pc[w] = "load" => known[w] \subseteq revoked
    /\ pc[w] = "sign" => asked[req[w].appr].parent \notin known[w]
    /\ pc[w] \in {"decide", "commit"} /\ req[w].op = "approve" =>
         \A j \in txn[w].tokens : Parent(j) \notin known[w]

ApproveInv == \A w \in Worker : Approving(w)

LEMMA OthersApproving ==
    ASSUME IInv, NEW v \in Worker, SameThread(v), Grown, Approving(v)
    PROVE  Approving(v)'
<1>1. /\ pc'[v] = pc[v] /\ req'[v] = req[v] /\ txn'[v] = txn[v] /\ known'[v] = known[v]
      /\ HandlerOK(v)
    BY DEF SameThread, IInv, HandlersOK
<1>2. pc[v] = "sign" => asked'[req[v].appr] = asked[req[v].appr]
    BY <1>1 DEF HandlerOK, Grown
<1>3. \A j \in txn[v].tokens : Parent(j)' = Parent(j)
    BY <1>1 DEF HandlerOK, Grown, Parent
<1>4. revoked \subseteq revoked'
    BY DEF Grown
<1> QED BY <1>1, <1>2, <1>3, <1>4 DEF Approving

LEMMA NotApproving ==
    ASSUME NEW w \in Worker, pc'[w] \notin {"load", "sign"},
           pc'[w] \in {"decide", "commit"} => req'[w].op # "approve"
    PROVE  Approving(w)'
BY DEF Approving

LEMMA EndApproving ==
    ASSUME IInv, NEW w \in Worker, End(w)
    PROVE  Approving(w)'
BY NotApproving DEF IInv, TypeOK, End

LEMMA OpenApproving ==
    ASSUME IInv, NEW w \in Worker, Open(w)
    PROVE  Approving(w)'
<1>1. CASE Approve(w) \/ Deny(w)
    <2>1. /\ \/ pc'[w] = "load"
             \/ pc'[w] = "decide" /\ req'[w].op = "deny"
          /\ known'[w] = revoked /\ revoked' = revoked
        BY <1>1, DecisionsSay DEF db
    <2> QED BY <2>1 DEF Approving
<1>2. CASE Delegate(w) \/ Verify(w)
    BY <1>2, AsksSay, NotApproving
<1>3. CASE MintRoot(w)
    BY <1>3, MintRootSays, NotApproving
<1>4. CASE Collect(w)
    BY <1>4, CollectSays, NotApproving
<1>5. CASE Revoke(w)
    BY <1>5, RevokeSays, NotApproving
<1> QED BY <1>1, <1>2, <1>3, <1>4, <1>5 DEF Open

LEMMA AdvanceApproving ==
    ASSUME IInv, NEW w \in Worker, Advance(w), InStep(w), Approving(w)
    PROVE  Approving(w)'
<1>0. pc \in [Worker -> Label]
    BY DEF IInv, TypeOK
<1>1. CASE LookupRevoked(w) \/ VerifyLacksScope(w) \/ Respond(w) \/ DelegateRootBroken(w)
           \/ DelegateDenied(w) \/ RevokeConflict(w) \/ Commit(w)
    BY <1>1, EndApproving DEF LookupRevoked, VerifyLacksScope, Respond, DelegateRootBroken,
       DelegateDenied, RevokeConflict, Commit
<1>2. CASE LookupLive(w)
    BY <1>0, <1>2, NotApproving DEF LookupLive
<1>3. CASE VerifyAllows(w) \/ DelegateRootAlive(w)
    BY <1>0, <1>3, NotApproving DEF VerifyAllows, DelegateRootAlive, Goto
<1>4. CASE CollectRefresh(w) \/ RevokeLevel(w) \/ RevokeAlready(w)
    BY <1>0, <1>4, NotApproving DEF CollectRefresh, RevokeLevel, RevokeAlready, Goto, InStep
<1>5. CASE DelegateMint(w) \/ DelegatePark(w)
    BY <1>5, DelegateMintSays, DelegateParkSays, NotApproving DEF InStep
<1>6. CASE ApproveParentLive(w)
    <2>1. /\ pc[w] = "load" /\ pc'[w] = "sign" /\ asked[req[w].appr].parent \notin revoked
          /\ UNCHANGED <<asked, req, known>>
        BY <1>0, <1>6 DEF ApproveParentLive, Goto, world
    <2> QED BY <2>1 DEF Approving
<1>7. CASE ApproveSign(w)
    <2> DEFINE p == asked[req[w].appr].parent
    <2>1. PICK j \in Fresh :
             /\ claims'[j].chain = Append(claims[p].chain, p)
             /\ txn'[w].tokens = {j} /\ pc[w] = "sign" /\ pc'[w] = "decide"
             /\ p \in records /\ known' = known
        BY <1>7, ApproveSignSays
    <2>2. p \notin known[w]
        <3>1. pc[w] = "sign"
            BY <2>1
        <3> QED BY <3>1 DEF Approving
    <2> HIDE DEF p
    <2>3. p \in Jti /\ claims[p].chain \in Seq(Jti)
        <3>1. claims \in [Jti -> Claims] /\ p \in Jti
            BY <2>1 DEF IInv, TypeOK
        <3> QED BY <3>1 DEF Claims
    <2>4. Parent(j)' = p
        <3> DEFINE chain == claims[p].chain
        <3>1. Append(chain, p)[Len(Append(chain, p))] = p
            <4>1. chain \in Seq(Jti)
                BY <2>3
            <4> HIDE DEF chain
            <4> QED BY <2>3, <4>1
        <3> QED BY <2>1, <3>1 DEF Parent
    <2> QED BY <2>1, <2>2, <2>4 DEF Approving
<1> QED BY <1>1, <1>2, <1>3, <1>4, <1>5, <1>6, <1>7 DEF Advance

LEMMA WriteApproving ==
    ASSUME IInv, NEW w \in Worker, Write(w), InStep(w), Approving(w)
    PROVE  Approving(w)'
<1>0. pc \in [Worker -> Label] /\ txn \in [Worker -> Staged] /\ txn[w] \in Staged
    BY DEF IInv, TypeOK
<1>1. CASE ApproveParentRevoked(w) \/ ApproveParentExpired(w)
    BY <1>1, EndApproving DEF ApproveParentRevoked, ApproveParentExpired
<1>2. CASE ApproveDecide(w)
    <2>1. /\ pc[w] = "decide" /\ pc'[w] = "commit" /\ req[w].op = "approve"
          /\ txn'[w].tokens = txn[w].tokens /\ UNCHANGED <<claims, req, known>>
        BY <1>0, <1>2 DEF ApproveDecide, Goto, Stage, Staged
    <2> QED BY <2>1 DEF Approving, Parent
<1>3. CASE DenyDecide(w)
    BY <1>0, <1>3, NotApproving DEF DenyDecide, Goto
<1>4. CASE CollectExpire(w) \/ CollectMark(w) \/ RevokeInsert(w)
    BY <1>0, <1>4, NotApproving DEF CollectExpire, CollectMark, RevokeInsert, Goto, InStep
<1> QED BY <1>1, <1>2, <1>3, <1>4 DEF Write

LEMMA ApproveNext ==
    ASSUME IInv, AuditInv, ApproveInv, [Next]_vars
    PROVE  ApproveInv'
<1>0. Grown
    BY StepGrows
<1>1. ASSUME NEW w \in Worker, Step(w) PROVE ApproveInv'
    <2>1. ASSUME NEW v \in Worker, v # w PROVE Approving(v)'
        BY <1>0, <1>1, <2>1, OthersStay, OthersApproving DEF ApproveInv
    <2>2. Approving(w)'
        <3>1. CASE Abort(w)
            BY <3>1, EndApproving DEF Abort
        <3> QED BY <1>1, <3>1, OpenApproving, AdvanceApproving, WriteApproving
                DEF Step, AuditInv, ApproveInv
    <2> QED BY <2>1, <2>2 DEF ApproveInv
<1>2. CASE Restart
    BY <1>2, NotApproving DEF Restart, ApproveInv
<1>3. CASE Tick \/ UNCHANGED vars
    <2>1. \A v \in Worker : SameThread(v)
        BY <1>3 DEF Tick, vars, threads, SameThread
    <2> QED BY <1>0, <2>1, OthersApproving DEF ApproveInv
<1> QED BY <1>1, <1>2, <1>3 DEF Next, Step

(* verify allows nothing, and delegate mints nothing, under a token that   *)
(* was revoked, or descends from one that was, when the request arrived;   *)
(* approve mints nothing for a parent that was.                            *)
THEOREM LiveWhenAskedHolds == Spec => []LiveWhenAsked
<1>1. Init => AuditInv /\ LinksInv /\ LiveInv /\ ApproveInv
    BY DEF Init, AuditInv, InStep, Vouched, LinksInv, LinksOf, LiveInv, Asked, ApproveInv,
       Approving, NoLocal, NoWrites
<1>2. IInv /\ AuditInv /\ LinksInv /\ LiveInv /\ ApproveInv /\ [Next]_vars
      => AuditInv' /\ LinksInv' /\ LiveInv' /\ ApproveInv'
    BY AuditNext, LinksNext, LiveNext, ApproveNext
<1>3. IInv /\ LiveInv /\ ApproveInv => LiveWhenAsked
    BY DEF LiveInv, Asked, ApproveInv, Approving, Parent, LiveWhenAsked, AllowedIsLive,
       MintedIsLive, ApprovedIsLive
<1> QED BY <1>1, <1>2, <1>3, Invariance, PTL DEF Spec

-----------------------------------------------------------------------------
(* A revoke reaches every descendant.                                      *)

(* The walk is on its way to d: a token of the chain of d is in the level  *)
(* that is read next, and no later one was seen.                           *)
Ahead(w, d) ==
    \E m \in 1 .. Len(claims[d].chain) :
        /\ claims[d].chain[m] \in loc[w].level
        /\ \A n \in m + 1 .. Len(claims[d].chain) : claims[d].chain[n] \notin loc[w].seen

Walked(w) ==
    /\ pc[w] = "walk" => /\ loc[w].level \subseteq loc[w].seen
                         /\ known[w] \subseteq records
                         /\ \A d \in known[w] \ loc[w].seen : Ahead(w, d)
    /\ pc[w] = "already" => known[w] \subseteq loc[w].seen
    /\ pc[w] = "insert" => known[w] \subseteq loc[w].level \cup revoked
    /\ pc[w] = "commit" /\ req[w].op = "revoke" => known[w] \subseteq revoked \cup txn[w].revoked

WalkInv == \A w \in Worker : Walked(w)

LEMMA OthersWalked ==
    ASSUME IInv, NEW v \in Worker, SameThread(v), Grown, Walked(v)
    PROVE  Walked(v)'
<1>1. records \subseteq signed
    BY DEF IInv, TokensOK
<1>2. ASSUME NEW d \in records PROVE Ahead(v, d)' <=> Ahead(v, d)
    BY <1>1 DEF SameThread, Grown, Ahead
<1> QED BY <1>2 DEF SameThread, Grown, Walked

LEMMA NotWalking ==
    ASSUME NEW w \in Worker,
           pc'[w] \notin {"walk", "already", "insert"},
           pc'[w] = "commit" => req'[w].op # "revoke"
    PROVE  Walked(w)'
BY DEF Walked

LEMMA EndWalked ==
    ASSUME IInv, NEW w \in Worker, End(w)
    PROVE  Walked(w)'
BY NotWalking DEF IInv, TypeOK, End

(* A chain names a token once.                                             *)
LEMMA ChainIsSimple ==
    ASSUME IInv, NEW d \in signed, NEW m \in 1 .. Len(claims[d].chain),
           NEW n \in 1 .. Len(claims[d].chain), claims[d].chain[m] = claims[d].chain[n]
    PROVE  m = n
<1> DEFINE chain == claims[d].chain
<1>1. HopOK(d, m) /\ HopOK(d, n) /\ chain \in Seq(Jti)
    BY DEF IInv, TypeOK, TokensOK, TokenOK, Claims
<1>2. SubSeq(chain, 1, m - 1) = SubSeq(chain, 1, n - 1)
    BY <1>1 DEF HopOK
<1>3. Len(SubSeq(chain, 1, m - 1)) = m - 1 /\ Len(SubSeq(chain, 1, n - 1)) = n - 1
    <2>1. chain \in Seq(Jti) /\ m \in 1 .. Len(chain) /\ n \in 1 .. Len(chain)
        BY <1>1
    <2> HIDE DEF chain
    <2> QED BY <2>1
<1> QED BY <1>2, <1>3

(* The parent of a hop is the hop before it, and there is an edge.         *)
LEMMA HopHasEdge ==
    ASSUME IInv, LinksInv, NEW d \in records, NEW m \in 1 .. Len(claims[d].chain)
    PROVE  LET chain == claims[d].chain
               next  == IF m = Len(chain) THEN d ELSE chain[m + 1]
           IN  next \in records /\ Parent(next) = chain[m] /\ <<chain[m], next>> \in edges
<1> DEFINE chain == claims[d].chain
           next  == IF m = Len(chain) THEN d ELSE chain[m + 1]
<1>1. TokenOK(d) /\ chain \in Seq(Jti) /\ Len(chain) \in Nat
    BY DEF IInv, TypeOK, TokensOK, Claims
<1>2. next \in records /\ claims[next].chain = SubSeq(chain, 1, m)
    <2>1. CASE m = Len(chain)
        <3>1. SubSeq(chain, 1, m) = chain
            <4>1. chain \in Seq(Jti)
                BY <1>1
            <4> HIDE DEF chain
            <4> QED BY <2>1, <4>1
        <3> QED BY <2>1, <3>1
    <2>2. CASE m # Len(chain)
        <3>1. m + 1 \in 1 .. Len(chain) /\ (m + 1) - 1 = m
            BY <1>1, <2>2
        <3>2. HopOK(d, m + 1)
            BY <1>1, <3>1 DEF TokenOK
        <3> QED BY <2>2, <3>1, <3>2 DEF HopOK
    <2> QED BY <2>1, <2>2
<1>3. /\ Len(SubSeq(chain, 1, m)) = m /\ SubSeq(chain, 1, m)[m] = chain[m]
      /\ SubSeq(chain, 1, m) # <<>>
    <2>1. chain \in Seq(Jti) /\ m \in 1 .. Len(chain)
        BY <1>1
    <2> HIDE DEF chain
    <2> QED BY <2>1
<1>4. Parent(next) = chain[m] /\ claims[next].chain # <<>>
    BY <1>2, <1>3 DEF Parent
<1> QED BY <1>2, <1>4 DEF LinksInv

LEMMA StartsWalk ==
    ASSUME IInv, NEW w \in Worker, Revoke(w)
    PROVE  Walked(w)'
<1>1. PICK j \in records :
         /\ pc'[w] = "walk" /\ loc'[w].seen = {j} /\ loc'[w].level = {j}
         /\ known'[w] = Descendants(j) /\ UNCHANGED <<claims, records>>
    BY RevokeSays DEF world, db
<1>2. ASSUME NEW d \in Descendants(j), d # j PROVE Ahead(w, d)'
    <2>1. PICK m \in 1 .. Len(claims[d].chain) : j = claims[d].chain[m]
        BY <1>2 DEF Descendants, Lineage
    <2>2. d \in signed /\ Len(claims[d].chain) \in Nat
        BY DEF Descendants, IInv, TypeOK, TokensOK, Claims
    <2>3. ASSUME NEW n \in m + 1 .. Len(claims[d].chain) PROVE claims[d].chain[n] # j
        BY <2>1, <2>2, ChainIsSimple
    <2> QED BY <1>1, <2>1, <2>3 DEF Ahead
<1>3. Descendants(j) \subseteq records
    BY DEF Descendants
<1> QED BY <1>1, <1>2, <1>3 DEF Walked

(* One level further, nothing was missed: the next hop of a chain is in    *)
(* the new level, and no later one is.                                     *)
LEMMA LevelWalked ==
    ASSUME IInv, LinksInv, NEW w \in Worker, Walked(w), RevokeLevel(w)
    PROVE  Walked(w)'
<1> DEFINE below == Below(w)
           seen  == loc[w].seen
           level == loc[w].level
<1>1. /\ loc'[w].seen = seen \cup below /\ loc'[w].level = below /\ pc[w] = "walk"
      /\ pc'[w] = IF below = {} THEN "already" ELSE "walk"
      /\ UNCHANGED <<claims, records, known>>
    <2>1. pc \in [Worker -> Label] /\ loc \in [Worker -> Local] /\ loc[w] \in Local
        BY DEF IInv, TypeOK
    <2> HIDE DEF below
    <2>2. /\ loc' = [loc EXCEPT ![w].seen = @ \cup below, ![w].level = below]
          /\ pc[w] = "walk" /\ pc' = [pc EXCEPT ![w] = IF below = {} THEN "already" ELSE "walk"]
          /\ UNCHANGED <<claims, records, known>>
        BY DEF RevokeLevel, Goto, world, db, below
    <2> QED BY <2>1, <2>2 DEF Local
<1>2. /\ level \subseteq seen /\ known[w] \subseteq records
      /\ \A d \in known[w] \ seen : Ahead(w, d)
    BY <1>1 DEF Walked
<1>3. \A p \in level, c \in Jti : <<p, c>> \in edges => c \in below \cup seen
    BY DEF Below
<1>4. \A c \in below : Parent(c) \in level
    BY DEF Below, LinksInv, Link
<1>5. ASSUME NEW d \in known[w], d \notin seen \cup below
      PROVE  below # {} /\ Ahead(w, d)'
    <2> DEFINE chain == claims[d].chain
    <2>1. PICK m \in 1 .. Len(chain) :
             /\ chain[m] \in level
             /\ \A n \in m + 1 .. Len(chain) : chain[n] \notin seen
        BY <1>2, <1>5 DEF Ahead
    <2>2. d \in records /\ Len(chain) \in Nat /\ records \subseteq Jti
        BY <1>2 DEF IInv, TypeOK, Claims
    <2>3. m # Len(chain)
        <3>1. m = Len(chain) => <<chain[m], d>> \in edges
            BY <2>2, HopHasEdge
        <3> QED BY <1>3, <1>5, <2>1, <2>2, <3>1
    <2>4. m + 1 \in m + 1 .. Len(chain) /\ m + 1 \in 1 .. Len(chain)
        BY <2>2, <2>3
    <2>5. chain[m + 1] \in below
        <3>1. chain[m + 1] \in records /\ <<chain[m], chain[m + 1]>> \in edges
            BY <2>2, <2>3, HopHasEdge
        <3>2. chain[m + 1] \notin seen
            BY <2>1, <2>4
        <3> QED BY <1>3, <2>1, <2>2, <3>1, <3>2
    <2>6. ASSUME NEW n \in (m + 1) + 1 .. Len(chain) PROVE chain[n] \notin seen \cup below
        <3>1. /\ n \in m + 1 .. Len(chain) /\ n - 1 \in 1 .. Len(chain)
              /\ n - 1 \in m + 1 .. Len(chain) /\ n - 1 # Len(chain) /\ (n - 1) + 1 = n
            BY <2>2
        <3>2. Parent(chain[n]) = chain[n - 1]
            BY <2>2, <3>1, HopHasEdge
        <3>3. chain[n] \notin seen /\ chain[n - 1] \notin seen
            BY <2>1, <3>1
        <3> QED BY <1>2, <1>4, <3>2, <3>3
    <2> HIDE DEF below, seen
    <2>7. Ahead(w, d)'
        BY <1>1, <2>4, <2>5, <2>6 DEF Ahead
    <2> QED BY <2>5, <2>7
<1>6. CASE below = {}
    BY <1>1, <1>5, <1>6 DEF Walked
<1>7. CASE below # {}
    BY <1>1, <1>2, <1>5, <1>7 DEF Walked
<1> QED BY <1>6, <1>7

LEMMA StepWalked ==
    ASSUME IInv, AuditInv, LinksInv, WalkInv, NEW w \in Worker, Step(w)
    PROVE  Walked(w)'
<1>0. /\ pc \in [Worker -> Label] /\ txn \in [Worker -> Staged] /\ txn[w] \in Staged
      /\ loc \in [Worker -> Local] /\ loc[w] \in Local /\ InStep(w) /\ Walked(w)
    BY DEF IInv, TypeOK, AuditInv, WalkInv
<1>1. CASE Abort(w)
    BY <1>1, EndWalked DEF Abort
<1>2. CASE Open(w)
    <2>1. CASE Revoke(w)
        BY <2>1, StartsWalk
    <2>2. CASE Delegate(w) \/ Verify(w)
        BY <2>2, AsksSay, NotWalking
    <2>3. CASE Approve(w) \/ Deny(w)
        BY <2>3, DecisionsSay, NotWalking
    <2>4. CASE Collect(w)
        BY <2>4, CollectSays, NotWalking
    <2>5. CASE MintRoot(w)
        BY <2>5, MintRootSays, NotWalking
    <2> QED BY <1>2, <2>1, <2>2, <2>3, <2>4, <2>5 DEF Open
<1>3. CASE Advance(w)
    <2>1. CASE LookupRevoked(w) \/ VerifyLacksScope(w) \/ Respond(w) \/ DelegateRootBroken(w)
               \/ DelegateDenied(w) \/ RevokeConflict(w) \/ Commit(w)
        BY <2>1, EndWalked DEF LookupRevoked, VerifyLacksScope, Respond, DelegateRootBroken,
           DelegateDenied, RevokeConflict, Commit
    <2>2. CASE LookupLive(w) \/ VerifyAllows(w) \/ DelegateRootAlive(w) \/ ApproveParentLive(w)
               \/ CollectRefresh(w)
        BY <1>0, <2>2, NotWalking DEF LookupLive, VerifyAllows, DelegateRootAlive,
           ApproveParentLive, CollectRefresh, Goto, InStep
    <2>3. CASE RevokeLevel(w)
        BY <1>0, <2>3, LevelWalked
    <2>4. CASE RevokeAlready(w)
        <3>1. /\ pc[w] = "already" /\ pc'[w] = "insert" /\ loc'[w].level = loc[w].seen \ revoked
              /\ UNCHANGED <<revoked, known>>
            BY <1>0, <2>4 DEF RevokeAlready, Goto, Local, db
        <3> QED BY <1>0, <3>1 DEF Walked
    <2>5. CASE DelegateMint(w)
        BY <1>0, <2>5, DelegateMintSays, NotWalking DEF InStep
    <2>6. CASE DelegatePark(w)
        BY <1>0, <2>6, DelegateParkSays, NotWalking DEF InStep
    <2>7. CASE ApproveSign(w)
        BY <2>7, ApproveSignSays, NotWalking
    <2> QED BY <1>3, <2>1, <2>2, <2>3, <2>4, <2>5, <2>6, <2>7 DEF Advance
<1>4. CASE Write(w)
    <2>1. CASE ApproveParentRevoked(w) \/ ApproveParentExpired(w)
        BY <2>1, EndWalked DEF ApproveParentRevoked, ApproveParentExpired
    <2>2. CASE ApproveDecide(w) \/ DenyDecide(w) \/ CollectExpire(w) \/ CollectMark(w)
        BY <1>0, <2>2, NotWalking DEF ApproveDecide, DenyDecide, CollectExpire, CollectMark,
           Goto, InStep
    <2>3. CASE RevokeInsert(w)
        <3>1. /\ pc[w] = "insert" /\ pc'[w] = "commit" /\ txn'[w].revoked = loc[w].level
              /\ UNCHANGED <<revoked, known>>
            BY <1>0, <2>3 DEF RevokeInsert, Goto, Stage, Staged, db
        <3> QED BY <1>0, <3>1 DEF Walked
    <2> QED BY <1>4, <2>1, <2>2, <2>3 DEF Write
<1> QED BY <1>1, <1>2, <1>3, <1>4 DEF Step

LEMMA WalkNext ==
    ASSUME IInv, AuditInv, LinksInv, WalkInv, [Next]_vars
    PROVE  WalkInv'
<1>0. Grown
    BY StepGrows
<1>1. ASSUME NEW w \in Worker, Step(w) PROVE WalkInv'
    <2>1. ASSUME NEW v \in Worker, v # w PROVE Walked(v)'
        BY <1>0, <1>1, <2>1, OthersStay, OthersWalked DEF WalkInv
    <2> QED BY <1>1, <2>1, StepWalked DEF WalkInv
<1>2. CASE Restart
    BY <1>2, NotWalking DEF Restart, WalkInv
<1>3. CASE Tick \/ UNCHANGED vars
    <2>1. \A v \in Worker : SameThread(v)
        BY <1>3 DEF Tick, vars, threads, SameThread
    <2> QED BY <1>0, <2>1, OthersWalked DEF WalkInv
<1> QED BY <1>1, <1>2, <1>3 DEF Next, Step

(* The walk of a revoke misses no token that descended from its target     *)
(* when it arrived, whatever is minted and revoked under the walk.         *)
THEOREM RevokeReachesDescendantsHolds == Spec => []RevokeReachesDescendants
<1>1. Init => AuditInv /\ LinksInv /\ WalkInv
    BY DEF Init, AuditInv, InStep, Vouched, LinksInv, LinksOf, WalkInv, Walked, NoLocal, NoWrites
<1>2. IInv /\ AuditInv /\ LinksInv /\ WalkInv /\ [Next]_vars
      => AuditInv' /\ LinksInv' /\ WalkInv'
    BY AuditNext, LinksNext, WalkNext
<1>3. WalkInv => RevokeReachesDescendants
    BY DEF WalkInv, Walked, RevokeReachesDescendants
<1> QED BY <1>1, <1>2, <1>3, Invariance, PTL DEF Spec

-----------------------------------------------------------------------------
(* One operator decides at a time.                                         *)

Decisions == {"approve", "deny", "collect"}
Decided   == {"approved", "denied", "expired"}

(* The requests that may change an approval row (a poll expires the stale  *)
(* ones) are served by one worker.  Nothing in the code ensures it: see    *)
(* what two operators do to DeniedMintsNothing.                            *)
OneDecider ==
    \A v, w \in Worker :
        Calls[v] \cap Decisions # {} /\ Calls[w] \cap Decisions # {} => v = w

(* The rows a handler counts on: the one it decides, those it expires,     *)
(* those it writes.                                                        *)
CountsOn(w, a) ==
    \/ req[w].op \in {"approve", "deny"} /\ a = req[w].appr
    \/ a \in loc[w].stale
    \/ txn[w].status[a] # "keep"

Decides(w) ==
    /\ req[w].op \in Calls[w] \cup {"none"}
    /\ pc[w] = "idle" => \A a \in Approval : txn[w].status[a] = "keep"
    /\ req[w].op \in {"approve", "deny"} =>
         req[w].appr \in Approval /\ gate[req[w].appr].status = "pending"
    /\ \A a \in loc[w].stale : gate[a].status = "pending" /\ req[w].op = "collect"
    /\ \A a \in Approval :
         /\ txn[w].status[a] \in Decided \cup {"keep", "pending"}
         /\ txn[w].status[a] \in Decided =>
              gate[a].status = "pending" /\ req[w].op \in Decisions
         /\ txn[w].status[a] = "pending" => gate[a].status = "absent"
         /\ txn[w].status[a] = "approved" => req[w].op = "approve" /\ a = req[w].appr
    /\ \A j \in txn[w].tokens : claims[j].via # None =>
         req[w].op = "approve" /\ claims[j].via = req[w].appr
    /\ pc[w] \in {"decide", "commit"} /\ req[w].op = "approve" =>
         \E j \in Jti : txn[w].tokens = {j}
    /\ pc[w] = "commit" /\ req[w].op = "approve" =>
         txn[w].status[req[w].appr] = "approved"

GateInv ==
    /\ \A w \in Worker : Decides(w)
    /\ \A v, w \in Worker, a \in Approval :
         txn[v].status[a] = "pending" /\ txn[w].status[a] = "pending" => v = w
    /\ \A j \in records : claims[j].via # None =>
         /\ claims[j].via \in Approval
         /\ gate[claims[j].via].status = "approved" /\ gate[claims[j].via].child = j

LEMMA OthersDecide ==
    ASSUME IInv, NEW v \in Worker, SameThread(v), Grown, Decides(v),
           \A a \in Approval : CountsOn(v, a) => gate'[a].status = gate[a].status
    PROVE  Decides(v)'
<1>1. txn[v].tokens \subseteq signed /\ loc[v].stale \subseteq Approval
    BY DEF IInv, TypeOK, Local, HandlersOK, HandlerOK
<1>2. \A a \in Approval : txn[v].status[a] # "keep" => gate'[a].status = gate[a].status
    BY DEF CountsOn
<1>3. \A a \in loc[v].stale : gate'[a].status = gate[a].status
    BY <1>1 DEF CountsOn
<1>4. req[v].op \in {"approve", "deny"} => gate'[req[v].appr].status = gate[req[v].appr].status
    BY DEF CountsOn, Decides
<1>5. \A j \in txn[v].tokens : claims'[j] = claims[j]
    BY <1>1 DEF Grown
<1>6. \A a \in Approval :
         /\ txn[v].status[a] \in Decided => txn[v].status[a] # "keep"
         /\ txn[v].status[a] = "pending" => txn[v].status[a] # "keep"
    BY DEF Decided
<1> QED BY <1>2, <1>3, <1>4, <1>5, <1>6 DEF SameThread, Decides

LEMMA EndDecides ==
    ASSUME IInv, NEW w \in Worker, End(w)
    PROVE  Decides(w)'
BY DEF IInv, TypeOK, End, NoRequest, NoLocal, NoWrites, Decides, Decided

(* A handler that stages nothing more.                                     *)
LEMMA MoveDecides ==
    ASSUME IInv, NEW w \in Worker, Decides(w), Grown, UNCHANGED gate,
           req'[w] = req[w], loc'[w].stale = loc[w].stale,
           txn'[w].tokens = txn[w].tokens, txn'[w].status = txn[w].status,
           pc'[w] # "idle", pc'[w] \in {"decide", "commit"} => req[w].op # "approve"
    PROVE  Decides(w)'
<1>1. txn[w].tokens \subseteq signed
    BY DEF IInv, HandlersOK, HandlerOK
<1>2. \A j \in txn[w].tokens : claims'[j] = claims[j]
    BY <1>1 DEF Grown
<1> QED BY <1>2 DEF Decides

LEMMA OpenDecides ==
    ASSUME IInv, NEW w \in Worker, Open(w), InStep(w), Decides(w)
    PROVE  Decides(w)'
<1>0. UNCHANGED gate
    BY DEF Open, MintRoot, Delegate, Verify, Approve, Deny, Collect, Revoke, db
<1>1. ASSUME pc[w] = "idle"
      PROVE  txn[w].tokens = {} /\ \A a \in Approval : txn[w].status[a] = "keep"
    BY <1>1 DEF InStep, Decides
<1>2. CASE MintRoot(w)
    <2>1. PICK j \in Fresh :
             /\ claims'[j].via = None /\ txn'[w].tokens = {j}
             /\ txn'[w].status = txn[w].status /\ pc[w] = "idle" /\ pc'[w] = "commit"
             /\ req'[w].op = "root" /\ "root" \in Calls[w] /\ loc'[w].stale = {}
        BY <1>2, MintRootSays
    <2> QED BY <1>1, <2>1 DEF Decides, Decided
<1>3. CASE Delegate(w) \/ Verify(w) \/ Revoke(w)
    <2>1. /\ req'[w].op \in {"delegate", "verify", "revoke"} \cap Calls[w] /\ txn' = txn
          /\ pc[w] = "idle" /\ pc'[w] # "idle" /\ loc'[w].stale = {}
        <3>1. CASE Delegate(w) \/ Verify(w)
            BY <3>1, AsksSay
        <3>2. CASE Revoke(w)
            BY <3>2, RevokeSays
        <3> QED BY <1>3, <3>1, <3>2
    <2> QED BY <1>1, <2>1 DEF Decides, Decided
<1>4. CASE Approve(w) \/ Deny(w)
    <2>1. PICK a \in Approval :
             /\ LoadPending(a) /\ pc[w] = "idle" /\ txn' = txn /\ loc'[w].stale = {}
             /\ \/ pc'[w] = "load" /\ req'[w].op = "approve"
                \/ pc'[w] = "decide" /\ req'[w].op = "deny"
             /\ req'[w].op \in Calls[w] /\ req'[w].appr = a
        BY <1>4, DecisionsSay
    <2> QED BY <1>0, <1>1, <2>1 DEF Decides, Decided, LoadPending
<1>5. CASE Collect(w)
    <2>1. /\ pc[w] = "idle" /\ pc'[w] \in {"refresh", "expire"} /\ req'[w].op = "collect"
          /\ req'[w].op \in Calls[w] /\ txn' = txn
          /\ loc'[w].stale = {b \in Approval : Stale(b)}
        BY <1>5, CollectSays
    <2> QED BY <1>0, <1>1, <2>1 DEF Decides, Decided, Stale
<1> QED BY <1>2, <1>3, <1>4, <1>5 DEF Open

LEMMA AdvanceDecides ==
    ASSUME IInv, NEW w \in Worker, Advance(w), InStep(w), Decides(w), Grown
    PROVE  Decides(w)'
<1>0. /\ pc \in [Worker -> Label] /\ loc \in [Worker -> Local] /\ loc[w] \in Local
    BY DEF IInv, TypeOK
<1>1. CASE LookupRevoked(w) \/ VerifyLacksScope(w) \/ Respond(w) \/ DelegateRootBroken(w)
           \/ DelegateDenied(w) \/ RevokeConflict(w) \/ Commit(w)
    BY <1>1, EndDecides DEF LookupRevoked, VerifyLacksScope, Respond, DelegateRootBroken,
       DelegateDenied, RevokeConflict, Commit
<1>2. CASE LookupLive(w) \/ VerifyAllows(w) \/ DelegateRootAlive(w) \/ ApproveParentLive(w)
           \/ CollectRefresh(w) \/ RevokeLevel(w) \/ RevokeAlready(w)
    <2>1. /\ UNCHANGED <<gate, req, txn>> /\ loc'[w].stale = loc[w].stale /\ pc'[w] # "idle"
          /\ pc'[w] \in {"decide", "commit"} => pc[w] = "refresh"
        BY <1>0, <1>2 DEF LookupLive, VerifyAllows, DelegateRootAlive, ApproveParentLive,
           CollectRefresh, RevokeLevel, RevokeAlready, Goto, Local, db
    <2> QED BY <2>1, MoveDecides DEF InStep
<1>3. CASE DelegateMint(w)
    <2>1. PICK j \in Fresh :
             /\ claims'[j].via = None /\ txn'[w].tokens = {j}
             /\ txn'[w].status = txn[w].status /\ pc[w] = "mint" /\ pc'[w] = "commit"
             /\ UNCHANGED <<db, req, loc>>
        BY <1>3, DelegateMintSays
    <2> QED BY <2>1 DEF Decides, InStep, db
<1>4. CASE DelegatePark(w)
    <2>1. PICK a \in Approval :
             /\ asked[a].parent = None
             /\ txn'[w].tokens = txn[w].tokens
             /\ \A b \in Approval :
                  txn'[w].status[b] = IF b = a THEN "pending" ELSE txn[w].status[b]
             /\ pc[w] = "mint" /\ pc'[w] = "commit"
             /\ UNCHANGED <<db, req, loc, claims>>
        BY <1>4, DelegateParkSays
    <2>2. gate[a].status = "absent"
        BY <2>1 DEF IInv, AskedOK
    <2> QED BY <2>1, <2>2 DEF Decides, InStep, db, Decided
<1>5. CASE ApproveSign(w)
    <2>1. PICK j \in Fresh :
             /\ claims'[j].via = req[w].appr /\ txn'[w].tokens = {j} /\ j \in Jti
             /\ txn'[w].status = txn[w].status /\ pc[w] = "sign" /\ pc'[w] = "decide"
             /\ UNCHANGED <<db, req, loc>>
        BY <1>5, ApproveSignSays
    <2> QED BY <2>1 DEF Decides, InStep, db
<1> QED BY <1>1, <1>2, <1>3, <1>4, <1>5 DEF Advance

LEMMA WriteDecides ==
    ASSUME IInv, NEW w \in Worker, Write(w), InStep(w), Decides(w), Grown
    PROVE  Decides(w)'
<1> DEFINE a == req[w].appr
<1>0. /\ pc \in [Worker -> Label] /\ txn \in [Worker -> Staged] /\ txn[w] \in Staged
      /\ HandlerOK(w)
    BY DEF IInv, TypeOK, HandlersOK
<1>1. CASE ApproveParentRevoked(w) \/ ApproveParentExpired(w)
    BY <1>1, EndDecides DEF ApproveParentRevoked, ApproveParentExpired
<1>2. CASE ApproveDecide(w) \/ DenyDecide(w)
    <2>1. PICK status \in {"approved", "denied"} :
             /\ Stage(w, [txn[w] EXCEPT !.status[a] = status])
             /\ status = "approved" <=> req[w].op = "approve"
             /\ req[w].op \in {"approve", "deny"}
        BY <1>2 DEF ApproveDecide, DenyDecide
    <2>2. /\ pc[w] = "decide" /\ pc'[w] = "commit" /\ UNCHANGED <<gate, req, loc, claims>>
          /\ a \in Approval
        BY <1>0, <1>2 DEF ApproveDecide, DenyDecide, Goto, db, HandlerOK
    <2>3. /\ txn'[w].tokens = txn[w].tokens
          /\ \A b \in Approval : txn'[w].status[b] = IF b = a THEN status ELSE txn[w].status[b]
        <3> HIDE DEF a
        <3> QED BY <2>1, <2>2, StatusStaged
    <2> QED BY <2>1, <2>2, <2>3 DEF Decides, Decided, Decisions
<1>3. CASE CollectExpire(w)
    <2>1. /\ pc[w] = "expire" /\ pc'[w] = "refresh" /\ UNCHANGED <<gate, req, loc, claims>>
          /\ txn'[w].tokens = txn[w].tokens
          /\ \A b \in Approval : txn'[w].status[b] = IF b \in loc[w].stale THEN "expired"
                                                             ELSE txn[w].status[b]
        BY <1>0, <1>3 DEF CollectExpire, Goto, Stage, Staged, world, db
    <2> QED BY <2>1 DEF Decides, Decided, Decisions, InStep
<1>4. CASE CollectMark(w) \/ RevokeInsert(w)
    <2>1. /\ pc[w] \in {"mark", "insert"} /\ pc'[w] = "commit" /\ UNCHANGED <<gate, req, loc>>
          /\ txn'[w].tokens = txn[w].tokens /\ txn'[w].status = txn[w].status
        BY <1>0, <1>4 DEF CollectMark, RevokeInsert, Goto, Stage, Staged, db
    <2> QED BY <2>1, MoveDecides DEF InStep
<1> QED BY <1>1, <1>2, <1>3, <1>4 DEF Write

(* What a commit does to the approval rows, when one operator decides: a   *)
(* decided row keeps its status and child, no other handler counts on what *)
(* is written, and the token of an approval is the child of its row.       *)
LEMMA CommitKeepsDecided ==
    ASSUME NEW w \in Worker, Decides(w), Commit(w), NEW a \in Approval,
           gate[a].status \in Decided
    PROVE  gate'[a].status = gate[a].status /\ gate'[a].child = gate[a].child
<1>1. txn[w].status[a] = "keep"
    BY DEF Decides, Decided
<1> QED BY <1>1 DEF Commit

LEMMA CommitSparesOthers ==
    ASSUME OneDecider, GateInv, NEW w \in Worker, Commit(w), NEW v \in Worker, v # w,
           NEW a \in Approval, CountsOn(v, a)
    PROVE  gate'[a].status = gate[a].status
<1>0. Decides(v) /\ Decides(w)
    BY DEF GateInv
<1>1. ASSUME req[v].op \in Decisions PROVE txn[w].status[a] \in {"keep", "pending"}
    <2>1. Calls[v] \cap Decisions # {}
        BY <1>0, <1>1 DEF Decides, Decisions
    <2>2. req[w].op \notin Decisions
        BY <1>0, <2>1 DEF OneDecider, Decides, Decisions
    <2> QED BY <1>0, <2>2 DEF Decides
<1>2. \/ (gate[a].status # "absent" /\ req[v].op \in Decisions)
      \/ txn[v].status[a] = "pending"
    BY <1>0 DEF CountsOn, Decides, Decisions
<1>3. txn[w].status[a] = "keep"
    <2>1. CASE gate[a].status # "absent" /\ req[v].op \in Decisions
        BY <1>0, <1>1, <2>1 DEF Decides
    <2>2. CASE txn[v].status[a] = "pending"
        BY <1>0, <2>2 DEF GateInv, Decides
    <2> QED BY <1>2, <2>1, <2>2
<1> QED BY <1>3 DEF Commit

LEMMA CommitHandsOutChild ==
    ASSUME IInv, GateInv, NEW w \in Worker, Commit(w), NEW j \in records',
           claims[j].via # None
    PROVE  LET a == claims[j].via IN
           a \in Approval /\ gate'[a].status = "approved" /\ gate'[a].child = j
<1> DEFINE a == claims[j].via
<1>0. Decides(w) /\ pc[w] = "commit"
    BY DEF GateInv, Commit
<1>1. CASE j \in records
    <2>1. a \in Approval /\ gate[a].status = "approved" /\ gate[a].child = j
        BY <1>1 DEF GateInv
    <2> HIDE DEF a
    <2>2. gate'[a].status = gate[a].status /\ gate'[a].child = gate[a].child
        BY <1>0, <2>1, CommitKeepsDecided DEF Decided
    <2> QED BY <2>1, <2>2 DEF a
<1>2. CASE j \in txn[w].tokens
    <2>1. /\ req[w].op = "approve" /\ a = req[w].appr /\ a \in Approval
          /\ txn[w].status[a] = "approved" /\ txn[w].tokens = {j}
        BY <1>0, <1>2 DEF Decides
    <2>2. (CHOOSE k \in txn[w].tokens : TRUE) = j
        BY <2>1
    <2> QED BY <2>1, <2>2 DEF Commit
<1> QED BY <1>1, <1>2 DEF Commit

LEMMA PendingOnce ==
    ASSUME IInv, GateInv, NEW w \in Worker, Step(w), NEW u \in Worker, NEW v \in Worker,
           NEW a \in Approval, txn'[u].status[a] = "pending", txn'[v].status[a] = "pending"
    PROVE  u = v
<1>0. /\ txn \in [Worker -> Staged] /\ txn[w] \in Staged
      /\ \A x \in Worker : HandlerOK(x)
    BY DEF IInv, TypeOK, HandlersOK
<1>1. \A x \in Worker : x # w => txn'[x] = txn[x]
    BY OthersStay DEF SameThread
<1>2. ASSUME ~DelegatePark(w), NEW b \in Approval, txn'[w].status[b] = "pending"
      PROVE  txn[w].status[b] = "pending"
    <2>1. ASSUME txn'[w].status = txn[w].status PROVE txn[w].status[b] = "pending"
        BY <1>2, <2>1
    <2>2. ASSUME End(w) PROVE FALSE
        BY <1>0, <1>2, <2>2 DEF End, NoWrites
    <2>3. CASE Open(w)
        <3>1. CASE MintRoot(w)
            BY <2>1, <3>1, MintRootSays
        <3>2. CASE ~MintRoot(w)
            BY <2>1, <2>3, <3>2 DEF Open, Delegate, Verify, Approve, Deny, Collect, Revoke
        <3> QED BY <3>1, <3>2
    <2>4. CASE Advance(w)
        <3>1. CASE DelegateMint(w)
            BY <2>1, <3>1, DelegateMintSays
        <3>2. CASE ApproveSign(w)
            BY <2>1, <3>2, ApproveSignSays
        <3>3. CASE LookupLive(w) \/ VerifyAllows(w) \/ DelegateRootAlive(w)
                   \/ ApproveParentLive(w) \/ CollectRefresh(w) \/ RevokeLevel(w)
                   \/ RevokeAlready(w)
            BY <2>1, <3>3 DEF LookupLive, VerifyAllows, DelegateRootAlive,
               ApproveParentLive, CollectRefresh, RevokeLevel, RevokeAlready
        <3>4. CASE LookupRevoked(w) \/ VerifyLacksScope(w) \/ Respond(w)
                   \/ DelegateRootBroken(w) \/ DelegateDenied(w) \/ RevokeConflict(w)
                   \/ Commit(w)
            BY <2>2, <3>4 DEF LookupRevoked, VerifyLacksScope, Respond, DelegateRootBroken,
               DelegateDenied, RevokeConflict, Commit
        <3> QED BY <1>2, <2>4, <3>1, <3>2, <3>3, <3>4 DEF Advance
    <2>5. CASE Write(w)
        <3>1. CASE ApproveParentRevoked(w) \/ ApproveParentExpired(w)
            BY <2>2, <3>1 DEF ApproveParentRevoked, ApproveParentExpired
        <3>2. CASE ApproveDecide(w) \/ DenyDecide(w) \/ CollectExpire(w)
            BY <1>0, <1>2, <3>2 DEF ApproveDecide, DenyDecide, CollectExpire, Stage, Staged
        <3>3. CASE CollectMark(w) \/ RevokeInsert(w)
            BY <1>0, <1>2, <3>3 DEF CollectMark, RevokeInsert, Stage, Staged
        <3> QED BY <2>5, <3>1, <3>2, <3>3 DEF Write
    <2>6. CASE Abort(w)
        BY <2>2, <2>6 DEF Abort
    <2> QED BY <2>3, <2>4, <2>5, <2>6 DEF Step
<1>3. CASE DelegatePark(w)
    <2>1. PICK b \in Approval :
             /\ asked[b].parent = None
             /\ \A c \in Approval :
                  txn'[w].status[c] = IF c = b THEN "pending" ELSE txn[w].status[c]
        BY <1>3, DelegateParkSays
    <2>2. \A x \in Worker : txn[x].status[b] = "keep"
        BY <1>0, <2>1 DEF HandlerOK
    <2> QED BY <1>1, <2>1, <2>2 DEF GateInv
<1>4. CASE ~DelegatePark(w)
    <2>1. txn[u].status[a] = "pending" /\ txn[v].status[a] = "pending"
        BY <1>1, <1>2, <1>4
    <2> QED BY <2>1 DEF GateInv
<1> QED BY <1>3, <1>4

LEMMA GateNext ==
    ASSUME OneDecider, IInv, AuditInv, GateInv, [Next]_vars
    PROVE  GateInv'
<1>0. Grown /\ records \subseteq signed
    BY StepGrows DEF IInv, TokensOK
<1>1. ASSUME NEW w \in Worker, Step(w) PROVE GateInv'
    <2>1. ASSUME NEW v \in Worker, v # w PROVE Decides(v)'
        <3>1. SameThread(v) /\ Decides(v)
            BY <1>1, <2>1, OthersStay DEF GateInv
        <3>2. ASSUME NEW a \in Approval, CountsOn(v, a) PROVE gate'[a].status = gate[a].status
            <4>1. CASE Commit(w)
                BY <2>1, <3>2, <4>1, CommitSparesOthers
            <4>2. CASE ~Commit(w)
                BY <1>1, <4>2, OnlyCommitWrites DEF db
            <4> QED BY <4>1, <4>2
        <3> QED BY <1>0, <3>1, <3>2, OthersDecide
    <2>2. Decides(w)'
        <3>1. CASE Abort(w)
            BY <3>1, EndDecides DEF Abort
        <3> QED BY <1>0, <1>1, <3>1, OpenDecides, AdvanceDecides, WriteDecides
                DEF Step, AuditInv, GateInv
    <2>3. ASSUME NEW j \in records', claims'[j].via # None
          PROVE  /\ claims'[j].via \in Approval
                 /\ gate'[claims'[j].via].status = "approved" /\ gate'[claims'[j].via].child = j
        <3>1. CASE Commit(w)
            <4>1. claims' = claims
                BY <3>1 DEF Commit, world
            <4> QED BY <2>3, <3>1, <4>1, CommitHandsOutChild
        <3>2. CASE ~Commit(w)
            <4>1. records' = records /\ gate' = gate
                BY <1>1, <3>2, OnlyCommitWrites DEF db
            <4>2. claims'[j] = claims[j]
                BY <1>0, <2>3, <4>1 DEF Grown
            <4> QED BY <2>3, <4>1, <4>2 DEF GateInv
        <3> QED BY <3>1, <3>2
    <2> QED BY <1>1, <2>1, <2>2, <2>3, PendingOnce DEF GateInv
<1>2. CASE Restart
    <2>1. \A w \in Worker : Decides(w)'
        BY <1>2 DEF Restart, Decides, Decided, NoRequest, NoLocal, NoWrites
    <2>2. ASSUME NEW j \in records', claims'[j].via # None
          PROVE  /\ claims'[j].via \in Approval
                 /\ gate'[claims'[j].via].status = "approved" /\ gate'[claims'[j].via].child = j
        BY <1>2, <2>2 DEF Restart, GateInv, Stale
    <2>3. \A w \in Worker, a \in Approval : txn'[w].status[a] # "pending"
        BY <1>2 DEF Restart, NoWrites
    <2> QED BY <2>1, <2>2, <2>3 DEF GateInv
<1>3. CASE Tick \/ UNCHANGED vars
    <2>1. /\ UNCHANGED <<claims, db, threads>> /\ \A v \in Worker : SameThread(v)
        BY <1>3 DEF Tick, vars, db, threads, SameThread
    <2>2. \A v \in Worker : Decides(v)'
        BY <1>0, <2>1, OthersDecide DEF GateInv, db
    <2> QED BY <2>1, <2>2 DEF GateInv, db, threads
<1> QED BY <1>1, <1>2, <1>3 DEF Next, Step

LEMMA GateHolds ==
    ASSUME OneDecider
    PROVE  Spec => [](IInv /\ AuditInv /\ GateInv)
<1>1. Init => AuditInv /\ GateInv
    BY DEF Init, AuditInv, InStep, Vouched, GateInv, Decides, Decided, NoRequest, NoLocal,
       NoWrites
<1>2. IInv /\ AuditInv /\ GateInv /\ [Next]_vars => AuditInv' /\ GateInv'
    BY AuditNext, GateNext
<1> QED BY <1>1, <1>2, Invariance, PTL DEF Spec

(* Where one operator decides at a time, an approval mints one token, and  *)
(* the row of the request hands out that one.                              *)
THEOREM OneChildPerApprovalHolds ==
    ASSUME OneDecider
    PROVE  Spec => []OneChildPerApproval
<1>1. GateInv => OneChildPerApproval
    BY EngineAssumption DEF GateInv, OneChildPerApproval, MintedThrough
<1> QED BY <1>1, GateHolds, PTL

(* Where one operator decides at a time, a request that was denied or has  *)
(* timed out mints nothing.                                                *)
THEOREM DeniedMintsNothingHolds ==
    ASSUME OneDecider
    PROVE  Spec => []DeniedMintsNothing
<1>1. GateInv => DeniedMintsNothing
    BY EngineAssumption DEF GateInv, DeniedMintsNothing, MintedThrough
<1> QED BY <1>1, GateHolds, PTL

(* Where one operator decides at a time, no approval, denial or timeout is *)
(* revised, by a commit or by the sweep of a restart.                      *)
THEOREM DecisionIsFinalHolds ==
    ASSUME OneDecider
    PROVE  Spec => DecisionIsFinal
<1> DEFINE Kept == \A a \in Approval :
             gate[a].status \in {"approved", "denied", "expired"} =>
                 gate'[a].status = gate[a].status
<1>1. IInv /\ GateInv /\ [Next]_vars => [Kept]_vars
    <2> SUFFICES ASSUME IInv, GateInv, [Next]_vars PROVE Kept
        OBVIOUS
    <2>1. CASE \E w \in Worker : Commit(w)
        BY <2>1, CommitKeepsDecided DEF GateInv, Decided
    <2>2. CASE Restart
        BY <2>2 DEF Restart, Stale
    <2>3. CASE UNCHANGED gate
        BY <2>3
    <2>4. Tick \/ UNCHANGED vars => UNCHANGED gate
        BY DEF Tick, vars, db
    <2>5. ASSUME NEW w \in Worker, Step(w), ~Commit(w) PROVE UNCHANGED gate
        BY <2>5, OnlyCommitWrites DEF db
    <2> QED BY <2>1, <2>2, <2>3, <2>4, <2>5 DEF Next, Step
<1> QED BY <1>1, GateHolds, PTL DEF Spec, DecisionIsFinal

=============================================================================
