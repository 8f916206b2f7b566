---------------------------- MODULE AdapterProofs ----------------------------
(* Theorems about Adapter, for any number of graphs, tokens, approvals and *)
(* agents, and whatever the network does.                                  *)
EXTENDS Adapter, TLAPS

(* What the service promises about its own rows.                           *)
Decided(a) ==
    gate[a].status = "approved" =>
        /\ gate[a].child \in Jti \ {Root}
        /\ grant[gate[a].child].agent = gate[a].agent
        /\ grant[gate[a].child].scopes = gate[a].scopes
Asked(a) == gate[a].status # "absent" => gate[a].parent \in Jti /\ gate[a].agent \in Agent
ServiceOK == Root \in Minted /\ \A a \in Approval : Decided(a) /\ Asked(a)

(* What a request must name for the service to serve it.                   *)
Named(r) ==
    /\ r.op \in {"verify", "delegate"} => r.token \in Jti
    /\ r.op = "delegate" => r.agent \in Agent
    /\ r.op \in {"approve", "collect"} => r.appr \in Approval

(* A row the author may ask about: it was made for this agent.             *)
RowFor(a, agent) == a \in Approval /\ gate[a].status # "absent" /\ gate[a].agent = agent

(* A state dict says what its token says.                                  *)
Whole(s) ==
    /\ s.agent = grant[s.token].agent
    /\ s.scopes = grant[s.token].scopes
    /\ s.token # Root /\ s.scopes \cap Sensitive # {} =>
         \E a \in Approval : gate[a].status = "approved" /\ gate[a].child = s.token

(* The guard was told so when the node was entered.                        *)
Authorised(g) ==
    /\ call[g].scopes \subseteq grant[call[g].from.token].scopes
    /\ Lineage(call[g].from.token) \cap known[g] = {}

(* A call is about a state of its graph, and one request or answer of it   *)
(* is under way.                                                           *)
CallOK(g) ==
    /\ known[g] \subseteq revoked
    /\ pc[g] # "idle" => call[g].from \in states[g]
    /\ answer[g] # NoReply => sent[g] = NoRequest
    /\ pc[g] \in {"idle", "body"} => sent[g] = NoRequest /\ answer[g] = NoReply
    /\ pc[g] = "body" => Authorised(g)

(* A request asks what the call is about.                                  *)
SentOK(g) ==
    sent[g] # NoRequest =>
        /\ Named(sent[g])
        /\ sent[g].op = "verify" =>
             sent[g].token = call[g].from.token /\ sent[g].scopes = call[g].scopes
        /\ sent[g].op = "delegate" => sent[g].agent = call[g].agent
        /\ sent[g].op \in {"approve", "collect"} => RowFor(sent[g].appr, call[g].agent)

(* An answer is what the service knew, and still knows.                    *)
AnswerOK(g) ==
    LET r == answer[g] IN
    /\ r.status = "valid" => Authorised(g)
    /\ r.status = "created" =>
         /\ r.token \in Jti
         /\ grant[r.token].agent = call[g].agent /\ call[g].agent \in Agent
         /\ grant[r.token].scopes = r.scopes
         /\ r.scopes \cap Sensitive = {}
    /\ r.status \in {"pending", "approved"} => RowFor(r.appr, call[g].agent)
    /\ r.status = "approved" /\ r.token # None =>
         /\ gate[r.appr].status = "approved"
         /\ r.token = gate[r.appr].child /\ r.scopes = gate[r.appr].scopes

Holdings(g) ==
    /\ \A s \in states[g] : Whole(s)
    /\ \A p \in parked[g] : p.from \in states[g] /\ RowFor(p.appr, p.agent)

GraphOK(g) ==
    /\ Holdings(g)
    /\ CallOK(g)
    /\ SentOK(g)
    /\ late[g] # NoRequest => Named(late[g])
    /\ AnswerOK(g)

IInv == AdapterTypeOK /\ ServiceOK /\ \A g \in Graph : GraphOK(g)

-----------------------------------------------------------------------------
(* The service: its rows only ever grow in what they say.                  *)

ServiceTypeOK ==
    grant \in [Jti -> Grant] /\ revoked \subseteq Jti /\ gate \in [Approval -> Row]

Grown ==
    /\ \A j \in Minted : grant'[j] = grant[j]
    /\ revoked \subseteq revoked'
    /\ \A a \in Approval :
         /\ gate[a].status # "absent" =>
              gate'[a].status # "absent" /\ gate'[a].agent = gate[a].agent
         /\ gate[a].status = "approved" => gate'[a] = gate[a]

ServiceStep == ServiceTypeOK' /\ ServiceOK' /\ Grown

LEMMA NoServiceStep ==
    ASSUME IInv, UNCHANGED service
    PROVE  ServiceStep
BY DEF IInv, ServiceStep, ServiceTypeOK, ServiceOK, Grown, AdapterTypeOK, Decided, Asked,
       Minted, service

LEMMA MintGrows ==
    ASSUME IInv, NEW j \in Jti \ Minted, NEW p \in Jti, NEW agent \in Agent,
           NEW scopes \in SUBSET Scope, Mint(j, p, agent, scopes)
    PROVE  /\ grant' \in [Jti -> Grant]
           /\ grant'[j].agent = agent /\ grant'[j].scopes = scopes
           /\ \A i \in Jti \ {j} : grant'[i] = grant[i]
           /\ j # Root
<1>1. grant \in [Jti -> Grant] /\ Root \in Minted
    BY DEF IInv, AdapterTypeOK, ServiceOK
<1>2. Lineage(p) \in SUBSET Jti
    BY <1>1 DEF Lineage, Grant
<1>3. [agent |-> agent, scopes |-> scopes, chain |-> Lineage(p)] \in Grant
    BY <1>2 DEF Grant
<1>4. grant' = [grant EXCEPT ![j] =
                  [agent |-> agent, scopes |-> scopes, chain |-> Lineage(p)]]
    BY DEF Mint
<1> QED BY <1>1, <1>3, <1>4

(* A token that is minted without a decision.                              *)
LEMMA MintStep ==
    ASSUME IInv, NEW j \in Jti \ Minted, NEW p \in Jti, NEW agent \in Agent,
           NEW scopes \in SUBSET Scope, Mint(j, p, agent, scopes),
           UNCHANGED <<revoked, gate>>
    PROVE  ServiceStep
<1>1. /\ grant' \in [Jti -> Grant] /\ grant'[j].agent = agent
      /\ \A i \in Jti \ {j} : grant'[i] = grant[i]
    BY MintGrows
<1>2. Root \in Minted'
    BY <1>1, AdapterAssumption DEF IInv, ServiceOK, Minted
<1>3. ASSUME NEW a \in Approval PROVE Decided(a)' /\ Asked(a)'
    <2>1. Decided(a) /\ Asked(a)
        BY DEF IInv, ServiceOK
    <2>2. Asked(a)'
        BY <2>1 DEF Asked
    <2>3. gate[a].status = "approved" => gate[a].child \in Minted
        BY <2>1, AdapterAssumption DEF Decided, Asked, Minted
    <2> QED BY <1>1, <2>1, <2>2, <2>3 DEF Decided
<1>4. Grown
    BY <1>1 DEF Grown, Minted
<1> QED
    BY <1>1, <1>2, <1>3, <1>4 DEF IInv, AdapterTypeOK, ServiceStep, ServiceTypeOK, ServiceOK

(* A decision that grants.                                                 *)
LEMMA GrantsStep ==
    ASSUME IInv, NEW a \in Approval, Grants(a)
    PROVE  ServiceStep /\ gate[a].status = "pending"
<1>1. PICK j \in Jti \ Minted :
        /\ gate[a].status = "pending"
        /\ Mint(j, gate[a].parent, gate[a].agent, gate[a].scopes)
        /\ gate' = [gate EXCEPT ![a].status = "approved", ![a].child = j]
        /\ UNCHANGED revoked
    BY DEF Grants
<1>2. gate[a] \in Row /\ gate \in [Approval -> Row]
    BY DEF IInv, AdapterTypeOK
<1>3. gate[a].parent \in Jti /\ gate[a].agent \in Agent /\ gate[a].scopes \in SUBSET Scope
    BY <1>1, <1>2 DEF IInv, ServiceOK, Asked, Row
<1>4. /\ grant' \in [Jti -> Grant]
      /\ grant'[j].agent = gate[a].agent /\ grant'[j].scopes = gate[a].scopes
      /\ \A i \in Jti \ {j} : grant'[i] = grant[i]
      /\ j # Root
    BY <1>1, <1>3, MintGrows
<1>5. /\ gate' \in [Approval -> Row]
      /\ gate'[a].status = "approved" /\ gate'[a].child = j
      /\ gate'[a].agent = gate[a].agent /\ gate'[a].scopes = gate[a].scopes
      /\ gate'[a].parent = gate[a].parent
      /\ \A b \in Approval \ {a} : gate'[b] = gate[b]
    BY <1>1, <1>2 DEF Row, Status
<1>6. Root \in Minted'
    BY <1>4 DEF IInv, ServiceOK, Minted
<1>7. ASSUME NEW b \in Approval PROVE Decided(b)' /\ Asked(b)'
    <2>1. CASE b = a
        BY <1>3, <1>4, <1>5, <2>1 DEF Decided, Asked
    <2>2. CASE b # a
        <3>1. Decided(b) /\ Asked(b) /\ gate'[b] = gate[b]
            BY <1>5, <2>2 DEF IInv, ServiceOK
        <3>2. gate[b].status = "approved" => gate[b].child \in Minted
            BY <3>1, AdapterAssumption DEF Decided, Asked, Minted
        <3> QED BY <1>4, <3>1, <3>2 DEF Decided, Asked
    <2> QED BY <2>1, <2>2
<1>8. Grown
    BY <1>1, <1>4, <1>5 DEF Grown, Minted
<1> QED
    BY <1>1, <1>4, <1>5, <1>6, <1>7, <1>8
       DEF IInv, AdapterTypeOK, ServiceStep, ServiceTypeOK, ServiceOK

(* A row that changes and is not granted: a request is parked, or decided  *)
(* against.                                                                *)
LEMMA RowStep ==
    ASSUME IInv, NEW a \in Approval, NEW row \in Row,
           gate[a].status # "approved",
           row.status \notin {"absent", "approved"},
           row.parent \in Jti, row.agent \in Agent,
           gate[a].status = "absent" \/ row.agent = gate[a].agent,
           gate' = [gate EXCEPT ![a] = row],
           UNCHANGED <<grant, revoked>>
    PROVE  ServiceStep
<1>1. /\ gate' \in [Approval -> Row] /\ gate'[a] = row
      /\ \A b \in Approval \ {a} : gate'[b] = gate[b]
    BY DEF IInv, AdapterTypeOK
<1>2. ASSUME NEW b \in Approval PROVE Decided(b)' /\ Asked(b)'
    <2>1. CASE b = a
        BY <1>1, <2>1 DEF Decided, Asked
    <2>2. CASE b # a
        BY <1>1, <2>2 DEF IInv, ServiceOK, Decided, Asked
    <2> QED BY <2>1, <2>2
<1>3. Grown
    BY <1>1 DEF Grown
<1> QED
    BY <1>1, <1>2, <1>3 DEF IInv, AdapterTypeOK, ServiceStep, ServiceTypeOK, ServiceOK, Minted

(* RowFor, of the row as the step leaves it.                               *)
NowRowFor(a, agent) ==
    a \in Approval /\ gate'[a].status # "absent" /\ gate'[a].agent = agent

(* What an answer says of the service right after the request was served.  *)
Replied(r, reply) ==
    /\ reply \in Reply /\ reply # NoReply
    /\ reply.status = "valid" =>
         /\ r.op = "verify"
         /\ Lineage(r.token) \cap revoked = {} /\ r.scopes \subseteq grant[r.token].scopes
    /\ reply.status = "created" =>
         /\ r.op = "delegate" /\ reply.token \in Jti
         /\ grant'[reply.token].agent = r.agent /\ grant'[reply.token].scopes = reply.scopes
         /\ reply.scopes \cap Sensitive = {}
    /\ reply.status \in {"pending", "approved"} =>
         \/ r.op = "delegate" /\ NowRowFor(reply.appr, r.agent)
         \/ r.op \in {"approve", "collect"} /\ reply.appr = r.appr
    /\ reply.status = "approved" /\ reply.token # None =>
         /\ reply.appr \in Approval /\ gate'[reply.appr].status = "approved"
         /\ reply.token = gate'[reply.appr].child
         /\ reply.scopes = gate'[reply.appr].scopes

Served(r, to) == ServiceStep /\ \E reply : Replied(r, reply) /\ Tell(to, reply)

LEMMA RefusalReplied == \A r : Replied(r, Refusal)
BY DEF Replied, Refusal, Answer, Reply, NoReply

LEMMA VerifiedServed ==
    ASSUME IInv, NEW r \in Request, Named(r), NEW to, Verified(r, to)
    PROVE  Served(r, to)
<1>1. ServiceStep
    BY NoServiceStep DEF Verified
<1>2. CASE Live(r.token) /\ r.scopes \subseteq grant[r.token].scopes
    <2> DEFINE reply == Answer("valid", r.token, grant[r.token].scopes, None)
    <2>1. r.token \in Jti /\ grant[r.token].scopes \in SUBSET Scope /\ Lineage(r.token) \cap revoked = {}
        BY <1>2 DEF Verified, Named, IInv, AdapterTypeOK, Grant, Live
    <2>2. Replied(r, reply)
        BY <1>2, <2>1 DEF Replied, Answer, Reply, NoReply, Verified
    <2> QED BY <1>1, <1>2, <2>2 DEF Served, Verified
<1>3. CASE ~(Live(r.token) /\ r.scopes \subseteq grant[r.token].scopes)
    BY <1>1, <1>3, RefusalReplied DEF Served, Verified
<1> QED BY <1>2, <1>3

LEMMA DelegatedServed ==
    ASSUME IInv, NEW r \in Request, Named(r), NEW to, Delegated(r, to)
    PROVE  Served(r, to)
<1>1. PICK j \in Jti \ Minted :
        /\ Mint(j, r.token, r.agent, r.scopes)
        /\ Tell(to, Answer("created", j, r.scopes, None))
    BY DEF Delegated
<1>2. /\ r.op = "delegate" /\ r.token \in Jti /\ r.agent \in Agent
      /\ r.scopes \in SUBSET Scope /\ r.scopes \cap Sensitive = {}
    BY DEF Delegated, Named, Request
<1>3. ServiceStep
    BY <1>1, <1>2, MintStep DEF Delegated
<1>4. grant'[j].agent = r.agent /\ grant'[j].scopes = r.scopes
    BY <1>1, <1>2, MintGrows
<1>5. Replied(r, Answer("created", j, r.scopes, None))
    BY <1>2, <1>4 DEF Replied, Answer, Reply, NoReply
<1> QED BY <1>1, <1>3, <1>5 DEF Served

LEMMA ParkedServed ==
    ASSUME IInv, NEW r \in Request, Named(r), NEW to, DelegationParked(r, to)
    PROVE  Served(r, to)
<1> DEFINE row == [status |-> "pending", parent |-> r.token, agent |-> r.agent,
                   scopes |-> r.scopes, child |-> None]
<1>1. PICK a \in Approval :
        /\ gate[a].status = "absent"
        /\ gate' = [gate EXCEPT ![a] = row]
        /\ Tell(to, Answer("pending", None, r.scopes, a))
    BY DEF DelegationParked
<1>2. r.op = "delegate" /\ r.token \in Jti /\ r.agent \in Agent /\ r.scopes \in SUBSET Scope
    BY DEF DelegationParked, Named, Request
<1>3. row \in Row /\ row.status = "pending" /\ row.parent = r.token /\ row.agent = r.agent
    BY <1>2 DEF Row, Status
<1>4. ServiceStep
    <2> HIDE DEF row
    <2> QED BY <1>1, <1>2, <1>3, RowStep DEF DelegationParked
<1>5. gate'[a] = row
    BY <1>1 DEF IInv, AdapterTypeOK
<1>6. NowRowFor(a, r.agent)
    BY <1>5 DEF NowRowFor
<1>7. Replied(r, Answer("pending", None, r.scopes, a))
    BY <1>2, <1>6, AdapterAssumption DEF Replied, Answer, Reply, NoReply, Status
<1> QED BY <1>1, <1>4, <1>7 DEF Served

LEMMA ApprovedServed ==
    ASSUME IInv, NEW r \in Request, Named(r), NEW to, Approved(r, to)
    PROVE  Served(r, to)
<1>1. r.op = "approve" /\ r.appr \in Approval /\ Grants(r.appr)
    BY DEF Approved, Named
<1>2. ServiceStep
    BY <1>1, GrantsStep
<1>3. gate[r.appr].scopes \in SUBSET Scope
    BY <1>1 DEF IInv, AdapterTypeOK, Row
<1>4. Replied(r, Answer("approved", None, gate[r.appr].scopes, r.appr))
    BY <1>1, <1>3, AdapterAssumption DEF Replied, Answer, Reply, NoReply, Status
<1> QED BY <1>2, <1>4 DEF Approved, Served

LEMMA CollectedServed ==
    ASSUME IInv, NEW r \in Request, Named(r), NEW to, Collected(r, to)
    PROVE  Served(r, to)
<1> DEFINE row == gate[r.appr]
           reply == Answer(row.status, row.child, row.scopes, r.appr)
<1>1. r.op = "collect" /\ r.appr \in Approval /\ UNCHANGED service /\ Tell(to, reply)
    BY DEF Collected, Named, KeptAfter
<1>2. ServiceStep
    BY <1>1, NoServiceStep
<1>3. row \in Row /\ gate' = gate
    BY <1>1 DEF IInv, AdapterTypeOK, service
<1>4. reply \in Reply /\ reply # NoReply
    BY <1>1, <1>3, AdapterAssumption DEF Answer, Reply, NoReply, Row
<1>5. Replied(r, reply)
    BY <1>1, <1>3, <1>4 DEF Replied, Answer, Row, Status
<1> QED BY <1>1, <1>2, <1>5 DEF Served

LEMMA HandledServed ==
    ASSUME IInv, NEW r \in Request, Named(r), NEW to, Handled(r, to)
    PROVE  Served(r, to)
<1>1. ASSUME DelegationRefused(r, to) \/ ApprovalRefused(r, to) PROVE Served(r, to)
    BY <1>1, NoServiceStep, RefusalReplied DEF DelegationRefused, ApprovalRefused, Served
<1> QED
    BY <1>1, VerifiedServed, DelegatedServed, ParkedServed, ApprovedServed, CollectedServed
       DEF Handled

-----------------------------------------------------------------------------
(* What a graph holds stays true while the service goes on.                *)

ClientTypeOK ==
    /\ states \in [Graph -> SUBSET GraphState]
    /\ parked \in [Graph -> SUBSET Waiting]
    /\ pc \in [Graph -> Place]
    /\ call \in [Graph -> Call]
    /\ sent \in [Graph -> Request \cup {NoRequest}]
    /\ late \in [Graph -> Request \cup {NoRequest}]
    /\ answer \in [Graph -> Reply]
    /\ known \in [Graph -> SUBSET Jti]

SameCall(g) ==
    /\ states'[g] = states[g] /\ parked'[g] = parked[g] /\ pc'[g] = pc[g]
    /\ call'[g] = call[g] /\ known'[g] = known[g]
Same(g) ==
    SameCall(g) /\ sent'[g] = sent[g] /\ late'[g] = late[g] /\ answer'[g] = answer[g]

LEMMA HeldIsMinted ==
    ASSUME IInv, NEW g \in Graph, NEW s \in states[g]
    PROVE  s \in GraphState /\ s.token \in Minted
<1>1. s \in GraphState /\ Whole(s)
    BY DEF IInv, AdapterTypeOK, GraphOK, Holdings
<1> QED BY <1>1, AdapterAssumption DEF GraphState, Whole, Minted

LEMMA WholeKept ==
    ASSUME IInv, Grown, NEW g \in Graph, NEW s \in states[g]
    PROVE  Whole(s)'
<1>1. s.token \in Minted /\ Whole(s)
    BY HeldIsMinted DEF IInv, GraphOK, Holdings
<1>2. grant'[s.token] = grant[s.token]
    BY <1>1 DEF Grown
<1>3. \A a \in Approval : gate[a].status = "approved" => gate'[a] = gate[a]
    BY DEF Grown
<1> QED BY <1>1, <1>2, <1>3 DEF Whole

LEMMA RowKept ==
    ASSUME Grown, NEW a, NEW agent, RowFor(a, agent)
    PROVE  NowRowFor(a, agent)
BY DEF Grown, RowFor, NowRowFor

LEMMA HoldingsKept ==
    ASSUME IInv, Grown, NEW g \in Graph, states'[g] = states[g], parked'[g] = parked[g]
    PROVE  Holdings(g)'
<1>1. Holdings(g)
    BY DEF IInv, GraphOK
<1> QED BY <1>1, WholeKept, RowKept DEF Holdings, RowFor, NowRowFor

LEMMA AuthorisedKept ==
    ASSUME IInv, Grown, NEW g \in Graph, pc[g] # "idle", Authorised(g), SameCall(g)
    PROVE  Authorised(g)'
<1>1. call[g].from.token \in Minted
    BY HeldIsMinted DEF IInv, GraphOK, CallOK
<1>2. grant'[call[g].from.token] = grant[call[g].from.token]
    BY <1>1 DEF Grown
<1> QED BY <1>2 DEF Authorised, Lineage, SameCall

LEMMA CallKept ==
    ASSUME IInv, Grown, NEW g \in Graph, SameCall(g), sent'[g] = sent[g],
           answer'[g] = answer[g]
    PROVE  Holdings(g)' /\ CallOK(g)' /\ SentOK(g)' /\ AnswerOK(g)'
<1>1. Holdings(g)' /\ CallOK(g) /\ SentOK(g) /\ AnswerOK(g)
    BY HoldingsKept DEF IInv, GraphOK, SameCall
<1>2. CallOK(g)'
    BY <1>1, AuthorisedKept DEF CallOK, SameCall, Grown
<1>3. SentOK(g)'
    BY <1>1, RowKept DEF SentOK, SameCall, Named, RowFor, NowRowFor
<1>4. AnswerOK(g)'
    <2> DEFINE r == answer[g]
    <2>1. r.status = "valid" => Authorised(g)'
        <3>1. r.status = "valid" => pc[g] # "idle"
            BY <1>1 DEF CallOK, NoReply
        <3> QED BY <1>1, <3>1, AuthorisedKept DEF AnswerOK
    <2>2. r.status = "created" => r.token \in Minted
        BY <1>1, AdapterAssumption DEF AnswerOK, Minted
    <2>3. r.status \in {"pending", "approved"} => NowRowFor(r.appr, call[g].agent)
        BY <1>1, RowKept DEF AnswerOK
    <2>4. r.status = "approved" /\ r.token # None => gate'[r.appr] = gate[r.appr]
        BY <1>1 DEF AnswerOK, RowFor, Grown
    <2> QED
        BY <1>1, <2>1, <2>2, <2>3, <2>4
           DEF AnswerOK, SameCall, Grown, RowFor, NowRowFor
<1> QED BY <1>1, <1>2, <1>3, <1>4

LEMMA GraphKept ==
    ASSUME IInv, Grown, NEW g \in Graph, Same(g)
    PROVE  GraphOK(g)'
<1>1. late[g] # NoRequest => Named(late[g])
    BY DEF IInv, GraphOK
<1>2. Holdings(g)' /\ CallOK(g)' /\ SentOK(g)' /\ AnswerOK(g)'
    BY CallKept DEF Same
<1> QED BY <1>1, <1>2 DEF GraphOK, Same, Named

(* A step of the service, with or without an action of one graph.          *)
LEMMA Compose ==
    ASSUME IInv, ServiceStep, ClientTypeOK', NEW g \in Graph, GraphOK(g)',
           \A h \in Graph \ {g} : Same(h)
    PROVE  IInv'
<1>1. ASSUME NEW h \in Graph PROVE GraphOK(h)'
    BY GraphKept DEF ServiceStep
<1>2. AdapterTypeOK' /\ ServiceOK'
    BY DEF ServiceStep, ServiceTypeOK, ClientTypeOK, AdapterTypeOK
<1> QED BY <1>1, <1>2 DEF IInv

LEMMA ServiceAlone ==
    ASSUME IInv, ServiceStep, UNCHANGED <<client, network>>
    PROVE  IInv'
<1>1. ClientTypeOK' /\ \A g \in Graph : Same(g)
    BY DEF IInv, AdapterTypeOK, ClientTypeOK, client, network, Same, SameCall
<1>2. ASSUME NEW g \in Graph PROVE GraphOK(g)'
    BY <1>1, GraphKept DEF ServiceStep
<1>3. AdapterTypeOK' /\ ServiceOK'
    BY <1>1 DEF ServiceStep, ServiceTypeOK, ClientTypeOK, AdapterTypeOK
<1> QED BY <1>2, <1>3 DEF IInv

LEMMA DecideInv ==
    ASSUME IInv, NEW a \in Approval, Decide(a)
    PROVE  IInv'
<1>1. CASE Grants(a)
    BY <1>1, GrantsStep, ServiceAlone DEF Decide
<1>2. ASSUME NEW verdict \in {"denied", "expired"}, gate[a].status = "pending",
             gate' = [gate EXCEPT ![a].status = verdict], UNCHANGED <<grant, revoked>>
      PROVE  ServiceStep
    <2> DEFINE row == [gate[a] EXCEPT !.status = verdict]
    <2>1. gate[a] \in Row /\ Asked(a)
        BY DEF IInv, AdapterTypeOK, ServiceOK
    <2>2. row \in Row /\ row.status = verdict
          /\ row.agent = gate[a].agent /\ row.parent = gate[a].parent
        BY <2>1 DEF Row, Status
    <2>3. gate' = [gate EXCEPT ![a] = row]
        BY <1>2
    <2>4. row.parent \in Jti /\ row.agent \in Agent
        BY <1>2, <2>1, <2>2 DEF Asked
    <2> HIDE DEF row
    <2> QED BY <1>2, <2>2, <2>3, <2>4, RowStep
<1> QED BY <1>1, <1>2, ServiceAlone DEF Decide

LEMMA RevokeInv ==
    ASSUME IInv, NEW j \in Jti, Revoke(j)
    PROVE  IInv'
<1>1. ServiceTypeOK'
    BY DEF Revoke, IInv, AdapterTypeOK, ServiceTypeOK, Minted
<1>2. ServiceOK' /\ Grown
    BY DEF Revoke, IInv, ServiceOK, Decided, Asked, Minted, Grown
<1> QED BY <1>1, <1>2, ServiceAlone DEF ServiceStep, Revoke

-----------------------------------------------------------------------------
(* Serving a request.                                                      *)

(* The answer is true of the request's call.                               *)
LEMMA RepliedAnswer ==
    ASSUME IInv, Grown, NEW g \in Graph, sent[g] # NoRequest, SameCall(g),
           Replied(sent[g], answer'[g])
    PROVE  AnswerOK(g)'
<1> DEFINE r == sent[g]
           reply == answer'[g]
<1>1. /\ Named(r) /\ pc[g] \notin {"idle", "body"} /\ known[g] \subseteq revoked
      /\ r.op = "verify" => r.token = call[g].from.token /\ r.scopes = call[g].scopes
      /\ r.op = "delegate" => r.agent = call[g].agent
      /\ r.op \in {"approve", "collect"} => RowFor(r.appr, call[g].agent)
    BY DEF IInv, GraphOK, CallOK, SentOK
<1>2. reply.status = "valid" => Authorised(g)'
    <2> SUFFICES ASSUME reply.status = "valid" PROVE Authorised(g)'
        OBVIOUS
    <2>1. Authorised(g)
        BY <1>1 DEF Replied, Authorised
    <2> QED BY <1>1, <2>1, AuthorisedKept
<1>3. reply.status = "created" =>
        /\ reply.token \in Jti
        /\ grant'[reply.token].agent = call'[g].agent /\ call'[g].agent \in Agent
        /\ grant'[reply.token].scopes = reply.scopes
        /\ reply.scopes \cap Sensitive = {}
    BY <1>1 DEF Replied, Named, SameCall
<1>4. reply.status \in {"pending", "approved"} => NowRowFor(reply.appr, call[g].agent)
    <2>1. r.op \in {"approve", "collect"} => NowRowFor(r.appr, call[g].agent)
        BY <1>1, RowKept
    <2> QED BY <1>1, <2>1 DEF Replied
<1> QED BY <1>2, <1>3, <1>4 DEF AnswerOK, Replied, RowFor, NowRowFor, SameCall

LEMMA ServeInv ==
    ASSUME IInv, NEW g \in Graph, Serve(g)
    PROVE  IInv'
<1>1. /\ sent[g] \in Request /\ sent[g] # NoRequest /\ Named(sent[g])
      /\ Handled(sent[g], {g})
      /\ sent' = [sent EXCEPT ![g] = NoRequest] /\ UNCHANGED <<client, late>>
    BY DEF Serve, IInv, AdapterTypeOK, GraphOK, SentOK
<1>2. PICK reply : Replied(sent[g], reply) /\ Tell({g}, reply)
    BY <1>1, HandledServed DEF Served
<1>3. ServiceStep
    BY <1>1, HandledServed DEF Served
<1>4. ClientTypeOK /\ reply \in Reply /\ reply # NoReply
    BY <1>2 DEF IInv, AdapterTypeOK, ClientTypeOK, Replied
<1>5. /\ answer'[g] = reply /\ answer' \in [Graph -> Reply]
      /\ \A h \in Graph \ {g} : answer'[h] = answer[h]
    BY <1>2, <1>4 DEF Tell, ClientTypeOK
<1>6. /\ sent'[g] = NoRequest /\ sent' \in [Graph -> Request \cup {NoRequest}]
      /\ \A h \in Graph \ {g} : sent'[h] = sent[h]
    BY <1>1, <1>4 DEF ClientTypeOK
<1>7. ClientTypeOK' /\ SameCall(g) /\ \A h \in Graph \ {g} : Same(h)
    BY <1>1, <1>4, <1>5, <1>6 DEF ClientTypeOK, client, Same, SameCall
<1>8. AnswerOK(g)'
    BY <1>1, <1>2, <1>3, <1>5, <1>7, RepliedAnswer DEF ServiceStep
<1>9. CallOK(g)'
    <2>1. CallOK(g) /\ pc[g] \notin {"idle", "body"}
        BY <1>1 DEF IInv, GraphOK, CallOK
    <2> QED BY <1>3, <1>6, <1>7, <2>1 DEF CallOK, SameCall, ServiceStep, Grown
<1>10. GraphOK(g)'
    <2>1. Holdings(g)'
        BY <1>3, <1>7, HoldingsKept DEF SameCall, ServiceStep
    <2> QED
        BY <1>1, <1>6, <1>8, <1>9, <2>1 DEF IInv, GraphOK, SentOK, Named
<1> QED BY <1>3, <1>7, <1>10, Compose

LEMMA ServeErrorInv ==
    ASSUME IInv, NEW g \in Graph, ServeError(g)
    PROVE  IInv'
<1> DEFINE error == Answer("error", None, {}, None)
<1>1. ServiceStep
    BY NoServiceStep DEF ServeError
<1>2. ClientTypeOK /\ error \in Reply /\ error # NoReply
    BY DEF IInv, AdapterTypeOK, ClientTypeOK, Answer, Reply, NoReply
<1>3. /\ answer'[g] = error /\ sent'[g] = NoRequest /\ sent[g] # NoRequest
      /\ ClientTypeOK' /\ SameCall(g) /\ late' = late
      /\ \A h \in Graph \ {g} : Same(h)
    BY <1>2 DEF ServeError, ClientTypeOK, client, Same, SameCall
<1>4. Holdings(g)'
    BY <1>1, <1>3, HoldingsKept DEF SameCall, ServiceStep
<1>5. CallOK(g)'
    <2>1. CallOK(g) /\ pc[g] \notin {"idle", "body"}
        BY <1>3 DEF IInv, GraphOK, CallOK
    <2> QED BY <1>1, <1>3, <2>1 DEF CallOK, SameCall, ServiceStep, Grown
<1>6. AnswerOK(g)'
    BY <1>3 DEF AnswerOK, Answer
<1>7. GraphOK(g)'
    BY <1>3, <1>4, <1>5, <1>6 DEF IInv, GraphOK, SentOK, Named
<1> QED BY <1>1, <1>3, <1>7, Compose

LEMMA ServeLateInv ==
    ASSUME IInv, NEW g \in Graph, ServeLate(g)
    PROVE  IInv'
<1>1. /\ late[g] \in Request /\ Named(late[g]) /\ Handled(late[g], {})
      /\ late' = [late EXCEPT ![g] = NoRequest] /\ UNCHANGED <<client, sent>>
    BY DEF ServeLate, IInv, AdapterTypeOK, GraphOK
<1>2. ServiceStep /\ \E reply : Tell({}, reply)
    BY <1>1, HandledServed DEF Served
<1>3. ClientTypeOK
    BY DEF IInv, AdapterTypeOK, ClientTypeOK
<1>4. answer' = answer
    BY <1>2, <1>3 DEF Tell, ClientTypeOK
<1>5. /\ ClientTypeOK' /\ SameCall(g) /\ late'[g] = NoRequest
      /\ \A h \in Graph \ {g} : Same(h)
    BY <1>1, <1>3, <1>4 DEF ClientTypeOK, client, Same, SameCall
<1>6. GraphOK(g)'
    <2>1. Holdings(g)' /\ CallOK(g)' /\ SentOK(g)' /\ AnswerOK(g)'
        BY <1>1, <1>2, <1>4, <1>5, CallKept DEF ServiceStep
    <2> QED BY <1>5, <2>1 DEF GraphOK
<1> QED BY <1>2, <1>5, <1>6, Compose

-----------------------------------------------------------------------------
(* The client.                                                             *)

(* A request puts the question that a call from s is about.                *)
Puts(r, s, agent, scopes) ==
    /\ r \in Request /\ Named(r)
    /\ r.op = "verify" => r.token = s.token /\ r.scopes = scopes
    /\ r.op = "delegate" => r.agent = agent
    /\ r.op \in {"approve", "collect"} => RowFor(r.appr, agent)

(* A call begins, from a state of the graph.                               *)
LEMMA BeginInv ==
    ASSUME IInv, NEW g \in Graph, NEW at \in {"verify", "delegate", "collect"},
           NEW s \in states[g], NEW agent \in Agent \cup {None},
           NEW scopes \in SUBSET Scope, NEW inline \in BOOLEAN,
           Begin(g, at, s, agent, scopes, inline),
           NEW r, sent' = [sent EXCEPT ![g] = r], Puts(r, s, agent, scopes)
    PROVE  IInv'
<1> DEFINE c == [from |-> s, agent |-> agent, scopes |-> scopes, inline |-> inline]
<1>1. ServiceStep /\ UNCHANGED service
    BY NoServiceStep DEF Begin
<1>2. ClientTypeOK /\ GraphOK(g) /\ s \in GraphState
    BY DEF IInv, AdapterTypeOK, ClientTypeOK
<1>3. c \in Call
    BY <1>2 DEF Call
<1>4. /\ ClientTypeOK' /\ \A h \in Graph \ {g} : Same(h)
      /\ pc'[g] = at /\ call'[g] = c /\ known'[g] = revoked /\ sent'[g] = r
      /\ UNCHANGED <<states, parked, late, answer>>
      /\ pc[g] = "idle"
    <2> HIDE DEF c
    <2>1. at \in Place /\ revoked \in SUBSET Jti /\ call' = [call EXCEPT ![g] = c]
          /\ r \in Request
        BY DEF Place, IInv, AdapterTypeOK, Begin, Puts, c
    <2> QED BY <1>2, <1>3, <2>1 DEF Begin, ClientTypeOK, Same, SameCall
<1>5. c.from = s /\ c.agent = agent /\ c.scopes = scopes
    OBVIOUS
<1>6. answer'[g] = NoReply
    BY <1>2, <1>4 DEF GraphOK, CallOK
<1>7. Holdings(g)'
    BY <1>1, <1>4, HoldingsKept DEF ServiceStep
<1>8. CallOK(g)'
    BY <1>1, <1>4, <1>5, <1>6 DEF CallOK, service
<1>9. SentOK(g)'
    BY <1>1, <1>4, <1>5 DEF SentOK, Named, RowFor, Puts, service
<1>10. AnswerOK(g)'
    BY <1>6 DEF AnswerOK, NoReply
<1>11. GraphOK(g)'
    BY <1>2, <1>4, <1>7, <1>8, <1>9, <1>10 DEF GraphOK, Named
<1> QED BY <1>1, <1>4, <1>11, Compose

LEMMA EnterNodeInv ==
    ASSUME IInv, NEW g \in Graph, EnterNode(g)
    PROVE  IInv'
<1>1. PICK s \in states[g], scope \in Scope :
        /\ Begin(g, "verify", s, None, {scope}, FALSE)
        /\ Send(g, "verify", s.token, None, {scope}, None)
    BY DEF EnterNode
<1> DEFINE r == [op |-> "verify", token |-> s.token, agent |-> None, scopes |-> {scope},
                 appr |-> None]
<1>2. r \in Request /\ s.token \in Jti
    BY HeldIsMinted DEF Request, GraphState
<1>3. Puts(r, s, None, {scope})
    BY <1>2 DEF Puts, Named
<1>4. sent' = [sent EXCEPT ![g] = r]
    BY <1>1 DEF Send
<1> HIDE DEF r
<1> QED BY <1>1, <1>2, <1>3, <1>4, BeginInv

LEMMA DelegateForNodeInv ==
    ASSUME IInv, NEW g \in Graph, DelegateForNode(g)
    PROVE  IInv'
<1>1. PICK s \in states[g], agent \in Agent, scopes \in Asks, inline \in BOOLEAN :
        /\ Begin(g, "delegate", s, agent, scopes, inline)
        /\ Send(g, "delegate", s.token, agent, scopes, None)
    BY DEF DelegateForNode
<1> DEFINE r == [op |-> "delegate", token |-> s.token, agent |-> agent, scopes |-> scopes,
                 appr |-> None]
<1>2. scopes \in SUBSET Scope
    BY AdapterAssumption
<1>3. r \in Request /\ s.token \in Jti
    BY <1>2, HeldIsMinted DEF Request, GraphState
<1>4. Puts(r, s, agent, scopes)
    BY <1>3 DEF Puts, Named
<1>5. sent' = [sent EXCEPT ![g] = r]
    BY <1>1 DEF Send
<1> HIDE DEF r
<1> QED BY <1>1, <1>2, <1>3, <1>4, <1>5, BeginInv

LEMMA PollInv ==
    ASSUME IInv, NEW g \in Graph, NEW a \in Approval, Poll(g, a)
    PROVE  IInv'
<1>1. PICK p \in parked[g] :
        /\ p.appr = a
        /\ Begin(g, "collect", p.from, p.agent, {}, FALSE)
        /\ Send(g, "collect", None, None, {}, a)
    BY DEF Poll
<1> DEFINE r == [op |-> "collect", token |-> None, agent |-> None, scopes |-> {}, appr |-> a]
<1>2. p \in Waiting /\ p.from \in states[g] /\ RowFor(a, p.agent)
    BY <1>1 DEF IInv, AdapterTypeOK, GraphOK, Holdings
<1>3. r \in Request /\ p.agent \in Agent
    BY <1>2 DEF Request, Waiting
<1>4. Puts(r, p.from, p.agent, {})
    BY <1>2, <1>3 DEF Puts, Named
<1>5. sent' = [sent EXCEPT ![g] = r]
    BY <1>1 DEF Send
<1> HIDE DEF r
<1> QED BY <1>1, <1>2, <1>3, <1>4, <1>5, BeginInv

(* A call ends, and the graph has kept what it was given.                  *)
LEMMA RaiseInv ==
    ASSUME IInv, NEW g \in Graph, UNCHANGED service, Raise(g), sent'[g] = NoRequest,
           states' \in [Graph -> SUBSET GraphState],
           parked' \in [Graph -> SUBSET Waiting],
           sent' \in [Graph -> Request \cup {NoRequest}],
           late' \in [Graph -> Request \cup {NoRequest}],
           \A h \in Graph \ {g} : /\ states'[h] = states[h] /\ parked'[h] = parked[h]
                                  /\ sent'[h] = sent[h] /\ late'[h] = late[h],
           Holdings(g)', late'[g] # NoRequest => Named(late'[g])
    PROVE  IInv'
<1>1. ServiceStep
    BY NoServiceStep
<1>2. NoCall \in Call /\ NoReply \in Reply /\ "idle" \in Place
    BY DEF NoCall, NoReply, Call, Reply, Status, Place
<1>3. /\ ClientTypeOK' /\ \A h \in Graph \ {g} : Same(h)
      /\ pc'[g] = "idle" /\ call'[g] = NoCall /\ known'[g] = {} /\ answer'[g] = NoReply
    BY <1>2 DEF Raise, IInv, AdapterTypeOK, ClientTypeOK, Same, SameCall
<1>4. CallOK(g)' /\ SentOK(g)' /\ AnswerOK(g)'
    BY <1>3 DEF CallOK, SentOK, AnswerOK, NoReply
<1>5. GraphOK(g)'
    BY <1>4 DEF GraphOK, Named
<1> QED BY <1>1, <1>3, <1>5, Compose

(* A call ends without anything to keep.                                   *)
LEMMA DropInv ==
    ASSUME IInv, NEW g \in Graph, UNCHANGED <<service, states, parked>>, Raise(g),
           sent'[g] = NoRequest, sent' \in [Graph -> Request \cup {NoRequest}],
           \A h \in Graph \ {g} : sent'[h] = sent[h] /\ late'[h] = late[h],
           late' \in [Graph -> Request \cup {NoRequest}],
           late'[g] # NoRequest => Named(late'[g])
    PROVE  IInv'
<1>1. Holdings(g)'
    BY NoServiceStep, HoldingsKept DEF ServiceStep
<1>2. states \in [Graph -> SUBSET GraphState] /\ parked \in [Graph -> SUBSET Waiting]
    BY DEF IInv, AdapterTypeOK
<1> QED BY <1>1, <1>2, RaiseInv

LEMMA TimeoutInv ==
    ASSUME IInv, NEW g \in Graph, Timeout(g)
    PROVE  IInv'
<1>1. /\ sent \in [Graph -> Request \cup {NoRequest}]
      /\ late \in [Graph -> Request \cup {NoRequest}]
      /\ sent[g] # NoRequest => Named(sent[g])
      /\ late[g] # NoRequest => Named(late[g])
    BY DEF IInv, AdapterTypeOK, GraphOK, SentOK
<1>2. /\ sent'[g] = NoRequest /\ sent' \in [Graph -> Request \cup {NoRequest}]
      /\ \A h \in Graph \ {g} : sent'[h] = sent[h]
    BY <1>1 DEF Timeout
<1>3. /\ late' \in [Graph -> Request \cup {NoRequest}]
      /\ \A h \in Graph \ {g} : late'[h] = late[h]
      /\ late'[g] \in {sent[g], late[g]}
    BY <1>1 DEF Timeout
<1>4. late'[g] # NoRequest => Named(late'[g])
    BY <1>1, <1>3
<1> QED BY <1>2, <1>3, <1>4, DropInv DEF Timeout

(* What is known of a call that waits, or that has its answer.             *)
LEMMA Pending ==
    ASSUME IInv, NEW g \in Graph, pc[g] # "idle"
    PROVE  /\ call[g].from \in states[g] /\ call[g].from \in GraphState
           /\ pc[g] = "body" \/ answer[g] # NoReply => sent[g] = NoRequest
           /\ AnswerOK(g) /\ Holdings(g)
BY HeldIsMinted DEF IInv, GraphOK, CallOK

(* It ends with the request gone: everything but the call is as it was.    *)
LEMMA EndInv ==
    ASSUME IInv, NEW g \in Graph, UNCHANGED <<service, states, parked, sent, late>>,
           Raise(g), pc[g] # "idle", pc[g] = "body" \/ answer[g] # NoReply
    PROVE  IInv'
<1>1. sent[g] = NoRequest
    BY Pending
<1>2. /\ sent \in [Graph -> Request \cup {NoRequest}]
      /\ late \in [Graph -> Request \cup {NoRequest}]
      /\ late[g] # NoRequest => Named(late[g])
    BY DEF IInv, AdapterTypeOK, GraphOK
<1>3. late'[g] # NoRequest => Named(late'[g])
    BY <1>2
<1> QED BY <1>1, <1>2, <1>3, DropInv

LEMMA VerifyReplyInv ==
    ASSUME IInv, NEW g \in Graph, VerifyReply(g)
    PROVE  IInv'
<1>1. CASE Raise(g)
    BY <1>1, EndInv DEF VerifyReply, Answered
<1>2. ASSUME Valid(answer[g]), pc' = [pc EXCEPT ![g] = "body"],
             answer' = [answer EXCEPT ![g] = NoReply], UNCHANGED <<call, known>>
      PROVE  IInv'
    <2>1. ServiceStep
        BY NoServiceStep DEF VerifyReply
    <2>2. /\ pc[g] = "verify" /\ answer[g] # NoReply
          /\ UNCHANGED <<service, states, parked, sent, late>>
        BY DEF VerifyReply, Answered
    <2>3. NoReply \in Reply /\ "body" \in Place
        BY DEF NoReply, Reply, Status, Place
    <2>4. /\ ClientTypeOK' /\ \A h \in Graph \ {g} : Same(h)
          /\ pc'[g] = "body" /\ answer'[g] = NoReply
        BY <1>2, <2>2, <2>3 DEF IInv, AdapterTypeOK, ClientTypeOK, Same, SameCall
    <2>5. sent'[g] = NoRequest /\ Authorised(g) /\ call[g].from \in states[g]
        BY <1>2, <2>2, Pending DEF AnswerOK, Valid
    <2>6. Authorised(g)' /\ known'[g] \subseteq revoked'
        BY <1>2, <2>2, <2>5
           DEF Authorised, Lineage, service, IInv, GraphOK, CallOK
    <2>7. CallOK(g)'
        BY <1>2, <2>2, <2>4, <2>5, <2>6 DEF CallOK
    <2>8. Holdings(g)'
        BY <2>1, <2>2, HoldingsKept DEF ServiceStep
    <2>9. SentOK(g)' /\ AnswerOK(g)'
        BY <2>4, <2>5 DEF SentOK, AnswerOK, NoReply
    <2>10. late'[g] # NoRequest => Named(late'[g])
        BY <2>2 DEF IInv, GraphOK
    <2>11. GraphOK(g)'
        BY <2>7, <2>8, <2>9, <2>10 DEF GraphOK, Named
    <2> QED BY <2>1, <2>4, <2>11, Compose
<1> QED BY <1>1, <1>2 DEF VerifyReply

LEMMA LeaveBodyInv ==
    ASSUME IInv, NEW g \in Graph, LeaveBody(g)
    PROVE  IInv'
BY EndInv DEF LeaveBody

(* A call that goes on asks about the row its answer was about.            *)
LEMMA GoOnInv ==
    ASSUME IInv, NEW g \in Graph, NEW op \in {"approve", "collect"}, GoOn(g, op),
           answer[g].status \in {"pending", "approved"}, pc[g] # "idle",
           UNCHANGED <<service, states, parked, late>>
    PROVE  IInv'
<1> DEFINE a == answer[g].appr
           r == [op |-> op, token |-> None, agent |-> None, scopes |-> {}, appr |-> a]
<1>1. ServiceStep
    BY NoServiceStep
<1>2. RowFor(a, call[g].agent) /\ call[g].from \in states[g]
    BY Pending DEF AnswerOK
<1>3. r \in Request /\ NoReply \in Reply /\ op \in Place
    BY <1>2 DEF Request, RowFor, NoReply, Reply, Status, Place
<1>4. Named(r) /\ r.op = op /\ r.appr = a
    BY <1>2 DEF Named, RowFor
<1>5. sent' = [sent EXCEPT ![g] = r]
    BY DEF GoOn, Send
<1>6. /\ ClientTypeOK' /\ \A h \in Graph \ {g} : Same(h)
      /\ pc'[g] = op /\ answer'[g] = NoReply /\ sent'[g] = r
      /\ call'[g] = call[g] /\ known'[g] = known[g]
    <2> HIDE DEF r
    <2> QED BY <1>3, <1>5 DEF GoOn, IInv, AdapterTypeOK, ClientTypeOK, Same, SameCall
<1>7. CallOK(g)'
    BY <1>2, <1>6 DEF CallOK, IInv, GraphOK, service
<1>8. Holdings(g)'
    BY <1>1, HoldingsKept DEF ServiceStep
<1>10. SentOK(g)' /\ AnswerOK(g)'
    BY <1>2, <1>4, <1>6 DEF SentOK, AnswerOK, NoReply, Named, RowFor, service
<1>11. late'[g] # NoRequest => Named(late'[g])
    BY DEF IInv, GraphOK
<1>12. GraphOK(g)'
    BY <1>7, <1>8, <1>10, <1>11 DEF GraphOK, Named
<1> QED BY <1>1, <1>6, <1>12, Compose

LEMMA ApproveReplyInv ==
    ASSUME IInv, NEW g \in Graph, ApproveReply(g)
    PROVE  IInv'
<1>1. CASE answer[g].status = "approved" /\ GoOn(g, "collect")
    BY <1>1, GoOnInv DEF ApproveReply, Answered
<1>2. CASE Raise(g) /\ UNCHANGED sent
    BY <1>2, EndInv DEF ApproveReply, Answered
<1> QED BY <1>1, <1>2 DEF ApproveReply

LEMMA NewStateSays ==
    ASSUME NEW c, NEW reply, c.from \in GraphState, reply.token \in Jti,
           c.agent \in Agent, reply.scopes \in SUBSET Scope
    PROVE  /\ NewState(c, reply) \in GraphState
           /\ NewState(c, reply).token = reply.token
           /\ NewState(c, reply).agent = c.agent
           /\ NewState(c, reply).scopes = reply.scopes
BY DEF NewState, GraphState

(* A state made of a token the service has handed out is whole.            *)
LEMMA ObtainInv ==
    ASSUME IInv, NEW g \in Graph, pc[g] # "idle", answer[g] # NoReply, Obtain(g), Raise(g),
           \/ answer[g].status = "created"
           \/ answer[g].status = "approved" /\ answer[g].token # None,
           parked' \in [Graph -> SUBSET Waiting], parked'[g] \subseteq parked[g],
           \A h \in Graph \ {g} : parked'[h] = parked[h],
           UNCHANGED <<service, sent, late>>
    PROVE  IInv'
<1> DEFINE reply == answer[g]
           s == NewState(call[g], reply)
<1>1. /\ call[g].from \in GraphState /\ AnswerOK(g) /\ Holdings(g) /\ sent[g] = NoRequest
      /\ reply \in Reply
    BY Pending DEF IInv, AdapterTypeOK
<1>2. ASSUME reply.status = "created" PROVE s \in GraphState /\ Whole(s)
    <2>1. /\ reply.token \in Jti /\ call[g].agent \in Agent
          /\ grant[reply.token].agent = call[g].agent
          /\ grant[reply.token].scopes = reply.scopes
          /\ reply.scopes \cap Sensitive = {} /\ reply.scopes \in SUBSET Scope
        BY <1>1, <1>2 DEF AnswerOK, Reply
    <2>2. /\ s \in GraphState /\ s.token = reply.token /\ s.agent = call[g].agent
          /\ s.scopes = reply.scopes
        BY <1>1, <2>1, NewStateSays
    <2> HIDE DEF s
    <2> QED BY <2>1, <2>2 DEF Whole
<1>3. ASSUME reply.status = "approved", reply.token # None
      PROVE  s \in GraphState /\ Whole(s)
    <2> DEFINE a == reply.appr
    <2>1. /\ RowFor(a, call[g].agent) /\ gate[a].status = "approved"
          /\ reply.token = gate[a].child /\ reply.scopes = gate[a].scopes
        BY <1>1, <1>3 DEF AnswerOK
    <2>2. Decided(a) /\ Asked(a) /\ gate[a] \in Row
        BY <2>1 DEF IInv, ServiceOK, AdapterTypeOK, RowFor
    <2>3. /\ reply.token \in Jti /\ call[g].agent \in Agent
          /\ grant[reply.token].agent = call[g].agent
          /\ grant[reply.token].scopes = reply.scopes
          /\ reply.scopes \in SUBSET Scope /\ a \in Approval
        BY <2>1, <2>2 DEF Decided, Asked, RowFor, Row
    <2>4. /\ s \in GraphState /\ s.token = reply.token /\ s.agent = call[g].agent
          /\ s.scopes = reply.scopes
        BY <1>1, <2>3, NewStateSays
    <2> HIDE DEF s
    <2> QED BY <2>1, <2>3, <2>4 DEF Whole
<1>4. s \in GraphState /\ Whole(s)
    BY <1>2, <1>3
<1>5. /\ states' \in [Graph -> SUBSET GraphState]
      /\ states'[g] = states[g] \cup {s}
      /\ \A h \in Graph \ {g} : states'[h] = states[h]
    <2> HIDE DEF s
    <2>1. states' = [states EXCEPT ![g] = @ \cup {s}]
        BY DEF Obtain, s
    <2> QED BY <1>4, <2>1 DEF IInv, AdapterTypeOK
<1>6. Holdings(g)'
    <2> HIDE DEF s
    <2>1. \A t \in states'[g] : Whole(t)
        BY <1>1, <1>4, <1>5 DEF Holdings
    <2>2. \A t : Whole(t) => Whole(t)'
        BY DEF Whole, service
    <2>3. \A p \in parked'[g] : p.from \in states'[g] /\ RowFor(p.appr, p.agent)
        BY <1>1, <1>5 DEF Holdings
    <2> QED BY <2>1, <2>2, <2>3 DEF Holdings, Whole, RowFor, service
<1>7. /\ sent \in [Graph -> Request \cup {NoRequest}]
      /\ late \in [Graph -> Request \cup {NoRequest}]
      /\ late'[g] # NoRequest => Named(late'[g])
    BY DEF IInv, AdapterTypeOK, GraphOK
<1> HIDE DEF s
<1> QED BY <1>1, <1>5, <1>6, <1>7, RaiseInv

(* A call ends, and the graph knows of a parked delegation more or less.   *)
LEMMA ParkedInv ==
    ASSUME IInv, NEW g \in Graph, pc[g] # "idle", answer[g] # NoReply, Raise(g),
           NEW P \in SUBSET Waiting, parked' = [parked EXCEPT ![g] = P],
           \A p \in P : p \in parked[g] \/ (p.from \in states[g] /\ RowFor(p.appr, p.agent)),
           UNCHANGED <<service, states, sent, late>>
    PROVE  IInv'
<1>1. Holdings(g) /\ sent[g] = NoRequest
    BY Pending
<1>2. /\ states \in [Graph -> SUBSET GraphState]
      /\ sent \in [Graph -> Request \cup {NoRequest}]
      /\ late \in [Graph -> Request \cup {NoRequest}]
      /\ late'[g] # NoRequest => Named(late'[g])
    BY DEF IInv, AdapterTypeOK, GraphOK
<1>3. /\ parked' \in [Graph -> SUBSET Waiting] /\ parked'[g] = P
      /\ \A h \in Graph \ {g} : parked'[h] = parked[h]
    BY DEF IInv, AdapterTypeOK
<1>4. Holdings(g)'
    BY <1>1, <1>3 DEF Holdings, Whole, RowFor, service
<1> QED BY <1>1, <1>2, <1>3, <1>4, RaiseInv

LEMMA DelegateReplyInv ==
    ASSUME IInv, NEW g \in Graph, DelegateReply(g)
    PROVE  IInv'
<1>1. /\ pc[g] = "delegate" /\ answer[g] # NoReply /\ UNCHANGED <<service, late>>
      /\ parked \in [Graph -> SUBSET Waiting]
    BY DEF DelegateReply, Answered, IInv, AdapterTypeOK
<1>2. CASE answer[g].status = "created" /\ Obtain(g) /\ Raise(g) /\ UNCHANGED <<parked, sent>>
    BY <1>1, <1>2, ObtainInv
<1>3. CASE /\ answer[g].status = "pending" /\ Park(g) /\ Raise(g)
           /\ UNCHANGED <<states, sent>>
    <2> DEFINE p == [appr |-> answer[g].appr, from |-> call[g].from, agent |-> call[g].agent]
    <2>1. /\ call[g].from \in states[g] /\ call[g].from \in GraphState
          /\ RowFor(answer[g].appr, call[g].agent)
        BY <1>1, <1>3, Pending DEF AnswerOK
    <2>2. call[g].agent \in Agent
        BY <2>1 DEF IInv, ServiceOK, Asked, RowFor
    <2>3. p \in Waiting /\ p.from \in states[g] /\ RowFor(p.appr, p.agent)
        BY <2>1, <2>2 DEF Waiting, RowFor
    <2>4. parked' = [parked EXCEPT ![g] = parked[g] \cup {p}]
        BY <1>3 DEF Park
    <2> HIDE DEF p
    <2>5. parked[g] \cup {p} \in SUBSET Waiting
        BY <1>1, <2>3
    <2>6. \A q \in parked[g] \cup {p} :
            q \in parked[g] \/ (q.from \in states[g] /\ RowFor(q.appr, q.agent))
        BY <2>3
    <2> QED BY <1>1, <1>3, <2>4, <2>5, <2>6, ParkedInv
<1>4. CASE answer[g].status = "pending" /\ GoOn(g, "approve") /\ UNCHANGED <<states, parked>>
    BY <1>1, <1>4, GoOnInv
<1>5. CASE Raise(g) /\ UNCHANGED <<states, parked, sent>>
    BY <1>1, <1>5, EndInv
<1> QED BY <1>2, <1>3, <1>4, <1>5 DEF DelegateReply

LEMMA CollectReplyInv ==
    ASSUME IInv, NEW g \in Graph, NEW a \in Approval, CollectReply(g, a)
    PROVE  IInv'
<1> DEFINE done == {p \in parked[g] : p.appr = a}
<1>1. /\ pc[g] = "collect" /\ answer[g] # NoReply /\ Raise(g)
      /\ UNCHANGED <<service, sent, late>>
      /\ parked \in [Graph -> SUBSET Waiting]
    BY DEF CollectReply, Answered, IInv, AdapterTypeOK
<1>2. CASE /\ answer[g].status = "approved" /\ answer[g].token # None
           /\ Obtain(g) /\ parked' = [parked EXCEPT ![g] = @ \ done]
    <2>1. /\ parked' \in [Graph -> SUBSET Waiting] /\ parked'[g] \subseteq parked[g]
          /\ \A h \in Graph \ {g} : parked'[h] = parked[h]
        BY <1>1, <1>2
    <2> QED BY <1>1, <1>2, <2>1, ObtainInv
<1>3. CASE parked' = [parked EXCEPT ![g] = @ \ done] /\ UNCHANGED states
    <2>1. /\ parked' = [parked EXCEPT ![g] = parked[g] \ done]
          /\ parked[g] \ done \in SUBSET Waiting
        BY <1>1, <1>3
    <2>2. \A p \in parked[g] \ done :
            p \in parked[g] \/ (p.from \in states[g] /\ RowFor(p.appr, p.agent))
        OBVIOUS
    <2> QED BY <1>1, <1>3, <2>1, <2>2, ParkedInv
<1>4. CASE UNCHANGED <<states, parked>>
    BY <1>1, <1>4, EndInv
<1> QED BY <1>2, <1>3, <1>4 DEF CollectReply

-----------------------------------------------------------------------------
LEMMA InitInv == Init => IInv
<1> SUFFICES ASSUME Init PROVE IInv
    OBVIOUS
<1>1. AdapterTypeOK
    <2>1. NoReply \in Reply /\ NoCall \in Call /\ "idle" \in Place /\ Root \in Jti
        BY AdapterAssumption DEF NoReply, NoCall, Reply, Call, Status, Place
    <2> QED BY <2>1 DEF Init, AdapterTypeOK, Grant, Row, Status, GraphState
<1>2. ServiceOK
    BY AdapterAssumption DEF Init, ServiceOK, Minted, Decided, Asked
<1>3. ASSUME NEW g \in Graph PROVE GraphOK(g)
    <2>1. Holdings(g)
        BY AdapterAssumption DEF Init, Holdings, Whole
    <2>2. CallOK(g) /\ SentOK(g) /\ AnswerOK(g) /\ late[g] = NoRequest
        BY DEF Init, CallOK, SentOK, AnswerOK, NoReply
    <2> QED BY <2>1, <2>2 DEF GraphOK
<1> QED BY <1>1, <1>2, <1>3 DEF IInv

LEMMA StepInv == IInv /\ [Next]_vars => IInv'
<1> SUFFICES ASSUME IInv, [Next]_vars PROVE IInv'
    OBVIOUS
<1>1. CASE UNCHANGED vars
    <2>1. UNCHANGED service /\ UNCHANGED <<client, network>>
        BY <1>1 DEF vars
    <2> QED BY <2>1, NoServiceStep, ServiceAlone
<1>2. ASSUME NEW g \in Graph, Serve(g) \/ ServeError(g) \/ ServeLate(g) \/ Timeout(g)
      PROVE  IInv'
    BY <1>2, ServeInv, ServeErrorInv, ServeLateInv, TimeoutInv
<1>3. ASSUME NEW g \in Graph,
             \/ EnterNode(g) \/ VerifyReply(g) \/ LeaveBody(g)
             \/ DelegateForNode(g) \/ DelegateReply(g) \/ ApproveReply(g)
      PROVE  IInv'
    BY <1>3, EnterNodeInv, VerifyReplyInv, LeaveBodyInv, DelegateForNodeInv,
       DelegateReplyInv, ApproveReplyInv
<1>4. ASSUME NEW g \in Graph, NEW a \in Approval, Poll(g, a) \/ CollectReply(g, a)
      PROVE  IInv'
    BY <1>4, PollInv, CollectReplyInv
<1> QED BY <1>1, <1>2, <1>3, <1>4, DecideInv, RevokeInv DEF Next

LEMMA Invariance == Spec => []IInv
BY InitInv, StepInv, PTL DEF Spec

(* Every value keeps its type, for any number of graphs, tokens and        *)
(* requests.                                                               *)
THEOREM AdapterTypeCorrect == Spec => []AdapterTypeOK
<1>1. IInv => AdapterTypeOK
    BY DEF IInv
<1> QED BY <1>1, Invariance, PTL

(* A node body runs only under a token that carries its scope and whose    *)
(* lineage was not revoked when the guard asked, whatever the network does.*)
THEOREM BodyHolds == Spec => []BodyIsAuthorised
<1>1. IInv => BodyIsAuthorised
    BY DEF IInv, GraphOK, CallOK, Authorised, BodyIsAuthorised
<1> QED BY <1>1, Invariance, PTL

(* A state handed to a sub-agent says what its token was minted for, and a *)
(* sensitive scope in it was approved.                                     *)
THEOREM StateHolds == Spec => []StateIsWhole
<1>1. IInv => StateIsWhole
    BY DEF IInv, GraphOK, Holdings, Whole, StateIsWhole
<1> QED BY <1>1, Invariance, PTL
=============================================================================
