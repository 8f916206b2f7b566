------------------------------- MODULE Adapter -------------------------------
(***************************************************************************)
(* The LangGraph adapter: ADFGuard and ADFClient, the client side of the   *)
(* Checkpoint Service, over a network that loses, delays and answers late. *)
(*                                                                         *)
(* A graph is one thread of the client.  Its nodes hand a state dict on:   *)
(* the token, the agent it was delegated to and the scopes it carries.     *)
(* Every call of the client is one HTTP request, sent once, with a timeout *)
(* of 5 s: the call then raises, and the request may still be on its way   *)
(* and be served later, its answer going nowhere.                          *)
(*                                                                         *)
(* The service is its contract here, one atomic step for each request, as  *)
(* DelegationEngine has it in many; clocks are left out, so an expiry may  *)
(* come at any time.  Operators decide and revoke on the other side.       *)
(***************************************************************************)
CONSTANTS
    Graph,      \* the graphs that run, each in a thread
    Jti,        \* token ids
    Root,       \* the token of the human, in the first state of every graph
    Approval,   \* approval ids
    Agent,      \* the agents that nodes delegate to
    Human,      \* whom the root token was minted for
    Scope, Sensitive,
    Asks,       \* the sets of scopes that nodes delegate
    None        \* no token, no approval, no request

ASSUME AdapterAssumption ==
    /\ Root \in Jti
    /\ Human \notin Agent
    /\ Sensitive \subseteq Scope
    /\ Asks \subseteq SUBSET Scope
    /\ None \notin Jti \cup Approval \cup Agent \cup {Human}

VARIABLES
    grant,    \* service: what the token of each jti says
    revoked,  \* service: the revoked tokens
    gate,     \* service: the approval requests
    states,   \* the state dicts each graph has made so far
    parked,   \* what each graph knows of its parked delegations
    pc,       \* where each graph is: idle, in a node, or waiting for an answer
    call,     \* the call it is in
    sent,     \* its request, until the service takes it
    late,     \* a request it has given up on
    answer,   \* the answer to its request, until it reads it
    known     \* history: what was revoked when it made the call

service == <<grant, revoked, gate>>
client  == <<states, parked, pc, call, known>>
network == <<sent, late, answer>>
vars    == <<service, client, network>>

-----------------------------------------------------------------------------
(* The data.                                                               *)

Status == {"absent", "pending", "approved", "denied", "expired"}
Grant == [agent : Agent \cup {Human, None}, scopes : SUBSET Scope, chain : SUBSET Jti]
Row == [status : Status, parent : Jti \cup {None}, agent : Agent \cup {None},
        scopes : SUBSET Scope, child : Jti \cup {None}]
GraphState == [token : Jti, agent : Agent \cup {Human}, scopes : SUBSET Scope]

Waiting == [appr : Approval, from : GraphState, agent : Agent]
Place == {"idle", "body", "verify", "delegate", "approve", "collect"}
Call == [from : GraphState \cup {None}, agent : Agent \cup {None}, scopes : SUBSET Scope,
         inline : BOOLEAN]

Request == [op : {"verify", "delegate", "approve", "collect"}, token : Jti \cup {None},
            agent : Agent \cup {None}, scopes : SUBSET Scope, appr : Approval \cup {None}]
Reply == [status : Status \cup {"valid", "created", "refused", "error"},
          token : Jti \cup {None}, scopes : SUBSET Scope, appr : Approval \cup {None}]

NoRequest == [op |-> "none", token |-> None, agent |-> None, scopes |-> {}, appr |-> None]
NoReply == [status |-> "absent", token |-> None, scopes |-> {}, appr |-> None]
NoCall == [from |-> None, agent |-> None, scopes |-> {}, inline |-> FALSE]

(* A token carries its delegation chain; its lineage ends with itself.     *)
Minted == {j \in Jti : grant[j].agent # None}
Lineage(j) == {j} \cup grant[j].chain
Live(j) == Lineage(j) \cap revoked = {}

-----------------------------------------------------------------------------
(* The service: what it does with a request, and what it answers.          *)

Answer(status, token, scopes, appr) ==
    [status |-> status, token |-> token, scopes |-> scopes, appr |-> appr]
Refusal == Answer("refused", None, {}, None)

(* The answer goes to the graph that waits for it, if there is one.        *)
Tell(to, reply) == answer' = [g \in Graph |-> IF g \in to THEN reply ELSE answer[g]]

Mint(j, p, agent, scopes) ==
    grant' = [grant EXCEPT ![j] = [agent |-> agent, scopes |-> scopes, chain |-> Lineage(p)]]

Verified(r, to) ==
    /\ r.op = "verify"
    /\ Tell(to, IF Live(r.token) /\ r.scopes \subseteq grant[r.token].scopes
            THEN Answer("valid", r.token, grant[r.token].scopes, None)
            ELSE Refusal)
    /\ UNCHANGED service

MayDelegate(r) == Live(r.token) /\ r.scopes \subseteq grant[r.token].scopes

Delegated(r, to) ==
    /\ r.op = "delegate" /\ MayDelegate(r)
    /\ r.scopes \cap Sensitive = {}
    /\ \E j \in Jti \ Minted :
         /\ Mint(j, r.token, r.agent, r.scopes)
         /\ Tell(to, Answer("created", j, r.scopes, None))
    /\ UNCHANGED <<revoked, gate>>

DelegationParked(r, to) ==
    /\ r.op = "delegate" /\ MayDelegate(r)
    /\ r.scopes \cap Sensitive # {}
    /\ \E a \in Approval :
         /\ gate[a].status = "absent"
         /\ gate' = [gate EXCEPT ![a] = [status |-> "pending", parent |-> r.token,
                       agent |-> r.agent, scopes |-> r.scopes, child |-> None]]
         /\ Tell(to, Answer("pending", None, r.scopes, a))
    /\ UNCHANGED <<grant, revoked>>

DelegationRefused(r, to) ==
    /\ r.op = "delegate" /\ ~MayDelegate(r)
    /\ Tell(to, Refusal)
    /\ UNCHANGED service

(* A decision mints the child of a pending request, unless its parent was  *)
(* revoked.  The answer names the child, it does not hold its token.       *)
Grants(a) ==
    \E j \in Jti \ Minted :
        /\ gate[a].status = "pending" /\ gate[a].parent \notin revoked
        /\ Mint(j, gate[a].parent, gate[a].agent, gate[a].scopes)
        /\ gate' = [gate EXCEPT ![a].status = "approved", ![a].child = j]
        /\ UNCHANGED revoked

Approved(r, to) ==
    /\ r.op = "approve"
    /\ Grants(r.appr)
    /\ Tell(to, Answer("approved", None, gate[r.appr].scopes, r.appr))

ApprovalRefused(r, to) ==
    /\ r.op = "approve"
    /\ gate[r.appr].status # "pending" \/ gate[r.appr].parent \in revoked
    /\ Tell(to, Refusal)
    /\ UNCHANGED service

(* Mutant: the token is handed out once, and then forgotten. *)
KeptAfter_SingleUse(r) ==
    /\ gate' = [gate EXCEPT ![r.appr].child = None]
    /\ UNCHANGED <<grant, revoked>>
(* A poll hands out the token of an approved request, however often.       *)
KeptAfter(r) == UNCHANGED service

Collected(r, to) ==
    LET row == gate[r.appr] IN
    /\ r.op = "collect"
    /\ Tell(to, Answer(row.status, row.child, row.scopes, r.appr))
    /\ KeptAfter(r)

Handled(r, to) ==
    \/ Verified(r, to) \/ Delegated(r, to) \/ DelegationParked(r, to)
    \/ DelegationRefused(r, to) \/ Approved(r, to) \/ ApprovalRefused(r, to)
    \/ Collected(r, to)

(* Clear a call that has ended, and the request that came with it.         *)
Raise(g) ==
    /\ pc' = [pc EXCEPT ![g] = "idle"]
    /\ call' = [call EXCEPT ![g] = NoCall]
    /\ answer' = [answer EXCEPT ![g] = NoReply]
    /\ known' = [known EXCEPT ![g] = {}]

Serve(g) ==
    /\ sent[g] # NoRequest
    /\ Handled(sent[g], {g})
    /\ sent' = [sent EXCEPT ![g] = NoRequest]
    /\ UNCHANGED <<client, late>>

(* Over its rate limit, its circuit open, or broken: no handler runs.      *)
ServeError(g) ==
    /\ sent[g] # NoRequest
    /\ answer' = [answer EXCEPT ![g] = Answer("error", None, {}, None)]
    /\ sent' = [sent EXCEPT ![g] = NoRequest]
    /\ UNCHANGED <<service, client, late>>

(* A request whose caller has gone is served all the same.                 *)
ServeLate(g) ==
    /\ late[g] # NoRequest
    /\ Handled(late[g], {})
    /\ late' = [late EXCEPT ![g] = NoRequest]
    /\ UNCHANGED <<client, sent>>

(* The operator, without the agents: decide, let lapse, revoke a subtree.  *)
Decide(a) ==
    /\ \/ Grants(a)
       \/ /\ \E verdict \in {"denied", "expired"} :
                /\ gate[a].status = "pending"
                /\ gate' = [gate EXCEPT ![a].status = verdict]
          /\ UNCHANGED <<grant, revoked>>
    /\ UNCHANGED <<client, network>>

Revoke(j) ==
    /\ j \in Minted /\ Live(j)
    /\ revoked' = revoked \cup {i \in Minted : j \in Lineage(i)}
    /\ UNCHANGED <<grant, gate, client, network>>

-----------------------------------------------------------------------------
(* The client: every call sends one request, and reads one answer.         *)

Send(g, op, token, agent, scopes, appr) ==
    sent' = [sent EXCEPT ![g] = [op |-> op, token |-> token, agent |-> agent,
                                 scopes |-> scopes, appr |-> appr]]

Begin(g, at, s, agent, scopes, inline) ==
    /\ pc[g] = "idle"
    /\ pc' = [pc EXCEPT ![g] = at]
    /\ call' = [call EXCEPT ![g] =
                  [from |-> s, agent |-> agent, scopes |-> scopes, inline |-> inline]]
    /\ known' = [known EXCEPT ![g] = revoked]
    /\ UNCHANGED <<service, states, parked, late, answer>>

Answered(g, at) == pc[g] = at /\ answer[g] # NoReply

(* The wrapped node verifies its scope with the token of its state.        *)
EnterNode(g) ==
    \E s \in states[g], scope \in Scope :
        /\ Begin(g, "verify", s, None, {scope}, FALSE)
        /\ Send(g, "verify", s.token, None, {scope}, None)

(* Mutant: whatever is not a refusal lets the node run. *)
Valid_FailOpen(reply) == reply.status # "refused"
(* verify reads the body of any status code; what does not say valid is    *)
(* a denial.                                                               *)
Valid(reply) == reply.status = "valid"

VerifyReply(g) ==
    /\ Answered(g, "verify")
    /\ \/ /\ Valid(answer[g])
          /\ pc' = [pc EXCEPT ![g] = "body"]
          /\ answer' = [answer EXCEPT ![g] = NoReply]
          /\ UNCHANGED <<call, known>>
       \/ ~Valid(answer[g]) /\ Raise(g)
    /\ UNCHANGED <<service, states, parked, sent, late>>

LeaveBody(g) ==
    /\ pc[g] = "body"
    /\ Raise(g)
    /\ UNCHANGED <<service, states, parked, sent, late>>

(* delegate_for_node, and delegate_with_approval where inline.             *)
DelegateForNode(g) ==
    \E s \in states[g], agent \in Agent, scopes \in Asks, inline \in BOOLEAN :
        /\ Begin(g, "delegate", s, agent, scopes, inline)
        /\ Send(g, "delegate", s.token, agent, scopes, None)

(* Mutant: the new state keeps the agent of the old one. *)
NewState_SameAgent(c, reply) ==
    [c.from EXCEPT !.token = reply.token, !.scopes = reply.scopes]
(* The state handed to the sub-agent: a new dict, its parent's overlaid.   *)
NewState(c, reply) ==
    [c.from EXCEPT !.token = reply.token, !.agent = c.agent, !.scopes = reply.scopes]

Obtain(g) ==
    states' = [states EXCEPT ![g] = @ \cup {NewState(call[g], answer[g])}]

(* The next request of a call that goes on.                                *)
GoOn(g, op) ==
    /\ pc' = [pc EXCEPT ![g] = op]
    /\ Send(g, op, None, None, {}, answer[g].appr)
    /\ answer' = [answer EXCEPT ![g] = NoReply]
    /\ UNCHANGED <<call, known>>

(* A delegation that waits for a human, as the exception tells the author. *)
Park(g) ==
    parked' = [parked EXCEPT ![g] = @ \cup {[appr |-> answer[g].appr,
                                  from |-> call[g].from, agent |-> call[g].agent]}]

DelegateReply(g) ==
    /\ Answered(g, "delegate")
    /\ \/ /\ answer[g].status = "created"
          /\ Obtain(g) /\ Raise(g)
          /\ UNCHANGED <<parked, sent>>
       \/ /\ answer[g].status = "pending" /\ ~call[g].inline
          /\ Park(g) /\ Raise(g)
          /\ UNCHANGED <<states, sent>>
       \/ /\ answer[g].status = "pending" /\ call[g].inline
          /\ GoOn(g, "approve")
          /\ UNCHANGED <<states, parked>>
       \/ /\ answer[g].status \in {"refused", "error"}
          /\ Raise(g)
          /\ UNCHANGED <<states, parked, sent>>
    /\ UNCHANGED <<service, late>>

ApproveReply(g) ==
    /\ Answered(g, "approve")
    /\ \/ answer[g].status = "approved" /\ GoOn(g, "collect")
       \/ answer[g].status # "approved" /\ Raise(g) /\ UNCHANGED sent
    /\ UNCHANGED <<service, states, parked, late>>

(* The author polls for a parked delegation.                               *)
Poll(g, a) ==
    \E p \in parked[g] :
        /\ p.appr = a
        /\ Begin(g, "collect", p.from, p.agent, {}, FALSE)
        /\ Send(g, "collect", None, None, {}, a)

(* Without a token, inline raises, and the author polls again; a denial    *)
(* or an expiry raises, and there is nothing left to poll for.             *)
CollectReply(g, a) ==
    LET done == {p \in parked[g] : p.appr = a} IN
    /\ Answered(g, "collect") /\ answer[g].appr \in {a, None}
    /\ \/ /\ answer[g].status = "approved" /\ answer[g].token # None
          /\ Obtain(g)
          /\ parked' = [parked EXCEPT ![g] = @ \ done]
       \/ /\ answer[g].status \in {"denied", "expired"}
          /\ parked' = [parked EXCEPT ![g] = @ \ done]
          /\ UNCHANGED states
       \/ /\ \/ answer[g].status \in {"pending", "error"}
             \/ answer[g].status = "approved" /\ answer[g].token = None
          /\ UNCHANGED <<states, parked>>
    /\ Raise(g)
    /\ UNCHANGED <<service, sent, late>>

(* After 5 s the call raises.  Its request, or the answer, is lost; or the *)
(* request is late.  One late request a graph is kept, of those that       *)
(* change anything: a late verify or collect is as good as lost.           *)
Timeout(g) ==
    /\ pc[g] \in {"verify", "delegate", "approve", "collect"}
    /\ Raise(g)
    /\ \/ /\ sent[g].op \in {"delegate", "approve"}
          /\ late' = [late EXCEPT ![g] = sent[g]]
       \/ UNCHANGED late
    /\ sent' = [sent EXCEPT ![g] = NoRequest]
    /\ UNCHANGED <<service, states, parked>>

-----------------------------------------------------------------------------
Init ==
    LET root == [agent |-> Human, scopes |-> Scope, chain |-> {}]
        free == [agent |-> None, scopes |-> {}, chain |-> {}]
    IN
    /\ grant = [j \in Jti |-> IF j = Root THEN root ELSE free]
    /\ revoked = {}
    /\ gate = [a \in Approval |-> [status |-> "absent", parent |-> None, agent |-> None,
                                   scopes |-> {}, child |-> None]]
    /\ states = [g \in Graph |-> {[token |-> Root, agent |-> Human, scopes |-> Scope]}]
    /\ parked = [g \in Graph |-> {}]
    /\ pc = [g \in Graph |-> "idle"]
    /\ call = [g \in Graph |-> NoCall]
    /\ sent = [g \in Graph |-> NoRequest]
    /\ late = [g \in Graph |-> NoRequest]
    /\ answer = [g \in Graph |-> NoReply]
    /\ known = [g \in Graph |-> {}]

Next ==
    \/ \E g \in Graph :
         \/ Serve(g) \/ ServeError(g) \/ ServeLate(g) \/ Timeout(g)
         \/ EnterNode(g) \/ VerifyReply(g) \/ LeaveBody(g)
         \/ DelegateForNode(g) \/ DelegateReply(g) \/ ApproveReply(g)
         \/ \E a \in Approval : Poll(g, a) \/ CollectReply(g, a)
    \/ \E a \in Approval : Decide(a)
    \/ \E j \in Jti : Revoke(j)

Spec == Init /\ [][Next]_vars

(* A node body ends and a call times out.  The author of the graph goes on *)
(* polling, and of the polls sent without end some are answered in time.   *)
PollIs(g, a) == sent[g].op = "collect" /\ sent[g].appr = a
Fairness ==
    \A g \in Graph :
        /\ WF_vars(LeaveBody(g)) /\ WF_vars(Timeout(g))
        /\ \A a \in Approval :
             /\ SF_vars(Poll(g, a))
             /\ SF_vars(PollIs(g, a) /\ Serve(g))
             /\ SF_vars(answer[g].appr = a /\ CollectReply(g, a))
FairSpec == Spec /\ Fairness

-----------------------------------------------------------------------------
AdapterTypeOK ==
    /\ grant \in [Jti -> Grant]
    /\ revoked \subseteq Jti
    /\ gate \in [Approval -> Row]
    /\ states \in [Graph -> SUBSET GraphState]
    /\ parked \in [Graph -> SUBSET Waiting]
    /\ pc \in [Graph -> Place]
    /\ call \in [Graph -> Call]
    /\ sent \in [Graph -> Request \cup {NoRequest}]
    /\ late \in [Graph -> Request \cup {NoRequest}]
    /\ answer \in [Graph -> Reply]
    /\ known \in [Graph -> SUBSET Jti]

(* A node body runs only under a token that carries the scope it declares  *)
(* and that was not revoked, nor an ancestor of it, when the guard asked:  *)
(* an error, a rate limit or a lost answer of the service never lets it    *)
(* run (guard.py:55-66, adf_client.py:104-121).                            *)
BodyIsAuthorised ==
    \A g \in Graph : pc[g] = "body" =>
        /\ call[g].scopes \subseteq grant[call[g].from.token].scopes
        /\ Lineage(call[g].from.token) \cap known[g] = {}

(* A state handed to a sub-agent is whole: its agent and its scopes are    *)
(* those its token was minted for, and a sensitive scope in it passed the  *)
(* gate, whichever path of the guard made it and whatever answers were     *)
(* lost on the way (guard.py:94-148).                                      *)
StateIsWhole ==
    \A g \in Graph : \A s \in states[g] :
        /\ s.agent = grant[s.token].agent
        /\ s.scopes = grant[s.token].scopes
        /\ s.token # Root /\ s.scopes \cap Sensitive # {} =>
             \E a \in Approval : gate[a].status = "approved" /\ gate[a].child = s.token

(* A grant is never stranded: the graph that parked a delegation obtains   *)
(* its token once a human has approved it, however many answers to its     *)
(* polls are lost (routes/tokens.py:301-305).                              *)
GrantIsObtainable ==
    \A g \in Graph, a \in Approval :
        (/\ \E p \in parked[g] : p.appr = a
         /\ gate[a].status = "approved")
        ~> (\E s \in states[g] : s.token = gate[a].child)
=============================================================================
