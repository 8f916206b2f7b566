------------------------------ MODULE RiskProofs ------------------------------
(* A theorem about Risk, for every number of threads, tokens, actions and  *)
(* approvals, every classification and all weights: the vector never       *)
(* flatters.  Its exposure is a sum over a set, so the first part is about *)
(* such sums.                                                              *)
EXTENDS Risk, FirewallProofs, FiniteSetTheorems, WellFoundedInduction

-----------------------------------------------------------------------------
(* Induction over the subsets of a finite set, which needs no theorem with *)
(* an operator for a parameter: a set of numbers has a least one.          *)

Less == {p \in Nat \X Nat : p[1] < p[2]}

LEMMA LessIsWellFounded == IsWellFoundedOn(Less, Nat)
BY NatLessThanWellFounded DEF OpToRel, Less

LEMMA Least ==
    ASSUME NEW T \in SUBSET Nat, T # {}
    PROVE  \E m \in T : \A n \in T : m <= n
<1>1. PICK m \in T : \A n \in T : <<n, m>> \notin Less
    BY LessIsWellFounded, WFMin
<1>2. \A n \in T : ~(n < m)
    BY <1>1 DEF Less
<1> QED BY <1>2

(* A property of sets holds of all subsets of a finite S if it holds of    *)
(* each whose own smaller subsets have it.                                 *)
LEMMA SubsetInduction ==
    ASSUME NEW S, IsFiniteSet(S), NEW Good \in SUBSET (SUBSET S),
           \A s \in SUBSET S : (\A x \in s : s \ {x} \in Good) => s \in Good
    PROVE  Good = SUBSET S
<1> DEFINE Bad   == (SUBSET S) \ Good
           Sizes == {Cardinality(s) : s \in Bad}
<1>1. \A s \in SUBSET S : IsFiniteSet(s) /\ Cardinality(s) \in Nat
    BY FS_Subset, FS_CardinalityType
<1>2. ASSUME Bad # {} PROVE FALSE
    <2>1. Sizes # {} /\ Sizes \in SUBSET Nat
        BY <1>1, <1>2
    <2>2. PICK m \in Sizes : \A n \in Sizes : m <= n
        BY <2>1, Least
    <2>3. PICK s \in Bad : Cardinality(s) = m
        BY <2>2
    <2>4. ASSUME NEW x \in s PROVE s \ {x} \in Good
        <3>1. Cardinality(s \ {x}) = Cardinality(s) - 1
            BY <1>1, <2>3, FS_RemoveElement
        <3>2. s \ {x} \notin Bad
            BY <1>1, <2>2, <2>3, <3>1
        <3> QED BY <2>3, <3>2
    <2> QED BY <2>3, <2>4
<1> QED BY <1>2

-----------------------------------------------------------------------------
(* The sum of the weights of a set of classes.                             *)

Class  == DOMAIN ClassWeight
Pick(s) == CHOOSE x \in s : TRUE

(* f adds up the weights of every subset of S, in the order of Pick.       *)
Adds(f, S) ==
    f = [s \in SUBSET S |-> IF s = {} THEN 0 ELSE ClassWeight[Pick(s)] + f[s \ {Pick(s)}]]

(* The same, of the subsets in T only.                                     *)
AddsOn(f, T) ==
    /\ f = [s \in T |-> f[s]]
    /\ \A s \in T : f[s] = IF s = {} THEN 0 ELSE ClassWeight[Pick(s)] + f[s \ {Pick(s)}]

Weight(S) == MapThenSumSet(LAMBDA class : ClassWeight[class], S)
Total(S)  == CHOOSE f : Adds(f, S)

LEMMA WeightIs == \A S : Weight(S) = Total(S)[S]
BY DEF Weight, Total, Adds, Pick, MapThenSumSet, MapThenFoldSet

LEMMA PickIn == \A s : s # {} => Pick(s) \in s
BY DEF Pick

LEMMA Agree ==
    ASSUME NEW S, IsFiniteSet(S), NEW T, NEW f, NEW g,
           AddsOn(f, SUBSET S), AddsOn(g, SUBSET T), S \subseteq T
    PROVE  \A s \in SUBSET S : f[s] = g[s]
<1> DEFINE Good == {s \in SUBSET S : f[s] = g[s]}
<1>1. ASSUME NEW s \in SUBSET S, \A x \in s : s \ {x} \in Good PROVE s \in Good
    <2>1. CASE s = {}
        BY <2>1 DEF AddsOn
    <2>2. CASE s # {}
        <3>1. s \ {Pick(s)} \in Good
            BY <1>1, <2>2, PickIn
        <3> QED BY <2>2, <3>1 DEF AddsOn
    <2> QED BY <2>1, <2>2
<1>2. Good = SUBSET S
    <2> HIDE DEF Good
    <2>1. Good \in SUBSET (SUBSET S)
        BY DEF Good
    <2> QED BY <1>1, <2>1, SubsetInduction
<1> QED BY <1>2

LEMMA AddsExists ==
    ASSUME NEW S, IsFiniteSet(S)
    PROVE  \E f : AddsOn(f, SUBSET S)
<1> DEFINE Good     == {s \in SUBSET S : \E f : AddsOn(f, SUBSET s)}
           Sum(s)   == CHOOSE f : AddsOn(f, SUBSET s)
           Value(s) == Sum(s)[s]
<1>1. ASSUME NEW s \in SUBSET S, \A x \in s : s \ {x} \in Good PROVE s \in Good
    <2> DEFINE f == [t \in SUBSET s |->
                       IF t = {} THEN 0 ELSE ClassWeight[Pick(t)] + Value(t \ {Pick(t)})]
    <2>1. ASSUME NEW u \in SUBSET s, u # s PROVE AddsOn(Sum(u), SUBSET u)
        <3>1. PICK x \in s : x \notin u
            BY <2>1
        <3>2. PICK g : AddsOn(g, SUBSET (s \ {x}))
            BY <1>1
        <3> DEFINE h == [t \in SUBSET u |-> g[t]]
        <3>3. \A t \in SUBSET u : t \in SUBSET (s \ {x}) /\ t \ {Pick(t)} \in SUBSET u
            BY <2>1, <3>1
        <3>4. AddsOn(h, SUBSET u)
            BY <3>2, <3>3 DEF AddsOn
        <3> QED BY <3>4
    <2>2. ASSUME NEW u \in SUBSET s, u # s PROVE f[u] = Value(u)
        <3>1. AddsOn(Sum(u), SUBSET u)
            BY <2>1, <2>2
        <3>2. CASE u = {}
            BY <3>1, <3>2 DEF AddsOn
        <3>3. CASE u # {}
            <4> DEFINE v == u \ {Pick(u)}
            <4>1. v \in SUBSET s /\ v # s /\ v \subseteq u /\ IsFiniteSet(v)
                BY <2>2, <3>3, PickIn, FS_Subset
            <4>2. AddsOn(Sum(v), SUBSET v)
                BY <2>1, <4>1
            <4>3. Sum(v)[v] = Sum(u)[v]
                <5> HIDE DEF Sum, v
                <5> QED BY <3>1, <4>1, <4>2, Agree
            <4>4. Sum(u)[u] = ClassWeight[Pick(u)] + Sum(u)[v]
                <5> HIDE DEF Sum
                <5> QED BY <3>1, <3>3 DEF AddsOn
            <4>5. f[u] = ClassWeight[Pick(u)] + Value(v)
                <5> HIDE DEF Value
                <5> QED BY <3>3
            <4> QED BY <4>3, <4>4, <4>5
        <3> QED BY <3>2, <3>3
    <2>3. ASSUME NEW t \in SUBSET s, t # {}
          PROVE  f[t] = ClassWeight[Pick(t)] + f[t \ {Pick(t)}]
        <3>1. t \ {Pick(t)} \in SUBSET s /\ t \ {Pick(t)} # s
            BY <2>3, PickIn
        <3>2. f[t \ {Pick(t)}] = Value(t \ {Pick(t)})
            <4> HIDE DEF f, Value
            <4> QED BY <2>2, <3>1
        <3> HIDE DEF Value
        <3> QED BY <2>3, <3>2
    <2>4. AddsOn(f, SUBSET s)
        <3>1. f = [t \in SUBSET s |-> f[t]] /\ f[{}] = 0
            OBVIOUS
        <3> HIDE DEF f
        <3> QED BY <2>3, <3>1 DEF AddsOn
    <2> QED BY <2>4
<1>2. Good = SUBSET S
    <2>1. Good \in SUBSET (SUBSET S)
        OBVIOUS
    <2> HIDE DEF Good
    <2> QED BY <1>1, <2>1, SubsetInduction
<1> QED BY <1>2

LEMMA TotalAdds ==
    ASSUME NEW S, IsFiniteSet(S)
    PROVE  AddsOn(Total(S), SUBSET S)
<1>1. PICK f : AddsOn(f, SUBSET S)
    BY AddsExists
<1>2. f = [s \in SUBSET S |-> f[s]] /\ \A s \in SUBSET S :
        f[s] = IF s = {} THEN 0 ELSE ClassWeight[Pick(s)] + f[s \ {Pick(s)}]
    BY <1>1 DEF AddsOn
<1>3. Adds(f, S)
    BY <1>2 DEF Adds
<1>4. Adds(Total(S), S)
    BY <1>3 DEF Total
<1> HIDE DEF Total
<1> QED BY <1>4 DEF Adds, AddsOn

LEMMA SumType ==
    ASSUME NEW S \in SUBSET Class, IsFiniteSet(S), NEW f, AddsOn(f, SUBSET S)
    PROVE  \A s \in SUBSET S : f[s] \in Nat
<1> DEFINE Good == {s \in SUBSET S : f[s] \in Nat}
<1>1. ASSUME NEW s \in SUBSET S, \A x \in s : s \ {x} \in Good PROVE s \in Good
    <2>1. CASE s = {}
        <3>1. f[s] = 0
            BY <2>1 DEF AddsOn
        <3> QED BY <3>1
    <2>2. CASE s # {}
        <3>1. Pick(s) \in s /\ ClassWeight[Pick(s)] \in Nat
            BY <2>2, PickIn, RiskAssumption DEF Class
        <3>2. f[s \ {Pick(s)}] \in Nat
            BY <1>1, <3>1
        <3>3. f[s] = ClassWeight[Pick(s)] + f[s \ {Pick(s)}]
            BY <2>2 DEF AddsOn
        <3> QED BY <3>1, <3>2, <3>3
    <2> QED BY <2>1, <2>2
<1>2. Good = SUBSET S
    <2>1. Good \in SUBSET (SUBSET S)
        OBVIOUS
    <2> HIDE DEF Good
    <2> QED BY <1>1, <2>1, SubsetInduction
<1> QED BY <1>2

(* The order does not matter.                                              *)
LEMMA SumRemove ==
    ASSUME NEW S \in SUBSET Class, IsFiniteSet(S), NEW f, AddsOn(f, SUBSET S)
    PROVE  \A s \in SUBSET S : \A x \in s : f[s] = ClassWeight[x] + f[s \ {x}]
<1> DEFINE Good == {s \in SUBSET S : \A x \in s : f[s] = ClassWeight[x] + f[s \ {x}]}
<1>1. ASSUME NEW s \in SUBSET S, \A x \in s : s \ {x} \in Good PROVE s \in Good
    <2> SUFFICES ASSUME NEW x \in s PROVE f[s] = ClassWeight[x] + f[s \ {x}]
        OBVIOUS
    <2> DEFINE p == Pick(s)
    <2>1. p \in s /\ f[s] = ClassWeight[p] + f[s \ {p}]
        BY PickIn DEF AddsOn
    <2>2. CASE x = p
        BY <2>1, <2>2
    <2>3. CASE x # p
        <3>1. f[s \ {p}] = ClassWeight[x] + f[(s \ {p}) \ {x}]
            <4> HIDE DEF p
            <4> QED BY <1>1, <2>1, <2>3
        <3>2. f[s \ {x}] = ClassWeight[p] + f[(s \ {x}) \ {p}]
            <4> HIDE DEF p
            <4> QED BY <1>1, <2>1, <2>3
        <3>3. (s \ {p}) \ {x} = (s \ {x}) \ {p}
            OBVIOUS
        <3>4. /\ ClassWeight[x] \in Nat /\ ClassWeight[p] \in Nat
              /\ f[(s \ {p}) \ {x}] \in Nat
            BY <2>1, SumType, RiskAssumption DEF Class
        <3>5. f[s \ {x}] = ClassWeight[p] + f[(s \ {p}) \ {x}]
            BY <3>2, <3>3
        <3>6. \A a, b, c \in Nat : a + (b + c) = b + (a + c)
            OBVIOUS
        <3> HIDE DEF p
        <3> QED BY <2>1, <3>1, <3>4, <3>5, <3>6
    <2> QED BY <2>2, <2>3
<1>2. Good = SUBSET S
    <2>1. Good \in SUBSET (SUBSET S)
        OBVIOUS
    <2> HIDE DEF Good
    <2> QED BY <1>1, <2>1, SubsetInduction
<1> QED BY <1>2

(* A set of classes weighs at least as much as each of its subsets.        *)
LEMMA SumGrows ==
    ASSUME NEW S \in SUBSET Class, IsFiniteSet(S), NEW f, AddsOn(f, SUBSET S)
    PROVE  \A s \in SUBSET S : f[s] <= f[S]
<1> DEFINE Good == {gone \in SUBSET S : f[S \ gone] <= f[S]}
<1>1. ASSUME NEW gone \in SUBSET S, \A x \in gone : gone \ {x} \in Good PROVE gone \in Good
    <2>1. CASE gone = {}
        <3>1. S \ gone = S /\ f[S] \in Nat
            BY <2>1, SumType
        <3> QED BY <3>1
    <2>2. CASE gone # {}
        <3>1. PICK x \in gone : TRUE
            BY <2>2
        <3> DEFINE left == S \ (gone \ {x})
        <3>2. left \ {x} = S \ gone /\ x \in left /\ left \in SUBSET S
            BY <3>1
        <3>3. f[left] <= f[S]
            BY <1>1, <3>1
        <3>4. f[left] = ClassWeight[x] + f[S \ gone]
            <4> HIDE DEF left
            <4> QED BY <3>2, SumRemove
        <3>5. /\ ClassWeight[x] \in Nat /\ f[S \ gone] \in Nat /\ f[left] \in Nat
              /\ f[S] \in Nat
            BY <3>1, SumType, RiskAssumption DEF Class
        <3>6. f[S \ gone] <= f[S]
            <4> HIDE DEF left
            <4> QED BY <3>3, <3>4, <3>5
        <3> QED BY <3>6
    <2> QED BY <2>1, <2>2
<1>2. Good = SUBSET S
    <2>1. Good \in SUBSET (SUBSET S)
        OBVIOUS
    <2> HIDE DEF Good
    <2> QED BY <1>1, <2>1, SubsetInduction
<1>3. ASSUME NEW s \in SUBSET S PROVE f[s] <= f[S]
    <2>1. S \ (S \ s) = s /\ S \ s \in SUBSET S
        OBVIOUS
    <2> QED BY <1>2, <2>1
<1> QED BY <1>3

LEMMA WeightGrows ==
    ASSUME NEW S \in SUBSET Class, NEW T \in SUBSET S
    PROVE  Weight(T) <= Weight(S)
<1>1. IsFiniteSet(S) /\ IsFiniteSet(T)
    BY RiskAssumption, FS_Subset DEF Class
<1>2. PICK f : f = Total(S)
    OBVIOUS
<1>3. PICK g : g = Total(T)
    OBVIOUS
<1>4. AddsOn(f, SUBSET S) /\ AddsOn(g, SUBSET T)
    BY <1>1, <1>2, <1>3, TotalAdds
<1>5. g[T] = f[T]
    <2>1. T \subseteq S /\ T \in SUBSET T
        OBVIOUS
    <2> QED BY <1>1, <1>4, <2>1, Agree, SMTT(20)
<1>6. f[T] <= f[S]
    BY <1>1, <1>4, SumGrows
<1> QED BY <1>2, <1>3, <1>5, <1>6, WeightIs

(* More scopes, more exposure.                                             *)
LEMMA ExposureGrows ==
    ASSUME NEW many \in SUBSET Scope, NEW few \in SUBSET many
    PROVE  Exposure(few) <= Exposure(many)
<1>1. PermissionClasses(many) \in SUBSET Class
    BY RiskAssumption DEF PermissionClasses, PermissionClass, Class
<1>2. PermissionClasses(few) \subseteq PermissionClasses(many)
    BY DEF PermissionClasses
<1>3. \A s : Exposure(s) = Weight(PermissionClasses(s))
    BY DEF Exposure, Weight
<1> QED BY <1>1, <1>2, <1>3, WeightGrows

-----------------------------------------------------------------------------
(* Every token that no approval minted has its audit row before anybody    *)
(* holds it: the call that hands it out writes the row in the same step.   *)

MintedRow(j) == {<<"root_minted", j>>, <<"delegated", j>>}

Giving(t) ==
    \A j \in loc[t].give :
        /\ pc[t] = "log" /\ loc[t].then = "idle"
        /\ claims[j].via = None => loc[t].row \in MintedRow(j)

MintsInv ==
    /\ \A t \in Thread : Giving(t)
    /\ \A j \in held : claims[j].via = None => MintedRow(j) \cap audit # {}

LEMMA EndGives ==
    ASSUME IInv, NEW t \in Thread, End(t)
    PROVE  loc'[t].give = {}
BY EndSays DEF IInv, NoLocal

(* Only these steps put a token into the hand of a call.                   *)
LEMMA GiveCases ==
    ASSUME IInv, NEW t \in Thread, Step(t), Giving(t)
    PROVE  \/ MintRoot(t) \/ AddEdge(t) \/ Decides(t) \/ loc'[t].give = {}
<1>0. FwTypeOK
    BY DEF IInv
<1>1. CASE pc[t] # "log"
    <2>1. loc[t].give = {}
        BY <1>1 DEF Giving
    <2>2. CASE Begins(t) \/ Ends(t) \/ Lapse(t) \/ CollectHand(t)
        BY <1>0, <2>2, BeginsSay, EndsSay, LapseSays, HandSays, EndGives
    <2>3. CASE (IsRevoked(t) /\ ~End(t)) \/ Moves(t)
        BY <2>1, <2>3, LookupSays, MovesSay
    <2>4. CASE DelegateMint(t) \/ ApproveMint(t)
        BY <2>1, <2>4, ChildMinted DEF ChildMint
    <2>5. CASE DelegatePark(t)
        BY <2>5, ParkSays
    <2>6. CASE PutAction(t) \/ EnterBlock(t) \/ LeaveBlock(t) \/ CloseAction(t)
        BY <2>1, <2>6, PutActionSays, BlockSays, CloseActionSays
    <2>7. CASE RevokeWalk(t) \/ RevokeGather(t) \/ RevokeAlready(t)
        BY <2>1, <2>7, RevokeWalkSays, RevokeGatherSays, RevokeAlreadySays
    <2>8. CASE RevokeInsert(t)
        BY <2>1, <2>8, RevokeInsertSays, EndGives
    <2>9. CASE RevokeReviewed(t) \/ PutReview(t)
        BY <2>1, <2>9, RevokeReviewedSays, PutReviewSays
    <2>10. CASE RevokeReport(t) \/ UpdateReview(t)
        BY <2>10, ReportsSay
    <2>11. CASE Log(t)
        BY <1>1, <2>11 DEF Log
    <2> QED BY <2>2, <2>3, <2>4, <2>5, <2>6, <2>7, <2>8, <2>9, <2>10,
            <2>11, StepCases
<1>2. CASE pc[t] = "log"
    <2>1. CASE Log(t)
        <3>1. CASE loc[t].then = "idle"
            BY <2>1, <3>1, LogSays, EndGives
        <3>2. CASE loc[t].then # "idle"
            <4>1. loc[t].give = {}
                BY <3>2 DEF Giving
            <4> QED BY <2>1, <3>2, <4>1, LogSays
        <3> QED BY <3>1, <3>2
    <2>2. CASE Abort(t)
        BY <2>2, EndGives DEF Abort
    <2>3. CASE Begins(t)
        BY <1>0, <2>3, BeginsSay
    <2>4. CASE ~Log(t) /\ ~Abort(t) /\ ~Begins(t)
        BY <1>2, <2>4 DEF Step, Tokens, MintRoot, Delegate, Verify, IsRevoked,
           ScopeGranted, ScopeNotGranted, Allowed, DelegateChecked, DelegateMint, DelegatePark,
           InFlight, PutAction, EnterBlock, LeaveBlock, CloseAction, Revocation,
           RevokeWalk, RevokeGather, RevokeAlready, RevokeInsert, RevokeReviewed, PutReview,
           RevokeQueued, RevokeReport, UpdateReview, Gate, Begins,
           Lapse, ApproveParent, ApproveDeadline, ApproveMint,
           CollectHand, Decides
    <2> QED BY <2>1, <2>2, <2>3, <2>4
<1> QED BY <1>1, <1>2

LEMMA RootGiving ==
    ASSUME IInv, NEW t \in Thread, MintRoot(t)
    PROVE  Giving(t)'
<1>1. PICK j \in FreshJti :
         /\ pc'[t] = "log" /\ loc'[t].row = <<"root_minted", j>> /\ loc'[t].give = {j}
         /\ loc'[t].then = "idle"
    BY MintRootSays DEF IInv
<1> QED BY <1>1 DEF Giving, MintedRow

LEMMA EdgeGiving ==
    ASSUME IInv, NEW t \in Thread, AddEdge(t), Giving(t)
    PROVE  Giving(t)'
<1>0. CallOK(t) /\ loc[t] \in Local /\ DOMAIN loc = Thread
    BY DEF IInv, CallsOK, FwTypeOK
<1>1. pc[t] = "edge"
    BY DEF AddEdge
<1>2. CASE req[t].op = "delegate"
    <2>1. /\ pc'[t] = "log" /\ loc'[t].give = {loc[t].child} /\ loc'[t].then = "idle"
        BY <1>2, AddEdgeSays
    <2>2. loc'[t].row = <<"delegated", loc[t].child>>
        BY <1>0, <1>2 DEF AddEdge, Logging, Local
    <2> QED BY <2>1, <2>2 DEF Giving, MintedRow
<1>3. CASE req[t].op # "delegate"
    <2>1. loc'[t].give = {}
        BY <1>1, <1>3, AddEdgeSays DEF Giving
    <2> QED BY <2>1 DEF Giving
<1> QED BY <1>2, <1>3

LEMMA DecideGiving ==
    ASSUME IInv, NEW t \in Thread, Decides(t), Giving(t)
    PROVE  Giving(t)'
<1>0. CallOK(t)
    BY DEF IInv, CallsOK
<1>1. /\ pc'[t] = "log" /\ claims' = claims
      /\ \/ pc[t] = "sweep" /\ loc'[t].give = loc[t].give
         \/ loc'[t].give = {}
         \/ /\ pc[t] = "grant" /\ loc'[t].give = {loc[t].child} /\ loc'[t].then = "idle"
            /\ req[t].op \in {"approve", "deny"}
    BY DecideSays DEF Decides
<1>2. CASE loc'[t].give = {}
    BY <1>2 DEF Giving
<1>4. CASE pc[t] = "sweep" /\ loc'[t].give = loc[t].give
    BY <1>4 DEF Giving
<1>3. CASE /\ pc[t] = "grant" /\ loc'[t].give = {loc[t].child} /\ loc'[t].then = "idle"
           /\ req[t].op \in {"approve", "deny"}
    <2>1. claims[loc[t].child].via \in Approval
        BY <1>0, <1>3 DEF CallOK, AtStage
    <2>2. None \notin Approval
        BY FirewallAssumption
    <2> QED BY <1>1, <1>3, <2>1, <2>2 DEF Giving
<1> QED BY <1>1, <1>2, <1>3, <1>4

(* Only these steps hand a token to a caller.                              *)
LEMMA OnlyTheseHand ==
    ASSUME NEW t \in Thread, Step(t), ~Log(t), ~CollectHand(t)
    PROVE  held' = held
<1>1. CASE Tokens(t)
    BY <1>1 DEF Tokens, MintRoot, Delegate, Verify, Present, IsRevoked, ScopeGranted,
       ScopeNotGranted, Allowed, DelegateChecked, DelegateMint, DelegatePark, AddEdge
<1>2. CASE InFlight(t)
    BY <1>2 DEF InFlight, PutAction, EnterBlock, LeaveBlock, CloseAction
<1>3. CASE Revocation(t)
    BY <1>3 DEF Revocation, Revoke, RevokeWalk, RevokeGather, RevokeAlready, RevokeInsert,
       RevokeReviewed, PutReview, RevokeQueued, RevokeReport, ResolveReview, UpdateReview
<1>4. CASE Gate(t)
    BY <1>4 DEF Gate, Approve, Deny, LoadApproval, Lapse, ApproveParent, ApproveDeadline,
       ApproveReject, ApproveMint, ApproveGrant, DenyRefuse, Collect, PendingApprovals,
       ExpireStale
<1> QED BY <1>1, <1>2, <1>3, <1>4 DEF Step, Abort

LEMMA MintsNext ==
    ASSUME IInv, MintsInv, [Next]_vars
    PROVE  MintsInv'
<1>0. Grown /\ FwTypeOK /\ held \subseteq tokens
    BY StepGrows DEF IInv, TokensOK
<1>1. \A t \in Thread : CallOK(t) /\ loc[t].give \subseteq tokens
    BY DEF IInv, CallsOK, CallOK
<1>2. ASSUME NEW u \in Thread, SameThread(u) PROVE Giving(u)'
    <2>1. /\ pc'[u] = pc[u] /\ loc'[u] = loc[u] /\ \A j \in loc[u].give : claims'[j] = claims[j]
        BY <1>0, <1>1, <1>2 DEF SameThread, Grown
    <2> QED BY <2>1 DEF MintsInv, Giving, MintedRow
<1>3. ASSUME NEW j \in held, claims'[j].via = None PROVE MintedRow(j) \cap audit' # {}
    BY <1>0, <1>3 DEF MintsInv, Grown
<1>4. ASSUME NEW t \in Thread, Step(t) PROVE MintsInv'
    <2>1. Giving(t)
        BY DEF MintsInv
    <2>2. Giving(t)'
        <3>1. CASE MintRoot(t) \/ AddEdge(t) \/ Decides(t)
            BY <2>1, <3>1, RootGiving, EdgeGiving, DecideGiving
        <3>2. CASE loc'[t].give = {}
            BY <3>2 DEF Giving
        <3> QED BY <1>4, <2>1, <3>1, <3>2, GiveCases
    <2>3. \A u \in Thread : Giving(u)'
        BY <1>0, <1>2, <1>4, <2>2, OthersStay
    <2>4. ASSUME NEW j \in held', claims'[j].via = None PROVE MintedRow(j) \cap audit' # {}
        <3>1. CASE j \in held
            BY <1>3, <2>4, <3>1
        <3>2. CASE j \notin held /\ Log(t)
            <4>1. j \in loc[t].give /\ audit' = audit \cup {loc[t].row}
                BY <2>4, <3>2 DEF Log
            <4>2. claims'[j] = claims[j]
                BY <1>0, <1>1, <4>1 DEF Grown
            <4>3. loc[t].row \in MintedRow(j)
                BY <2>1, <2>4, <4>1, <4>2 DEF Giving
            <4> QED BY <4>1, <4>3
        <3>3. CASE j \notin held /\ CollectHand(t)
            <4>1. /\ j = loc[t].child /\ claims' = claims /\ pc[t] = "hand"
                  /\ req[t].appr \in Approval
                BY <2>4, <3>3, HandSays
            <4>2. claims[j].via = req[t].appr
                BY <1>1, <4>1 DEF CallOK
            <4> QED BY <2>4, <4>1, <4>2, FirewallAssumption
        <3>4. CASE ~CollectHand(t) /\ ~Log(t)
            <4>1. held' = held
                BY <1>4, <3>4, OnlyTheseHand
            <4> QED BY <1>3, <2>4, <4>1
        <3> QED BY <3>1, <3>2, <3>3, <3>4
    <2> QED BY <2>3, <2>4 DEF MintsInv
<1>5. CASE UNCHANGED threads /\ UNCHANGED held
    <2>1. \A u \in Thread : Giving(u)'
        BY <1>2, <1>5 DEF threads, SameThread
    <2> QED BY <1>3, <1>5, <2>1 DEF MintsInv
<1>6. CASE Crash
    <2>1. \A u \in Thread : loc'[u].give = {}
        BY <1>6 DEF Crash, NoLocal
    <2> QED BY <1>3, <1>6, <2>1 DEF MintsInv, Giving, Crash
<1> QED BY <1>4, <1>5, <1>6 DEF Next, Step, Tick, Refused, vars, threads

-----------------------------------------------------------------------------
(* The code of an action runs with the audit row of its start on record.   *)

StartedInv == \A a \in Action : block[a] # "not run" => <<"action_started", a>> \in audit

LEMMA StartedNext ==
    ASSUME IInv, RecordInv, StartedInv, [Next]_vars
    PROVE  StartedInv'
<1>0. audit \subseteq audit' /\ DOMAIN block = Action
    BY StepGrows DEF IInv, Grown, FwTypeOK
<1>1. CASE block' = block
    BY <1>0, <1>1 DEF StartedInv
<1>2. ASSUME NEW t \in Thread, Step(t), block' # block PROVE StartedInv'
    <2>1. EnterBlock(t) \/ LeaveBlock(t)
        BY <1>2, OffRecord DEF PutAction, CloseAction, Log
    <2>2. /\ pc[t] \in {"enter", "block"} /\ loc[t].act \in Action
          /\ \A a \in Action \ {loc[t].act} : block'[a] = block[a]
        BY <1>0, <2>1, BlockSays
    <2>3. <<"action_started", loc[t].act>> \in audit
        BY <2>2 DEF RecordInv, Recording
    <2> QED BY <1>0, <2>2, <2>3 DEF StartedInv
<1> QED BY <1>1, <1>2 DEF Next, Step, Crash, Tick, Refused, vars

-----------------------------------------------------------------------------
(* What the vector shows, clause by clause.                                *)

LEMMA UsableMinted ==
    ASSUME IInv, MintsInv, NEW S \in SUBSET tokens
    PROVE  /\ Usable(S) \subseteq MintRows \cap S
           /\ \A j \in tokens : claims[j].scopes \subseteq Scope
           /\ UNION {claims[j].scopes : j \in Usable(S)} \subseteq GrantProfile(S).scopes
           /\ GrantProfile(S).scopes \subseteq Scope
<1>1. \A j \in tokens : claims[j].scopes \subseteq Scope
    BY DEF IInv, FwTypeOK, Claims
<1>2. Usable(S) \subseteq MintRows \cap S
    BY DEF MintsInv, MintedRow, Usable, MintRows
<1>3. GrantProfile(S).scopes = UNION {claims[j].scopes : j \in MintRows \cap S}
    BY DEF GrantProfile
<1> QED BY <1>1, <1>2, <1>3

LEMMA ClassesShown ==
    ASSUME IInv, MintsInv, NEW S \in SUBSET tokens
    PROVE  /\ PermissionClasses(UNION {claims[j].scopes : j \in Usable(S)})
                \subseteq RiskState(S).eta
           /\ Exposure(UNION {claims[j].scopes : j \in Usable(S)}) <= RiskState(S).exposure
<1> DEFINE few  == UNION {claims[j].scopes : j \in Usable(S)}
           many == GrantProfile(S).scopes
<1>1. few \subseteq many /\ many \subseteq Scope
    BY UsableMinted
<1>2. RiskState(S).eta = PermissionClasses(many) /\ RiskState(S).exposure = Exposure(many)
    BY DEF RiskState
<1> HIDE DEF few, many
<1>3. PermissionClasses(few) \subseteq PermissionClasses(many)
    BY <1>1 DEF PermissionClasses
<1>4. Exposure(few) <= Exposure(many)
    BY <1>1, ExposureGrows
<1> QED BY <1>2, <1>3, <1>4 DEF few

LEMMA ActionsCounted ==
    ASSUME StartedInv, NEW S \in SUBSET tokens, NEW a \in Recorded,
           actions[a].jti \in S, block[a] # "not run"
    PROVE  a \in RiskState(S).governed \cup RiskState(S).autonomous
<1>1. a \in Observed(S)
    BY DEF StartedInv, Observed, Recorded
<1> QED BY <1>1 DEF RiskState

LEMMA HighRank ==
    ASSUME NEW T \in SUBSET (0 .. 3), NEW x \in T, x >= 2
    PROVE  Max(T) \in 2 .. 3
<1>1. PICK m \in T : \A y \in T : m >= y
    <2>1. CASE 3 \in T
        BY <2>1
    <2>2. CASE 3 \notin T
        <3>1. 2 \in T /\ \A y \in T : 2 >= y
            BY <2>2
        <3> QED BY <3>1
    <2> QED BY <2>1, <2>2
<1>2. Max(T) \in T /\ \A y \in T : Max(T) >= y
    BY <1>1 DEF Max
<1>3. PICK n : n = Max(T)
    OBVIOUS
<1>4. n \in T /\ n >= x
    BY <1>2, <1>3
<1>5. n \in 2 .. 3
    BY <1>4
<1> QED BY <1>3, <1>5

LEMMA CascadeShown ==
    ASSUME IInv, MintsInv, NEW S \in SUBSET tokens, NEW j \in Usable(S), NEW c \in held,
           claims[c].depth > 0, claims[c].chain[claims[c].depth] = j,
           NEW s \in claims[j].scopes, Rank(s) >= 2
    PROVE  RiskState(S).alpha = 3
<1> DEFINE p     == GrantProfile(S)
           ranks == {Rank(r) : r \in p.scopes}
<1>1. j \in MintRows \cap S /\ s \in p.scopes /\ p.scopes \subseteq Scope
    BY UsableMinted
<1>2. <<j, c>> \in edges /\ c \in Jti
    <2>1. c \in tokens /\ Linked(c) /\ claims[c].depth = Len(claims[c].chain) /\ c \in Jti
        BY DEF IInv, TokensOK, TokenOK, FwTypeOK
    <2>2. claims[c].chain # <<>>
        BY <2>1
    <2> QED BY <2>1, <2>2 DEF Linked, Parent
<1>3. p.delegates
    BY <1>1, <1>2 DEF GrantProfile
<1>4. ranks \in SUBSET (0 .. 3)
    BY RiskAssumption DEF Rank
<1>5. Rank(s) \in ranks
    BY <1>1
<1>6. WorstReversibility(p.scopes) = Max(ranks)
    BY <1>1 DEF WorstReversibility
<1>7. WorstReversibility(p.scopes) \in 2 .. 3
    <2> HIDE DEF ranks
    <2> QED BY <1>4, <1>5, <1>6, HighRank
<1>8. WorstReversibility(p.scopes) \notin {None, 0, 1}
    BY <1>7, RiskAssumption
<1>9. RiskState(S).alpha = AutonomyCategory(p.depth, WorstReversibility(p.scopes), p.delegates)
    BY DEF RiskState
<1> HIDE DEF p
<1> QED BY <1>3, <1>8, <1>9 DEF AutonomyCategory

LEMMA GovernedApproved ==
    ASSUME IInv, ReportInv, GrantInv, OneCalls(Deciders),
           NEW S \in SUBSET tokens, NEW a \in RiskState(S).governed
    PROVE  \E approval \in Approval :
             /\ claims[actions[a].jti].via = approval
             /\ gate[approval].status = "approved"
             /\ gate[approval].child = actions[a].jti
<1>1. a \in Observed(S) /\ ~Autonomous(a)
    BY DEF RiskState
<1>2. a \in Recorded /\ actions[a].jti \in tokens /\ claims[actions[a].jti].via # None
    BY <1>1 DEF Observed, Autonomous
<1>3. actions[a].jti \in held
    BY <1>2 DEF ReportInv
<1>4. Granted(actions[a].jti)
    BY <1>3 DEF GrantInv
<1>5. claims[actions[a].jti].via \in Approval
    BY <1>2 DEF IInv, TokensOK, TokenOK, Shown
<1> QED BY <1>2, <1>4, <1>5 DEF Granted

(* At every instant, and wherever a call stopped half-way, the vector of   *)
(* every subject shows the classes of the tokens it can use, no less than  *)
(* their weight, every action whose code ran and every cascade; and where  *)
(* one thread decides, an action that counts as governed has an approval   *)
(* that a human granted for its token.                                     *)
THEOREM RiskNeverFlattersHolds == Spec => []RiskNeverFlatters
<1>1. Init => ReportInv /\ GrantInv /\ MintsInv /\ StartedInv
    <2> SUFFICES ASSUME Init PROVE ReportInv /\ GrantInv /\ MintsInv /\ StartedInv
        OBVIOUS
    <2>1. \A t \in Thread : /\ pc[t] = "idle" /\ req[t].op = "none" /\ known[t].acts = {}
                            /\ loc[t].stale = {} /\ loc[t].give = {}
        BY InitIdle DEF NoHistory, NoLocal
    <2>2. ReportInv
        BY <2>1 DEF Init, ReportInv, Recorded, Reported, Queueing, After
    <2>3. GrantInv
        BY <2>1 DEF Init, GrantInv, Deciding
    <2>4. MintsInv
        BY <2>1 DEF Init, MintsInv, Giving
    <2>5. StartedInv
        BY DEF Init, StartedInv
    <2> QED BY <2>2, <2>3, <2>4, <2>5
<1>2. IInv /\ ReportInv /\ GrantInv /\ MintsInv /\ StartedInv => RiskNeverFlatters
    <2> SUFFICES ASSUME IInv, ReportInv, GrantInv, MintsInv, StartedInv,
                        NEW S \in SUBSET tokens
                 PROVE  RiskNeverFlatters!(S)
        BY DEF RiskNeverFlatters
    <2> QED BY ClassesShown, ActionsCounted, CascadeShown, GovernedApproved DEF Deciders
<1> QED BY <1>1, <1>2, RecordInit, RecordNext, WalkInit, WalkNext, ReportNext, GrantNext,
        MintsNext, StartedNext, IInvHolds, PTL DEF Spec
=============================================================================
