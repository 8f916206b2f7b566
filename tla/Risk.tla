--------------------------------- MODULE Risk ---------------------------------
(***************************************************************************)
(* agperms.risk: what compute_risk_state reads, at any instant, out of the *)
(* rows that Firewall has written so far.                                  *)
(*                                                                         *)
(* A subject is the set S of the tokens it holds: token rows and audit     *)
(* rows carry the same subject.  Weights are in tenths.  The governance    *)
(* tier, which is read off the deployment, the dependency shares, which    *)
(* the caller supplies, and the time window of beta are left out.          *)
(***************************************************************************)
EXTENDS Firewall, FiniteSetsExt

CONSTANTS
    ScopeClass,     \* the permission class of a scope, if it was given one
    ClassWeight,    \* the weight of each permission class
    Recoverability  \* the rank of a scope that was classified: 0 idempotent,
                    \* 1 reversible, 2 compensable, 3 irreversible

Fallback == "record_modification"

ASSUME RiskAssumption ==
    /\ DOMAIN ScopeClass \subseteq Scope
    /\ \A s \in DOMAIN ScopeClass : ScopeClass[s] \in DOMAIN ClassWeight
    /\ Fallback \in DOMAIN ClassWeight
    /\ IsFiniteSet(DOMAIN ClassWeight)
    /\ \A class \in DOMAIN ClassWeight : ClassWeight[class] \in Nat
    /\ DOMAIN Recoverability \subseteq Scope
    /\ \A s \in DOMAIN Recoverability : Recoverability[s] \in 0 .. 3
    /\ None \notin 0 .. 3

-----------------------------------------------------------------------------
(* A scope that nobody classified modifies records, irreversibly.          *)
PermissionClass(s) == IF s \in DOMAIN ScopeClass THEN ScopeClass[s] ELSE Fallback
Rank(s) == IF s \in DOMAIN Recoverability THEN Recoverability[s] ELSE 3

(* eta and its exposure: a class counts once, however many scopes it has.  *)
PermissionClasses(scopes) == {PermissionClass(s) : s \in scopes}
Exposure(scopes) ==
    MapThenSumSet(LAMBDA class : ClassWeight[class], PermissionClasses(scopes))

WorstReversibility(scopes) == IF scopes = {} THEN None ELSE Max({Rank(s) : s \in scopes})

AutonomyCategory(depth, worst, delegates) ==
    CASE worst \in {None, 0}      -> 0
      [] worst = 1                -> 1
      [] delegates \/ depth > 1   -> 3
      [] OTHER                    -> 2

-----------------------------------------------------------------------------
(* Mutant: the tokens that were delegated to the subject are not looked at.*)
MintRows_RootsOnly == {j \in tokens : <<"root_minted", j>> \in audit}

(* The mints that the profile of a subject is made from.                   *)
MintRows == {j \in tokens : {<<"root_minted", j>>, <<"delegated", j>>} \cap audit # {}}

(* The scopes of a subject, its deepest token, and whether it delegated.   *)
GrantProfile(S) ==
    LET minted == MintRows \cap S IN
    [scopes    |-> UNION {claims[j].scopes : j \in minted},
     depth     |-> Max({0} \cup {claims[j].depth : j \in minted}),
     delegates |-> \E j \in minted, c \in Jti : <<j, c>> \in edges]

(* Mutant: a sensitive scope is taken for the sign of an approval. *)
Autonomous_Sensitive(a) ==
    LET j == actions[a].jti IN j \notin tokens \/ claims[j].scopes \cap Sensitive = {}

(* No record of the token, or a token that no approval minted.             *)
Autonomous(a) ==
    LET j == actions[a].jti IN j \notin tokens \/ claims[j].via = None

Observed(S) == {a \in Recorded : <<"action_started", a>> \in audit /\ actions[a].jti \in S}

RiskState(S) ==
    LET p == GrantProfile(S)
        autonomous == {a \in Observed(S) : Autonomous(a)}
    IN  [alpha |-> AutonomyCategory(p.depth, WorstReversibility(p.scopes), p.delegates),
         eta |-> PermissionClasses(p.scopes),
         exposure |-> Exposure(p.scopes),
         governed |-> Observed(S) \ autonomous,
         autonomous |-> autonomous]

-----------------------------------------------------------------------------
(* Properties.                                                             *)

(* The tokens of a subject that somebody can use and that no approval has  *)
(* minted.  (An approval writes no row that GrantProfile reads.)           *)
Usable(S) == {j \in held \cap S : claims[j].via = None}

(* The vector never flatters, wherever a call stopped half-way: it shows   *)
(* every permission class of the tokens above and at least their weight;   *)
(* every action whose code ran is counted; once a child of such a token is *)
(* in use, an unrecoverable scope makes a cascade; and, while a single     *)
(* thread decides, an action counts as governed only if a human approved   *)
(* the request that its token was minted for, and for that token.          *)
RiskNeverFlatters ==
    \A S \in SUBSET tokens :
        LET risk   == RiskState(S)
            scopes == UNION {claims[j].scopes : j \in Usable(S)}
        IN
        /\ PermissionClasses(scopes) \subseteq risk.eta
        /\ Exposure(scopes) <= risk.exposure
        /\ \A a \in Recorded : actions[a].jti \in S /\ block[a] # "not run" =>
             a \in risk.governed \cup risk.autonomous
        /\ \A j \in Usable(S), c \in held :
             /\ claims[c].depth > 0 /\ claims[c].chain[claims[c].depth] = j
             /\ \E s \in claims[j].scopes : Rank(s) >= 2
             => risk.alpha = 3
        /\ OneCalls({"approve", "deny", "pending_approvals"}) =>
             \A a \in risk.governed : \E approval \in Approval :
               /\ claims[actions[a].jti].via = approval
               /\ gate[approval].status = "approved"
               /\ gate[approval].child = actions[a].jti
=============================================================================
