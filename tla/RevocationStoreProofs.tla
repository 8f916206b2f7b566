------------------------- MODULE RevocationStoreProofs -------------------------
(* Theorems about RevocationStore, for every number of threads and tokens, *)
(* whatever the subtrees are.                                              *)
EXTENDS RevocationStore, TLAPS

(* A revoke inserts rows of its subtree only.                              *)
RowsOK ==
    \A w \in Worker : pc[w] \in {"mirror", "commit"} =>
        target[w] \in Jti /\ rows[w] \subseteq Subtree[target[w]]

(* What has been mirrored and not committed is in the set, and what a      *)
(* rebuild is about to write covers the table: no thread is between the    *)
(* two writes of a revoke while another is between the two of a rebuild.   *)
CoverOK ==
    available /\ ~raced =>
        /\ \A w \in Rebuilding : revoked \subseteq rows[w]
        /\ Rebuilding = {} \/ Mirrored = {}
        /\ ready => revoked \subseteq cached
        /\ ready => \A w \in Mirrored : rows[w] \subseteq cached

(* A lookup in progress will find what was revoked when it began: in the   *)
(* set, and in whatever a rebuild may replace the set with.                *)
KnownOK ==
    /\ \A w \in Worker : known[w] \subseteq revoked
    /\ ~raced =>
         /\ \A w \in Worker : pc[w] = "get" /\ ready => known[w] \subseteq cached
         /\ \A w \in Worker \ torn : pc[w] = "member" => known[w] \subseteq cached
         /\ \A w \in Worker : pc[w] \in {"get", "member"} =>
                \A v \in Rebuilding : known[w] \subseteq rows[v]

IInv == StoreTypeOK /\ RowsOK /\ CoverOK /\ KnownOK /\ LiveAnswerIsTrue

LEMMA InitInv == Init => IInv
<1> SUFFICES ASSUME Init PROVE IInv
    OBVIOUS
<1>1. StoreTypeOK
    <2>1. ready \in BOOLEAN /\ raced \in BOOLEAN
        BY DEF Init
    <2>2. wipes \in 0 .. MaxWipes
        BY StoreAssumption DEF Init
    <2> QED BY <2>1, <2>2 DEF Init, StoreTypeOK
<1>2. RowsOK /\ CoverOK /\ KnownOK /\ LiveAnswerIsTrue
    BY DEF Init, RowsOK, CoverOK, KnownOK, LiveAnswerIsTrue, Rebuilding, Mirrored
<1> QED BY <1>1, <1>2 DEF IInv

LEMMA LookupInv ==
    ASSUME IInv, NEW w \in Worker, Lookup(w)
    PROVE  IInv'
<1>1. StoreTypeOK'
    BY StoreAssumption DEF Lookup, Goto, cache, IInv, StoreTypeOK
<1>2. RowsOK'
    BY StoreAssumption DEF Lookup, Goto, cache, IInv, StoreTypeOK, RowsOK
<1>3. CoverOK'
    BY StoreAssumption DEF Lookup, Goto, cache, IInv, StoreTypeOK, RowsOK, CoverOK,
       Rebuilding, Mirrored
<1>4. KnownOK'
    BY DEF Lookup, Goto, cache, IInv, StoreTypeOK, CoverOK, KnownOK,
       Rebuilding, Mirrored
<1>5. LiveAnswerIsTrue'
    BY DEF Lookup, Goto, cache, IInv, StoreTypeOK, KnownOK,
       LiveAnswerIsTrue
<1> QED BY <1>1, <1>2, <1>3, <1>4, <1>5 DEF IInv

LEMMA GetReadyInv ==
    ASSUME IInv, NEW w \in Worker, GetReady(w)
    PROVE  IInv'
<1>1. StoreTypeOK'
    BY StoreAssumption DEF GetReady, Goto, cache, past, IInv, StoreTypeOK
<1>2. RowsOK'
    BY StoreAssumption DEF GetReady, Goto, cache, past, IInv, StoreTypeOK, RowsOK
<1>3. CoverOK'
    BY StoreAssumption DEF GetReady, Goto, cache, past, IInv, StoreTypeOK, RowsOK, CoverOK,
       Rebuilding, Mirrored
<1>4. KnownOK'
    BY DEF GetReady, Goto, cache, past, IInv, StoreTypeOK, CoverOK,
       KnownOK, Rebuilding, Mirrored
<1>5. LiveAnswerIsTrue'
    BY DEF GetReady, Goto, cache, past, IInv, StoreTypeOK, KnownOK,
       LiveAnswerIsTrue
<1> QED BY <1>1, <1>2, <1>3, <1>4, <1>5 DEF IInv

LEMMA GetMissingInv ==
    ASSUME IInv, NEW w \in Worker, GetMissing(w)
    PROVE  IInv'
<1>1. StoreTypeOK'
    BY StoreAssumption DEF GetMissing, Goto, cache, past, IInv, StoreTypeOK
<1>2. RowsOK'
    BY StoreAssumption DEF GetMissing, Goto, cache, past, IInv, StoreTypeOK, RowsOK
<1>3. CoverOK'
    BY StoreAssumption DEF GetMissing, Goto, cache, past, IInv, StoreTypeOK, RowsOK,
       CoverOK, Rebuilding, Mirrored
<1>4. KnownOK'
    BY DEF GetMissing, Goto, cache, past, IInv, StoreTypeOK, CoverOK,
       KnownOK, Rebuilding, Mirrored
<1>5. LiveAnswerIsTrue'
    BY DEF GetMissing, Goto, cache, past, IInv, StoreTypeOK, KnownOK,
       LiveAnswerIsTrue
<1> QED BY <1>1, <1>2, <1>3, <1>4, <1>5 DEF IInv

LEMMA MemberInv ==
    ASSUME IInv, NEW w \in Worker, Member(w)
    PROVE  IInv'
<1>1. StoreTypeOK'
    BY StoreAssumption DEF Member, Goto, cache, past, IInv, StoreTypeOK
<1>2. RowsOK'
    BY StoreAssumption DEF Member, Goto, cache, past, IInv, StoreTypeOK, RowsOK
<1>3. CoverOK'
    BY StoreAssumption DEF Member, Goto, cache, past, IInv, StoreTypeOK, RowsOK, CoverOK,
       Rebuilding, Mirrored
<1>4. KnownOK'
    BY DEF Member, Goto, cache, past, IInv, StoreTypeOK, CoverOK, KnownOK,
       Rebuilding, Mirrored
<1>5. LiveAnswerIsTrue'
    BY DEF Member, Goto, cache, past, IInv, StoreTypeOK, KnownOK,
       LiveAnswerIsTrue
<1> QED BY <1>1, <1>2, <1>3, <1>4, <1>5 DEF IInv

LEMMA SelectInv ==
    ASSUME IInv, NEW w \in Worker, Select(w)
    PROVE  IInv'
<1>1. StoreTypeOK'
    BY StoreAssumption DEF Select, Goto, cache, past, IInv, StoreTypeOK
<1>2. RowsOK'
    BY StoreAssumption DEF Select, Goto, cache, past, IInv, StoreTypeOK, RowsOK
<1>3. CoverOK'
    BY StoreAssumption DEF Select, Goto, cache, past, IInv, StoreTypeOK, RowsOK, CoverOK,
       Rebuilding, Mirrored
<1>4. KnownOK'
    BY DEF Select, Goto, cache, past, IInv, StoreTypeOK, CoverOK, KnownOK,
       Rebuilding, Mirrored
<1>5. LiveAnswerIsTrue'
    BY DEF Select, Goto, cache, past, IInv, StoreTypeOK, KnownOK,
       LiveAnswerIsTrue
<1> QED BY <1>1, <1>2, <1>3, <1>4, <1>5 DEF IInv

LEMMA AnswerInv ==
    ASSUME IInv, NEW w \in Worker, Answer(w)
    PROVE  IInv'
<1>1. StoreTypeOK'
    BY StoreAssumption DEF Answer, Goto, cache, past, IInv, StoreTypeOK
<1>2. RowsOK'
    BY StoreAssumption DEF Answer, Goto, cache, past, IInv, StoreTypeOK, RowsOK
<1>3. CoverOK'
    BY StoreAssumption DEF Answer, Goto, cache, past, IInv, StoreTypeOK, RowsOK, CoverOK,
       Rebuilding, Mirrored
<1>4. KnownOK'
    BY DEF Answer, Goto, cache, past, IInv, StoreTypeOK, CoverOK, KnownOK,
       Rebuilding, Mirrored
<1>5. LiveAnswerIsTrue'
    BY DEF Answer, Goto, cache, past, IInv, StoreTypeOK, KnownOK,
       LiveAnswerIsTrue
<1> QED BY <1>1, <1>2, <1>3, <1>4, <1>5 DEF IInv

LEMMA RebuildSkipInv ==
    ASSUME IInv, NEW w \in Worker, RebuildSkip(w)
    PROVE  IInv'
<1>1. StoreTypeOK'
    BY StoreAssumption DEF RebuildSkip, Goto, cache, past, IInv, StoreTypeOK
<1>2. RowsOK'
    BY StoreAssumption DEF RebuildSkip, Goto, cache, past, IInv, StoreTypeOK, RowsOK
<1>3. CoverOK'
    BY StoreAssumption DEF RebuildSkip, Goto, cache, past, IInv, StoreTypeOK, RowsOK,
       CoverOK, Rebuilding, Mirrored
<1>4. KnownOK'
    BY DEF RebuildSkip, Goto, cache, past, IInv, StoreTypeOK, CoverOK,
       KnownOK, Rebuilding, Mirrored
<1>5. LiveAnswerIsTrue'
    BY DEF RebuildSkip, Goto, cache, past, IInv, StoreTypeOK, KnownOK,
       LiveAnswerIsTrue
<1> QED BY <1>1, <1>2, <1>3, <1>4, <1>5 DEF IInv

LEMMA RebuildReadInv ==
    ASSUME IInv, NEW w \in Worker, RebuildRead(w)
    PROVE  IInv'
<1>1. StoreTypeOK'
    <2>1. raced' \in BOOLEAN
        BY DEF RebuildRead
    <2>2. pc' \in [Worker -> {"idle", "get", "member", "read", "fill", "select", "live",
                             "dead", "mirror", "commit"}]
        BY DEF RebuildRead, Goto, IInv, StoreTypeOK
    <2>3. cached' \subseteq Jti /\ rows' \in [Worker -> SUBSET Jti]
        BY StoreAssumption DEF RebuildRead, IInv, StoreTypeOK, RowsOK, cache
    <2>4. \A v \in Worker : pc'[v] \notin {"fill", "mirror", "commit"} => rows'[v] = {}
        BY DEF RebuildRead, Goto, IInv, StoreTypeOK
    <2> QED BY <2>1, <2>2, <2>3, <2>4 DEF RebuildRead, cache, IInv, StoreTypeOK
<1>2. RowsOK'
    BY StoreAssumption DEF RebuildRead, Goto, cache, IInv, StoreTypeOK, RowsOK
<1>3. CoverOK'
    BY StoreAssumption DEF RebuildRead, Goto, cache, IInv, StoreTypeOK, RowsOK, CoverOK,
       Rebuilding, Mirrored
<1>4. KnownOK'
    BY DEF RebuildRead, Goto, cache, IInv, StoreTypeOK, CoverOK, KnownOK,
       Rebuilding, Mirrored
<1>5. LiveAnswerIsTrue'
    BY DEF RebuildRead, Goto, cache, IInv, StoreTypeOK, KnownOK,
       LiveAnswerIsTrue
<1> QED BY <1>1, <1>2, <1>3, <1>4, <1>5 DEF IInv

LEMMA RebuildFillInv ==
    ASSUME IInv, NEW w \in Worker, RebuildFill(w)
    PROVE  IInv'
<1>1. StoreTypeOK'
    BY StoreAssumption DEF RebuildFill, Goto, past, IInv, StoreTypeOK
<1>2. RowsOK'
    BY StoreAssumption DEF RebuildFill, Goto, past, IInv, StoreTypeOK, RowsOK
<1>3. CoverOK'
    BY StoreAssumption DEF RebuildFill, Goto, past, IInv, StoreTypeOK, RowsOK, CoverOK,
       Rebuilding, Mirrored
<1>4. KnownOK'
    BY DEF RebuildFill, Goto, past, IInv, StoreTypeOK, CoverOK, KnownOK,
       Rebuilding, Mirrored
<1>5. LiveAnswerIsTrue'
    BY DEF RebuildFill, Goto, past, IInv, StoreTypeOK, KnownOK,
       LiveAnswerIsTrue
<1> QED BY <1>1, <1>2, <1>3, <1>4, <1>5 DEF IInv

LEMMA RevokeInv ==
    ASSUME IInv, NEW w \in Worker, Revoke(w)
    PROVE  IInv'
<1>1. StoreTypeOK'
    BY StoreAssumption DEF Revoke, Goto, cache, past, IInv, StoreTypeOK
<1>2. RowsOK'
    BY StoreAssumption DEF Revoke, Goto, cache, past, IInv, StoreTypeOK, RowsOK
<1>3. CoverOK'
    BY StoreAssumption DEF Revoke, Goto, cache, past, IInv, StoreTypeOK, RowsOK, CoverOK,
       Rebuilding, Mirrored
<1>4. KnownOK'
    BY DEF Revoke, Goto, cache, past, IInv, StoreTypeOK, CoverOK, KnownOK,
       Rebuilding, Mirrored
<1>5. LiveAnswerIsTrue'
    BY DEF Revoke, Goto, cache, past, IInv, StoreTypeOK, KnownOK,
       LiveAnswerIsTrue
<1> QED BY <1>1, <1>2, <1>3, <1>4, <1>5 DEF IInv

LEMMA MirrorInv ==
    ASSUME IInv, NEW w \in Worker, Mirror(w)
    PROVE  IInv'
<1>1. StoreTypeOK'
    <2>1. raced' \in BOOLEAN
        BY DEF Mirror
    <2>2. pc' \in [Worker -> {"idle", "get", "member", "read", "fill", "select", "live",
                             "dead", "mirror", "commit"}]
        BY DEF Mirror, Goto, IInv, StoreTypeOK
    <2>3. cached' \subseteq Jti /\ rows' \in [Worker -> SUBSET Jti]
        BY StoreAssumption DEF Mirror, IInv, StoreTypeOK, RowsOK
    <2>4. \A v \in Worker : pc'[v] \notin {"fill", "mirror", "commit"} => rows'[v] = {}
        BY DEF Mirror, Goto, IInv, StoreTypeOK
    <2> QED BY <2>1, <2>2, <2>3, <2>4 DEF Mirror, IInv, StoreTypeOK
<1>2. RowsOK'
    BY StoreAssumption DEF Mirror, Goto, IInv, StoreTypeOK, RowsOK
<1>3. CoverOK'
    BY StoreAssumption DEF Mirror, Goto, IInv, StoreTypeOK, RowsOK, CoverOK, Rebuilding,
       Mirrored
<1>4. KnownOK'
    BY DEF Mirror, Goto, IInv, StoreTypeOK, CoverOK, KnownOK, Rebuilding,
       Mirrored
<1>5. LiveAnswerIsTrue'
    BY DEF Mirror, Goto, IInv, StoreTypeOK, KnownOK, LiveAnswerIsTrue
<1> QED BY <1>1, <1>2, <1>3, <1>4, <1>5 DEF IInv

LEMMA MirrorSkipInv ==
    ASSUME IInv, NEW w \in Worker, MirrorSkip(w)
    PROVE  IInv'
<1>1. StoreTypeOK'
    BY StoreAssumption DEF MirrorSkip, Goto, cache, past, IInv, StoreTypeOK
<1>2. RowsOK'
    BY StoreAssumption DEF MirrorSkip, Goto, cache, past, IInv, StoreTypeOK, RowsOK
<1>3. CoverOK'
    BY StoreAssumption DEF MirrorSkip, Goto, cache, past, IInv, StoreTypeOK, RowsOK,
       CoverOK, Rebuilding, Mirrored
<1>4. KnownOK'
    BY DEF MirrorSkip, Goto, cache, past, IInv, StoreTypeOK, CoverOK,
       KnownOK, Rebuilding, Mirrored
<1>5. LiveAnswerIsTrue'
    BY DEF MirrorSkip, Goto, cache, past, IInv, StoreTypeOK, KnownOK,
       LiveAnswerIsTrue
<1> QED BY <1>1, <1>2, <1>3, <1>4, <1>5 DEF IInv

LEMMA CommitInv ==
    ASSUME IInv, NEW w \in Worker, Commit(w)
    PROVE  IInv'
<1>1. StoreTypeOK'
    BY StoreAssumption DEF Commit, Goto, Leave, cache, past, IInv, StoreTypeOK
<1>2. RowsOK'
    BY StoreAssumption DEF Commit, Goto, Leave, cache, past, IInv, StoreTypeOK, RowsOK
<1>3. CoverOK'
    BY StoreAssumption DEF Commit, Goto, Leave, cache, past, IInv, StoreTypeOK, RowsOK,
       CoverOK, Rebuilding, Mirrored
<1>4. KnownOK'
    BY DEF Commit, Goto, Leave, cache, past, IInv, StoreTypeOK, CoverOK,
       KnownOK, Rebuilding, Mirrored
<1>5. LiveAnswerIsTrue'
    BY DEF Commit, Goto, Leave, cache, past, IInv, StoreTypeOK, KnownOK,
       LiveAnswerIsTrue
<1> QED BY <1>1, <1>2, <1>3, <1>4, <1>5 DEF IInv

LEMMA RollbackInv ==
    ASSUME IInv, NEW w \in Worker, Rollback(w)
    PROVE  IInv'
<1>1. StoreTypeOK'
    BY StoreAssumption DEF Rollback, Goto, Leave, past, IInv, StoreTypeOK
<1>2. RowsOK'
    BY StoreAssumption DEF Rollback, Goto, Leave, past, IInv, StoreTypeOK, RowsOK
<1>3. CoverOK'
    <2>1. available' => available
        BY DEF Rollback
    <2>2. Rebuilding' \subseteq Rebuilding /\ Mirrored' \subseteq Mirrored
        BY DEF Rollback, Goto, Leave, IInv, StoreTypeOK, Rebuilding, Mirrored
    <2>3. \A v \in Rebuilding' : rows'[v] = rows[v]
        BY DEF Rollback, Goto, Leave, IInv, StoreTypeOK, Rebuilding
    <2>4. \A v \in Mirrored' : rows'[v] = rows[v]
        BY DEF Rollback, Goto, Leave, IInv, StoreTypeOK, Mirrored
    <2> QED BY <2>1, <2>2, <2>3, <2>4 DEF Rollback, past, IInv, CoverOK
<1>4. KnownOK'
    BY DEF Rollback, Goto, Leave, past, IInv, StoreTypeOK, CoverOK,
       KnownOK, Rebuilding, Mirrored
<1>5. LiveAnswerIsTrue'
    BY DEF Rollback, Goto, Leave, past, IInv, StoreTypeOK, KnownOK,
       LiveAnswerIsTrue
<1> QED BY <1>1, <1>2, <1>3, <1>4, <1>5 DEF IInv

LEMMA CommandFailsInv ==
    ASSUME IInv, NEW w \in Worker, CommandFails(w)
    PROVE  IInv'
<1>1. StoreTypeOK'
    <2>1. available' \in BOOLEAN /\ ready' \in BOOLEAN
        BY DEF CommandFails, Degrade, IInv, StoreTypeOK
    <2>2. cached' \subseteq Jti
        BY StoreAssumption DEF CommandFails, IInv, StoreTypeOK, RowsOK
    <2>3. pc' \in [Worker -> {"idle", "get", "member", "read", "fill", "select", "live",
                             "dead", "mirror", "commit"}]
        BY DEF CommandFails, Goto, IInv, StoreTypeOK
    <2>4. rows' \in [Worker -> SUBSET Jti]
        BY DEF CommandFails, IInv, StoreTypeOK
    <2>5. \A v \in Worker : pc'[v] \notin {"fill", "mirror", "commit"} => rows'[v] = {}
        BY DEF CommandFails, Goto, IInv, StoreTypeOK
    <2> QED BY <2>1, <2>2, <2>3, <2>4, <2>5 DEF CommandFails, past, IInv, StoreTypeOK
<1>2. RowsOK'
    BY StoreAssumption DEF CommandFails, Goto, Degrade, past, IInv, StoreTypeOK, RowsOK
<1>3. CoverOK'
    BY StoreAssumption DEF CommandFails, Goto, Degrade, past, IInv, StoreTypeOK, RowsOK,
       CoverOK, Rebuilding, Mirrored
<1>4. KnownOK'
    BY DEF CommandFails, Goto, Degrade, past, IInv, StoreTypeOK, CoverOK,
       KnownOK, Rebuilding, Mirrored
<1>5. LiveAnswerIsTrue'
    BY DEF CommandFails, Goto, Degrade, past, IInv, StoreTypeOK, KnownOK,
       LiveAnswerIsTrue
<1> QED BY <1>1, <1>2, <1>3, <1>4, <1>5 DEF IInv

LEMMA WipeInv ==
    ASSUME IInv, Wipe
    PROVE  IInv'
<1>1. StoreTypeOK'
    <2>1. wipes' \in 0 .. MaxWipes
        BY StoreAssumption DEF Wipe, IInv, StoreTypeOK
    <2>2. torn' \subseteq Worker
        BY DEF Wipe, IInv, StoreTypeOK
    <2> QED BY <2>1, <2>2 DEF Wipe, IInv, StoreTypeOK
<1>2. RowsOK'
    BY StoreAssumption DEF Wipe, IInv, StoreTypeOK, RowsOK
<1>3. CoverOK'
    BY StoreAssumption DEF Wipe, IInv, StoreTypeOK, RowsOK, CoverOK, Rebuilding, Mirrored
<1>4. KnownOK'
    BY DEF Wipe, IInv, StoreTypeOK, CoverOK, KnownOK, Rebuilding, Mirrored
<1>5. LiveAnswerIsTrue'
    BY DEF Wipe, IInv, StoreTypeOK, KnownOK, LiveAnswerIsTrue
<1> QED BY <1>1, <1>2, <1>3, <1>4, <1>5 DEF IInv

LEMMA RestartInv ==
    ASSUME IInv, Restart
    PROVE  IInv'
<1>1. StoreTypeOK'
    BY StoreAssumption DEF Restart, Boot, IInv, StoreTypeOK
<1>2. RowsOK'
    BY StoreAssumption DEF Restart, Boot, IInv, StoreTypeOK, RowsOK
<1>3. CoverOK'
    BY StoreAssumption DEF Restart, Boot, IInv, StoreTypeOK, RowsOK, CoverOK, Rebuilding,
       Mirrored
<1>4. KnownOK'
    BY DEF Restart, Boot, IInv, StoreTypeOK, CoverOK, KnownOK, Rebuilding,
       Mirrored
<1>5. LiveAnswerIsTrue'
    BY DEF Restart, Boot, IInv, StoreTypeOK, KnownOK, LiveAnswerIsTrue
<1> QED BY <1>1, <1>2, <1>3, <1>4, <1>5 DEF IInv

LEMMA StutterInv ==
    ASSUME IInv, UNCHANGED vars
    PROVE  IInv'
<1>1. StoreTypeOK'
    BY StoreAssumption DEF vars, IInv, StoreTypeOK
<1>2. RowsOK'
    BY StoreAssumption DEF vars, IInv, StoreTypeOK, RowsOK
<1>3. CoverOK'
    BY StoreAssumption DEF vars, IInv, StoreTypeOK, RowsOK, CoverOK, Rebuilding, Mirrored
<1>4. KnownOK'
    BY DEF vars, IInv, StoreTypeOK, CoverOK, KnownOK, Rebuilding, Mirrored
<1>5. LiveAnswerIsTrue'
    BY DEF vars, IInv, StoreTypeOK, KnownOK, LiveAnswerIsTrue
<1> QED BY <1>1, <1>2, <1>3, <1>4, <1>5 DEF IInv

LEMMA NextInv == IInv /\ [Next]_vars => IInv'
<1> SUFFICES ASSUME IInv, [Next]_vars PROVE IInv'
    OBVIOUS
<1>1. ASSUME NEW w \in Worker, Asks(w) PROVE IInv'
    BY <1>1, LookupInv, GetReadyInv, GetMissingInv, MemberInv, SelectInv, AnswerInv,
       RebuildSkipInv, RebuildReadInv, RebuildFillInv DEF Asks
<1>2. ASSUME NEW w \in Worker, Revokes(w) PROVE IInv'
    BY <1>2, RevokeInv, MirrorInv, MirrorSkipInv, CommitInv, RollbackInv DEF Revokes
<1> QED BY <1>1, <1>2, CommandFailsInv, WipeInv, RestartInv, StutterInv DEF Next

LEMMA Invariance == Spec => []IInv
<1>1. Init => IInv
    BY InitInv
<1>2. IInv /\ [Next]_vars => IInv'
    BY NextInv
<1> QED BY <1>1, <1>2, PTL DEF Spec

-----------------------------------------------------------------------------
(* What holds in every reachable state.                                    *)

(* Every variable keeps its type; only a rebuild and a revoke in progress  *)
(* hold rows (rebuild_cache, revoke_subtree).                              *)
THEOREM StoreTypeCorrect == Spec => []StoreTypeOK
<1>1. IInv => StoreTypeOK
    BY DEF IInv
<1> QED BY <1>1, Invariance, PTL

(* The sentinel is to be trusted unless a rebuild overlapped a revoke: a   *)
(* failed command, a wipe, a rollback or a restart never hides a committed *)
(* revocation (_cache_add, _degrade, rebuild_cache).                       *)
THEOREM MirrorHolds == Spec => []MirrorComplete
<1>1. IInv => MirrorComplete
    BY DEF IInv, CoverOK, MirrorComplete
<1> QED BY <1>1, Invariance, PTL

(* is_revoked never answers "not revoked" for a token whose revocation had *)
(* committed before it was asked, but for a wipe between its two commands  *)
(* or a rebuild overlapping a revoke.                                      *)
THEOREM AnswersHold == Spec => []LiveAnswerIsTrue
<1>1. IInv => LiveAnswerIsTrue
    BY DEF IInv
<1> QED BY <1>1, Invariance, PTL

-----------------------------------------------------------------------------
(* Where the sentinel keeps its promise.                                   *)

OneThread == \A v, w \in Worker : v = w
Lossless == MaxWipes = 0

(* A cache that loses nothing is rebuilt at startup alone: whoever finds   *)
(* no sentinel does so because the process has given Redis up since.       *)
Intact ==
    /\ wipes = 0 /\ torn = {}
    /\ available => ready
    /\ \A w \in Worker : pc[w] # "fill"
    /\ \A w \in Worker : pc[w] = "read" => ~available

Apart == ~raced /\ (Lossless => Intact)

(* A rebuild and a revoke that overlap are two threads, and the rebuild    *)
(* needs a loss of the cache.                                              *)
LEMMA NeverRaced ==
    ASSUME IInv, Apart, OneThread \/ Lossless, [Next]_vars
    PROVE  ~raced'
<1>1. ASSUME NEW w \in Worker, RebuildRead(w) PROVE ~raced'
    <2>1. pc[w] = "read" /\ available /\ raced' = (raced \/ Mirrored # {})
        BY <1>1 DEF RebuildRead
    <2>2. OneThread
        BY <2>1 DEF Apart, Intact
    <2>3. Mirrored = {}
        BY <2>1, <2>2 DEF OneThread, Mirrored
    <2> QED BY <2>1, <2>3 DEF Apart
<1>2. ASSUME NEW w \in Worker, Mirror(w) PROVE ~raced'
    <2>1. pc[w] = "mirror" /\ raced' = (raced \/ Rebuilding # {})
        BY <1>2 DEF Mirror
    <2>2. Rebuilding = {}
        BY <2>1 DEF OneThread, Apart, Intact, Rebuilding
    <2> QED BY <2>1, <2>2 DEF Apart
<1>3. ASSUME NEW w \in Worker, Asks(w), ~RebuildRead(w) PROVE ~raced'
    BY <1>3 DEF Apart, Asks, Lookup, GetReady, GetMissing, Member, Select, Answer,
       RebuildSkip, RebuildFill, past
<1>4. ASSUME NEW w \in Worker, Revokes(w), ~Mirror(w) PROVE ~raced'
    BY <1>4 DEF Apart, Revokes, Revoke, MirrorSkip, Commit, Rollback, past
<1>5. ASSUME NEW w \in Worker, CommandFails(w) PROVE ~raced'
    BY <1>5 DEF Apart, CommandFails, past
<1>6. Wipe \/ Restart \/ UNCHANGED vars => ~raced'
    BY DEF Apart, Wipe, Restart, vars
<1> QED BY <1>1, <1>2, <1>3, <1>4, <1>5, <1>6 DEF Next

LEMMA IntactNext ==
    ASSUME IInv, Intact, Lossless, [Next]_vars
    PROVE  Intact'
<1>1. DOMAIN pc = Worker /\ torn = {} /\ wipes = 0 /\ MaxWipes = 0
    BY DEF IInv, StoreTypeOK, Intact, Lossless
<1>2. ASSUME NEW w \in Worker, Asks(w) PROVE Intact'
    <2>1. ~RebuildRead(w) /\ ~RebuildFill(w)
        BY DEF Intact, RebuildRead, RebuildFill
    <2>2. /\ UNCHANGED <<available, ready, wipes>> /\ torn' = {}
          /\ \E l : /\ pc' = [pc EXCEPT ![w] = l] /\ l # "fill"
                    /\ l = "read" => ~ready
        BY <1>1, <1>2, <2>1 DEF Asks, Lookup, GetReady, GetMissing, Member, Select, Answer,
           RebuildSkip, Goto, cache, past
    <2> QED BY <1>1, <2>2 DEF Intact
<1>3. ASSUME NEW w \in Worker, Revokes(w) PROVE Intact'
    <2>1. /\ UNCHANGED <<ready, wipes, torn>> /\ (available' => available)
          /\ \E l \in {"idle", "mirror", "commit"} : pc' = [pc EXCEPT ![w] = l]
        BY <1>3 DEF Revokes, Revoke, Mirror, MirrorSkip, Commit, Rollback, Leave, Goto,
           cache, past
    <2> QED BY <1>1, <2>1 DEF Intact
<1>4. ASSUME NEW w \in Worker, CommandFails(w) PROVE Intact'
    <2>1. /\ UNCHANGED <<wipes, torn>> /\ ~available'
          /\ \E l \in {"commit", "select"} : pc' = [pc EXCEPT ![w] = l]
        BY <1>4 DEF CommandFails, Degrade, Goto, past
    <2> QED BY <1>1, <2>1 DEF Intact
<1>5. ~Wipe
    BY <1>1 DEF Wipe
<1>6. Restart => Intact'
    BY <1>1 DEF Restart, Boot, Intact
<1>7. UNCHANGED vars => Intact'
    BY DEF vars, Intact
<1> QED BY <1>2, <1>3, <1>4, <1>5, <1>6, <1>7 DEF Next

LEMMA ApartHolds ==
    ASSUME OneThread \/ Lossless
    PROVE  Spec => [](IInv /\ Apart)
<1>1. Init => IInv /\ Apart
    BY InitInv DEF Init, Apart, Intact
<1>2. IInv /\ Apart /\ [Next]_vars => (IInv /\ Apart)'
    BY NextInv, NeverRaced, IntactNext DEF Apart
<1> QED BY <1>1, <1>2, PTL DEF Spec

(* What the comment on CACHE_READY_KEY says is true of a process with one  *)
(* thread, and of any number of threads over a cache that does not lose    *)
(* its data: the sentinel proves that the set covers the table, whichever  *)
(* commands fail (rebuild_cache, _cache_add).                              *)
THEOREM SentinelProvesHolds ==
    ASSUME OneThread \/ Lossless
    PROVE  Spec => []SentinelProves
<1>1. IInv /\ Apart => SentinelProves
    BY DEF IInv, CoverOK, Apart, SentinelProves
<1> QED BY <1>1, ApartHolds, PTL

(* Over a cache that does not lose its data, is_revoked is never wrong     *)
(* about a revocation that had committed before it was asked, whether the  *)
(* cache or the table answers and whichever commands fail on the way.      *)
THEOREM AnswersHoldWithoutLoss ==
    ASSUME Lossless
    PROVE  Spec => [](\A w \in Worker : pc[w] = "live" => target[w] \notin known[w])
<1>1. IInv /\ Apart => \A w \in Worker : pc[w] = "live" => target[w] \notin known[w]
    BY DEF IInv, Apart, Intact, LiveAnswerIsTrue
<1> QED BY <1>1, ApartHolds, PTL
=============================================================================
