---------------------------- MODULE RevocationStore ----------------------------
(***************************************************************************)
(* The revocation table in Postgres and the Redis cache in front of it.    *)
(*                                                                         *)
(* Every handler thread may call is_revoked and revoke_subtree; a Redis    *)
(* command is a step of its own, and may fail, applied or not.  The cache  *)
(* may lose its data at any time.  One flag of the process, available,     *)
(* says whether Redis is asked at all: an error clears it, and only a new  *)
(* process sets it again.                                                  *)
(*                                                                         *)
(* The walk that finds a subtree is a part of DelegationEngine; here the   *)
(* subtree of a token is given.                                            *)
(***************************************************************************)
EXTENDS Naturals

CONSTANTS
    Worker,    \* threads of the process
    Jti,       \* token ids
    Subtree,   \* what _collect_subtree returns for each token
    MaxWipes,  \* bound: how often the cache loses its data
    None

ASSUME StoreAssumption ==
    /\ Subtree \in [Jti -> SUBSET Jti]
    /\ \A j \in Jti : j \in Subtree[j]
    /\ MaxWipes \in Nat
    /\ None \notin Jti

VARIABLES
    revoked,    \* committed rows of the revocation table
    cached,     \* the set adf:revoked
    ready,      \* whether adf:cache_ready exists
    available,  \* redis_client._available
    pc,         \* where each thread is
    target,     \* the jti it asks about or revokes
    rows,       \* the rows its rebuild has read, or its revoke has inserted
    wipes,      \* how often the cache has lost its data
    known,      \* history: what was revoked when the lookup of a thread began
    torn,       \* history: the lookups that a wipe fell into
    raced       \* history: a rebuild has overlapped a revoke in this process

cache == <<cached, ready, available>>
past  == <<wipes, known, torn, raced>>
vars  == <<revoked, cached, ready, available, pc, target, rows, wipes, known, torn, raced>>

-----------------------------------------------------------------------------

Goto(w, l) == pc' = [pc EXCEPT ![w] = l]

(* Threads whose revocation is in the cache and not yet in the table, and  *)
(* threads whose rebuild has read the table and not yet filled the cache.  *)
Mirrored   == {w \in Worker : pc[w] = "commit"}
Rebuilding == {w \in Worker : pc[w] = "fill"}

-----------------------------------------------------------------------------
(* is_revoked.                                                             *)

Lookup(w) ==
    \E j \in Jti :
        /\ pc[w] = "idle"
        /\ target' = [target EXCEPT ![w] = j]
        /\ known' = [known EXCEPT ![w] = revoked]
        /\ torn' = torn \ {w}
        /\ Goto(w, IF available THEN "get" ELSE "select")
        /\ UNCHANGED <<revoked, cache, rows, wipes, raced>>

(* Mutant: the set is trusted without the sentinel. *)
GetReady_NoSentinel(w) ==
    /\ pc[w] = "get"
    /\ Goto(w, "member")
    /\ UNCHANGED <<revoked, cache, target, rows, past>>

(* GET adf:cache_ready finds the sentinel: the set is asked next.          *)
GetReady(w) ==
    /\ pc[w] = "get"
    /\ ready
    /\ Goto(w, "member")
    /\ UNCHANGED <<revoked, cache, target, rows, past>>

GetMissing(w) ==
    /\ pc[w] = "get"
    /\ ~ready
    /\ Goto(w, "read")
    /\ UNCHANGED <<revoked, cache, target, rows, past>>

(* SISMEMBER adf:revoked jti is the answer.                                *)
Member(w) ==
    /\ pc[w] = "member"
    /\ Goto(w, IF target[w] \in cached THEN "dead" ELSE "live")
    /\ UNCHANGED <<revoked, cache, target, rows, past>>

(* The row in Postgres is the answer.                                      *)
Select(w) ==
    /\ pc[w] = "select"
    /\ Goto(w, IF target[w] \in revoked THEN "dead" ELSE "live")
    /\ UNCHANGED <<revoked, cache, target, rows, past>>

Answer(w) ==
    /\ pc[w] \in {"live", "dead"}
    /\ target' = [target EXCEPT ![w] = None]
    /\ Goto(w, "idle")
    /\ UNCHANGED <<revoked, cache, rows, past>>

-----------------------------------------------------------------------------
(* rebuild_cache, called by a lookup that finds no sentinel: the table is  *)
(* read, then one MULTI/EXEC replaces the set and writes the sentinel.     *)

RebuildSkip(w) ==
    /\ pc[w] = "read"
    /\ ~available
    /\ Goto(w, "select")
    /\ UNCHANGED <<revoked, cache, target, rows, past>>

RebuildRead(w) ==
    /\ pc[w] = "read"
    /\ available
    /\ rows' = [rows EXCEPT ![w] = revoked]
    /\ raced' = (raced \/ Mirrored # {})
    /\ Goto(w, "fill")
    /\ UNCHANGED <<revoked, cache, target, wipes, known, torn>>

RebuildFill(w) ==
    /\ pc[w] = "fill"
    /\ cached' = rows[w]
    /\ ready' = TRUE
    /\ rows' = [rows EXCEPT ![w] = {}]
    /\ Goto(w, "select")
    /\ UNCHANGED <<revoked, available, target, past>>

-----------------------------------------------------------------------------
(* revoke_subtree and the commit of its caller.  The new rows are flushed, *)
(* then the whole subtree is added to the set, then the rows commit.       *)

Revoke(w) ==
    \E j \in Jti :
        /\ pc[w] = "idle"
        /\ \A v \in Worker : pc[v] \in {"mirror", "commit"} => rows[v] \cap Subtree[j] = {}
        /\ target' = [target EXCEPT ![w] = j]
        /\ rows' = [rows EXCEPT ![w] = Subtree[j] \ revoked]
        /\ Goto(w, "mirror")
        /\ UNCHANGED <<revoked, cache, past>>

Mirror(w) ==
    /\ pc[w] = "mirror"
    /\ available
    /\ cached' = cached \cup Subtree[target[w]]
    /\ raced' = (raced \/ Rebuilding # {})
    /\ Goto(w, "commit")
    /\ UNCHANGED <<revoked, ready, available, target, rows, wipes, known, torn>>

MirrorSkip(w) ==
    /\ pc[w] = "mirror"
    /\ ~available
    /\ Goto(w, "commit")
    /\ UNCHANGED <<revoked, cache, target, rows, past>>

(* Mutant: the session keeps what it staged. *)
Leave_RowsStaged(w) ==
    /\ target' = [target EXCEPT ![w] = None]
    /\ UNCHANGED rows
    /\ Goto(w, "idle")

Leave(w) ==
    /\ target' = [target EXCEPT ![w] = None]
    /\ rows' = [rows EXCEPT ![w] = {}]
    /\ Goto(w, "idle")

Commit(w) ==
    /\ pc[w] = "commit"
    /\ revoked' = revoked \cup rows[w]
    /\ Leave(w)
    /\ UNCHANGED <<cache, past>>

(* The commit, or a statement before it, fails.  is_revoked takes an error *)
(* of the rebuild's SELECT, or of the SELECT after it, for one of Redis.   *)
Rollback(w) ==
    /\ \/ pc[w] \in {"select", "mirror", "commit"} /\ UNCHANGED available
       \/ pc[w] \in {"read", "select"} /\ available' = FALSE
    /\ Leave(w)
    /\ UNCHANGED <<revoked, cached, ready, past>>

-----------------------------------------------------------------------------
(* Redis.                                                                  *)

(* Mutant: the error is logged and Redis is asked again. *)
Degrade_LogOnly == UNCHANGED available

(* _degrade: this process asks Redis no more.                              *)
Degrade == available' = FALSE

(* A command raises: a lookup falls back to the table, a revoke goes on.   *)
(* A write may have been applied although its reply was lost.              *)
CommandFails(w) ==
    /\ pc[w] \in {"get", "member", "fill", "mirror"}
    /\ pc[w] = "mirror" => available
    /\ Degrade
    /\ \/ UNCHANGED <<cached, ready>>
       \/ pc[w] = "fill" /\ cached' = rows[w] /\ ready' = TRUE
       \/ pc[w] = "mirror" /\ cached' = cached \cup Subtree[target[w]] /\ UNCHANGED ready
    /\ rows' = IF pc[w] = "fill" THEN [rows EXCEPT ![w] = {}] ELSE rows
    /\ Goto(w, IF pc[w] = "mirror" THEN "commit" ELSE "select")
    /\ UNCHANGED <<revoked, target, past>>

(* Redis restarts empty, or its keys are flushed.                          *)
Wipe ==
    /\ wipes < MaxWipes
    /\ wipes' = wipes + 1
    /\ cached' = {}
    /\ ready' = FALSE
    /\ torn' = torn \cup {w \in Worker : pc[w] = "member"}
    /\ UNCHANGED <<revoked, available, pc, target, rows, known, raced>>

(* init_redis pings, startup rebuilds the cache before a request is        *)
(* served; either may fail, and then Redis is not asked.                   *)
Boot ==
    \/ available' = TRUE /\ cached' = revoked /\ ready' = TRUE
    \/ available' = FALSE /\ UNCHANGED <<cached, ready>>
    \/ available' = FALSE /\ cached' = revoked /\ ready' = TRUE

Restart ==
    /\ Boot
    /\ pc' = [w \in Worker |-> "idle"]
    /\ target' = [w \in Worker |-> None]
    /\ rows' = [w \in Worker |-> {}]
    /\ known' = [w \in Worker |-> {}]
    /\ torn' = {}
    /\ raced' = FALSE
    /\ UNCHANGED <<revoked, wipes>>

Init ==
    /\ revoked = {} /\ cached = {}
    /\ available \in BOOLEAN
    /\ ready = available
    /\ pc = [w \in Worker |-> "idle"]
    /\ target = [w \in Worker |-> None]
    /\ rows = [w \in Worker |-> {}]
    /\ wipes = 0
    /\ known = [w \in Worker |-> {}]
    /\ torn = {}
    /\ raced = FALSE

Asks(w) ==
    \/ Lookup(w) \/ GetReady(w) \/ GetMissing(w) \/ Member(w) \/ Select(w) \/ Answer(w)
    \/ RebuildSkip(w) \/ RebuildRead(w) \/ RebuildFill(w)

Revokes(w) ==
    \/ Revoke(w) \/ Mirror(w) \/ MirrorSkip(w) \/ Commit(w) \/ Rollback(w)

Next ==
    \/ \E w \in Worker : Asks(w) \/ Revokes(w) \/ CommandFails(w)
    \/ Wipe
    \/ Restart

Spec == Init /\ [][Next]_vars

-----------------------------------------------------------------------------
(* Properties.                                                             *)

StoreTypeOK ==
    /\ revoked \subseteq Jti
    /\ cached \subseteq Jti
    /\ ready \in BOOLEAN
    /\ available \in BOOLEAN
    /\ pc \in [Worker -> {"idle", "get", "member", "read", "fill", "select", "live", "dead",
                          "mirror", "commit"}]
    /\ target \in [Worker -> Jti \cup {None}]
    /\ rows \in [Worker -> SUBSET Jti]
    /\ \A w \in Worker : pc[w] \notin {"fill", "mirror", "commit"} => rows[w] = {}
    /\ wipes \in 0 .. MaxWipes
    /\ known \in [Worker -> SUBSET Jti]
    /\ torn \subseteq Worker
    /\ raced \in BOOLEAN

(* As long as the process asks Redis and the sentinel is there, every      *)
(* committed revocation is in the set, whatever commands failed and        *)
(* whenever the cache was wiped or the process restarted, unless a rebuild *)
(* overlapped a revoke.                                                    *)
MirrorComplete == available /\ ready /\ ~raced => revoked \subseteq cached

(* A lookup that answers "not revoked" is right about every revocation     *)
(* committed before it began, unless a wipe fell between its two reads of  *)
(* the cache, or a rebuild overlapped a revoke.                            *)
LiveAnswerIsTrue ==
    \A w \in Worker :
        pc[w] = "live" /\ w \notin torn /\ ~raced => target[w] \notin known[w]

(* The sentinel proves that the cache is fully populated from Postgres.    *)
SentinelProves == available /\ ready => revoked \subseteq cached

=============================================================================
