------------------------------ MODULE Guardrails ------------------------------
(***************************************************************************)
(* The rate limiter and the circuit breaker in front of verify and         *)
(* delegate.                                                               *)
(*                                                                         *)
(* The limiter counts the calls of a subject to an endpoint in a sliding   *)
(* window: in Redis, which the processes share, and once a Redis command   *)
(* has failed in a deque of the process.  A call reads the clock first and *)
(* is counted later, so that calls are counted in another order than they  *)
(* are stamped.  The breaker is a deque of outcomes and a flag, both in    *)
(* the memory of the process; it opens under its lock, reports that to the *)
(* audit log outside it, and is closed by a human or by a restart.         *)
(*                                                                         *)
(* What a request does between the two is left to DelegationEngine: here   *)
(* it succeeds, is denied, or ends without an outcome.                     *)
(***************************************************************************)
EXTENDS Naturals, Sequences, FiniteSets

CONSTANTS
    Thread,        \* the threads that serve requests
    Replica,       \* the processes of the service
    Home,          \* the process of each thread
    Subject,       \* the subjects of the tokens
    Exempt,        \* guardrail_exempt_agents
    Calls,         \* who calls what: pairs of a subject and an endpoint
    Limit,         \* rate_limit_verify_per_min, rate_limit_delegate_per_min
    Window,        \* 60 s for the limiter, circuit_window_seconds for the breaker
    MinSamples,    \* circuit_min_samples
    Ceiling,       \* circuit_volume_ceiling
    ErrorsPer,     \* circuit_error_rate_threshold is one error in ErrorsPer
    CountDenials,  \* circuit_count_policy_denials
    Stall,         \* assumption: how long a call may hang after it read the clock
    Horizon,       \* bound: the last instant of the clock
    MaxCalls,      \* bound: requests
    MaxResets,     \* bound: break-glass calls
    MaxRestarts,   \* bound: restarts
    None           \* the subject of a token that does not decode

Endpoint == {"verify", "delegate"}
Key      == Subject \X Endpoint
Tier     == Replica \cup {"redis"}

ASSUME GuardAssumption ==
    /\ IsFiniteSet(Thread)
    /\ Home \in [Thread -> Replica]
    /\ Exempt \subseteq Subject
    /\ Calls \subseteq (Subject \cup {None}) \X Endpoint
    /\ Limit \in [Endpoint -> Nat \ {0}]
    /\ {Window, MinSamples, Ceiling, ErrorsPer} \subseteq Nat \ {0}
    /\ CountDenials \in BOOLEAN
    /\ {Stall, Horizon, MaxCalls, MaxResets, MaxRestarts} \subseteq Nat
    /\ Stall < Window
    /\ None \notin Subject
    /\ "redis" \notin Replica

VARIABLES
    now,        \* the clock
    available,  \* redis_client._available of each process
    shared,     \* the sorted set of each key in Redis
    deadline,   \* when Redis drops that set
    local,      \* RateLimiter._local of each process
    events,     \* CircuitBreaker._events
    open,       \* CircuitBreaker._open
    req,        \* the request each thread serves: where it is, who calls what,
                \* the clock it has read, and the outcome it records
    glass,      \* where the break-glass call of each process is
    rows,       \* how many circuit_opened and circuit_reset rows the log has
    hits,       \* history: the calls each window has counted, in that order
    outcomes,   \* history: what was recorded since the breaker was last closed
    trips,      \* history: how often a breaker has opened
    lost,       \* history: trips whose report failed or died with its process
    barred,     \* history: requests that arrived at the open breaker
    used        \* how many requests, resets and restarts there have been

limiter == <<available, shared, deadline, local, hits>>
breaker == <<events, open, outcomes, trips>>
report  == <<glass, rows, lost>>
vars    == <<now, limiter, breaker, report, req, barred, used>>

-----------------------------------------------------------------------------

(* A window holds entries with an instant each: a member of the sorted set *)
(* of Redis is the instant and a uuid (nr), a deque repeats instants.      *)
Entry   == [at : Nat, nr : Nat]
Hit     == [at : Nat]
Counted == [at : Nat, granted : BOOLEAN]
Outcome == [at : Nat, error : BOOLEAN]

Stage   == {"idle", "arrived", "passed", "charge", "local", "charged", "throttled",
            "record", "report"}
Request == [pc : Stage, subject : Subject \cup {None}, endpoint : Endpoint,
            stamp : Nat, error : BOOLEAN]

Nothing == [pc |-> "idle", subject |-> None, endpoint |-> "verify",
            stamp |-> 0, error |-> FALSE]

KeyOf(t) == <<req[t].subject, req[t].endpoint>>

(* A request moves on, it reads the clock, or it is over.                  *)
Goto(t, l)  == req' = [req EXCEPT ![t].pc = l, ![t].stamp = 0]
Clock(t, l) == req' = [req EXCEPT ![t].pc = l, ![t].stamp = now]
Finish(t) ==
    /\ req' = [req EXCEPT ![t] = Nothing]
    /\ barred' = [barred EXCEPT ![t] = FALSE]

(* record() reads the clock before it takes the lock.  Every error is a    *)
(* policy denial, and may count as none.                                   *)
ToRecord(t, denied) ==
    req' = [req EXCEPT ![t] = [@ EXCEPT !.pc = "record", !.stamp = now,
                                        !.error = denied /\ CountDenials]]

(* zremrangebyscore removes the entries up to a score, where INCR and      *)
(* EXPIRE would start a new bucket every Window.                           *)
Prune_FixedBucket(s, instant) ==
    {e \in s : e.at \div Window = instant \div Window}

Prune_Never(s, instant) == s

Prune(s, instant) == {e \in s : e.at + Window > instant}

(* while deque and deque[0] < cutoff: popleft().  What is behind a younger *)
(* entry stays, however old it is.                                         *)
PopAged_WholeWindow(s, instant) ==
    IF s # <<>> /\ s[1].at + Window < instant THEN <<>> ELSE s

PopAged(s, instant) ==
    LET kept == {i \in 1 .. Len(s) : \E j \in 1 .. i : s[j].at + Window >= instant}
    IN  SubSeq(s, Len(s) - Cardinality(kept) + 1, Len(s))

(* A key whose time to live has passed is gone.                            *)
InRedis(k) == IF now < deadline[k] THEN shared[k] ELSE {}

-----------------------------------------------------------------------------
(* The request, up to the limiter.                                         *)

Arrive(t) ==
    /\ req[t].pc = "idle"
    /\ used.calls < MaxCalls
    /\ used' = [used EXCEPT !.calls = @ + 1]
    /\ \E c \in Calls :
         req' = [req EXCEPT ![t] = [pc |-> "arrived", subject |-> c[1], endpoint |-> c[2],
                                    stamp |-> 0, error |-> FALSE]]
    /\ barred' = [barred EXCEPT ![t] = open[Home[t]]]
    /\ UNCHANGED <<now, limiter, breaker, report>>

(* The breaker comes first and reads nothing of the token.  It does not    *)
(* close by itself when the errors that opened it have aged.               *)
Closed_Recovered(t) ==
    \A i \in 1 .. Len(events[Home[t]]) : events[Home[t]][i].at + Window < now

Closed(t) == ~open[Home[t]]

Refuse(t) ==
    /\ req[t].pc = "arrived"
    /\ ~Closed(t)
    /\ Finish(t)
    /\ UNCHANGED <<now, limiter, breaker, report, used>>

Pass(t) ==
    /\ req[t].pc = "arrived"
    /\ Closed(t)
    /\ Goto(t, "passed")
    /\ UNCHANGED <<now, limiter, breaker, report, barred, used>>

(* A token that does not decode charges nobody.  verify counts it against  *)
(* the breaker; delegate raises, as it does for any parent that is not     *)
(* live.                                                                   *)
Undecodable(t) ==
    /\ req[t].pc = "passed"
    /\ req[t].subject = None
    /\ req[t].endpoint = "verify"
    /\ ToRecord(t, TRUE)
    /\ UNCHANGED <<now, limiter, breaker, report, barred, used>>

ParentInvalid(t) ==
    /\ req[t].pc = "passed"
    /\ req[t].endpoint = "delegate"
    /\ Finish(t)
    /\ UNCHANGED <<now, limiter, breaker, report, used>>

CheckExempt(t) ==
    /\ req[t].pc = "passed"
    /\ req[t].subject \in Exempt
    /\ Goto(t, "charged")
    /\ UNCHANGED <<now, limiter, breaker, report, barred, used>>

(* check() reads the clock, then whether Redis is in use, and finds the    *)
(* answer to both still so or not when it counts the call.                 *)
Check(t) ==
    /\ req[t].pc = "passed"
    /\ req[t].subject \in Subject \ Exempt
    /\ Clock(t, IF available[Home[t]] THEN "charge" ELSE "local")
    /\ UNCHANGED <<now, limiter, breaker, report, barred, used>>

-----------------------------------------------------------------------------
(* The limiter.  The calls beyond the limit are counted like the others.   *)

Verdict(t, tier, count) ==
    LET granted == count <= Limit[req[t].endpoint]
    IN  /\ hits' = [hits EXCEPT ![tier][KeyOf(t)] =
                      Append(@, [at |-> req[t].stamp, granted |-> granted])]
        /\ IF granted THEN Goto(t, "charged")
                      ELSE req' = [req EXCEPT ![t].pc = "throttled"]

(* One pipeline: zremrangebyscore, zadd, zcard, expire.                    *)
Pipeline(t) ==
    LET k == KeyOf(t)
    IN  /\ shared'   = [shared EXCEPT ![k] =
                          Prune(InRedis(k), req[t].stamp) \cup
                            {[at |-> req[t].stamp, nr |-> Len(hits["redis"][k]) + 1]}]
        /\ deadline' = [deadline EXCEPT ![k] = now + Window + 1]

CountShared(t) ==
    /\ req[t].pc = "charge"
    /\ Pipeline(t)
    /\ Verdict(t, "redis", Cardinality(shared'[KeyOf(t)]))
    /\ UNCHANGED <<now, available, local, breaker, report, barred, used>>

(* Redis fails, before it has run the pipeline or after: the process turns *)
(* to its own window.                                                      *)
SharedFails(t) ==
    /\ req[t].pc = "charge"
    /\ \/ /\ Pipeline(t)
          /\ hits' = [hits EXCEPT !["redis"][KeyOf(t)] =
                        Append(@, [at |-> req[t].stamp, granted |-> FALSE])]
       \/ UNCHANGED <<shared, deadline, hits>>
    /\ available' = [available EXCEPT ![Home[t]] = FALSE]
    /\ req' = [req EXCEPT ![t].pc = "local"]
    /\ UNCHANGED <<now, local, breaker, report, barred, used>>

CountLocal(t) ==
    /\ req[t].pc = "local"
    /\ local' = [local EXCEPT ![Home[t]][KeyOf(t)] =
                   Append(PopAged(@, req[t].stamp), [at |-> req[t].stamp])]
    /\ Verdict(t, Home[t], Len(local'[Home[t]][KeyOf(t)]))
    /\ UNCHANGED <<now, available, shared, deadline, breaker, report, barred, used>>

(* A throttled call is answered 429; the breaker does not hear of it.      *)
TooMany(t) ==
    /\ req[t].pc = "throttled"
    /\ Finish(t)
    /\ UNCHANGED <<now, limiter, breaker, report, used>>

(* /health asks for the window of every key, a revocation lookup for its   *)
(* set: either may find Redis gone.                                        *)
MarkUnavailable(r) ==
    /\ available' = [available EXCEPT ![r] = FALSE]
    /\ UNCHANGED <<now, shared, deadline, local, hits, breaker, report, req, barred, used>>

-----------------------------------------------------------------------------
(* The outcome, and the breaker.                                           *)

Decide(t) ==
    /\ req[t].pc = "charged"
    /\ req[t].subject \notin Exempt
    /\ \E denied \in BOOLEAN : ToRecord(t, denied)
    /\ UNCHANGED <<now, limiter, breaker, report, barred, used>>

(* A broken root chain or an exception is not recorded, nor is whatever    *)
(* an exempt subject does.                                                 *)
Raise(t) ==
    /\ req[t].pc = "charged"
    /\ Finish(t)
    /\ UNCHANGED <<now, limiter, breaker, report, used>>

Failing(samples, errors) ==
    \/ samples >= MinSamples /\ ErrorsPer * errors >= samples
    \/ samples > Ceiling

Unhealthy(s) == Failing(Len(s), Cardinality({i \in DOMAIN s : s[i].error}))

Trips_EvenIfOpen(r, s) == Unhealthy(s)

Trips(r, s) == ~open[r] /\ Unhealthy(s)

Record(t) ==
    LET r    == Home[t]
        mine == [at |-> req[t].stamp, error |-> req[t].error]
        kept == PopAged(Append(events[r], mine), mine.at)
    IN  /\ req[t].pc = "record"
        /\ events'   = [events EXCEPT ![r] = kept]
        /\ open'     = [open EXCEPT ![r] = @ \/ Trips(r, kept)]
        /\ outcomes' = [outcomes EXCEPT ![r] = Append(@, mine)]
        /\ trips'    = IF open'[r] /\ ~open[r] THEN trips + 1 ELSE trips
        /\ IF Trips(r, kept) THEN Goto(t, "report") /\ barred' = barred ELSE Finish(t)
        /\ UNCHANGED <<now, limiter, report, used>>

(* The callback writes circuit_opened, or fails and is logged.             *)
Report(t) ==
    /\ req[t].pc = "report"
    /\ \/ rows' = [rows EXCEPT !.opened = @ + 1] /\ lost' = lost
       \/ lost' = lost + 1 /\ rows' = rows
    /\ Finish(t)
    /\ UNCHANGED <<now, limiter, breaker, glass, used>>

Close(r) ==
    /\ open'     = [open EXCEPT ![r] = FALSE]
    /\ events'   = [events EXCEPT ![r] = <<>>]
    /\ outcomes' = [outcomes EXCEPT ![r] = <<>>]
    /\ barred'   = [t \in Thread |-> barred[t] /\ Home[t] # r]
    /\ trips'    = trips

(* Break glass: the breaker is closed and its window cleared, then the     *)
(* call is audited, which may fail.                                        *)
Reset(r) ==
    /\ glass[r] = "idle"
    /\ used.resets < MaxResets
    /\ used' = [used EXCEPT !.resets = @ + 1]
    /\ Close(r)
    /\ glass' = [glass EXCEPT ![r] = "audit"]
    /\ UNCHANGED <<now, limiter, req, rows, lost>>

ResetAudit(r) ==
    /\ glass[r] = "audit"
    /\ rows' \in {rows, [rows EXCEPT !.reset = @ + 1]}
    /\ glass' = [glass EXCEPT ![r] = "idle"]
    /\ UNCHANGED <<now, limiter, breaker, req, barred, used, lost>>

-----------------------------------------------------------------------------

(* Threads that have opened a breaker and not yet reported it.             *)
Reporting == {t \in Thread : req[t].pc = "report"}

(* The process ends and starts again, and finds Redis.                     *)
Restart(r) ==
    /\ used.restarts < MaxRestarts
    /\ used' = [used EXCEPT !.restarts = @ + 1]
    /\ Close(r)
    /\ available' = [available EXCEPT ![r] = TRUE]
    /\ local' = [local EXCEPT ![r] = [k \in Key |-> <<>>]]
    /\ hits'  = [hits EXCEPT ![r] = [k \in Key |-> <<>>]]
    /\ req'   = [t \in Thread |-> IF Home[t] = r THEN Nothing ELSE req[t]]
    /\ glass' = [glass EXCEPT ![r] = "idle"]
    /\ lost'  = lost + Cardinality({t \in Reporting : Home[t] = r})
    /\ UNCHANGED <<now, shared, deadline, rows>>

(* A call that has read the clock is counted before Stall has passed.      *)
Hanging == {t \in Thread : req[t].pc \in {"charge", "local", "record"}}

Tick ==
    /\ now < Horizon
    /\ \A t \in Hanging : now < req[t].stamp + Stall
    /\ now' = now + 1
    /\ UNCHANGED <<limiter, breaker, report, req, barred, used>>

-----------------------------------------------------------------------------

Init ==
    /\ now = 0
    /\ available = [r \in Replica |-> TRUE]
    /\ shared = [k \in Key |-> {}]
    /\ deadline = [k \in Key |-> 0]
    /\ local = [r \in Replica |-> [k \in Key |-> <<>>]]
    /\ hits = [i \in Tier |-> [k \in Key |-> <<>>]]
    /\ events = [r \in Replica |-> <<>>]
    /\ open = [r \in Replica |-> FALSE]
    /\ outcomes = [r \in Replica |-> <<>>]
    /\ trips = 0
    /\ req = [t \in Thread |-> Nothing]
    /\ barred = [t \in Thread |-> FALSE]
    /\ glass = [r \in Replica |-> "idle"]
    /\ rows = [opened |-> 0, reset |-> 0]
    /\ lost = 0
    /\ used = [calls |-> 0, resets |-> 0, restarts |-> 0]

Step(t) ==
    \/ Arrive(t) \/ Refuse(t) \/ Pass(t) \/ Undecodable(t) \/ ParentInvalid(t)
    \/ CheckExempt(t) \/ Check(t) \/ CountShared(t) \/ SharedFails(t)
    \/ CountLocal(t) \/ TooMany(t) \/ Decide(t) \/ Raise(t)
    \/ Record(t) \/ Report(t)

Next ==
    \/ \E t \in Thread : Step(t)
    \/ \E r \in Replica : MarkUnavailable(r) \/ Reset(r) \/ ResetAudit(r) \/ Restart(r)
    \/ Tick

Spec == Init /\ [][Next]_vars

-----------------------------------------------------------------------------
(* Properties.                                                             *)

(* The variables have their types, and only a subject that has a window    *)
(* reaches the limiter.                                                    *)
GuardTypeOK ==
    /\ now \in Nat
    /\ available \in [Replica -> BOOLEAN]
    /\ shared \in [Key -> SUBSET Entry]
    /\ deadline \in [Key -> Nat]
    /\ local \in [Replica -> [Key -> Seq(Hit)]]
    /\ hits \in [Tier -> [Key -> Seq(Counted)]]
    /\ events \in [Replica -> Seq(Outcome)]
    /\ outcomes \in [Replica -> Seq(Outcome)]
    /\ open \in [Replica -> BOOLEAN]
    /\ req \in [Thread -> Request]
    /\ \A t \in Thread : req[t].pc \in {"charge", "local", "throttled"} =>
         req[t].subject \in Subject \ Exempt
    /\ barred \in [Thread -> BOOLEAN]
    /\ glass \in [Replica -> {"idle", "audit"}]
    /\ rows \in [opened : Nat, reset : Nat]
    /\ used \in [calls : Nat, resets : Nat, restarts : Nat]
    /\ {trips, lost} \subseteq Nat

(* A sliding window, not a bucket: of the calls that Redis, or one process *)
(* on its own, has counted for a subject in the Window up to the newest of *)
(* them, no more than the limit were let through, in whatever order the    *)
(* calls reached it and whatever it has forgotten since.                   *)
TrailingBudget ==
    \A i \in Tier, k \in Key :
        LET all == hits[i][k]
        IN  Cardinality({n \in DOMAIN all :
                           /\ all[n].granted
                           /\ \A m \in DOMAIN all : all[n].at + Window > all[m].at})
              <= Limit[k[2]]

(* Waiting for retry_after helps: Redis refuses a call only if, with it,   *)
(* more calls than the limit were made after the beginning of its Window.  *)
(* Redis refused it if its process has not turned to its own window.       *)
RejectedHadCause ==
    \A t \in Thread :
        req[t].pc = "throttled" /\ available[Home[t]] =>
            LET all == hits["redis"][KeyOf(t)]
            IN  Cardinality({n \in DOMAIN all : all[n].at + Window > req[t].stamp})
                  > Limit[req[t].endpoint]

(* A request that arrives at the open breaker gets no further, unless a    *)
(* human closes it or the process restarts in the meantime: it reaches     *)
(* neither the limiter nor an outcome.                                     *)
OpenRefuses == \A t \in Thread : barred[t] => req[t].pc = "arrived"

InOrder(s) == \A i, j \in 1 .. Len(s) : i < j => s[i].at <= s[j].at

(* The breaker does not sleep through an incident: while it is closed, the *)
(* outcomes recorded since it was last closed, in the Window up to the     *)
(* newest, do not call for it to open, unless threads have recorded theirs *)
(* out of order.                                                           *)
NoFalseCalm ==
    \A r \in Replica :
        LET past   == outcomes[r]
            recent == {n \in DOMAIN past :
                         \A m \in DOMAIN past : past[n].at + Window >= past[m].at}
        IN  ~open[r] /\ InOrder(events[r]) =>
              ~Failing(Cardinality(recent), Cardinality({n \in recent : past[n].error}))

(* The hook fires once for a trip: each circuit_opened row stands for one  *)
(* opening of a breaker, and an opening lacks its row only while the hook  *)
(* runs, or when it failed or its process died.                            *)
OneReportPerTrip ==
    rows.opened + lost + Cardinality(Reporting) = trips

=============================================================================
