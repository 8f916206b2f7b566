--------------------------- MODULE GuardrailsProofs ---------------------------
(* Theorems about Guardrails, for every number of threads and processes,   *)
(* every limit, threshold and traffic, and without bounds on the histories.*)
EXTENDS Guardrails, FiniteSetTheorems, FunctionTheorems, SequenceTheorems, TLAPS

(* The part of the type invariant that the arguments below rest on.        *)
CoreTypeOK ==
    /\ now \in Nat
    /\ open \in [Replica -> BOOLEAN]
    /\ req \in [Thread -> Request]
    /\ barred \in [Thread -> BOOLEAN]
    /\ rows \in [opened : Nat, reset : Nat]
    /\ trips \in Nat
    /\ lost \in Nat

(* Why a barred request stays where it is: its breaker is still open.      *)
BarredIsOpen == \A t \in Thread : barred[t] => req[t].pc = "arrived" /\ open[Home[t]]

IInv == CoreTypeOK /\ BarredIsOpen /\ OneReportPerTrip

(* The requests that report are finitely many, so they can be counted.     *)
LEMMA ReportingFinite == IsFiniteSet(Reporting) /\ Cardinality(Reporting) \in Nat
BY GuardAssumption, FS_Subset, FS_CardinalityType DEF Reporting

(* A step of a thread that neither begins nor ends a report leaves the     *)
(* requests that report as they are.                                       *)
LEMMA SameReports ==
    ASSUME CoreTypeOK, NEW t \in Thread,
           req' \in [Thread -> Request],
           \A u \in Thread \ {t} : req'[u] = req[u],
           req[t].pc # "report", req'[t].pc # "report"
    PROVE  Reporting' = Reporting
BY DEF Reporting

(* What a request becomes, as types see it.                                *)
LEMMA Moves ==
    ASSUME CoreTypeOK, NEW t \in Thread, NEW l \in Stage, Goto(t, l)
    PROVE  /\ req' \in [Thread -> Request]
           /\ \A u \in Thread \ {t} : req'[u] = req[u]
           /\ req'[t].pc = l
BY DEF CoreTypeOK, Goto, Request

LEMMA Ends ==
    ASSUME CoreTypeOK, NEW t \in Thread, Finish(t)
    PROVE  /\ req' \in [Thread -> Request]
           /\ \A u \in Thread \ {t} : req'[u] = req[u] /\ barred'[u] = barred[u]
           /\ req'[t].pc = "idle"
           /\ barred' \in [Thread -> BOOLEAN]
           /\ ~barred'[t]
<1>1. Nothing \in Request /\ Nothing.pc = "idle"
    BY DEF Nothing, Request, Stage, Endpoint
<1> QED BY <1>1 DEF CoreTypeOK, Finish

(* A step that ends a request which reports nothing.                       *)
LEMMA EndInv ==
    ASSUME IInv, NEW t \in Thread, req[t].pc # "report", Finish(t),
           UNCHANGED <<now, open, trips, report>>
    PROVE  IInv'
<1>1. CoreTypeOK' /\ BarredIsOpen'
    BY Ends DEF IInv, CoreTypeOK, BarredIsOpen, report
<1>2. Reporting' = Reporting
    <2>1. /\ req' \in [Thread -> Request]
          /\ \A u \in Thread \ {t} : req'[u] = req[u]
          /\ req'[t].pc # "report"
        BY Ends DEF IInv
    <2> QED BY <2>1, SameReports DEF IInv
<1> QED BY <1>1, <1>2 DEF IInv, OneReportPerTrip, report

(* A step that takes a request from one stage to another, neither of which *)
(* is a report.                                                            *)
LEMMA MoveInv ==
    ASSUME IInv, NEW t \in Thread,
           req' \in [Thread -> Request],
           \A u \in Thread \ {t} : req'[u] = req[u],
           req[t].pc # "report", req'[t].pc # "report",
           ~barred[t],
           UNCHANGED <<now, open, trips, report, barred>>
    PROVE  IInv'
<1>1. CoreTypeOK' /\ BarredIsOpen'
    BY DEF IInv, CoreTypeOK, BarredIsOpen, report
<1>2. Reporting' = Reporting
    BY SameReports DEF IInv
<1> QED BY <1>1, <1>2 DEF IInv, OneReportPerTrip, report

(* The request enters, and is barred if the breaker is open.               *)
LEMMA ArriveInv ==
    ASSUME IInv, NEW t \in Thread, Arrive(t)
    PROVE  IInv'
<1>1. PICK c \in Calls :
        req' = [req EXCEPT ![t] = [pc |-> "arrived", subject |-> c[1], endpoint |-> c[2],
                                   stamp |-> 0, error |-> FALSE]]
    BY DEF Arrive
<1> DEFINE new == [pc |-> "arrived", subject |-> c[1], endpoint |-> c[2],
                   stamp |-> 0, error |-> FALSE]
<1>2. c[1] \in Subject \cup {None} /\ c[2] \in Endpoint
    BY GuardAssumption
<1>3. /\ req' \in [Thread -> Request]
      /\ \A u \in Thread \ {t} : req'[u] = req[u]
      /\ req'[t].pc = "arrived"
    <2>1. new \in Request /\ new.pc = "arrived"
        BY <1>2 DEF Request, Stage
    <2>2. req' = [req EXCEPT ![t] = new]
        BY <1>1
    <2> HIDE DEF new
    <2> QED BY <2>1, <2>2 DEF IInv, CoreTypeOK
<1>4. CoreTypeOK'
    BY <1>3, GuardAssumption DEF IInv, CoreTypeOK, Arrive, breaker, report
<1>5. BarredIsOpen'
    BY <1>3 DEF IInv, CoreTypeOK, BarredIsOpen, Arrive, breaker
<1>6. Reporting' = Reporting
    BY <1>3, SameReports DEF IInv, Arrive
<1> QED BY <1>4, <1>5, <1>6 DEF IInv, OneReportPerTrip, Arrive, breaker, report

(* The steps of a request that goes on or ends, and reports nothing.       *)
LEMMA RequestInv ==
    ASSUME IInv, NEW t \in Thread,
           \/ Refuse(t) \/ Pass(t) \/ Undecodable(t) \/ ParentInvalid(t)
           \/ CheckExempt(t) \/ Check(t) \/ TooMany(t) \/ Decide(t) \/ Raise(t)
    PROVE  IInv'
<1>1. CASE Refuse(t) \/ ParentInvalid(t) \/ TooMany(t) \/ Raise(t)
    BY <1>1, EndInv DEF Refuse, ParentInvalid, TooMany, Raise, breaker
<1>2. CASE Pass(t)
    <2>1. ~barred[t] /\ req[t].pc # "report"
        BY <1>2 DEF Pass, Closed, IInv, BarredIsOpen
    <2>2. Goto(t, "passed") /\ UNCHANGED <<now, open, trips, report, barred>>
        BY <1>2 DEF Pass, breaker
    <2> QED BY <2>1, <2>2, Moves, MoveInv DEF IInv, Stage
<1>3. CASE CheckExempt(t)
    <2>1. ~barred[t] /\ req[t].pc # "report"
        BY <1>3 DEF CheckExempt, IInv, BarredIsOpen
    <2>2. Goto(t, "charged") /\ UNCHANGED <<now, open, trips, report, barred>>
        BY <1>3 DEF CheckExempt, breaker
    <2> QED BY <2>1, <2>2, Moves, MoveInv DEF IInv, Stage
<1>4. CASE Undecodable(t) \/ Decide(t)
    <2>1. ~barred[t] /\ req[t].pc # "report"
        BY <1>4 DEF Undecodable, Decide, IInv, BarredIsOpen
    <2>2. UNCHANGED <<now, open, trips, report, barred>>
        BY <1>4 DEF Undecodable, Decide, breaker
    <2>3. PICK denied \in BOOLEAN : ToRecord(t, denied)
        BY <1>4 DEF Undecodable, Decide
    <2> DEFINE counts == denied /\ CountDenials
               new == [req[t] EXCEPT !.pc = "record", !.stamp = now, !.error = counts]
    <2>4. new \in Request /\ new.pc = "record"
        <3>1. counts \in BOOLEAN
            BY GuardAssumption
        <3> HIDE DEF counts
        <3> QED BY <3>1 DEF IInv, CoreTypeOK, Request, Stage
    <2>5. /\ req' \in [Thread -> Request]
          /\ \A u \in Thread \ {t} : req'[u] = req[u]
          /\ req'[t].pc = "record"
        <3>1. req' = [req EXCEPT ![t] = new]
            BY <2>3 DEF ToRecord
        <3> HIDE DEF new
        <3> QED BY <2>4, <3>1 DEF IInv, CoreTypeOK
    <2> QED BY <2>1, <2>2, <2>5, MoveInv
<1>5. CASE Check(t)
    <2>1. ~barred[t] /\ req[t].pc # "report"
        BY <1>5 DEF Check, IInv, BarredIsOpen
    <2>2. UNCHANGED <<now, open, trips, report, barred>>
        BY <1>5 DEF Check, breaker
    <2>3. /\ req' \in [Thread -> Request]
          /\ \A u \in Thread \ {t} : req'[u] = req[u]
          /\ req'[t].pc \in {"charge", "local"}
        <3>1. PICK l \in {"charge", "local"} : Clock(t, l)
            BY <1>5 DEF Check
        <3>2. req \in [Thread -> Request] /\ now \in Nat
            BY DEF IInv, CoreTypeOK
        <3> QED BY <3>1, <3>2 DEF Clock, Request, Stage
    <2> QED BY <2>1, <2>2, <2>3, MoveInv
<1> QED BY <1>1, <1>2, <1>3, <1>4, <1>5

(* The steps of the limiter.                                               *)
LEMMA LimiterInv ==
    ASSUME IInv, NEW t \in Thread, CountShared(t) \/ SharedFails(t) \/ CountLocal(t)
    PROVE  IInv'
<1>1. ~barred[t] /\ req[t].pc # "report"
    BY DEF CountShared, SharedFails, CountLocal, IInv, BarredIsOpen
<1>2. UNCHANGED <<now, open, trips, report, barred>>
    BY DEF CountShared, SharedFails, CountLocal, breaker
<1>3. \/ Goto(t, "charged")
      \/ req' = [req EXCEPT ![t].pc = "throttled"]
      \/ req' = [req EXCEPT ![t].pc = "local"]
    BY DEF CountShared, SharedFails, CountLocal, Verdict
<1>4. /\ req' \in [Thread -> Request]
      /\ \A u \in Thread \ {t} : req'[u] = req[u]
      /\ req'[t].pc \in {"charged", "throttled", "local"}
    <2>1. CASE Goto(t, "charged")
        BY <2>1, Moves DEF IInv, Stage
    <2>2. CASE \E l \in {"throttled", "local"} : req' = [req EXCEPT ![t].pc = l]
        <3>1. req \in [Thread -> Request]
            BY DEF IInv, CoreTypeOK
        <3> QED BY <2>2, <3>1 DEF Request, Stage
    <2> QED BY <1>3, <2>1, <2>2
<1> QED BY <1>1, <1>2, <1>4, MoveInv

(* An outcome that opens the breaker adds one trip and one request that    *)
(* reports it; any other ends the request.                                 *)
LEMMA RecordInv ==
    ASSUME IInv, NEW t \in Thread, Record(t)
    PROVE  IInv'
<1> DEFINE r    == Home[t]
           mine == [at |-> req[t].stamp, error |-> req[t].error]
           kept == PopAged(Append(events[r], mine), mine.at)
<1>1. /\ req[t].pc = "record"
      /\ open' = [open EXCEPT ![r] = @ \/ Trips(r, kept)]
      /\ trips' = IF open'[r] /\ ~open[r] THEN trips + 1 ELSE trips
      /\ IF Trips(r, kept) THEN Goto(t, "report") /\ barred' = barred ELSE Finish(t)
      /\ UNCHANGED <<now, limiter, report, used>>
    BY DEF Record
<1> HIDE DEF kept
<1>2. r \in Replica
    BY GuardAssumption
<1>3. Trips(r, kept) \in BOOLEAN
    BY DEF Trips, Unhealthy
<1>4. CASE Trips(r, kept)
    <2>1. ~open[r] /\ open' = [open EXCEPT ![r] = TRUE]
        BY <1>1, <1>2, <1>4 DEF Trips, IInv, CoreTypeOK
    <2>2. trips' = trips + 1
        BY <1>1, <1>2, <2>1 DEF IInv, CoreTypeOK
    <2>3. /\ req' \in [Thread -> Request]
          /\ \A u \in Thread \ {t} : req'[u] = req[u]
          /\ req'[t].pc = "report"
          /\ barred' = barred
        BY <1>1, <1>4, Moves DEF IInv, Stage
    <2>4. CoreTypeOK'
        BY <1>1, <2>1, <2>2, <2>3 DEF IInv, CoreTypeOK, report
    <2>5. BarredIsOpen'
        BY <1>1, <2>1, <2>3, GuardAssumption DEF IInv, CoreTypeOK, BarredIsOpen
    <2>6. Reporting' = Reporting \cup {t} /\ t \notin Reporting
        BY <1>1, <2>3 DEF Reporting
    <2>7. Cardinality(Reporting') = Cardinality(Reporting) + 1
        BY <2>6, ReportingFinite, FS_AddElement
    <2> QED BY <1>1, <2>2, <2>4, <2>5, <2>7, ReportingFinite
            DEF IInv, CoreTypeOK, OneReportPerTrip, report
<1>5. CASE ~Trips(r, kept)
    <2>1. open' = open
        BY <1>1, <1>2, <1>5 DEF IInv, CoreTypeOK
    <2>2. trips' = trips
        BY <1>1, <2>1
    <2> QED BY <1>1, <1>5, <2>1, <2>2, EndInv
<1> QED BY <1>3, <1>4, <1>5

(* A report turns one request that reports into one row, or one loss.      *)
LEMMA ReportInv ==
    ASSUME IInv, NEW t \in Thread, Report(t)
    PROVE  IInv'
<1>1. /\ req' \in [Thread -> Request]
      /\ \A u \in Thread \ {t} : req'[u] = req[u] /\ barred'[u] = barred[u]
      /\ req'[t].pc = "idle"
      /\ barred' \in [Thread -> BOOLEAN]
      /\ ~barred'[t]
    BY Ends DEF Report, IInv
<1>2. CoreTypeOK'
    BY <1>1 DEF IInv, CoreTypeOK, Report, breaker
<1>3. BarredIsOpen'
    BY <1>1 DEF IInv, BarredIsOpen, Report, breaker
<1>4. Reporting' = Reporting \ {t} /\ t \in Reporting
    BY <1>1 DEF Reporting, Report
<1>5. Cardinality(Reporting') = Cardinality(Reporting) - 1
    BY <1>4, ReportingFinite, FS_RemoveElement
<1>6. rows'.opened + lost' = rows.opened + lost + 1 /\ trips' = trips
    BY DEF Report, breaker, IInv, CoreTypeOK
<1> QED BY <1>2, <1>3, <1>5, <1>6, ReportingFinite DEF IInv, CoreTypeOK, OneReportPerTrip

(* A human closes the breaker: no request of its process is barred then.   *)
LEMMA ResetInv ==
    ASSUME IInv, NEW r \in Replica, Reset(r)
    PROVE  IInv'
<1>1. CoreTypeOK'
    BY DEF IInv, CoreTypeOK, Reset, Close
<1>2. BarredIsOpen'
    BY GuardAssumption DEF IInv, CoreTypeOK, BarredIsOpen, Reset, Close
<1> QED BY <1>1, <1>2 DEF IInv, OneReportPerTrip, Reporting, Reset, Close

(* The reports that die with a process are lost, the others go on.         *)
LEMMA RestartInv ==
    ASSUME IInv, NEW r \in Replica, Restart(r)
    PROVE  IInv'
<1> DEFINE dying == {t \in Reporting : Home[t] = r}
<1>1. Nothing \in Request /\ Nothing.pc = "idle"
    BY DEF Nothing, Request, Stage, Endpoint
<1>2. IsFiniteSet(dying) /\ Cardinality(dying) \in Nat
    BY ReportingFinite, FS_Subset, FS_CardinalityType
<1>3. CoreTypeOK'
    BY <1>1, <1>2 DEF IInv, CoreTypeOK, Restart, Close
<1>4. BarredIsOpen'
    BY GuardAssumption DEF IInv, CoreTypeOK, BarredIsOpen, Restart, Close
<1>5. Reporting' = Reporting \ dying
    BY <1>1 DEF Reporting, Restart, IInv, CoreTypeOK
<1>6. Reporting \cap dying = dying
    OBVIOUS
<1>7. Cardinality(Reporting') = Cardinality(Reporting) - Cardinality(dying)
    <2>1. /\ IsFiniteSet(Reporting \ dying)
          /\ Cardinality(Reporting \ dying)
               = Cardinality(Reporting) - Cardinality(Reporting \cap dying)
        BY <1>2, ReportingFinite, FS_Difference
    <2> QED BY <1>5, <1>6, <2>1
<1>8. lost' = lost + Cardinality(dying) /\ trips' = trips /\ rows' = rows
    BY DEF Restart, Close
<1> QED BY <1>2, <1>3, <1>4, <1>7, <1>8, ReportingFinite DEF IInv, CoreTypeOK, OneReportPerTrip

(* The steps of the environment touch none of it.                          *)
LEMMA AsideInv ==
    ASSUME IInv,
           Tick \/ UNCHANGED vars \/ \E r \in Replica : MarkUnavailable(r) \/ ResetAudit(r)
    PROVE  IInv'
<1>1. UNCHANGED <<open, req, barred, trips, lost>> /\ rows'.opened = rows.opened
    BY DEF Tick, MarkUnavailable, ResetAudit, vars, breaker, report, IInv, CoreTypeOK
<1>2. now' \in Nat /\ rows' \in [opened : Nat, reset : Nat]
    BY DEF Tick, MarkUnavailable, ResetAudit, vars, report, IInv, CoreTypeOK
<1> QED BY <1>1, <1>2 DEF IInv, CoreTypeOK, BarredIsOpen, OneReportPerTrip, Reporting

LEMMA InitInv == Init => IInv
<1> SUFFICES ASSUME Init PROVE IInv
    OBVIOUS
<1>1. Nothing \in Request /\ Nothing.pc = "idle"
    BY DEF Nothing, Request, Stage, Endpoint
<1>2. CoreTypeOK /\ BarredIsOpen
    BY <1>1 DEF Init, CoreTypeOK, BarredIsOpen
<1>3. Reporting = {}
    BY <1>1 DEF Init, Reporting
<1>4. Cardinality(Reporting) = 0
    BY <1>3, FS_EmptySet
<1> QED BY <1>2, <1>4 DEF IInv, OneReportPerTrip, Init

LEMMA StepInv == IInv /\ [Next]_vars => IInv'
<1> SUFFICES ASSUME IInv, [Next]_vars PROVE IInv'
    OBVIOUS
<1>1. ASSUME NEW t \in Thread, Step(t) PROVE IInv'
    BY <1>1, ArriveInv, RequestInv, LimiterInv, RecordInv, ReportInv DEF Step
<1>2. ASSUME NEW r \in Replica, MarkUnavailable(r) \/ Reset(r) \/ ResetAudit(r) \/ Restart(r)
      PROVE  IInv'
    BY <1>2, AsideInv, ResetInv, RestartInv
<1> QED BY <1>1, <1>2, AsideInv DEF Next

LEMMA Invariance == Spec => []IInv
BY InitInv, StepInv, PTL DEF Spec

(* A request that arrives at an open breaker is refused, however the other *)
(* threads move, unless a human or a restart closes the breaker before it  *)
(* is looked at.                                                           *)
THEOREM OpenRefusesHolds == Spec => []OpenRefuses
<1>1. IInv => OpenRefuses
    BY DEF IInv, BarredIsOpen, OpenRefuses
<1> QED BY <1>1, Invariance, PTL

(* Each circuit_opened row stands for one opening of a breaker, and every  *)
(* opening has its row, is about to, or lost it with a failure.            *)
THEOREM OneReportHolds == Spec => []OneReportPerTrip
<1>1. IInv => OneReportPerTrip
    BY DEF IInv
<1> QED BY <1>1, Invariance, PTL

-----------------------------------------------------------------------------
(* Windows: what a deque and a sorted set keep, and how many that are.     *)

LEMMA SuffixOf ==
    ASSUME NEW S, NEW s \in Seq(S), NEW c \in 0 .. Len(s)
    PROVE  LET rest == SubSeq(s, Len(s) - c + 1, Len(s))
           IN  /\ rest \in Seq(S) /\ Len(rest) = c
               /\ \A i \in 1 .. c : rest[i] = s[Len(s) - c + i]
<1> DEFINE m    == Len(s) - c + 1
           rest == SubSeq(s, m, Len(s))
<1>1. /\ Len(s) \in Nat /\ c \in Nat /\ m \in Int /\ m >= 1
      /\ \A i \in m .. Len(s) : s[i] \in S
  <2>1. Len(s) \in Nat /\ c \in Nat /\ m \in Int /\ m >= 1
    BY LenProperties
  <2>2. ASSUME NEW i \in m .. Len(s) PROVE s[i] \in S
    <3>1. i \in 1 .. Len(s)
      BY <2>1
    <3> QED  BY <3>1, ElementOfSeq
  <2> QED  BY <2>1, <2>2
<1>2. /\ rest \in Seq(S)
      /\ Len(rest) = IF m <= Len(s) THEN Len(s) - m + 1 ELSE 0
      /\ \A i \in 1 .. Len(s) - m + 1 : rest[i] = s[m + i - 1]
  <2> HIDE DEF m
  <2> QED  BY <1>1, SubSeqProperties
<1> HIDE DEF rest
<1>3. Len(rest) = c
  BY <1>1, <1>2
<1>4. ASSUME NEW i \in 1 .. c
      PROVE  rest[i] = s[Len(s) - c + i]
  <2>1. i \in 1 .. Len(s) - m + 1 /\ m + i - 1 = Len(s) - c + i
    BY <1>1
  <2>2. rest[i] = s[m + i - 1]
    BY <1>2, <2>1
  <2> QED  BY <2>1, <2>2
<1> QED  BY <1>2, <1>3, <1>4 DEF rest

(* popleft removes aged entries up to the first that is not.               *)
LEMMA PopAgedIs ==
    ASSUME NEW S, NEW s \in Seq(S), NEW instant \in Nat,
           \A i \in 1 .. Len(s) : s[i].at \in Nat
    PROVE  LET kept == PopAged(s, instant)
               gone == Len(s) - Len(kept)
           IN  /\ kept \in Seq(S) /\ Len(kept) \in 0 .. Len(s)
               /\ \A i \in 1 .. Len(kept) : kept[i] = s[gone + i]
               /\ \A i \in 1 .. gone : s[i].at + Window < instant
               /\ \A i \in 1 .. Len(kept) : \E j \in 1 .. i : kept[j].at + Window >= instant
<1> DEFINE n == Len(s)
           young(j) == s[j].at + Window >= instant
           K == {i \in 1 .. n : \E j \in 1 .. i : young(j)}
           c == Cardinality(K)
           kept == SubSeq(s, n - c + 1, n)
<1>1. n \in Nat /\ Window \in Nat
  BY LenProperties, GuardAssumption
<1>2. IsFiniteSet(K) /\ c \in 0 .. n
  <2>1. IsFiniteSet(1 .. n) /\ Cardinality(1 .. n) = n
    BY <1>1, FS_Interval
  <2>2. K \in SUBSET (1 .. n)
    OBVIOUS
  <2> HIDE DEF K
  <2>3. IsFiniteSet(K) /\ Cardinality(K) <= n
    BY <2>1, <2>2, FS_Subset
  <2> QED  BY <2>3, FS_CardinalityType, <1>1
<1>3. ASSUME NEW i \in 1 .. n, i \in K
      PROVE  i > n - c
  <2>1. i .. n \in SUBSET K
    BY <1>1, <1>3
  <2>2. Cardinality(i .. n) = n - i + 1
    BY <1>1, FS_Interval
  <2>3. Cardinality(i .. n) <= c
    <3> HIDE DEF K
    <3> QED  BY <1>2, <2>1, FS_Subset
  <2> HIDE DEF c
  <2> QED  BY <1>1, <1>2, <2>2, <2>3
<1>4. ASSUME NEW i \in 1 .. n, i \notin K
      PROVE  i <= n - c
  <2>1. K \in SUBSET (i + 1 .. n)
    BY <1>1, <1>4
  <2>2. IsFiniteSet(i + 1 .. n) /\ Cardinality(i + 1 .. n) = n - i
    BY <1>1, FS_Interval
  <2>3. c <= n - i
    <3> HIDE DEF K
    <3> QED  BY <2>1, <2>2, FS_Subset
  <2> HIDE DEF c
  <2> QED  BY <1>1, <1>2, <2>3
<1>5. PopAged(s, instant) = kept
  BY DEF PopAged
<1> HIDE DEF c
<1>6. /\ kept \in Seq(S) /\ Len(kept) = c
      /\ \A i \in 1 .. c : kept[i] = s[n - c + i]
  BY <1>2, SuffixOf
<1> HIDE DEF kept
<1>7. ASSUME NEW i \in 1 .. n - c
      PROVE  s[i].at + Window < instant
  <2>1. i \in 1 .. n /\ ~(i > n - c)
    BY <1>1, <1>2
  <2>2. i \notin K
    BY <1>3, <2>1
  <2>3. ~young(i) /\ s[i].at \in Nat
    BY <2>1, <2>2
  <2> QED  BY <2>3, <1>1
<1>8. ASSUME NEW i \in 1 .. c
      PROVE  \E j \in 1 .. i : kept[j].at + Window >= instant
  <2>1. n - c + i \in 1 .. n /\ ~(n - c + i <= n - c)
    BY <1>1, <1>2
  <2>2. n - c + i \in K
    <3>1. \A k \in 1 .. n : k \notin K => k <= n - c
      BY <1>4
    <3> HIDE DEF K
    <3> QED  BY <2>1, <3>1
  <2>3. PICK k \in 1 .. n - c + i : young(k)
    BY <2>2
  <2>4. k > n - c
    <3>1. k \in 1 .. n
      BY <2>1, <2>3
    <3>2. k \in K
      BY <3>1, <2>3
    <3> QED  BY <3>1, <3>2, <1>3
  <2>5. k - (n - c) \in 1 .. i /\ n - c + (k - (n - c)) = k /\ k - (n - c) \in 1 .. c
    BY <2>1, <2>3, <2>4, <1>1, <1>2
  <2>6. kept[k - (n - c)] = s[k]
    BY <2>5, <1>6
  <2> QED  BY <2>3, <2>5, <2>6
<1> HIDE DEF n, K
<1> QED  BY <1>2, <1>5, <1>6, <1>7, <1>8 DEF n

-----------------------------------------------------------------------------
(* Types, and which steps touch the windows.                               *)

LEMMA KeyIs ==
    ASSUME GuardTypeOK, NEW t \in Thread, req[t].pc \in {"charge", "local", "throttled"}
    PROVE  /\ KeyOf(t) \in Key
           /\ req[t].stamp \in Nat /\ Home[t] \in Replica
           /\ Limit[req[t].endpoint] \in Nat /\ KeyOf(t)[2] = req[t].endpoint
           /\ "redis" \in Tier /\ Replica \subseteq Tier /\ Home[t] # "redis"
<1>1. req[t] \in Request /\ req[t].subject \in Subject
  BY DEF GuardTypeOK
<1>2. req[t].endpoint \in Endpoint /\ req[t].stamp \in Nat
  BY <1>1 DEF Request
<1>3. Limit[req[t].endpoint] \in Nat /\ Home[t] \in Replica /\ Home[t] # "redis"
  BY <1>2, GuardAssumption
<1> QED  BY <1>1, <1>2, <1>3 DEF KeyOf, Key, Tier

(* A call is appended to what one window has counted.                      *)
Counts(i, t, g) ==
    hits' = [hits EXCEPT ![i][KeyOf(t)] = Append(@, [at |-> req[t].stamp, granted |-> g])]

LEMMA CountsIs ==
    ASSUME GuardTypeOK, NEW t \in Thread, req[t].pc \in {"charge", "local"},
           NEW i \in Tier, NEW g \in BOOLEAN, Counts(i, t, g)
    PROVE  LET k   == KeyOf(t)
               all == hits[i][k]
               new == [at |-> req[t].stamp, granted |-> g]
           IN  /\ hits' \in [Tier -> [Key -> Seq(Counted)]]
               /\ all \in Seq(Counted) /\ hits'[i][k] = Append(all, new)
               /\ \A j \in Tier, l \in Key : j # i \/ l # k => hits'[j][l] = hits[j][l]
<1> DEFINE k   == KeyOf(t)
           new == [at |-> req[t].stamp, granted |-> g]
           s   == Append(hits[i][k], new)
<1>1. k \in Key /\ new \in Counted
  BY KeyIs DEF Counted
<1>2. hits[i][k] \in Seq(Counted)
  BY <1>1 DEF GuardTypeOK
<1>3. s \in Seq(Counted)
  <2> HIDE DEF new, k
  <2> QED  BY <1>1, <1>2, AppendProperties
<1>4. hits' = [hits EXCEPT ![i][k] = s]
  BY DEF Counts
<1>5. hits \in [Tier -> [Key -> Seq(Counted)]]
  BY DEF GuardTypeOK
<1>6. hits'[i][k] = s /\ hits' \in [Tier -> [Key -> Seq(Counted)]]
      /\ \A j \in Tier, l \in Key : j # i \/ l # k => hits'[j][l] = hits[j][l]
  <2> HIDE DEF s, k
  <2> QED  BY <1>1, <1>3, <1>4, <1>5
<1> QED  BY <1>2, <1>6

(* What the pipeline leaves in the set of its key.                         *)
LEMMA PipelineIs ==
    ASSUME GuardTypeOK, NEW t \in Thread, req[t].pc = "charge", Pipeline(t)
    PROVE  LET k   == KeyOf(t)
               new == [at |-> req[t].stamp, nr |-> Len(hits["redis"][k]) + 1]
           IN  /\ shared' \in [Key -> SUBSET Entry] /\ deadline' \in [Key -> Nat]
               /\ shared'[k] = {e \in InRedis(k) : e.at + Window > req[t].stamp} \cup {new}
               /\ InRedis(k) = IF now < deadline[k] THEN shared[k] ELSE {}
               /\ deadline'[k] = now + Window + 1
               /\ \A l \in Key \ {k} : shared'[l] = shared[l] /\ deadline'[l] = deadline[l]
<1> DEFINE k   == KeyOf(t)
           new == [at |-> req[t].stamp, nr |-> Len(hits["redis"][k]) + 1]
           s   == Prune(InRedis(k), req[t].stamp) \cup {new}
<1>1. k \in Key /\ req[t].stamp \in Nat
  BY KeyIs
<1>2. new \in Entry
  <2>1. hits["redis"][k] \in Seq(Counted)
    BY <1>1 DEF GuardTypeOK, Tier
  <2>2. Len(hits["redis"][k]) \in Nat
    BY <2>1, LenProperties
  <2> HIDE DEF k
  <2> QED  BY <1>1, <2>2 DEF Entry
<1>3. s \in SUBSET Entry
  <2> HIDE DEF new, k
  <2> QED  BY <1>1, <1>2 DEF Prune, InRedis, GuardTypeOK
<1>4. shared' = [shared EXCEPT ![k] = s] /\ deadline' = [deadline EXCEPT ![k] = now + Window + 1]
  BY DEF Pipeline
<1>5. now + Window + 1 \in Nat
  <2>1. now \in Nat /\ Window \in Nat
    BY GuardAssumption DEF GuardTypeOK
  <2> QED  BY <2>1
<1>6. /\ shared' \in [Key -> SUBSET Entry] /\ deadline' \in [Key -> Nat]
      /\ shared'[k] = s
      /\ deadline'[k] = now + Window + 1
      /\ \A l \in Key \ {k} : shared'[l] = shared[l] /\ deadline'[l] = deadline[l]
  <2> HIDE DEF s, k
  <2> QED  BY <1>1, <1>3, <1>4, <1>5 DEF GuardTypeOK
<1> QED  BY <1>6 DEF Prune, InRedis

(* What a process leaves in its own deque, and what PopAged took from it.  *)
LEMMA CountLocalIs ==
    ASSUME GuardTypeOK, NEW t \in Thread, CountLocal(t)
    PROVE  LET r   == Home[t]
               k   == KeyOf(t)
               s   == PopAged(local[r][k], req[t].stamp)
               new == [at |-> req[t].stamp]
           IN  /\ local' \in [Replica -> [Key -> Seq(Hit)]]
               /\ local[r][k] \in Seq(Hit) /\ s \in Seq(Hit)
               /\ local'[r][k] = Append(s, new) /\ Len(local'[r][k]) = Len(s) + 1
               /\ \A q \in Replica, l \in Key : q # r \/ l # k => local'[q][l] = local[q][l]
<1> DEFINE r   == Home[t]
           k   == KeyOf(t)
           s   == PopAged(local[r][k], req[t].stamp)
           new == [at |-> req[t].stamp]
<1>1. k \in Key /\ r \in Replica /\ req[t].stamp \in Nat /\ new \in Hit
  BY KeyIs DEF CountLocal, Hit
<1>2. local[r][k] \in Seq(Hit)
  BY <1>1 DEF GuardTypeOK
<1>3. s \in Seq(Hit)
  <2>1. \A i \in 1 .. Len(local[r][k]) : local[r][k][i] \in Hit
    BY <1>2, ElementOfSeq
  <2>2. \A i \in 1 .. Len(local[r][k]) : local[r][k][i].at \in Nat
    BY <2>1 DEF Hit
  <2> HIDE DEF k, r
  <2> QED  BY <1>1, <1>2, <2>2, PopAgedIs
<1> DEFINE d == Append(s, new)
<1>4. d \in Seq(Hit) /\ Len(d) = Len(s) + 1
  <2> HIDE DEF s, new
  <2> QED  BY <1>1, <1>3, AppendProperties
<1>5. local' = [local EXCEPT ![r][k] = d]
  BY DEF CountLocal
<1>6. /\ local' \in [Replica -> [Key -> Seq(Hit)]]
      /\ local'[r][k] = d
      /\ \A q \in Replica, l \in Key : q # r \/ l # k => local'[q][l] = local[q][l]
  <2> HIDE DEF d, k, r
  <2> QED  BY <1>1, <1>4, <1>5 DEF GuardTypeOK
<1> QED  BY <1>2, <1>3, <1>4, <1>6

(* What a process leaves in its breaker.                                   *)
LEMMA RecordIs ==
    ASSUME GuardTypeOK, NEW t \in Thread, Record(t)
    PROVE  LET r    == Home[t]
               mine == [at |-> req[t].stamp, error |-> req[t].error]
               kept == PopAged(Append(events[r], mine), mine.at)
           IN  /\ r \in Replica /\ mine \in Outcome
               /\ events[r] \in Seq(Outcome) /\ outcomes[r] \in Seq(Outcome)
               /\ kept \in Seq(Outcome)
               /\ events' \in [Replica -> Seq(Outcome)] /\ outcomes' \in [Replica -> Seq(Outcome)]
               /\ events'[r] = kept /\ outcomes'[r] = Append(outcomes[r], mine)
               /\ \A q \in Replica \ {r} : events'[q] = events[q] /\ outcomes'[q] = outcomes[q]
<1> DEFINE r    == Home[t]
           mine == [at |-> req[t].stamp, error |-> req[t].error]
           full == Append(events[r], mine)
           kept == PopAged(full, mine.at)
           past == Append(outcomes[r], mine)
<1>1. r \in Replica /\ mine \in Outcome /\ mine.at \in Nat
  BY GuardAssumption DEF GuardTypeOK, Request, Outcome
<1>2. events[r] \in Seq(Outcome) /\ outcomes[r] \in Seq(Outcome)
  BY <1>1 DEF GuardTypeOK
<1>3. full \in Seq(Outcome) /\ past \in Seq(Outcome)
  <2> HIDE DEF mine, r
  <2> QED  BY <1>1, <1>2, AppendProperties
<1>4. kept \in Seq(Outcome)
  <2>1. \A i \in 1 .. Len(full) : full[i] \in Outcome
    BY <1>3, ElementOfSeq
  <2>2. \A i \in 1 .. Len(full) : full[i].at \in Nat
    BY <2>1 DEF Outcome
  <2> HIDE DEF full, mine
  <2> QED  BY <1>1, <1>3, <2>2, PopAgedIs
<1>5. events' = [events EXCEPT ![r] = kept] /\ outcomes' = [outcomes EXCEPT ![r] = past]
  BY DEF Record
<1> HIDE DEF kept, past
<1>6. /\ events' \in [Replica -> Seq(Outcome)] /\ outcomes' \in [Replica -> Seq(Outcome)]
      /\ events'[r] = kept /\ outcomes'[r] = past
      /\ \A q \in Replica \ {r} : events'[q] = events[q] /\ outcomes'[q] = outcomes[q]
  BY <1>1, <1>3, <1>4, <1>5 DEF GuardTypeOK
<1> QED  BY <1>1, <1>2, <1>4, <1>6 DEF kept, past

(* The windows are touched by the limiter alone, the outcomes by Record    *)
(* and by what closes a breaker.                                           *)
WindowsStay  == UNCHANGED <<shared, deadline, local, hits>>
OutcomesStay == UNCHANGED <<events, open, outcomes>>

Charging(t) == CountShared(t) \/ SharedFails(t) \/ CountLocal(t)

LEMMA StepsStay ==
    ASSUME [Next]_vars
    PROVE  /\ \/ WindowsStay
              \/ \E t \in Thread : Charging(t)
              \/ \E r \in Replica : Restart(r)
           /\ \/ OutcomesStay
              \/ \E t \in Thread : Record(t)
              \/ \E r \in Replica : Restart(r) \/ Reset(r)
<1>1. ASSUME NEW t \in Thread, Step(t)
      PROVE  (WindowsStay \/ Charging(t)) /\ (OutcomesStay \/ Record(t))
  BY <1>1 DEF Step, Charging, WindowsStay, OutcomesStay, limiter, breaker, Arrive, Refuse, Pass,
     Undecodable, ParentInvalid, CheckExempt, Check, CountShared, SharedFails, CountLocal,
     TooMany, Decide, Raise, Record, Report
<1>2. ASSUME NEW r \in Replica, MarkUnavailable(r) \/ Reset(r) \/ ResetAudit(r) \/ Restart(r)
      PROVE  (WindowsStay \/ Restart(r)) /\ (OutcomesStay \/ Restart(r) \/ Reset(r))
  BY <1>2 DEF MarkUnavailable, Reset, ResetAudit, limiter, breaker, WindowsStay, OutcomesStay
<1>3. Tick \/ UNCHANGED vars => WindowsStay /\ OutcomesStay
  BY DEF Tick, vars, limiter, breaker, WindowsStay, OutcomesStay
<1> QED  BY <1>1, <1>2, <1>3 DEF Next

(* Which call is counted where, and whether it was granted.                *)
LEMMA SharedCounts ==
    ASSUME NEW t \in Thread, CountShared(t)
    PROVE  \E g \in BOOLEAN : /\ Counts("redis", t, g)
                              /\ g <=> Cardinality(shared'[KeyOf(t)]) <= Limit[req[t].endpoint]
<1> DEFINE g == Cardinality(shared'[KeyOf(t)]) <= Limit[req[t].endpoint]
<1>1. Counts("redis", t, g)
  BY DEF CountShared, Verdict, Counts
<1>2. g \in BOOLEAN
  OBVIOUS
<1>3. g <=> Cardinality(shared'[KeyOf(t)]) <= Limit[req[t].endpoint]
  OBVIOUS
<1> HIDE DEF g
<1> QED  BY <1>1, <1>2, <1>3

LEMMA LocalCounts ==
    ASSUME NEW t \in Thread, CountLocal(t)
    PROVE  \E g \in BOOLEAN : /\ Counts(Home[t], t, g)
                              /\ g <=> Len(local'[Home[t]][KeyOf(t)]) <= Limit[req[t].endpoint]
<1> DEFINE g == Len(local'[Home[t]][KeyOf(t)]) <= Limit[req[t].endpoint]
<1>1. Counts(Home[t], t, g)
  BY DEF CountLocal, Verdict, Counts
<1>2. g \in BOOLEAN
  OBVIOUS
<1>3. g <=> Len(local'[Home[t]][KeyOf(t)]) <= Limit[req[t].endpoint]
  OBVIOUS
<1> HIDE DEF g
<1> QED  BY <1>1, <1>2, <1>3

WindowTypes ==
    /\ shared \in [Key -> SUBSET Entry]
    /\ deadline \in [Key -> Nat]
    /\ local \in [Replica -> [Key -> Seq(Hit)]]
    /\ hits \in [Tier -> [Key -> Seq(Counted)]]

LEMMA WindowTypesStep ==
    ASSUME GuardTypeOK, [Next]_vars
    PROVE  WindowTypes'
<1>1. ASSUME NEW t \in Thread, Charging(t)
      PROVE  WindowTypes'
  <2>1. CASE CountShared(t)
    <3>1. Pipeline(t) /\ req[t].pc = "charge" /\ UNCHANGED local /\ "redis" \in Tier
      BY <2>1 DEF CountShared, Tier
    <3>2. PICK g \in BOOLEAN : Counts("redis", t, g)
      BY <2>1, SharedCounts
    <3>3. hits' \in [Tier -> [Key -> Seq(Counted)]]
      BY <3>1, <3>2, CountsIs
    <3> QED  BY <3>1, <3>3, PipelineIs DEF WindowTypes, GuardTypeOK
  <2>2. CASE SharedFails(t)
    <3>1. req[t].pc = "charge" /\ UNCHANGED local /\ "redis" \in Tier
      BY <2>2 DEF SharedFails, Tier
    <3>2. CASE Pipeline(t) /\ Counts("redis", t, FALSE)
      BY <3>1, <3>2, CountsIs, PipelineIs DEF WindowTypes, GuardTypeOK
    <3>3. CASE UNCHANGED <<shared, deadline, hits>>
      BY <3>1, <3>3 DEF WindowTypes, GuardTypeOK
    <3> QED  BY <2>2, <3>2, <3>3 DEF SharedFails, Counts
  <2>3. CASE CountLocal(t)
    <3>1. req[t].pc = "local" /\ UNCHANGED <<shared, deadline>> /\ Home[t] \in Tier
      BY <2>3, KeyIs DEF CountLocal
    <3>2. PICK g \in BOOLEAN : Counts(Home[t], t, g)
      BY <2>3, LocalCounts
    <3>3. hits' \in [Tier -> [Key -> Seq(Counted)]]
      BY <3>1, <3>2, CountsIs
    <3> QED  BY <2>3, <3>1, <3>3, CountLocalIs DEF WindowTypes, GuardTypeOK
  <2> QED  BY <1>1, <2>1, <2>2, <2>3 DEF Charging
<1>2. ASSUME NEW r \in Replica, Restart(r)
      PROVE  WindowTypes'
  <2>1. <<>> \in Seq(Hit) /\ <<>> \in Seq(Counted) /\ r \in Tier
    BY <1>2 DEF Tier
  <2>2. [k \in Key |-> <<>>] \in [Key -> Seq(Hit)] /\ [k \in Key |-> <<>>] \in [Key -> Seq(Counted)]
    BY <2>1
  <2> QED  BY <1>2, <2>1, <2>2 DEF WindowTypes, GuardTypeOK, Restart
<1>3. CASE WindowsStay
  BY <1>3 DEF WindowTypes, GuardTypeOK, WindowsStay
<1> QED  BY <1>1, <1>2, <1>3, StepsStay

LEMMA OutcomeTypesStep ==
    ASSUME GuardTypeOK, [Next]_vars
    PROVE  (events \in [Replica -> Seq(Outcome)] /\ outcomes \in [Replica -> Seq(Outcome)])'
<1>1. ASSUME NEW r \in Replica, Restart(r) \/ Reset(r)
      PROVE  (events \in [Replica -> Seq(Outcome)] /\ outcomes \in [Replica -> Seq(Outcome)])'
  <2>1. Close(r) /\ <<>> \in Seq(Outcome)
    BY <1>1 DEF Restart, Reset
  <2> QED  BY <2>1 DEF GuardTypeOK, Close
<1>2. CASE OutcomesStay
  BY <1>2 DEF GuardTypeOK, OutcomesStay
<1> QED  BY <1>1, <1>2, StepsStay, RecordIs

(* Only check() lets a request reach the limiter.                          *)
ChargedOK ==
    \A t \in Thread : req[t].pc \in {"charge", "local", "throttled"} =>
        req[t].subject \in Subject \ Exempt

LEMMA ChargedStep ==
    ASSUME GuardTypeOK, [Next]_vars
    PROVE  ChargedOK'
<1> Nothing.pc = "idle" /\ req \in [Thread -> Request] /\ CoreTypeOK
  BY DEF Nothing, GuardTypeOK, CoreTypeOK
<1>1. ASSUME NEW t \in Thread, Step(t)
      PROVE  ChargedOK'
  <2>1. \A u \in Thread \ {t} : req'[u] = req[u]
    BY <1>1 DEF GuardTypeOK, Step, Arrive, Refuse, Pass, Undecodable, ParentInvalid, CheckExempt,
       Check, CountShared, SharedFails, CountLocal, TooMany, Decide, Raise, Record, Report,
       Goto, Clock, Finish, ToRecord, Verdict
  <2>2. req'[t].pc \in {"charge", "local", "throttled"} =>
            req'[t].subject = req[t].subject /\ req[t].subject \in Subject \ Exempt
    <3>1. CASE Check(t)
      BY <3>1 DEF GuardTypeOK, Check, Clock
    <3>2. CASE CountShared(t) \/ SharedFails(t) \/ CountLocal(t)
      <4>1. req[t].subject \in Subject \ Exempt
        BY <3>2 DEF GuardTypeOK, CountShared, SharedFails, CountLocal
      <4>2. req'[t].subject = req[t].subject
        BY <3>2 DEF GuardTypeOK, Request, CountShared, SharedFails, CountLocal, Verdict, Goto
      <4> QED  BY <4>1, <4>2
    <3>3. CASE Refuse(t) \/ ParentInvalid(t) \/ TooMany(t) \/ Raise(t) \/ Report(t)
      <4>1. req' = [req EXCEPT ![t] = Nothing]
        BY <3>3 DEF Refuse, ParentInvalid, TooMany, Raise, Report, Finish
      <4> QED  BY <4>1
    <3>4. CASE Pass(t) \/ CheckExempt(t)
      <4>1. Goto(t, "passed") \/ Goto(t, "charged")
        BY <3>4 DEF Pass, CheckExempt
      <4> QED  BY <4>1, Moves DEF Stage
    <3>5. CASE Arrive(t)
      BY <3>5 DEF GuardTypeOK, Arrive
    <3>6. CASE Undecodable(t) \/ Decide(t)
      <4>1. PICK d \in BOOLEAN : ToRecord(t, d)
        BY <3>6 DEF Undecodable, Decide
      <4> QED  BY <4>1 DEF GuardTypeOK, ToRecord
    <3>7. CASE Record(t)
      <4>1. Goto(t, "report") \/ Finish(t)
        BY <3>7 DEF Record
      <4> QED  BY <4>1, Moves, Ends DEF Stage
    <3> QED  BY <1>1, <3>1, <3>2, <3>3, <3>4, <3>5, <3>6, <3>7 DEF Step
  <2> QED  BY <2>1, <2>2 DEF GuardTypeOK, ChargedOK
<1>2. ASSUME NEW r \in Replica, MarkUnavailable(r) \/ Reset(r) \/ ResetAudit(r) \/ Restart(r)
      PROVE  ChargedOK'
  <2>1. \A t \in Thread : req'[t] = req[t] \/ req'[t] = Nothing
    BY <1>2 DEF MarkUnavailable, Reset, ResetAudit, Restart
  <2> QED  BY <2>1 DEF GuardTypeOK, ChargedOK
<1>3. Tick \/ UNCHANGED vars => ChargedOK'
  BY DEF Tick, vars, GuardTypeOK, ChargedOK
<1> QED  BY <1>1, <1>2, <1>3 DEF Next

LEMMA UsedUp ==
    ASSUME NEW u \in [calls : Nat, resets : Nat, restarts : Nat]
    PROVE  /\ [u EXCEPT !.calls = @ + 1] \in [calls : Nat, resets : Nat, restarts : Nat]
           /\ [u EXCEPT !.resets = @ + 1] \in [calls : Nat, resets : Nat, restarts : Nat]
           /\ [u EXCEPT !.restarts = @ + 1] \in [calls : Nat, resets : Nat, restarts : Nat]
OBVIOUS

(* What remains: the flag of Redis, the break-glass calls and the bounds.  *)
RestOK ==
    /\ available \in [Replica -> BOOLEAN]
    /\ glass \in [Replica -> {"idle", "audit"}]
    /\ used \in [calls : Nat, resets : Nat, restarts : Nat]

LEMMA RestStep ==
    ASSUME GuardTypeOK, [Next]_vars
    PROVE  RestOK'
<1>1. ASSUME NEW t \in Thread, Step(t)
      PROVE  RestOK'
  <2>1. CASE Arrive(t)
    <3>1. UNCHANGED <<available, glass>> /\ used' = [used EXCEPT !.calls = @ + 1]
      BY <2>1 DEF Arrive, limiter, report
    <3> QED  BY <3>1, UsedUp DEF GuardTypeOK, RestOK
  <2>2. CASE SharedFails(t)
    BY <2>2 DEF GuardTypeOK, RestOK, SharedFails, report
  <2>3. UNCHANGED <<available, glass, used>> \/ Arrive(t) \/ SharedFails(t)
    BY <1>1 DEF Step, limiter, report, Refuse, Pass,
       Undecodable, ParentInvalid, CheckExempt, Check, CountShared, CountLocal,
       TooMany, Decide, Raise, Record, Report
  <2> QED  BY <2>1, <2>2, <2>3 DEF GuardTypeOK, RestOK
<1>2. ASSUME NEW r \in Replica, MarkUnavailable(r) \/ Reset(r) \/ ResetAudit(r) \/ Restart(r)
      PROVE  RestOK'
  <2>1. /\ used' \in {used, [used EXCEPT !.resets = @ + 1], [used EXCEPT !.restarts = @ + 1]}
        /\ available' \in {available, [available EXCEPT ![r] = TRUE], [available EXCEPT ![r] = FALSE]}
        /\ glass' \in {glass, [glass EXCEPT ![r] = "idle"], [glass EXCEPT ![r] = "audit"]}
    BY <1>2 DEF MarkUnavailable, Reset, ResetAudit, Restart, limiter, report
  <2>2. used' \in [calls : Nat, resets : Nat, restarts : Nat]
    BY <2>1, UsedUp DEF GuardTypeOK
  <2>3. available' \in [Replica -> BOOLEAN] /\ glass' \in [Replica -> {"idle", "audit"}]
    BY <2>1 DEF GuardTypeOK
  <2> QED  BY <2>2, <2>3 DEF RestOK
<1>3. Tick \/ UNCHANGED vars => RestOK'
  BY DEF Tick, vars, limiter, report, GuardTypeOK, RestOK
<1> QED  BY <1>1, <1>2, <1>3 DEF Next

LEMMA TypesAre ==
    GuardTypeOK <=> /\ CoreTypeOK /\ WindowTypes /\ ChargedOK /\ RestOK
                    /\ events \in [Replica -> Seq(Outcome)]
                    /\ outcomes \in [Replica -> Seq(Outcome)]
BY DEF GuardTypeOK, CoreTypeOK, WindowTypes, ChargedOK, RestOK

LEMMA TypesStep ==
    ASSUME IInv, GuardTypeOK, [Next]_vars
    PROVE  GuardTypeOK'
<1>1. CoreTypeOK'
  BY StepInv DEF IInv
<1>2. WindowTypes' /\ ChargedOK' /\ RestOK'
      /\ (events \in [Replica -> Seq(Outcome)])' /\ (outcomes \in [Replica -> Seq(Outcome)])'
  BY WindowTypesStep, OutcomeTypesStep, ChargedStep, RestStep
<1>3. (/\ CoreTypeOK /\ WindowTypes /\ ChargedOK /\ RestOK
       /\ events \in [Replica -> Seq(Outcome)]
       /\ outcomes \in [Replica -> Seq(Outcome)])' => GuardTypeOK'
  BY TypesAre, PTL
<1> QED  BY <1>1, <1>2, <1>3

LEMMA TypesInit == Init => GuardTypeOK
<1> SUFFICES ASSUME Init PROVE GuardTypeOK
    OBVIOUS
<1>1. CoreTypeOK
  BY InitInv DEF IInv
<1>2. WindowTypes
  <2>1. <<>> \in Seq(Hit) /\ <<>> \in Seq(Counted)
    OBVIOUS
  <2>2. [k \in Key |-> <<>>] \in [Key -> Seq(Hit)] /\ [k \in Key |-> <<>>] \in [Key -> Seq(Counted)]
    BY <2>1
  <2>3. [k \in Key |-> {}] \in [Key -> SUBSET Entry]
    OBVIOUS
  <2> QED  BY <2>2, <2>3 DEF Init, WindowTypes
<1>3. ChargedOK /\ RestOK
  BY DEF Init, ChargedOK, RestOK, Nothing
<1>4. events \in [Replica -> Seq(Outcome)] /\ outcomes \in [Replica -> Seq(Outcome)]
  <2>1. <<>> \in Seq(Outcome)
    OBVIOUS
  <2> QED  BY <2>1 DEF Init
<1> QED  BY <1>1, <1>2, <1>3, <1>4, TypesAre

(* The variables have their types, and only a subject that is charged      *)
(* reaches a window.                                                       *)
THEOREM GuardTypeCorrect == Spec => []GuardTypeOK
<1>1. Init => IInv /\ GuardTypeOK
  BY InitInv, TypesInit
<1>2. IInv /\ GuardTypeOK /\ [Next]_vars => (IInv /\ GuardTypeOK)'
  BY StepInv, TypesStep
<1> QED  BY <1>1, <1>2, PTL DEF Spec

-----------------------------------------------------------------------------
(* The clock: a call that has read it is counted before Stall has passed.  *)

ClockOK == \A t \in Hanging : req[t].stamp <= now /\ now <= req[t].stamp + Stall

LEMMA StampIsNow ==
    ASSUME GuardTypeOK, NEW t \in Thread, NEW u \in Thread, Step(t),
           req'[u].pc \in {"charge", "local", "record"}
    PROVE  req'[u].stamp = now \/ (u \in Hanging /\ req'[u].stamp = req[u].stamp)
<1> Nothing.pc = "idle" /\ req \in [Thread -> Request] /\ CoreTypeOK
  BY DEF Nothing, GuardTypeOK, CoreTypeOK
<1>1. CASE u # t
  <2>1. req'[u] = req[u]
    BY <1>1 DEF Step, Arrive, Refuse, Pass, Undecodable, ParentInvalid, CheckExempt,
       Check, CountShared, SharedFails, CountLocal, TooMany, Decide, Raise, Record, Report,
       Goto, Clock, Finish, ToRecord, Verdict
  <2> QED  BY <2>1 DEF Hanging
<1>2. CASE u = t
  <2>1. CASE Check(t)
    BY <2>1, <1>2 DEF Check, Clock
  <2>2. CASE SharedFails(t)
    BY <2>2, <1>2 DEF SharedFails, Hanging
  <2>3. CASE CountShared(t) \/ CountLocal(t) \/ Pass(t) \/ CheckExempt(t) \/ Record(t)
    <3>1. \/ \E l \in {"charged", "passed", "report"} : Goto(t, l)
          \/ req' = [req EXCEPT ![t].pc = "throttled"]
          \/ Finish(t)
      BY <2>3 DEF CountShared, CountLocal, Verdict, Pass, CheckExempt, Record
    <3>2. ASSUME NEW l \in {"charged", "passed", "report"}, Goto(t, l)
          PROVE  req'[t].pc = l
      BY <3>2, Moves DEF Stage
    <3>3. Finish(t) => req'[t].pc = "idle"
      BY Ends
    <3>4. req' = [req EXCEPT ![t].pc = "throttled"] => req'[t].pc = "throttled"
      OBVIOUS
    <3> QED  BY <3>1, <3>2, <3>3, <3>4, <1>2
  <2>4. CASE Refuse(t) \/ ParentInvalid(t) \/ TooMany(t) \/ Raise(t) \/ Report(t)
    <3>1. Finish(t)
      BY <2>4 DEF Refuse, ParentInvalid, TooMany, Raise, Report
    <3> QED  BY <3>1, <1>2, Ends
  <2>5. CASE Arrive(t)
    BY <2>5, <1>2 DEF Arrive
  <2>6. CASE Undecodable(t) \/ Decide(t)
    <3>1. PICK d \in BOOLEAN : ToRecord(t, d)
      BY <2>6 DEF Undecodable, Decide
    <3> QED  BY <3>1, <1>2 DEF ToRecord
  <2> QED  BY <2>1, <2>2, <2>3, <2>4, <2>5, <2>6 DEF Step
<1> QED  BY <1>1, <1>2

LEMMA ClockStep ==
    ASSUME GuardTypeOK, GuardTypeOK', ClockOK, [Next]_vars
    PROVE  ClockOK'
<1> Stall \in Nat /\ now \in Nat /\ Nothing.pc = "idle" /\ req \in [Thread -> Request]
  BY GuardAssumption DEF GuardTypeOK, Nothing
<1>1. ASSUME NEW t \in Thread, Step(t) PROVE ClockOK'
  <2>1. now' = now
    BY <1>1 DEF Step, Arrive, Refuse, Pass, Undecodable, ParentInvalid, CheckExempt,
       Check, CountShared, SharedFails, CountLocal, TooMany, Decide, Raise, Record, Report
  <2>2. ASSUME NEW u \in Thread, req'[u].pc \in {"charge", "local", "record"}
        PROVE  req'[u].stamp <= now' /\ now' <= req'[u].stamp + Stall
    <3>1. req'[u].stamp = now \/ (u \in Hanging /\ req'[u].stamp = req[u].stamp)
      BY <1>1, <2>2, StampIsNow
    <3> QED  BY <2>1, <3>1 DEF ClockOK
  <2> QED  BY <2>2 DEF ClockOK, Hanging
<1>2. ASSUME NEW r \in Replica, MarkUnavailable(r) \/ Reset(r) \/ ResetAudit(r) \/ Restart(r)
      PROVE  ClockOK'
  <2>1. now' = now /\ \A t \in Thread : req'[t] = req[t] \/ req'[t] = Nothing
    BY <1>2 DEF MarkUnavailable, Reset, ResetAudit, Restart
  <2> QED  BY <2>1 DEF ClockOK, Hanging
<1>3. CASE Tick
  <2>1. req' = req /\ now' = now + 1 /\ \A t \in Hanging : now < req[t].stamp + Stall
    BY <1>3 DEF Tick
  <2>2. \A t \in Thread : req[t].stamp \in Nat
    BY DEF Request
  <2> QED  BY <2>1, <2>2 DEF ClockOK, Hanging
<1>4. CASE UNCHANGED vars
  BY <1>4 DEF vars, ClockOK, Hanging
<1> QED  BY <1>1, <1>2, <1>3, <1>4 DEF Next

(* How the windows change: one call is counted in Redis, or in a process,  *)
(* or a process starts anew, and the clock does not go back.               *)
SharedCount(t, g) ==
    /\ req[t].pc = "charge" /\ Pipeline(t) /\ Counts("redis", t, g)
    /\ g => Cardinality(shared'[KeyOf(t)]) <= Limit[req[t].endpoint]
    /\ UNCHANGED <<now, local>>

LocalCount(t, g) ==
    /\ req[t].pc = "local" /\ CountLocal(t) /\ Counts(Home[t], t, g)
    /\ g => Len(local'[Home[t]][KeyOf(t)]) <= Limit[req[t].endpoint]
    /\ UNCHANGED <<now, shared, deadline>>

LEMMA WindowSteps ==
    ASSUME GuardTypeOK, [Next]_vars
    PROVE  \/ WindowsStay /\ now' \in Nat /\ now' >= now
           \/ \E t \in Thread, g \in BOOLEAN : SharedCount(t, g)
           \/ \E t \in Thread, g \in BOOLEAN : LocalCount(t, g)
           \/ \E r \in Replica : Restart(r)
<1>1. ASSUME NEW t \in Thread, CountShared(t)
      PROVE  \E g \in BOOLEAN : SharedCount(t, g)
  <2>1. PICK g \in BOOLEAN : /\ Counts("redis", t, g)
                             /\ g <=> Cardinality(shared'[KeyOf(t)]) <= Limit[req[t].endpoint]
    BY <1>1, SharedCounts
  <2> QED  BY <1>1, <2>1 DEF CountShared, SharedCount
<1>2. ASSUME NEW t \in Thread, CountLocal(t)
      PROVE  \E g \in BOOLEAN : LocalCount(t, g)
  <2>1. PICK g \in BOOLEAN : /\ Counts(Home[t], t, g)
                             /\ g <=> Len(local'[Home[t]][KeyOf(t)]) <= Limit[req[t].endpoint]
    BY <1>2, LocalCounts
  <2> QED  BY <1>2, <2>1 DEF CountLocal, LocalCount
<1>3. ASSUME NEW t \in Thread, SharedFails(t)
      PROVE  WindowsStay \/ \E g \in BOOLEAN : SharedCount(t, g)
  <2>1. CASE Pipeline(t) /\ Counts("redis", t, FALSE)
    <3>1. SharedCount(t, FALSE)
      BY <1>3, <2>1 DEF SharedFails, SharedCount
    <3> QED  BY <3>1
  <2>2. CASE UNCHANGED <<shared, deadline, hits>>
    BY <1>3, <2>2 DEF SharedFails, WindowsStay
  <2> QED  BY <1>3, <2>1, <2>2 DEF SharedFails, Counts
<1>4. now' \in Nat /\ now' >= now
  <2>1. now' \in {now, now + 1}
    BY DEF Next, vars, Step, Arrive, Refuse, Pass, Undecodable, ParentInvalid, CheckExempt,
       Check, CountShared, SharedFails, CountLocal, TooMany, Decide, Raise, Record, Report,
       MarkUnavailable, Reset, ResetAudit, Restart, Tick
  <2> QED  BY <2>1 DEF GuardTypeOK
<1> QED  BY <1>1, <1>2, <1>3, <1>4, StepsStay DEF Charging

LEMMA UpToNext == \A b \in Nat : \A n \in 1 .. b + 1 : n = b + 1 \/ n \in 1 .. b
OBVIOUS

(* Nothing is counted as of a time to come.                                *)
PastOK ==
    \A i \in Tier, k \in Key : \A n \in 1 .. Len(hits[i][k]) : hits[i][k][n].at <= now

LEMMA AppendIs ==
    ASSUME NEW S, NEW s \in Seq(S), NEW e \in S
    PROVE  LET s2 == Append(s, e)
           IN  /\ s2 \in Seq(S) /\ Len(s) \in Nat /\ Len(s2) = Len(s) + 1
               /\ s2[Len(s) + 1] = e
               /\ \A i \in 1 .. Len(s) : s2[i] = s[i] /\ s2[i] \in S
BY AppendProperties, LenProperties, ElementOfSeq

LEMMA CountedIs ==
    ASSUME GuardTypeOK, NEW i \in Tier, NEW k \in Key
    PROVE  /\ hits[i][k] \in Seq(Counted) /\ Len(hits[i][k]) \in Nat
           /\ \A n \in 1 .. Len(hits[i][k]) :
                hits[i][k][n].at \in Nat /\ hits[i][k][n].granted \in BOOLEAN
<1>1. hits[i][k] \in Seq(Counted)
  BY DEF GuardTypeOK
<1>2. Len(hits[i][k]) \in Nat /\ \A n \in 1 .. Len(hits[i][k]) : hits[i][k][n] \in Counted
  BY <1>1, LenProperties, ElementOfSeq
<1> QED  BY <1>1, <1>2 DEF Counted

LEMMA CountsAdds ==
    ASSUME GuardTypeOK, NEW t \in Thread, req[t].pc \in {"charge", "local"},
           NEW i \in Tier, NEW g \in BOOLEAN, Counts(i, t, g)
    PROVE  LET k    == KeyOf(t)
               all  == hits[i][k]
               all2 == hits'[i][k]
           IN  /\ k \in Key /\ all \in Seq(Counted) /\ all2 \in Seq(Counted)
               /\ Len(all) \in Nat /\ Len(all2) = Len(all) + 1
               /\ all2[Len(all) + 1] = [at |-> req[t].stamp, granted |-> g]
               /\ \A n \in 1 .. Len(all) : all2[n] = all[n] /\ all[n] \in Counted
               /\ \A j \in Tier, l \in Key : j # i \/ l # k => hits'[j][l] = hits[j][l]
<1> DEFINE k   == KeyOf(t)
           new == [at |-> req[t].stamp, granted |-> g]
<1>1. k \in Key /\ new \in Counted
  BY KeyIs DEF Counted
<1>2. /\ hits[i][k] \in Seq(Counted) /\ hits'[i][k] = Append(hits[i][k], new)
      /\ \A j \in Tier, l \in Key : j # i \/ l # k => hits'[j][l] = hits[j][l]
  BY CountsIs
<1> HIDE DEF k, new
<1>3. /\ Append(hits[i][k], new) \in Seq(Counted) /\ Len(hits[i][k]) \in Nat
      /\ Len(Append(hits[i][k], new)) = Len(hits[i][k]) + 1
      /\ Append(hits[i][k], new)[Len(hits[i][k]) + 1] = new
      /\ \A n \in 1 .. Len(hits[i][k]) :
           Append(hits[i][k], new)[n] = hits[i][k][n] /\ Append(hits[i][k], new)[n] \in Counted
  BY <1>1, <1>2, AppendIs
<1>4. /\ hits'[i][k] \in Seq(Counted) /\ Len(hits[i][k]) \in Nat
      /\ Len(hits'[i][k]) = Len(hits[i][k]) + 1
      /\ hits'[i][k][Len(hits[i][k]) + 1] = new
      /\ \A n \in 1 .. Len(hits[i][k]) :
           hits'[i][k][n] = hits[i][k][n] /\ hits[i][k][n] \in Counted
  BY <1>2, <1>3
<1> QED  BY <1>1, <1>2, <1>4 DEF k, new

(* A count in a process leaves what Redis has counted as it is, and so     *)
(* does a restart.                                                         *)
LEMMA LocalLeavesRedis ==
    ASSUME GuardTypeOK, NEW t \in Thread, NEW g \in BOOLEAN, LocalCount(t, g)
    PROVE  \A l \in Key : hits'["redis"][l] = hits["redis"][l]
<1>1. Home[t] \in Tier /\ Home[t] # "redis" /\ req[t].pc = "local" /\ Counts(Home[t], t, g)
  BY KeyIs DEF LocalCount
<1>2. \A j \in Tier, l \in Key : j # Home[t] \/ l # KeyOf(t) => hits'[j][l] = hits[j][l]
  BY <1>1, CountsAdds
<1>3. "redis" \in Tier
  BY DEF Tier
<1> QED  BY <1>1, <1>2, <1>3

LEMMA RestartLeavesRedis ==
    ASSUME GuardTypeOK, NEW r \in Replica, Restart(r)
    PROVE  hits'["redis"] = hits["redis"]
<1>1. hits' = [hits EXCEPT ![r] = [k \in Key |-> <<>>]] /\ r # "redis" /\ "redis" \in Tier
  BY GuardAssumption DEF Restart, Tier
<1> QED  BY <1>1 DEF GuardTypeOK

LEMMA PastStep ==
    ASSUME GuardTypeOK, ClockOK, PastOK, [Next]_vars
    PROVE  PastOK'
<1> now \in Nat
  BY DEF GuardTypeOK
<1>1. ASSUME NEW t \in Thread, NEW i \in Tier, NEW g \in BOOLEAN,
             req[t].pc \in {"charge", "local"}, Counts(i, t, g), now' = now
      PROVE  PastOK'
  <2>1. req[t].stamp <= now
    BY <1>1 DEF ClockOK, Hanging
  <2>2. ASSUME NEW j \in Tier, NEW l \in Key, NEW n \in 1 .. Len(hits'[j][l])
        PROVE  hits'[j][l][n].at <= now
    <3>1. CASE j # i \/ l # KeyOf(t)
      <4>1. hits'[j][l] = hits[j][l]
        BY <1>1, <3>1, CountsAdds
      <4> QED  BY <4>1, <2>2 DEF PastOK
    <3>2. CASE j = i /\ l = KeyOf(t)
      <4>1. /\ Len(hits[j][l]) \in Nat /\ Len(hits'[j][l]) = Len(hits[j][l]) + 1
            /\ hits'[j][l][Len(hits[j][l]) + 1] = [at |-> req[t].stamp, granted |-> g]
            /\ \A m \in 1 .. Len(hits[j][l]) : hits'[j][l][m] = hits[j][l][m]
        BY <1>1, <3>2, CountsAdds
      <4>2. CASE n = Len(hits[j][l]) + 1
        BY <4>1, <4>2, <2>1
      <4>3. CASE n \in 1 .. Len(hits[j][l])
        BY <4>1, <4>3 DEF PastOK
      <4>4. n = Len(hits[j][l]) + 1 \/ n \in 1 .. Len(hits[j][l])
        BY <4>1, UpToNext
      <4> QED  BY <4>2, <4>3, <4>4
    <3> QED  BY <3>1, <3>2
  <2> QED  BY <1>1, <2>2 DEF PastOK
<1>2. ASSUME NEW r \in Replica, Restart(r)
      PROVE  PastOK'
  <2>1. /\ now' = now /\ r \in Tier
        /\ hits' = [hits EXCEPT ![r] = [k \in Key |-> <<>>]]
    BY <1>2 DEF Restart, Tier
  <2>2. \A k \in Key : hits'[r][k] = <<>>
    BY <2>1 DEF GuardTypeOK
  <2>3. \A j \in Tier \ {r} : hits'[j] = hits[j]
    BY <2>1 DEF GuardTypeOK
  <2> QED  BY <2>1, <2>2, <2>3 DEF PastOK
<1>3. CASE WindowsStay /\ now' \in Nat /\ now' >= now
  <2>1. \A i \in Tier, k \in Key : \A n \in 1 .. Len(hits[i][k]) : hits[i][k][n].at \in Nat
    BY CountedIs
  <2> QED  BY <1>3, <2>1 DEF WindowsStay, PastOK
<1>4. "redis" \in Tier /\ \A t \in Thread : Home[t] \in Tier
  BY GuardAssumption DEF Tier
<1> QED  BY <1>1, <1>2, <1>3, <1>4, WindowSteps DEF SharedCount, LocalCount

(* A member of a sorted set is a call that Redis has counted, and outlives *)
(* neither its window nor the key by more than the second of slack.        *)
StoreOK ==
    \A k \in Key : \A e \in shared[k] :
        /\ e.nr \in 1 .. Len(hits["redis"][k])
        /\ hits["redis"][k][e.nr].at = e.at
        /\ e.at + Window + 1 <= deadline[k]

LEMMA EntryIs ==
    ASSUME GuardTypeOK, NEW k \in Key
    PROVE  /\ \A e \in shared[k] : e = [at |-> e.at, nr |-> e.nr] /\ e.at \in Nat /\ e.nr \in Nat
           /\ deadline[k] \in Nat /\ Window \in Nat \ {0} /\ now \in Nat
<1>1. \A e \in shared[k] : e \in Entry
  BY DEF GuardTypeOK
<1>2. deadline[k] \in Nat /\ now \in Nat
  BY DEF GuardTypeOK
<1>3. Window \in Nat \ {0}
  BY GuardAssumption
<1>4. \A e \in Entry : e = [at |-> e.at, nr |-> e.nr] /\ e.at \in Nat /\ e.nr \in Nat
  BY DEF Entry
<1> QED  BY <1>1, <1>2, <1>3, <1>4

LEMMA StoreStep ==
    ASSUME GuardTypeOK, ClockOK, PastOK, StoreOK, [Next]_vars
    PROVE  StoreOK'
<1> "redis" \in Tier
  BY DEF Tier
<1>1. ASSUME NEW t \in Thread, NEW g \in BOOLEAN, SharedCount(t, g)
      PROVE  StoreOK'
  <2> DEFINE k    == KeyOf(t)
             all  == hits["redis"][k]
             all2 == hits'["redis"][k]
             new  == [at |-> req[t].stamp, nr |-> Len(all) + 1]
  <2>1. /\ k \in Key /\ req[t].stamp \in Nat /\ req[t].stamp <= now
        /\ Len(all) \in Nat /\ Len(all2) = Len(all) + 1
        /\ all2[Len(all) + 1].at = req[t].stamp
        /\ \A n \in 1 .. Len(all) : all2[n] = all[n]
        /\ \A l \in Key \ {k} : hits'["redis"][l] = hits["redis"][l]
    <3>1. k \in Key /\ req[t].stamp \in Nat
      BY <1>1, KeyIs DEF SharedCount
    <3>2. req[t].stamp <= now
      BY <1>1 DEF SharedCount, ClockOK, Hanging
    <3>3. /\ Len(all) \in Nat /\ Len(all2) = Len(all) + 1
          /\ all2[Len(all) + 1] = [at |-> req[t].stamp, granted |-> g]
          /\ \A n \in 1 .. Len(all) : all2[n] = all[n]
      BY <1>1, CountsAdds DEF SharedCount
    <3>4. \A l \in Key \ {k} : hits'["redis"][l] = hits["redis"][l]
      BY <1>1, CountsAdds DEF SharedCount
    <3>5. all2[Len(all) + 1].at = req[t].stamp
      BY <3>3
    <3> HIDE DEF k, all, all2
    <3> QED  BY <3>1, <3>2, <3>3, <3>4, <3>5
  <2>2. /\ \A e \in shared'[k] : e \in shared[k] \/ e = new
        /\ deadline'[k] = now + Window + 1
        /\ \A l \in Key \ {k} : shared'[l] = shared[l] /\ deadline'[l] = deadline[l]
    BY <1>1, PipelineIs DEF SharedCount
  <2>3. ASSUME NEW e \in shared'[k]
        PROVE  e.nr \in 1 .. Len(all2) /\ all2[e.nr].at = e.at /\ e.at + Window + 1 <= deadline'[k]
    <3>1. CASE e \in shared[k]
      <4>1. e.nr \in 1 .. Len(all) /\ all[e.nr].at = e.at
        BY <2>1, <3>1 DEF StoreOK
      <4>2. e.at \in Nat /\ Window \in Nat /\ now \in Nat
        BY <2>1, <3>1, EntryIs
      <4>3. all[e.nr].at <= now
        BY <2>1, <4>1 DEF PastOK
      <4> HIDE DEF k, all, all2
      <4> QED  BY <2>1, <2>2, <4>1, <4>2, <4>3
    <3>2. CASE e = new
      <4>1. Window \in Nat /\ now \in Nat
        BY <2>1, EntryIs
      <4> HIDE DEF k, all, all2
      <4> QED  BY <2>1, <2>2, <4>1, <3>2
    <3> QED  BY <2>2, <2>3, <3>1, <3>2
  <2> HIDE DEF k
  <2> QED  BY <2>1, <2>2, <2>3 DEF StoreOK
<1>2. ASSUME NEW t \in Thread, NEW g \in BOOLEAN, LocalCount(t, g)
      PROVE  StoreOK'
  <2>1. \A l \in Key : hits'["redis"][l] = hits["redis"][l]
    BY <1>2, LocalLeavesRedis
  <2> QED  BY <1>2, <2>1 DEF LocalCount, StoreOK
<1>3. ASSUME NEW r \in Replica, Restart(r)
      PROVE  StoreOK'
  <2>1. hits'["redis"] = hits["redis"] /\ shared' = shared /\ deadline' = deadline
    BY <1>3, RestartLeavesRedis DEF Restart
  <2> QED  BY <2>1 DEF StoreOK
<1>4. CASE WindowsStay
  BY <1>4 DEF WindowsStay, StoreOK
<1> QED  BY <1>1, <1>2, <1>3, <1>4, WindowSteps

-----------------------------------------------------------------------------
(* Who is throttled, and why.                                              *)

LEMMA Arrivals ==
    ASSUME GuardTypeOK, [Next]_vars, NEW t \in Thread, req'[t] # req[t],
           req'[t].pc \in {"local", "throttled"}
    PROVE  \/ req'[t].pc = "local" /\ ~available'[Home[t]]
           \/ /\ CountShared(t) /\ req'[t] = [req[t] EXCEPT !.pc = "throttled"]
              /\ ~(Cardinality(shared'[KeyOf(t)]) <= Limit[req[t].endpoint])
           \/ CountLocal(t) /\ req'[t] = [req[t] EXCEPT !.pc = "throttled"]
<1> Nothing.pc = "idle" /\ req \in [Thread -> Request] /\ CoreTypeOK
  BY DEF Nothing, GuardTypeOK, CoreTypeOK
<1>1. ASSUME NEW u \in Thread, Step(u)
      PROVE  Step(t)
  <2>1. u # t => req'[t] = req[t]
    BY <1>1 DEF Step, Arrive, Refuse, Pass, Undecodable, ParentInvalid, CheckExempt,
       Check, CountShared, SharedFails, CountLocal, TooMany, Decide, Raise, Record, Report,
       Goto, Clock, Finish, ToRecord, Verdict
  <2> QED  BY <1>1, <2>1
<1>2. ASSUME NEW r \in Replica, MarkUnavailable(r) \/ Reset(r) \/ ResetAudit(r) \/ Restart(r)
      PROVE  FALSE
  <2>1. req'[t] = req[t] \/ req'[t] = Nothing
    BY <1>2 DEF MarkUnavailable, Reset, ResetAudit, Restart
  <2> QED  BY <2>1
<1>3. Step(t)
  BY <1>1, <1>2 DEF Next, Tick, vars
<1>4. CASE Check(t)
  <2>1. available' = available
    BY <1>4 DEF Check, limiter
  <2>2. req'[t].pc = IF available[Home[t]] THEN "charge" ELSE "local"
    BY <1>4 DEF Check, Clock
  <2> QED  BY <2>1, <2>2
<1>5. CASE SharedFails(t)
  <2>1. available' = [available EXCEPT ![Home[t]] = FALSE] /\ Home[t] \in Replica
    BY <1>5, GuardAssumption DEF SharedFails
  <2> QED  BY <2>1, <1>5 DEF SharedFails, GuardTypeOK
<1>6. CASE CountShared(t)
  <2>1. CASE Cardinality(shared'[KeyOf(t)]) <= Limit[req[t].endpoint]
    <3>1. Goto(t, "charged")
      BY <1>6, <2>1 DEF CountShared, Verdict
    <3>2. req'[t].pc = "charged"
      BY <3>1, Moves DEF Stage
    <3> QED  BY <3>2
  <2>2. CASE ~(Cardinality(shared'[KeyOf(t)]) <= Limit[req[t].endpoint])
    <3>1. req' = [req EXCEPT ![t].pc = "throttled"]
      BY <1>6, <2>2 DEF CountShared, Verdict
    <3> QED  BY <1>6, <2>2, <3>1
  <2> QED  BY <2>1, <2>2
<1>7. CASE CountLocal(t)
  <2>1. Goto(t, "charged") \/ req' = [req EXCEPT ![t].pc = "throttled"]
    BY <1>7 DEF CountLocal, Verdict
  <2>2. Goto(t, "charged") => req'[t].pc = "charged"
    BY Moves DEF Stage
  <2>3. req'[t] = [req[t] EXCEPT !.pc = "throttled"]
    BY <2>1, <2>2
  <2> QED  BY <1>7, <2>3
<1>8. CASE Refuse(t) \/ ParentInvalid(t) \/ TooMany(t) \/ Raise(t) \/ Report(t)
  <2>1. Finish(t)
    BY <1>8 DEF Refuse, ParentInvalid, TooMany, Raise, Report
  <2> QED  BY <2>1, Ends
<1>9. CASE Pass(t) \/ CheckExempt(t) \/ Record(t)
  <2>1. (\E l \in {"charged", "passed", "report"} : Goto(t, l)) \/ Finish(t)
    BY <1>9 DEF Pass, CheckExempt, Record
  <2>2. ASSUME NEW l \in {"charged", "passed", "report"}, Goto(t, l)
        PROVE  req'[t].pc = l
    BY <2>2, Moves DEF Stage
  <2>3. Finish(t) => req'[t].pc = "idle"
    BY Ends
  <2> QED  BY <2>1, <2>2, <2>3
<1>10. CASE Arrive(t)
  BY <1>10 DEF Arrive
<1>11. CASE Undecodable(t) \/ Decide(t)
  <2>1. PICK d \in BOOLEAN : ToRecord(t, d)
    BY <1>11 DEF Undecodable, Decide
  <2> QED  BY <2>1 DEF ToRecord
<1> QED  BY <1>3, <1>4, <1>5, <1>6, <1>7, <1>8, <1>9, <1>10, <1>11 DEF Step

(* Only a restart finds Redis again.                                       *)
LEMMA FlagFalls ==
    ASSUME GuardTypeOK, [Next]_vars, NEW t \in Thread, available'[Home[t]]
    PROVE  available[Home[t]] \/ Restart(Home[t])
<1>1. ASSUME NEW u \in Thread, Step(u)
      PROVE  \A r \in Replica : available'[r] => available[r]
  <2>1. available' = available \/ SharedFails(u)
    BY <1>1 DEF Step, limiter, Arrive, Refuse, Pass,
       Undecodable, ParentInvalid, CheckExempt, Check, CountShared, CountLocal,
       TooMany, Decide, Raise, Record, Report
  <2>2. SharedFails(u) => available' = [available EXCEPT ![Home[u]] = FALSE]
    BY DEF SharedFails
  <2> QED  BY <2>1, <2>2 DEF GuardTypeOK
<1>2. ASSUME NEW r \in Replica, MarkUnavailable(r) \/ Reset(r) \/ ResetAudit(r) \/ Restart(r)
      PROVE  \A q \in Replica : available'[q] => available[q] \/ (q = r /\ Restart(q))
  <2>1. available' = available \/ available' = [available EXCEPT ![r] = FALSE]
        \/ (available' = [available EXCEPT ![r] = TRUE] /\ Restart(r))
    BY <1>2 DEF MarkUnavailable, Reset, ResetAudit, Restart, limiter
  <2> QED  BY <2>1 DEF GuardTypeOK
<1>3. Home[t] \in Replica
  BY GuardAssumption
<1>4. Tick \/ UNCHANGED vars => available' = available
  BY DEF Tick, vars, limiter
<1> QED  BY <1>1, <1>2, <1>3, <1>4 DEF Next

(* What Redis has counted only grows.                                      *)
LEMMA RedisGrows ==
    ASSUME GuardTypeOK, [Next]_vars, NEW k \in Key
    PROVE  LET all == hits["redis"][k]  all2 == hits'["redis"][k]
           IN  /\ Len(all) \in Nat /\ Len(all2) \in Nat /\ Len(all) <= Len(all2)
               /\ \A n \in 1 .. Len(all) : all2[n] = all[n]
<1> "redis" \in Tier
  BY DEF Tier
<1>1. Len(hits["redis"][k]) \in Nat
  BY CountedIs
<1>2. CASE hits'["redis"][k] = hits["redis"][k]
  BY <1>1, <1>2
<1>3. ASSUME NEW t \in Thread, NEW g \in BOOLEAN, SharedCount(t, g)
      PROVE  \/ hits'["redis"][k] = hits["redis"][k]
             \/ /\ Len(hits'["redis"][k]) = Len(hits["redis"][k]) + 1
                /\ \A n \in 1 .. Len(hits["redis"][k]) : hits'["redis"][k][n] = hits["redis"][k][n]
  <2>1. CASE k # KeyOf(t)
    BY <1>3, <2>1, CountsAdds DEF SharedCount
  <2>2. CASE k = KeyOf(t)
    BY <1>3, <2>2, CountsAdds DEF SharedCount
  <2> QED  BY <2>1, <2>2
<1>4. ASSUME NEW t \in Thread, NEW g \in BOOLEAN, LocalCount(t, g)
      PROVE  hits'["redis"][k] = hits["redis"][k]
  BY <1>4, LocalLeavesRedis
<1>5. ASSUME NEW r \in Replica, Restart(r)
      PROVE  hits'["redis"][k] = hits["redis"][k]
  BY <1>5, RestartLeavesRedis
<1>6. WindowsStay => hits'["redis"][k] = hits["redis"][k]
  BY DEF WindowsStay
<1>7. \/ hits'["redis"][k] = hits["redis"][k]
      \/ /\ Len(hits'["redis"][k]) = Len(hits["redis"][k]) + 1
         /\ \A n \in 1 .. Len(hits["redis"][k]) : hits'["redis"][k][n] = hits["redis"][k][n]
  BY <1>3, <1>4, <1>5, <1>6, WindowSteps
<1> QED  BY <1>1, <1>7

(* The calls made after the beginning of the window of one that read the   *)
(* clock at an instant.                                                    *)
MadeAfter(all, instant) == {n \in DOMAIN all : all[n].at + Window > instant}

LEMMA MadeAfterFinite ==
    ASSUME NEW S, NEW all \in Seq(S), NEW instant
    PROVE  /\ IsFiniteSet(MadeAfter(all, instant))
           /\ Cardinality(MadeAfter(all, instant)) \in Nat
<1>1. IsFiniteSet(1 .. Len(all)) /\ DOMAIN all = 1 .. Len(all)
  BY LenProperties, FS_Interval
<1>2. MadeAfter(all, instant) \in SUBSET (1 .. Len(all))
  BY <1>1 DEF MadeAfter
<1> QED  BY <1>1, <1>2, FS_Subset, FS_CardinalityType

LEMMA MadeAfterGrows ==
    ASSUME NEW S, NEW all \in Seq(S), NEW all2 \in Seq(S), NEW instant,
           Len(all) <= Len(all2), \A n \in 1 .. Len(all) : all2[n] = all[n]
    PROVE  Cardinality(MadeAfter(all, instant)) <= Cardinality(MadeAfter(all2, instant))
<1>1. /\ DOMAIN all = 1 .. Len(all) /\ DOMAIN all2 = 1 .. Len(all2)
      /\ Len(all) \in Nat /\ Len(all2) \in Nat
  BY LenProperties
<1>2. MadeAfter(all, instant) \in SUBSET MadeAfter(all2, instant)
  BY <1>1 DEF MadeAfter
<1> QED  BY <1>2, MadeAfterFinite, FS_Subset

(* The members of a pruned set are as many calls made after the instant.   *)
LEMMA MembersWereMade ==
    ASSUME NEW all \in Seq(Counted), NEW s \in SUBSET Entry, NEW instant \in Nat,
           \A e \in s : /\ e.nr \in 1 .. Len(all) /\ all[e.nr].at = e.at
                        /\ e.at + Window > instant
    PROVE  /\ IsFiniteSet(s) /\ Cardinality(s) \in Nat
           /\ Cardinality(s) <= Cardinality(MadeAfter(all, instant))
<1> DEFINE f == [e \in s |-> e.nr]
           T == MadeAfter(all, instant)
<1>1. DOMAIN all = 1 .. Len(all)
  BY LenProperties
<1>2. f \in [s -> T]
  BY <1>1 DEF MadeAfter
<1>3. ASSUME NEW a \in s, NEW b \in s, f[a] = f[b] PROVE a = b
  <2>1. a.nr = b.nr /\ a.at = b.at
    BY <1>3
  <2>2. a = [at |-> a.at, nr |-> a.nr] /\ b = [at |-> b.at, nr |-> b.nr]
    BY DEF Entry
  <2> QED  BY <2>1, <2>2
<1>4. f \in Injection(s, T)
  <2> HIDE DEF f, T
  <2> QED  BY <1>2, <1>3 DEF Injection, IsInjective
<1>5. IsFiniteSet(T)
  BY MadeAfterFinite
<1> HIDE DEF f, T
<1>6. IsFiniteSet(s) /\ Cardinality(s) <= Cardinality(T)
  BY <1>4, <1>5, FS_Injection
<1> QED  BY <1>6, FS_CardinalityType DEF T

CauseOK ==
    /\ RejectedHadCause
    /\ \A t \in Thread : req[t].pc = "local" => ~available[Home[t]]

LEMMA CauseStep ==
    ASSUME GuardTypeOK, GuardTypeOK', StoreOK', CauseOK, [Next]_vars
    PROVE  CauseOK'
<1> DEFINE Over(t) == /\ Cardinality(MadeAfter(hits'["redis"][KeyOf(t)'], req'[t].stamp))
                           > Limit[req'[t].endpoint]
<1> Nothing.pc = "idle" /\ "redis" \in Tier
  BY DEF Nothing, Tier
<1>1. ASSUME NEW t \in Thread, available'[Home[t]], req'[t] = req[t], req[t].pc = "throttled"
      PROVE  Over(t)
  <2>1. ~Restart(Home[t])
    <3>1. Home[t] \in Replica
      BY GuardAssumption
    <3>2. Restart(Home[t]) => req'[t] = Nothing
      BY DEF Restart
    <3> QED  BY <1>1, <3>2
  <2>2. available[Home[t]]
    BY <1>1, <2>1, FlagFalls
  <2> DEFINE k == KeyOf(t)
  <2>3. k \in Key /\ KeyOf(t)' = k /\ Limit[req[t].endpoint] \in Nat
    BY <1>1, KeyIs DEF KeyOf
  <2>4. Cardinality(MadeAfter(hits["redis"][k], req[t].stamp)) > Limit[req[t].endpoint]
    BY <1>1, <2>2 DEF CauseOK, RejectedHadCause, MadeAfter
  <2>5. hits["redis"][k] \in Seq(Counted) /\ hits'["redis"][k] \in Seq(Counted)
    BY <2>3 DEF GuardTypeOK
  <2> HIDE DEF k
  <2>6. /\ Len(hits["redis"][k]) <= Len(hits'["redis"][k])
        /\ \A n \in 1 .. Len(hits["redis"][k]) : hits'["redis"][k][n] = hits["redis"][k][n]
    BY <2>3, RedisGrows
  <2>7. Cardinality(MadeAfter(hits["redis"][k], req[t].stamp))
          <= Cardinality(MadeAfter(hits'["redis"][k], req[t].stamp))
    BY <2>5, <2>6, MadeAfterGrows
  <2>8. /\ Cardinality(MadeAfter(hits["redis"][k], req[t].stamp)) \in Nat
        /\ Cardinality(MadeAfter(hits'["redis"][k], req[t].stamp)) \in Nat
    BY <2>5, MadeAfterFinite
  <2> QED  BY <1>1, <2>3, <2>4, <2>7, <2>8
<1>2. ASSUME NEW t \in Thread, CountShared(t), req'[t] = [req[t] EXCEPT !.pc = "throttled"],
             ~(Cardinality(shared'[KeyOf(t)]) <= Limit[req[t].endpoint])
      PROVE  Over(t)
  <2> DEFINE k   == KeyOf(t)
             s   == shared'[k]
             all == hits'["redis"][k]
             at0 == req[t].stamp
  <2>1. /\ k \in Key /\ KeyOf(t)' = k /\ at0 \in Nat /\ Limit[req[t].endpoint] \in Nat
        /\ req'[t].stamp = at0 /\ req'[t].endpoint = req[t].endpoint
    <3>1. req[t].pc = "charge" /\ req[t] \in Request
      BY <1>2 DEF CountShared, GuardTypeOK
    <3>2. /\ req'[t].stamp = req[t].stamp /\ req'[t].endpoint = req[t].endpoint
          /\ req'[t].subject = req[t].subject
      BY <1>2, <3>1 DEF Request
    <3> QED  BY <3>1, <3>2, KeyIs DEF KeyOf
  <2>2. all \in Seq(Counted) /\ s \in SUBSET Entry
    BY <2>1 DEF GuardTypeOK
  <2>3. \A e \in s : e.at + Window > at0
    <3>1. Pipeline(t) /\ req[t].pc = "charge"
      BY <1>2 DEF CountShared
    <3>2. s = {e \in InRedis(k) : e.at + Window > at0}
                \cup {[at |-> at0, nr |-> Len(hits["redis"][k]) + 1]}
      BY <3>1, PipelineIs
    <3>3. at0 + Window > at0
      BY <2>1, GuardAssumption
    <3> HIDE DEF k, s, at0
    <3> QED  BY <3>2, <3>3
  <2>4. \A e \in s : e.nr \in 1 .. Len(all) /\ all[e.nr].at = e.at
    BY <2>1 DEF StoreOK
  <2> HIDE DEF k, s, all, at0
  <2>5. /\ Cardinality(s) \in Nat
        /\ Cardinality(s) <= Cardinality(MadeAfter(all, at0))
    BY <2>1, <2>2, <2>3, <2>4, MembersWereMade
  <2>6. Cardinality(MadeAfter(all, at0)) \in Nat
    BY <2>2, MadeAfterFinite
  <2>7. ~(Cardinality(s) <= Limit[req[t].endpoint])
    BY <1>2 DEF s, k
  <2>8. Cardinality(MadeAfter(all, at0)) > Limit[req[t].endpoint]
    BY <2>1, <2>5, <2>6, <2>7
  <2> QED  BY <2>1, <2>8 DEF all
<1>3. ASSUME NEW t \in Thread, CountLocal(t), available'[Home[t]]
      PROVE  FALSE
  <2>1. available' = available /\ req[t].pc = "local"
    BY <1>3 DEF CountLocal
  <2> QED  BY <2>1, <1>3 DEF CauseOK
<1>4. ASSUME NEW t \in Thread, req'[t].pc = "throttled", available'[Home[t]]
      PROVE  Over(t)
  <2>1. CASE req'[t] = req[t]
    BY <1>1, <1>4, <2>1
  <2>2. CASE req'[t] # req[t]
    <3>1. \/ /\ CountShared(t) /\ req'[t] = [req[t] EXCEPT !.pc = "throttled"]
             /\ ~(Cardinality(shared'[KeyOf(t)]) <= Limit[req[t].endpoint])
          \/ CountLocal(t)
      BY <1>4, <2>2, Arrivals
    <3> HIDE DEF Over
    <3> QED  BY <1>2, <1>3, <1>4, <3>1
  <2> QED  BY <2>1, <2>2
<1>5. ASSUME NEW t \in Thread, req'[t].pc = "local"
      PROVE  ~available'[Home[t]]
  <2>1. CASE req'[t] = req[t]
    <3>1. ~available[Home[t]] /\ Home[t] \in Replica
      BY <1>5, <2>1, GuardAssumption DEF CauseOK
    <3>2. ~Restart(Home[t])
      BY <1>5, <2>1 DEF Restart
    <3> QED  BY <3>1, <3>2, FlagFalls
  <2>2. CASE req'[t] # req[t]
    <3>1. CASE req'[t] = [req[t] EXCEPT !.pc = "throttled"]
      BY <1>5, <3>1 DEF GuardTypeOK, Request
    <3> QED  BY <1>5, <2>2, <3>1, Arrivals
  <2> QED  BY <2>1, <2>2
<1>6. RejectedHadCause'
  BY <1>4 DEF RejectedHadCause, MadeAfter
<1> QED  BY <1>5, <1>6 DEF CauseOK

-----------------------------------------------------------------------------
(* The budget: what a window has forgotten is older than a Window.         *)

Recent(all) ==
    {n \in DOMAIN all : all[n].granted /\ \A m \in DOMAIN all : all[n].at + Window > all[m].at}

LEMMA RecentFinite ==
    ASSUME NEW all \in Seq(Counted)
    PROVE  /\ IsFiniteSet(Recent(all)) /\ Cardinality(Recent(all)) \in Nat
           /\ Recent(all) \subseteq 1 .. Len(all) /\ DOMAIN all = 1 .. Len(all)
           /\ Len(all) \in Nat
<1>1. DOMAIN all = 1 .. Len(all) /\ Len(all) \in Nat /\ IsFiniteSet(1 .. Len(all))
  BY LenProperties, FS_Interval
<1>2. Recent(all) \in SUBSET (1 .. Len(all))
  BY <1>1 DEF Recent
<1> QED  BY <1>1, <1>2, FS_Subset, FS_CardinalityType

(* A call that is not granted adds nothing to what was.                    *)
LEMMA RefusedAddsNothing ==
    ASSUME NEW all \in Seq(Counted), NEW all2 \in Seq(Counted),
           Len(all2) = Len(all) + 1, ~all2[Len(all) + 1].granted,
           \A n \in 1 .. Len(all) : all2[n] = all[n]
    PROVE  Cardinality(Recent(all2)) <= Cardinality(Recent(all))
<1>1. /\ DOMAIN all = 1 .. Len(all) /\ DOMAIN all2 = 1 .. Len(all) + 1 /\ Len(all) \in Nat
      /\ IsFiniteSet(Recent(all))
  BY RecentFinite
<1>2. Recent(all2) \in SUBSET Recent(all)
  <2>1. ASSUME NEW n \in Recent(all2) PROVE n \in Recent(all)
    <3>1. n \in 1 .. Len(all) + 1 /\ n # Len(all) + 1
      BY <1>1 DEF Recent
    <3>2. n \in 1 .. Len(all)
      BY <3>1, <1>1
    <3> QED  BY <3>2, <1>1 DEF Recent
  <2> QED  BY <2>1
<1> QED  BY <1>1, <1>2, FS_Subset

(* TrailingBudget says it of every window.                                 *)
LEMMA BudgetIs ==
    TrailingBudget <=> \A i \in Tier, k \in Key : Cardinality(Recent(hits[i][k])) <= Limit[k[2]]
BY DEF TrailingBudget, Recent

(* What Redis has forgotten of a key is a Window older than some call.     *)
RedisKeeps ==
    \A k \in Key : \A n \in 1 .. Len(hits["redis"][k]) :
        \/ [at |-> hits["redis"][k][n].at, nr |-> n] \in shared[k]
        \/ \E m \in 1 .. Len(hits["redis"][k]) :
             hits["redis"][k][n].at + Window <= hits["redis"][k][m].at

LEMMA RedisStep ==
    ASSUME Stall <= 1, GuardTypeOK, ClockOK, StoreOK, RedisKeeps, [Next]_vars
    PROVE  RedisKeeps'
<1> "redis" \in Tier
  BY DEF Tier
<1>1. ASSUME NEW t \in Thread, NEW g \in BOOLEAN, SharedCount(t, g)
      PROVE  RedisKeeps'
  <2> DEFINE k    == KeyOf(t)
             all  == hits["redis"][k]
             all2 == hits'["redis"][k]
             at0  == req[t].stamp
             len  == Len(all)
  <2>1. k \in Key /\ at0 \in Nat /\ now <= at0 + 1 /\ now \in Nat /\ Window \in Nat
    <3>1. now <= at0 + Stall
      BY <1>1 DEF SharedCount, ClockOK, Hanging
    <3>2. k \in Key /\ at0 \in Nat /\ Stall \in Nat /\ now \in Nat /\ Window \in Nat
      BY <1>1, KeyIs, GuardAssumption DEF SharedCount, GuardTypeOK
    <3> HIDE DEF at0
    <3> QED  BY <3>1, <3>2
  <2>2. /\ len \in Nat /\ Len(all2) = len + 1
        /\ all2[len + 1] = [at |-> at0, granted |-> g]
        /\ \A n \in 1 .. len : all2[n] = all[n] /\ all[n] \in Counted
    BY <1>1, CountsAdds DEF SharedCount
  <2>3. \A l \in Key \ {k} : hits'["redis"][l] = hits["redis"][l]
    BY <1>1, CountsAdds DEF SharedCount
  <2>4. /\ shared'[k] = {e \in InRedis(k) : e.at + Window > at0} \cup {[at |-> at0, nr |-> len + 1]}
        /\ InRedis(k) = IF now < deadline[k] THEN shared[k] ELSE {}
        /\ \A l \in Key \ {k} : shared'[l] = shared[l]
    BY <1>1, PipelineIs DEF SharedCount
  <2>5. \A e \in shared[k] : e.at + Window + 1 <= deadline[k]
    BY <2>1 DEF StoreOK
  <2>6. deadline[k] \in Nat
    BY <2>1 DEF GuardTypeOK
  <2>7. all2[len + 1].at = at0 /\ \A n \in 1 .. len : all[n].at \in Nat
    BY <2>2 DEF Counted
  <2>8. \A n \in 1 .. len :
          \/ [at |-> all[n].at, nr |-> n] \in shared[k]
          \/ \E m \in 1 .. len : all[n].at + Window <= all[m].at
    BY <2>1 DEF RedisKeeps
  <2> HIDE DEF k, all, all2, at0, len
  <2>9. ASSUME NEW n \in 1 .. Len(all2)
        PROVE  \/ [at |-> all2[n].at, nr |-> n] \in shared'[k]
               \/ \E m \in 1 .. Len(all2) : all2[n].at + Window <= all2[m].at
    <3>1. CASE n = len + 1
      BY <3>1, <2>4, <2>7
    <3>2. CASE n \in 1 .. len
      <4> DEFINE e == [at |-> all[n].at, nr |-> n]
      <4>1. all2[n] = all[n] /\ all[n].at \in Nat /\ e.at = all[n].at
        BY <3>2, <2>2, <2>7
      <4>2. CASE e \in shared[k] /\ now < deadline[k] /\ e.at + Window > at0
        BY <4>1, <4>2, <2>4
      <4>3. CASE e \in shared[k] /\ ~(now < deadline[k] /\ e.at + Window > at0)
        <5>1. e.at + Window + 1 <= deadline[k]
          BY <4>3, <2>5
        <5>2. all[n].at + Window <= at0
          <6> HIDE DEF e
          <6> QED  BY <5>1, <4>3, <4>1, <2>1, <2>6
        <5>3. len + 1 \in 1 .. Len(all2)
          BY <2>2
        <5> QED  BY <5>2, <5>3, <4>1, <2>7
      <4>4. CASE \E m \in 1 .. len : all[n].at + Window <= all[m].at
        <5>1. PICK m \in 1 .. len : all[n].at + Window <= all[m].at
          BY <4>4
        <5>2. m \in 1 .. Len(all2) /\ all2[m] = all[m]
          BY <5>1, <2>2
        <5> QED  BY <5>1, <5>2, <4>1
      <4> QED  BY <4>2, <4>3, <4>4, <2>8, <3>2
    <3> QED  BY <3>1, <3>2, <2>2
  <2>10. ASSUME NEW l \in Key
         PROVE  \A n \in 1 .. Len(hits'["redis"][l]) :
                  \/ [at |-> hits'["redis"][l][n].at, nr |-> n] \in shared'[l]
                  \/ \E m \in 1 .. Len(hits'["redis"][l]) :
                       hits'["redis"][l][n].at + Window <= hits'["redis"][l][m].at
    <3>1. CASE l = k
      BY <3>1, <2>9 DEF all2
    <3>2. CASE l # k
      <4>1. hits'["redis"][l] = hits["redis"][l] /\ shared'[l] = shared[l]
        BY <3>2, <2>3, <2>4
      <4> QED  BY <4>1 DEF RedisKeeps
    <3> QED  BY <3>1, <3>2
  <2> QED  BY <2>10 DEF RedisKeeps
<1>2. ASSUME NEW t \in Thread, NEW g \in BOOLEAN, LocalCount(t, g)
      PROVE  RedisKeeps'
  <2>1. \A l \in Key : hits'["redis"][l] = hits["redis"][l]
    BY <1>2, LocalLeavesRedis
  <2> QED  BY <1>2, <2>1 DEF LocalCount, RedisKeeps
<1>3. ASSUME NEW r \in Replica, Restart(r)
      PROVE  RedisKeeps'
  <2>1. hits'["redis"] = hits["redis"] /\ shared' = shared
    BY <1>3, RestartLeavesRedis DEF Restart
  <2> QED  BY <2>1 DEF RedisKeeps
<1>4. CASE WindowsStay
  BY <1>4 DEF WindowsStay, RedisKeeps
<1> QED  BY <1>1, <1>2, <1>3, <1>4, WindowSteps

(* A deque of a process holds its last calls, and what is gone from it is  *)
(* a Window older than some call.                                          *)
KeepsTail(s, all) ==
    LET gone == Len(all) - Len(s)
    IN  /\ Len(s) <= Len(all)
        /\ \A n \in 1 .. Len(s) : s[n].at = all[gone + n].at
        /\ \A n \in 1 .. gone : \E m \in 1 .. Len(all) : all[n].at + Window < all[m].at

LocalKeeps == \A r \in Replica, k \in Key : KeepsTail(local[r][k], hits[r][k])

(* One call is counted: what the deque gives up is aged, the call is last. *)
LEMMA KeepsTailStep ==
    ASSUME NEW all \in Seq(Counted), NEW s \in Seq(Hit), KeepsTail(s, all),
           NEW at0 \in Nat, NEW g \in BOOLEAN
    PROVE  KeepsTail(Append(PopAged(s, at0), [at |-> at0]),
                     Append(all, [at |-> at0, granted |-> g]))
<1> DEFINE rest == PopAged(s, at0)
           mine == [at |-> at0]
           new  == [at |-> at0, granted |-> g]
           s2   == Append(rest, mine)
           all2 == Append(all, new)
           gone == Len(all) - Len(s)
           aged == Len(s) - Len(rest)
<1>1. mine \in Hit /\ new \in Counted /\ mine.at = at0 /\ new.at = at0 /\ Window \in Nat
  BY GuardAssumption DEF Hit, Counted
<1>2. Len(s) \in Nat /\ \A i \in 1 .. Len(s) : s[i].at \in Nat
  <2>1. Len(s) \in Nat /\ \A i \in 1 .. Len(s) : s[i] \in Hit
    BY LenProperties, ElementOfSeq
  <2> QED  BY <2>1 DEF Hit
<1>3. /\ rest \in Seq(Hit) /\ Len(rest) \in 0 .. Len(s)
      /\ \A i \in 1 .. Len(rest) : rest[i] = s[aged + i]
      /\ \A i \in 1 .. aged : s[i].at + Window < at0
  BY <1>2, PopAgedIs
<1> HIDE DEF rest, mine, new
<1>4. /\ Len(all) \in Nat /\ Len(all2) = Len(all) + 1 /\ all2[Len(all) + 1] = new
      /\ \A n \in 1 .. Len(all) : all2[n] = all[n] /\ all2[n] \in Counted
  BY <1>1, AppendIs
<1>5. /\ Len(s2) = Len(rest) + 1 /\ s2[Len(rest) + 1] = mine
      /\ \A i \in 1 .. Len(rest) : s2[i] = rest[i]
  BY <1>1, <1>3, AppendIs
<1>6. \A n \in 1 .. Len(all) : all[n].at \in Nat /\ all2[n].at = all[n].at
  BY <1>4 DEF Counted
<1>7. /\ Len(s) <= Len(all)
      /\ \A n \in 1 .. Len(s) : s[n].at = all[gone + n].at
      /\ \A n \in 1 .. gone : \E m \in 1 .. Len(all) : all[n].at + Window < all[m].at
  BY DEF KeepsTail
<1> HIDE DEF s2, all2
<1> DEFINE gone2 == Len(all2) - Len(s2)
<1>8. Len(s2) <= Len(all2) /\ gone2 = gone + aged
  BY <1>2, <1>3, <1>4, <1>5, <1>7
<1>9. ASSUME NEW n \in 1 .. Len(s2)
      PROVE  s2[n].at = all2[gone2 + n].at
  <2>1. CASE n \in 1 .. Len(rest)
    <3>1. aged + n \in 1 .. Len(s) /\ gone + (aged + n) \in 1 .. Len(all)
          /\ gone2 + n = gone + (aged + n)
      <4>1. gone + Len(s) = Len(all) /\ aged + Len(rest) = Len(s) /\ gone \in Nat /\ aged \in Nat
        BY <1>2, <1>3, <1>4, <1>7
      <4> HIDE DEF gone, aged, gone2
      <4>2. aged + n \in 1 .. Len(s)
        BY <4>1, <2>1, <1>2, <1>3
      <4>3. gone + (aged + n) \in 1 .. Len(all)
        BY <4>1, <4>2, <1>2, <1>4
      <4> QED  BY <4>1, <4>2, <4>3, <1>8, <2>1, <1>3
    <3>2. s2[n] = s[aged + n] /\ s[aged + n].at = all[gone + (aged + n)].at
      BY <2>1, <3>1, <1>3, <1>5, <1>7
    <3> HIDE DEF gone, gone2, aged
    <3> QED  BY <3>1, <3>2, <1>6
  <2>2. CASE n = Len(rest) + 1
    <3>1. gone2 + n = Len(all) + 1
      BY <2>2, <1>2, <1>3, <1>4, <1>5
    <3> HIDE DEF gone2
    <3> QED  BY <3>1, <2>2, <1>1, <1>4, <1>5
  <2> QED  BY <2>1, <2>2, <1>3, <1>5
<1>10. ASSUME NEW n \in 1 .. gone2
       PROVE  \E m \in 1 .. Len(all2) : all2[n].at + Window < all2[m].at
  <2>1. n \in 1 .. Len(all) /\ gone \in Nat
    BY <1>2, <1>3, <1>4, <1>7, <1>8
  <2>2. CASE n \in 1 .. gone
    <3>1. PICK m \in 1 .. Len(all) : all[n].at + Window < all[m].at
      BY <2>2, <1>7
    <3>2. m \in 1 .. Len(all2)
      BY <1>4
    <3> QED  BY <2>1, <3>1, <3>2, <1>6
  <2>3. CASE n \notin 1 .. gone
    <3>1. n - gone \in 1 .. aged /\ n - gone \in 1 .. Len(s) /\ gone + (n - gone) = n
      BY <2>1, <2>3, <1>2, <1>3, <1>8
    <3>2. s[n - gone].at + Window < at0 /\ s[n - gone].at = all[gone + (n - gone)].at
      BY <3>1, <1>3, <1>7
    <3>3. all[n].at + Window < at0
      <4> HIDE DEF gone
      <4> QED  BY <3>1, <3>2
    <3>4. Len(all) + 1 \in 1 .. Len(all2)
      BY <1>4
    <3> QED  BY <2>1, <3>3, <3>4, <1>1, <1>4, <1>6
  <2> QED  BY <2>2, <2>3
<1>11. KeepsTail(s2, all2)
  BY <1>8, <1>9, <1>10 DEF KeepsTail
<1> QED  BY <1>11 DEF s2, all2, rest, mine, new

LEMMA LocalStep ==
    ASSUME GuardTypeOK, LocalKeeps, [Next]_vars
    PROVE  LocalKeeps'
<1> Replica \subseteq Tier /\ "redis" \notin Replica
  BY GuardAssumption DEF Tier
<1>1. ASSUME NEW t \in Thread, NEW g \in BOOLEAN, SharedCount(t, g)
      PROVE  LocalKeeps'
  <2>1. \A r \in Replica, l \in Key : hits'[r][l] = hits[r][l]
    <3>1. "redis" \in Tier /\ req[t].pc = "charge" /\ Counts("redis", t, g)
      BY <1>1 DEF SharedCount, Tier
    <3>2. \A j \in Tier, l \in Key : j # "redis" \/ l # KeyOf(t) => hits'[j][l] = hits[j][l]
      BY <3>1, CountsAdds
    <3> QED  BY <3>2
  <2> QED  BY <1>1, <2>1 DEF SharedCount, LocalKeeps
<1>2. ASSUME NEW t \in Thread, NEW g \in BOOLEAN, LocalCount(t, g)
      PROVE  LocalKeeps'
  <2> DEFINE r   == Home[t]
             k   == KeyOf(t)
             at0 == req[t].stamp
  <2>1. r \in Replica /\ k \in Key /\ at0 \in Nat /\ req[t].pc = "local" /\ CountLocal(t)
        /\ Counts(r, t, g) /\ r \in Tier
    BY <1>2, KeyIs DEF LocalCount
  <2>2. /\ local[r][k] \in Seq(Hit)
        /\ local'[r][k] = Append(PopAged(local[r][k], at0), [at |-> at0])
        /\ \A q \in Replica, l \in Key : q # r \/ l # k => local'[q][l] = local[q][l]
    BY <2>1, CountLocalIs
  <2>3. /\ hits[r][k] \in Seq(Counted)
        /\ hits'[r][k] = Append(hits[r][k], [at |-> at0, granted |-> g])
        /\ \A j \in Tier, l \in Key : j # r \/ l # k => hits'[j][l] = hits[j][l]
    BY <2>1, CountsIs
  <2>4. KeepsTail(local[r][k], hits[r][k])
    BY <2>1 DEF LocalKeeps
  <2> HIDE DEF r, k, at0
  <2>5. KeepsTail(local'[r][k], hits'[r][k])
    BY <2>1, <2>2, <2>3, <2>4, KeepsTailStep
  <2>6. ASSUME NEW q \in Replica, NEW l \in Key
        PROVE  KeepsTail(local'[q][l], hits'[q][l])
    <3>1. CASE q = r /\ l = k
      BY <3>1, <2>5
    <3>2. CASE q # r \/ l # k
      <4>1. local'[q][l] = local[q][l] /\ hits'[q][l] = hits[q][l]
        BY <3>2, <2>2, <2>3
      <4> QED  BY <4>1 DEF LocalKeeps
    <3> QED  BY <3>1, <3>2
  <2> QED  BY <2>6 DEF LocalKeeps, KeepsTail
<1>3. ASSUME NEW r \in Replica, Restart(r)
      PROVE  LocalKeeps'
  <2>1. /\ local' = [local EXCEPT ![r] = [k \in Key |-> <<>>]]
        /\ hits' = [hits EXCEPT ![r] = [k \in Key |-> <<>>]]
    BY <1>3 DEF Restart
  <2>2. \A q \in Replica, l \in Key :
          \/ local'[q][l] = <<>> /\ hits'[q][l] = <<>>
          \/ local'[q][l] = local[q][l] /\ hits'[q][l] = hits[q][l]
    BY <2>1 DEF GuardTypeOK
  <2>3. KeepsTail(<<>>, <<>>)
    BY DEF KeepsTail
  <2>4. ASSUME NEW q \in Replica, NEW l \in Key
        PROVE  KeepsTail(local'[q][l], hits'[q][l])
    <3>1. CASE local'[q][l] = <<>> /\ hits'[q][l] = <<>>
      BY <3>1, <2>3
    <3>2. CASE local'[q][l] = local[q][l] /\ hits'[q][l] = hits[q][l]
      BY <3>2 DEF LocalKeeps
    <3> QED  BY <3>1, <3>2, <2>2
  <2> QED  BY <2>4 DEF LocalKeeps, KeepsTail
<1>4. CASE WindowsStay
  BY <1>4 DEF WindowsStay, LocalKeeps, KeepsTail
<1> QED  BY <1>1, <1>2, <1>3, <1>4, WindowSteps

LEMMA MembersFinite ==
    ASSUME NEW all \in Seq(Counted), NEW s \in SUBSET Entry,
           \A e \in s : e.nr \in 1 .. Len(all) /\ all[e.nr].at = e.at
    PROVE  IsFiniteSet(s) /\ Cardinality(s) \in Nat
<1> DEFINE f == [e \in s |-> e.nr]
           T == 1 .. Len(all)
<1>1. f \in [s -> T]
  OBVIOUS
<1>2. ASSUME NEW a \in s, NEW b \in s, f[a] = f[b] PROVE a = b
  <2>1. a.nr = b.nr /\ a.at = b.at
    BY <1>2
  <2>2. a = [at |-> a.at, nr |-> a.nr] /\ b = [at |-> b.at, nr |-> b.nr]
    BY DEF Entry
  <2> QED  BY <2>1, <2>2
<1>3. f \in Injection(s, T)
  <2> HIDE DEF f, T
  <2> QED  BY <1>1, <1>2 DEF Injection, IsInjective
<1>4. IsFiniteSet(T)
  BY LenProperties, FS_Interval
<1> HIDE DEF f, T
<1>5. IsFiniteSet(s)
  BY <1>3, <1>4, FS_Injection
<1> QED  BY <1>5, FS_CardinalityType

(* The recent calls are members of the sorted set.                         *)
LEMMA RecentInStore ==
    ASSUME NEW all \in Seq(Counted), NEW s \in SUBSET Entry, IsFiniteSet(s),
           \A n \in 1 .. Len(all) :
               \/ [at |-> all[n].at, nr |-> n] \in s
               \/ \E m \in 1 .. Len(all) : all[n].at + Window <= all[m].at
    PROVE  Cardinality(Recent(all)) <= Cardinality(s)
<1> DEFINE R == Recent(all)
           f == [n \in R |-> [at |-> all[n].at, nr |-> n]]
<1>1. DOMAIN all = 1 .. Len(all) /\ R \subseteq 1 .. Len(all)
  BY RecentFinite
<1>2. \A n \in 1 .. Len(all) : all[n].at \in Nat
  <2>1. \A n \in 1 .. Len(all) : all[n] \in Counted
    BY ElementOfSeq
  <2> QED  BY <2>1 DEF Counted
<1>3. ASSUME NEW n \in R PROVE f[n] \in s
  <2>1. n \in 1 .. Len(all) /\ \A m \in 1 .. Len(all) : all[n].at + Window > all[m].at
    BY <1>1 DEF Recent
  <2>2. \A m \in 1 .. Len(all) : ~(all[n].at + Window <= all[m].at)
    <3>1. \A m \in 1 .. Len(all) : all[m].at \in Nat /\ all[n].at + Window \in Nat
      <4>1. all[n].at \in Nat /\ Window \in Nat
        BY <2>1, <1>2, GuardAssumption
      <4> QED  BY <4>1, <1>2
    <3>2. \A x, y \in Nat : x > y => ~(x <= y)
      OBVIOUS
    <3> QED  BY <2>1, <3>1, <3>2
  <2>3. [at |-> all[n].at, nr |-> n] \in s
    BY <2>1, <2>2
  <2> QED  BY <2>3
<1>4. f \in [R -> s]
  BY <1>3
<1>5. ASSUME NEW a \in R, NEW b \in R, f[a] = f[b] PROVE a = b
  <2>1. f[a].nr = a /\ f[b].nr = b
    OBVIOUS
  <2> QED  BY <2>1, <1>5
<1>6. f \in Injection(R, s)
  <2> HIDE DEF f, R
  <2> QED  BY <1>4, <1>5 DEF Injection, IsInjective
<1> HIDE DEF f
<1>7. Cardinality(R) <= Cardinality(s)
  <2> HIDE DEF R
  <2> QED  BY <1>6, FS_Injection
<1> QED  BY <1>7

(* The recent calls are the last ones, which the deque holds.              *)
LEMMA RecentInTail ==
    ASSUME NEW all \in Seq(Counted), NEW s \in Seq(Hit), KeepsTail(s, all)
    PROVE  Cardinality(Recent(all)) <= Len(s)
<1> DEFINE R == Recent(all)
           gone == Len(all) - Len(s)
           T == gone + 1 .. Len(all)
<1>1. DOMAIN all = 1 .. Len(all) /\ R \subseteq 1 .. Len(all) /\ Len(all) \in Nat
      /\ Len(s) \in Nat /\ Len(s) <= Len(all)
  BY RecentFinite, LenProperties DEF KeepsTail
<1>2. \A n \in 1 .. Len(all) : all[n].at \in Nat
  <2>1. \A n \in 1 .. Len(all) : all[n] \in Counted
    BY ElementOfSeq
  <2> QED  BY <2>1 DEF Counted
<1>3. ASSUME NEW n \in R PROVE n \in T
  <2>1. n \in 1 .. Len(all) /\ \A m \in 1 .. Len(all) : all[n].at + Window > all[m].at
    BY <1>1 DEF Recent
  <2>2. n \notin 1 .. gone
    <3>1. ASSUME n \in 1 .. gone PROVE FALSE
      <4>1. PICK m \in 1 .. Len(all) : all[n].at + Window < all[m].at
        BY <3>1 DEF KeepsTail
      <4>2. all[n].at + Window > all[m].at
        BY <2>1
      <4>3. all[n].at \in Nat /\ all[m].at \in Nat /\ Window \in Nat
        BY <2>1, <1>2, GuardAssumption
      <4> QED  BY <4>1, <4>2, <4>3
    <3> QED  BY <3>1
  <2> QED  BY <2>1, <2>2, <1>1
<1>4. IsFiniteSet(T) /\ Cardinality(T) = Len(s)
  <2>1. gone + 1 \in Int /\ Len(all) \in Int
    BY <1>1
  <2>2. IsFiniteSet(T) /\ Cardinality(T) = IF gone + 1 > Len(all) THEN 0 ELSE Len(all) - (gone + 1) + 1
    <3> HIDE DEF gone
    <3> QED  BY <2>1, FS_Interval
  <2> HIDE DEF T
  <2> QED  BY <2>2, <1>1
<1>5. R \in SUBSET T
  BY <1>3
<1> HIDE DEF R, T
<1>6. Cardinality(R) <= Cardinality(T)
  BY <1>4, <1>5, FS_Subset
<1> QED  BY <1>4, <1>6 DEF R

LEMMA BudgetStep ==
    ASSUME GuardTypeOK, GuardTypeOK', StoreOK', RedisKeeps', LocalKeeps',
           TrailingBudget, [Next]_vars
    PROVE  TrailingBudget'
<1> Replica \subseteq Tier /\ "redis" \in Tier
  BY DEF Tier
<1> DEFINE Small(i, k) == Cardinality(Recent(hits'[i][k])) <= Limit[k[2]]
<1>1. \A i \in Tier, k \in Key : Cardinality(Recent(hits[i][k])) <= Limit[k[2]]
  BY BudgetIs
<1>2. \A k \in Key : Limit[k[2]] \in Nat
  BY GuardAssumption DEF Key
<1>3. ASSUME NEW t \in Thread, NEW g \in BOOLEAN, NEW i \in Tier,
             req[t].pc \in {"charge", "local"}, Counts(i, t, g),
             g => Small(i, KeyOf(t))
      PROVE  \A j \in Tier, k \in Key : Small(j, k)
  <2> DEFINE k    == KeyOf(t)
             all  == hits[i][k]
             all2 == hits'[i][k]
  <2>1. /\ k \in Key /\ all \in Seq(Counted) /\ all2 \in Seq(Counted)
        /\ Len(all2) = Len(all) + 1
        /\ all2[Len(all) + 1] = [at |-> req[t].stamp, granted |-> g]
        /\ \A n \in 1 .. Len(all) : all2[n] = all[n]
    BY <1>3, CountsAdds
  <2>2. \A j \in Tier, l \in Key : j # i \/ l # k => hits'[j][l] = hits[j][l]
    BY <1>3, CountsAdds
  <2>3. ASSUME ~g PROVE Small(i, k)
    <3>1. ~all2[Len(all) + 1].granted
      BY <2>1, <2>3
    <3> HIDE DEF k, all, all2
    <3>2. Cardinality(Recent(all2)) <= Cardinality(Recent(all))
      BY <2>1, <3>1, RefusedAddsNothing
    <3>3. Cardinality(Recent(all2)) \in Nat /\ Cardinality(Recent(all)) \in Nat
      BY <2>1, RecentFinite
    <3>4. Cardinality(Recent(all)) <= Limit[k[2]]
      BY <2>1, <1>1 DEF all
    <3>5. Cardinality(Recent(all2)) <= Limit[k[2]]
      BY <2>1, <3>2, <3>3, <3>4, <1>2
    <3> QED  BY <3>5 DEF all2
  <2>4. Small(i, k)
    BY <1>3, <2>3
  <2>5. ASSUME NEW j \in Tier, NEW l \in Key
        PROVE  Small(j, l)
    <3>1. CASE j = i /\ l = k
      BY <3>1, <2>4
    <3>2. CASE j # i \/ l # k
      BY <3>2, <2>2, <1>1
    <3> QED  BY <3>1, <3>2
  <2> QED  BY <2>5
<1>4. ASSUME NEW t \in Thread, NEW g \in BOOLEAN, SharedCount(t, g)
      PROVE  \A i \in Tier, k \in Key : Small(i, k)
  <2> DEFINE k == KeyOf(t)
  <2>1. /\ req[t].pc = "charge" /\ Counts("redis", t, g) /\ k \in Key /\ k[2] = req[t].endpoint
        /\ g => Cardinality(shared'[k]) <= Limit[k[2]]
    BY <1>4, KeyIs DEF SharedCount
  <2> HIDE DEF k
  <2>2. hits'["redis"][k] \in Seq(Counted) /\ shared'[k] \in SUBSET Entry
    BY <2>1 DEF GuardTypeOK
  <2>3. \A e \in shared'[k] :
          e.nr \in 1 .. Len(hits'["redis"][k]) /\ hits'["redis"][k][e.nr].at = e.at
    BY <2>1 DEF StoreOK
  <2>4. IsFiniteSet(shared'[k]) /\ Cardinality(shared'[k]) \in Nat
    BY <2>2, <2>3, MembersFinite
  <2>5. \A n \in 1 .. Len(hits'["redis"][k]) :
            \/ [at |-> hits'["redis"][k][n].at, nr |-> n] \in shared'[k]
            \/ \E m \in 1 .. Len(hits'["redis"][k]) :
                 hits'["redis"][k][n].at + Window <= hits'["redis"][k][m].at
    BY <2>1 DEF RedisKeeps
  <2>6. Cardinality(Recent(hits'["redis"][k])) <= Cardinality(shared'[k])
    BY <2>2, <2>4, <2>5, RecentInStore
  <2>7. Cardinality(Recent(hits'["redis"][k])) \in Nat
    BY <2>2, RecentFinite
  <2>8. g => Small("redis", k)
    BY <2>1, <2>4, <2>6, <2>7, <1>2
  <2> HIDE DEF Small
  <2> QED  BY <2>1, <2>8, <1>3 DEF k
<1>5. ASSUME NEW t \in Thread, NEW g \in BOOLEAN, LocalCount(t, g)
      PROVE  \A i \in Tier, k \in Key : Small(i, k)
  <2> DEFINE k == KeyOf(t)
             r == Home[t]
  <2>1. /\ req[t].pc = "local" /\ Counts(r, t, g) /\ k \in Key /\ k[2] = req[t].endpoint
        /\ r \in Replica
        /\ g => Len(local'[r][k]) <= Limit[k[2]]
    BY <1>5, KeyIs DEF LocalCount
  <2> HIDE DEF k, r
  <2>2. hits'[r][k] \in Seq(Counted) /\ local'[r][k] \in Seq(Hit)
    BY <2>1 DEF GuardTypeOK
  <2>3. KeepsTail(local'[r][k], hits'[r][k])
    <3>1. \A q \in Replica, l \in Key : KeepsTail(local'[q][l], hits'[q][l])
      BY DEF LocalKeeps, KeepsTail
    <3> QED  BY <2>1, <3>1
  <2>4. Cardinality(Recent(hits'[r][k])) <= Len(local'[r][k])
    BY <2>2, <2>3, RecentInTail
  <2>5. Cardinality(Recent(hits'[r][k])) \in Nat /\ Len(local'[r][k]) \in Nat
    BY <2>2, RecentFinite, LenProperties
  <2>6. g => Small(r, k)
    BY <2>1, <2>4, <2>5, <1>2
  <2> HIDE DEF Small
  <2> QED  BY <2>1, <2>6, <1>3 DEF k, r
<1>6. ASSUME NEW r \in Replica, Restart(r)
      PROVE  \A i \in Tier, k \in Key : Small(i, k)
  <2>1. hits' = [hits EXCEPT ![r] = [k \in Key |-> <<>>]]
    BY <1>6 DEF Restart
  <2>2. \A i \in Tier, k \in Key : hits'[i][k] = <<>> \/ hits'[i][k] = hits[i][k]
    BY <2>1 DEF GuardTypeOK
  <2>3. Cardinality(Recent(<<>>)) = 0
    <3>1. Recent(<<>>) = {}
      BY DEF Recent
    <3> QED  BY <3>1, FS_EmptySet
  <2> QED  BY <2>2, <2>3, <1>1, <1>2
<1>7. WindowsStay => \A i \in Tier, k \in Key : Small(i, k)
  BY <1>1 DEF WindowsStay
<1>8. \A i \in Tier, k \in Key : Small(i, k)
  <2> HIDE DEF Small
  <2> QED  BY <1>4, <1>5, <1>6, <1>7, WindowSteps
<1> QED  BY <1>8 DEF TrailingBudget, Recent

-----------------------------------------------------------------------------
(* The breaker: its deque holds the last outcomes; those it has given up   *)
(* are aged, and each it still has is behind one that is not.              *)

Holds(s, past) ==
    LET gone == Len(past) - Len(s)
    IN  /\ Len(s) <= Len(past)
        /\ \A n \in 1 .. Len(s) : s[n] = past[gone + n]
        /\ \A n \in 1 .. gone : \E m \in 1 .. Len(s) : past[n].at + Window < s[m].at
        /\ \A n \in 1 .. Len(s) : \E m \in 1 .. n : s[m].at + Window >= s[Len(s)].at

CalmOK ==
    \A r \in Replica :
        /\ Holds(events[r], outcomes[r])
        /\ ~open[r] => ~Unhealthy(events[r])

LEMMA HoldsStep ==
    ASSUME NEW past \in Seq(Outcome), NEW s \in Seq(Outcome), Holds(s, past), NEW mine \in Outcome
    PROVE  Holds(PopAged(Append(s, mine), mine.at), Append(past, mine))
<1> DEFINE full  == Append(s, mine)
           kept  == PopAged(full, mine.at)
           past2 == Append(past, mine)
           gone  == Len(past) - Len(s)
           aged  == Len(full) - Len(kept)
           gone2 == Len(past2) - Len(kept)
<1>1. mine.at \in Nat /\ Window \in Nat
  BY GuardAssumption DEF Outcome
<1>2. /\ full \in Seq(Outcome) /\ Len(s) \in Nat /\ Len(full) = Len(s) + 1
      /\ full[Len(s) + 1] = mine
      /\ \A i \in 1 .. Len(s) : full[i] = s[i] /\ full[i] \in Outcome
  BY AppendIs
<1>3. /\ Len(past) \in Nat /\ Len(past2) = Len(past) + 1
      /\ past2[Len(past) + 1] = mine
      /\ \A i \in 1 .. Len(past) : past2[i] = past[i] /\ past2[i] \in Outcome
  BY AppendIs
<1> HIDE DEF full, past2
<1>4. \A i \in 1 .. Len(full) : full[i].at \in Nat
  <2>1. \A i \in 1 .. Len(full) : full[i] \in Outcome
    BY <1>2, ElementOfSeq
  <2> QED  BY <2>1 DEF Outcome
<1>5. /\ Len(kept) \in 0 .. Len(full)
      /\ \A i \in 1 .. Len(kept) : kept[i] = full[aged + i]
      /\ \A i \in 1 .. aged : full[i].at + Window < mine.at
      /\ \A i \in 1 .. Len(kept) : \E j \in 1 .. i : kept[j].at + Window >= mine.at
  <2> DEFINE instant == mine.at
  <2>1. full \in Seq(Outcome) /\ instant \in Nat
    BY <1>1, <1>2
  <2> HIDE DEF instant
  <2>2. LET rest == PopAged(full, instant)
            lost2 == Len(full) - Len(rest)
        IN  /\ rest \in Seq(Outcome) /\ Len(rest) \in 0 .. Len(full)
            /\ \A i \in 1 .. Len(rest) : rest[i] = full[lost2 + i]
            /\ \A i \in 1 .. lost2 : full[i].at + Window < instant
            /\ \A i \in 1 .. Len(rest) : \E j \in 1 .. i : rest[j].at + Window >= instant
    BY <2>1, <1>4, PopAgedIs
  <2> QED  BY <2>2 DEF instant
<1> HIDE DEF kept
<1>6. /\ Len(s) <= Len(past)
      /\ \A n \in 1 .. Len(s) : s[n] = past[gone + n]
      /\ \A n \in 1 .. gone : \E m \in 1 .. Len(s) : past[n].at + Window < s[m].at
  BY DEF Holds
<1>7. /\ gone \in Nat /\ gone + Len(s) = Len(past)
      /\ aged \in Nat /\ aged + Len(kept) = Len(s) + 1
      /\ gone2 = gone + aged /\ gone2 + Len(kept) = Len(past) + 1
  BY <1>2, <1>3, <1>5, <1>6
<1> HIDE DEF gone, aged, gone2
<1>8. Len(kept) >= 1 /\ kept[Len(kept)] = mine
  <2>1. ~(Len(s) + 1 \in 1 .. aged)
    <3>1. ASSUME Len(s) + 1 \in 1 .. aged PROVE FALSE
      <4>1. full[Len(s) + 1].at + Window < mine.at
        BY <3>1, <1>5
      <4>2. mine.at + Window < mine.at
        BY <4>1, <1>2
      <4> QED  BY <4>2, <1>1
    <3> QED  BY <3>1
  <2>2. Len(kept) >= 1 /\ Len(kept) \in 1 .. Len(kept) /\ aged + Len(kept) = Len(s) + 1
    BY <2>1, <1>2, <1>5, <1>7
  <2>3. kept[Len(kept)] = full[aged + Len(kept)]
    BY <2>2, <1>5
  <2> QED  BY <2>2, <2>3, <1>2
<1>9. Len(kept) <= Len(past2)
  BY <1>2, <1>3, <1>5, <1>6
<1>10. ASSUME NEW n \in 1 .. Len(kept)
       PROVE  kept[n] = past2[gone2 + n]
  <2>1. kept[n] = full[aged + n] /\ aged + n \in 1 .. Len(s) + 1
    BY <1>5, <1>7, <1>2
  <2>2. CASE aged + n = Len(s) + 1
    <3>1. gone2 + n = Len(past) + 1
      BY <2>2, <1>2, <1>3, <1>5, <1>7
    <3> QED  BY <2>1, <2>2, <3>1, <1>2, <1>3
  <2>3. CASE aged + n \in 1 .. Len(s)
    <3>1. gone2 + n = gone + (aged + n) /\ gone2 + n \in 1 .. Len(past)
      BY <2>3, <1>2, <1>3, <1>5, <1>7
    <3>2. full[aged + n] = s[aged + n] /\ s[aged + n] = past[gone + (aged + n)]
      BY <2>3, <1>2, <1>6
    <3> QED  BY <2>1, <3>1, <3>2, <1>3
  <2> QED  BY <2>1, <2>2, <2>3, <1>2
<1>11. ASSUME NEW n \in 1 .. gone2
       PROVE  \E m \in 1 .. Len(kept) : past2[n].at + Window < kept[m].at
  <2>1. n \in 1 .. Len(past)
    BY <1>7, <1>8, <1>3, <1>5
  <2>2. past2[n] = past[n] /\ past[n].at \in Nat
    BY <2>1, <1>3 DEF Outcome
  <2>3. CASE n \in 1 .. gone
    <3>1. PICK m \in 1 .. Len(s) : past[n].at + Window < s[m].at
      BY <2>3, <1>6
    <3>2. full[m] = s[m] /\ s[m].at \in Nat /\ m \in 1 .. Len(full)
      BY <1>2, <1>4
    <3>3. CASE m \in 1 .. aged
      <4>1. s[m].at + Window < mine.at
        BY <3>2, <3>3, <1>5
      <4>2. past[n].at + Window < mine.at
        <5>1. \A w, x, y, z \in Nat : x + w < y /\ y + w < z => x + w < z
          OBVIOUS
        <5> QED  BY <4>1, <3>1, <3>2, <2>2, <1>1, <5>1
      <4>3. Len(kept) \in 1 .. Len(kept)
        BY <1>8, <1>5, <1>2
      <4> QED  BY <4>2, <4>3, <2>2, <1>8
    <3>4. CASE m \notin 1 .. aged
      <4>1. m - aged \in 1 .. Len(kept) /\ aged + (m - aged) = m
        BY <3>4, <1>2, <1>5, <1>7
      <4>2. kept[m - aged] = s[m]
        BY <4>1, <3>2, <1>5
      <4> QED  BY <4>1, <4>2, <3>1, <2>2
    <3> QED  BY <3>3, <3>4
  <2>4. CASE n \notin 1 .. gone
    <3>1. n - gone \in 1 .. aged /\ n - gone \in 1 .. Len(s) /\ gone + (n - gone) = n
      BY <2>1, <2>4, <1>2, <1>7, <1>3
    <3>2. full[n - gone] = s[n - gone] /\ s[n - gone] = past[gone + (n - gone)]
      BY <3>1, <1>2, <1>6
    <3>3. full[n - gone].at + Window < mine.at
      BY <3>1, <1>5
    <3>4. past[n].at + Window < mine.at
      BY <3>1, <3>2, <3>3
    <3>5. Len(kept) \in 1 .. Len(kept)
      BY <1>8, <1>5, <1>2
    <3> QED  BY <3>4, <3>5, <2>2, <1>8
  <2> QED  BY <2>3, <2>4
<1>12. \A n \in 1 .. Len(kept) : \E j \in 1 .. n : kept[j].at + Window >= kept[Len(kept)].at
  BY <1>5, <1>8
<1>13. Holds(kept, past2)
  BY <1>9, <1>10, <1>11, <1>12 DEF Holds, gone2
<1> QED  BY <1>13 DEF kept, past2, full

LEMMA CalmStart == Holds(<<>>, <<>>) /\ ~Unhealthy(<<>>)
<1>1. Holds(<<>>, <<>>)
  BY DEF Holds
<1>2. {i \in DOMAIN <<>> : <<>>[i].error} = {}
  OBVIOUS
<1>3. Cardinality({i \in DOMAIN <<>> : <<>>[i].error}) = 0
  BY <1>2, FS_EmptySet
<1>4. ~Failing(0, 0)
  BY GuardAssumption DEF Failing
<1> QED  BY <1>1, <1>3, <1>4 DEF Unhealthy

LEMMA CalmStep ==
    ASSUME GuardTypeOK, CalmOK, [Next]_vars
    PROVE  CalmOK'
<1> DEFINE Calm(r) == /\ Holds(events'[r], outcomes'[r])
                      /\ ~open'[r] => ~Unhealthy(events'[r])
<1>1. ASSUME NEW t \in Thread, Record(t), NEW q \in Replica
      PROVE  Calm(q)
  <2> DEFINE r    == Home[t]
             mine == [at |-> req[t].stamp, error |-> req[t].error]
             kept == PopAged(Append(events[r], mine), mine.at)
  <2>1. /\ r \in Replica /\ mine \in Outcome
        /\ events[r] \in Seq(Outcome) /\ outcomes[r] \in Seq(Outcome)
        /\ events'[r] = kept /\ outcomes'[r] = Append(outcomes[r], mine)
        /\ \A p \in Replica \ {r} : events'[p] = events[p] /\ outcomes'[p] = outcomes[p]
    BY <1>1, RecordIs
  <2>2. open' = [open EXCEPT ![r] = @ \/ Trips(r, kept)]
    BY <1>1 DEF Record
  <2> HIDE DEF r, mine
  <2>3. Holds(kept, Append(outcomes[r], mine))
    BY <2>1, HoldsStep DEF CalmOK
  <2> HIDE DEF kept
  <2>4. CASE q = r
    <3>1. ~open'[r] => ~Unhealthy(kept)
      BY <2>1, <2>2 DEF GuardTypeOK, Trips
    <3> QED  BY <2>1, <2>3, <2>4, <3>1
  <2>5. CASE q # r
    <3>1. open'[q] = open[q] /\ events'[q] = events[q] /\ outcomes'[q] = outcomes[q]
      BY <2>1, <2>2, <2>5 DEF GuardTypeOK
    <3> QED  BY <3>1 DEF CalmOK
  <2> QED  BY <2>4, <2>5
<1>2. ASSUME NEW r \in Replica, Restart(r) \/ Reset(r), NEW q \in Replica
      PROVE  Calm(q)
  <2>1. Close(r)
    BY <1>2 DEF Restart, Reset
  <2>2. \/ events'[q] = <<>> /\ outcomes'[q] = <<>>
        \/ events'[q] = events[q] /\ outcomes'[q] = outcomes[q] /\ open'[q] = open[q]
    BY <2>1 DEF Close, GuardTypeOK
  <2> QED  BY <2>2, CalmStart DEF CalmOK
<1>3. OutcomesStay => \A q \in Replica : Calm(q)
  BY DEF OutcomesStay, CalmOK
<1>4. \A q \in Replica : Calm(q)
  <2> HIDE DEF Calm
  <2> QED  BY <1>1, <1>2, <1>3, StepsStay
<1> QED  BY <1>4 DEF CalmOK, Holds, Unhealthy

LEMMA LastOrNot == \A b \in Nat : \A n \in 1 .. b : n < b \/ n = b
OBVIOUS

LEMMA WithinWindow ==
    \A w, a, b, c, d \in Nat : a <= b /\ a + w >= c /\ d <= c => b + w >= d
OBVIOUS

(* In order, what the deque holds is what was recorded in the last Window. *)
LEMMA RecentIsHeld ==
    ASSUME NEW past \in Seq(Outcome), NEW s \in Seq(Outcome), Holds(s, past), InOrder(s)
    PROVE  LET recent == {n \in DOMAIN past :
                            \A m \in DOMAIN past : past[n].at + Window >= past[m].at}
           IN  /\ Cardinality(recent) = Len(s)
               /\ Cardinality({n \in recent : past[n].error})
                    = Cardinality({i \in DOMAIN s : s[i].error})
<1> DEFINE gone   == Len(past) - Len(s)
           recent == {n \in DOMAIN past :
                        \A m \in DOMAIN past : past[n].at + Window >= past[m].at}
<1>1. /\ DOMAIN past = 1 .. Len(past) /\ DOMAIN s = 1 .. Len(s)
      /\ Len(past) \in Nat /\ Len(s) \in Nat /\ Len(s) <= Len(past)
      /\ gone \in Nat /\ gone + Len(s) = Len(past)
  BY LenProperties DEF Holds
<1>2. /\ \A n \in 1 .. Len(past) : past[n].at \in Nat
      /\ \A n \in 1 .. Len(s) : s[n].at \in Nat
      /\ Window \in Nat
  <2>1. (\A n \in 1 .. Len(past) : past[n] \in Outcome) /\ (\A n \in 1 .. Len(s) : s[n] \in Outcome)
    BY ElementOfSeq
  <2> QED  BY <2>1, GuardAssumption DEF Outcome
<1>3. /\ \A n \in 1 .. Len(s) : s[n] = past[gone + n]
      /\ \A n \in 1 .. gone : \E m \in 1 .. Len(s) : past[n].at + Window < s[m].at
      /\ \A n \in 1 .. Len(s) : \E m \in 1 .. n : s[m].at + Window >= s[Len(s)].at
  BY DEF Holds
<1> HIDE DEF gone, recent
<1>4. \A n \in 1 .. Len(s) : s[n].at <= s[Len(s)].at
  <2>1. ASSUME NEW n \in 1 .. Len(s)
        PROVE  s[n].at <= s[Len(s)].at
    <3>1. CASE n < Len(s)
      BY <3>1, <1>1 DEF InOrder
    <3>2. CASE n = Len(s)
      BY <3>2, <1>2
    <3>3. n < Len(s) \/ n = Len(s)
      BY <1>1, LastOrNot
    <3> QED  BY <3>1, <3>2, <3>3
  <2> QED  BY <2>1
<1>5. \A m \in 1 .. Len(past) : Len(s) >= 1 /\ past[m].at <= s[Len(s)].at
  <2>1. ASSUME NEW m \in 1 .. Len(past)
        PROVE  Len(s) >= 1 /\ past[m].at <= s[Len(s)].at
    <3>1. CASE m \in 1 .. gone
      <4>1. PICK j \in 1 .. Len(s) : past[m].at + Window < s[j].at
        BY <3>1, <1>3
      <4>2. s[j].at <= s[Len(s)].at /\ Len(s) \in 1 .. Len(s)
        BY <1>4, <1>1
      <4> QED  BY <4>1, <4>2, <1>2, <1>1
    <3>2. CASE m \notin 1 .. gone
      <4>1. m - gone \in 1 .. Len(s) /\ gone + (m - gone) = m
        BY <3>2, <1>1
      <4>2. s[m - gone] = past[m] /\ s[m - gone].at <= s[Len(s)].at
        BY <4>1, <1>3, <1>4
      <4> QED  BY <4>1, <4>2, <1>1
    <3> QED  BY <3>1, <3>2
  <2> QED  BY <2>1
<1>6. recent = gone + 1 .. Len(past)
  <2>1. ASSUME NEW n \in 1 .. Len(past), n \in recent
        PROVE  n \in gone + 1 .. Len(past)
    <3>0. \A m \in 1 .. Len(past) : past[n].at + Window >= past[m].at
      BY <2>1, <1>1 DEF recent
    <3>1. n \notin 1 .. gone
      <4>1. ASSUME n \in 1 .. gone PROVE FALSE
        <5>1. PICK m \in 1 .. Len(s) : past[n].at + Window < s[m].at
          BY <4>1, <1>3
        <5>2. gone + m \in 1 .. Len(past) /\ s[m] = past[gone + m]
          BY <1>1, <1>3
        <5>3. past[n].at + Window >= past[gone + m].at
          BY <3>0, <5>2
        <5> QED  BY <5>1, <5>2, <5>3, <1>2
      <4> QED  BY <4>1
    <3> QED  BY <3>1, <1>1
  <2>2. ASSUME NEW n \in gone + 1 .. Len(past)
        PROVE  n \in recent
    <3>1. n - gone \in 1 .. Len(s) /\ gone + (n - gone) = n /\ n \in 1 .. Len(past)
      BY <1>1
    <3>2. s[n - gone] = past[n]
      BY <3>1, <1>3
    <3>3. PICK m \in 1 .. n - gone : s[m].at + Window >= s[Len(s)].at
      BY <3>1, <1>3
    <3>4. s[m].at <= s[n - gone].at
      <4>1. m \in 1 .. Len(s)
        BY <3>1, <1>1
      <4>2. CASE m < n - gone
        BY <4>1, <4>2, <3>1 DEF InOrder
      <4>3. CASE m = n - gone
        BY <4>1, <4>3, <1>2
      <4> QED  BY <4>2, <4>3, <3>1, <1>1
    <3>5. m \in 1 .. Len(s) /\ Len(s) \in 1 .. Len(s)
      BY <3>1, <1>1
    <3>6. ASSUME NEW j \in 1 .. Len(past)
          PROVE  past[n].at + Window >= past[j].at
      <4>1. past[j].at <= s[Len(s)].at
        BY <1>5
      <4>2. /\ s[m].at \in Nat /\ s[Len(s)].at \in Nat /\ past[j].at \in Nat
            /\ past[n].at \in Nat
        BY <1>2, <3>1, <3>5
      <4>3. s[m].at <= past[n].at
        BY <3>2, <3>4
      <4> QED
        <5>1. s[m].at + Window >= s[Len(s)].at /\ Window \in Nat
          BY <3>3, <1>2
        <5> DEFINE a == s[m].at
                   b == past[n].at
                   c == s[Len(s)].at
                   d == past[j].at
        <5>2. a \in Nat /\ b \in Nat /\ c \in Nat /\ d \in Nat
          BY <4>2
        <5>3. a <= b /\ a + Window >= c /\ d <= c
          BY <4>1, <4>3, <5>1
        <5> HIDE DEF a, b, c, d
        <5>4. b + Window >= d
          BY <5>1, <5>2, <5>3, WithinWindow
        <5> QED  BY <5>4 DEF b, d
    <3> QED  BY <3>1, <3>6, <1>1 DEF recent
  <2>3. \A n \in recent : n \in 1 .. Len(past)
    BY <1>1 DEF recent
  <2> QED  BY <2>1, <2>2, <2>3
<1>7. Cardinality(recent) = Len(s) /\ IsFiniteSet(recent)
  <2>1. /\ IsFiniteSet(gone + 1 .. Len(past))
        /\ Cardinality(gone + 1 .. Len(past))
             = IF gone + 1 > Len(past) THEN 0 ELSE Len(past) - (gone + 1) + 1
    <3>1. gone + 1 \in Int /\ Len(past) \in Int
      BY <1>1
    <3> QED  BY <3>1, FS_Interval
  <2> QED  BY <2>1, <1>1, <1>6
<1> DEFINE E == {i \in DOMAIN s : s[i].error}
           F == {n \in recent : past[n].error}
           f == [i \in E |-> gone + i]
<1>8. f \in [E -> F]
  <2>1. ASSUME NEW i \in E PROVE gone + i \in F
    <3>1. i \in 1 .. Len(s) /\ s[i].error
      BY <1>1
    <3>2. gone + i \in gone + 1 .. Len(past) /\ s[i] = past[gone + i]
      BY <3>1, <1>1, <1>3
    <3> QED  BY <3>1, <3>2, <1>6
  <2> HIDE DEF F, E
  <2> QED  BY <2>1
<1>9. \A a, b \in E : f[a] = f[b] => a = b
  BY <1>1
<1>10. ASSUME NEW n \in F PROVE \E i \in E : f[i] = n
  <2>1. n \in gone + 1 .. Len(past) /\ past[n].error
    BY <1>6
  <2>2. n - gone \in 1 .. Len(s) /\ gone + (n - gone) = n
    BY <2>1, <1>1
  <2>3. s[n - gone] = past[n]
    BY <2>2, <1>3
  <2>4. n - gone \in E
    BY <2>1, <2>2, <2>3, <1>1
  <2>5. f[n - gone] = n
    BY <2>2, <2>4
  <2> HIDE DEF E, F, f
  <2> QED  BY <2>4, <2>5
<1>11. f \in Bijection(E, F)
  <2> HIDE DEF f, E, F
  <2> QED  BY <1>8, <1>9, <1>10 DEF Bijection, Injection, Surjection, IsInjective
<1>12. IsFiniteSet(E)
  <2>1. E \in SUBSET (1 .. Len(s)) /\ IsFiniteSet(1 .. Len(s))
    BY <1>1, FS_Interval
  <2> QED  BY <2>1, FS_Subset
<1>13. Cardinality(F) = Cardinality(E)
  <2> HIDE DEF f, E, F
  <2> QED  BY <1>11, <1>12, FS_Bijection DEF ExistsBijection
<1> QED  BY <1>7, <1>13 DEF recent

LEMMA CalmImplies ==
    ASSUME GuardTypeOK, CalmOK
    PROVE  NoFalseCalm
<1>1. ASSUME NEW r \in Replica, ~open[r], InOrder(events[r])
      PROVE  LET past   == outcomes[r]
                 recent == {n \in DOMAIN past :
                              \A m \in DOMAIN past : past[n].at + Window >= past[m].at}
             IN  ~Failing(Cardinality(recent), Cardinality({n \in recent : past[n].error}))
  <2>1. outcomes[r] \in Seq(Outcome) /\ events[r] \in Seq(Outcome) /\ Holds(events[r], outcomes[r])
    BY <1>1 DEF GuardTypeOK, CalmOK
  <2>2. ~Failing(Len(events[r]), Cardinality({i \in DOMAIN events[r] : events[r][i].error}))
    BY <1>1 DEF CalmOK, Unhealthy
  <2> QED  BY <1>1, <2>1, <2>2, RecentIsHeld
<1> QED  BY <1>1 DEF NoFalseCalm

-----------------------------------------------------------------------------
(* What holds of the windows whatever the clock does, and what needs calls *)
(* that hang no longer than the second by which a key outlives its window. *)

WInv == IInv /\ GuardTypeOK /\ ClockOK /\ PastOK /\ StoreOK /\ CauseOK /\ CalmOK
BInv == WInv /\ RedisKeeps /\ LocalKeeps /\ TrailingBudget

LEMMA WindowInit == Init => BInv
<1> SUFFICES ASSUME Init PROVE BInv
    OBVIOUS
<1>1. IInv /\ GuardTypeOK
  BY InitInv, TypesInit
<1>2. /\ \A k \in Key : shared[k] = {}
      /\ \A i \in Tier, k \in Key : hits[i][k] = <<>>
      /\ \A r \in Replica, k \in Key : local[r][k] = <<>>
      /\ \A r \in Replica : events[r] = <<>> /\ outcomes[r] = <<>>
      /\ \A t \in Thread : req[t].pc = "idle"
      /\ Replica \subseteq Tier /\ "redis" \in Tier
  BY DEF Init, Nothing, Tier
<1>3. ClockOK /\ CauseOK
  BY <1>2 DEF ClockOK, Hanging, CauseOK, RejectedHadCause
<1>4. PastOK /\ StoreOK /\ RedisKeeps
  BY <1>2 DEF PastOK, StoreOK, RedisKeeps
<1>5. CalmOK
  BY <1>2, CalmStart DEF CalmOK
<1>6. LocalKeeps
  <2>1. KeepsTail(<<>>, <<>>)
    BY DEF KeepsTail
  <2> QED  BY <1>2, <2>1 DEF LocalKeeps
<1>7. TrailingBudget
  <2>1. Recent(<<>>) = {}
    BY DEF Recent
  <2>2. Cardinality(Recent(<<>>)) = 0
    BY <2>1, FS_EmptySet
  <2>3. \A k \in Key : Limit[k[2]] \in Nat
    BY GuardAssumption DEF Key
  <2> QED  BY <1>2, <2>2, <2>3, BudgetIs
<1> QED  BY <1>1, <1>3, <1>4, <1>5, <1>6, <1>7 DEF WInv, BInv

LEMMA WindowStep == WInv /\ [Next]_vars => WInv'
<1> SUFFICES ASSUME WInv, [Next]_vars PROVE WInv'
    OBVIOUS
<1>1. IInv /\ GuardTypeOK /\ ClockOK /\ PastOK /\ StoreOK /\ CauseOK /\ CalmOK
  BY DEF WInv
<1>2. IInv' /\ GuardTypeOK'
  BY <1>1, StepInv, TypesStep
<1>3. ClockOK' /\ PastOK' /\ StoreOK' /\ CalmOK'
  BY <1>1, <1>2, ClockStep, PastStep, StoreStep, CalmStep
<1>4. CauseOK'
  BY <1>1, <1>2, <1>3, CauseStep
<1> QED  BY <1>2, <1>3, <1>4 DEF WInv

LEMMA BudgetInvStep ==
    ASSUME Stall <= 1
    PROVE  BInv /\ [Next]_vars => BInv'
<1> SUFFICES ASSUME BInv, [Next]_vars PROVE BInv'
    OBVIOUS
<1>1. /\ WInv /\ GuardTypeOK /\ ClockOK /\ StoreOK
      /\ RedisKeeps /\ LocalKeeps /\ TrailingBudget
  BY DEF BInv, WInv
<1>2. WInv' /\ GuardTypeOK' /\ StoreOK'
  BY <1>1, WindowStep DEF WInv
<1>3. RedisKeeps' /\ LocalKeeps'
  BY <1>1, RedisStep, LocalStep
<1>4. TrailingBudget'
  BY <1>1, <1>2, <1>3, BudgetStep
<1> QED  BY <1>2, <1>3, <1>4 DEF BInv

LEMMA WindowInvariance == Spec => []WInv
<1>1. Init => WInv
  BY WindowInit DEF BInv
<1> QED  BY <1>1, WindowStep, PTL DEF Spec

(* Redis refuses a call only if, with it, more calls than the limit were   *)
(* made after the beginning of its window: who waits for a Window without  *)
(* calling is let through.                                                 *)
THEOREM RejectedHadCauseHolds == Spec => []RejectedHadCause
<1>1. WInv => RejectedHadCause
  BY DEF WInv, CauseOK
<1> QED  BY <1>1, WindowInvariance, PTL

(* While a breaker is closed, what it was told in the Window up to the     *)
(* newest outcome does not call for it to open, although its deque gives   *)
(* up outcomes as others arrive.                                           *)
THEOREM NoFalseCalmHolds == Spec => []NoFalseCalm
<1>1. WInv => NoFalseCalm
  BY CalmImplies DEF WInv
<1> QED  BY <1>1, WindowInvariance, PTL

(* No window lets more calls through than the limit in any Window, across  *)
(* the loss of Redis, keys that expire and calls counted out of order, as  *)
(* long as no call hangs longer than the second by which the key outlives  *)
(* its window.                                                             *)
THEOREM TrailingBudgetHolds ==
    ASSUME Stall <= 1
    PROVE  Spec => []TrailingBudget
<1>1. Init => BInv
  BY WindowInit
<1>2. BInv /\ [Next]_vars => BInv'
  BY BudgetInvStep
<1>3. BInv => TrailingBudget
  BY DEF BInv
<1> QED  BY <1>1, <1>2, <1>3, PTL DEF Spec

=============================================================================
