--------------------------- MODULE IncidentRules ---------------------------
(***************************************************************************)
(* The incident rules of internal/service/monitoring.go, run by several    *)
(* evaluators at once: the consumers of every worker process and the API   *)
(* handlers that check a monitor on demand or take an agent's result.      *)
(*                                                                         *)
(* An evaluator takes one result through CreateCheckResult and             *)
(* applyIncidentRules.  Each store call is a database statement of its     *)
(* own, outside any transaction, so each is a step of its own here and     *)
(* anything may happen between two of them.  Users change incidents        *)
(* through the API at the same time.                                       *)
(*                                                                         *)
(* Left out: the rows no rule reads back (timeline, suppression records,   *)
(* announcements, the failure count and error text of an incident), which  *)
(* are written best-effort and whose errors are ignored.                   *)
(***************************************************************************)
EXTENDS Integers, Sequences, FiniteSets, SequencesExt

CONSTANTS
  Monitors,
  Parents,           \* [Monitors -> SUBSET Monitors]: the dependency table
  Regions,           \* vantage points that report results
  Outcomes,          \* what a check may report: its status and whether it succeeded
  Evaluators,        \* goroutines that evaluate one result at a time
  Users,             \* API requests that change an incident's state
  UserOps,           \* which of the API's incident operations are used
  Targets,           \* statuses a transition request may ask for
  Paths,             \* "direct" (s.notify) and "outbox" (s.dispatcher) if set
  Threshold,         \* monitor.FailureThreshold
  RegionThreshold,   \* monitor.RegionConfirmationThreshold
  CountLimit,        \* rows CountConsecutiveFailures reads (50)
  QuorumLimit,       \* rows suppressedByRegionalQuorum reads (100)
  FlapLimit,         \* rows isFlapping reads (10)
  FlapMinRows,       \* fewest rows isFlapping judges (6)
  FlapTransitions,   \* changes of outcome that make a monitor flap (4)
  HistoryCap,        \* rows of history kept: no reader looks beyond them
  MaxIncidents,      \* bound on the incidents ever opened
  MaxFaults,         \* bound on crashes and failing store calls
  None

AllUserOps == {"resolve", "acknowledge", "transition"}
ActiveStatuses ==
  {"open", "acknowledged", "investigating", "identified", "monitoring"}
IncidentStatuses == ActiveStatuses \union {"resolved"}
AllPaths == {"direct", "outbox"}
Statuses == {"up", "degraded", "down"}
AllOutcomes == [status : Statuses, success : BOOLEAN]

ASSUME ParentsAssumption == Parents \in [Monitors -> SUBSET Monitors]
ASSUME InputAssumption ==
  /\ UserOps \subseteq AllUserOps
  /\ Targets \subseteq IncidentStatuses
  /\ Paths \subseteq AllPaths
  /\ Outcomes \subseteq AllOutcomes
ASSUME RuleAssumption ==
  /\ {Threshold, CountLimit, QuorumLimit, FlapLimit} \subseteq Nat \ {0}
  /\ {RegionThreshold, FlapMinRows, FlapTransitions} \subseteq Nat
  /\ HistoryCap \in Nat
  /\ {CountLimit, QuorumLimit, FlapLimit} \subseteq 1..HistoryCap
ASSUME BoundAssumption == {MaxIncidents, MaxFaults} \subseteq Nat
ASSUME NoneAssumption == None \notin Nat

VARIABLES
  status,      \* monitors.status
  results,     \* check_results per monitor, newest checked_at first
  incidents,   \* the incidents table, in the order of started_at
  pc,          \* where each evaluator is in applyIncidentRules
  job,         \* the result an evaluator works on, and what it has read
  request,     \* a user's transition between its read and its write
  dispatching, \* notification goroutines that have not finished
  notified,    \* events sent (direct) or stored in the outbox
  faults,      \* crashes and failing calls so far
  misreported  \* monitors whose last result said up and failed (auxiliary)

vars == <<status, results, incidents, pc, job, request,
          dispatching, notified, faults, misreported>>
shown == <<status, misreported>>
evaluation == <<pc, job>>
notices == <<dispatching, notified>>

------------------------------------------------------------------------------
(* Types. *)

\* A result's status and its success are two columns.  Checkers let the first
\* follow from the second except that domain and certificate checks report a
\* degraded success and ping and icmp checks a degraded failure; an agent's
\* result has whatever the agent sent (RecordResult fills in an empty status).
Successful(outcome) == outcome.success
Misreport(outcome) == outcome.status = "up" /\ ~outcome.success
Row == [success : BOOLEAN, region : Regions]
\* resolvedAt tells whether resolved_at was ever set; nothing clears it.
\* by is the evaluator that inserted the row (auxiliary, not a column).
Incident == [monitor : Monitors, status : IncidentStatuses,
             resolvedAt : BOOLEAN, by : Evaluators]
Job == [monitor : Monitors, outcome : Outcomes, region : Regions,
        suppressed : BOOLEAN, parents : SUBSET Monitors, incident : Nat \union {None}]
Event == [incident : Nat, type : {"opened", "resolved"}, path : AllPaths]
Labels == {"idle", "persist", "status", "lookup", "resolve", "recovered",
           "count", "bump", "dependency", "quorum", "flapping", "suppress",
           "open", "opened"}
TypeOK ==
  /\ status \in [Monitors -> Statuses \union {"unknown"}]
  /\ results \in [Monitors -> Seq(Row)]
  /\ incidents \in Seq(Incident)
  /\ pc \in [Evaluators -> Labels]
  /\ job \in [Evaluators -> Job \union {None}]
  /\ \A e \in Evaluators : pc[e] # "idle" => job[e] \in Job
  /\ request \in [Users -> [incident : Nat, to : IncidentStatuses] \union {None}]
  /\ dispatching \subseteq [event : Event, by : Evaluators]
  /\ notified \subseteq Event
  /\ faults \in Nat
  /\ misreported \subseteq Monitors

------------------------------------------------------------------------------
(* What the rules read. *)

AtMost(a, b) == IF a <= b THEN a ELSE b

\* CountConsecutiveFailures: the failing rows before the newest success.
ConsecutiveFailures(history) ==
  LET read == AtMost(CountLimit, Len(history))
  IN  CHOOSE n \in 0..read :
        /\ \A i \in 1..n : ~history[i].success
        /\ n = read \/ history[n + 1].success

\* Regions whose latest row among the first n is a failure.
FailingRegions(history, n) ==
  {r \in Regions :
     \E i \in 1..n : /\ history[i].region = r
                     /\ ~history[i].success
                     /\ \A j \in 1..(i - 1) : history[j].region # r}

\* Mutant: failing rows are counted instead of the regions they come from.
QuorumOfRows(history, n) ==
  \/ RegionThreshold <= 1
  \/ Cardinality({i \in 1..n : ~history[i].success}) >= RegionThreshold

\* n is the number of rows inside the regional window of three intervals.
QuorumMet(history, n) ==
  \/ RegionThreshold <= 1
  \/ Cardinality(FailingRegions(history, n)) >= RegionThreshold

Flapping(history) ==
  LET read == AtMost(FlapLimit, Len(history))
  IN  /\ read >= FlapMinRows
      /\ Cardinality({i \in 1..(read - 1) :
                        history[i].success # history[i + 1].success})
           >= FlapTransitions

Active(m) == {i \in DOMAIN incidents : /\ incidents[i].monitor = m
                                       /\ incidents[i].status \in ActiveStatuses}

\* Mutant: an incident somebody has acknowledged is no longer found.
GetUntouchedIncident(m) ==
  LET untouched == {i \in Active(m) : incidents[i].status = "open"}
  IN  IF untouched = {} THEN {None}
      ELSE {i \in untouched : \A j \in untouched : j <= i}

\* Mutant: the monitor's newest incident is taken first, its status looked at after.
GetNewestIncident(m) ==
  LET own == {i \in DOMAIN incidents : incidents[i].monitor = m}
      newest == {i \in own : \A j \in own : j <= i}
  IN  IF newest \intersect Active(m) = {} THEN {None} ELSE newest

\* Mutant: the monitor's newest incident, over or not.
GetLastIncident(m) ==
  LET own == {i \in DOMAIN incidents : incidents[i].monitor = m}
  IN  IF own = {} THEN {None} ELSE {i \in own : \A j \in own : j <= i}

\* GetOpenIncident: the active incident with the latest started_at, if any.
GetOpenIncident(m) ==
  IF Active(m) = {} THEN {None}
  ELSE {i \in Active(m) : \A j \in Active(m) : j <= i}

\* The order the statuses may be walked in; resolved is handled apart.
Rank == [s \in ActiveStatuses |->
           CASE s = "open" -> 0
             [] s = "acknowledged" -> 1
             [] s = "investigating" -> 2
             [] s = "identified" -> 3
             [] s = "monitoring" -> 4]

ValidTransition(from, to) ==
  \/ from = to
  \/ from # "resolved" /\ to = "resolved"
  \/ from # "resolved" /\ to # "resolved" /\ Rank[to] >= Rank[from]

------------------------------------------------------------------------------
(* One evaluation: RunCheck or RecordResult, then applyIncidentRules. *)

Goto(e, from, to) ==
  /\ pc[e] = from
  /\ pc' = [pc EXCEPT ![e] = to]

Finish(e, from) ==
  /\ Goto(e, from, "idle")
  /\ job' = [job EXCEPT ![e] = None]

Busy == {e \in Evaluators : pc[e] # "idle"}

\* The check has run (or an agent has sent its result) and the maintenance
\* windows have been read: only a failing result can be marked suppressed.
\* Failing results are taken while incidents can still be opened, a bound.
RunCheck(e, m, outcome, region, suppressed) ==
  /\ Goto(e, "idle", "persist")
  /\ suppressed => ~Successful(outcome)
  /\ Successful(outcome) \/ Len(incidents) + Cardinality(Busy) < MaxIncidents
  /\ job' = [job EXCEPT ![e] =
       [monitor |-> m, outcome |-> outcome, region |-> region,
        suppressed |-> suppressed, parents |-> {}, incident |-> None]]
  /\ UNCHANGED <<shown, results, incidents, request, notices, faults>>

\* CreateCheckResult.  checked_at comes from the start of the check or from
\* the agent, so the row may land anywhere in the order of checked_at.
Persist(e) ==
  LET m == job[e].monitor
      row == [success |-> Successful(job[e].outcome), region |-> job[e].region]
  IN  /\ Goto(e, "persist", "status")
      /\ \E p \in 1..(Len(results[m]) + 1) :
           results' = [results EXCEPT ![m] =
             SubSeq(InsertAt(@, p, row), 1, AtMost(Len(@) + 1, HistoryCap))]
      /\ UNCHANGED <<shown, incidents, job, request, notices, faults>>

\* UpdateMonitorStatus: a success is shown as up unless it is degraded, and a
\* failure as what the result calls itself.
ShownStatus(outcome) ==
  IF outcome.success /\ outcome.status # "degraded" THEN "up" ELSE outcome.status

SetStatus(e) ==
  LET m == job[e].monitor
  IN
  /\ Goto(e, "status", "lookup")
  /\ status' = [status EXCEPT ![m] = ShownStatus(job[e].outcome)]
  /\ misreported' = IF Misreport(job[e].outcome) THEN misreported \union {m} ELSE misreported \ {m}
  /\ UNCHANGED <<results, incidents, job, request, notices, faults>>

\* GetOpenIncident, and the branches that need nothing else.
Lookup(e) ==
  /\ pc[e] = "lookup"
  /\ \E open \in GetOpenIncident(job[e].monitor) :
       \/ /\ Successful(job[e].outcome) /\ open # None
          /\ Goto(e, "lookup", "resolve")
          /\ job' = [job EXCEPT ![e].incident = open]
       \/ /\ ~Successful(job[e].outcome) /\ ~job[e].suppressed
          /\ Goto(e, "lookup", "count")
          /\ job' = [job EXCEPT ![e].incident = open]
       \/ /\ Successful(job[e].outcome) /\ open = None
          /\ Finish(e, "lookup")
       \/ /\ job[e].suppressed
          /\ Finish(e, "lookup")
  /\ UNCHANGED <<shown, results, incidents, request, notices, faults>>

\* Every UPDATE of an incident goes by id, whatever its status is by now.
WriteStatus(i, s) ==
  incidents' = [incidents EXCEPT ![i] =
    [incidents[i] EXCEPT !.status = s, !.resolvedAt = @ \/ s = "resolved"]]

\* Mutant: the UPDATE matches no row and nobody notices.
ResolveNothing(e) ==
  /\ Goto(e, "resolve", "recovered")
  /\ UNCHANGED <<shown, results, incidents, job, request, notices, faults>>

\* ResolveIncident.
Resolve(e) ==
  /\ Goto(e, "resolve", "recovered")
  /\ WriteStatus(job[e].incident, "resolved")
  /\ UNCHANGED <<shown, results, job, request, notices, faults>>

\* Mutant: the notice is about the newest incident, not the evaluation's own.
DispatchNewest(e, type) ==
  dispatching' = dispatching \union
    {[event |-> [incident |-> Len(incidents), type |-> type, path |-> p], by |-> e] :
       p \in Paths}

\* One goroutine for each configured path.
Dispatch(e, type) ==
  dispatching' = dispatching \union
    {[event |-> [incident |-> job[e].incident, type |-> type, path |-> p], by |-> e] :
       p \in Paths}

\* The evidence row and the status page's announcement, and dispatchResolved.
Recovered(e) ==
  /\ Finish(e, "recovered")
  /\ Dispatch(e, "resolved")
  /\ UNCHANGED <<shown, results, incidents, request, notified, faults>>

\* Mutant: the open incident that was read is not looked at.
CountAlways(e) ==
  /\ pc[e] = "count"
  /\ \/ /\ ConsecutiveFailures(results[job[e].monitor]) < Threshold
        /\ Finish(e, "count")
     \/ /\ ConsecutiveFailures(results[job[e].monitor]) >= Threshold
        /\ Goto(e, "count", "dependency")
        /\ UNCHANGED job
  /\ UNCHANGED <<shown, results, incidents, request, notices, faults>>

Count(e) ==
  LET m == job[e].monitor
      below == ConsecutiveFailures(results[m]) < Threshold
  IN  /\ pc[e] = "count"
      /\ \/ /\ job[e].incident # None
            /\ Goto(e, "count", "bump")
            /\ UNCHANGED job
         \/ /\ job[e].incident = None /\ below
            /\ Finish(e, "count")
         \/ /\ job[e].incident = None /\ ~below
            /\ Goto(e, "count", "dependency")
            /\ job' = [job EXCEPT ![e].parents = Parents[m]]
      /\ UNCHANGED <<shown, results, incidents, request, notices, faults>>

\* Mutant: the failure is written into the whole row, status included.
BumpReopens(e) ==
  /\ Finish(e, "bump")
  /\ WriteStatus(job[e].incident, "open")
  /\ UNCHANGED <<shown, results, request, notices, faults>>

\* updateExistingIncident: last_error and the count are not modelled.
Bump(e) ==
  /\ Finish(e, "bump")
  /\ UNCHANGED <<shown, results, incidents, request, notices, faults>>

\* suppressedByDependency reads the parents' incidents one after the other.
Dependency(e) ==
  /\ pc[e] = "dependency"
  /\ \/ /\ job[e].parents = {}
        /\ Goto(e, "dependency", "quorum")
        /\ UNCHANGED job
     \/ \E p \in job[e].parents :
          /\ \/ Active(p) = {} /\ Goto(e, "dependency", "dependency")
             \/ Active(p) # {} /\ Goto(e, "dependency", "suppress")
          /\ job' = [job EXCEPT ![e].parents = @ \ {p}]
  /\ UNCHANGED <<shown, results, incidents, request, notices, faults>>

\* n is what the clock decides: how many rows lie inside the window.
Quorum(e) ==
  LET history == results[job[e].monitor]
  IN  /\ pc[e] = "quorum"
      /\ \E n \in 0..AtMost(QuorumLimit, Len(history)) :
           \/ QuorumMet(history, n) /\ Goto(e, "quorum", "flapping")
           \/ ~QuorumMet(history, n) /\ Goto(e, "quorum", "suppress")
      /\ UNCHANGED <<shown, results, incidents, job, request, notices, faults>>

CheckFlapping(e) ==
  /\ pc[e] = "flapping"
  /\ \/ Flapping(results[job[e].monitor]) /\ Goto(e, "flapping", "suppress")
     \/ ~Flapping(results[job[e].monitor]) /\ Goto(e, "flapping", "open")
  /\ UNCHANGED <<shown, results, incidents, job, request, notices, faults>>

\* The suppression's record is an audit row nothing reads back.
Suppress(e) ==
  /\ Finish(e, "suppress")
  /\ status' = [status EXCEPT ![job[e].monitor] = "degraded"]
  /\ UNCHANGED <<misreported, results, incidents, request, notices, faults>>

\* OpenIncident: a plain INSERT.
Open(e) ==
  LET i == Len(incidents) + 1
  IN  /\ Goto(e, "open", "opened")
      /\ incidents' = Append(incidents,
           [monitor |-> job[e].monitor, status |-> "open", resolvedAt |-> FALSE, by |-> e])
      /\ job' = [job EXCEPT ![e].incident = i]
      /\ UNCHANGED <<shown, results, request, notices, faults>>

\* Evidence, announcement, escalation plan, dispatchOpened.
Opened(e) ==
  /\ Finish(e, "opened")
  /\ Dispatch(e, "opened")
  /\ UNCHANGED <<shown, results, incidents, request, notified, faults>>

------------------------------------------------------------------------------
(* Notification goroutines finish in any order. *)

Notify(d) ==
  /\ d \in dispatching
  /\ dispatching' = dispatching \ {d}
  /\ notified' = notified \union {d.event}
  /\ UNCHANGED <<shown, results, incidents, evaluation, request, faults>>

------------------------------------------------------------------------------
(* The API's incident operations. *)

UserResolve(i) ==
  /\ "resolve" \in UserOps
  /\ WriteStatus(i, "resolved")
  /\ UNCHANGED <<shown, results, evaluation, request, notices, faults>>

\* AcknowledgeIncident does not look at the status either.
Acknowledge(i) ==
  /\ "acknowledge" \in UserOps
  /\ WriteStatus(i, "acknowledged")
  /\ UNCHANGED <<shown, results, evaluation, request, notices, faults>>

\* UpdateIncidentState reads and validates ...
TransitionRead(u, i, to) ==
  /\ "transition" \in UserOps
  /\ request[u] = None
  /\ ValidTransition(incidents[i].status, to)
  /\ request' = [request EXCEPT ![u] = [incident |-> i, to |-> to]]
  /\ UNCHANGED <<shown, results, incidents, evaluation, notices, faults>>

\* ... and then writes by id, without looking again.
TransitionWrite(u) ==
  /\ request[u] # None
  /\ WriteStatus(request[u].incident, request[u].to)
  /\ request' = [request EXCEPT ![u] = None]
  /\ UNCHANGED <<shown, results, evaluation, notices, faults>>

------------------------------------------------------------------------------
(* Failures. *)

Fault == faults < MaxFaults /\ faults' = faults + 1

\* A store call whose error applyIncidentRules returns ends the evaluation.
StoreError(e) ==
  /\ Fault
  /\ pc[e] \in {"persist", "status", "lookup", "resolve", "count", "dependency",
                "quorum", "open"}
  /\ pc' = [pc EXCEPT ![e] = "idle"]
  /\ job' = [job EXCEPT ![e] = None]
  /\ UNCHANGED <<shown, results, incidents, request, notices>>

\* isFlapping takes a failing read for "not flapping".
FlappingError(e) ==
  /\ Fault
  /\ Goto(e, "flapping", "open")
  /\ UNCHANGED <<shown, results, incidents, job, request, notices>>

\* ResolveIncident's UPDATE commits and the read that follows it fails.
ResolveHalfway(e) ==
  /\ Fault
  /\ Finish(e, "resolve")
  /\ WriteStatus(job[e].incident, "resolved")
  /\ UNCHANGED <<shown, results, request, notices>>

\* The status write that ends a suppressed evaluation fails unnoticed.
SuppressError(e) ==
  /\ Fault
  /\ Finish(e, "suppress")
  /\ UNCHANGED <<shown, results, incidents, request, notices>>

\* Enqueue could not list the channels, or the direct webhook gave up.
NotifyError(d) ==
  /\ Fault
  /\ d \in dispatching
  /\ dispatching' = dispatching \ {d}
  /\ UNCHANGED <<shown, results, incidents, evaluation, request, notified>>

\* Mutant: the evaluation of a process that died goes on elsewhere.
CrashMidway(e) ==
  /\ Fault
  /\ pc[e] # "idle"
  /\ job' = [job EXCEPT ![e] = None]
  /\ dispatching' = {d \in dispatching : d.by # e}
  /\ UNCHANGED <<shown, results, incidents, pc, request, notified>>

\* The process of e dies: its evaluation and its goroutines are gone.
Crash(e) ==
  /\ Fault
  /\ pc[e] # "idle" \/ \E d \in dispatching : d.by = e
  /\ pc' = [pc EXCEPT ![e] = "idle"]
  /\ job' = [job EXCEPT ![e] = None]
  /\ dispatching' = {d \in dispatching : d.by # e}
  /\ UNCHANGED <<shown, results, incidents, request, notified>>

------------------------------------------------------------------------------

Init ==
  /\ status = [m \in Monitors |-> "unknown"]
  /\ results = [m \in Monitors |-> <<>>]
  /\ incidents = <<>>
  /\ pc = [e \in Evaluators |-> "idle"]
  /\ job = [e \in Evaluators |-> None]
  /\ request = [u \in Users |-> None]
  /\ dispatching = {}
  /\ notified = {}
  /\ faults = 0
  /\ misreported = {}

StartCheck(e, m) ==
  \E outcome \in Outcomes, region \in Regions, suppressed \in BOOLEAN :
    RunCheck(e, m, outcome, region, suppressed)

Continue(e) ==
  \/ Persist(e) \/ SetStatus(e) \/ Lookup(e)
  \/ Resolve(e) \/ Recovered(e)
  \/ Count(e) \/ Bump(e) \/ Dependency(e) \/ Quorum(e) \/ CheckFlapping(e)
  \/ Suppress(e) \/ Open(e) \/ Opened(e)

EvaluatorFault(e) ==
  StoreError(e) \/ FlappingError(e) \/ ResolveHalfway(e) \/ SuppressError(e) \/ Crash(e)

UserStep ==
  \/ \E i \in DOMAIN incidents : UserResolve(i) \/ Acknowledge(i)
  \/ \E u \in Users, i \in DOMAIN incidents, to \in Targets : TransitionRead(u, i, to)
  \/ \E u \in Users : TransitionWrite(u)

Next ==
  \/ \E e \in Evaluators, m \in Monitors : StartCheck(e, m)
  \/ \E e \in Evaluators : Continue(e) \/ EvaluatorFault(e)
  \/ \E d \in dispatching : Notify(d) \/ NotifyError(d)
  \/ UserStep

Spec == Init /\ [][Next]_vars

\* A worker runs what it started, and comes back to every enabled monitor each
\* interval.  Users, faults and what a check finds are left to chance.
Fairness ==
  /\ \A e \in Evaluators : WF_vars(Continue(e))
  /\ \A m \in Monitors : SF_vars(\E e \in Evaluators : StartCheck(e, m))

FairSpec == Spec /\ Fairness

------------------------------------------------------------------------------
(* Properties of any number of evaluators, whatever users do. *)

Live(m) == {i \in Active(m) : ~incidents[i].resolvedAt}

\* Nothing keeps two evaluators from opening an incident for one monitor, but
\* GetOpenIncident (monitoring.go:246) keeps one evaluator from opening a second
\* while its first has never been resolved: duplicates never outnumber the
\* evaluators, and one evaluator alone makes none.
OneLivePerEvaluator ==
  \A m \in Monitors : \A i, j \in Live(m) :
    incidents[i].by = incidents[j].by => i = j

\* A "resolved" notification is only ever about an incident that was resolved
\* (dispatchResolved follows ResolveIncident), even if a user has acknowledged
\* it back to life since; an "opened" one is about a row that exists.
NoticesAreTrue ==
  \A ev \in notified \union {d.event : d \in dispatching} :
    /\ ev.incident \in DOMAIN incidents
    /\ ev.type = "resolved" => incidents[ev.incident].resolvedAt

\* No alert is dropped between the incident's row and the notification: it is
\* sent, in a goroutine, or about to be started.
Kept(i, type, label) ==
  \/ \E e \in Evaluators : pc[e] = label /\ job[e].incident = i
  \/ \A p \in Paths :
       LET ev == [incident |-> i, type |-> type, path |-> p]
       IN  ev \in notified \/ \E d \in dispatching : d.event = ev

Announced(i) ==
  /\ Kept(i, "opened", "opened")
  /\ incidents[i].status = "resolved" => Kept(i, "resolved", "recovered")

\* Whatever the interleaving, that holds of every incident the evaluators open
\* and resolve while no process dies and no store call fails (MaxFaults = 0).
\* models.go:243 claims it of crashes as well: "Written inside the same tx as the
\* incident state change so a crash between commit and dispatch can't drop the
\* alert".
AlertsKept == \A i \in DOMAIN incidents : Announced(i)

\* A monitor whose checks have turned and stay successful ends up without an
\* active incident, however many duplicates it had: each success resolves one.
AllSuccessful(m) ==
  \A e \in Evaluators :
    pc[e] # "idle" /\ job[e].monitor = m => Successful(job[e].outcome)

Recovery ==
  \A m \in Monitors : <>[]AllSuccessful(m) => <>[](Active(m) = {})

\* An outage never stays without an incident: however often users resolve it under
\* the evaluations that are about to count a failure against it (monitoring.go:278
\* takes what GetOpenIncident said before), and whatever call or process failed on
\* the way, as long as the results tell of an outage the monitor has an active
\* incident again and again.
Outage(m) ==
  /\ \A e \in Evaluators :
       pc[e] # "idle" /\ job[e].monitor = m => ~Successful(job[e].outcome) /\ ~job[e].suppressed
  /\ ConsecutiveFailures(results[m]) >= Threshold
  /\ ~Flapping(results[m])

OutageFound ==
  \A m \in Monitors : <>[]Outage(m) => []<>(Active(m) # {})

------------------------------------------------------------------------------
(* Properties of evaluations that do not overlap. *)

\* One evaluator at a time and no way back from resolved: a monitor never has
\* two active incidents (monitoring.go:246 and 278).
AtMostOneActive == \A m \in Monitors : Cardinality(Active(m)) <= 1

\* README "Incident Lifecycle": an incident is opened only after the threshold
\* of consecutive failures, with the quorum met, no parent with an incident and
\* no flapping.  The rules read these one after the other; all of them still
\* hold when the row is inserted.
FailsNow(history, r) ==
  \E i \in DOMAIN history : /\ history[i].region = r
                            /\ ~history[i].success
                            /\ \A j \in 1..(i - 1) : history[j].region # r

Justified(m) ==
  LET history == results[m]
  IN  /\ Active(m) = {}
      /\ Len(history) >= Threshold
      /\ \A i \in 1..Threshold : ~history[i].success
      /\ \/ RegionThreshold <= 1
         \/ Cardinality({r \in Regions : FailsNow(history, r)}) >= RegionThreshold
      /\ ~Flapping(history)
      /\ \A p \in Parents[m] : Active(p) = {}

OpensJustified ==
  [][\A i \in DOMAIN incidents' \ DOMAIN incidents : Justified(incidents'[i].monitor)]_vars

\* Between evaluations a monitor shown as up has no active incident, although
\* the status and the incident are written by separate statements of
\* applyIncidentRules and the status does not follow from the success the rules
\* look at: a result that calls itself up and failed, as an agent may send one,
\* shows the monitor as up while it opens an incident, until the next result.
StatusAgrees ==
  \A m \in Monitors \ misreported :
    /\ status[m] = "up"
    /\ \A e \in Evaluators : pc[e] # "idle" => job[e].monitor # m
    => Active(m) = {}

\* A resolved incident stays resolved (validIncidentTransition, and its test).
ResolvedIsFinal ==
  [][\A i \in DOMAIN incidents :
       incidents[i].status = "resolved" => incidents'[i].status = "resolved"]_vars

=============================================================================
