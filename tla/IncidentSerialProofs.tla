------------------------ MODULE IncidentSerialProofs ------------------------
(***************************************************************************)
(* Proofs of what IncidentRules promises under conditions: that no alert   *)
(* is dropped while nothing fails, that nothing but a user brings an       *)
(* incident back, and that evaluations which do not overlap keep a monitor,*)
(* its incident and its status together.  Where evaluations overlap, or    *)
(* users do what they like, the conditions are on the monitors or steps    *)
(* concerned; the last theorem of each section is about every monitor,     *)
(* under the conditions of rules_serial.                                   *)
(***************************************************************************)
EXTENDS IncidentRulesProofs, FiniteSetTheorems, WellFoundedInduction

USE DEF shown

(* Alerts.  Between the UPDATE or INSERT of an incident and its goroutines  *)
(* the evaluation itself is what keeps the alert.                           *)

\* Nobody but an evaluation resolves an incident.
OnlyRulesResolve == "resolve" \notin UserOps /\ "resolved" \notin Targets

RequestsLeaveOpen == \A u \in Users : request[u] # None => request[u].to # "resolved"

AlertInv == RequestsLeaveOpen /\ (faults = 0 => AlertsKept)

\* Evaluations that keep an alert stay as they are, events that were told or are
\* about to be stay so, and no incident comes or is resolved.
NoAlertMoves ==
  /\ \A e \in Evaluators : pc[e] \in {"opened", "recovered"} => pc'[e] = pc[e] /\ job'[e] = job[e]
  /\ Told \subseteq Told'
  /\ DOMAIN incidents' = DOMAIN incidents
  /\ \A i \in DOMAIN incidents :
       incidents'[i].status = "resolved" => incidents[i].status = "resolved"

LEMMA KeptIs ==
  ASSUME NEW i, NEW type, NEW label
  PROVE  Kept(i, type, label) <=>
           \/ \E e \in Evaluators : pc[e] = label /\ job[e].incident = i
           \/ \A p \in Paths : [incident |-> i, type |-> type, path |-> p] \in Told
BY DEF Kept, Told

LEMMA KeptIsNext ==
  ASSUME NEW i, NEW type, NEW label
  PROVE  Kept(i, type, label)' <=>
           \/ \E e \in Evaluators : pc'[e] = label /\ job'[e].incident = i
           \/ \A p \in Paths : [incident |-> i, type |-> type, path |-> p] \in Told'
BY DEF Kept, Told

LEMMA AlertsStay ==
  ASSUME AlertsKept, NoAlertMoves
  PROVE  AlertsKept'
<1>1. ASSUME NEW i, NEW type, NEW label \in {"opened", "recovered"}, Kept(i, type, label)
      PROVE  Kept(i, type, label)'
  BY <1>1, KeptIs, KeptIsNext DEF NoAlertMoves
<1>2. ASSUME NEW i \in DOMAIN incidents'
      PROVE  Announced(i)'
  BY <1>1, <1>2 DEF Announced, AlertsKept, NoAlertMoves
<1> QED BY <1>2 DEF AlertsKept

\* The goroutines take over from the evaluation that starts them.
LEMMA AlertsDispatched ==
  ASSUME AlertsKept, NEW e \in Evaluators, NEW type, NEW label,
         <<type, label>> \in {<<"opened", "opened">>, <<"resolved", "recovered">>},
         Finish(e, label), Dispatch(e, type), UNCHANGED <<incidents, notified>>,
         pc \in [Evaluators -> Labels], job \in [Evaluators -> Job \union {None}]
  PROVE  AlertsKept'
<1>1. Told \subseteq Told'
  BY DEF Told, Dispatch
<1>2. ASSUME NEW p \in Paths
      PROVE  [incident |-> job[e].incident, type |-> type, path |-> p] \in Told'
  <2> DEFINE d == [event |-> [incident |-> job[e].incident, type |-> type, path |-> p], by |-> e]
  <2>1. d \in dispatching'
    BY DEF Dispatch
  <2>2. d.event \in {c.event : c \in dispatching'}
    BY <2>1
  <2> QED BY <2>2 DEF Told
<1>3. \A f \in Evaluators \ {e} : pc'[f] = pc[f] /\ job'[f] = job[f]
  BY DEF Finish, Goto
<1>4. ASSUME NEW i, NEW t, NEW l,
             <<t, l>> \in {<<"opened", "opened">>, <<"resolved", "recovered">>}, Kept(i, t, l)
      PROVE  Kept(i, t, l)'
  <2>1. CASE \A p \in Paths : [incident |-> i, type |-> t, path |-> p] \in Told
    BY <1>1, <2>1, KeptIsNext
  <2>2. ASSUME NEW f \in Evaluators, pc[f] = l, job[f].incident = i
        PROVE  Kept(i, t, l)'
    <3>1. CASE f = e
      <4>1. l = label /\ t = type
        BY <1>4, <2>2, <3>1 DEF Finish, Goto
      <4> QED BY <1>2, <2>2, <3>1, <4>1, KeptIsNext
    <3>2. CASE f # e
      BY <1>3, <2>2, <3>2, KeptIsNext
    <3> QED BY <3>1, <3>2
  <2> QED BY <1>4, <2>1, <2>2, KeptIs
<1>5. ASSUME NEW i \in DOMAIN incidents
      PROVE  Announced(i)'
  BY <1>4, <1>5 DEF Announced, AlertsKept
<1> QED BY <1>5 DEF AlertsKept

\* The INSERT: the evaluation keeps the alert of the row it has added.
LEMMA AlertsOpened ==
  ASSUME TypeInv, AlertsKept, NEW e \in Evaluators, Open(e)
  PROVE  AlertsKept'
<1> DEFINE row == [monitor |-> job[e].monitor, status |-> "open", resolvedAt |-> FALSE, by |-> e]
<1> PICK n : n = Len(incidents)
  OBVIOUS
<1>1. pc[e] = "open" /\ job[e] \in Job
  BY DEF Open, Goto, TypeInv, TypeOK
<1>2. row \in Incident
  BY <1>1 DEF Incident, Job, IncidentStatuses, ActiveStatuses
<1>3. /\ DOMAIN incidents = 1..n /\ n \in Nat
      /\ DOMAIN incidents' = 1..(n + 1)
      /\ \A i \in 1..n : incidents'[i] = incidents[i]
      /\ incidents'[n + 1] = row
  BY <1>2, AppendProperties DEF Open, TypeInv, TypeOK
<1>4. /\ \A f \in Evaluators \ {e} : pc'[f] = pc[f] /\ job'[f] = job[f]
      /\ pc'[e] = "opened" /\ job'[e].incident = n + 1
      /\ Told' = Told
  BY <1>1 DEF Open, Goto, notices, Told, TypeInv, TypeOK, Job
<1>5. ASSUME NEW i, NEW type, NEW label \in {"opened", "recovered"}, Kept(i, type, label)
      PROVE  Kept(i, type, label)'
  BY <1>1, <1>4, <1>5, KeptIs, KeptIsNext
<1>6. ASSUME NEW i \in 1..n
      PROVE  Announced(i)'
  BY <1>3, <1>5, <1>6 DEF Announced, AlertsKept
<1>7. Announced(n + 1)'
  BY <1>3, <1>4, KeptIsNext DEF Announced
<1> QED BY <1>3, <1>6, <1>7 DEF AlertsKept

\* The UPDATE: likewise for the incident it resolves.
LEMMA AlertsResolved ==
  ASSUME TypeInv, AlertsKept, NEW e \in Evaluators, Resolve(e)
  PROVE  AlertsKept'
<1>1. /\ DOMAIN incidents' = DOMAIN incidents
      /\ \A i \in DOMAIN incidents : i # job[e].incident => incidents'[i] = incidents[i]
  BY WrittenIncident DEF Resolve, TypeInv, TypeOK, IncidentStatuses
<1>2. /\ \A f \in Evaluators \ {e} : pc'[f] = pc[f]
      /\ pc[e] = "resolve" /\ pc'[e] = "recovered"
      /\ job' = job /\ Told' = Told
  BY DEF Resolve, Goto, notices, Told, TypeInv, TypeOK
<1>3. ASSUME NEW i, NEW type, NEW label \in {"opened", "recovered"}, Kept(i, type, label)
      PROVE  Kept(i, type, label)'
  BY <1>2, <1>3, KeptIs, KeptIsNext
<1>4. ASSUME NEW i \in DOMAIN incidents, i # job[e].incident
      PROVE  Announced(i)'
  BY <1>1, <1>3, <1>4 DEF Announced, AlertsKept
<1>5. ASSUME NEW i \in DOMAIN incidents, i = job[e].incident
      PROVE  Announced(i)'
  <2>1. Kept(i, "opened", "opened")'
    BY <1>3, <1>5 DEF Announced, AlertsKept
  <2>2. Kept(i, "resolved", "recovered")'
    BY <1>2, <1>5, KeptIsNext
  <2> QED BY <2>1, <2>2 DEF Announced
<1> QED BY <1>1, <1>4, <1>5 DEF AlertsKept

\* The steps of an evaluation while nothing has failed.
LEMMA AlertContinue ==
  ASSUME TypeInv, AlertsKept, NEW e \in Evaluators, Continue(e)
  PROVE  AlertsKept'
<1> USE DEF TypeInv, TypeOK
<1>1. CASE Recovered(e)
  BY <1>1, AlertsDispatched DEF Recovered
<1>2. CASE Opened(e)
  BY <1>2, AlertsDispatched DEF Opened
<1>3. CASE Open(e)
  BY <1>3, AlertsOpened
<1>4. CASE Resolve(e)
  BY <1>4, AlertsResolved
<1>5. ASSUME pc[e] \notin {"opened", "recovered"}, UNCHANGED <<incidents, notices>>,
             NEW to, pc' = [pc EXCEPT ![e] = to], \A f \in Evaluators \ {e} : job'[f] = job[f]
      PROVE  AlertsKept'
  <2>1. NoAlertMoves
    BY <1>5 DEF NoAlertMoves, Told, notices
  <2> QED BY <2>1, AlertsStay
<1>6. CASE Persist(e) \/ SetStatus(e) \/ Quorum(e) \/ CheckFlapping(e)
  BY <1>5, <1>6 DEF Persist, SetStatus, Quorum, CheckFlapping, Goto
<1>7. CASE Bump(e) \/ Suppress(e)
  BY <1>5, <1>7 DEF Bump, Suppress, Finish, Goto
<1>8. CASE Lookup(e)
  BY <1>5, <1>8 DEF Lookup, Finish, Goto
<1>9. CASE Count(e)
  BY <1>5, <1>9 DEF Count, Finish, Goto
<1>10. CASE Dependency(e)
  BY <1>5, <1>10 DEF Dependency, Goto
<1> QED
  BY <1>1, <1>2, <1>3, <1>4, <1>6, <1>7, <1>8, <1>9, <1>10 DEF Continue

LEMMA AlertUser ==
  ASSUME TypeInv, RequestsLeaveOpen, OnlyRulesResolve, UserStep
  PROVE  RequestsLeaveOpen' /\ (AlertsKept => AlertsKept')
<1> USE DEF TypeInv, TypeOK
<1>0. ASSUME NEW i, NEW s \in IncidentStatuses \ {"resolved"}, WriteStatus(i, s),
             UNCHANGED <<evaluation, notices>>
      PROVE  NoAlertMoves
  BY <1>0, WrittenIncident DEF NoAlertMoves, evaluation, notices, Told
<1>1. ASSUME NEW i \in DOMAIN incidents, UserResolve(i)
      PROVE  FALSE
  BY <1>1 DEF UserResolve, OnlyRulesResolve
<1>2. ASSUME NEW i \in DOMAIN incidents, Acknowledge(i)
      PROVE  NoAlertMoves /\ RequestsLeaveOpen'
  <2>1. "acknowledged" \in IncidentStatuses \ {"resolved"}
    BY DEF IncidentStatuses, ActiveStatuses
  <2> QED BY <1>0, <1>2, <2>1 DEF Acknowledge, RequestsLeaveOpen
<1>3. ASSUME NEW u \in Users, NEW i, NEW to \in Targets, TransitionRead(u, i, to)
      PROVE  NoAlertMoves /\ RequestsLeaveOpen'
  BY <1>3 DEF TransitionRead, OnlyRulesResolve, RequestsLeaveOpen, NoAlertMoves, evaluation,
              notices, Told
<1>4. ASSUME NEW u \in Users, TransitionWrite(u)
      PROVE  NoAlertMoves /\ RequestsLeaveOpen'
  <2>1. request[u].to \in IncidentStatuses \ {"resolved"}
    BY <1>4 DEF TransitionWrite, RequestsLeaveOpen
  <2> QED BY <1>0, <1>4, <2>1 DEF TransitionWrite, RequestsLeaveOpen
<1> QED BY <1>1, <1>2, <1>3, <1>4, AlertsStay DEF UserStep

LEMMA AlertNext ==
  ASSUME OnlyRulesResolve
  PROVE  TypeInv /\ AlertInv /\ [Next]_vars => AlertInv'
<1> SUFFICES ASSUME TypeInv, AlertInv, [Next]_vars PROVE AlertInv'
  OBVIOUS
<1>1. CASE UserStep
  <2>1. UNCHANGED faults
    BY <1>1 DEF UserStep, UserResolve, Acknowledge, TransitionRead, TransitionWrite
  <2> QED BY <1>1, <2>1, AlertUser DEF AlertInv
<1>2. ASSUME Fault, UNCHANGED request
      PROVE  AlertInv'
  BY <1>2 DEF Fault, AlertInv, RequestsLeaveOpen, TypeInv, TypeOK
<1>3. ASSUME UNCHANGED <<request, faults>>, AlertsKept => AlertsKept'
      PROVE  AlertInv'
  BY <1>3 DEF AlertInv, RequestsLeaveOpen
<1>4. ASSUME NEW e \in Evaluators, Continue(e)
      PROVE  AlertInv'
  <2>1. UNCHANGED <<request, faults>>
    BY <1>4 DEF Continue, Persist, SetStatus, Lookup, Resolve, Recovered, Count, Bump, Dependency,
                Quorum, CheckFlapping, Suppress, Open, Opened
  <2> QED BY <1>3, <1>4, <2>1, AlertContinue
<1>5. ASSUME NEW e \in Evaluators, EvaluatorFault(e)
      PROVE  AlertInv'
  BY <1>2, <1>5 DEF EvaluatorFault, StoreError, FlappingError, ResolveHalfway, SuppressError, Crash
<1>6. ASSUME NEW e \in Evaluators, NEW m \in Monitors, StartCheck(e, m)
      PROVE  AlertInv'
  <2>1. NoAlertMoves
    BY <1>6 DEF StartCheck, RunCheck, Goto, NoAlertMoves, Told, notices, TypeInv, TypeOK
  <2> QED BY <1>3, <1>6, <2>1, AlertsStay DEF StartCheck, RunCheck
<1>7. ASSUME NEW d \in dispatching, Notify(d)
      PROVE  AlertInv'
  <2>1. NoAlertMoves
    BY <1>7 DEF Notify, NoAlertMoves, Told, evaluation
  <2> QED BY <1>3, <1>7, <2>1, AlertsStay DEF Notify
<1>8. ASSUME NEW d \in dispatching, NotifyError(d)
      PROVE  AlertInv'
  BY <1>2, <1>8 DEF NotifyError
<1>9. CASE UNCHANGED vars
  <2>1. NoAlertMoves
    BY <1>9 DEF vars, NoAlertMoves, Told
  <2> QED BY <1>3, <1>9, <2>1, AlertsStay DEF vars
<1> QED BY <1>1, <1>4, <1>5, <1>6, <1>7, <1>8, <1>9 DEF Next

\* Until the first process dies or the first store call fails, every incident the
\* evaluations open and resolve is announced, about to be announced, or held by
\* the evaluation that will: no interleaving of evaluators, acknowledgements and
\* transitions drops an alert (dispatchOpened and dispatchResolved).
THEOREM AlertsAlways == OnlyRulesResolve => (Spec => [](faults = 0 => AlertsKept))
<1> SUFFICES ASSUME OnlyRulesResolve PROVE Spec => [](faults = 0 => AlertsKept)
  OBVIOUS
<1>1. Init => AlertInv
  BY DEF Init, AlertInv, RequestsLeaveOpen, AlertsKept
<1>2. TypeInv /\ AlertInv /\ [Next]_vars => AlertInv'
  BY AlertNext
<1>3. AlertInv => (faults = 0 => AlertsKept)
  BY DEF AlertInv
<1> QED BY <1>1, <1>2, <1>3, TypeAlways, PTL DEF Spec

------------------------------------------------------------------------------
(* No way back from resolved.                                               *)

\* The incident operations used are the API's resolve endpoint and no other.
OnlyResolve == UserOps \subseteq {"resolve"}

\* Nobody is between the read and the write of a transition.
NoRequests == \A u \in Users : request[u] = None

StaysResolved ==
  \A i \in DOMAIN incidents :
    incidents[i].status = "resolved" => incidents'[i].status = "resolved"

LEMMA NoRequestsNext ==
  ASSUME OnlyResolve
  PROVE  NoRequests /\ [Next]_vars => NoRequests'
<1> SUFFICES ASSUME NoRequests, [Next]_vars PROVE NoRequests'
  OBVIOUS
<1> USE DEF NoRequests
<1>1. ASSUME NEW e \in Evaluators, Continue(e) \/ EvaluatorFault(e)
      PROVE  UNCHANGED request
  BY <1>1 DEF Continue, Persist, SetStatus, Lookup, Resolve, Recovered, Count, Bump, Dependency,
              Quorum, CheckFlapping, Suppress, Open, Opened, EvaluatorFault, StoreError,
              FlappingError, ResolveHalfway, SuppressError, Crash
<1>2. ASSUME UserStep
      PROVE  UNCHANGED request
  BY <1>2 DEF UserStep, UserResolve, Acknowledge, TransitionRead, TransitionWrite, OnlyResolve
<1>3. ASSUME (\E e \in Evaluators, m \in Monitors : StartCheck(e, m))
             \/ (\E d \in dispatching : Notify(d) \/ NotifyError(d)) \/ UNCHANGED vars
      PROVE  UNCHANGED request
  BY <1>3 DEF StartCheck, RunCheck, Notify, NotifyError, vars
<1> QED BY <1>1, <1>2, <1>3 DEF Next

\* A user's request that brings incident i back: an acknowledgement, or the write of
\* a transition to another status.
ReopenedByUser(i) ==
  \/ Acknowledge(i)
  \/ \E u \in Users : /\ request[u] # None /\ request[u].incident = i /\ request[u].to # "resolved"
                      /\ TransitionWrite(u)

\* Whoever else writes a status writes "resolved"; an insert leaves the other rows alone.
LEMMA UsersReopen ==
  ASSUME TypeInv, [Next]_vars, NEW i \in DOMAIN incidents,
         incidents[i].status = "resolved", incidents'[i].status # "resolved"
  PROVE  ReopenedByUser(i)
<1> USE DEF TypeInv, TypeOK
<1>1. ASSUME NEW j, NEW s \in IncidentStatuses, WriteStatus(j, s)
      PROVE  j = i /\ s # "resolved"
  BY <1>1, WrittenIncident
<1>2. ASSUME NEW j, WriteStatus(j, "resolved")
      PROVE  FALSE
  BY <1>1, <1>2 DEF IncidentStatuses
<1>3. ASSUME UNCHANGED incidents
      PROVE  FALSE
  BY <1>3
<1>4. ASSUME NEW e \in Evaluators, Open(e)
      PROVE  FALSE
  BY <1>4 DEF Open
<1>5. ASSUME NEW e \in Evaluators, Continue(e)
      PROVE  FALSE
  BY <1>2, <1>3, <1>4, <1>5 DEF Continue, Persist, SetStatus, Lookup, Resolve, Recovered, Count, Bump,
                                Dependency, Quorum, CheckFlapping, Suppress, Opened
<1>6. ASSUME NEW e \in Evaluators, EvaluatorFault(e)
      PROVE  FALSE
  BY <1>2, <1>3, <1>6 DEF EvaluatorFault, StoreError, FlappingError, ResolveHalfway, SuppressError, Crash
<1>7. CASE UserStep
  <2>1. ASSUME NEW j \in DOMAIN incidents, Acknowledge(j)
        PROVE  ReopenedByUser(i)
    <3>1. j = i
      BY <1>1, <2>1 DEF Acknowledge, IncidentStatuses, ActiveStatuses
    <3> QED BY <2>1, <3>1 DEF ReopenedByUser
  <2>2. ASSUME NEW u \in Users, TransitionWrite(u)
        PROVE  ReopenedByUser(i)
    <3>1. request[u] # None /\ request[u].to \in IncidentStatuses
          /\ WriteStatus(request[u].incident, request[u].to)
      BY <2>2 DEF TransitionWrite
    <3>2. request[u].incident = i /\ request[u].to # "resolved"
      BY <1>1, <3>1
    <3> QED BY <2>2, <3>1, <3>2 DEF ReopenedByUser
  <2>3. ASSUME NEW j, UserResolve(j)
        PROVE  FALSE
    BY <1>2, <2>3 DEF UserResolve
  <2>4. ASSUME NEW u, NEW j, NEW to, TransitionRead(u, j, to)
        PROVE  FALSE
    BY <1>3, <2>4 DEF TransitionRead
  <2> QED BY <1>7, <2>1, <2>2, <2>3, <2>4 DEF UserStep
<1>8. CASE (\E e \in Evaluators, m \in Monitors : StartCheck(e, m))
           \/ (\E d \in dispatching : Notify(d) \/ NotifyError(d)) \/ UNCHANGED vars
  BY <1>3, <1>8 DEF StartCheck, RunCheck, Notify, NotifyError, vars
<1> QED BY <1>5, <1>6, <1>7, <1>8 DEF Next

LEMMA ResolvedStays ==
  ASSUME OnlyResolve, TypeInv, NoRequests, [Next]_vars
  PROVE  StaysResolved
BY UsersReopen DEF StaysResolved, ReopenedByUser, Acknowledge, OnlyResolve, NoRequests

LEMMA NoRequestsAlways == OnlyResolve => (Spec => []NoRequests)
<1> SUFFICES ASSUME OnlyResolve PROVE Spec => []NoRequests
  OBVIOUS
<1>1. Init => NoRequests
  BY DEF Init, NoRequests
<1>2. NoRequests /\ [Next]_vars => NoRequests'
  BY NoRequestsNext
<1> QED BY <1>1, <1>2, PTL DEF Spec

\* While acknowledgements and transitions are left alone, no evaluation, resolve
\* request, crash or failing call reopens an incident, however many evaluators
\* run: the only UPDATE of a status the rules send is ResolveIncident's.
THEOREM ResolvedStaysResolved == OnlyResolve => (Spec => ResolvedIsFinal)
<1> SUFFICES ASSUME OnlyResolve PROVE Spec => ResolvedIsFinal
  OBVIOUS
<1>1. TypeInv /\ NoRequests /\ [Next]_vars => [StaysResolved]_vars
  BY ResolvedStays
<1>2. Spec => []NoRequests
  BY NoRequestsAlways
<1>3. [StaysResolved]_vars =>
        [\A i \in DOMAIN incidents :
           incidents[i].status = "resolved" => incidents'[i].status = "resolved"]_vars
  BY DEF StaysResolved
<1> QED BY <1>1, <1>2, <1>3, TypeAlways, PTL DEF Spec, ResolvedIsFinal

\* Whatever users do, fails or overlaps, only an acknowledgement or the late write of a
\* transition brings a resolved incident back (AcknowledgeIncident, UpdateIncidentState).
THEOREM OnlyUsersReopen ==
  Spec => [][\A i \in DOMAIN incidents :
               incidents[i].status = "resolved" /\ incidents'[i].status # "resolved" => ReopenedByUser(i)]_vars
<1> DEFINE Reopens ==
      \A i \in DOMAIN incidents :
        incidents[i].status = "resolved" /\ incidents'[i].status # "resolved" => ReopenedByUser(i)
<1>1. TypeInv /\ [Next]_vars => [Reopens]_vars
  BY UsersReopen
<1> HIDE DEF Reopens
<1>2. Spec => [][Reopens]_vars
  BY <1>1, TypeAlways, PTL DEF Spec
<1> QED BY <1>2 DEF Reopens

------------------------------------------------------------------------------
(* One active incident.  While the evaluations of a monitor do not overlap, *)
(* nothing happens to its incidents between a lookup that found none and    *)
(* the insert, except that a user may resolve one: there is still none when *)
(* the row is added.  S is a set of monitors of which this is true; others  *)
(* may be evaluated by many at a time.                                      *)

\* Evaluations do not overlap.
OneEvaluator == \E e : Evaluators = {e}

\* No two evaluations work on one monitor of S.
ApartIn(S) ==
  \A e, f \in Evaluators :
    pc[e] # "idle" /\ pc[f] # "idle" /\ job[e].monitor \in S /\ job[f].monitor = job[e].monitor
    => e = f

AloneIn(S) == \A m \in S : \A i, j \in Active(m) : i = j

NoneWhileOpening(S) ==
  \A e \in Evaluators : Opening(e) /\ job[e].monitor \in S => Active(job[e].monitor) = {}

SerialInv(S) == AloneIn(S) /\ NoneWhileOpening(S)

OneActiveIn(S) == \A m \in S : Cardinality(Active(m)) <= 1

\* What an evaluation's insert does to the active incidents.
LEMMA ActiveOpened ==
  ASSUME TypeInv, NEW e \in Evaluators, Open(e)
  PROVE  /\ job'[e].monitor = job[e].monitor
         /\ job[e].monitor \in Monitors
         /\ \A m : Active(m)' =
              Active(m) \union (IF m = job[e].monitor THEN {Len(incidents) + 1} ELSE {})
         /\ DOMAIN incidents' \ DOMAIN incidents = {Len(incidents) + 1}
         /\ incidents'[Len(incidents) + 1].monitor = job[e].monitor
<1> DEFINE row == [monitor |-> job[e].monitor, status |-> "open", resolvedAt |-> FALSE, by |-> e]
<1> PICK n : n = Len(incidents)
  OBVIOUS
<1> PICK k : k = job[e].monitor
  OBVIOUS
<1>1. pc[e] = "open" /\ job[e] \in Job
  BY DEF Open, Goto, TypeInv, TypeOK
<1>2. row \in Incident
  BY <1>1 DEF Incident, Job, IncidentStatuses, ActiveStatuses
<1>3. /\ DOMAIN incidents = 1..n /\ n \in Nat
      /\ DOMAIN incidents' = 1..(n + 1)
      /\ \A i \in 1..n : incidents'[i] = incidents[i]
      /\ incidents'[n + 1] = row
  BY <1>2, AppendProperties DEF Open, TypeInv, TypeOK
<1>4. incidents'[n + 1].monitor = k /\ incidents'[n + 1].status = "open"
  BY <1>3
<1>5. ASSUME NEW m
      PROVE  Active(m)' = Active(m) \union (IF m = k THEN {n + 1} ELSE {})
  BY <1>3, <1>4 DEF Active, ActiveStatuses
<1>6. job'[e].monitor = k
  BY <1>1 DEF Open, TypeInv, TypeOK, Job
<1>7. k \in Monitors
  BY <1>1 DEF Job
<1>8. DOMAIN incidents' \ DOMAIN incidents = {n + 1}
  BY <1>3
<1> QED BY <1>4, <1>5, <1>6, <1>7, <1>8

\* Every other step leaves at most the incidents that were active.
LEMMA ActiveShrinks ==
  ASSUME TypeInv, Rewritten, StaysResolved, NEW m
  PROVE  Active(m)' \subseteq Active(m)
<1> SUFFICES ASSUME NEW i \in Active(m)' PROVE i \in Active(m)
  OBVIOUS
<1>1. i \in DOMAIN incidents /\ incidents[i].monitor = m /\ incidents'[i].status \in ActiveStatuses
  BY DEF Active, Rewritten
<1>2. incidents[i].status # "resolved"
  BY <1>1 DEF StaysResolved, ActiveStatuses
<1>3. incidents[i] \in Incident
  BY <1>1, ElementOfSeq DEF TypeInv, TypeOK
<1> QED BY <1>1, <1>2, <1>3 DEF Active, Incident, IncidentStatuses

\* Every step but an insert.
LEMMA NextRewrites ==
  ASSUME TypeInv, [Next]_vars, \A e \in Evaluators : ~Open(e)
  PROVE  Rewritten /\ OpeningKept
<1>1. CASE UNCHANGED vars
  BY <1>1, RewrittenByNothing DEF vars, OpeningKept, Opening
<1>2. CASE \E d \in dispatching : Notify(d) \/ NotifyError(d)
  BY <1>2, RewrittenByNothing DEF Notify, NotifyError, evaluation, OpeningKept, Opening
<1> QED
  BY <1>1, <1>2, ContinueRewrites, FaultRewrites, StartRewrites, UserRewrites DEF Next

\* What an evaluation's step leaves to the others.
LEMMA OthersWait ==
  ASSUME TypeInv, NEW e \in Evaluators, Continue(e)
  PROVE  /\ pc[e] # "idle" /\ job[e] \in Job /\ job[e].monitor \in Monitors
         /\ \A f \in Evaluators : f # e => pc'[f] = pc[f] /\ job'[f] = job[f]
         /\ \A k \in Monitors : k # job[e].monitor => status'[k] = status[k] /\ results'[k] = results[k]
         /\ \A k : k # job[e].monitor => (k \in misreported' <=> k \in misreported)
         /\ pc'[e] # "idle" => job'[e].monitor = job[e].monitor
         /\ faults' = faults
<1> USE DEF TypeInv, TypeOK
<1>0. pc[e] # "idle" /\ job[e] \in Job /\ job[e].monitor \in Monitors
  BY DEF Continue, Persist, SetStatus, Lookup, Resolve, Recovered, Count, Bump, Dependency,
         Quorum, CheckFlapping, Suppress, Open, Opened, Goto, Finish, Job
<1>1. \A f \in Evaluators : f # e => pc'[f] = pc[f] /\ job'[f] = job[f]
  BY DEF Continue, Persist, SetStatus, Lookup, Resolve, Recovered, Count, Bump, Dependency,
         Quorum, CheckFlapping, Suppress, Open, Opened, Goto, Finish
<1>2. \A k \in Monitors : k # job[e].monitor => status'[k] = status[k] /\ results'[k] = results[k]
  BY DEF Continue, Persist, SetStatus, Lookup, Resolve, Recovered, Count, Bump, Dependency,
         Quorum, CheckFlapping, Suppress, Open, Opened
<1>5. \A k : k # job[e].monitor => (k \in misreported' <=> k \in misreported)
  BY DEF Continue, Persist, SetStatus, Lookup, Resolve, Recovered, Count, Bump, Dependency,
         Quorum, CheckFlapping, Suppress, Open, Opened
<1>3. pc'[e] # "idle" => job'[e].monitor = job[e].monitor
  BY <1>0 DEF Continue, Persist, SetStatus, Lookup, Resolve, Recovered, Count, Bump, Dependency,
              Quorum, CheckFlapping, Suppress, Open, Opened, Goto, Finish, Job
<1>4. faults' = faults
  BY DEF Continue, Persist, SetStatus, Lookup, Resolve, Recovered, Count, Bump, Dependency,
         Quorum, CheckFlapping, Suppress, Open, Opened
<1> QED BY <1>0, <1>1, <1>2, <1>3, <1>4, <1>5

\* As long as nothing is reopened, only an insert adds an active incident, and only
\* to the monitor it is about.
LEMMA ActiveElsewhere ==
  ASSUME TypeInv, StaysResolved, NEW e \in Evaluators, Continue(e), NEW k,
         k # job[e].monitor \/ ~Open(e)
  PROVE  Active(k)' \subseteq Active(k)
<1>1. CASE Open(e)
  BY <1>1, ActiveOpened
<1>2. CASE ~Open(e)
  BY <1>2, ActiveShrinks, ContinueRewrites
<1> QED BY <1>1, <1>2

LEMMA SerialNext ==
  ASSUME NEW S, TypeInv, SerialInv(S), ApartIn(S), StaysResolved, [Next]_vars
  PROVE  SerialInv(S)'
<1>1. ASSUME NEW e \in Evaluators, Open(e)
      PROVE  AloneIn(S)' /\ NoneWhileOpening(S)'
  <2> PICK k : k = job[e].monitor
    OBVIOUS
  <2>1. /\ pc[e] = "open" /\ pc'[e] = "opened"
        /\ \A f \in Evaluators : f # e => pc'[f] = pc[f] /\ job'[f] = job[f]
    BY <1>1 DEF Open, Goto, TypeInv, TypeOK
  <2>2. k \in S => Active(k) = {}
    BY <2>1 DEF SerialInv, NoneWhileOpening, Opening
  <2>3. \A m : Active(m)' = Active(m) \union (IF m = k THEN {Len(incidents) + 1} ELSE {})
    BY <1>1, ActiveOpened
  <2>4. AloneIn(S)'
    BY <2>2, <2>3 DEF SerialInv, AloneIn
  <2>5. ASSUME NEW f \in Evaluators, Opening(f)', NEW m \in S, m = job'[f].monitor
        PROVE  Active(m)' = {}
    <3>1. f # e
      BY <2>1, <2>5 DEF Opening
    <3>2. Opening(f) /\ m = job[f].monitor
      BY <2>1, <2>5, <3>1 DEF Opening
    <3>3. pc[f] # "idle" /\ pc[e] # "idle"
      BY <2>1, <3>2 DEF Opening
    <3>4. m # k
      BY <2>5, <3>1, <3>2, <3>3 DEF ApartIn
    <3> QED BY <2>3, <2>5, <3>2, <3>4 DEF SerialInv, NoneWhileOpening
  <2>6. NoneWhileOpening(S)'
    BY <2>5 DEF NoneWhileOpening
  <2> QED BY <2>4, <2>6
<1>2. ASSUME \A e \in Evaluators : ~Open(e)
      PROVE  AloneIn(S)' /\ NoneWhileOpening(S)'
  <2>1. \A m : Active(m)' \subseteq Active(m)
    BY <1>2, ActiveShrinks, NextRewrites
  <2>2. AloneIn(S)'
    BY <2>1 DEF SerialInv, AloneIn
  <2>3. ASSUME NEW e \in Evaluators, Opening(e)', NEW m \in S, m = job'[e].monitor
        PROVE  Active(m)' = {}
    BY <1>2, <2>1, <2>3, NextRewrites DEF OpeningKept, SerialInv, NoneWhileOpening
  <2>4. NoneWhileOpening(S)'
    BY <2>3 DEF NoneWhileOpening
  <2> QED BY <2>2, <2>4
<1> QED BY <1>1, <1>2 DEF SerialInv

\* "Nothing is reopened" as a condition of behaviours and as one of steps.
LEMMA NothingReopened == ResolvedIsFinal => [][StaysResolved]_vars
<1>1. [\A i \in DOMAIN incidents :
         incidents[i].status = "resolved" => incidents'[i].status = "resolved"]_vars => [StaysResolved]_vars
  BY DEF StaysResolved
<1> QED BY <1>1, PTL DEF ResolvedIsFinal

LEMMA StaysAnyway == [StaysResolved]_vars => StaysResolved
BY DEF StaysResolved, vars

LEMMA SerialInit ==
  ASSUME NEW S
  PROVE  Init => SerialInv(S)
BY DEF Init, SerialInv, AloneIn, NoneWhileOpening, Opening, Active

LEMMA SerialAlways ==
  ASSUME NEW S
  PROVE  Spec /\ ResolvedIsFinal /\ []ApartIn(S) => []SerialInv(S)
<1>1. TypeInv /\ SerialInv(S) /\ ApartIn(S) /\ [StaysResolved]_vars /\ [Next]_vars => SerialInv(S)'
  BY SerialNext, StaysAnyway
<1> QED BY <1>1, SerialInit, TypeAlways, NothingReopened, PTL DEF Spec

LEMMA AloneIsOne ==
  ASSUME NEW S, SerialInv(S)
  PROVE  OneActiveIn(S)
<1> SUFFICES ASSUME NEW m \in S PROVE Cardinality(Active(m)) <= 1
  BY DEF OneActiveIn
<1>1. CASE Active(m) = {}
  BY <1>1, FS_EmptySet
<1>2. ASSUME NEW i \in Active(m) PROVE Cardinality(Active(m)) = 1
  <2>1. Active(m) = {i}
    BY DEF SerialInv, AloneIn
  <2> QED BY <2>1, FS_Singleton
<1> QED BY <1>1, <1>2

\* A monitor whose evaluations do not overlap never has two active incidents, whatever
\* the other monitors' evaluations do, crashes or fails, and whatever users do but reopen
\* an incident: GetOpenIncident (monitoring.go:246) is all that keeps duplicates out, and
\* it is left to the worker's inFlight map to keep evaluations apart.
THEOREM OneActiveWhereApart ==
  ASSUME NEW S
  PROVE  Spec /\ ResolvedIsFinal /\ []ApartIn(S) => []OneActiveIn(S)
<1>1. SerialInv(S) => OneActiveIn(S)
  BY AloneIsOne
<1>2. Spec /\ ResolvedIsFinal /\ []ApartIn(S) => []SerialInv(S)
  BY SerialAlways
<1> QED BY <1>1, <1>2, PTL

\* One evaluator alone does not overlap.
LEMMA OneIsApart == OneEvaluator => ApartIn(Monitors)
BY DEF OneEvaluator, ApartIn

LEMMA OneIsSerial == OneEvaluator /\ OnlyResolve => (Spec => []SerialInv(Monitors))
<1> SUFFICES ASSUME OneEvaluator, OnlyResolve PROVE Spec => []SerialInv(Monitors)
  OBVIOUS
<1>1. TypeInv /\ SerialInv(Monitors) /\ NoRequests /\ [Next]_vars => SerialInv(Monitors)'
  BY SerialNext, OneIsApart, ResolvedStays
<1>2. Init => SerialInv(Monitors)
  BY SerialInit
<1>3. Spec => []NoRequests
  BY NoRequestsAlways
<1> QED BY <1>1, <1>2, <1>3, TypeAlways, PTL DEF Spec

\* One evaluator at a time never gives a monitor two active incidents, whatever
\* crashes or fails and whatever is resolved meanwhile.
THEOREM OneActive == OneEvaluator /\ OnlyResolve => (Spec => []AtMostOneActive)
<1> SUFFICES ASSUME OneEvaluator, OnlyResolve PROVE Spec => []AtMostOneActive
  OBVIOUS
<1>1. SerialInv(Monitors) => AtMostOneActive
  BY AloneIsOne DEF OneActiveIn, AtMostOneActive
<1>2. Spec => []SerialInv(Monitors)
  BY OneIsSerial
<1> QED BY <1>1, <1>2, PTL

------------------------------------------------------------------------------
(* Duplicates.  Evaluations that overlap open more than one incident, but    *)
(* each of them has another author.                                         *)

\* The author of each live incident of m.
LEMMA AuthorsApart ==
  ASSUME TypeInv, OneLivePerEvaluator, IsFiniteSet(Evaluators), NEW m \in Monitors
  PROVE  /\ IsFiniteSet(Live(m))
         /\ Cardinality(Live(m)) <= Cardinality(Evaluators)
<1> DEFINE author == [i \in Live(m) |-> incidents[i].by]
<1>1. \A i \in Live(m) : incidents[i].by \in Evaluators
  <2> SUFFICES ASSUME NEW i \in Live(m) PROVE incidents[i].by \in Evaluators
    OBVIOUS
  <2>1. incidents[i] \in Incident
    BY ElementOfSeq DEF Live, Active, TypeInv, TypeOK
  <2> QED BY <2>1 DEF Incident
<1>2. author \in Injection(Live(m), Evaluators)
  BY <1>1 DEF OneLivePerEvaluator, Injection, IsInjective
<1> QED BY <1>2, FS_Injection

\* However evaluations overlap, crash or fail, and whatever users do, a monitor has at
\* most as many active incidents that were never resolved as there are evaluators
\* (GetOpenIncident before OpenIncident, monitoring.go:246).
THEOREM DuplicatesBounded ==
  IsFiniteSet(Evaluators) =>
    (Spec => [](\A m \in Monitors : Cardinality(Live(m)) <= Cardinality(Evaluators)))
<1> SUFFICES ASSUME IsFiniteSet(Evaluators)
             PROVE  Spec => [](\A m \in Monitors : Cardinality(Live(m)) <= Cardinality(Evaluators))
  OBVIOUS
<1>1. TypeInv /\ OneLiveInv => \A m \in Monitors : Cardinality(Live(m)) <= Cardinality(Evaluators)
  BY AuthorsApart DEF OneLiveInv
<1> QED BY <1>1, TypeAlways, OneLiveAlways, PTL

\* Only what is resolved has resolved_at.
NeverReopened == \A i \in DOMAIN incidents : incidents[i].resolvedAt => incidents[i].status = "resolved"

LEMMA NeverReopenedNext ==
  ASSUME TypeInv, NeverReopened, StaysResolved, [Next]_vars
  PROVE  NeverReopened'
<1>1. ASSUME NEW e \in Evaluators, Open(e)
      PROVE  NeverReopened'
  <2> DEFINE row == [monitor |-> job[e].monitor, status |-> "open", resolvedAt |-> FALSE, by |-> e]
             n == Len(incidents)
  <2>1. pc[e] = "open" /\ job[e] \in Job
    BY <1>1 DEF Open, Goto, TypeInv, TypeOK
  <2>2. row \in Incident
    BY <2>1 DEF Incident, Job, IncidentStatuses, ActiveStatuses
  <2>3. /\ DOMAIN incidents = 1..n /\ n \in Nat
        /\ DOMAIN incidents' = 1..(n + 1)
        /\ \A i \in 1..n : incidents'[i] = incidents[i]
        /\ incidents'[n + 1] = row
    BY <1>1, <2>2, AppendProperties DEF Open, TypeInv, TypeOK
  <2>4. row.resolvedAt = FALSE
    OBVIOUS
  <2> HIDE DEF row
  <2> QED BY <2>3, <2>4 DEF NeverReopened
<1>2. ASSUME \A e \in Evaluators : ~Open(e)
      PROVE  NeverReopened'
  BY <1>2, NextRewrites DEF Rewritten, NeverReopened, StaysResolved
<1> QED BY <1>1, <1>2

\* While nothing is reopened, duplicates never outnumber the evaluators: a monitor has
\* no more active incidents than evaluations can work on it (monitoring.go:246 and 278).
THEOREM ActiveBounded ==
  IsFiniteSet(Evaluators) =>
    (Spec /\ ResolvedIsFinal => [](\A m \in Monitors : Cardinality(Active(m)) <= Cardinality(Evaluators)))
<1> SUFFICES ASSUME IsFiniteSet(Evaluators)
             PROVE  Spec /\ ResolvedIsFinal =>
                      [](\A m \in Monitors : Cardinality(Active(m)) <= Cardinality(Evaluators))
  OBVIOUS
<1>1. NeverReopened => \A m : Active(m) = Live(m)
  BY DEF NeverReopened, Live, Active, ActiveStatuses
<1>2. TypeInv /\ OneLiveInv /\ NeverReopened =>
        \A m \in Monitors : Cardinality(Active(m)) <= Cardinality(Evaluators)
  BY <1>1, AuthorsApart DEF OneLiveInv
<1>3. Init => NeverReopened
  BY DEF Init, NeverReopened
<1>4. TypeInv /\ NeverReopened /\ [StaysResolved]_vars /\ [Next]_vars => NeverReopened'
  BY NeverReopenedNext, StaysAnyway
<1> QED BY <1>2, <1>3, <1>4, NothingReopened, TypeAlways, OneLiveAlways, PTL DEF Spec

------------------------------------------------------------------------------
(* The status and the incident.  They are separate statements, so "up means *)
(* no active incident" is false between them; what holds at every step is   *)
(* that the evaluation on its way between the two knows the missing part.   *)

\* Shown as up, and not because a failing result called itself so.
ShownUp(m) == status[m] = "up" /\ m \notin misreported

Failing == {"count", "bump", "dependency", "quorum", "flapping", "suppress", "open", "opened"}

\* What an evaluation knows of its monitor's status and of its incident.
Knows(e) ==
  /\ job[e].suppressed => ~Successful(job[e].outcome)
  /\ pc[e] = "lookup" => (ShownUp(job[e].monitor) => Successful(job[e].outcome))
  /\ pc[e] \in Failing => ~ShownUp(job[e].monitor)
  /\ pc[e] = "resolve" => Active(job[e].monitor) \subseteq {job[e].incident}

\* A monitor shown as up whose incident is not about to be resolved has none.
UpIsClear(m) ==
  /\ ShownUp(m)
  /\ \A e \in Evaluators : pc[e] \in {"lookup", "resolve"} => job[e].monitor # m
  => Active(m) = {}

StatusInv(S) ==
  /\ \A m \in S : UpIsClear(m)
  /\ \A e \in Evaluators : pc[e] # "idle" /\ job[e].monitor \in S => Knows(e)

\* StatusAgrees of the monitors of S.
StatusAgreesIn(S) ==
  \A m \in S \ misreported :
    /\ status[m] = "up"
    /\ \A e \in Evaluators : pc[e] # "idle" => job[e].monitor # m
    => Active(m) = {}

\* Steps that leave the statuses and the evaluations alone and add no incident.
LEMMA StatusStays ==
  ASSUME NEW S, StatusInv(S), UNCHANGED <<shown, evaluation>>, \A m : Active(m)' \subseteq Active(m)
  PROVE  StatusInv(S)'
<1>1. ASSUME NEW e \in Evaluators, pc'[e] # "idle", job'[e].monitor \in S
      PROVE  Knows(e)'
  <2> PICK m : m = job[e].monitor
    OBVIOUS
  <2>1. Active(m)' \subseteq Active(m) /\ job'[e] = job[e] /\ pc'[e] = pc[e] /\ UNCHANGED shown
    BY DEF evaluation
  <2> QED BY <1>1, <2>1 DEF StatusInv, Knows, ShownUp
<1>2. ASSUME NEW m \in S PROVE UpIsClear(m)'
  BY DEF StatusInv, UpIsClear, evaluation, ShownUp
<1> QED BY <1>1, <1>2 DEF StatusInv

\* What an evaluation's step about m owes to the invariant.
StatusKept(e, m) == UpIsClear(m)' /\ (pc'[e] # "idle" => Knows(e)')

\* An evaluation's step and the monitors and evaluations it is not about.
LEMMA StatusElsewhere ==
  ASSUME NEW S \in SUBSET Monitors, TypeInv, ApartIn(S), StatusInv(S), StaysResolved,
         NEW e \in Evaluators, Continue(e), NEW m, m = job[e].monitor,
         m \in S => StatusKept(e, m)
  PROVE  StatusInv(S)'
<1>1. ASSUME NEW f \in Evaluators, f # e, pc'[f] # "idle", job'[f].monitor \in S
      PROVE  Knows(f)'
  <2> PICK k : k = job[f].monitor
    OBVIOUS
  <2>1. pc'[f] = pc[f] /\ job'[f] = job[f] /\ pc[e] # "idle"
    BY <1>1, OthersWait
  <2>2. k \in S /\ k # m
    BY <1>1, <2>1 DEF ApartIn
  <2>3. (ShownUp(k)' <=> ShownUp(k)) /\ Active(k)' \subseteq Active(k)
    BY <2>2, OthersWait, ActiveElsewhere DEF ShownUp
  <2>4. Knows(f)
    BY <1>1, <2>1 DEF StatusInv
  <2> QED BY <2>1, <2>3, <2>4 DEF Knows, ShownUp
<1>2. ASSUME NEW k \in S, k # m
      PROVE  UpIsClear(k)'
  <2>1. (ShownUp(k)' <=> ShownUp(k)) /\ Active(k)' \subseteq Active(k)
    BY <1>2, OthersWait, ActiveElsewhere DEF ShownUp
  <2>2. \A f \in Evaluators : f # e => pc'[f] = pc[f] /\ job'[f] = job[f]
    BY OthersWait
  <2>3. UpIsClear(k)
    BY DEF StatusInv
  <2> QED BY <1>2, <2>1, <2>2, <2>3 DEF UpIsClear
<1>3. pc'[e] # "idle" => job'[e].monitor = m
  BY OthersWait
<1> QED BY <1>1, <1>2, <1>3 DEF StatusInv, StatusKept

\* Steps that leave the statuses and the incidents alone and neither come from nor lead
\* to a lookup.
LEMMA StatusMoves ==
  ASSUME TypeInv, NEW e \in Evaluators, Continue(e), Knows(e),
         NEW m, m = job[e].monitor, UpIsClear(m),
         UNCHANGED <<shown, incidents>>,
         pc[e] \notin {"idle", "lookup", "resolve"}, pc'[e] \notin {"lookup", "resolve"},
         pc'[e] # "idle" =>
           /\ job'[e].monitor = job[e].monitor
           /\ job'[e].outcome = job[e].outcome
           /\ job'[e].suppressed = job[e].suppressed,
         pc'[e] \in Failing => pc[e] \in Failing
  PROVE  StatusKept(e, m)
<1>1. pc'[e] # "idle" => Knows(e)'
  <2> SUFFICES ASSUME pc'[e] # "idle" PROVE Knows(e)'
    OBVIOUS
  <2>1. job'[e].suppressed => ~Successful(job'[e].outcome)
    BY DEF Knows, Successful
  <2>2. pc'[e] \in Failing => ~ShownUp(m)'
    BY DEF Knows, Failing, ShownUp
  <2>3. job'[e].monitor = m
    OBVIOUS
  <2> QED BY <2>1, <2>2, <2>3 DEF Knows, ShownUp
<1>2. \A f \in Evaluators : f # e => pc'[f] = pc[f] /\ job'[f] = job[f]
  BY OthersWait
<1>3. Active(m)' = Active(m)
  BY DEF Active
<1>4. UpIsClear(m)'
  BY <1>2, <1>3 DEF UpIsClear, ShownUp
<1> QED BY <1>1, <1>4 DEF StatusKept

LEMMA StatusContinue ==
  ASSUME NEW S \in SUBSET Monitors, TypeInv, ApartIn(S), StatusInv(S), SerialInv(S), StaysResolved,
         NEW e \in Evaluators, Continue(e)
  PROVE  StatusInv(S)'
<1> USE DEF TypeInv, TypeOK
<1> PICK m : m = job[e].monitor
  OBVIOUS
<1>0. pc[e] # "idle" /\ pc[e] \in Labels /\ job[e] \in Job /\ m \in Monitors
  BY OthersWait
<1> SUFFICES ASSUME m \in S PROVE StatusKept(e, m)
  BY StatusElsewhere
<1>knows. Knows(e) /\ UpIsClear(m)
  BY <1>0 DEF StatusInv
<1>1. CASE Persist(e)
  BY <1>0, <1>knows, <1>1, StatusMoves DEF Persist, Goto, Failing
<1>2. CASE SetStatus(e)
  <2>1. /\ pc[e] = "status" /\ pc'[e] = "lookup" /\ job' = job
        /\ ShownUp(m)' => Successful(job[e].outcome)
        /\ \A k : Active(k)' = Active(k)
    BY <1>0, <1>2 DEF SetStatus, Goto, Active, ShownUp, ShownStatus, Successful, Misreport
  <2>2. Knows(e)'
    BY <1>0, <1>knows, <2>1 DEF Knows, Failing
  <2>3. UpIsClear(m)'
    BY <1>2, <2>1 DEF UpIsClear, SetStatus, Goto
  <2> QED BY <2>2, <2>3 DEF StatusKept
<1>3. CASE Lookup(e)
  <2>0. /\ UNCHANGED <<shown, incidents>> /\ \A k : Active(k)' = Active(k)
        /\ pc[e] = "lookup" /\ (ShownUp(m) => Successful(job[e].outcome))
    BY <1>knows, <1>3 DEF Lookup, Active, Knows
  <2>1. PICK open \in GetOpenIncident(m) :
       \/ /\ Successful(job[e].outcome) /\ open # None
          /\ Goto(e, "lookup", "resolve")
          /\ job' = [job EXCEPT ![e].incident = open]
       \/ /\ ~Successful(job[e].outcome) /\ ~job[e].suppressed
          /\ Goto(e, "lookup", "count")
          /\ job' = [job EXCEPT ![e].incident = open]
       \/ /\ Successful(job[e].outcome) /\ open = None
          /\ Finish(e, "lookup")
       \/ /\ job[e].suppressed
          /\ Finish(e, "lookup")
    BY <1>3 DEF Lookup
  <2>2. /\ open = None => Active(m) = {}
        /\ open # None => open \in Active(m) /\ Active(m) \subseteq {open}
    BY OpenIncident DEF SerialInv, AloneIn
  <2>3. ASSUME job' = [job EXCEPT ![e].incident = open]
        PROVE  /\ job'[e].monitor = m /\ job'[e].outcome = job[e].outcome
               /\ job'[e].suppressed = job[e].suppressed /\ job'[e].incident = open
    BY <1>0, <2>3 DEF Job
  <2>4. CASE Successful(job[e].outcome) /\ open # None /\ Goto(e, "lookup", "resolve")
             /\ job' = [job EXCEPT ![e].incident = open]
    <3>1. pc'[e] = "resolve"
      BY <2>4 DEF Goto
    <3>2. Knows(e)'
      BY <1>knows, <2>0, <2>2, <2>3, <2>4, <3>1 DEF Knows, Failing, ShownUp
    <3>3. UpIsClear(m)'
      BY <2>0, <2>3, <2>4, <3>1 DEF UpIsClear, ShownUp
    <3> QED BY <3>2, <3>3 DEF StatusKept
  <2>5. CASE ~Successful(job[e].outcome) /\ Goto(e, "lookup", "count")
             /\ job' = [job EXCEPT ![e].incident = open]
    <3>1. pc'[e] = "count" /\ ~ShownUp(m)
      BY <2>0, <2>5 DEF Goto, Successful
    <3>2. Knows(e)'
      BY <1>knows, <2>0, <2>3, <2>5, <3>1 DEF Knows, ShownUp
    <3>3. UpIsClear(m)'
      BY <2>0, <3>1 DEF UpIsClear, ShownUp
    <3> QED BY <3>2, <3>3 DEF StatusKept
  <2>6. CASE Finish(e, "lookup") /\ (Active(m) = {} \/ ~ShownUp(m))
    <3>1. pc'[e] = "idle"
      BY <2>6 DEF Finish, Goto
    <3>2. UpIsClear(m)'
      BY <2>0, <2>6 DEF UpIsClear, ShownUp
    <3> QED BY <3>1, <3>2 DEF StatusKept
  <2>7. job[e].suppressed => ~ShownUp(m)
    BY <1>0, <1>knows, <2>0 DEF Knows, Successful
  <2> QED BY <2>1, <2>2, <2>4, <2>5, <2>6, <2>7
<1>4. CASE Resolve(e)
  <2>1. /\ pc[e] = "resolve" /\ pc'[e] = "recovered" /\ status' = status /\ job' = job
        /\ Active(m) \subseteq {job[e].incident}
    BY <1>knows, <1>4 DEF Resolve, Goto, Knows
  <2>2. incidents'[job[e].incident].status = "resolved"
    <3>1. job[e].incident \in DOMAIN incidents
      BY <2>1 DEF Held
    <3>2. [incidents[job[e].incident] EXCEPT !.status = "resolved",
             !.resolvedAt = @ \/ "resolved" = "resolved"].status = "resolved"
      <4>1. incidents[job[e].incident] \in Incident
        BY <3>1, ElementOfSeq
      <4> QED BY <4>1 DEF Incident
    <3> QED BY <1>4, <3>1, <3>2 DEF Resolve, WriteStatus
  <2>3. Active(m)' = {}
    <3>1. Active(m)' \subseteq Active(m)
      BY <2>1, ActiveElsewhere DEF Open, Goto
    <3>2. \A i \in Active(m)' : incidents'[i].status # "resolved"
      BY DEF Active, ActiveStatuses
    <3> QED BY <2>1, <2>2, <3>1, <3>2
  <2>4. Knows(e)'
    BY <1>knows, <2>1 DEF Knows, Failing, ShownUp
  <2>5. UpIsClear(m)'
    BY <2>3 DEF UpIsClear, ShownUp
  <2> QED BY <2>4, <2>5 DEF StatusKept
<1>5. CASE Recovered(e)
  BY <1>0, <1>knows, <1>5, StatusMoves DEF Recovered, Finish, Goto, Failing
<1>6. CASE Count(e)
  <2>1. CASE Goto(e, "count", "bump") /\ UNCHANGED job
    BY <1>0, <1>knows, <1>6, <2>1, StatusMoves DEF Count, Goto, Failing
  <2>2. CASE Finish(e, "count")
    BY <1>0, <1>knows, <1>6, <2>2, StatusMoves DEF Count, Finish, Goto, Failing
  <2>3. CASE Goto(e, "count", "dependency")
             /\ job' = [job EXCEPT ![e].parents = Parents[job[e].monitor]]
    <3>1. /\ job'[e].monitor = job[e].monitor /\ job'[e].outcome = job[e].outcome
          /\ job'[e].suppressed = job[e].suppressed
      BY <1>0, <2>3 DEF Job
    <3> QED BY <1>0, <1>knows, <1>6, <2>3, <3>1, StatusMoves DEF Count, Goto, Failing
  <2> QED BY <1>6, <2>1, <2>2, <2>3 DEF Count
<1>7. CASE Bump(e)
  BY <1>0, <1>knows, <1>7, StatusMoves DEF Bump, Finish, Goto, Failing
<1>8. CASE Dependency(e)
  <2>1. CASE Goto(e, "dependency", "quorum") /\ UNCHANGED job
    BY <1>0, <1>knows, <1>8, <2>1, StatusMoves DEF Dependency, Goto, Failing
  <2>2. ASSUME NEW p, NEW to \in {"dependency", "suppress"}, Goto(e, "dependency", to),
               job' = [job EXCEPT ![e].parents = @ \ {p}]
        PROVE  StatusKept(e, m)
    <3>1. /\ job'[e].monitor = job[e].monitor /\ job'[e].outcome = job[e].outcome
          /\ job'[e].suppressed = job[e].suppressed
      BY <1>0, <2>2 DEF Job
    <3> QED BY <1>0, <1>knows, <1>8, <2>2, <3>1, StatusMoves DEF Dependency, Goto, Failing
  <2> QED BY <1>8, <2>1, <2>2 DEF Dependency
<1>9. CASE Quorum(e)
  BY <1>0, <1>knows, <1>9, StatusMoves DEF Quorum, Goto, Failing
<1>10. CASE CheckFlapping(e)
  BY <1>0, <1>knows, <1>10, StatusMoves DEF CheckFlapping, Goto, Failing
<1>11. CASE Suppress(e)
  <2>1. /\ pc[e] = "suppress" /\ pc'[e] = "idle"
        /\ ~ShownUp(m)'
        /\ \A k : Active(k)' = Active(k)
    BY <1>0, <1>11 DEF Suppress, Finish, Goto, Active, ShownUp
  <2>2. UpIsClear(m)'
    BY <2>1 DEF UpIsClear, ShownUp
  <2> QED BY <2>1, <2>2 DEF StatusKept
<1>12. CASE Open(e)
  <2>1. /\ pc[e] = "open" /\ pc'[e] = "opened" /\ UNCHANGED shown /\ job'[e].monitor = m
        /\ ~ShownUp(m)
    BY <1>knows, <1>12, ActiveOpened DEF Open, Goto, Knows, Failing
  <2>2. UpIsClear(m)'
    BY <2>1 DEF UpIsClear, ShownUp
  <2>3. job'[e].suppressed = job[e].suppressed /\ job'[e].outcome = job[e].outcome
    BY <1>0, <1>12 DEF Open, Job
  <2>4. Knows(e)'
    BY <1>0, <1>knows, <2>1, <2>3 DEF Knows, ShownUp
  <2> QED BY <2>2, <2>4 DEF StatusKept
<1>13. CASE Opened(e)
  BY <1>0, <1>knows, <1>13, StatusMoves DEF Opened, Finish, Goto, Failing
<1> QED
  BY <1>1, <1>2, <1>3, <1>4, <1>5, <1>6, <1>7, <1>8, <1>9, <1>10, <1>11, <1>12, <1>13
  DEF Continue

LEMMA StatusNext ==
  ASSUME NEW S \in SUBSET Monitors, TypeInv, ApartIn(S), SerialInv(S), faults = 0 => StatusInv(S),
         StaysResolved, [Next]_vars, faults' = 0
  PROVE  StatusInv(S)'
<1>1. ~Fault
  BY DEF Fault, TypeInv, TypeOK
<1>2. ASSUME UNCHANGED <<evaluation, faults, shown>>
      PROVE  StatusInv(S)'
  <2>1. \A f \in Evaluators : ~Open(f)
    BY <1>2 DEF Open, Goto, evaluation, TypeInv, TypeOK
  <2>2. \A m : Active(m)' \subseteq Active(m)
    BY <2>1, ActiveShrinks, NextRewrites
  <2> QED BY <1>2, <2>2, StatusStays
<1>3. ASSUME NEW e \in Evaluators, Continue(e)
      PROVE  StatusInv(S)'
  BY <1>3, OthersWait, StatusContinue
<1>4. ASSUME NEW e \in Evaluators, EvaluatorFault(e)
      PROVE  StatusInv(S)'
  BY <1>1, <1>4 DEF EvaluatorFault, StoreError, FlappingError, ResolveHalfway, SuppressError, Crash
<1>5. CASE UserStep
  BY <1>2, <1>5 DEF UserStep, UserResolve, Acknowledge, TransitionRead, TransitionWrite
<1>6. CASE UNCHANGED vars \/ \E d \in dispatching : Notify(d) \/ NotifyError(d)
  BY <1>1, <1>2, <1>6 DEF Notify, NotifyError, vars, evaluation
<1>7. ASSUME NEW e \in Evaluators, NEW m \in Monitors, StartCheck(e, m)
      PROVE  StatusInv(S)'
  <2>1. PICK outcome \in Outcomes, region \in Regions, suppressed \in BOOLEAN :
          RunCheck(e, m, outcome, region, suppressed)
    BY <1>7 DEF StartCheck
  <2>2. /\ pc[e] = "idle" /\ pc'[e] = "persist"
        /\ job'[e].suppressed = suppressed /\ job'[e].outcome = outcome
        /\ suppressed => ~Successful(outcome)
        /\ UNCHANGED <<shown, incidents, faults>>
        /\ \A f \in Evaluators : f # e => pc'[f] = pc[f] /\ job'[f] = job[f]
    BY <2>1 DEF RunCheck, Goto, TypeInv, TypeOK
  <2>3. Knows(e)'
    BY <2>2 DEF Knows, Failing
  <2>4. \A k : Active(k)' = Active(k)
    BY <2>2 DEF Active
  <2>5. ASSUME NEW f \in Evaluators, f # e, pc'[f] # "idle", job'[f].monitor \in S
        PROVE  Knows(f)'
    <3> PICK k : k = job[f].monitor
      OBVIOUS
    <3>1. Knows(f) /\ Active(k)' = Active(k) /\ job'[f] = job[f] /\ pc'[f] = pc[f] /\ UNCHANGED shown
      BY <2>2, <2>4, <2>5 DEF StatusInv
    <3> QED BY <3>1 DEF Knows, ShownUp
  <2>6. ASSUME NEW k \in S
        PROVE  UpIsClear(k)'
    BY <2>2, <2>4 DEF StatusInv, UpIsClear, ShownUp
  <2> QED BY <2>3, <2>5, <2>6 DEF StatusInv
<1> QED BY <1>3, <1>4, <1>5, <1>6, <1>7 DEF Next

LEMMA StatusInit ==
  ASSUME NEW S \in SUBSET Monitors
  PROVE  Init => StatusInv(S)
BY DEF Init, StatusInv, UpIsClear, Active, ShownUp

LEMMA InStepIn ==
  ASSUME NEW S, StatusInv(S)
  PROVE  StatusAgreesIn(S)
BY DEF StatusInv, UpIsClear, StatusAgreesIn, ShownUp

\* Until the first fault, a monitor whose evaluations do not overlap, that none is working
\* on and that is shown as up has no active incident, whatever users do but reopen one: the
\* status is written before the incident is looked up, and an evaluation ends with
\* both in step (UpdateMonitorStatus, applyIncidentRules) unless its result called
\* itself up and failed.
THEOREM StatusWhereApart ==
  ASSUME NEW S \in SUBSET Monitors
  PROVE  Spec /\ ResolvedIsFinal /\ []ApartIn(S) => [](faults = 0 => StatusAgreesIn(S))
<1>1. Init => (faults = 0 => StatusInv(S))
  BY StatusInit
<1>2. TypeInv /\ ApartIn(S) /\ SerialInv(S) /\ (faults = 0 => StatusInv(S))
        /\ [StaysResolved]_vars /\ [Next]_vars
      => (faults = 0 => StatusInv(S))'
  BY StatusNext, StaysAnyway
<1>3. (faults = 0 => StatusInv(S)) => (faults = 0 => StatusAgreesIn(S))
  BY InStepIn
<1>4. Spec /\ ResolvedIsFinal /\ []ApartIn(S) => []SerialInv(S)
  BY SerialAlways
<1> QED BY <1>1, <1>2, <1>3, <1>4, TypeAlways, NothingReopened, PTL DEF Spec

\* The same of every monitor, with one evaluator and users who only resolve.
THEOREM StatusInStep ==
  OneEvaluator /\ OnlyResolve => (Spec => [](faults = 0 => StatusAgrees))
<1> SUFFICES ASSUME OneEvaluator, OnlyResolve PROVE Spec => [](faults = 0 => StatusAgrees)
  OBVIOUS
<1>1. Init => (faults = 0 => StatusInv(Monitors))
  BY StatusInit
<1>2. TypeInv /\ NoRequests /\ SerialInv(Monitors) /\ (faults = 0 => StatusInv(Monitors)) /\ [Next]_vars
      => (faults = 0 => StatusInv(Monitors))'
  BY StatusNext, OneIsApart, ResolvedStays
<1>3. (faults = 0 => StatusInv(Monitors)) => (faults = 0 => StatusAgrees)
  BY InStepIn DEF StatusAgreesIn, StatusAgrees
<1>4. Spec => []SerialInv(Monitors)
  BY OneIsSerial
<1>5. Spec => []NoRequests
  BY NoRequestsAlways
<1> QED BY <1>1, <1>2, <1>3, <1>4, <1>5, TypeAlways, PTL DEF Spec

------------------------------------------------------------------------------
(* What the rules read of a history.                                        *)

\* A set of naturals with an element has a least one.
LEMMA LeastNatural ==
  ASSUME NEW S, S \subseteq Nat, S # {}
  PROVE  \E n \in S : \A k \in S : n <= k
<1>1. IsWellFoundedOn(OpToRel(<, Nat), Nat)
  BY NatLessThanWellFounded
<1>2. PICK n \in S : \A k \in S : ~(<<k, n>> \in OpToRel(<, Nat))
  BY <1>1, WFMin
<1>3. \A k \in S : ~(k < n)
  BY <1>2 DEF OpToRel
<1> QED BY <1>3

\* CountConsecutiveFailures counts a stretch of failing rows at the front.
LEMMA FailuresInFront ==
  ASSUME NEW history \in Seq(Row)
  PROVE  /\ ConsecutiveFailures(history) \in 0..Len(history)
         /\ \A i \in 1..ConsecutiveFailures(history) : ~history[i].success
<1> DEFINE read == AtMost(CountLimit, Len(history))
           stop == {n \in 0..read : n = read \/ history[n + 1].success}
<1>1. read \in Nat /\ read <= Len(history)
  BY RuleAssumption DEF AtMost
<1>2. stop \subseteq Nat /\ read \in stop
  BY <1>1
<1>3. PICK n \in stop : \A k \in stop : n <= k
  BY <1>2, LeastNatural
<1>4. ASSUME NEW i \in 1..n PROVE ~history[i].success
  <2>1. i - 1 \in 0..read /\ i - 1 < n /\ i - 1 # read
    BY <1>1, <1>3
  <2>2. i - 1 \notin stop
    BY <1>1, <1>3, <2>1
  <2>3. ~history[(i - 1) + 1].success
    BY <2>1, <2>2
  <2>4. (i - 1) + 1 = i
    OBVIOUS
  <2> QED BY <2>3, <2>4
<1>5. \E k \in 0..read : /\ \A i \in 1..k : ~history[i].success
                         /\ k = read \/ history[k + 1].success
  BY <1>3, <1>4
<1>6. /\ ConsecutiveFailures(history) \in 0..read
      /\ \A i \in 1..ConsecutiveFailures(history) : ~history[i].success
  BY <1>5 DEF ConsecutiveFailures
<1> QED BY <1>1, <1>6

\* At least the threshold of failing rows, newest first.
ThresholdMet(history) ==
  /\ Len(history) >= Threshold
  /\ \A i \in 1..Threshold : ~history[i].success

LEMMA CountedFailures ==
  ASSUME NEW history \in Seq(Row), ~(ConsecutiveFailures(history) < Threshold)
  PROVE  ThresholdMet(history)
<1> PICK n : n = ConsecutiveFailures(history)
  OBVIOUS
<1>1. n \in 0..Len(history) /\ \A i \in 1..n : ~history[i].success
  BY FailuresInFront
<1>2. Threshold \in Nat /\ n >= Threshold
  BY <1>1, RuleAssumption
<1> QED BY <1>1, <1>2 DEF ThresholdMet

RegionsFail(history) ==
  \/ RegionThreshold <= 1
  \/ Cardinality({r \in Regions : FailsNow(history, r)}) >= RegionThreshold

\* The regions that fail within the window are among those that fail now.
LEMMA QuorumFails ==
  ASSUME NEW history \in Seq(Row), NEW n \in 0..Len(history), QuorumMet(history, n)
  PROVE  RegionsFail(history)
<1> DEFINE now == {r \in Regions : FailsNow(history, r)}
           within == FailingRegions(history, n)
           all == 1..Len(history)
           regionOf == [i \in all |-> history[i].region]
           reporting == {regionOf[i] : i \in all}
<1>1. within \subseteq now
  BY DEF FailingRegions, FailsNow
<1>2. IsFiniteSet(reporting)
  <2>1. IsFiniteSet(all)
    BY FS_Interval
  <2>2. regionOf \in Surjection(all, reporting)
    BY DEF Surjection
  <2> HIDE DEF all, regionOf, reporting
  <2> QED BY <2>1, <2>2, FS_Surjection
<1>3. now \in SUBSET reporting
  <2>1. ASSUME NEW r \in now PROVE r \in reporting
    <3>1. PICK i \in all : history[i].region = r
      BY DEF FailsNow
    <3>2. regionOf[i] = r
      BY <3>1
    <3> QED BY <3>2
  <2> QED BY <2>1
<1> HIDE DEF now, within, reporting
<1>4. IsFiniteSet(now)
  BY <1>2, <1>3, FS_Subset
<1>5. Cardinality(within) <= Cardinality(now)
  BY <1>1, <1>4, FS_Subset
<1>6. Cardinality(within) \in Nat /\ Cardinality(now) \in Nat /\ RegionThreshold \in Nat
  <2>1. IsFiniteSet(within)
    BY <1>1, <1>4, FS_Subset
  <2> QED BY <1>4, <2>1, FS_CardinalityType, RuleAssumption
<1> QED BY <1>5, <1>6 DEF QuorumMet, RegionsFail, now, within

------------------------------------------------------------------------------
(* Opening is justified.  Each rule reads its part of the evidence at a      *)
(* step of its own; while neither the monitor nor a parent is evaluated by  *)
(* another the evidence is still there when the row is inserted, because    *)
(* histories only grow through evaluations of their monitor, and so do      *)
(* incidents.                                                               *)

\* The evidence an evaluation has gathered by each label.
Evidence(e) ==
  LET history == results[job[e].monitor]
      clear(P) == \A p \in P : Active(p) = {}
  IN  /\ pc[e] \in {"dependency", "quorum", "flapping", "open"} => ThresholdMet(history)
      /\ pc[e] = "dependency" => clear(Parents[job[e].monitor] \ job[e].parents)
      /\ pc[e] \in {"quorum", "flapping", "open"} => clear(Parents[job[e].monitor])
      /\ pc[e] \in {"flapping", "open"} => RegionsFail(history)
      /\ pc[e] = "open" => ~Flapping(history)

EvidenceInv(S) ==
  \A e \in Evaluators : pc[e] # "idle" /\ job[e].monitor \in S => Evidence(e)

\* While one evaluation works on a monitor of S, none works on a parent of it.
ParentsApartIn(S) ==
  \A e, f \in Evaluators :
    pc[e] # "idle" /\ pc[f] # "idle" /\ job[e].monitor \in S /\ job[f].monitor \in Parents[job[e].monitor]
    => e = f

\* OpensJustified of the monitors of S.
OpensJustifiedIn(S) ==
  [][\A i \in DOMAIN incidents' \ DOMAIN incidents :
       incidents'[i].monitor \in S => Justified(incidents'[i].monitor)]_vars

\* Steps that leave a monitor's history alone and add no incident to its parents, and an
\* evaluation of it where it is.
LEMMA EvidenceStays ==
  ASSUME NEW e, Evidence(e), NEW m, m = job[e].monitor, results'[m] = results[m],
         \A k \in Parents[m] : Active(k)' \subseteq Active(k),
         pc'[e] = pc[e], job'[e] = job[e]
  PROVE  Evidence(e)'
<1> PICK P : P = job[e].parents
  OBVIOUS
<1>1. \A k \in Parents[m] : Active(k) = {} => Active(k)' = {}
  OBVIOUS
<1>2. /\ pc[e] \in {"dependency", "quorum", "flapping", "open"} => ThresholdMet(results[m])
      /\ pc[e] = "dependency" => \A p \in Parents[m] \ P : Active(p)' = {}
      /\ pc[e] \in {"quorum", "flapping", "open"} => \A p \in Parents[m] : Active(p)' = {}
      /\ pc[e] \in {"flapping", "open"} => RegionsFail(results[m])
      /\ pc[e] = "open" => ~Flapping(results[m])
  BY <1>1 DEF Evidence
<1> QED BY <1>2 DEF Evidence

LEMMA EvidenceContinue ==
  ASSUME TypeInv, NEW e \in Evaluators, Evidence(e), Continue(e)
  PROVE  Evidence(e)'
<1> USE DEF TypeInv, TypeOK
<1> PICK m : m = job[e].monitor
  OBVIOUS
<1>0. pc[e] # "idle" /\ pc[e] \in Labels /\ job[e] \in Job /\ m \in Monitors
  BY DEF Continue, Persist, SetStatus, Lookup, Resolve, Recovered, Count, Bump, Dependency,
         Quorum, CheckFlapping, Suppress, Open, Opened, Goto, Finish, Job
<1>1. ASSUME pc'[e] \notin {"dependency", "quorum", "flapping", "open"}
      PROVE  Evidence(e)'
  BY <1>1 DEF Evidence
<1>2. CASE Persist(e) \/ SetStatus(e) \/ Resolve(e) \/ Open(e)
  BY <1>1, <1>2 DEF Persist, SetStatus, Resolve, Open, Goto
<1>3. CASE Recovered(e) \/ Bump(e) \/ Suppress(e) \/ Opened(e)
  BY <1>1, <1>3 DEF Recovered, Bump, Suppress, Opened, Finish, Goto
<1>4. CASE Lookup(e)
  BY <1>1, <1>4 DEF Lookup, Finish, Goto
<1>5. CASE Count(e)
  <2>1. CASE Goto(e, "count", "bump") \/ Finish(e, "count")
    BY <1>1, <2>1 DEF Finish, Goto
  <2>2. CASE /\ ~(ConsecutiveFailures(results[m]) < Threshold)
             /\ Goto(e, "count", "dependency")
             /\ job' = [job EXCEPT ![e].parents = Parents[m]]
    <3>1. pc'[e] = "dependency" /\ results' = results
      BY <1>5, <2>2 DEF Count, Goto
    <3>2. job'[e].monitor = m /\ job'[e].parents = Parents[m]
      BY <1>0, <2>2 DEF Job
    <3>3. ThresholdMet(results[m])
      BY <1>0, <2>2, CountedFailures
    <3> QED BY <3>1, <3>2, <3>3 DEF Evidence
  <2> QED BY <1>5, <2>1, <2>2 DEF Count
<1>6. CASE Dependency(e)
  <2>0. /\ pc[e] = "dependency" /\ UNCHANGED <<results, incidents>>
        /\ ThresholdMet(results[m])
        /\ \A p \in Parents[m] \ job[e].parents : Active(p) = {}
        /\ \A p : Active(p)' = Active(p)
    BY <1>6 DEF Dependency, Goto, Evidence, Active
  <2>1. CASE job[e].parents = {} /\ Goto(e, "dependency", "quorum") /\ UNCHANGED job
    <3>1. pc'[e] = "quorum" /\ job'[e].monitor = m /\ results' = results
      BY <2>0, <2>1 DEF Goto
    <3>2. \A p \in Parents[m] : Active(p)' = {}
      BY <2>0, <2>1
    <3> QED BY <2>0, <3>1, <3>2 DEF Evidence
  <2>2. ASSUME NEW p, Active(p) = {}, Goto(e, "dependency", "dependency"),
               job' = [job EXCEPT ![e].parents = @ \ {p}]
        PROVE  Evidence(e)'
    <3> PICK P : P = job[e].parents
      OBVIOUS
    <3>1. pc'[e] = "dependency" /\ results' = results
      BY <2>0, <2>2 DEF Goto
    <3>2. job'[e].monitor = m /\ job'[e].parents = P \ {p}
      BY <1>0, <2>2 DEF Job
    <3>3. \A q \in Parents[m] \ (P \ {p}) : Active(q)' = {}
      BY <2>0, <2>2
    <3> QED BY <2>0, <3>1, <3>2, <3>3 DEF Evidence
  <2>3. CASE Goto(e, "dependency", "suppress")
    BY <1>1, <2>3 DEF Goto
  <2> QED BY <1>6, <2>1, <2>2, <2>3 DEF Dependency
<1>7. CASE Quorum(e)
  <2>0. /\ pc[e] = "quorum" /\ UNCHANGED <<results, incidents, job>>
        /\ ThresholdMet(results[m])
        /\ \A p \in Parents[m] : Active(p)' = {}
    BY <1>7 DEF Quorum, Goto, Evidence, Active
  <2>1. CASE Goto(e, "quorum", "suppress")
    BY <1>1, <2>1 DEF Goto
  <2>2. ASSUME NEW n \in 0..AtMost(QuorumLimit, Len(results[m])), QuorumMet(results[m], n),
               Goto(e, "quorum", "flapping")
        PROVE  Evidence(e)'
    <3>1. results[m] \in Seq(Row) /\ n \in 0..Len(results[m])
      BY <1>0, RuleAssumption DEF AtMost
    <3>2. RegionsFail(results[m])
      BY <2>2, <3>1, QuorumFails
    <3>3. pc'[e] = "flapping" /\ job'[e].monitor = m /\ results' = results
      BY <2>0, <2>2 DEF Goto
    <3> QED BY <2>0, <3>2, <3>3 DEF Evidence
  <2> QED BY <1>7, <2>1, <2>2 DEF Quorum
<1>8. CASE CheckFlapping(e)
  <2>0. /\ pc[e] = "flapping" /\ UNCHANGED <<results, incidents, job>>
        /\ ThresholdMet(results[m]) /\ RegionsFail(results[m])
        /\ \A p \in Parents[m] : Active(p)' = {}
    BY <1>8 DEF CheckFlapping, Goto, Evidence, Active
  <2>1. CASE Goto(e, "flapping", "suppress")
    BY <1>1, <2>1 DEF Goto
  <2>2. CASE ~Flapping(results[m]) /\ Goto(e, "flapping", "open")
    <3>1. pc'[e] = "open" /\ job'[e].monitor = m /\ results' = results
      BY <2>0, <2>2 DEF Goto
    <3> QED BY <2>0, <2>2, <3>1 DEF Evidence
  <2> QED BY <1>8, <2>1, <2>2 DEF CheckFlapping
<1> QED BY <1>2, <1>3, <1>4, <1>5, <1>6, <1>7, <1>8 DEF Continue

\* An evaluation's step and the evaluations of other monitors.
LEMMA EvidenceElsewhere ==
  ASSUME NEW S \in SUBSET Monitors, TypeInv, ApartIn(S), ParentsApartIn(S), EvidenceInv(S),
         StaysResolved, NEW e \in Evaluators, Continue(e)
  PROVE  EvidenceInv(S)'
<1> PICK m : m = job[e].monitor
  OBVIOUS
<1>0. pc[e] # "idle" /\ m \in Monitors
  BY OthersWait
<1>1. ASSUME NEW f \in Evaluators, f # e, pc'[f] # "idle", job'[f].monitor \in S
      PROVE  Evidence(f)'
  <2> PICK k : k = job[f].monitor
    OBVIOUS
  <2>1. pc'[f] = pc[f] /\ job'[f] = job[f]
    BY <1>1, OthersWait
  <2>2. k \in S /\ k # m /\ m \notin Parents[k]
    BY <1>0, <1>1, <2>1 DEF ApartIn, ParentsApartIn
  <2>3. results'[k] = results[k] /\ \A p \in Parents[k] : Active(p)' \subseteq Active(p)
    BY <2>2, OthersWait, ActiveElsewhere
  <2>4. Evidence(f)
    BY <1>1, <2>1 DEF EvidenceInv
  <2> QED BY <2>1, <2>3, <2>4, EvidenceStays
<1>2. ASSUME pc'[e] # "idle", job'[e].monitor \in S
      PROVE  Evidence(e)'
  <2>1. m \in S
    BY <1>2, OthersWait
  <2>2. Evidence(e)
    BY <1>0, <2>1 DEF EvidenceInv
  <2> QED BY <2>2, EvidenceContinue
<1> QED BY <1>1, <1>2 DEF EvidenceInv

LEMMA EvidenceNext ==
  ASSUME MaxFaults = 0, NEW S \in SUBSET Monitors, TypeInv, ApartIn(S), ParentsApartIn(S),
         EvidenceInv(S), StaysResolved, [Next]_vars
  PROVE  EvidenceInv(S)'
<1>1. ~Fault
  BY DEF Fault, TypeInv, TypeOK
<1>2. ASSUME UNCHANGED results, \A f \in Evaluators : ~Open(f),
             \A f \in Evaluators : pc'[f] # "idle" =>
               pc'[f] = "persist" \/ (pc'[f] = pc[f] /\ job'[f] = job[f])
      PROVE  EvidenceInv(S)'
  <2>1. \A k : Active(k)' \subseteq Active(k)
    BY <1>2, ActiveShrinks, NextRewrites
  <2>2. ASSUME NEW f \in Evaluators, pc'[f] # "idle", job'[f].monitor \in S
        PROVE  Evidence(f)'
    <3>1. CASE pc'[f] = "persist"
      BY <3>1 DEF Evidence
    <3>2. CASE pc'[f] = pc[f] /\ job'[f] = job[f]
      BY <1>2, <2>1, <2>2, <3>2, EvidenceStays DEF EvidenceInv
    <3> QED BY <1>2, <2>2, <3>1, <3>2
  <2> QED BY <2>2 DEF EvidenceInv
<1>3. ASSUME UNCHANGED <<results, evaluation>>
      PROVE  EvidenceInv(S)'
  <2>1. \A f \in Evaluators : ~Open(f)
    BY <1>3 DEF Open, Goto, evaluation, TypeInv, TypeOK
  <2> QED BY <1>2, <1>3, <2>1 DEF evaluation
<1>4. ASSUME NEW e \in Evaluators, Continue(e)
      PROVE  EvidenceInv(S)'
  BY <1>4, EvidenceElsewhere
<1>5. ASSUME NEW e \in Evaluators, EvaluatorFault(e)
      PROVE  EvidenceInv(S)'
  BY <1>1, <1>5 DEF EvaluatorFault, StoreError, FlappingError, ResolveHalfway, SuppressError, Crash
<1>6. CASE UserStep
  BY <1>3, <1>6 DEF UserStep, UserResolve, Acknowledge, TransitionRead, TransitionWrite
<1>7. CASE UNCHANGED vars \/ \E d \in dispatching : Notify(d) \/ NotifyError(d)
  BY <1>3, <1>7 DEF Notify, NotifyError, vars, evaluation
<1>8. ASSUME NEW e \in Evaluators, NEW m \in Monitors, StartCheck(e, m)
      PROVE  EvidenceInv(S)'
  <2>1. /\ UNCHANGED <<results, incidents>> /\ pc[e] = "idle" /\ pc'[e] = "persist"
        /\ \A f \in Evaluators : f # e => pc'[f] = pc[f] /\ job'[f] = job[f]
    BY <1>8 DEF StartCheck, RunCheck, Goto, TypeInv, TypeOK
  <2>2. \A f \in Evaluators : ~Open(f)
    BY <2>1 DEF Open, Goto, TypeInv, TypeOK
  <2> QED BY <1>2, <2>1, <2>2
<1> QED BY <1>4, <1>5, <1>6, <1>7, <1>8 DEF Next

\* What an insert finds.
LEMMA OpensOnEvidence ==
  ASSUME NEW S, TypeInv, SerialInv(S), EvidenceInv(S), [Next]_vars,
         NEW i \in DOMAIN incidents' \ DOMAIN incidents, incidents'[i].monitor \in S
  PROVE  Justified(incidents'[i].monitor)
<1>1. PICK e \in Evaluators : Open(e)
  BY NextRewrites DEF Rewritten
<1>2. pc[e] = "open"
  BY <1>1 DEF Open, Goto
<1> PICK m : m = job[e].monitor
  OBVIOUS
<1>3. incidents'[i].monitor = m
  BY <1>1, ActiveOpened
<1>4. Evidence(e) /\ Active(m) = {}
  BY <1>2, <1>3 DEF SerialInv, NoneWhileOpening, Opening, EvidenceInv
<1>5. Justified(m)
  BY <1>2, <1>4 DEF Evidence, Justified, ThresholdMet, RegionsFail
<1> QED BY <1>3, <1>5

LEMMA EvidenceInit ==
  ASSUME NEW S
  PROVE  Init => EvidenceInv(S)
BY DEF Init, EvidenceInv

\* While no store call fails, whatever evidence the rules have read one after the
\* other still stands when the incident is inserted: the threshold of consecutive
\* failures, the regional quorum, clear parents, no flapping, and no incident of
\* the monitor's own (monitoring.go:246-330), for every threshold and read limit, of
\* every monitor that is not evaluated twice at a time nor together with a parent.
THEOREM OpeningWhereApart ==
  ASSUME MaxFaults = 0, NEW S \in SUBSET Monitors
  PROVE  Spec /\ ResolvedIsFinal /\ []ApartIn(S) /\ []ParentsApartIn(S) => OpensJustifiedIn(S)
<1> DEFINE Opens ==
      \A i \in DOMAIN incidents' \ DOMAIN incidents :
        incidents'[i].monitor \in S => Justified(incidents'[i].monitor)
<1>1. TypeInv /\ ApartIn(S) /\ ParentsApartIn(S) /\ EvidenceInv(S) /\ [StaysResolved]_vars /\ [Next]_vars
      => EvidenceInv(S)'
  BY EvidenceNext, StaysAnyway
<1>2. TypeInv /\ SerialInv(S) /\ EvidenceInv(S) /\ [Next]_vars => [Opens]_vars
  BY OpensOnEvidence
<1>3. Spec /\ ResolvedIsFinal /\ []ApartIn(S) => []SerialInv(S)
  BY SerialAlways
<1> HIDE DEF Opens
<1>4. Spec /\ ResolvedIsFinal /\ []ApartIn(S) /\ []ParentsApartIn(S) => [][Opens]_vars
  BY <1>1, <1>2, <1>3, EvidenceInit, TypeAlways, NothingReopened, PTL DEF Spec
<1> QED BY <1>4 DEF Opens, OpensJustifiedIn

\* The same of every monitor, with one evaluator and users who only resolve.
THEOREM OpeningJustified ==
  OneEvaluator /\ OnlyResolve /\ MaxFaults = 0 => (Spec => OpensJustified)
<1> SUFFICES ASSUME OneEvaluator, OnlyResolve, MaxFaults = 0 PROVE Spec => OpensJustified
  OBVIOUS
<1> DEFINE Opens ==
      \A i \in DOMAIN incidents' \ DOMAIN incidents : Justified(incidents'[i].monitor)
<1>1. ParentsApartIn(Monitors)
  BY DEF OneEvaluator, ParentsApartIn
<1>2. TypeInv /\ NoRequests /\ EvidenceInv(Monitors) /\ [Next]_vars => EvidenceInv(Monitors)'
  BY <1>1, EvidenceNext, OneIsApart, ResolvedStays
<1>3. TypeInv /\ TypeInv' /\ SerialInv(Monitors) /\ EvidenceInv(Monitors) /\ [Next]_vars => [Opens]_vars
  <2> SUFFICES ASSUME TypeInv, TypeInv', SerialInv(Monitors), EvidenceInv(Monitors), [Next]_vars,
                      NEW i \in DOMAIN incidents' \ DOMAIN incidents
               PROVE  Justified(incidents'[i].monitor)
    OBVIOUS
  <2>1. incidents'[i] \in Incident
    BY ElementOfSeq DEF TypeInv, TypeOK
  <2>2. incidents'[i].monitor \in Monitors
    BY <2>1 DEF Incident
  <2> QED BY <2>2, OpensOnEvidence
<1> HIDE DEF Opens
<1>4. Spec => []SerialInv(Monitors)
  BY OneIsSerial
<1>5. Spec => []NoRequests
  BY NoRequestsAlways
<1>6. Init => EvidenceInv(Monitors)
  BY EvidenceInit
<1>7. Spec => [][Opens]_vars
  BY <1>2, <1>3, <1>4, <1>5, <1>6, TypeAlways, PTL DEF Spec
<1> QED BY <1>7 DEF Opens, OpensJustified
=============================================================================
