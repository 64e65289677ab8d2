------------------------ MODULE IncidentRulesProofs ------------------------
(***************************************************************************)
(* Proofs about IncidentRules for every number of monitors, evaluators and *)
(* users, every threshold and every interleaving.                          *)
(***************************************************************************)
EXTENDS IncidentRules, SequenceTheorems, TLAPS

USE DEF shown

(* The data: rows that are inserted, incidents that are rewritten. *)

\* Inserting a row anywhere and cutting the history keeps it a history.
LEMMA InsertedRow ==
  ASSUME NEW S, NEW s \in Seq(S), NEW e \in S,
         NEW p \in 1..(Len(s) + 1), NEW n \in Nat, n <= Len(s) + 1
  PROVE  SubSeq(InsertAt(s, p, e), 1, n) \in Seq(S)
<1> DEFINE before == SubSeq(s, 1, p - 1)
           after == SubSeq(s, p, Len(s))
<1>1. before \in Seq(S) /\ Len(before) = p - 1
  BY SubSeqProperties, ElementOfSeq
<1>2. after \in Seq(S) /\ Len(after) = Len(s) - p + 1
  BY SubSeqProperties, ElementOfSeq
<1>3. <<e>> \in Seq(S) /\ Len(<<e>>) = 1
  OBVIOUS
<1>4. before \o <<e>> \in Seq(S) /\ Len(before \o <<e>>) = p
  BY <1>1, <1>3, ConcatProperties
<1>5. InsertAt(s, p, e) \in Seq(S) /\ Len(InsertAt(s, p, e)) = Len(s) + 1
  <2>1. InsertAt(s, p, e) = (before \o <<e>>) \o after
    BY DEF InsertAt
  <2> DEFINE front == before \o <<e>>
  <2>2. Len(s) \in Nat /\ p \in Nat /\ front \in Seq(S) /\ Len(front) = p
    BY <1>4
  <2> HIDE DEF front, before, after
  <2>3. front \o after \in Seq(S) /\ Len(front \o after) = p + (Len(s) - p + 1)
    BY <1>2, <2>2, ConcatProperties
  <2>4. p + (Len(s) - p + 1) = Len(s) + 1
    BY <2>2
  <2> QED BY <2>1, <2>3, <2>4 DEF front
<1>6. \A i \in 1..n : InsertAt(s, p, e)[i] \in S
  BY <1>5, ElementOfSeq
<1> QED BY <1>6, SubSeqProperties

\* What an UPDATE by id does: no row comes or goes, no row changes its monitor
\* or its author, resolved_at is never cleared and is set with "resolved" only.
LEMMA WrittenIncident ==
  ASSUME incidents \in Seq(Incident),
         NEW i, NEW s \in IncidentStatuses, WriteStatus(i, s)
  PROVE  /\ incidents' \in Seq(Incident)
         /\ Len(incidents') = Len(incidents)
         /\ DOMAIN incidents' = DOMAIN incidents
         /\ \A j \in DOMAIN incidents :
              /\ incidents'[j].monitor = incidents[j].monitor
              /\ incidents'[j].by = incidents[j].by
              /\ incidents[j].resolvedAt => incidents'[j].resolvedAt
              /\ \/ incidents'[j] = incidents[j]
                 \/ j = i /\ incidents'[j].status = s
              /\ incidents'[j].status = "resolved" =>
                   incidents'[j].resolvedAt \/ incidents'[j] = incidents[j]
              /\ incidents'[j].resolvedAt => incidents[j].resolvedAt \/ incidents'[j].status = "resolved"
         /\ i \in DOMAIN incidents /\ s = "resolved" => incidents'[i].resolvedAt
<1> DEFINE row == [incidents[i] EXCEPT !.status = s, !.resolvedAt = @ \/ s = "resolved"]
<1>1. incidents' = [incidents EXCEPT ![i] = row]
  BY DEF WriteStatus
<1>2. DOMAIN incidents = 1..Len(incidents) /\ Len(incidents) \in Nat
  OBVIOUS
<1>3. CASE i \notin DOMAIN incidents
  <2>1. incidents' = incidents
    BY <1>1, <1>3, <1>2, LenProperties
  <2> QED BY <2>1, <1>3
<1>4. CASE i \in DOMAIN incidents
  <2>1. incidents[i] \in Incident
    BY <1>4, <1>2, ElementOfSeq
  <2>2. row \in Incident
    BY <2>1 DEF Incident
  <2>3. /\ row.monitor = incidents[i].monitor
        /\ row.by = incidents[i].by
        /\ row.status = s
        /\ row.resolvedAt = (incidents[i].resolvedAt \/ s = "resolved")
    BY <2>1 DEF Incident
  <2>4. /\ incidents' \in Seq(Incident)
        /\ Len(incidents') = Len(incidents)
        /\ \A j \in 1..Len(incidents) : incidents'[j] = IF j = i THEN row ELSE incidents[j]
    BY <1>1, <1>2, <1>4, <2>2, ExceptSeq
  <2> HIDE DEF row
  <2>5. DOMAIN incidents' = DOMAIN incidents
    BY <2>4
  <2>6. ASSUME NEW j \in DOMAIN incidents
        PROVE  /\ incidents'[j].monitor = incidents[j].monitor
               /\ incidents'[j].by = incidents[j].by
               /\ incidents[j].resolvedAt => incidents'[j].resolvedAt
               /\ \/ incidents'[j] = incidents[j]
                  \/ j = i /\ incidents'[j].status = s
               /\ incidents'[j].status = "resolved" =>
                    incidents'[j].resolvedAt \/ incidents'[j] = incidents[j]
               /\ incidents'[j].resolvedAt => incidents[j].resolvedAt \/ incidents'[j].status = "resolved"
    <3>1. CASE j = i
      BY <3>1, <2>3, <2>4, <1>2
    <3>2. CASE j # i
      BY <3>2, <2>4, <1>2
    <3> QED BY <3>1, <3>2
  <2>7. s = "resolved" => incidents'[i].resolvedAt
    BY <2>3, <2>4, <1>2, <1>4
  <2> QED BY <2>4, <2>5, <2>6, <2>7
<1> QED BY <1>3, <1>4

------------------------------------------------------------------------------
(* Types.  TypeOK is not inductive alone: an evaluation that dispatches a   *)
(* notice must hold the number of an incident, not None.                    *)

\* Evaluations that are past finding or opening an incident hold a real one.
Held ==
  \A e \in Evaluators :
    \/ pc[e] \in {"resolve", "recovered", "bump", "opened"}
    \/ pc[e] = "count" /\ job[e].incident # None
    => job[e].incident \in DOMAIN incidents

TypeInv == TypeOK /\ Held

\* GetOpenIncident returns None or an active incident of the monitor, and None
\* only if there is none.
LEMMA OpenIncident ==
  ASSUME incidents \in Seq(Incident), NEW m, NEW open \in GetOpenIncident(m)
  PROVE  /\ open = None => Active(m) = {}
         /\ open # None => open \in Active(m)
<1>1. None \notin Active(m)
  BY NoneAssumption DEF Active
<1> QED BY <1>1 DEF GetOpenIncident

LEMMA TypeInit == Init => TypeInv
BY DEF Init, TypeInv, TypeOK, Held, Labels

\* An UPDATE of an incident that leaves the evaluations alone.
LEMMA TypeWritten ==
  ASSUME TypeInv, NEW i, NEW s \in IncidentStatuses, WriteStatus(i, s)
  PROVE  incidents' \in Seq(Incident) /\ DOMAIN incidents' = DOMAIN incidents
BY WrittenIncident DEF TypeInv, TypeOK

\* The steps of an evaluation keep the types.
LEMMA TypeContinue ==
  ASSUME TypeInv, NEW e \in Evaluators, Continue(e)
  PROVE  TypeInv'
<1> USE DEF TypeInv
<1>0. job[e].monitor \in Monitors /\ job[e] \in Job
  BY DEF Continue, Persist, SetStatus, Lookup, Resolve, Recovered, Count, Bump, Dependency,
         Quorum, CheckFlapping, Suppress, Open, Opened, Goto, Finish, TypeOK, Job
<1>1. CASE Persist(e)
  <2> DEFINE m == job[e].monitor
             row == [success |-> Successful(job[e].outcome), region |-> job[e].region]
  <2>1. row \in Row
    BY <1>0, InputAssumption DEF Row, Job, Successful, AllOutcomes
  <2>2. PICK p \in 1..(Len(results[m]) + 1) :
          results' = [results EXCEPT ![m] =
            SubSeq(InsertAt(results[m], p, row), 1, AtMost(Len(results[m]) + 1, HistoryCap))]
    BY <1>1 DEF Persist
  <2> DEFINE n == AtMost(Len(results[m]) + 1, HistoryCap)
  <2>3. results[m] \in Seq(Row)
    BY <1>0 DEF TypeOK
  <2>4. n \in Nat /\ n <= Len(results[m]) + 1
    BY <2>3, RuleAssumption DEF AtMost
  <2> HIDE DEF row, n
  <2>5. SubSeq(InsertAt(results[m], p, row), 1, n) \in Seq(Row)
    BY <2>1, <2>3, <2>4, InsertedRow
  <2>6. results' \in [Monitors -> Seq(Row)]
    BY <2>2, <2>5, <1>0 DEF TypeOK, n, row
  <2> QED BY <1>1, <2>6 DEF Persist, Goto, TypeOK, Held, Labels, notices
<1>2. CASE SetStatus(e)
  <2>1. job[e].outcome \in AllOutcomes /\ ShownStatus(job[e].outcome) \in Statuses
    BY <1>0, InputAssumption DEF Job, AllOutcomes, ShownStatus, Statuses
  <2> QED BY <1>0, <1>2, <2>1 DEF SetStatus, Goto, TypeOK, Held, Labels, notices
<1>3. CASE Lookup(e)
  <2>1. PICK open \in GetOpenIncident(job[e].monitor) :
          \/ /\ open # None
             /\ Goto(e, "lookup", "resolve")
             /\ job' = [job EXCEPT ![e].incident = open]
          \/ /\ Goto(e, "lookup", "count")
             /\ job' = [job EXCEPT ![e].incident = open]
          \/ Finish(e, "lookup")
    BY <1>3 DEF Lookup
  <2>2. open # None => open \in DOMAIN incidents /\ open \in Nat
    BY OpenIncident DEF TypeOK, Active
  <2>3. /\ [job[e] EXCEPT !.incident = open] \in Job
        /\ [job[e] EXCEPT !.incident = open].incident = open
    BY <1>0, <2>2 DEF Job
  <2>4. CASE open # None /\ Goto(e, "lookup", "resolve") /\ job' = [job EXCEPT ![e].incident = open]
    BY <1>0, <1>3, <2>2, <2>3, <2>4 DEF Lookup, Goto, TypeOK, Held, Labels, notices, Job
  <2>5. CASE Goto(e, "lookup", "count") /\ job' = [job EXCEPT ![e].incident = open]
    BY <1>0, <1>3, <2>2, <2>3, <2>5 DEF Lookup, Goto, TypeOK, Held, Labels, notices
  <2>6. CASE Finish(e, "lookup")
    BY <1>3, <2>6 DEF Lookup, Finish, Goto, TypeOK, Held, Labels, notices
  <2> QED BY <2>1, <2>4, <2>5, <2>6
<1>4. CASE Resolve(e)
  <2>1. incidents' \in Seq(Incident) /\ DOMAIN incidents' = DOMAIN incidents
    BY <1>4, TypeWritten DEF Resolve, IncidentStatuses
  <2> QED BY <1>4, <2>1 DEF Resolve, Goto, TypeOK, Held, Labels, notices
<1>5. ASSUME NEW type \in {"opened", "resolved"}, Dispatch(e, type),
             pc[e] \in {"recovered", "opened"}
      PROVE  dispatching' \subseteq [event : Event, by : Evaluators]
  <2>1. job[e].incident \in Nat
    BY <1>5 DEF Held, TypeOK
  <2>2. \A p \in Paths :
          [event |-> [incident |-> job[e].incident, type |-> type, path |-> p], by |-> e]
            \in [event : Event, by : Evaluators]
    BY <2>1, InputAssumption DEF Event
  <2> QED BY <1>5, <2>2 DEF Dispatch, TypeOK
<1>6. CASE Recovered(e)
  <2>1. dispatching' \subseteq [event : Event, by : Evaluators]
    BY <1>5, <1>6 DEF Recovered, Finish, Goto
  <2> QED BY <1>6, <2>1 DEF Recovered, Finish, Goto, TypeOK, Held, Labels
<1>7. CASE Opened(e)
  <2>1. dispatching' \subseteq [event : Event, by : Evaluators]
    BY <1>5, <1>7 DEF Opened, Finish, Goto
  <2> QED BY <1>7, <2>1 DEF Opened, Finish, Goto, TypeOK, Held, Labels
<1>8. CASE Count(e)
  <2> USE DEF Count, Goto, Finish, TypeOK, Held, Labels, notices
  <2>1. CASE job[e].incident # None /\ Goto(e, "count", "bump") /\ UNCHANGED job
    BY <1>0, <1>8, <2>1
  <2>2. CASE Finish(e, "count")
    BY <1>8, <2>2
  <2>3. CASE Goto(e, "count", "dependency")
             /\ job' = [job EXCEPT ![e].parents = Parents[job[e].monitor]]
    <3>1. [job[e] EXCEPT !.parents = Parents[job[e].monitor]] \in Job
      BY <1>0, ParentsAssumption DEF Job
    <3> QED BY <1>0, <1>8, <2>3, <3>1
  <2> QED BY <1>8, <2>1, <2>2, <2>3
<1>9. CASE Bump(e)
  BY <1>9 DEF Bump, Finish, Goto, TypeOK, Held, Labels, notices
<1>10. CASE Dependency(e)
  <2>1. \A p : [job[e] EXCEPT !.parents = @ \ {p}] \in Job
    BY <1>0 DEF Job
  <2> USE DEF Goto, TypeOK, Held, Labels, notices
  <2>2. CASE Goto(e, "dependency", "quorum") /\ UNCHANGED job
    BY <1>10, <2>2 DEF Dependency
  <2>3. ASSUME NEW p, NEW to \in {"dependency", "suppress"}, Goto(e, "dependency", to),
               job' = [job EXCEPT ![e].parents = @ \ {p}]
        PROVE  TypeInv'
    BY <1>0, <1>10, <2>1, <2>3 DEF Dependency
  <2> QED BY <1>10, <2>2, <2>3 DEF Dependency
<1>11. CASE Quorum(e)
  BY <1>0, <1>11 DEF Quorum, Goto, TypeOK, Held, Labels, notices
<1>12. CASE CheckFlapping(e)
  BY <1>0, <1>12 DEF CheckFlapping, Goto, TypeOK, Held, Labels, notices
<1>13. CASE Suppress(e)
  BY <1>0, <1>13 DEF Suppress, Finish, Goto, TypeOK, Held, Labels, notices, Statuses
<1>14. CASE Open(e)
  <2> DEFINE row == [monitor |-> job[e].monitor, status |-> "open", resolvedAt |-> FALSE, by |-> e]
             i == Len(incidents) + 1
  <2>1. row \in Incident
    BY <1>0 DEF Incident, IncidentStatuses, ActiveStatuses
  <2>2. /\ Len(incidents) \in Nat
        /\ incidents' \in Seq(Incident)
        /\ Len(incidents') = i
    BY <1>14, <2>1, AppendProperties DEF Open, TypeOK
  <2>3. DOMAIN incidents \subseteq DOMAIN incidents' /\ i \in DOMAIN incidents'
    BY <2>2 DEF TypeOK
  <2>4. [job[e] EXCEPT !.incident = i] \in Job
    BY <1>0, <2>2 DEF Job
  <2> QED
    BY <1>0, <1>14, <2>2, <2>3, <2>4 DEF Open, Goto, TypeOK, Held, Labels, notices, Job
<1> QED
  BY <1>1, <1>2, <1>3, <1>4, <1>6, <1>7, <1>8, <1>9, <1>10, <1>11, <1>12, <1>13, <1>14
  DEF Continue

\* Failures forget what an evaluation held; ResolveHalfway writes first.
LEMMA TypeFault ==
  ASSUME TypeInv, NEW e \in Evaluators, EvaluatorFault(e)
  PROVE  TypeInv'
<1> USE DEF TypeInv, TypeOK, Held, Labels
<1>1. CASE StoreError(e)
  BY <1>1 DEF StoreError, Fault, notices
<1>2. CASE FlappingError(e)
  BY <1>2 DEF FlappingError, Fault, Goto, notices
<1>3. CASE ResolveHalfway(e)
  <2>1. incidents' \in Seq(Incident) /\ DOMAIN incidents' = DOMAIN incidents
    BY <1>3, TypeWritten DEF ResolveHalfway, IncidentStatuses
  <2> QED BY <1>3, <2>1 DEF ResolveHalfway, Fault, Finish, Goto, notices
<1>4. CASE SuppressError(e)
  BY <1>4 DEF SuppressError, Fault, Finish, Goto, notices
<1>5. CASE Crash(e)
  BY <1>5 DEF Crash, Fault
<1> QED BY <1>1, <1>2, <1>3, <1>4, <1>5 DEF EvaluatorFault

LEMMA TypeStart ==
  ASSUME TypeInv, NEW e \in Evaluators, NEW m \in Monitors, StartCheck(e, m)
  PROVE  TypeInv'
<1>1. PICK outcome \in Outcomes, region \in Regions, suppressed \in BOOLEAN :
        RunCheck(e, m, outcome, region, suppressed)
  BY DEF StartCheck
<1>2. [monitor |-> m, outcome |-> outcome, region |-> region, suppressed |-> suppressed,
       parents |-> {}, incident |-> None] \in Job
  BY DEF Job
<1> QED BY <1>1, <1>2 DEF RunCheck, Goto, TypeInv, TypeOK, Held, Labels, notices

LEMMA TypeNotice ==
  ASSUME TypeInv, NEW d \in dispatching, Notify(d) \/ NotifyError(d)
  PROVE  TypeInv'
BY DEF Notify, NotifyError, Fault, TypeInv, TypeOK, Held, evaluation

LEMMA TypeUser ==
  ASSUME TypeInv, UserStep
  PROVE  TypeInv'
<1> USE DEF TypeInv, TypeOK, Held, evaluation, notices
<1>1. ASSUME NEW i \in DOMAIN incidents, UserResolve(i) \/ Acknowledge(i)
      PROVE  TypeInv'
  <2>1. incidents' \in Seq(Incident) /\ DOMAIN incidents' = DOMAIN incidents
    BY <1>1, TypeWritten DEF UserResolve, Acknowledge, IncidentStatuses, ActiveStatuses
  <2> QED BY <1>1, <2>1 DEF UserResolve, Acknowledge
<1>2. ASSUME NEW u \in Users, NEW i \in DOMAIN incidents, NEW to \in Targets,
             TransitionRead(u, i, to)
      PROVE  TypeInv'
  BY <1>2, InputAssumption DEF TransitionRead
<1>3. ASSUME NEW u \in Users, TransitionWrite(u)
      PROVE  TypeInv'
  <2>1. request[u].to \in IncidentStatuses
    BY <1>3 DEF TransitionWrite
  <2>2. incidents' \in Seq(Incident) /\ DOMAIN incidents' = DOMAIN incidents
    BY <1>3, <2>1, TypeWritten DEF TransitionWrite
  <2> QED BY <1>3, <2>2 DEF TransitionWrite
<1> QED BY <1>1, <1>2, <1>3 DEF UserStep

LEMMA TypeNext == TypeInv /\ [Next]_vars => TypeInv'
<1> SUFFICES ASSUME TypeInv, [Next]_vars PROVE TypeInv'
  OBVIOUS
<1>1. CASE UNCHANGED vars
  BY <1>1 DEF TypeInv, TypeOK, Held, vars
<1> QED
  BY <1>1, TypeContinue, TypeFault, TypeStart, TypeNotice, TypeUser DEF Next

LEMMA TypeAlways == Spec => []TypeInv
BY TypeInit, TypeNext, PTL DEF Spec

\* Every variable keeps its type, whatever interleaves, fails or crashes.
THEOREM TypeCorrect == Spec => []TypeOK
<1>1. TypeInv => TypeOK
  BY DEF TypeInv
<1> QED BY <1>1, TypeAlways, PTL

------------------------------------------------------------------------------
(* One live incident per evaluator.  The argument: between a lookup that   *)
(* found nothing and the insert it leads to, nobody but the evaluator can  *)
(* add an incident under its name, and no step brings an incident of its   *)
(* back to life, because resolved_at is never cleared.                     *)

\* An incident that is resolved has resolved_at.
Marked == \A i \in DOMAIN incidents : incidents[i].status = "resolved" => incidents[i].resolvedAt

\* Evaluations on their way from a lookup that found nothing to an insert.
Opening(e) ==
  \/ pc[e] = "count" /\ job[e].incident = None
  \/ pc[e] \in {"dependency", "quorum", "flapping", "open"}

NoneOfItsOwn ==
  \A e \in Evaluators : Opening(e) => \A i \in Live(job[e].monitor) : incidents[i].by # e

OneLiveInv == Marked /\ NoneOfItsOwn /\ OneLivePerEvaluator

\* What every step but an insert does to the incidents.
Rewritten ==
  /\ DOMAIN incidents' = DOMAIN incidents
  /\ \A j \in DOMAIN incidents :
       /\ incidents'[j].monitor = incidents[j].monitor
       /\ incidents'[j].by = incidents[j].by
       /\ incidents[j].resolvedAt => incidents'[j].resolvedAt
       /\ incidents'[j].status = "resolved" =>
            incidents'[j].resolvedAt \/ incidents'[j] = incidents[j]
       /\ incidents'[j].resolvedAt => incidents[j].resolvedAt \/ incidents'[j].status = "resolved"

\* What every step but an insert does to the evaluations: one that is opening
\* was so before, about the same monitor, or has just found no incident.
OpeningKept ==
  \A e \in Evaluators : Opening(e)' =>
    /\ job'[e].monitor = job[e].monitor
    /\ Opening(e) \/ Active(job[e].monitor) = {}

LEMMA RewrittenByUpdate ==
  ASSUME TypeInv, NEW i, NEW s \in IncidentStatuses, WriteStatus(i, s)
  PROVE  Rewritten
BY WrittenIncident DEF TypeInv, TypeOK, Rewritten

LEMMA RewrittenByNothing == UNCHANGED incidents => Rewritten
BY DEF Rewritten

\* The live incidents only become fewer.
LEMMA LiveShrinks ==
  ASSUME TypeInv, Marked, Rewritten, NEW m
  PROVE  Live(m)' \subseteq Live(m)
<1> SUFFICES ASSUME NEW i \in Live(m)' PROVE i \in Live(m)
  OBVIOUS
<1>1. /\ i \in DOMAIN incidents
      /\ incidents[i].monitor = m
      /\ ~incidents[i].resolvedAt
  BY DEF Live, Active, Rewritten
<1>2. incidents[i] \in Incident
  BY <1>1, ElementOfSeq DEF TypeInv, TypeOK
<1>3. incidents[i].status \in ActiveStatuses
  BY <1>1, <1>2 DEF Marked, Incident, IncidentStatuses
<1> QED BY <1>1, <1>3 DEF Live, Active

LEMMA OneLiveKept ==
  ASSUME TypeInv, OneLiveInv, Rewritten, OpeningKept
  PROVE  OneLiveInv'
<1>1. Marked'
  BY DEF OneLiveInv, Marked, Rewritten
<1>2. \A m : \A i \in Live(m)' : i \in Live(m) /\ incidents'[i].by = incidents[i].by
  BY LiveShrinks DEF OneLiveInv, Live, Active, Rewritten
<1>3. OneLivePerEvaluator'
  BY <1>2 DEF OneLiveInv, OneLivePerEvaluator
<1>4. ASSUME NEW e \in Evaluators, Opening(e)', NEW m, m = job'[e].monitor, NEW i \in Live(m)'
      PROVE  incidents'[i].by # e
  <2>1. m = job[e].monitor /\ i \in Live(m) /\ incidents'[i].by = incidents[i].by
    BY <1>2, <1>4 DEF OpeningKept
  <2>2. CASE Opening(e)
    BY <2>1, <2>2 DEF OneLiveInv, NoneOfItsOwn
  <2>3. CASE Active(job[e].monitor) = {}
    BY <2>1, <2>3 DEF Live
  <2> QED BY <1>4, <2>2, <2>3 DEF OpeningKept
<1>5. NoneOfItsOwn'
  BY <1>4 DEF NoneOfItsOwn
<1> QED BY <1>1, <1>3, <1>5 DEF OneLiveInv

\* The insert: it adds one live incident, where its author has none.
LEMMA OneLiveOpened ==
  ASSUME TypeInv, TypeInv', OneLiveInv, NEW e \in Evaluators, Open(e)
  PROVE  OneLiveInv'
<1> DEFINE row == [monitor |-> job[e].monitor, status |-> "open", resolvedAt |-> FALSE, by |-> e]
           n == Len(incidents)
<1>1. pc[e] = "open" /\ job[e] \in Job
  BY DEF Open, Goto, TypeInv, TypeOK
<1>2. row \in Incident
  BY <1>1 DEF Incident, Job, IncidentStatuses, ActiveStatuses
<1>3. /\ DOMAIN incidents = 1..n /\ n \in Nat
      /\ DOMAIN incidents' = 1..(n + 1)
      /\ \A i \in 1..n : incidents'[i] = incidents[i]
      /\ incidents'[n + 1] = row
  BY <1>2, AppendProperties DEF Open, TypeInv, TypeOK
<1>4. /\ row.status = "open" /\ row.by = e /\ row.monitor = job[e].monitor
      /\ row.resolvedAt = FALSE
  OBVIOUS
<1>5. \A m : Live(m)' = Live(m) \union (IF m = job[e].monitor THEN {n + 1} ELSE {})
  BY <1>3, <1>4 DEF Live, Active, ActiveStatuses
<1> HIDE DEF row
<1>6. Marked'
  BY <1>3, <1>4 DEF OneLiveInv, Marked
<1>7. \A i \in Live(job[e].monitor) : incidents[i].by # e
  BY <1>1 DEF OneLiveInv, NoneOfItsOwn, Opening
<1>8. \A m : Live(m) \subseteq 1..n
  BY <1>3 DEF Live, Active
<1>9. ASSUME NEW m \in Monitors, NEW i \in Live(m)', NEW j \in Live(m)',
             incidents'[i].by = incidents'[j].by
      PROVE  i = j
  <2>1. CASE i \in 1..n /\ j \in 1..n
    <3>1. i \in Live(m) /\ j \in Live(m)
      BY <1>3, <1>5, <1>9, <2>1
    <3> QED BY <1>3, <1>9, <2>1, <3>1 DEF OneLiveInv, OneLivePerEvaluator
  <2>2. CASE i = n + 1 /\ j \in 1..n
    <3>1. m = job[e].monitor /\ j \in Live(m)
      BY <1>3, <1>5, <1>8, <1>9, <2>2
    <3> QED BY <1>3, <1>4, <1>7, <1>9, <2>2, <3>1
  <2>3. CASE j = n + 1 /\ i \in 1..n
    <3>1. m = job[e].monitor /\ i \in Live(m)
      BY <1>3, <1>5, <1>8, <1>9, <2>3
    <3> QED BY <1>3, <1>4, <1>7, <1>9, <2>3, <3>1
  <2> QED BY <1>3, <1>5, <1>8, <1>9, <2>1, <2>2, <2>3
<1>10. OneLivePerEvaluator'
  BY <1>9 DEF OneLivePerEvaluator
<1>11. ASSUME NEW f \in Evaluators, Opening(f)', NEW m, m = job'[f].monitor, NEW i \in Live(m)'
       PROVE  incidents'[i].by # f
  <2>1. f # e
    BY <1>11 DEF Open, Goto, Opening, TypeInv, TypeOK
  <2>2. Opening(f) /\ job'[f] = job[f]
    BY <1>11, <2>1 DEF Open, Goto, Opening, TypeInv, TypeOK
  <2>3. CASE i = n + 1
    BY <1>3, <1>4, <2>1, <2>3
  <2>4. CASE i \in Live(m)
    BY <1>3, <1>8, <1>11, <2>2, <2>4 DEF OneLiveInv, NoneOfItsOwn
  <2> QED BY <1>5, <1>11, <2>2, <2>3, <2>4
<1>12. NoneOfItsOwn'
  BY <1>11 DEF NoneOfItsOwn
<1> QED BY <1>6, <1>10, <1>12 DEF OneLiveInv

\* The steps of an evaluation other than the insert.
LEMMA ContinueRewrites ==
  ASSUME TypeInv, NEW e \in Evaluators, Continue(e), ~Open(e)
  PROVE  Rewritten /\ OpeningKept
<1> USE DEF OpeningKept, Opening, TypeInv, TypeOK
<1>1. CASE Persist(e)
  BY <1>1, RewrittenByNothing DEF Persist, Goto
<1>2. CASE SetStatus(e)
  BY <1>2, RewrittenByNothing DEF SetStatus, Goto
<1>3. CASE Lookup(e)
  <2>1. PICK open \in GetOpenIncident(job[e].monitor) :
          \/ /\ Goto(e, "lookup", "resolve")
             /\ job' = [job EXCEPT ![e].incident = open]
          \/ /\ Goto(e, "lookup", "count")
             /\ job' = [job EXCEPT ![e].incident = open]
          \/ Finish(e, "lookup")
    BY <1>3 DEF Lookup
  <2>2. job[e] \in Job
    BY <1>3 DEF Lookup
  <2>3. /\ [job[e] EXCEPT !.incident = open].incident = open
        /\ [job[e] EXCEPT !.incident = open].monitor = job[e].monitor
    BY <2>2 DEF Job
  <2>4. open = None => Active(job[e].monitor) = {}
    BY OpenIncident
  <2>5. CASE Finish(e, "lookup")
    BY <1>3, <2>5, RewrittenByNothing DEF Lookup, Finish, Goto
  <2>6. CASE Goto(e, "lookup", "resolve") /\ job' = [job EXCEPT ![e].incident = open]
    BY <1>3, <2>6, RewrittenByNothing DEF Lookup, Goto
  <2>7. CASE Goto(e, "lookup", "count") /\ job' = [job EXCEPT ![e].incident = open]
    BY <1>3, <2>3, <2>4, <2>7, RewrittenByNothing DEF Lookup, Goto
  <2> QED BY <2>1, <2>5, <2>6, <2>7
<1>4. CASE Resolve(e)
  BY <1>4, RewrittenByUpdate DEF Resolve, Goto, IncidentStatuses
<1>5. CASE Recovered(e)
  BY <1>5, RewrittenByNothing DEF Recovered, Finish, Goto
<1>6. CASE Count(e)
  <2>1. job[e] \in Job
    BY <1>6 DEF Count
  <2>2. CASE Goto(e, "count", "bump") /\ UNCHANGED job
    BY <1>6, <2>2, RewrittenByNothing DEF Count, Goto
  <2>3. CASE Finish(e, "count")
    BY <1>6, <2>3, RewrittenByNothing DEF Count, Finish, Goto
  <2>4. CASE /\ job[e].incident = None
             /\ Goto(e, "count", "dependency")
             /\ job' = [job EXCEPT ![e].parents = Parents[job[e].monitor]]
    <3>1. [job[e] EXCEPT !.parents = Parents[job[e].monitor]].monitor = job[e].monitor
      BY <2>1 DEF Job
    <3> QED BY <1>6, <2>4, <3>1, RewrittenByNothing DEF Count, Goto
  <2> QED BY <1>6, <2>2, <2>3, <2>4 DEF Count
<1>7. CASE Bump(e)
  BY <1>7, RewrittenByNothing DEF Bump, Finish, Goto
<1>8. CASE Dependency(e)
  <2>1. job[e] \in Job
    BY <1>8 DEF Dependency, Goto
  <2>2. CASE Goto(e, "dependency", "quorum") /\ UNCHANGED job
    BY <1>8, <2>2, RewrittenByNothing DEF Dependency, Goto
  <2>3. ASSUME NEW p, NEW to, Goto(e, "dependency", to),
               job' = [job EXCEPT ![e].parents = @ \ {p}]
        PROVE  Rewritten /\ OpeningKept
    <3>1. [job[e] EXCEPT !.parents = @ \ {p}].monitor = job[e].monitor
      BY <2>1 DEF Job
    <3> QED BY <1>8, <2>3, <3>1, RewrittenByNothing DEF Dependency, Goto
  <2> QED BY <1>8, <2>2, <2>3 DEF Dependency
<1>9. CASE Quorum(e)
  BY <1>9, RewrittenByNothing DEF Quorum, Goto
<1>10. CASE CheckFlapping(e)
  BY <1>10, RewrittenByNothing DEF CheckFlapping, Goto
<1>11. CASE Suppress(e)
  BY <1>11, RewrittenByNothing DEF Suppress, Finish, Goto
<1>12. CASE Opened(e)
  BY <1>12, RewrittenByNothing DEF Opened, Finish, Goto
<1> QED
  BY <1>1, <1>2, <1>3, <1>4, <1>5, <1>6, <1>7, <1>8, <1>9, <1>10, <1>11, <1>12 DEF Continue

LEMMA FaultRewrites ==
  ASSUME TypeInv, NEW e \in Evaluators, EvaluatorFault(e)
  PROVE  Rewritten /\ OpeningKept
<1> USE DEF OpeningKept, Opening, TypeInv, TypeOK
<1>1. CASE StoreError(e)
  BY <1>1, RewrittenByNothing DEF StoreError
<1>2. CASE FlappingError(e)
  BY <1>2, RewrittenByNothing DEF FlappingError, Goto
<1>3. CASE ResolveHalfway(e)
  BY <1>3, RewrittenByUpdate DEF ResolveHalfway, Finish, Goto, IncidentStatuses
<1>4. CASE SuppressError(e)
  BY <1>4, RewrittenByNothing DEF SuppressError, Finish, Goto
<1>5. CASE Crash(e)
  BY <1>5, RewrittenByNothing DEF Crash
<1> QED BY <1>1, <1>2, <1>3, <1>4, <1>5 DEF EvaluatorFault

LEMMA StartRewrites ==
  ASSUME TypeInv, NEW e \in Evaluators, NEW m \in Monitors, StartCheck(e, m)
  PROVE  Rewritten /\ OpeningKept
BY RewrittenByNothing DEF StartCheck, RunCheck, Goto, OpeningKept, Opening, TypeInv, TypeOK

\* Users only write through UPDATEs by id.
LEMMA UserRewrites ==
  ASSUME TypeInv, UserStep
  PROVE  Rewritten /\ OpeningKept
<1> USE DEF OpeningKept, Opening, evaluation
<1>1. ASSUME NEW i \in DOMAIN incidents, UserResolve(i) \/ Acknowledge(i)
      PROVE  Rewritten /\ OpeningKept
  BY <1>1, RewrittenByUpdate DEF UserResolve, Acknowledge, IncidentStatuses, ActiveStatuses
<1>2. ASSUME NEW u \in Users, NEW i, NEW to, TransitionRead(u, i, to)
      PROVE  Rewritten /\ OpeningKept
  BY <1>2, RewrittenByNothing DEF TransitionRead
<1>3. ASSUME NEW u \in Users, TransitionWrite(u)
      PROVE  Rewritten /\ OpeningKept
  <2>1. request[u].to \in IncidentStatuses
    BY <1>3 DEF TransitionWrite, TypeInv, TypeOK
  <2> QED BY <1>3, <2>1, RewrittenByUpdate DEF TransitionWrite
<1> QED BY <1>1, <1>2, <1>3 DEF UserStep

LEMMA OneLiveInit == Init => OneLiveInv
BY DEF Init, OneLiveInv, Marked, NoneOfItsOwn, OneLivePerEvaluator, Opening, Live, Active

LEMMA OneLiveNext == TypeInv /\ TypeInv' /\ OneLiveInv /\ [Next]_vars => OneLiveInv'
<1> SUFFICES ASSUME TypeInv, TypeInv', OneLiveInv, [Next]_vars PROVE OneLiveInv'
  OBVIOUS
<1>1. CASE \E e \in Evaluators : Open(e)
  BY <1>1, OneLiveOpened
<1>2. CASE ~\E e \in Evaluators : Open(e)
  <2>1. CASE UNCHANGED vars
    BY <2>1, OneLiveKept, RewrittenByNothing DEF vars, OpeningKept, Opening
  <2>2. CASE \E d \in dispatching : Notify(d) \/ NotifyError(d)
    BY <2>2, OneLiveKept, RewrittenByNothing
    DEF Notify, NotifyError, evaluation, OpeningKept, Opening
  <2>3. CASE UserStep
    BY <2>3, UserRewrites, OneLiveKept
  <2>4. ASSUME NEW e \in Evaluators, Continue(e) \/ EvaluatorFault(e) \/
                 \E m \in Monitors : StartCheck(e, m)
        PROVE  OneLiveInv'
    BY <1>2, <2>4, ContinueRewrites, FaultRewrites, StartRewrites, OneLiveKept
  <2> QED BY <2>1, <2>2, <2>3, <2>4 DEF Next
<1> QED BY <1>1, <1>2

LEMMA OneLiveAlways == Spec => []OneLiveInv
<1>1. TypeInv /\ TypeInv' /\ OneLiveInv /\ [Next]_vars => OneLiveInv'
  BY OneLiveNext
<1> QED BY <1>1, TypeAlways, OneLiveInit, PTL DEF Spec

\* However evaluators, users, crashes and failing calls interleave, no
\* evaluator has two unresolved incidents of one monitor to its name.
THEOREM OneLive == Spec => []OneLivePerEvaluator
<1>1. OneLiveInv => OneLivePerEvaluator
  BY DEF OneLiveInv
<1> QED BY <1>1, OneLiveAlways, PTL

------------------------------------------------------------------------------
(* Notices.  A "resolved" notice is started by an evaluation that has set  *)
(* resolved_at itself, and no step clears it.                              *)

Told == notified \union {d.event : d \in dispatching}

TrueOf(ev) ==
  /\ ev.incident \in DOMAIN incidents
  /\ ev.type = "resolved" => incidents[ev.incident].resolvedAt

RecoveredResolved ==
  \A e \in Evaluators : pc[e] = "recovered" => incidents[job[e].incident].resolvedAt

NoticeInv == (\A ev \in Told : TrueOf(ev)) /\ RecoveredResolved

\* What every step does to the incidents.
Grown ==
  /\ DOMAIN incidents \subseteq DOMAIN incidents'
  /\ \A j \in DOMAIN incidents : incidents[j].resolvedAt => incidents'[j].resolvedAt

LEMMA EverythingGrows == TypeInv /\ [Next]_vars => Grown
<1> SUFFICES ASSUME TypeInv, [Next]_vars PROVE Grown
  OBVIOUS
<1>1. Rewritten => Grown
  BY DEF Rewritten, Grown
<1>2. ASSUME NEW e \in Evaluators, Open(e)
      PROVE  Grown
  <2>1. job[e].monitor \in Monitors
    BY <1>2 DEF Open, Goto, TypeInv, TypeOK, Job
  <2>2. [monitor |-> job[e].monitor, status |-> "open", resolvedAt |-> FALSE, by |-> e]
          \in Incident
    BY <2>1 DEF Incident, IncidentStatuses, ActiveStatuses
  <2> QED BY <1>2, <2>2, AppendProperties DEF Open, Grown, TypeInv, TypeOK
<1>3. CASE UNCHANGED vars
  BY <1>3, <1>1, RewrittenByNothing DEF vars
<1>4. CASE \E d \in dispatching : Notify(d) \/ NotifyError(d)
  BY <1>4, <1>1, RewrittenByNothing DEF Notify, NotifyError
<1>5. CASE UserStep
  BY <1>1, <1>5, UserRewrites
<1>6. ASSUME NEW e \in Evaluators, Continue(e) \/ EvaluatorFault(e) \/
               \E m \in Monitors : StartCheck(e, m)
      PROVE  Grown
  BY <1>1, <1>2, <1>6, ContinueRewrites, FaultRewrites, StartRewrites
<1> QED BY <1>3, <1>4, <1>5, <1>6 DEF Next

\* What a step does to the notices and to the evaluations that recovered.
NothingTold ==
  /\ Told' \subseteq Told
  /\ \A e \in Evaluators : pc'[e] = "recovered" => pc[e] = "recovered" /\ job'[e] = job[e]

LEMMA NothingNew ==
  ASSUME TypeInv, NoticeInv, Grown, NothingTold
  PROVE  NoticeInv'
<1>1. \A ev \in Told' : TrueOf(ev)'
  BY DEF NoticeInv, NothingTold, Grown, TrueOf
<1>2. RecoveredResolved'
  BY DEF NoticeInv, NothingTold, Grown, RecoveredResolved, TypeInv, Held
<1> QED BY <1>1, <1>2 DEF NoticeInv

\* Dispatching tells of the incident the evaluation holds.
LEMMA Dispatched ==
  ASSUME TypeInv, NoticeInv, NEW e \in Evaluators, NEW type \in {"opened", "resolved"},
         Dispatch(e, type), pc[e] \in {"recovered", "opened"},
         type = "resolved" => pc[e] = "recovered",
         UNCHANGED <<incidents, notified>>,
         \A f \in Evaluators : pc'[f] = "recovered" => pc[f] = "recovered" /\ job'[f] = job[f]
  PROVE  NoticeInv'
<1> DEFINE note(p) == [event |-> [incident |-> job[e].incident, type |-> type, path |-> p], by |-> e]
<1>1. \A p : TrueOf(note(p).event)
  BY DEF TrueOf, NoticeInv, RecoveredResolved, TypeInv, Held
<1>2. Told' \subseteq Told \union {note(p).event : p \in Paths}
  BY DEF Told, Dispatch
<1>3. \A ev \in Told' : TrueOf(ev)
  BY <1>1, <1>2 DEF NoticeInv
<1> QED BY <1>3 DEF NoticeInv, RecoveredResolved, TrueOf

LEMMA NoticeResolve ==
  ASSUME TypeInv, NoticeInv, Grown, NEW e \in Evaluators, Resolve(e)
  PROVE  NoticeInv'
<1>1. \A ev \in Told' : TrueOf(ev)'
  BY DEF Resolve, notices, Told, NoticeInv, Grown, TrueOf
<1>2. incidents'[job[e].incident].resolvedAt
  BY WrittenIncident DEF Resolve, Goto, TypeInv, TypeOK, Held, IncidentStatuses
<1>3. ASSUME NEW f \in Evaluators, pc'[f] = "recovered"
      PROVE  incidents'[job'[f].incident].resolvedAt
  <2>1. CASE f = e
    BY <1>2, <2>1 DEF Resolve
  <2>2. CASE f # e
    BY <1>3, <2>2 DEF Resolve, Goto, NoticeInv, RecoveredResolved, Grown, TypeInv, TypeOK, Held
  <2> QED BY <2>1, <2>2
<1> QED BY <1>1, <1>3 DEF NoticeInv, RecoveredResolved

LEMMA NoticeContinue ==
  ASSUME TypeInv, NoticeInv, Grown, NEW e \in Evaluators, Continue(e)
  PROVE  NoticeInv'
<1> USE DEF NothingTold, TypeInv, TypeOK
<1>1. CASE Recovered(e)
  BY <1>1, Dispatched DEF Recovered, Finish, Goto
<1>2. CASE Opened(e)
  BY <1>2, Dispatched DEF Opened, Finish, Goto
<1>3. CASE Resolve(e)
  BY <1>3, NoticeResolve
<1>4. ASSUME NEW to \in Labels \ {"recovered"}, pc' = [pc EXCEPT ![e] = to],
             \A f \in Evaluators \ {e} : job'[f] = job[f], UNCHANGED notices
      PROVE  NoticeInv'
  <2>1. NothingTold
    BY <1>4 DEF Told, notices
  <2> QED BY <2>1, NothingNew
<1>5. CASE Persist(e) \/ SetStatus(e) \/ Quorum(e) \/ CheckFlapping(e) \/ Open(e)
  BY <1>4, <1>5 DEF Persist, SetStatus, Quorum, CheckFlapping, Open, Goto, Labels
<1>6. CASE Bump(e) \/ Suppress(e)
  BY <1>4, <1>6 DEF Bump, Suppress, Finish, Goto, Labels
<1>7. CASE Lookup(e)
  BY <1>4, <1>7 DEF Lookup, Finish, Goto, Labels
<1>8. CASE Count(e)
  BY <1>4, <1>8 DEF Count, Finish, Goto, Labels
<1>9. CASE Dependency(e)
  BY <1>4, <1>9 DEF Dependency, Goto, Labels
<1> QED BY <1>1, <1>2, <1>3, <1>5, <1>6, <1>7, <1>8, <1>9 DEF Continue

LEMMA NoticeNext == TypeInv /\ NoticeInv /\ [Next]_vars => NoticeInv'
<1> SUFFICES ASSUME TypeInv, NoticeInv, [Next]_vars PROVE NoticeInv'
  OBVIOUS
<1>0. Grown
  BY EverythingGrows
<1> USE DEF NothingTold, Told, notices, TypeInv, TypeOK
<1>1. CASE UNCHANGED vars
  BY <1>0, <1>1, NothingNew DEF vars
<1>2. ASSUME NEW d \in dispatching, Notify(d) \/ NotifyError(d)
      PROVE  NoticeInv'
  <2>1. Told' \subseteq Told
    BY <1>2 DEF Notify, NotifyError
  <2> QED BY <1>0, <1>2, <2>1, NothingNew DEF Notify, NotifyError, evaluation
<1>3. CASE UserStep
  <2>1. UNCHANGED <<pc, job, notified, dispatching>>
    BY <1>3 DEF UserStep, UserResolve, Acknowledge, TransitionRead, TransitionWrite, evaluation
  <2> QED BY <1>0, <2>1, NothingNew
<1>4. ASSUME NEW e \in Evaluators, NEW m \in Monitors, StartCheck(e, m)
      PROVE  NoticeInv'
  BY <1>0, <1>4, NothingNew DEF StartCheck, RunCheck, Goto
<1>5. ASSUME NEW e \in Evaluators, EvaluatorFault(e)
      PROVE  NoticeInv'
  <2>1. Told' \subseteq Told
    BY <1>5 DEF EvaluatorFault, StoreError, FlappingError, ResolveHalfway, SuppressError, Crash
  <2>2. NothingTold
    BY <1>5, <2>1 DEF EvaluatorFault, StoreError, FlappingError, ResolveHalfway,
                      SuppressError, Crash, Finish, Goto
  <2> QED BY <1>0, <2>2, NothingNew
<1>6. ASSUME NEW e \in Evaluators, Continue(e)
      PROVE  NoticeInv'
  BY <1>0, <1>6, NoticeContinue
<1> QED BY <1>1, <1>2, <1>3, <1>4, <1>5, <1>6 DEF Next

LEMMA NoticeInit == Init => NoticeInv
BY DEF Init, NoticeInv, Told, RecoveredResolved

\* No interleaving, crash or failing call makes the system announce a recovery
\* of an incident that nobody resolved, or any incident that does not exist.
THEOREM NoticesTrue == Spec => []NoticesAreTrue
<1>1. NoticeInv => NoticesAreTrue
  BY DEF NoticeInv, NoticesAreTrue, Told, TrueOf
<1>2. Spec => []NoticeInv
  BY TypeAlways, NoticeInit, NoticeNext, PTL DEF Spec
<1> QED BY <1>1, <1>2, PTL
=============================================================================
