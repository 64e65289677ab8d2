------------------------------- MODULE Schedules -------------------------------
(***************************************************************************)
(* The algorithms on calendars and rules of the store: when a maintenance  *)
(* window is in effect (isWindowActive), who is on call (rotationShift,    *)
(* ResolveOnCall, UpcomingOnCallShifts), which escalation policy and which *)
(* runbooks an incident gets.                                              *)
(*                                                                         *)
(* Time is counted in ticks of DayTicks to a day, with a calendar of       *)
(* YearDays and MonthStarts; a time zone is an offset without daylight     *)
(* saving.  Days are numbered from a first day of a week and a year.       *)
(***************************************************************************)
EXTENDS Integers, Sequences, FiniteSets

CONSTANTS DayTicks, YearDays, MonthStarts

ASSUME CalendarAssumption ==
  /\ DayTicks \in Nat \ {0} /\ YearDays \in Nat \ {0}
  /\ MonthStarts \subseteq 0..(YearDays - 1) /\ 0 \in MonthStarts

------------------------------------------------------------------------------
(* Maintenance windows. *)

Day(t) == t \div DayTicks
TimeOfDay(t) == t % DayTicks
Weekday(day) == day % 7
MonthDay(day) ==
  LET d == day % YearDays
  IN  CHOOSE n \in 1..YearDays : d + 1 - n \in MonthStarts /\ \A k \in 1..(n - 1) : d + 1 - k \notin MonthStarts

Recurrences == {"none", "daily", "weekly", "monthly"}

\* validateWindow and maintenanceWindowRow: an empty recurrence is "none", an
\* unknown one or an end before the start is refused.
ValidWindow(w) == w.ends > w.starts /\ w.recurrence \in Recurrences \union {""}

\* time.LoadLocation: a zone it does not know counts as UTC.
ZoneOffset(w) == IF w.zoneKnown THEN w.offset ELSE 0

\* Mutant: a weekly window is looked for on the day of now.
CandidateToday(w, start, now) == Day(now) * DayTicks + TimeOfDay(start)

\* The start that the recurrence puts on the day of now, or on the last day of
\* the same weekday, in local time.
Candidate(w, start, now) ==
  LET back == IF w.recurrence = "weekly" THEN (Weekday(Day(now)) - Weekday(Day(start)) + 7) % 7 ELSE 0
  IN  (Day(now) - back) * DayTicks + TimeOfDay(start)

\* StartsAt counts for the time of day and the day only: a recurring window is
\* in effect before its first start too.
IsWindowActive(w, at) ==
  LET start == w.starts + ZoneOffset(w)
      now == at + ZoneOffset(w)
      from == Candidate(w, start, now)
  IN  /\ w.enabled /\ w.ends > w.starts
      /\ IF w.recurrence \in {"", "none"} THEN w.starts <= at /\ at < w.ends
         ELSE /\ w.recurrence = "monthly" => MonthDay(Day(now)) = MonthDay(Day(start))
              /\ from <= now /\ now < from + (w.ends - w.starts)

\* Reference: the starts of a recurring window, in local time, and the part of
\* each occurrence the code sees, which ends with the day it begins on, or
\* before the next occurrence's day in the case of a weekly window.
Occurrences(w, start, days) ==
  {t \in {d * DayTicks + TimeOfDay(start) : d \in days} :
     CASE w.recurrence = "daily" -> TRUE
       [] w.recurrence = "weekly" -> Weekday(Day(t)) = Weekday(Day(start))
       [] w.recurrence = "monthly" -> MonthDay(Day(t)) = MonthDay(Day(start))}

WindowHoursAgree(w, at, days) ==
  LET start == w.starts + ZoneOffset(w)
      now == at + ZoneOffset(w)
      reach == IF w.recurrence = "weekly" THEN 6 ELSE 0
  IN  ValidWindow(w) =>
      (IsWindowActive(w, at) <=>
       /\ w.enabled
       /\ IF w.recurrence \in {"", "none"} THEN at \in w.starts..(w.ends - 1)
          ELSE \E t \in Occurrences(w, start, days) :
                 /\ now \in t..(t + w.ends - w.starts - 1)
                 /\ Day(now) - Day(t) <= reach)

------------------------------------------------------------------------------
(* On-call rotation. *)

NoShift == [user |-> "", starts |-> 0, ends |-> 0]

\* dedupeStrings: the first mention of each participant counts, blanks do not.
DedupeStrings(names) ==
  LET keep == {i \in 1..Len(names) : names[i] # "" /\ \A j \in 1..(i - 1) : names[j] # names[i]}
      nth(k) == CHOOSE i \in keep : Cardinality({j \in keep : j <= i}) = k
  IN  [k \in 1..Cardinality(keep) |-> names[nth(k)]]

\* CreateOnCallSchedule: without a hand-off the rotation begins now.
ScheduleRow(names, rotation, handoff, now) ==
  [participants |-> DedupeStrings(names), rotation |-> rotation,
   handoff |-> IF handoff < 0 THEN now ELSE handoff]

\* Go's remainder has the sign of the dividend.
GoRem(a, n) == IF a < 0 THEN -((-a) % n) ELSE a % n
\* Mutant: integer division, which rounds towards zero before the hand-off.
SlotTruncated(elapsed, rotation) ==
  IF elapsed < 0 THEN -((-elapsed) \div rotation) ELSE elapsed \div rotation

SlotOf(elapsed, rotation) == elapsed \div rotation
ParticipantIndex(slot, n) == GoRem(GoRem(slot, n) + n, n)

RotationShift(s, at) ==
  LET slot == SlotOf(at - s.handoff, s.rotation)
      n == Len(s.participants)
      start == s.handoff + slot * s.rotation
  IN  IF n = 0 \/ s.rotation <= 0 THEN NoShift
      ELSE [user |-> s.participants[ParticipantIndex(slot, n) + 1],
            starts |-> start, ends |-> start + s.rotation]

\* The override created last wins; overrides are in order of creation.
ResolveOnCall(s, overrides, at) ==
  LET active == {i \in 1..Len(overrides) : overrides[i].starts <= at /\ at < overrides[i].ends}
  IN  IF active = {} THEN RotationShift(s, at)
      ELSE overrides[CHOOSE i \in active : \A j \in active : j <= i]

\* The list of coming shifts does not look at overrides.
UpcomingOnCallShifts(s, from, count) ==
  LET n == IF count <= 0 \/ count > 100 THEN 10 ELSE count
      shift[i \in 1..n] == RotationShift(s, IF i = 1 THEN from ELSE shift[i - 1].ends)
  IN  shift

\* Reference: the coming shifts begin with the one that contains `from', follow
\* each other without a gap, give the participants their turns in order from the
\* hand-off on, and name whoever ResolveOnCall names unless an override covers
\* the moment.
OnCallAgrees(s, overrides, from, count) ==
  LET shifts == UpcomingOnCallShifts(s, from, count)
      n == Len(s.participants)
      Turn(user) == CHOOSE i \in 1..n : s.participants[i] = user
  IN  n > 0 =>
      /\ shifts[1].starts <= from /\ from < shifts[1].ends
      /\ RotationShift(s, s.handoff).user = s.participants[1]
      /\ \A i \in 2..Len(shifts) :
           /\ shifts[i].starts = shifts[i - 1].ends
           /\ Turn(shifts[i].user) = (Turn(shifts[i - 1].user) % n) + 1
      /\ \A i \in 1..Len(shifts) : \A t \in shifts[i].starts..(shifts[i].ends - 1) :
           LET over == {j \in 1..Len(overrides) : t \in overrides[j].starts..(overrides[j].ends - 1)}
               now == ResolveOnCall(s, overrides, t)
           IN  /\ over = {} => now = shifts[i]
               /\ over # {} => \E j \in over : now = overrides[j] /\ \A k \in over : k <= j

------------------------------------------------------------------------------
(* Escalation policies and runbooks. *)

RuleFields == {"monitor", "service", "tag", "severity", "impact"}
Points == [monitor |-> 8, service |-> 4, tag |-> 2, severity |-> 1, impact |-> 1]

\* A field left empty matches everything; a tag matches one of the monitor's.
Named(rule) == {f \in RuleFields : rule[f] # ""}
Satisfies(rule, subject, f) == IF f = "tag" THEN rule.tag \in subject.tags ELSE rule[f] = subject[f]
Fits(rule, subject) == \A f \in Named(rule) : Satisfies(rule, subject, f)

TotalPoints(fields) ==
  (IF "monitor" \in fields THEN Points.monitor ELSE 0) + (IF "service" \in fields THEN Points.service ELSE 0)
  + (IF "tag" \in fields THEN Points.tag ELSE 0) + (IF "severity" \in fields THEN Points.severity ELSE 0)
  + (IF "impact" \in fields THEN Points.impact ELSE 0)

PolicyScore(policy, subject) ==
  IF ~Fits(policy, subject) THEN 0
  ELSE IF Named(policy) = {} THEN 1 ELSE TotalPoints(Named(policy))

\* The policies come newest first and the sort is stable.
ResolveEscalationPolicy(policies, subject) ==
  LET usable == {i \in 1..Len(policies) : policies[i].enabled /\ PolicyScore(policies[i], subject) > 0}
      before(i, j) == \/ PolicyScore(policies[i], subject) > PolicyScore(policies[j], subject)
                      \/ PolicyScore(policies[i], subject) = PolicyScore(policies[j], subject) /\ i <= j
  IN  IF usable = {} THEN 0 ELSE CHOOSE i \in usable : \A j \in usable : before(i, j)

\* A runbook has no impact to name.
RunbooksForIncident(runbooks, subject) ==
  {i \in 1..Len(runbooks) : \A f \in Named(runbooks[i]) \ {"impact"} : Satisfies(runbooks[i], subject, f)}

\* Reference: the policy chosen is enabled and fits, one is chosen when there is
\* one, and none that names strictly more is passed over -- except that a policy
\* that names nothing ranks with one that names only the severity or only the
\* impact, and of two that rank alike the newer is taken.  A runbook kept with the
\* same fields as the policy is shown too.
EscalationIsSpecific(policies, subject) ==
  LET i == ResolveEscalationPolicy(policies, subject)
      candidates == {j \in 1..Len(policies) : policies[j].enabled /\ Fits(policies[j], subject)}
  IN  /\ i = 0 <=> candidates = {}
      /\ i # 0 =>
           /\ i \in candidates /\ i \in RunbooksForIncident(policies, subject)
           /\ \A j \in candidates :
                Named(policies[i]) \subseteq Named(policies[j]) /\ Named(policies[i]) # Named(policies[j]) =>
                  /\ Named(policies[i]) = {} /\ i < j
                  /\ Named(policies[j]) \in {{"severity"}, {"impact"}}
           /\ \A j \in candidates : Named(policies[j]) = Named(policies[i]) => i <= j
=============================================================================
