-------------------------------- MODULE Reports --------------------------------
(***************************************************************************)
(* The figures users are shown: the selection of check results and         *)
(* incidents, uptime reports, monitor and overview statistics and SLA      *)
(* reports of the store and of api/router.go, phase1.go and tags_sla.go.   *)
(*                                                                         *)
(* Results and incidents are sets of rows; times are whole seconds.  Ratios*)
(* are kept as numerator and denominator, percentiles in hundredths.  The  *)
(* CSV layout is left out.                                                 *)
(***************************************************************************)
EXTENDS Integers, Sequences, FiniteSetsExt

CONSTANTS
  ReportLimit,     \* rows a report reads at most (10000 in the code)
  LastSecond       \* bound: no row is later

ASSUME ReportsAssumption == ReportLimit \in Nat \ {0} /\ LastSecond \in Nat

Ongoing == -1            \* resolvedAt of an incident that is not resolved
AnyStatus == ""          \* a request that leaves the status open

------------------------------------------------------------------------------
(* Selecting rows. *)

BoundedLimit(value, fallback, max) ==
  IF value <= 0 THEN fallback ELSE IF value > max THEN max ELSE value

\* resultFilter of the API, before the store bounds the limit again.
RequestLimit(value) == IF value < 1 THEN 100 ELSE IF value > 500 THEN 500 ELSE value

\* checkResultQuery: monitorId, serviceId and statusPageId come down to a set of
\* monitors; both bounds of the time belong to it.
Selected(rows, filter) ==
  {r \in rows : /\ r.monitor \in filter.monitors
                /\ filter.status \in {AnyStatus, r.status}
                /\ filter.after <= r.at /\ r.at <= filter.before
                /\ filter.excludeMaintenance => ~r.suppressed}

\* Newest first; rows of the same second come in any order, which the database need
\* not repeat for the next page.
NewestFirst(rows) ==
  CHOOSE s \in [1..Cardinality(rows) -> rows] :
    \A i, j \in DOMAIN s : i < j => s[i] # s[j] /\ s[i].at >= s[j].at
Page(seq, limit, offset) == SubSeq(seq, offset + 1, Min({offset + limit, Len(seq)}))

Unfiltered(monitors) == [monitors |-> monitors, status |-> AnyStatus, after |-> 0, before |-> LastSecond,
                         excludeMaintenance |-> FALSE, limit |-> 0, offset |-> 0]

ListCheckResults(rows, filter) ==
  Page(NewestFirst(Selected(rows, filter)), BoundedLimit(filter.limit, 100, ReportLimit), filter.offset)

ExportCheckResults(rows, filter) ==
  ListCheckResults(rows, [filter EXCEPT !.limit = BoundedLimit(@, ReportLimit, ReportLimit)])

\* A listing over the API.
ListOverAPI(rows, filter) == ListCheckResults(rows, [filter EXCEPT !.limit = RequestLimit(@)])

\* ExportIncidents selects by the start of the incident.
ExportIncidents(incidents, filter) ==
  {i \in incidents : /\ i.monitor \in filter.monitors
                     /\ filter.status \in {AnyStatus, i.status}
                     /\ filter.after <= i.started /\ i.started <= filter.before}

------------------------------------------------------------------------------
(* Uptime. *)

\* The sum of what a function gives.
Total(f) == MapThenSumSet(LAMBDA x : f[x], DOMAIN f)

Successes(results) == Cardinality({i \in DOMAIN results : results[i].success})

\* sort.Slice and sort.Float64s: of the k-th value, fewer than k are smaller, and at
\* least k are not greater.
Sorted(values) ==
  [k \in DOMAIN values |->
     CHOOSE v \in {values[i] : i \in DOMAIN values} :
       /\ Cardinality({i \in DOMAIN values : values[i] < v}) < k
       /\ Cardinality({i \in DOMAIN values : values[i] <= v}) >= k]

\* averageIntervalMinutes: the gaps between neighbours, summed, over their number.
GapSum(results) ==
  LET times == Sorted([i \in DOMAIN results |-> results[i].at])
  IN  Total([i \in 2..Len(times) |-> times[i] - times[i - 1]])

\* percentile of sorted values, in hundredths, p being a whole percentage.
Percentile(values, p) ==
  LET n == Len(values)
      lower == (p * (n - 1)) \div 100
      weight == (p * (n - 1)) % 100
  IN  IF n = 0 THEN 0
      ELSE values[lower + 1] * (100 - weight) + (IF weight = 0 THEN 0 ELSE values[lower + 2] * weight)

SummarizeResults(results) ==
  LET n == Len(results)
      ms == Sorted([i \in DOMAIN results |-> results[i].ms])
      failed == n - Successes(results)
  IN  [checks |-> n, successful |-> Successes(results),
       downtime |-> IF n < 2 THEN [num |-> 0, den |-> 1] ELSE [num |-> failed * GapSum(results), den |-> n - 1],
       total |-> Total(ms),
       p50 |-> Percentile(ms, 50), p95 |-> Percentile(ms, 95), p99 |-> Percentile(ms, 99)]

\* UptimeReport reads the newest ReportLimit results of the time.
UptimeReport(rows, incidents, filter) ==
  [summary |-> SummarizeResults(ListCheckResults(rows, [filter EXCEPT !.limit = ReportLimit, !.offset = 0, !.status = AnyStatus])),
   incidentCount |-> Cardinality(ExportIncidents(incidents, [filter EXCEPT !.status = AnyStatus]))]

\* monitorStats: the last 500 results, whatever their age.
MonitorStats(rows, monitor) ==
  LET last == Page(NewestFirst({r \in rows : r.monitor = monitor}), BoundedLimit(500, 100, ReportLimit), 0)
  IN  [checks |-> Len(last), successful |-> Successes(last)]

\* OverviewStats counts `open' incidents only, not the other active statuses, and
\* the results of the last day.
OverviewStats(statuses, incidents, rows, since) ==
  LET recent == ListCheckResults({r \in rows : r.at >= since}, [Unfiltered(DOMAIN statuses) EXCEPT !.limit = ReportLimit])
  IN  [total |-> Cardinality(DOMAIN statuses),
       up |-> Cardinality({m \in DOMAIN statuses : statuses[m] = "up"}),
       down |-> Cardinality({m \in DOMAIN statuses : statuses[m] = "down"}),
       degraded |-> Cardinality({m \in DOMAIN statuses : statuses[m] = "degraded"}),
       openIncidents |-> Cardinality({i \in incidents : i.status = "open"}),
       checks |-> Len(recent), successful |-> Successes(recent)]

------------------------------------------------------------------------------
(* SLA reports. *)

\* slaWindow: the first month of the period that contains a month.
PeriodStartMonth(period, month) ==
  CASE period = "month" -> month
    [] period = "quarter" -> ((month - 1) \div 3) * 3 + 1
    [] period = "year" -> 1

\* Mutant: downtime after the end of the period counts.
DownSecondsUncut(i, from, to) ==
  LET end == IF i.resolved # Ongoing THEN i.resolved ELSE to
      start == IF i.started < from THEN from ELSE i.started
  IN  IF end > start THEN end - start ELSE 0

DownSeconds(i, from, to) ==
  LET end == IF i.resolved # Ongoing /\ i.resolved < to THEN i.resolved ELSE to
      start == IF i.started < from THEN from ELSE i.started
  IN  IF end > start THEN end - start ELSE 0

\* Without results a monitor counts as up all the time.
SLAReportForMonitor(rows, incidents, filter) ==
  LET results == ListCheckResults(rows, filter)
      counted == ExportIncidents(incidents, filter)
  IN  [up |-> IF results = <<>> THEN 1 ELSE Successes(results),
       of |-> IF results = <<>> THEN 1 ELSE Len(results),
       incidentCount |-> Cardinality(counted),
       rawDown |-> Total([i \in counted |-> DownSeconds(i, filter.after, filter.before)])]

\* The organisation's downtime is the sum over its monitors.
SLAReportForOrg(rows, incidents, filter) ==
  Total([m \in filter.monitors |-> SLAReportForMonitor(rows, incidents, [filter EXCEPT !.monitors = {m}]).rawDown])

------------------------------------------------------------------------------
(* Properties. *)

\* An uptime report: the percentiles lie between the fastest and the slowest
\* answer and in order; the downtime is the failed share of checks times the
\* span between the first and the last; and pages of results, read one after the
\* other, show every row once while nothing is inserted.
UptimeAgrees(rows, filter) ==
  LET results == ListCheckResults(rows, [filter EXCEPT !.limit = ReportLimit])
      s == SummarizeResults(results)
      times == {results[i].at : i \in DOMAIN results}
      all == Selected(rows, filter)
      pages == {ListOverAPI(rows, [filter EXCEPT !.limit = 1, !.offset = k]) : k \in 0..(Cardinality(all) - 1)}
  IN  /\ results # <<>> =>
           LET ms == {100 * results[i].ms : i \in DOMAIN results}
           IN  /\ Min(ms) <= s.p50 /\ s.p50 <= s.p95 /\ s.p95 <= s.p99 /\ s.p99 <= Max(ms)
               /\ 2 * Cardinality({i \in DOMAIN results : 100 * results[i].ms <= s.p50}) >= Len(results)
      /\ Len(results) >= 2 =>
           s.downtime.num * (Len(results) - 1) = s.downtime.den * (s.checks - s.successful) * (Max(times) - Min(times))
      /\ pages = {<<r>> : r \in all}

\* The figures of one moment fit together: the overview's checks of the last day
\* are those of the monitors' uptime reports, every monitor is up, down or
\* degraded, an open incident of the period is in some report, and a monitor's
\* own page counts no fewer checks than its report of a part of the time.
FiguresAgree(rows, incidents, statuses, since) ==
  LET report(m) == UptimeReport(rows, incidents, [Unfiltered({m}) EXCEPT !.after = since])
      monitors == DOMAIN statuses
      overview == OverviewStats(statuses, incidents, rows, since)
      open == {i \in incidents : i.status = "open"}
  IN  /\ overview.checks = Total([m \in monitors |-> report(m).summary.checks])
      /\ overview.successful = Total([m \in monitors |-> report(m).summary.successful])
      /\ overview.up + overview.down + overview.degraded = overview.total
      /\ (\A i \in open : i.started >= since) =>
           overview.openIncidents <= Total([m \in monitors |-> report(m).incidentCount])
      /\ \A m \in monitors : MonitorStats(rows, m).checks >= report(m).summary.checks

\* The period of an SLA report contains the day it is asked for.
PeriodAgrees(period, month) ==
  LET months == CASE period = "month" -> 1 [] period = "quarter" -> 3 [] period = "year" -> 12
      first == PeriodStartMonth(period, month)
  IN  first <= month /\ month < first + months /\ (first - 1) % months = 0

\* An SLA report counts, for each second of the period, the incidents under way
\* that began within the period: two at once count twice, one that began before
\* does not count, and nothing beyond the period or after the resolution does.
SlaAgrees(incidents, filter) ==
  LET under(t) == {i \in incidents : /\ i.monitor \in filter.monitors
                                     /\ filter.after <= i.started /\ i.started <= t
                                     /\ i.resolved = Ongoing \/ t < i.resolved}
  IN  SLAReportForOrg({}, incidents, filter) =
        Total([t \in filter.after..(filter.before - 1) |-> Cardinality(under(t))])
=============================================================================
