----------------------------- MODULE MCControlPlane -----------------------------
(***************************************************************************)
(* The instance TLC checks of the components around the monitoring loop.   *)
(* They share no variable, so a behaviour here is one of one component,    *)
(* chosen at the start: the states of the components add up instead of     *)
(* multiplying.  Of a component that is an algorithm the choice is an      *)
(* input, a query, and its property relates the result to a reference.     *)
(***************************************************************************)
EXTENDS Schedules, Reports, CheckOutcomes, HeartbeatMonitors, BrowserQueue, RegionWindow,
        ChannelDelivery, Catalogue, IncidentRecords, StatusPages, ClerkMirror, Access

VARIABLES
  part,     \* the component under consideration
  query     \* the input of an algorithm, NoQuery otherwise

moving == <<beatVars, browserVars, regionVars, deliveryVars, catVars, recVars, pagesVars,
            clerkVars, accessVars, deviceVars>>

------------------------------------------------------------------------------
(* Inputs: calendars of four ticks to the day, nine days to the year. *)

NoQuery == <<>>

Windows == [starts : {0, 4, 13, 20}, ends : {3, 5, 16, 22, 40}, recurrence : {"none", "", "daily", "weekly", "monthly"},
            zoneKnown : BOOLEAN, offset : {0, 2}, enabled : BOOLEAN]
WindowQueries == [w : Windows, at : 0..60]

Overrides == {<<>>, <<[user |-> "x", starts |-> 3, ends |-> 9]>>,
              <<[user |-> "x", starts |-> 3, ends |-> 9], [user |-> "y", starts |-> 5, ends |-> 6]>>}
OnCallQueries ==
  {[s |-> ScheduleRow(names, rotation, handoff, 5), overrides |-> o, from |-> from, count |-> count] :
     names \in {<<"a", "b">>, <<"b", "", "a", "b", "c">>, <<>>}, rotation \in {2, 3}, handoff \in {-1, 0, 9},
     from \in {0, 4, 7, 11}, count \in {0, 3}, o \in Overrides}

Policies == [enabled : BOOLEAN, monitor : {"", "m"}, service : {"", "s", "t"}, tag : {"", "db"},
             severity : {"", "high"}, impact : {"", "major"}]
Subjects == [monitor : {"m"}, service : {"s"}, tags : {{}, {"db"}}, severity : {"high", "low"}, impact : {"major"}]
PolicyQueries == [policies : Policies \X Policies, subject : Subjects]

ViewQueries == [manual : {"", "up", "degraded", "down"}, ofService : SUBSET ShownStatuses, linked : SUBSET ShownStatuses]

Filters == [monitors : {{"m1"}, {"m1", "m2"}}, status : {""}, after : {0, 2}, before : {3, 5},
            excludeMaintenance : BOOLEAN, limit : {3}, offset : {0}]
ResultRows(f) == {[monitor |-> IF t = 3 THEN "m2" ELSE "m1", at |-> t, status |-> IF f[t].ok THEN "up" ELSE "down",
                   success |-> f[t].ok, ms |-> f[t].ms, suppressed |-> f[t].hidden] : t \in DOMAIN f}
ResultSets == {ResultRows(f) : f \in UNION {[times -> [ok : BOOLEAN, ms : {1, 4, 9}, hidden : {FALSE}]] : times \in SUBSET {0, 2, 3}}}
UptimeQueries == [rows : ResultSets, filter : Filters]
Outages == [monitor : {"m1", "m2"}, status : {"open"}, started : {0, 2, 3}, resolved : {Ongoing, 3, 4}]
MonitorStatuses == [m1 |-> "up", m2 |-> "down"]
UptimeIncidents == {[monitor |-> "m1", status |-> "open", started |-> 2, resolved |-> Ongoing],
                    [monitor |-> "m2", status |-> "resolved", started |-> 0, resolved |-> 3]}
PeriodQueries == [period : {"month", "quarter", "year"}, month : 1..12]
SlaQueries == [incidents : {s \in SUBSET Outages : Cardinality(s) <= 2}, filter : Filters]

Values == {Missing} \union {Text(v) : v \in 1..2} \union {Number(v) : v \in 1..3}
ValueQueries == [got : Values, want : Values \ {Missing}]
Answer == [kind |-> "object", of |-> [n |-> Number(2), list |-> [kind |-> "array", of |-> <<Text(1), Number(3)>>]]]
At(field, index) == <<[field |-> field, index |-> index]>>
Asserted == {<<>>, <<[op |-> "", path |-> At("n", -1), value |-> Number(2)]>>,
             <<[op |-> "exists", path |-> At("list", 2), value |-> Number(2)]>>,
             <<[op |-> "greaterThan", path |-> At("list", 1), value |-> Number(2)],
               [op |-> "lessThan", path |-> At("n", 0), value |-> Number(2)]>>}
HTTPQueries ==
  [type : {"http", "keyword", "api"}, method : {"GET", "HEAD", "POST"}, answer : {"none", "broken", "whole"},
   code : {200, 301}, expected : {0, 200, 301}, keyword : {"unset", "kept", "beyond"}, assertions : Asserted,
   body : {[kept |-> FALSE], [kept |-> TRUE, json |-> Answer]}]
NetworkQueries ==
  [type : {"tcp", "dns", "udp", "icmp", "ping", "tls"}, connects : BOOLEAN, replies : 0..3, expects : BOOLEAN,
   reply : {"none", "other", "expected"}, mode : {"", "tcp"}, echoed : BOOLEAN, handshake : {"ok", "refused"},
   hours : {-5, 100, 900}, warnDays : {10}]
DomainQueries ==
  [type : {"domain"}, rdap : {"unreachable", "unreadable", "refuses", "silent", "dated"}, rdapDate : {-30, 5, 900},
   whoisAnswers : BOOLEAN, warnDays : {2},
   lines : {<<>>, <<[expiryKey |-> TRUE, indented |-> TRUE, parses |-> TRUE, date |-> 5]>>,
            <<[expiryKey |-> TRUE, indented |-> FALSE, parses |-> TRUE, date |-> 5]>>}]
ExpiryQueries == [hours : -50..80, warn : 1..2]
ProviderQueries == [complete : BOOLEAN, answer : Answers]
Asserting(equals, exists) == <<[status |-> TRUE, exists |-> exists, equals |-> equals, contains |-> TRUE]>>
ScriptSteps ==
  [uses : {{}, {"t"}}, answers : BOOLEAN,
   assertions : {<<>>, Asserting(FALSE, "unasked"), Asserting(FALSE, "as expected")},
   extracts : {{}, {"t"}}, present : {{}, {"t"}}]
ScriptQueries == [type : {"multistep"}, vars : {{}, {"t"}}, steps : UNION {[1..n -> ScriptSteps] : n \in 0..2}]

------------------------------------------------------------------------------
MovingParts == {"beats", "browser", "regions", "delivery", "catalogue", "notes", "deps", "pages", "mail",
                "webhooks", "sign-ins", "requests", "assignments", "devices"}

\* Where a component may begin in several states, the others begin it in one.
OneChannel == CHOOSE c \in [kind : Kinds, enabled : {TRUE}, valid : {TRUE}] : TRUE
BeginDelivery ==
  channels \in IF part = "delivery" THEN [Receivers -> [kind : Kinds, enabled : BOOLEAN, valid : BOOLEAN]]
               ELSE {[ch \in Receivers |-> OneChannel]}

\* Agents are in the east and a monitor is there or is not; a second region
\* makes no difference to them.
AllEast == [a \in Agents |-> "east"]
InTheEast == [org |-> BootstrapOrg, agent |-> NoTarget, regions |-> {"east"}, enabled |-> TRUE, live |-> TRUE]
BeginAccess ==
  \A m \in AccMonitors :
    IF part \in {"requests", "assignments"} THEN Cardinality(assignment[m].regions) = 1
    ELSE assignment[m] = InTheEast

\* Edits of assignments come between the steps of one request at a time, and
\* sign-ins between the events of one organization.
OneRequest == \A r, s \in Requests : request[r].stage # "new" /\ request[s].stage # "new" => r = s
OneOrganization == \A d, e \in DOMAIN sent : sent[d].org # NoOrg /\ sent[e].org # NoOrg => sent[d].org = sent[e].org

Init ==
  /\ \/ part \in MovingParts /\ query = NoQuery
     \/ part = "windows" /\ query \in WindowQueries
     \/ part = "rotation" /\ query \in OnCallQueries
     \/ part = "policies" /\ query \in PolicyQueries
     \/ part = "views" /\ query \in ViewQueries
     \/ part = "uptime" /\ query \in UptimeQueries
     \/ part = "sla" /\ query \in SlaQueries
     \/ part = "period" /\ query \in PeriodQueries
     \/ part = "values" /\ query \in ValueQueries
     \/ part = "http" /\ query \in HTTPQueries
     \/ part = "network" /\ query \in NetworkQueries \union DomainQueries
     \/ part = "expiry" /\ query \in ExpiryQueries
     \/ part = "providers" /\ query \in ProviderQueries
     \/ part = "script" /\ query \in ScriptQueries
  /\ BeginDelivery
  /\ BeatInit /\ BrowserInit /\ RegionInit /\ DeliveryInit /\ CatInit /\ RecInit /\ StatusInit
  /\ ClerkInit /\ AccessInit /\ BeginAccess

Alone(component) ==
  /\ part = component
  /\ UNCHANGED <<part, query>>
  /\ IF component = "beats" THEN TRUE ELSE UNCHANGED beatVars
  /\ IF component = "browser" THEN TRUE ELSE UNCHANGED browserVars
  /\ IF component = "regions" THEN TRUE ELSE UNCHANGED regionVars
  /\ IF component = "delivery" THEN TRUE ELSE UNCHANGED deliveryVars
  /\ IF component = "catalogue" THEN TRUE ELSE UNCHANGED catVars
  /\ IF component \in {"notes", "deps"} THEN TRUE ELSE UNCHANGED recVars
  /\ IF component \in {"pages", "mail"} THEN TRUE ELSE UNCHANGED pagesVars
  /\ IF component \in {"webhooks", "sign-ins"} THEN TRUE ELSE UNCHANGED clerkVars
  /\ IF component \in {"requests", "assignments"} THEN TRUE ELSE UNCHANGED accessVars
  /\ IF component = "devices" THEN TRUE ELSE UNCHANGED deviceVars

Next ==
  \/ Alone("beats") /\ BeatNext
  \/ Alone("browser") /\ BrowserNext
  \/ Alone("regions") /\ RegionNext
  \/ Alone("delivery") /\ DeliveryNext
  \/ Alone("catalogue") /\ CatNext
  \/ Alone("notes") /\ NotesNext
  \/ Alone("deps") /\ DepsNext
  \/ Alone("pages") /\ PagesNext
  \/ Alone("mail") /\ MailNext
  \/ Alone("webhooks") /\ WebhooksNext
  \/ Alone("sign-ins") /\ ClerkNext /\ OneOrganization'
  \/ Alone("requests") /\ RequestsNext
  \/ Alone("assignments") /\ AccessNext /\ OneRequest'
  \/ Alone("devices") /\ DevicesNext

Spec == Init /\ [][Next]_<<moving, part, query>>

------------------------------------------------------------------------------
(* Properties of the algorithms, over their inputs. *)

\* A maintenance window is in effect when the reference of Schedules says so
\* (isWindowActive).
WindowHours == part = "windows" => WindowHoursAgree(query.w, query.at, -14..20)

\* Who is on call, and which escalation policy an incident gets, agree with the
\* references of Schedules (rotationShift, ResolveOnCall, policyScore).
RoutingAgrees ==
  /\ part = "rotation" => OnCallAgrees(query.s, query.overrides, query.from, query.count)
  /\ part = "policies" => EscalationIsSpecific(query.policies, query.subject)

\* Uptime and SLA figures, pages of results and the two views of a status page's
\* components agree with their references (summarizeResults, SLAReportForMonitor,
\* ListCheckResults, componentStatus).
ReportsAgree ==
  /\ part = "views" => ComponentViewsAgree(query)
  /\ part = "uptime" => /\ UptimeAgrees(query.rows, query.filter)
                        /\ FiguresAgree(query.rows, UptimeIncidents, MonitorStatuses, query.filter.after)
  /\ part = "period" => PeriodAgrees(query.period, query.month)
  /\ part = "sla" => SlaAgrees(query.incidents, query.filter)

\* Every checker's result is coherent, HTTP, API, expiry and multistep checks
\* conclude what their references say (internal/checks, RunCheck), and the
\* providers of notifications judge a receiver's answer alike.
OutcomesAgree ==
  /\ part = "values" => AssertionsAgree(query.got, query.want)
  /\ part = "http" => HTTPAgrees(query)
  /\ part = "network" => Coherent(Check(query))
  /\ part = "expiry" => ExpiryAgrees(query.hours, query.warn)
  /\ part = "script" => ScriptAgrees(query)
  /\ part = "providers" => ProvidersAgree(query.complete, query.answer)

\* The records of an incident, its monitor's dependencies, the links between
\* monitors, tags and windows, and the addresses of status pages tell what was
\* written (phase23_store.go, gorm_store.go).
RecordsAgree == DependenciesFollowSaves /\ NotesAreTrue /\ LinksHold /\ PagesAnswer
=============================================================================
