------------------------------- MODULE Catalogue -------------------------------
(***************************************************************************)
(* What the users of the organisations keep: monitors, tags, services and  *)
(* maintenance windows, with the links between them, as the handlers of    *)
(* internal/api (router.go, phase1.go, tags_sla.go) and the store write    *)
(* them.  Every operation is one transaction.  Ids are never used again.   *)
(*                                                                         *)
(* Of a monitor's settings only `enabled' and the service are kept; names, *)
(* targets, colours and the schedule of a window (Schedules) are left out. *)
(***************************************************************************)
EXTENDS Integers, FiniteSets

CONSTANTS
  CatOrgs, MonitorIds, WindowIds, ServiceIds,
  NoService,
  Labels,        \* tag names as users write them
  MaxEdits       \* bound: how many operations users make

VARIABLES
  tags,       \* rows of tags: [org, name]
  services,   \* [ServiceIds -> [stage, org]]
  monitors,   \* [MonitorIds -> [stage, org, enabled, service, status, tags]]
  windows,    \* [WindowIds -> [stage, org, enabled, monitors, tags]]
  edits       \* counts operations, for the bound

catVars == <<tags, services, monitors, windows, edits>>

\* normalizeTags: trimmed and in lower case, no blanks, each name once.
Name(label) == CASE label = "DB" -> "db" [] label = "  " -> "" [] OTHER -> label
NormalizeTags(labels) == {Name(l) : l \in labels} \ {""}

Names == {Name(l) : l \in Labels}
TagRows == [org : CatOrgs, name : Names]
IdStages == {"unused", "live", "gone"}

NoServiceRow == [stage |-> "unused", org |-> CHOOSE o \in CatOrgs : TRUE]
NoMonitor == [stage |-> "unused", org |-> CHOOSE o \in CatOrgs : TRUE, enabled |-> FALSE,
              service |-> NoService, status |-> "degraded", tags |-> {}]
NoWindow == [stage |-> "unused", org |-> CHOOSE o \in CatOrgs : TRUE, enabled |-> FALSE,
             monitors |-> {}, tags |-> {}]

Edit == edits < MaxEdits /\ edits' = edits + 1
Owned(rows, id, org) == rows[id].stage = "live" /\ rows[id].org = org
LiveMonitors == {m \in MonitorIds : monitors[m].stage = "live"}

------------------------------------------------------------------------------
(* Tags. *)

\* A second row of a name in one organisation breaks the unique index.  A name
\* of blanks passes the length check and is stored empty.
CreateTag(org, label) ==
  /\ Edit
  /\ [org |-> org, name |-> Name(label)] \notin tags
  /\ tags' = tags \union {[org |-> org, name |-> Name(label)]}
  /\ UNCHANGED <<services, monitors, windows>>

\* The rows that link the tag to monitors and windows go with it.
DeleteTag(org, t) ==
  /\ Edit
  /\ t \in tags /\ t.org = org
  /\ tags' = tags \ {t}
  /\ monitors' = [m \in MonitorIds |-> [monitors[m] EXCEPT !.tags = @ \ {t}]]
  /\ windows' = [w \in WindowIds |-> [windows[w] EXCEPT !.tags = @ \ {t}]]
  /\ UNCHANGED services

\* replaceMonitorTags creates the tags.  It calls FirstOrCreate on a row that has
\* a new id already, which GORM takes for one more condition: a tag that exists is
\* not found, the second row breaks the unique index and the save is refused.
MonitorTags(org, labels) == {[org |-> org, name |-> n] : n \in NormalizeTags(labels)}
TagsAreNew(org, labels) == MonitorTags(org, labels) \intersect tags = {}

\* SetMonitorTags takes ids and ignores those of other organisations.
SetMonitorTags(org, m, chosen) ==
  /\ Edit
  /\ Owned(monitors, m, org)
  /\ monitors' = [monitors EXCEPT ![m].tags = {t \in chosen : t.org = org}]
  /\ UNCHANGED <<tags, services, windows>>

------------------------------------------------------------------------------
(* Services: deleting one leaves service_id of its monitors as it is. *)

CreateService(org, s) ==
  /\ Edit
  /\ services[s].stage = "unused"
  /\ services' = [services EXCEPT ![s] = [stage |-> "live", org |-> org]]
  /\ UNCHANGED <<tags, monitors, windows>>

\* UpdateService writes name, slug and description only.
UpdateService(org, s) == Edit /\ Owned(services, s, org) /\ UNCHANGED <<tags, services, monitors, windows>>

DeleteService(org, s) ==
  /\ Edit
  /\ Owned(services, s, org)
  /\ services' = [services EXCEPT ![s].stage = "gone"]
  /\ UNCHANGED <<tags, monitors, windows>>

------------------------------------------------------------------------------
(* Monitors. *)

\* normalizeMonitor: a status the request does not carry is `degraded'.
NormalizeMonitor(org, enabled, service, labels) ==
  [stage |-> "live", org |-> org, enabled |-> enabled, service |-> service,
   status |-> "degraded", tags |-> MonitorTags(org, labels)]

\* The service's existence and organisation are not looked at.
CreateMonitor(org, m, enabled, service, labels) ==
  /\ Edit
  /\ monitors[m].stage = "unused"
  /\ TagsAreNew(org, labels)
  /\ monitors' = [monitors EXCEPT ![m] = NormalizeMonitor(org, enabled, service, labels)]
  /\ tags' = tags \union MonitorTags(org, labels)
  /\ UNCHANGED <<services, windows>>

\* Updates leaves status alone.
UpdateMonitor(org, m, enabled, service, labels) ==
  /\ Edit
  /\ Owned(monitors, m, org)
  /\ TagsAreNew(org, labels)
  /\ monitors' = [monitors EXCEPT ![m] = [NormalizeMonitor(org, enabled, service, labels)
                                          EXCEPT !.status = monitors[m].status]]
  /\ tags' = tags \union MonitorTags(org, labels)
  /\ UNCHANGED <<services, windows>>

\* The links to tags and windows go with the row.
DeleteMonitor(org, m) ==
  /\ Edit
  /\ Owned(monitors, m, org)
  /\ monitors' = [monitors EXCEPT ![m] = [NoMonitor EXCEPT !.stage = "gone"]]
  /\ windows' = [w \in WindowIds |-> [windows[w] EXCEPT !.monitors = @ \ {m}]]
  /\ UNCHANGED <<tags, services>>

\* By the worker, for any organisation.
UpdateMonitorStatus(m, status) ==
  /\ m \in LiveMonitors
  /\ monitors' = [monitors EXCEPT ![m].status = status]
  /\ UNCHANGED <<tags, services, windows, edits>>

------------------------------------------------------------------------------
(* Maintenance windows. *)

\* replaceWindowTargets asks for a name's tag in whatever organisation has it.  A
\* name nobody has would become a row without an organisation, which the uuid
\* column refuses, and nothing is written.  Whether the ORM and the database accept
\* a save with targets is left open: a save that is refused is a step not taken.
\* (GORM as go.mod pins it first inserts the monitors, and the tags under new ids,
\* without an organisation; then every save with targets is refused, and of the
\* windows here only those without targets are ever written.)
WindowTargets(labels) ==
  {chosen \in SUBSET tags : /\ {t.name : t \in chosen} = NormalizeTags(labels)
                            /\ \A t, u \in chosen : t.name = u.name => t = u}

\* A window is enabled when it is created, whatever the request says.
CreateMaintenanceWindow(org, w, targets, labels) ==
  /\ Edit
  /\ windows[w].stage = "unused"
  /\ \E linked \in WindowTargets(labels) :
       windows' = [windows EXCEPT ![w] = [stage |-> "live", org |-> org, enabled |-> TRUE,
                                          monitors |-> targets, tags |-> linked]]
  /\ UNCHANGED <<tags, services, monitors>>

UpdateMaintenanceWindow(org, w, enabled, targets, labels) ==
  /\ Edit
  /\ Owned(windows, w, org)
  /\ \E linked \in WindowTargets(labels) :
       windows' = [windows EXCEPT ![w] = [stage |-> "live", org |-> org, enabled |-> enabled,
                                          monitors |-> targets, tags |-> linked]]
  /\ UNCHANGED <<tags, services, monitors>>

DeleteMaintenanceWindow(org, w) ==
  /\ Edit
  /\ Owned(windows, w, org)
  /\ windows' = [windows EXCEPT ![w] = [NoWindow EXCEPT !.stage = "gone"]]
  /\ UNCHANGED <<tags, services, monitors>>

\* Mutant: a window without monitors covers every monitor, whatever its tags.
MatchesUntargeted(window, m, names) ==
  \/ window.monitors = {}
  \/ m \in window.monitors
  \/ \E t \in window.tags : t.name \in names

\* windowMatchesMonitor: no targets means every monitor; tags count by name.
WindowMatchesMonitor(window, m, names) ==
  \/ window.monitors = {} /\ window.tags = {}
  \/ m \in window.monitors
  \/ \E t \in window.tags : t.name \in names

\* ActiveMaintenanceForMonitor during the window's hours, for the worker, which
\* reads the windows of all organisations.
Covers(w, m) ==
  /\ windows[w].stage = "live" /\ windows[w].enabled
  /\ m \in LiveMonitors
  /\ WindowMatchesMonitor(windows[w], m, {t.name : t \in monitors[m].tags})

\* ListMonitorsByTags: the monitors of an organisation that have every name.
ListMonitorsByTags(org, labels) ==
  {m \in LiveMonitors : /\ monitors[m].org = org
                        /\ NormalizeTags(labels) \subseteq {t.name : t \in monitors[m].tags}}

------------------------------------------------------------------------------
CatInit ==
  /\ tags = {}
  /\ services = [s \in ServiceIds |-> NoServiceRow]
  /\ monitors = [m \in MonitorIds |-> NoMonitor]
  /\ windows = [w \in WindowIds |-> NoWindow]
  /\ edits = 0

TagOps(org) ==
  \/ \E l \in Labels : CreateTag(org, l)
  \/ \E t \in tags : DeleteTag(org, t)
  \/ \E m \in MonitorIds, chosen \in SUBSET tags : SetMonitorTags(org, m, chosen)

ServiceOps(org) ==
  \E s \in ServiceIds : CreateService(org, s) \/ UpdateService(org, s) \/ DeleteService(org, s)

MonitorOps(org) ==
  \E m \in MonitorIds :
    \/ DeleteMonitor(org, m)
    \/ \E b \in BOOLEAN, s \in {i \in ServiceIds : services[i].stage # "unused"} \union {NoService},
          ls \in SUBSET Labels :
         CreateMonitor(org, m, b, s, ls) \/ UpdateMonitor(org, m, b, s, ls)

WindowOps(org) ==
  \E w \in WindowIds :
    \/ DeleteMaintenanceWindow(org, w)
    \/ \E ms \in SUBSET LiveMonitors, ls \in SUBSET Labels :
         \/ CreateMaintenanceWindow(org, w, ms, ls)
         \/ \E b \in BOOLEAN : UpdateMaintenanceWindow(org, w, b, ms, ls)

CatNext ==
  \/ \E org \in CatOrgs : TagOps(org) \/ ServiceOps(org) \/ MonitorOps(org) \/ WindowOps(org)
  \/ \E m \in MonitorIds, st \in {"up", "down"} : UpdateMonitorStatus(m, st)

CatSpec == CatInit /\ [][CatNext]_catVars

------------------------------------------------------------------------------
(* Properties. *)

\* A window comes to cover a monitor it did not cover only because the window
\* was saved, the monitor was created or given other tags, or the last target
\* of the window was deleted -- after which it covers every monitor of every
\* organisation.  Deleting anything else never widens a window.
CoverageGrows ==
  [][\A w \in WindowIds, m \in MonitorIds :
       ~Covers(w, m) /\ Covers(w, m)' =>
         \/ windows'[w] # windows[w] /\ tags' = tags /\ monitors' = monitors
         \/ monitors'[m].tags # monitors[m].tags \/ monitors[m].stage = "unused"
         \/ /\ Cardinality(windows[w].monitors) + Cardinality(windows[w].tags) = 1
            /\ windows'[w].monitors \union windows'[w].tags = {}]_catVars

\* Links point to rows that exist, and a monitor's tags are its organisation's
\* (a window's may be another's, and a monitor's service may be gone).  Whatever
\* the list of monitors shows for a tag of an enabled window, the window covers.
LinksHold ==
  /\ \A m \in LiveMonitors : monitors[m].tags \subseteq {t \in tags : t.org = monitors[m].org}
  /\ \A w \in WindowIds : windows[w].tags \subseteq tags /\ windows[w].monitors \subseteq LiveMonitors
  /\ \A w \in WindowIds, org \in CatOrgs, label \in Labels :
       windows[w].enabled /\ Name(label) \in {t.name : t \in windows[w].tags} /\ NormalizeTags({label}) # {} =>
         \A m \in ListMonitorsByTags(org, {label}) : Covers(w, m)
=============================================================================
