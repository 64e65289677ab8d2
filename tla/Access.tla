--------------------------------- MODULE Access ---------------------------------
(***************************************************************************)
(* Who may do what: API keys, the credentials of private agents and the    *)
(* roles of users (auth and requireRole of api/router.go, agentAuth and    *)
(* the agent routes of api/phase23.go, the rows behind them), and the push *)
(* devices users register.                                                 *)
(*                                                                         *)
(* A request is authenticated by one statement and carried out by a later  *)
(* one, so a revocation may come in between.  Secrets are represented by   *)
(* the credential they belong to; how a user's organisation is found is    *)
(* the subject of ClerkMirror.                                             *)
(***************************************************************************)
EXTENDS Integers, FiniteSets

CONSTANTS
  AccOrgs, BootstrapOrg,      \* organisations, and that of the key in the configuration
  Keys, Agents,               \* API keys and agents that may be created
  Requests,                   \* requests under way at a time
  UserRoles,                  \* roles users may hold
  AccMonitors,                \* monitors of any organisation
  AccRegions, AgentRegion,    \* regions, and the one each agent is created with
  AgentLimit,                 \* jobs handed to an agent at a time (10 in the code)
  Phones, MaxRegistrations    \* push tokens, and how often one is registered

NoOwner == "no organisation"
User == "user"
Bootstrap == "bootstrap"
NoTarget == "no one"

ASSUME AccessAssumption ==
  /\ BootstrapOrg \in AccOrgs /\ Keys \intersect Agents = {}
  /\ NoOwner \notin AccOrgs /\ {User, Bootstrap, NoTarget} \intersect (Keys \union Agents) = {}
  /\ UserRoles \subseteq {"owner", "admin", "member", "viewer"}
  /\ AgentRegion \in [Agents -> AccRegions]
  /\ AgentLimit \in Nat \ {0} /\ MaxRegistrations \in Nat

VARIABLES
  credential,    \* [Keys \union Agents -> [org, revokedBy]], NoOwner before it is created, and revoked
  request,       \* [Requests -> [stage, by, org, role, op, target, alive]]
  overdue,       \* whether a request whose credential was not valid when it arrived did something
  assignment,    \* [AccMonitors -> [org, agent, regions, enabled, live]], NoTarget when no agent is named
  jobs,          \* jobs agents were handed: <<agent, monitor>>
  recorded,      \* results agents submitted: [agent, monitor, org], org that of the row
  device,        \* [Phones -> [id, org]]: rows of push_devices, id 0 when there is none
  phone          \* [Phones -> [org, id, count, astray]]: what the app holds, org of its sign-in

accessVars == <<credential, request, overdue, assignment, jobs, recorded>>
deviceVars == <<device, phone>>

NewRequest == [stage |-> "new", by |-> NoTarget, org |-> NoOwner, role |-> "viewer", op |-> "none",
               target |-> NoTarget, alive |-> FALSE]

Live(c) == credential[c].org # NoOwner /\ credential[c].revokedBy = NoOwner

------------------------------------------------------------------------------
(* Roles. *)

RoleRank(role) == CASE role = "owner" -> 4 [] role = "admin" -> 3 [] role = "member" -> 2 [] role = "viewer" -> 1
AtLeast(role, need) == RoleRank(role) >= RoleRank(need)

\* The routes that create and revoke keys and agents need an administrator, the
\* agents' own routes an agent.
Work == {"poll", "submit"}

------------------------------------------------------------------------------
(* The life of a request. *)

Arrive(r, by, org, role, op, target) ==
  /\ request[r].stage = "new"
  /\ op \in Work <=> by \in Agents
  /\ by \in Keys \union Agents => credential[by].org # NoOwner
  /\ request' = [request EXCEPT ![r] = [stage |-> "arrived", by |-> by, org |-> org, role |-> role, op |-> op,
                   target |-> target, alive |-> by \in Keys \union Agents => Live(by)]]
  /\ UNCHANGED <<credential, overdue, assignment, jobs, recorded>>

\* Answers are left out.
Answered(r) == request' = [request EXCEPT ![r] = NewRequest]
Done(r) == Answered(r) /\ overdue' = (overdue \/ ~request[r].alive)
Refused(r) == Answered(r) /\ UNCHANGED overdue

\* FindAPIKeyByHash and FindAgentByTokenHash.
Found(c) == Live(c)

\* auth and agentAuth, then requireRole, which API keys always pass; neither
\* role nor key is looked at again, so all but the organisation is forgotten.
Authenticate(r) ==
  LET q == request[r]
      org == CASE q.by = Bootstrap -> BootstrapOrg [] q.by = User -> q.org [] OTHER -> credential[q.by].org
  IN  /\ q.stage = "arrived"
      /\ IF q.by \in Keys \union Agents /\ ~Found(q.by) THEN Answered(r)
         ELSE IF q.by = User /\ ~AtLeast(q.role, "admin") THEN Answered(r)
         ELSE request' = [request EXCEPT ![r] = [@ EXCEPT !.stage = "authenticated", !.org = org, !.role = "viewer",
                                                          !.by = IF q.by \in Agents THEN q.by ELSE User]]
      /\ UNCHANGED <<credential, overdue, assignment, jobs, recorded>>

\* The lookup fails: the credential counts as invalid.
LookupFails(r) ==
  /\ request[r].stage = "arrived" /\ request[r].by \in Keys \union Agents
  /\ Answered(r)
  /\ UNCHANGED <<credential, overdue, assignment, jobs, recorded>>

Performs(r, op) == request[r].stage = "authenticated" /\ request[r].op = op

\* CreateAPIKey and CreateAgent.
CreateCredential(r) ==
  /\ Performs(r, "create")
  /\ \E c \in Keys \union Agents :
       /\ credential[c].org = NoOwner
       /\ credential' = [credential EXCEPT ![c].org = request[r].org]
  /\ Done(r)
  /\ UNCHANGED <<assignment, jobs, recorded>>

\* Mutant: a credential of any organisation is revoked.
RevocableByAll(c, org) == credential[c].org # NoOwner

\* RevokeAPIKey passes over a key that is revoked; RevokeAgent writes once more.
Revocable(c, org) == credential[c].org = org /\ (c \in Keys => credential[c].revokedBy = NoOwner)

Revoke(r) ==
  LET c == request[r].target
  IN  /\ Performs(r, "revoke")
      /\ IF Revocable(c, request[r].org)
         THEN credential' = [credential EXCEPT ![c].revokedBy = request[r].org] /\ Done(r)
         ELSE Refused(r) /\ UNCHANGED credential
      /\ UNCHANGED <<assignment, jobs, recorded>>

\* ListEnabledMonitors in the agent's organisation, and monitorAssignedToAgent:
\* a monitor that names an agent is for that agent, another for every agent of
\* one of its regions.  Nothing is leased, so several agents may hold one monitor.
Assigned(m, agent, org) ==
  /\ assignment[m].live /\ assignment[m].org = org /\ assignment[m].enabled
  /\ IF assignment[m].agent # NoTarget THEN assignment[m].agent = agent
     ELSE AgentRegion[agent] \in assignment[m].regions

AgentJobs(r) ==
  LET q == request[r]
      given == {m \in AccMonitors : Assigned(m, q.by, q.org)}
  IN  /\ Performs(r, "poll")
      /\ \E some \in SUBSET given :
           /\ Cardinality(some) = IF Cardinality(given) > AgentLimit THEN AgentLimit ELSE Cardinality(given)
           /\ jobs' = jobs \union {<<q.by, m>> : m \in some}
      /\ Done(r)
      /\ UNCHANGED <<credential, assignment, recorded>>

\* Mutant: any monitor is found.
GetAnyMonitor(m, org) == assignment[m].live

\* GetMonitor of an agent's request.
GetMonitor(m, org) == assignment[m].live /\ assignment[m].org = org

\* A result may be about any monitor, handed to the agent or not, enabled or not;
\* RecordResult stores it under the monitor's organisation.
AgentSubmitResult(r) ==
  LET q == request[r]
  IN  /\ Performs(r, "submit")
      /\ IF GetMonitor(q.target, q.org)
         THEN /\ recorded' = recorded \union {[agent |-> q.by, monitor |-> q.target, org |-> assignment[q.target].org]}
              /\ Done(r)
         ELSE Refused(r) /\ UNCHANGED recorded
      /\ UNCHANGED <<credential, assignment, jobs>>

\* A user edits who runs a monitor, or deletes it; UpdateMonitor leaves the
\* regions as they were at the creation.
EditAssignment(m, agent, enabled) ==
  /\ assignment[m].live
  /\ assignment' = [assignment EXCEPT ![m].agent = agent, ![m].enabled = enabled]
  /\ UNCHANGED <<credential, request, overdue, jobs, recorded>>

AssignedMonitorDeleted(m) ==
  /\ assignment[m].live
  /\ assignment' = [assignment EXCEPT ![m] = [org |-> @.org, agent |-> NoTarget, regions |-> {}, enabled |-> FALSE, live |-> FALSE]]
  /\ UNCHANGED <<credential, request, overdue, jobs, recorded>>

------------------------------------------------------------------------------
(* Push devices. *)

\* A token that has a row keeps its id; the answer tells the new one all the same.
UpsertPushDevice(p, org) ==
  LET new == phone[p].count + 1
  IN  /\ phone[p].count < MaxRegistrations
      /\ device' = [device EXCEPT ![p] = [id |-> IF @.id = 0 THEN new ELSE @.id, org |-> org]]
      /\ phone' = [phone EXCEPT ![p].org = org, ![p].id = new, ![p].count = new,
                               ![p].astray = @ \/ device[p].id # 0]

\* Signing out, in the organisation that is active then.
DeletePushDevice(p, org) ==
  /\ phone[p].org # NoOwner
  /\ device' = IF device[p].id = phone[p].id /\ device[p].org = org
               THEN [device EXCEPT ![p] = [id |-> 0, org |-> NoOwner]] ELSE device
  /\ phone' = [phone EXCEPT ![p].org = NoOwner, ![p].astray = @ \/ org # device[p].org]

\* The app is removed, or the user signs out, without a call.
PhoneForgets(p) ==
  /\ phone[p].org # NoOwner
  /\ phone' = [phone EXCEPT ![p].org = NoOwner, ![p].astray = TRUE]
  /\ UNCHANGED device

\* The tokens an incident of an organisation is pushed to.
Reached(org) == {p \in Phones : device[p].id # 0 /\ device[p].org = org}

------------------------------------------------------------------------------
AccessInit ==
  /\ credential = [c \in Keys \union Agents |-> [org |-> NoOwner, revokedBy |-> NoOwner]]
  /\ overdue = FALSE
  /\ request = [r \in Requests |-> NewRequest]
  /\ assignment \in [AccMonitors -> [org : AccOrgs, agent : {NoTarget}, regions : SUBSET AccRegions \ {{}}, enabled : {TRUE}, live : {TRUE}]]
  /\ jobs = {} /\ recorded = {}
  /\ device = [p \in Phones |-> [id |-> 0, org |-> NoOwner]]
  /\ phone = [p \in Phones |-> [org |-> NoOwner, id |-> 0, count |-> 0, astray |-> FALSE]]

AgentOps ==
  \E r \in Requests :
    \/ \E a \in Agents : \/ Arrive(r, a, NoOwner, "viewer", "poll", NoTarget)
                         \/ \E m \in AccMonitors : Arrive(r, a, NoOwner, "viewer", "submit", m)
    \/ AgentJobs(r) \/ AgentSubmitResult(r)

KeyOps ==
  \E r \in Requests :
    \/ \E k \in Keys \union {Bootstrap} :
         Arrive(r, k, NoOwner, "admin", "create", NoTarget) \/ \E c \in Keys \union Agents : Arrive(r, k, NoOwner, "admin", "revoke", c)
    \/ \E org \in AccOrgs, role \in UserRoles :
         Arrive(r, User, org, role, "create", NoTarget) \/ \E c \in Keys \union Agents : Arrive(r, User, org, role, "revoke", c)
    \/ CreateCredential(r) \/ Revoke(r)

RequestsNext == KeyOps \/ AgentOps \/ \E r \in Requests : Authenticate(r) \/ LookupFails(r)

AssignmentsNext ==
  \E m \in AccMonitors :
    \/ AssignedMonitorDeleted(m)
    \/ \E a \in Agents \union {NoTarget}, enabled \in BOOLEAN : EditAssignment(m, a, enabled)

AccessNext == RequestsNext \/ AssignmentsNext

DevicesNext ==
  \E p \in Phones : PhoneForgets(p) \/ \E org \in AccOrgs : UpsertPushDevice(p, org) \/ DeletePushDevice(p, org)

AccessSpec == AccessInit /\ [][(AccessNext /\ UNCHANGED deviceVars) \/ (DevicesNext /\ UNCHANGED accessVars)]_<<accessVars, deviceVars>>

------------------------------------------------------------------------------
(* Properties. *)

\* Whatever a request changes, its credential was valid when the request arrived,
\* for a revocation is for ever; a credential is revoked only by a request of
\* its own organisation; and whatever monitor an agent names in a result, and
\* whoever the monitor is assigned to, the jobs an agent is handed and the
\* results stored for it are of the organisation it was created in.
EffectsAreEntitled ==
  /\ ~overdue
  /\ \A c \in Keys \union Agents : credential[c].revokedBy \in {NoOwner, credential[c].org}
  /\ \A j \in jobs : assignment[j[2]].org = credential[j[1]].org
  /\ \A x \in recorded : x.org = credential[x.agent].org /\ assignment[x.monitor].org = x.org

\* A phone is reached by one organisation's incidents, the one its user signed in
\* to last, however often it was registered; after a sign-out by nobody's,
\* unless it was registered over an earlier row (whose id the app was not told),
\* signed out of another organisation, or never signed out.
PushesReachOwners ==
  \A p \in Phones :
    /\ \A org \in AccOrgs : phone[p].org = org => {o \in AccOrgs : p \in Reached(o)} = {org}
    /\ phone[p].org = NoOwner /\ ~phone[p].astray => \A org \in AccOrgs : p \notin Reached(org)

\* Requests and pushes reach what their credentials and sign-ins entitle them to
\* (router.go, phase23.go, push_devices.go).
EntitlementsHold == EffectsAreEntitled /\ PushesReachOwners
=============================================================================
