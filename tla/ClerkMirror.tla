------------------------------ MODULE ClerkMirror ------------------------------
(***************************************************************************)
(* The copy of Clerk's users, organizations and memberships that           *)
(* internal/api/clerk_webhooks.go keeps from webhook events, and what a    *)
(* request authenticated by Clerk reads from it (router.go, auth).         *)
(*                                                                         *)
(* Clerk and the sender of its webhooks are external: Clerk changes, the   *)
(* sender delivers each change at least once, in any order, and repeats it *)
(* until it is answered with a 200.  A row is its Clerk id, a generation   *)
(* (which of the rows that ever had this Clerk id it is: the local id) and *)
(* the version of the profile it holds, 0 when that is blank but for an    *)
(* email.  Roles are left out (Access).                                    *)
(*                                                                         *)
(* An event about a membership and a sign-in are several statements, each  *)
(* a step here, and any error of a lookup counts as "not there".           *)
(***************************************************************************)
EXTENDS Naturals, Sequences, FiniteSets

CONSTANTS
  ClerkUsers, ClerkOrgs,
  NoOrg,
  ClerkMaxEvents,  \* bound: how many changes Clerk makes
  ClerkMaxFaults,  \* bound: how many lookups and applications of events fail
  Tolerance,       \* clerkWebhookTolerance
  Skews            \* distances of a delivery's timestamp from our clock

ASSUME ClerkAssumption ==
  /\ NoOrg \notin ClerkOrgs
  /\ ClerkUsers \intersect ClerkOrgs = {}
  /\ Tolerance \in Nat /\ ClerkMaxEvents \in Nat

VARIABLES
  clerk,      \* what Clerk holds: user and organization versions, memberships
  sent,       \* the events of Clerk's changes, in their order
  answered,   \* events the sender had a 200 for
  seen,       \* webhook_events: the ids recorded
  applying,   \* events between RecordWebhookEvent and the end of applyClerkEvent
  progress,   \* of those: the next statement, and the generations of the rows found
  applied,    \* ids applied to the end, in that order
  lost,       \* ids recorded whose application failed or was cut off
  arriving,   \* users signing in of whom no row was found
  mirror,     \* the tables users, organizations and memberships
  faults,     \* how many calls have failed
  deserted,   \* users that belonged to an organization when Clerk deleted it
  blanked,    \* users whose row a blank profile was put in over a known one, or after they were deleted
  kept        \* memberships that were not deleted because a lookup failed

clerkState == <<clerk, sent, deserted>>
eventState == <<answered, seen, applying, progress, applied, lost>>
clerkVars == <<clerkState, eventState, arriving, mirror, faults, blanked, kept>>

Absent == [live |-> FALSE, gen |-> 0, version |-> 0]
Gone == ClerkMaxEvents + 1   \* the version of what Clerk has deleted

\* The organizations, users and memberships tables.
EmptyOrganizations == [o \in ClerkOrgs |-> Absent]
EmptyUsers == [u \in ClerkUsers |-> Absent]
EmptyMirror == [orgs |-> EmptyOrganizations, users |-> EmptyUsers, members |-> {}]

------------------------------------------------------------------------------
(* The store. *)

UpsertRow(row, version) ==
  [live |-> TRUE, gen |-> IF row.live THEN row.gen ELSE row.gen + 1, version |-> version]

UpsertUser(m, u, version) == [m EXCEPT !.users[u] = UpsertRow(@, version)]

UpsertOrganization(m, o, version) == [m EXCEPT !.orgs[o] = UpsertRow(@, version)]

DeleteUserByClerkID(m, u) == [m EXCEPT !.users[u].live = FALSE]

DeleteOrganizationByClerkID(m, o) == [m EXCEPT !.orgs[o].live = FALSE]

\* A membership names the two rows, not the two Clerk ids, and nothing deletes
\* it with them.
Membership(o, orgGen, u, userGen) == <<<<o, orgGen>>, <<u, userGen>>>>

UpsertMembership(m, row) == [m EXCEPT !.members = @ \union {row}]

\* Mutant: a membership that ends keeps its row.
KeepsMembership(m, row) == m

DeleteMembership(m, row) == [m EXCEPT !.members = @ \ {row}]

MembershipRows(m, u) == {r \in m.members : r[2] = <<u, m.users[u].gen>>}

GetOrganization(m, id) == m.orgs[id[1]].live /\ m.orgs[id[1]].gen = id[2]

\* One row whose organization is gone fails the whole list.
ListMembershipsForUser(m, u) ==
  LET rows == MembershipRows(m, u)
  IN  [ok |-> \A r \in rows : GetOrganization(m, r[1]),
       orgs |-> {r[1][1] : r \in rows}]

------------------------------------------------------------------------------
(* Clerk. *)

Event(type, o, u, version) == [type |-> type, org |-> o, user |-> u, version |-> version]

InClerk(x) == x # Gone

ClerkChanges(after, event) ==
  /\ Len(sent) < ClerkMaxEvents
  /\ clerk' = after
  /\ sent' = Append(sent, event)
  /\ UNCHANGED <<eventState, arriving, mirror, faults, blanked, kept>>

UserChanges(u) ==
  LET v == clerk.users[u]
  IN  /\ InClerk(v)
      /\ \/ ClerkChanges([clerk EXCEPT !.users[u] = v + 1],
                         Event("user.updated", NoOrg, u, v + 1))
         \/ ClerkChanges([clerk EXCEPT !.users[u] = Gone,
                                       !.members = {r \in @ : r[2] # u}],
                         Event("user.deleted", NoOrg, u, 0))
      /\ UNCHANGED deserted

OrganizationChanges(o) ==
  LET v == clerk.orgs[o]
  IN  /\ InClerk(v)
      /\ \/ /\ ClerkChanges([clerk EXCEPT !.orgs[o] = v + 1],
                            Event("organization.updated", o, CHOOSE u \in ClerkUsers : TRUE, v + 1))
            /\ UNCHANGED deserted
         \/ /\ ClerkChanges([clerk EXCEPT !.orgs[o] = Gone,
                                          !.members = {r \in @ : r[1] # o}],
                            Event("organization.deleted", o, CHOOSE u \in ClerkUsers : TRUE, 0))
            /\ deserted' = deserted \union {u \in ClerkUsers : <<o, u>> \in clerk.members}

MembershipChanges(o, u) ==
  /\ InClerk(clerk.orgs[o]) /\ InClerk(clerk.users[u])
  /\ IF <<o, u>> \in clerk.members
       THEN ClerkChanges([clerk EXCEPT !.members = @ \ {<<o, u>>}],
                         Event("organizationMembership.deleted", o, u, clerk.orgs[o]))
       ELSE ClerkChanges([clerk EXCEPT !.members = @ \union {<<o, u>>}],
                         Event("organizationMembership.updated", o, u, clerk.orgs[o]))
  /\ UNCHANGED deserted

------------------------------------------------------------------------------
(* clerkWebhook. *)

\* verifySvixSignature on a genuine delivery: only the clock can refuse it.
VerifySvixSignature(skew) == skew <= Tolerance

\* Mutant: a repeated delivery is applied again.
TakesEveryDelivery(e) == TRUE

\* RecordWebhookEvent: whether this id is new.
RecordWebhookEvent(e) == e \notin seen

NewProgress == [stage |-> "organization", orgGen |-> 0, userGen |-> 0]

Deliver(e, skew) ==
  /\ e \notin answered
  /\ VerifySvixSignature(skew)
  /\ seen' = seen \union {e}
  /\ IF RecordWebhookEvent(e)
       THEN applying' = applying \union {e} /\ UNCHANGED answered
       ELSE answered' = answered \union {e} /\ UNCHANGED applying
  /\ UNCHANGED <<clerkState, progress, applied, lost, arriving, mirror, faults, blanked, kept>>

------------------------------------------------------------------------------
(* applyClerkEvent. *)

OfMembership == {"organizationMembership.updated", "organizationMembership.deleted"}

\* The answer is a 200.
Finishes(e) ==
  /\ applied' = Append(applied, e)
  /\ applying' = applying \ {e}
  /\ answered' = answered \union {e}
  /\ progress' = [progress EXCEPT ![e] = NewProgress]
  /\ UNCHANGED <<seen, lost>>

Proceeds(e, next) ==
  /\ progress' = [progress EXCEPT ![e] = next]
  /\ UNCHANGED <<answered, seen, applying, applied, lost>>

\* A call that fails, answered with a 500.
Faulty(fault) == IF fault THEN faults < ClerkMaxFaults /\ faults' = faults + 1 ELSE UNCHANGED faults

ApplyProfile(m, e) ==
  CASE e.type = "user.updated" -> UpsertUser(m, e.user, e.version)
    [] e.type = "user.deleted" -> DeleteUserByClerkID(m, e.user)
    [] e.type = "organization.updated" -> UpsertOrganization(m, e.org, e.version)
    [] e.type = "organization.deleted" -> DeleteOrganizationByClerkID(m, e.org)

\* The events of users and organizations are one statement.
Apply(e) ==
  /\ e \in applying /\ sent[e].type \notin OfMembership
  /\ mirror' = ApplyProfile(mirror, sent[e])
  /\ Finishes(e)
  /\ blanked' = IF sent[e].type \in {"user.updated", "user.deleted"} THEN blanked \ {sent[e].user} ELSE blanked
  /\ UNCHANGED <<clerkState, arriving, faults, kept>>

\* GetOrganizationByClerkID: without an answer the organization of a new
\* membership is inserted, and one that ended is passed over.
FindOrganization(e, fault) ==
  LET o == sent[e].org
      found == mirror.orgs[o].live /\ ~fault
  IN  /\ e \in applying /\ sent[e].type \in OfMembership /\ progress[e].stage = "organization"
      /\ Faulty(fault)
      /\ IF found THEN Proceeds(e, [progress[e] EXCEPT !.stage = "user", !.orgGen = mirror.orgs[o].gen])
         ELSE IF sent[e].type = "organizationMembership.deleted" THEN Finishes(e)
         ELSE Proceeds(e, [progress[e] EXCEPT !.stage = "new organization"])
      /\ kept' = IF fault /\ sent[e].type = "organizationMembership.deleted"
                   THEN kept \union {<<o, sent[e].user>>} ELSE kept
      /\ UNCHANGED <<clerkState, arriving, mirror, blanked>>

\* UpsertOrganization with what the event says of it.
EnsureOrganization(e) ==
  LET o == sent[e].org
  IN  /\ e \in applying /\ progress[e].stage = "new organization"
      /\ mirror' = UpsertOrganization(mirror, o, sent[e].version)
      /\ Proceeds(e, [progress[e] EXCEPT !.stage = "user", !.orgGen = mirror'.orgs[o].gen])
      /\ UNCHANGED <<clerkState, arriving, faults, blanked, kept>>

\* GetUserByClerkID, in the same way.
FindUser(e, fault) ==
  LET u == sent[e].user
      found == mirror.users[u].live /\ ~fault
  IN  /\ e \in applying /\ progress[e].stage = "user"
      /\ Faulty(fault)
      /\ IF found THEN Proceeds(e, [progress[e] EXCEPT !.stage = "membership", !.userGen = mirror.users[u].gen])
         ELSE IF sent[e].type = "organizationMembership.deleted" THEN Finishes(e)
         ELSE Proceeds(e, [progress[e] EXCEPT !.stage = "new user"])
      /\ kept' = IF fault /\ sent[e].type = "organizationMembership.deleted"
                   THEN kept \union {<<sent[e].org, u>>} ELSE kept
      /\ UNCHANGED <<clerkState, arriving, mirror, blanked>>

\* UpsertUser of a placeholder: on a conflict its blanks replace what is there.
InsertPlaceholder(u) ==
  /\ mirror' = UpsertUser(mirror, u, 0)
  /\ blanked' = IF (mirror.users[u].live /\ mirror.users[u].version # 0) \/ ~InClerk(clerk.users[u])
                  THEN blanked \union {u} ELSE blanked

EnsureUser(e) ==
  LET u == sent[e].user
  IN  /\ e \in applying /\ progress[e].stage = "new user"
      /\ InsertPlaceholder(u)
      /\ Proceeds(e, [progress[e] EXCEPT !.stage = "membership", !.userGen = mirror'.users[u].gen])
      /\ UNCHANGED <<clerkState, arriving, faults, kept>>

\* UpsertMembership or DeleteMembership.
SetMembership(e) ==
  LET row == Membership(sent[e].org, progress[e].orgGen, sent[e].user, progress[e].userGen)
      ended == sent[e].type = "organizationMembership.deleted"
  IN  /\ e \in applying /\ progress[e].stage = "membership"
      /\ mirror' = IF ended THEN DeleteMembership(mirror, row) ELSE UpsertMembership(mirror, row)
      /\ kept' = kept \ {<<sent[e].org, sent[e].user>>}
      /\ Finishes(e)
      /\ UNCHANGED <<clerkState, arriving, faults, blanked>>

\* A failing call, answered with a 500, or the end of the process; the rows
\* written before it stay.
ApplyFails(e) ==
  /\ e \in applying
  /\ Faulty(TRUE)
  /\ lost' = lost \union {e}
  /\ applying' = applying \ {e}
  /\ progress' = [progress EXCEPT ![e] = NewProgress]
  /\ UNCHANGED <<clerkState, answered, seen, applied, arriving, mirror, blanked, kept>>

------------------------------------------------------------------------------
(* A request with a session token of Clerk, which is verified without asking *)
(* Clerk: its user may have been deleted.                                    *)

SignIn(u, fault) ==
  /\ u \notin arriving
  /\ ~(mirror.users[u].live /\ ~fault)
  /\ Faulty(fault)
  /\ arriving' = arriving \union {u}
  /\ UNCHANGED <<clerkState, eventState, mirror, blanked, kept>>

SignInInserts(u) ==
  /\ u \in arriving
  /\ InsertPlaceholder(u)
  /\ arriving' = arriving \ {u}
  /\ UNCHANGED <<clerkState, eventState, faults, kept>>

\* The organization of the token when it is mirrored, else the only membership.
ActiveOrganization(m, u, claim) ==
  LET listed == ListMembershipsForUser(m, u)
  IN  IF claim # NoOrg /\ m.orgs[claim].live THEN claim
      ELSE IF listed.ok /\ Cardinality(listed.orgs) = 1 THEN CHOOSE o \in listed.orgs : TRUE
      ELSE NoOrg

\* listOrganizations of a user: what /me and the organization picker show.
Organizations(m, u) ==
  LET listed == ListMembershipsForUser(m, u)
  IN  IF listed.ok THEN listed.orgs ELSE {}

------------------------------------------------------------------------------
ClerkInit ==
  /\ clerk = [users |-> [u \in ClerkUsers |-> 0], orgs |-> [o \in ClerkOrgs |-> 0], members |-> {}]
  /\ sent = <<>> /\ applied = <<>>
  /\ answered = {} /\ seen = {} /\ applying = {} /\ lost = {} /\ arriving = {}
  /\ progress = [e \in 1..ClerkMaxEvents |-> NewProgress]
  /\ faults = 0 /\ deserted = {} /\ blanked = {} /\ kept = {}
  /\ mirror = EmptyMirror

ApplyNext(e) ==
  \/ Apply(e) \/ EnsureOrganization(e) \/ EnsureUser(e) \/ SetMembership(e) \/ ApplyFails(e)
  \/ \E fault \in BOOLEAN : FindOrganization(e, fault) \/ FindUser(e, fault)

WebhooksNext ==
  \/ \E u \in ClerkUsers : UserChanges(u)
  \/ \E o \in ClerkOrgs : OrganizationChanges(o)
  \/ \E o \in ClerkOrgs, u \in ClerkUsers : MembershipChanges(o, u)
  \/ \E e \in DOMAIN sent, skew \in Skews : Deliver(e, skew)
  \/ \E e \in DOMAIN sent : ApplyNext(e)

SignInsNext == \E u \in ClerkUsers : SignInInserts(u) \/ \E fault \in BOOLEAN : SignIn(u, fault)

ClerkNext == WebhooksNext \/ SignInsNext

ClerkSpec == ClerkInit /\ [][ClerkNext]_clerkVars

------------------------------------------------------------------------------
(* Properties. *)

\* No event is applied twice, however often it is delivered and however its
\* deliveries overlap; and the sender gives up an event (it has its 200) only
\* when it was applied, is being applied, or was recorded by an attempt that
\* then failed: RecordWebhookEvent runs before applyClerkEvent, so the retry of
\* a failed event is taken for a duplicate.
EventsAccounted ==
  /\ \A i, j \in DOMAIN applied : applied[i] = applied[j] => i = j
  /\ \A e \in answered : e \in applying \/ e \in lost \/ \E i \in DOMAIN applied : applied[i] = e
  /\ \A e \in lost : \A i \in DOMAIN applied : applied[i] # e

\* Every change has arrived, none was lost, and they were applied in order.
Faithful ==
  /\ lost = {}
  /\ Len(applied) = Len(sent)
  /\ \A i, j \in DOMAIN applied : i < j => applied[i] < applied[j]

ProfileAgrees(u) ==
  mirror.users[u].live => InClerk(clerk.users[u]) /\ mirror.users[u].version = clerk.users[u]

\* Once every change has been applied, in order, and however the statements of
\* their applications and of sign-ins interleave: the mirror has Clerk's
\* organizations (of those it ever heard of), which no placeholder harms; Clerk's
\* users, except one whose row a sign-in or a membership filled with a blank
\* profile when it was known or deleted already; and the memberships of a user
\* are Clerk's, and without an organization in the token the user lands in the only
\* one -- except users with a membership whose end was passed over because a
\* lookup failed, and those who were in an organization Clerk deleted: its
\* membership row stays, and listing the memberships of that user fails for good.
MirrorAgrees ==
  Faithful =>
    /\ \A o \in ClerkOrgs : mirror.orgs[o].live =>
         InClerk(clerk.orgs[o]) /\ mirror.orgs[o].version = clerk.orgs[o]
    /\ \A u \in ClerkUsers :
         /\ u \notin blanked => ProfileAgrees(u)
         /\ mirror.users[u].live /\ (\A o \in ClerkOrgs : <<o, u>> \notin kept) =>
              LET theirs == {o \in ClerkOrgs : <<o, u>> \in clerk.members}
              IN  /\ Organizations(mirror, u) = IF u \in deserted THEN {} ELSE theirs
                  /\ ActiveOrganization(mirror, u, NoOrg) =
                       IF u \notin deserted /\ Cardinality(theirs) = 1
                         THEN CHOOSE o \in theirs : TRUE ELSE NoOrg
=============================================================================
