---------------------------- MODULE MessageProofs ----------------------------
(***************************************************************************)
(* Proofs about what is delivered more than once, late or not at all: the  *)
(* events of Clerk's webhooks (ClerkMirror), the verdicts of the regions   *)
(* (RegionWindow), the jobs and results of browser checks (BrowserQueue)   *)
(* and the requests to notification channels (ChannelDelivery), for any    *)
(* number of each.  And about when a window is in effect, who is on call and *)
(* whom an incident escalates to (Schedules).                              *)
(***************************************************************************)
EXTENDS ClerkMirror, RegionWindow, BrowserQueue, ChannelDelivery, Schedules,
        FiniteSetTheorems, SequenceTheorems, WellFoundedInduction, TLAPS

------------------------------------------------------------------------------
(* Clerk's events. *)

WasApplied(e) == \E i \in DOMAIN applied : applied[i] = e

\* Every recorded event is in exactly one place: being applied, applied once, or lost.
Placed ==
  /\ applied \in Seq(seen)
  /\ applying \subseteq seen /\ lost \subseteq seen /\ answered \subseteq seen
  /\ \A e \in seen : e \in applying \/ e \in lost \/ WasApplied(e)
  /\ \A e \in applying : e \notin lost /\ ~WasApplied(e)
  /\ \A e \in lost : ~WasApplied(e)

\* No event is applied twice.
AppliedOnce == \A i, j \in DOMAIN applied : applied[i] = applied[j] => i = j

EventInv == Placed /\ AppliedOnce

LEMMA EventInvInit == ClerkInit => EventInv
BY DEF ClerkInit, EventInv, Placed, AppliedOnce, WasApplied

LEMMA InvDeliver ==
  ASSUME EventInv, NEW e \in DOMAIN sent, NEW skew, Deliver(e, skew)
  PROVE  EventInv'
<1> USE DEF EventInv
<1>1. /\ seen' = seen \union {e} /\ applied' = applied /\ lost' = lost
      /\ answered' \subseteq answered \union {e}
      /\ applying' = IF e \notin seen THEN applying \union {e} ELSE applying
      /\ e \notin seen => answered' = answered
  BY DEF Deliver, RecordWebhookEvent
<1>2. \A x : WasApplied(x)' <=> WasApplied(x)
  BY <1>1 DEF WasApplied
<1>3. \A x : WasApplied(x) => x \in seen
  BY DEF Placed, WasApplied
<1>4. applied' \in Seq(seen')
  BY <1>1 DEF Placed
<1>5. /\ applying' \subseteq seen' /\ lost' \subseteq seen' /\ answered' \subseteq seen'
      /\ \A x \in seen' : x \in applying' \/ x \in lost' \/ WasApplied(x)
      /\ \A x \in applying' : x \notin lost' /\ ~WasApplied(x)
      /\ \A x \in lost' : ~WasApplied(x)
  BY <1>1, <1>3 DEF Placed
<1>6. Placed'
  BY <1>2, <1>4, <1>5 DEF Placed
<1>7. AppliedOnce'
  BY <1>1 DEF AppliedOnce
<1> QED BY <1>6, <1>7

LEMMA InvFinishes ==
  ASSUME EventInv, NEW e \in applying, Finishes(e)
  PROVE  EventInv'
<1> USE DEF EventInv
<1>1. /\ e \in applying /\ applied' = Append(applied, e) /\ applying' = applying \ {e}
      /\ answered' = answered \union {e} /\ seen' = seen /\ lost' = lost
  BY DEF Finishes
<1>2. e \in seen /\ e \notin lost /\ ~WasApplied(e)
  BY <1>1 DEF Placed
<1>3. /\ applied' \in Seq(seen) /\ DOMAIN applied = 1..Len(applied)
      /\ DOMAIN applied' = 1..Len(applied) + 1 /\ Len(applied) \in Nat
      /\ applied'[Len(applied) + 1] = e
      /\ \A i \in 1..Len(applied) : applied'[i] = applied[i]
  BY <1>1, <1>2 DEF Placed
<1>4. \A x : WasApplied(x)' <=> WasApplied(x) \/ x = e
  <2> SUFFICES ASSUME NEW x PROVE WasApplied(x)' <=> WasApplied(x) \/ x = e
    OBVIOUS
  <2>1. WasApplied(x)' <=> \E i \in 1..Len(applied) + 1 : applied'[i] = x
    BY <1>3 DEF WasApplied
  <2>2. WasApplied(x) <=> \E i \in 1..Len(applied) : applied[i] = x
    BY <1>3 DEF WasApplied
  <2> QED BY <1>3, <2>1, <2>2
<1>5. /\ applying' \subseteq seen' /\ lost' \subseteq seen' /\ answered' \subseteq seen'
      /\ \A x \in seen' : x \in applying' \/ x \in lost' \/ WasApplied(x) \/ x = e
      /\ \A x \in applying' : x \notin lost' /\ ~WasApplied(x) /\ x # e
      /\ \A x \in lost' : ~WasApplied(x) /\ x # e
  BY <1>1, <1>2 DEF Placed
<1>6. Placed'
  BY <1>1, <1>3, <1>4, <1>5 DEF Placed
<1>7. \A i \in 1..Len(applied) : applied[i] # e
  BY <1>2, <1>3 DEF WasApplied
<1>8. AppliedOnce'
  <2> SUFFICES ASSUME NEW i \in 1..Len(applied) + 1, NEW j \in 1..Len(applied) + 1,
                      applied'[i] = applied'[j]
               PROVE  i = j
    BY <1>3 DEF AppliedOnce
  <2>1. CASE i \in 1..Len(applied) /\ j \in 1..Len(applied)
    BY <2>1, <1>3 DEF AppliedOnce
  <2>2. CASE i = Len(applied) + 1 \/ j = Len(applied) + 1
    BY <2>2, <1>3, <1>7
  <2> QED BY <2>1, <2>2, <1>3
<1> QED BY <1>6, <1>8

LEMMA InvApplyFails ==
  ASSUME EventInv, NEW e \in DOMAIN sent, ApplyFails(e)
  PROVE  EventInv'
<1> USE DEF EventInv
<1>1. /\ e \in applying /\ applying' = applying \ {e} /\ lost' = lost \union {e}
      /\ UNCHANGED <<answered, seen, applied>>
  BY DEF ApplyFails
<1>2. \A x : WasApplied(x)' <=> WasApplied(x)
  BY <1>1 DEF WasApplied
<1>3. /\ applying' \subseteq seen /\ lost' \subseteq seen
      /\ \A x \in seen : x \in applying' \/ x \in lost' \/ WasApplied(x)
      /\ \A x \in applying' : x \notin lost' /\ ~WasApplied(x)
      /\ \A x \in lost' : ~WasApplied(x)
  BY <1>1 DEF Placed
<1>4. Placed'
  BY <1>1, <1>2, <1>3 DEF Placed
<1>5. AppliedOnce'
  BY <1>1 DEF AppliedOnce
<1> QED BY <1>4, <1>5

\* Clerk, signed-in users and the statements before the last of an application
\* leave the receiver's record of events alone.
LEMMA InvElsewhere ==
  EventInv /\ UNCHANGED <<answered, seen, applying, applied, lost>> => EventInv'
BY DEF EventInv, Placed, AppliedOnce, WasApplied

LEMMA InvApplyNext ==
  ASSUME EventInv, NEW e \in DOMAIN sent, ApplyNext(e)
  PROVE  EventInv'
<1> USE InvFinishes, InvElsewhere DEF Proceeds
<1>1. CASE Apply(e)
  BY <1>1 DEF Apply
<1>2. CASE EnsureOrganization(e)
  BY <1>2 DEF EnsureOrganization
<1>3. CASE EnsureUser(e)
  BY <1>3 DEF EnsureUser
<1>4. CASE SetMembership(e)
  BY <1>4 DEF SetMembership
<1>5. CASE ApplyFails(e)
  BY <1>5, InvApplyFails
<1>6. ASSUME NEW fault \in BOOLEAN, FindOrganization(e, fault) PROVE EventInv'
  BY <1>6 DEF FindOrganization
<1>7. ASSUME NEW fault \in BOOLEAN, FindUser(e, fault) PROVE EventInv'
  BY <1>7 DEF FindUser
<1> QED BY <1>1, <1>2, <1>3, <1>4, <1>5, <1>6, <1>7 DEF ApplyNext

LEMMA EventInvNext == EventInv /\ [ClerkNext]_clerkVars => EventInv'
<1> SUFFICES ASSUME EventInv, [ClerkNext]_clerkVars PROVE EventInv'
  OBVIOUS
<1> USE InvElsewhere DEF ClerkChanges, eventState
<1>1. CASE UNCHANGED clerkVars
  BY <1>1 DEF clerkVars
<1>2. ASSUME NEW u \in ClerkUsers, UserChanges(u) \/ SignInInserts(u) PROVE EventInv'
  BY <1>2 DEF UserChanges, SignInInserts
<1>3. ASSUME NEW u \in ClerkUsers, NEW fault \in BOOLEAN, SignIn(u, fault) PROVE EventInv'
  BY <1>3 DEF SignIn
<1>4. ASSUME NEW o \in ClerkOrgs, OrganizationChanges(o) PROVE EventInv'
  BY <1>4 DEF OrganizationChanges
<1>5. ASSUME NEW o \in ClerkOrgs, NEW u \in ClerkUsers, MembershipChanges(o, u) PROVE EventInv'
  BY <1>5 DEF MembershipChanges
<1> QED
  BY <1>1, <1>2, <1>3, <1>4, <1>5, InvDeliver, InvApplyNext DEF ClerkNext, WebhooksNext, SignInsNext

\* No event is applied twice or given up by its sender without having been
\* applied or recorded by an attempt that failed (clerkWebhook).
THEOREM EventsAreAccounted == ClerkSpec => []EventsAccounted
<1>1. EventInv => EventsAccounted
  BY DEF EventInv, Placed, AppliedOnce, WasApplied, EventsAccounted
<1> QED BY <1>1, EventInvInit, EventInvNext, PTL DEF ClerkSpec

------------------------------------------------------------------------------
(* The window of verdicts forgets nothing that counts. *)

Verdicts == [present : BOOLEAN, success : BOOLEAN, seenAt : Nat]

RegionTypeOK ==
  /\ minutes \in Nat
  /\ flying \subseteq [region : AggRegions, verdict : Verdicts]
  /\ window \in [AggRegions -> Verdicts]
  /\ newest \in [AggRegions -> Verdicts]

\* A verdict that no longer counts.
Void(v) == ~v.present \/ Expired(v)

\* What the window holds of a region: its newest verdict, or neither counts.
\* Time only ever makes a verdict expire, so this survives the clock.
InStep == \A r \in AggRegions \ overtaken :
  window[r] = newest[r] \/ (Void(window[r]) /\ Void(newest[r]))

RegionInv == RegionTypeOK /\ InStep

LEMMA NoVerdictType == NoVerdict \in Verdicts /\ Void(NoVerdict)
BY DEF NoVerdict, Verdicts, Void

LEMMA RegionInvInit == RegionInit => RegionInv
<1> SUFFICES ASSUME RegionInit PROVE RegionInv
  OBVIOUS
<1>1. minutes \in Nat /\ flying = {}
  BY DEF RegionInit
<1>2. window \in [AggRegions -> Verdicts] /\ newest \in [AggRegions -> Verdicts]
  BY NoVerdictType DEF RegionInit
<1>3. \A r \in AggRegions : window[r] = newest[r]
  BY DEF RegionInit
<1> QED BY <1>1, <1>2, <1>3 DEF RegionInv, RegionTypeOK, InStep

LEMMA InvRegionChecks ==
  ASSUME RegionInv, NEW r \in AggRegions, NEW success \in BOOLEAN, RegionChecks(r, success)
  PROVE  RegionInv'
<1> USE DEF RegionInv, RegionChecks
<1>1. [region |-> r, verdict |-> Verdict(success, minutes)] \in [region : AggRegions, verdict : Verdicts]
  BY DEF RegionTypeOK, Verdict, Verdicts
<1>2. RegionTypeOK'
  BY <1>1 DEF RegionTypeOK
<1>3. InStep'
  BY DEF InStep, Void, Expired
<1> QED BY <1>2, <1>3

\* A result that is older than the newest leaves its region overtaken; any other
\* one becomes both the region's entry and its newest.
LEMMA InvHandle ==
  ASSUME RegionInv, NEW result \in flying, Handle(result)
  PROVE  RegionInv'
<1> USE DEF RegionInv
<1> DEFINE q == result.region
           v == result.verdict
           older == newest[q].present /\ v.seenAt < newest[q].seenAt
<1>1. q \in AggRegions /\ v \in Verdicts
  BY DEF RegionTypeOK
<1>2. /\ flying' \subseteq flying /\ minutes' = minutes
      /\ window' = [window EXCEPT ![q] = v]
      /\ newest' = IF older THEN newest ELSE [newest EXCEPT ![q] = v]
      /\ overtaken' = IF older THEN overtaken \union {q} ELSE overtaken \ {q}
  BY DEF Handle, Stored
<1> HIDE DEF q, v, older
<1>3. RegionTypeOK'
  BY <1>1, <1>2 DEF RegionTypeOK
<1>4. ASSUME NEW r \in AggRegions \ overtaken'
      PROVE  (window[r] = newest[r] \/ (Void(window[r]) /\ Void(newest[r])))'
  <2>1. CASE r = q
    <3>1. ~older
      BY <2>1, <1>2
    <3>2. window'[r] = v /\ newest'[r] = v
      BY <3>1, <2>1, <1>1, <1>2 DEF RegionTypeOK
    <3> QED BY <3>2
  <2>2. CASE r # q
    <3>1. r \in AggRegions \ overtaken
      BY <2>2, <1>2, <1>4
    <3>2. window'[r] = window[r] /\ newest'[r] = newest[r]
      BY <2>2, <1>1, <1>2, <1>4 DEF RegionTypeOK
    <3>3. window[r] = newest[r] \/ (Void(window[r]) /\ Void(newest[r]))
      BY <3>1 DEF InStep
    <3> QED BY <3>2, <3>3, <1>2 DEF Void, Expired
  <2> QED BY <2>1, <2>2
<1>5. InStep'
  BY <1>4 DEF InStep
<1> QED BY <1>3, <1>5

LEMMA InvResultLost ==
  ASSUME RegionInv, NEW result \in flying, ResultLost(result)
  PROVE  RegionInv'
<1> USE DEF RegionInv, ResultLost
<1>1. RegionTypeOK'
  BY DEF RegionTypeOK
<1>2. InStep'
  BY DEF InStep, Void, Expired
<1> QED BY <1>1, <1>2

\* Only verdicts that do not count are evicted.
LEMMA InvEvictStale == RegionInv /\ EvictStale => RegionInv'
<1> SUFFICES ASSUME RegionInv, EvictStale PROVE RegionInv'
  OBVIOUS
<1> USE DEF RegionInv
<1>1. /\ \A r \in AggRegions : window'[r] = IF Kept(window[r]) THEN window[r] ELSE NoVerdict
      /\ UNCHANGED <<minutes, flying, newest, overtaken>>
  BY DEF EvictStale
<1>2. window' \in [AggRegions -> Verdicts]
  BY NoVerdictType DEF EvictStale, RegionTypeOK
<1>3. RegionTypeOK'
  BY <1>1, <1>2 DEF RegionTypeOK
<1>4. ASSUME NEW r \in AggRegions \ overtaken
      PROVE  window'[r] = newest[r] \/ (Void(window'[r]) /\ Void(newest[r]))
  <2>1. CASE Kept(window[r])
    BY <2>1, <1>1, <1>4 DEF InStep, Kept, Void
  <2>2. CASE ~Kept(window[r])
    <3>1. window'[r] = NoVerdict /\ Void(window[r])
      BY <2>2, <1>1 DEF Kept, Void
    <3>2. Void(newest[r])
      BY <3>1, <1>4 DEF InStep
    <3> QED BY <3>1, <3>2, NoVerdictType
  <2> QED BY <2>1, <2>2
<1>5. InStep'
  BY <1>1, <1>4 DEF InStep, Void, Expired
<1> QED BY <1>3, <1>5

LEMMA InvAggregatorRestarts == RegionInv /\ AggregatorRestarts => RegionInv'
<1> SUFFICES ASSUME RegionInv, AggregatorRestarts PROVE RegionInv'
  OBVIOUS
<1> USE DEF RegionInv, AggregatorRestarts
<1>1. RegionTypeOK'
  BY NoVerdictType DEF RegionTypeOK
<1>2. InStep'
  BY DEF InStep
<1> QED BY <1>1, <1>2

\* A verdict that does not count never counts again.
LEMMA InvMinutePasses == RegionInv /\ MinutePasses => RegionInv'
<1> SUFFICES ASSUME RegionInv, MinutePasses PROVE RegionInv'
  OBVIOUS
<1> USE DEF RegionInv, MinutePasses
<1>1. RegionTypeOK'
  BY DEF RegionTypeOK
<1>2. minutes \in Nat /\ minutes' = minutes + 1 /\ WindowExpiry \in Nat
  BY RegionAssumption DEF RegionTypeOK
<1>3. ASSUME NEW x \in Verdicts, Void(x)
      PROVE  ~x.present \/ minutes' - x.seenAt > WindowExpiry
  <2>1. x.seenAt \in Nat
    BY DEF Verdicts
  <2> QED BY <1>2, <1>3, <2>1 DEF Void, Expired
<1>4. ASSUME NEW r \in AggRegions \ overtaken
      PROVE  window[r] = newest[r] \/ (/\ ~window[r].present \/ minutes' - window[r].seenAt > WindowExpiry
                                       /\ ~newest[r].present \/ minutes' - newest[r].seenAt > WindowExpiry)
  <2>1. window[r] \in Verdicts /\ newest[r] \in Verdicts
    BY DEF RegionTypeOK
  <2> QED BY <1>3, <1>4, <2>1 DEF InStep
<1>5. InStep'
  BY <1>4 DEF InStep, Void, Expired
<1> QED BY <1>1, <1>5

LEMMA RegionInvNext == RegionInv /\ [RegionNext]_regionVars => RegionInv'
<1> SUFFICES ASSUME RegionInv, [RegionNext]_regionVars PROVE RegionInv'
  OBVIOUS
<1>1. CASE UNCHANGED regionVars
  <2>1. RegionTypeOK'
    BY <1>1 DEF regionVars, RegionInv, RegionTypeOK
  <2>2. InStep'
    BY <1>1 DEF regionVars, RegionInv, InStep, Void, Expired
  <2> QED BY <2>1, <2>2 DEF RegionInv
<1> QED
  BY <1>1, InvRegionChecks, InvHandle, InvResultLost, InvEvictStale, InvAggregatorRestarts,
     InvMinutePasses DEF RegionNext

\* The same regions count in the window and among the newest verdicts.
LEMMA SameConclusion == RegionInv => WindowLosesNothing
<1> SUFFICES ASSUME RegionInv, overtaken = {} PROVE Conclusion(window) = Conclusion(newest)
  BY DEF WindowLosesNothing
<1>1. ASSUME NEW r \in AggRegions, NEW success
      PROVE  (window[r].present /\ ~Expired(window[r]) /\ window[r].success = success)
             <=> (newest[r].present /\ ~Expired(newest[r]) /\ newest[r].success = success)
  <2>1. window[r] = newest[r] \/ (Void(window[r]) /\ Void(newest[r]))
    BY DEF RegionInv, InStep
  <2> QED BY <2>1 DEF Void
<1>2. \A success : Counted(window, success) = Counted(newest, success)
  <2> SUFFICES ASSUME NEW success
               PROVE  Counted(window, success) = Counted(newest, success)
    OBVIOUS
  <2>1. {r \in AggRegions : window[r].present /\ ~Expired(window[r]) /\ window[r].success = success}
        = {r \in AggRegions : newest[r].present /\ ~Expired(newest[r]) /\ newest[r].success = success}
    BY <1>1
  <2> QED BY <2>1 DEF Counted
<1>3. Counted(window, FALSE) = Counted(newest, FALSE) /\ Counted(window, TRUE) = Counted(newest, TRUE)
  BY <1>2
<1> QED BY <1>3, Zenon DEF Conclusion

\* Dropping stale verdicts never changes what maybeUpdate concludes, unless a
\* region's results arrived in another order than they were checked
\* (aggregator.go, handle and evictStale).
THEOREM NothingLost == RegionSpec => []WindowLosesNothing
BY RegionInvInit, RegionInvNext, SameConclusion, PTL DEF RegionSpec

------------------------------------------------------------------------------
(* Facts about numbers and sequences. *)

\* A set of natural numbers that is not empty has a least one.
LEMMA LeastNatural ==
  ASSUME NEW S, S \subseteq Nat, S # {}
  PROVE  \E n \in S : \A k \in S : n <= k
<1>1. IsWellFoundedOn(OpToRel(<, Nat), Nat)
  BY NatLessThanWellFounded
<1>2. PICK n \in S : \A k \in S : ~(<<k, n>> \in OpToRel(<, Nat))
  BY <1>1, WFMin
<1>3. \A k \in S : ~(k < n)
  BY <1>2 DEF OpToRel
<1> QED BY <1>3

\* The empty sequence has no place.
LEMMA NoPlaces == \A i : i \notin DOMAIN <<>>
<1>1. <<>> \in Seq({}) /\ Len(<<>>) = 0
  BY EmptySeq
<1>2. DOMAIN <<>> = 1..0
  BY <1>1, LenProperties
<1>3. 1..0 = {}
  OBVIOUS
<1> QED BY <1>2, <1>3

\* What is left when the first element of a sequence is taken.
LEMMA FirstTaken ==
  ASSUME NEW S, NEW q \in Seq(S), q # <<>>
  PROVE  /\ Tail(q) \in Seq(S) /\ Len(Tail(q)) = Len(q) - 1 /\ Len(q) \in Nat
         /\ DOMAIN q = 1..Len(q) /\ DOMAIN Tail(q) = 1..Len(Tail(q))
         /\ 1 \in DOMAIN q /\ Head(q) = q[1] /\ q[1] \in S
         /\ \A i \in DOMAIN Tail(q) : i + 1 \in DOMAIN q /\ Tail(q)[i] = q[i + 1]
<1>1. Tail(q) \in Seq(S) /\ Len(Tail(q)) = Len(q) - 1 /\ \A i \in 1..Len(Tail(q)) : Tail(q)[i] = q[i + 1]
  BY HeadTailProperties
<1>2. DOMAIN q = 1..Len(q) /\ Len(q) \in Nat /\ q \in [1..Len(q) -> S]
  BY LenProperties
<1>3. DOMAIN Tail(q) = 1..Len(Tail(q))
  BY <1>1, LenProperties
<1>4. 1 \in DOMAIN q /\ Head(q) = q[1]
  OBVIOUS
<1> QED BY <1>1, <1>2, <1>3, <1>4

\* What a sequence is when an element is added.
LEMMA LastAdded ==
  ASSUME NEW S, NEW q \in Seq(S), NEW x \in S
  PROVE  /\ Append(q, x) \in Seq(S) /\ Len(q) \in Nat
         /\ DOMAIN q = 1..Len(q) /\ DOMAIN Append(q, x) = 1..(Len(q) + 1)
         /\ Append(q, x)[Len(q) + 1] = x
         /\ \A i \in DOMAIN Append(q, x) : (i \in DOMAIN q /\ Append(q, x)[i] = q[i]) \/ i = Len(q) + 1
         /\ \A i \in DOMAIN q : i \in DOMAIN Append(q, x) /\ Append(q, x)[i] = q[i]
<1>1. /\ Append(q, x) \in Seq(S) /\ Len(Append(q, x)) = Len(q) + 1
      /\ \A i \in 1..Len(q) : Append(q, x)[i] = q[i]
      /\ Append(q, x)[Len(q) + 1] = x
  BY AppendProperties
<1>2. DOMAIN q = 1..Len(q) /\ Len(q) \in Nat
  BY LenProperties
<1>3. DOMAIN Append(q, x) = 1..(Len(q) + 1)
  BY <1>1, LenProperties
<1> QED BY <1>1, <1>2, <1>3

------------------------------------------------------------------------------
(* Browser checks.  A job is in one place: on the list, with a sidecar, or   *)
(* done with; where it is decides what is known of its run.  A message about *)
(* its own job that a check may still read is borne out by the run, or is    *)
(* preceded by one that is.                                                  *)

Outcomes == {"up", "failed"}
RunsOfJob == {<<>>, <<"up">>, <<"failed">>}
BrowserMessages == [job : Checks, outcome : Outcomes]
Endings == Outcomes \union {"unavailable", "no script", "timed out"}

ListType ==
  /\ browserJobs \in Seq(Checks)
  /\ pushed \subseteq Checks /\ IsFiniteSet(pushed)
  /\ running \in [Sidecars -> Checks \union {NoJob}]
  /\ holding \in [Sidecars -> Outcomes \union {"nothing", "error"}]
  /\ ran \in [Checks -> RunsOfJob]
  /\ mishap \in [Checks -> {"none", "no browser", "unheard"}]
  /\ deaths \in Nat

ChannelType ==
  /\ waiting \subseteq Checks
  /\ inbox \in [Checks -> Seq(BrowserMessages)]
  /\ verdict \in [Checks -> Endings \union {"none"}]

Queued(c) == \E i \in DOMAIN browserJobs : browserJobs[i] = c
Runs(c) == \E s \in Sidecars : running[s] = c
Unstarted(c) == verdict[c] = "none" /\ c \notin waiting
Untouched(c) == ran[c] = <<>> /\ mishap[c] = "none"

JobsOnce ==
  /\ \A i, j \in DOMAIN browserJobs : browserJobs[i] = browserJobs[j] => i = j
  /\ \A s, t \in Sidecars : running[s] = running[t] /\ running[s] # NoJob => s = t
  /\ \A c \in Checks : ~(Queued(c) /\ Runs(c))

\* What a sidecar knows of its job.
JobHeld(s, c) ==
  /\ holding[s] = "nothing" => Untouched(c)
  /\ holding[s] \in Outcomes => ran[c] = <<holding[s]>> /\ mishap[c] = "none"
  /\ holding[s] = "error" /\ ran[c] = <<>> => mishap[c] = "no browser"

RunsOnce ==
  /\ \A c \in Checks : Queued(c) => Untouched(c)
  /\ \A s \in Sidecars : IF running[s] = NoJob THEN holding[s] = "nothing" ELSE JobHeld(s, running[s])
  /\ \A c \in Checks : Unstarted(c) => ~Queued(c) /\ ~Runs(c) /\ Untouched(c)

Forgotten == {c \in pushed : ran[c] = <<>> /\ mishap[c] # "no browser" /\ ~Queued(c) /\ ~Runs(c)}

ListInv == ListType /\ JobsOnce /\ RunsOnce /\ Cardinality(Forgotten) <= deaths

\* The check c will read that its script succeeded.
SuccessOf(c) == [job |-> c, outcome |-> "up"]
WillHear(c) == \E j \in DOMAIN inbox[c] : inbox[c][j] = SuccessOf(c)

\* What message i of the subscription of c, about its own job, is worth.
Credible(c, i) ==
  /\ inbox[c][i].outcome = "up" => ran[c] = <<"up">>
  /\ inbox[c][i].outcome = "failed" =>
       FailureExplained(c) \/ \E j \in DOMAIN inbox[c] : j < i /\ inbox[c][j] = SuccessOf(c)

Messages ==
  /\ \A c \in Checks : inbox[c] # <<>> => c \in waiting
  /\ \A c \in Checks : \A i \in DOMAIN inbox[c] : inbox[c][i].job = c => Credible(c, i)

\* A success that was announced is heard before the failure of the catch.
Announced ==
  \A s \in Sidecars : \A c \in waiting :
    running[s] = c /\ holding[s] = "error" /\ ran[c] = <<"up">> /\ mishap[c] # "unheard" => WillHear(c)

VerdictsTrue ==
  \A c \in Checks : /\ verdict[c] = "up" => ran[c] = <<"up">>
                    /\ verdict[c] = "failed" => FailureExplained(c)

ChannelInv == ChannelType /\ Messages /\ Announced /\ VerdictsTrue

BrowserInv == ListInv /\ ChannelInv

LEMMA BrowserInvInit == BrowserInit => BrowserInv
<1> SUFFICES ASSUME BrowserInit PROVE BrowserInv
  OBVIOUS
<1>1. \A c \in Checks : inbox[c] = <<>> /\ ran[c] = <<>> /\ mishap[c] = "none" /\ verdict[c] = "none"
  BY DEF BrowserInit
<1>2. \A c \in Checks : ~Queued(c) /\ ~Runs(c)
  BY BrowserAssumption, NoPlaces DEF BrowserInit, Queued, Runs
<1>3. ListType
  <2>1. <<>> \in Seq(Checks)
    BY EmptySeq
  <2> QED BY <2>1, FS_EmptySet DEF BrowserInit, ListType, RunsOfJob
<1>4. ChannelType
  <2>1. <<>> \in Seq(BrowserMessages)
    BY EmptySeq
  <2> QED BY <2>1 DEF BrowserInit, ChannelType
<1>5. JobsOnce
  BY <1>2, NoPlaces DEF BrowserInit, JobsOnce
<1>6. RunsOnce
  BY <1>1, <1>2 DEF BrowserInit, RunsOnce, Untouched
<1>7. Forgotten = {}
  BY DEF BrowserInit, Forgotten
<1>8. Messages
  BY <1>1, NoPlaces, Zenon DEF Messages
<1>9. Announced
  BY DEF BrowserInit, Announced
<1>10. VerdictsTrue
  BY <1>1 DEF VerdictsTrue
<1> QED
  BY <1>3, <1>4, <1>5, <1>6, <1>7, <1>8, <1>9, <1>10, FS_EmptySet
     DEF BrowserInit, BrowserInv, ListInv, ChannelInv

------------------------------------------------------------------------------
(* The list of jobs and the sidecars. *)

\* No job is forgotten unless more sidecars have died.
LEMMA FewForgotten ==
  ASSUME ListInv, deaths' \in Nat, deaths' >= deaths, Forgotten' \subseteq Forgotten
  PROVE  Cardinality(Forgotten)' <= deaths'
<1> PICK old : old = Forgotten
  OBVIOUS
<1> PICK new : new = Forgotten'
  OBVIOUS
<1>1. IsFiniteSet(old) /\ Cardinality(old) \in Nat
  BY FS_Subset, FS_CardinalityType DEF ListInv, ListType, Forgotten
<1>2. Cardinality(new) <= Cardinality(old) /\ Cardinality(new) \in Nat
  BY <1>1, FS_Subset, FS_CardinalityType
<1>3. Cardinality(old) <= deaths /\ deaths \in Nat
  BY DEF ListInv, ListType
<1>4. Cardinality(new) <= deaths'
  BY <1>1, <1>2, <1>3
<1> QED BY <1>4

LEMMA NoDeath == ListInv /\ deaths' = deaths => deaths' \in Nat /\ deaths' >= deaths
<1> SUFFICES ASSUME ListInv, deaths' = deaths PROVE deaths' \in Nat /\ deaths' >= deaths
  OBVIOUS
<1>1. deaths \in Nat
  BY DEF ListInv, ListType
<1> QED BY <1>1

\* Checks that start or end without a push, and scripts that are saved.
LEMMA ListQuiet ==
  ASSUME ListInv, UNCHANGED <<browserJobs, pushed, running, holding, ran, mishap, deaths>>,
         \A c \in Checks : Unstarted(c)' => Unstarted(c)
  PROVE  ListInv'
<1>1. \A c \in Checks : (Queued(c)' <=> Queued(c)) /\ (Runs(c)' <=> Runs(c)) /\ (Untouched(c)' <=> Untouched(c))
  BY DEF Queued, Runs, Untouched
<1>2. ListType'
  BY DEF ListInv, ListType
<1>3. JobsOnce'
  BY <1>1 DEF ListInv, JobsOnce
<1>4. RunsOnce'
  <2>1. \A s \in Sidecars : IF running'[s] = NoJob THEN holding'[s] = "nothing" ELSE JobHeld(s, running[s])'
    BY DEF ListInv, RunsOnce, JobHeld, Untouched
  <2> QED BY <1>1, <2>1 DEF ListInv, RunsOnce
<1>5. Forgotten' \subseteq Forgotten
  BY DEF Forgotten, Queued, Runs
<1>6. deaths' \in Nat /\ deaths' >= deaths
  BY NoDeath
<1> QED BY <1>2, <1>3, <1>4, <1>5, <1>6, FewForgotten DEF ListInv

\* A push.
LEMMA JobAdded ==
  ASSUME ListInv, NEW c \in Checks, Unstarted(c),
         browserJobs' = Append(browserJobs, c), pushed' = pushed \union {c},
         UNCHANGED <<running, holding, ran, mishap, deaths>>,
         \A d \in Checks : Unstarted(d)' => Unstarted(d) /\ d # c
  PROVE  ListInv'
<1>1. ~Queued(c) /\ ~Runs(c) /\ Untouched(c)
  BY DEF ListInv, RunsOnce
<1>2. /\ browserJobs' \in Seq(Checks)
      /\ browserJobs'[Len(browserJobs) + 1] = c
      /\ Len(browserJobs) \in Nat
      /\ DOMAIN browserJobs = 1..Len(browserJobs) /\ DOMAIN browserJobs' = 1..(Len(browserJobs) + 1)
      /\ \A i \in DOMAIN browserJobs' : (i \in DOMAIN browserJobs /\ browserJobs'[i] = browserJobs[i]) \/ i = Len(browserJobs) + 1
      /\ \A i \in DOMAIN browserJobs : i \in DOMAIN browserJobs' /\ browserJobs'[i] = browserJobs[i]
  <2>1. browserJobs \in Seq(Checks)
    BY DEF ListInv, ListType
  <2> QED BY <2>1, LastAdded
<1>3. \A d \in Checks : /\ Queued(d)' <=> Queued(d) \/ d = c
                        /\ Runs(d)' <=> Runs(d)
                        /\ Untouched(d)' <=> Untouched(d)
  <2>1. \A d \in Checks : (Runs(d)' <=> Runs(d)) /\ (Untouched(d)' <=> Untouched(d))
    BY DEF Runs, Untouched
  <2>2. ASSUME NEW d \in Checks PROVE Queued(d)' <=> Queued(d) \/ d = c
    <3>1. ASSUME Queued(d)' PROVE Queued(d) \/ d = c
      BY <1>2, <3>1 DEF Queued
    <3>2. ASSUME Queued(d) PROVE Queued(d)'
      BY <1>2, <3>2 DEF Queued
    <3>3. Queued(c)'
      <4>1. Len(browserJobs) + 1 \in DOMAIN browserJobs'
        BY <1>2
      <4> QED BY <1>2, <4>1 DEF Queued
    <3> QED BY <3>1, <3>2, <3>3
  <2> QED BY <2>1, <2>2
<1>4. ListType'
  BY <1>2, FS_AddElement DEF ListInv, ListType
<1>5. JobsOnce'
  <2>1. \A i, j \in DOMAIN browserJobs' : browserJobs'[i] = browserJobs'[j] => i = j
    <3>1. \A i \in DOMAIN browserJobs' : (i \in DOMAIN browserJobs /\ browserJobs'[i] # c) \/ i = Len(browserJobs) + 1
      BY <1>1, <1>2 DEF Queued
    <3> QED BY <1>2, <3>1 DEF ListInv, JobsOnce
  <2>2. \A s, t \in Sidecars : running'[s] = running'[t] /\ running'[s] # NoJob => s = t
    BY DEF ListInv, JobsOnce
  <2>3. \A d \in Checks : ~(Queued(d)' /\ Runs(d)')
    BY <1>1, <1>3 DEF ListInv, JobsOnce
  <2> QED BY <2>1, <2>2, <2>3 DEF JobsOnce
<1>6. RunsOnce'
  <2>1. \A s \in Sidecars : IF running'[s] = NoJob THEN holding'[s] = "nothing" ELSE JobHeld(s, running[s])'
    BY DEF ListInv, RunsOnce, JobHeld, Untouched
  <2> QED BY <1>1, <1>3, <2>1 DEF ListInv, RunsOnce
<1>7. Forgotten' \subseteq Forgotten
  <2> SUFFICES ASSUME NEW d \in Forgotten' PROVE d \in Forgotten
    OBVIOUS
  <2>1. d \in pushed' /\ ran'[d] = <<>> /\ mishap'[d] # "no browser" /\ ~Queued(d)' /\ ~Runs(d)' /\ d \in Checks
    BY <1>4 DEF Forgotten, ListType
  <2> QED BY <1>3, <2>1 DEF Forgotten
<1>8. deaths' \in Nat /\ deaths' >= deaths
  BY NoDeath
<1> QED BY <1>4, <1>5, <1>6, <1>7, <1>8, FewForgotten DEF ListInv

LEMMA ListTake ==
  ASSUME ListInv, NEW s \in Sidecars, TakeJob(s)
  PROVE  ListInv'
<1> PICK c : c = Head(browserJobs)
  OBVIOUS
<1>1. /\ running[s] = NoJob /\ browserJobs # <<>>
      /\ running' = [running EXCEPT ![s] = c]
      /\ browserJobs' = Tail(browserJobs)
      /\ UNCHANGED <<pushed, waiting, verdict, holding, ran, mishap, deaths>>
  BY DEF TakeJob
<1>2. /\ browserJobs' \in Seq(Checks) /\ Len(browserJobs') = Len(browserJobs) - 1
      /\ Len(browserJobs) \in Nat
      /\ DOMAIN browserJobs = 1..Len(browserJobs) /\ DOMAIN browserJobs' = 1..Len(browserJobs')
      /\ \A i \in DOMAIN browserJobs' : i + 1 \in DOMAIN browserJobs /\ browserJobs'[i] = browserJobs[i + 1]
      /\ c = browserJobs[1] /\ 1 \in DOMAIN browserJobs /\ c \in Checks
  <2>1. browserJobs \in Seq(Checks)
    BY DEF ListInv, ListType
  <2> QED BY <1>1, <2>1, FirstTaken
<1>3. c = browserJobs[1] /\ 1 \in DOMAIN browserJobs /\ c \in Checks /\ c # NoJob
  BY <1>2, BrowserAssumption
<1>4. running'[s] = c /\ \A t \in Sidecars \ {s} : running'[t] = running[t]
  BY <1>1 DEF ListInv, ListType
<1>5. Queued(c) /\ ~Runs(c) /\ Untouched(c)
  BY <1>3 DEF Queued, ListInv, JobsOnce, RunsOnce
<1>6. \A d \in Checks : /\ Queued(d)' <=> Queued(d) /\ d # c
                        /\ Runs(d)' <=> Runs(d) \/ d = c
                        /\ Untouched(d)' <=> Untouched(d)
                        /\ Unstarted(d)' <=> Unstarted(d)
  <2> SUFFICES ASSUME NEW d \in Checks
               PROVE  /\ Queued(d)' <=> Queued(d) /\ d # c
                      /\ Runs(d)' <=> Runs(d) \/ d = c
                      /\ Untouched(d)' <=> Untouched(d)
                      /\ Unstarted(d)' <=> Unstarted(d)
    OBVIOUS
  <2>1. ASSUME Queued(d)' PROVE Queued(d) /\ d # c
    <3>1. PICK i \in DOMAIN browserJobs' : browserJobs'[i] = d
      BY <2>1 DEF Queued
    <3>2. i + 1 \in DOMAIN browserJobs /\ browserJobs[i + 1] = d /\ i + 1 # 1
      BY <1>2, <3>1
    <3> QED BY <1>3, <3>2 DEF Queued, ListInv, JobsOnce
  <2>2. ASSUME Queued(d), d # c PROVE Queued(d)'
    <3>1. PICK i \in DOMAIN browserJobs : browserJobs[i] = d
      BY <2>2 DEF Queued
    <3>2. i # 1 /\ i - 1 \in DOMAIN browserJobs' /\ browserJobs'[i - 1] = d
      BY <1>2, <1>3, <2>2, <3>1
    <3> QED BY <3>2 DEF Queued
  <2>3. Runs(d)' <=> Runs(d) \/ d = c
    BY <1>1, <1>3, <1>4, BrowserAssumption DEF Runs
  <2>4. (Untouched(d)' <=> Untouched(d)) /\ (Unstarted(d)' <=> Unstarted(d))
    BY <1>1 DEF Untouched, Unstarted
  <2> QED BY <2>1, <2>2, <2>3, <2>4
<1>7. ListType'
  BY <1>1, <1>2, <1>3 DEF ListInv, ListType
<1>8. JobsOnce'
  <2>1. \A i, j \in DOMAIN browserJobs' : browserJobs'[i] = browserJobs'[j] => i = j
    <3> SUFFICES ASSUME NEW i \in DOMAIN browserJobs', NEW j \in DOMAIN browserJobs', browserJobs'[i] = browserJobs'[j]
                 PROVE  i = j
      OBVIOUS
    <3>1. i + 1 \in DOMAIN browserJobs /\ j + 1 \in DOMAIN browserJobs /\ browserJobs[i + 1] = browserJobs[j + 1]
      BY <1>2
    <3>2. i + 1 = j + 1
      BY <3>1 DEF ListInv, JobsOnce
    <3> QED BY <1>2, <3>2
  <2>2. \A t, u \in Sidecars : running'[t] = running'[u] /\ running'[t] # NoJob => t = u
    BY <1>4, <1>5 DEF ListInv, JobsOnce, Runs
  <2>3. \A d \in Checks : ~(Queued(d)' /\ Runs(d)')
    BY <1>6 DEF ListInv, JobsOnce
  <2> QED BY <2>1, <2>2, <2>3 DEF JobsOnce
<1>9. RunsOnce'
  <2>1. ASSUME NEW t \in Sidecars
        PROVE  IF running'[t] = NoJob THEN holding'[t] = "nothing" ELSE JobHeld(t, running[t])'
    <3>1. CASE t = s
      <4>1. holding'[s] = "nothing"
        BY <1>1 DEF ListInv, RunsOnce
      <4>2. Untouched(c)'
        BY <1>3, <1>5, <1>6
      <4> QED BY <1>3, <1>4, <3>1, <4>1, <4>2 DEF JobHeld, Outcomes
    <3>2. CASE t # s
      BY <1>1, <1>4, <3>2 DEF ListInv, RunsOnce, JobHeld, Untouched
    <3> QED BY <3>1, <3>2
  <2>2. \A d \in Checks : Unstarted(d)' => ~Queued(d)' /\ ~Runs(d)' /\ Untouched(d)'
    BY <1>5, <1>6 DEF ListInv, RunsOnce
  <2>3. \A d \in Checks : Queued(d)' => Untouched(d)'
    BY <1>6 DEF ListInv, RunsOnce
  <2> QED BY <2>1, <2>2, <2>3 DEF RunsOnce
<1>10. Forgotten' \subseteq Forgotten
  <2> SUFFICES ASSUME NEW d \in Forgotten' PROVE d \in Forgotten
    OBVIOUS
  <2>1. d \in pushed' /\ ran'[d] = <<>> /\ mishap'[d] # "no browser" /\ ~Queued(d)' /\ ~Runs(d)' /\ d \in Checks
    BY <1>7 DEF Forgotten, ListType
  <2> QED BY <2>1, <1>1, <1>6 DEF Forgotten
<1>11. deaths' \in Nat /\ deaths' >= deaths
  BY <1>1, NoDeath
<1> QED BY <1>7, <1>8, <1>9, <1>10, <1>11, FewForgotten DEF ListInv

\* A sidecar goes on with its job: what it holds, what the job's script did and
\* what befell it change together.
LEMMA SidecarMoves ==
  ASSUME ListInv, NEW s \in Sidecars, NEW c \in Checks, running[s] = c,
         NEW h \in Outcomes \union {"error"}, holding' = [holding EXCEPT ![s] = h],
         NEW r \in RunsOfJob, ran' = [ran EXCEPT ![c] = r],
         NEW m \in {"none", "no browser", "unheard"}, mishap' = [mishap EXCEPT ![c] = m],
         UNCHANGED <<browserJobs, pushed, running, deaths, waiting, verdict>>,
         h \in Outcomes => r = <<h>> /\ m = "none",
         h = "error" /\ r = <<>> => m = "no browser"
  PROVE  ListInv'
<1>1. c # NoJob /\ Runs(c) /\ ~Queued(c) /\ ~Unstarted(c)
  <2>1. Runs(c)
    BY DEF Runs
  <2> QED BY <2>1, BrowserAssumption DEF ListInv, JobsOnce, RunsOnce
<1>2. /\ ran'[c] = r /\ mishap'[c] = m /\ holding'[s] = h
      /\ \A d \in Checks \ {c} : ran'[d] = ran[d] /\ mishap'[d] = mishap[d]
      /\ \A t \in Sidecars \ {s} : holding'[t] = holding[t] /\ running[t] # c
  BY <1>1 DEF ListInv, ListType, JobsOnce
<1>3. \A d \in Checks : (Queued(d)' <=> Queued(d)) /\ (Runs(d)' <=> Runs(d)) /\ (Unstarted(d)' <=> Unstarted(d))
  BY DEF Queued, Runs, Unstarted
<1>4. \A d \in Checks \ {c} : Untouched(d)' <=> Untouched(d)
  BY <1>2 DEF Untouched
<1>5. ListType'
  BY <1>1 DEF ListInv, ListType
<1>6. JobsOnce'
  BY <1>3 DEF ListInv, JobsOnce
<1>7. RunsOnce'
  <2>1. ASSUME NEW t \in Sidecars
        PROVE  IF running'[t] = NoJob THEN holding'[t] = "nothing" ELSE JobHeld(t, running[t])'
    <3>1. CASE t = s
      BY <1>1, <1>2, <3>1 DEF JobHeld, Outcomes
    <3>2. CASE t # s /\ running[t] = NoJob
      BY <1>2, <3>2 DEF ListInv, RunsOnce
    <3>3. CASE t # s /\ running[t] # NoJob
      <4>1. running[t] \in Checks /\ running[t] # c
        <5>1. running \in [Sidecars -> Checks \union {NoJob}]
          BY DEF ListInv, ListType
        <5> QED BY <1>2, <3>3, <5>1
      <4>2. JobHeld(t, running[t])
        BY <3>3 DEF ListInv, RunsOnce
      <4> PICK d : d = running[t]
        OBVIOUS
      <4>3. ran'[d] = ran[d] /\ mishap'[d] = mishap[d] /\ holding'[t] = holding[t]
        BY <1>2, <3>3, <4>1
      <4> QED BY <3>3, <4>2, <4>3 DEF JobHeld, Untouched
    <3> QED BY <3>1, <3>2, <3>3
  <2>2. \A d \in Checks : Queued(d)' => Untouched(d)'
    BY <1>1, <1>3, <1>4 DEF ListInv, RunsOnce
  <2>3. \A d \in Checks : Unstarted(d)' => ~Queued(d)' /\ ~Runs(d)' /\ Untouched(d)'
    BY <1>1, <1>3, <1>4 DEF ListInv, RunsOnce
  <2> QED BY <2>1, <2>2, <2>3 DEF RunsOnce
<1>8. Forgotten' \subseteq Forgotten
  <2> SUFFICES ASSUME NEW d \in Forgotten' PROVE d \in Forgotten
    OBVIOUS
  <2>1. d \in pushed /\ ran'[d] = <<>> /\ mishap'[d] # "no browser" /\ ~Queued(d)' /\ ~Runs(d)' /\ d \in Checks
    BY <1>5 DEF Forgotten, ListType
  <2>2. d # c
    BY <1>1, <1>3, <2>1
  <2> QED BY <1>2, <1>3, <2>1, <2>2 DEF Forgotten
<1>9. deaths' \in Nat /\ deaths' >= deaths
  BY NoDeath
<1> QED BY <1>5, <1>6, <1>7, <1>8, <1>9, FewForgotten DEF ListInv

\* A sidecar is rid of its job: it runs no more, and the others go on.
LEMMA SidecarFree ==
  ASSUME ListInv, NEW s \in Sidecars, running[s] # NoJob, Idle(s),
         UNCHANGED <<browserJobs, pushed, ran, mishap, waiting, verdict>>, deaths' \in Nat
  PROVE  /\ running[s] \in Checks
         /\ ListType' /\ JobsOnce' /\ RunsOnce'
         /\ Forgotten' \subseteq Forgotten \union {running[s]}
<1> PICK c : c = running[s]
  OBVIOUS
<1>1. c \in Checks /\ c # NoJob /\ Runs(c) /\ ~Queued(c)
  BY DEF ListInv, ListType, JobsOnce, Runs
<1>2. /\ running'[s] = NoJob /\ holding'[s] = "nothing"
      /\ \A t \in Sidecars \ {s} : running'[t] = running[t] /\ holding'[t] = holding[t] /\ running[t] # c
  BY <1>1 DEF Idle, ListInv, ListType, JobsOnce
<1>3. \A d \in Checks : /\ Queued(d)' <=> Queued(d)
                        /\ Runs(d)' <=> Runs(d) /\ d # c
                        /\ Untouched(d)' <=> Untouched(d)
                        /\ Unstarted(d)' <=> Unstarted(d)
  <2>1. \A d \in Checks : (Queued(d)' <=> Queued(d)) /\ (Untouched(d)' <=> Untouched(d)) /\ (Unstarted(d)' <=> Unstarted(d))
    BY DEF Queued, Untouched, Unstarted
  <2>2. \A d \in Checks : Runs(d)' <=> Runs(d) /\ d # c
    BY <1>1, <1>2, BrowserAssumption DEF Runs
  <2> QED BY <2>1, <2>2
<1>4. ListType'
  BY DEF Idle, ListInv, ListType
<1>5. JobsOnce'
  BY <1>2, <1>3 DEF ListInv, JobsOnce
<1>6. RunsOnce'
  <2>1. ASSUME NEW t \in Sidecars
        PROVE  IF running'[t] = NoJob THEN holding'[t] = "nothing" ELSE JobHeld(t, running[t])'
    BY <1>2 DEF ListInv, RunsOnce, JobHeld, Untouched
  <2> QED BY <1>3, <2>1 DEF ListInv, RunsOnce
<1>7. Forgotten' \subseteq Forgotten \union {c}
  <2> SUFFICES ASSUME NEW d \in Forgotten', d # c PROVE d \in Forgotten
    OBVIOUS
  <2>1. d \in pushed' /\ ran'[d] = <<>> /\ mishap'[d] # "no browser" /\ ~Queued(d)' /\ ~Runs(d)' /\ d \in Checks
    BY <1>4 DEF Forgotten, ListType
  <2> QED BY <1>3, <2>1 DEF Forgotten
<1> QED BY <1>1, <1>4, <1>5, <1>6, <1>7

\* A sidecar publishes the end of its job, which was run or lacked a browser.
LEMMA ListPublished ==
  ASSUME ListInv, NEW s \in Sidecars, running[s] # NoJob, holding[s] # "nothing", Idle(s),
         UNCHANGED <<browserJobs, pushed, ran, mishap, waiting, verdict>>, deaths' \in Nat, deaths' >= deaths
  PROVE  ListInv'
<1> PICK c : c = running[s]
  OBVIOUS
<1>1. /\ c \in Checks /\ ListType' /\ JobsOnce' /\ RunsOnce'
      /\ Forgotten' \subseteq Forgotten \union {c}
  BY SidecarFree
<1>2. JobHeld(s, c) /\ holding[s] \in Outcomes \union {"error"}
  BY DEF ListInv, ListType, RunsOnce
<1>3. ran[c] # <<>> \/ mishap[c] = "no browser"
  <2>1. <<holding[s]>> # <<>>
    OBVIOUS
  <2> QED BY <1>2, <2>1 DEF JobHeld
<1>4. c \notin Forgotten'
  BY <1>3 DEF Forgotten
<1>5. Forgotten' \subseteq Forgotten
  BY <1>1, <1>4
<1> QED BY <1>1, <1>5, FewForgotten DEF ListInv

LEMMA ListDies ==
  ASSUME ListInv, NEW s \in Sidecars, SidecarDies(s)
  PROVE  ListInv'
<1> PICK c : c = running[s]
  OBVIOUS
<1>1. c # NoJob /\ Idle(s) /\ deaths' = deaths + 1 /\ UNCHANGED <<browserJobs, pushed, ran, mishap, waiting, verdict>>
  BY DEF SidecarDies, checkVars
<1>2. deaths \in Nat /\ deaths' \in Nat
  <2>1. deaths \in Nat
    BY DEF ListInv, ListType
  <2> QED BY <1>1, <2>1
<1> PICK old : old = Forgotten
  OBVIOUS
<1> PICK new : new = Forgotten'
  OBVIOUS
<1>3. ListType' /\ JobsOnce' /\ RunsOnce' /\ new \subseteq old \union {c}
  BY <1>1, <1>2, SidecarFree
<1>4. IsFiniteSet(old) /\ Cardinality(old) \in Nat /\ Cardinality(old) <= deaths
  BY FS_Subset, FS_CardinalityType DEF ListInv, ListType, Forgotten
<1>5. IsFiniteSet(old \union {c}) /\ Cardinality(old \union {c}) <= Cardinality(old) + 1
      /\ Cardinality(old \union {c}) \in Nat
  <2>1. IsFiniteSet(old \union {c})
        /\ Cardinality(old \union {c}) = IF c \in old THEN Cardinality(old) ELSE Cardinality(old) + 1
    BY <1>4, FS_AddElement
  <2> QED BY <1>4, <2>1
<1>6. Cardinality(new) <= Cardinality(old \union {c}) /\ Cardinality(new) \in Nat
  BY <1>3, <1>5, FS_Subset, FS_CardinalityType
<1>7. Cardinality(new) <= deaths + 1
  BY <1>2, <1>4, <1>5, <1>6
<1> QED BY <1>1, <1>3, <1>7 DEF ListInv

------------------------------------------------------------------------------
(* The channel of results. *)

\* What is known of the runs stays known.
Follows ==
  \A c \in Checks : /\ ran[c] = <<"up">> => ran'[c] = <<"up">>
                    /\ FailureExplained(c) => FailureExplained(c)'

LEMMA SameRuns == UNCHANGED <<ran, mishap>> => Follows
BY DEF Follows, FailureExplained

LEMMA ChannelKept ==
  ASSUME ChannelInv, UNCHANGED <<waiting, inbox, verdict>>, Follows, Announced'
  PROVE  ChannelInv'
<1>1. ChannelType'
  BY DEF ChannelInv, ChannelType
<1>2. Messages'
  <2>1. ASSUME NEW c \in Checks, NEW i \in DOMAIN inbox'[c], inbox'[c][i].job = c
        PROVE  Credible(c, i)'
    <3>1. Credible(c, i)
      BY <2>1 DEF ChannelInv, Messages
    <3> QED BY <3>1 DEF Credible, Follows
  <2>2. \A c \in Checks : inbox'[c] # <<>> => c \in waiting'
    BY DEF ChannelInv, Messages
  <2> QED BY <2>1, <2>2 DEF Messages
<1>3. VerdictsTrue'
  BY DEF ChannelInv, VerdictsTrue, Follows
<1> QED BY <1>1, <1>2, <1>3 DEF ChannelInv

\* The end of a check with a verdict that is its job's, or none of its job.
LEMMA ChannelEnds ==
  ASSUME ChannelInv, NEW c \in Checks, NEW v \in Endings, Ends(c, v),
         v = "up" => ran[c] = <<"up">>, v = "failed" => FailureExplained(c),
         UNCHANGED <<running, holding, ran, mishap>>
  PROVE  /\ ChannelInv'
         /\ \A d \in Checks : Unstarted(d)' => Unstarted(d) /\ d # c
<1>1. /\ waiting' = waiting \ {c}
      /\ verdict'[c] = v /\ inbox'[c] = <<>>
      /\ \A d \in Checks \ {c} : verdict'[d] = verdict[d] /\ inbox'[d] = inbox[d]
  BY DEF Ends, ChannelInv, ChannelType
<1>2. ChannelType'
  <2>1. <<>> \in Seq(BrowserMessages)
    BY EmptySeq
  <2> QED BY <2>1 DEF Ends, ChannelInv, ChannelType
<1>3. Messages'
  <2>1. ASSUME NEW d \in Checks, NEW i \in DOMAIN inbox'[d], inbox'[d][i].job = d
        PROVE  Credible(d, i)'
    <3>1. d # c
      BY NoPlaces, <1>1, Zenon
    <3>2. inbox'[d] = inbox[d]
      BY <1>1, <3>1
    <3>3. Credible(d, i)
      BY <2>1, <3>2 DEF ChannelInv, Messages
    <3> QED BY <3>2, <3>3 DEF Credible, FailureExplained
  <2>2. \A d \in Checks : inbox'[d] # <<>> => d \in waiting'
    BY <1>1 DEF ChannelInv, Messages
  <2> QED BY <2>1, <2>2 DEF Messages
<1>4. Announced'
  <2>1. ASSUME NEW s \in Sidecars, NEW d \in waiting', running'[s] = d, holding'[s] = "error",
               ran'[d] = <<"up">>, mishap'[d] # "unheard"
        PROVE  WillHear(d)'
    <3>1. d \in waiting /\ d # c /\ d \in Checks
      BY <1>1 DEF ChannelInv, ChannelType
    <3>2. WillHear(d)
      BY <2>1, <3>1 DEF ChannelInv, Announced
    <3> QED BY <1>1, <3>1, <3>2 DEF WillHear
  <2> QED BY <2>1 DEF Announced
<1>5. VerdictsTrue'
  BY <1>1 DEF ChannelInv, VerdictsTrue, FailureExplained
<1>6. \A d \in Checks : Unstarted(d)' => Unstarted(d) /\ d # c
  BY <1>1 DEF Unstarted, Endings, Outcomes
<1> QED BY <1>2, <1>3, <1>4, <1>5, <1>6 DEF ChannelInv

\* Another job's result is passed over.
LEMMA ChannelPasses ==
  ASSUME ChannelInv, NEW c \in Checks, inbox[c] # <<>>, Head(inbox[c]).job # c,
         inbox' = [inbox EXCEPT ![c] = Tail(@)],
         UNCHANGED <<waiting, verdict, running, holding, ran, mishap>>
  PROVE  ChannelInv'
<1> PICK box : box = inbox[c]
  OBVIOUS
<1>1. box \in Seq(BrowserMessages) /\ box # <<>>
  BY DEF ChannelInv, ChannelType
<1>2. /\ Tail(box) \in Seq(BrowserMessages) /\ Len(Tail(box)) = Len(box) - 1 /\ Len(box) \in Nat
      /\ DOMAIN box = 1..Len(box) /\ DOMAIN Tail(box) = 1..Len(Tail(box))
      /\ 1 \in DOMAIN box /\ Head(box) = box[1]
      /\ \A i \in DOMAIN Tail(box) : i + 1 \in DOMAIN box /\ Tail(box)[i] = box[i + 1]
  BY <1>1, FirstTaken
<1>3. inbox'[c] = Tail(box) /\ \A d \in Checks \ {c} : inbox'[d] = inbox[d]
  BY DEF ChannelInv, ChannelType
<1>4. ChannelType'
  BY <1>2 DEF ChannelInv, ChannelType
\* What c has yet to read of its own is where it was, one place nearer.
<1>5. ASSUME NEW j \in DOMAIN box, box[j] = SuccessOf(c)
      PROVE  j - 1 \in DOMAIN Tail(box) /\ Tail(box)[j - 1] = SuccessOf(c)
  <2>1. j # 1
    BY <1>2, <1>5 DEF SuccessOf
  <2>2. j - 1 \in DOMAIN Tail(box) /\ Tail(box)[j - 1] = box[(j - 1) + 1]
    BY <1>2, <2>1
  <2> QED BY <1>2, <1>5, <2>2
<1>6. ASSUME NEW d \in Checks, WillHear(d) PROVE WillHear(d)'
  <2>1. CASE d = c
    <3>1. PICK j \in DOMAIN box : box[j] = SuccessOf(c)
      BY <1>6, <2>1 DEF WillHear
    <3>2. j - 1 \in DOMAIN Tail(box) /\ Tail(box)[j - 1] = SuccessOf(c)
      BY <1>5, <3>1
    <3>3. \E k \in DOMAIN inbox'[d] : inbox'[d][k] = SuccessOf(c)
      BY <1>3, <2>1, <3>2
    <3> QED BY <2>1, <3>3 DEF WillHear, SuccessOf
  <2>2. CASE d # c
    <3>1. inbox'[d] = inbox[d]
      BY <1>3, <2>2
    <3> QED BY <1>6, <3>1 DEF WillHear, SuccessOf
  <2> QED BY <2>1, <2>2
<1>7. Messages'
  <2>1. ASSUME NEW d \in Checks, NEW i \in DOMAIN inbox'[d], inbox'[d][i].job = d
        PROVE  Credible(d, i)'
    <3>1. CASE d # c
      <4>1. inbox'[d] = inbox[d]
        BY <1>3, <3>1
      <4>2. Credible(d, i)
        BY <2>1, <4>1 DEF ChannelInv, Messages
      <4> QED BY <4>1, <4>2 DEF Credible, FailureExplained, SuccessOf
    <3>2. CASE d = c
      <4>1. i \in DOMAIN Tail(box) /\ inbox'[d][i] = box[i + 1] /\ i + 1 \in DOMAIN box
        BY <1>2, <1>3, <3>2
      <4>2. Credible(c, i + 1)
        BY <2>1, <3>2, <4>1 DEF ChannelInv, Messages
      <4>3. box[i + 1].outcome = "up" => ran[c] = <<"up">>
        BY <4>2 DEF Credible
      <4>4. ASSUME box[i + 1].outcome = "failed", ~FailureExplained(c)
            PROVE  \E k \in DOMAIN inbox'[c] : k < i /\ inbox'[c][k] = SuccessOf(c)
        <5>1. PICK j \in DOMAIN box : j < i + 1 /\ box[j] = SuccessOf(c)
          BY <4>2, <4>4 DEF Credible
        <5>2. j - 1 \in DOMAIN Tail(box) /\ Tail(box)[j - 1] = SuccessOf(c)
          BY <1>5, <5>1
        <5>3. j - 1 < i
          BY <1>2, <4>1, <5>1
        <5> QED BY <1>3, <5>2, <5>3
      <4> QED BY <3>2, <4>1, <4>3, <4>4 DEF Credible, FailureExplained, SuccessOf
    <3> QED BY <3>1, <3>2
  <2>2. \A d \in Checks : inbox'[d] # <<>> => d \in waiting'
    BY <1>1, <1>3 DEF ChannelInv, Messages
  <2> QED BY <2>1, <2>2 DEF Messages
<1>8. Announced'
  <2>1. ASSUME NEW s \in Sidecars, NEW d \in waiting', running'[s] = d, holding'[s] = "error",
               ran'[d] = <<"up">>, mishap'[d] # "unheard"
        PROVE  WillHear(d)'
    <3>1. d \in Checks /\ WillHear(d)
      BY <2>1 DEF ChannelInv, ChannelType, Announced
    <3> QED BY <1>6, <3>1
  <2> QED BY <2>1 DEF Announced
<1>9. VerdictsTrue'
  BY DEF ChannelInv, VerdictsTrue, FailureExplained
<1> QED BY <1>4, <1>7, <1>8, <1>9 DEF ChannelInv

\* A subscription gets what is published while it lasts, after what it has.
LEMMA Published ==
  ASSUME ChannelType, NEW c \in Checks, NEW o \in Outcomes, NEW reached \in BOOLEAN, Announce(c, o, reached),
         NEW d \in Checks
  PROVE  /\ inbox'[d] \in Seq(BrowserMessages)
         /\ \A i \in DOMAIN inbox[d] : i \in DOMAIN inbox'[d] /\ inbox'[d][i] = inbox[d][i]
         /\ \A i \in DOMAIN inbox'[d] :
              \/ i \in DOMAIN inbox[d] /\ inbox'[d][i] = inbox[d][i]
              \/ /\ inbox'[d][i] = [job |-> c, outcome |-> o] /\ d \in waiting /\ reached
                 /\ \A j \in DOMAIN inbox[d] : j < i
         /\ reached /\ d \in waiting => \E i \in DOMAIN inbox'[d] : inbox'[d][i] = [job |-> c, outcome |-> o]
<1> PICK message : message = [job |-> c, outcome |-> o]
  OBVIOUS
<1> PICK box : box = inbox[d]
  OBVIOUS
<1>1. message \in BrowserMessages /\ box \in Seq(BrowserMessages)
  BY DEF BrowserMessages, ChannelType
<1>2. inbox'[d] = IF reached /\ d \in waiting THEN Append(box, message) ELSE box
  BY DEF Announce
<1>3. /\ Append(box, message) \in Seq(BrowserMessages) /\ Len(box) \in Nat
      /\ DOMAIN box = 1..Len(box) /\ DOMAIN Append(box, message) = 1..(Len(box) + 1)
      /\ Append(box, message)[Len(box) + 1] = message
      /\ \A i \in DOMAIN Append(box, message) : (i \in DOMAIN box /\ Append(box, message)[i] = box[i]) \/ i = Len(box) + 1
      /\ \A i \in DOMAIN box : i \in DOMAIN Append(box, message) /\ Append(box, message)[i] = box[i]
  BY <1>1, LastAdded
<1>4. CASE reached /\ d \in waiting
  <2>1. inbox'[d] = Append(box, message)
    BY <1>2, <1>4
  <2>2. Len(box) + 1 \in DOMAIN Append(box, message) /\ \A j \in DOMAIN box : j < Len(box) + 1
    BY <1>3
  <2> QED BY <1>3, <1>4, <2>1, <2>2
<1>5. CASE ~(reached /\ d \in waiting)
  <2>1. inbox'[d] = box
    BY <1>2, <1>5
  <2> QED BY <1>1, <1>5, <2>1
<1> QED BY <1>4, <1>5

LEMMA ChannelAnnounces ==
  ASSUME ChannelInv, NEW c \in Checks, NEW o \in Outcomes, NEW reached \in BOOLEAN, Announce(c, o, reached),
         UNCHANGED <<waiting, verdict>>, Follows, Announced',
         o = "up" => ran'[c] = <<"up">>,
         o = "failed" /\ c \in waiting => FailureExplained(c)' \/ WillHear(c)
  PROVE  ChannelInv'
<1>1. ChannelType'
  <2>1. \A d \in Checks : inbox'[d] \in Seq(BrowserMessages)
    BY Published DEF ChannelInv
  <2> QED BY <2>1 DEF Announce, ChannelInv, ChannelType
<1>2. Messages'
  <2>1. ASSUME NEW d \in Checks, NEW i \in DOMAIN inbox'[d], inbox'[d][i].job = d
        PROVE  Credible(d, i)'
    <3>1. \A j \in DOMAIN inbox[d] : j \in DOMAIN inbox'[d] /\ inbox'[d][j] = inbox[d][j]
      BY Published DEF ChannelInv
    <3>2. CASE i \in DOMAIN inbox[d] /\ inbox'[d][i] = inbox[d][i]
      <4>1. Credible(d, i)
        BY <2>1, <3>2 DEF ChannelInv, Messages
      <4> QED BY <3>1, <3>2, <4>1 DEF Credible, Follows, SuccessOf
    <3>3. CASE /\ inbox'[d][i] = [job |-> c, outcome |-> o] /\ d \in waiting /\ reached
               /\ \A j \in DOMAIN inbox[d] : j < i
      <4>1. d = c /\ inbox'[d][i].outcome = o
        BY <2>1, <3>3
      <4>2. CASE o = "up"
        BY <4>1, <4>2 DEF Credible
      <4>3. CASE o = "failed" /\ FailureExplained(c)'
        BY <4>1, <4>3 DEF Credible
      <4>4. CASE o = "failed" /\ WillHear(c)
        <5>1. PICK j \in DOMAIN inbox[d] : inbox[d][j] = SuccessOf(c)
          BY <4>1, <4>4 DEF WillHear
        <5>2. j \in DOMAIN inbox'[d] /\ j < i /\ inbox'[d][j] = SuccessOf(c)
          BY <3>1, <3>3, <5>1
        <5>3. SuccessOf(c)' = SuccessOf(c)
          BY DEF SuccessOf
        <5>4. \E k \in DOMAIN inbox'[d] : k < i /\ inbox'[d][k] = SuccessOf(c)
          BY <5>2
        <5>5. o # "up"
          BY <4>4
        <5> QED BY <4>1, <5>3, <5>4, <5>5 DEF Credible
      <4> QED BY <3>3, <4>1, <4>2, <4>3, <4>4 DEF Outcomes
    <3>4. \/ i \in DOMAIN inbox[d] /\ inbox'[d][i] = inbox[d][i]
          \/ /\ inbox'[d][i] = [job |-> c, outcome |-> o] /\ d \in waiting /\ reached
             /\ \A j \in DOMAIN inbox[d] : j < i
      BY Published DEF ChannelInv
    <3> QED BY <3>2, <3>3, <3>4
  <2>2. ASSUME NEW d \in Checks, inbox'[d] # <<>> PROVE d \in waiting'
    BY <2>2 DEF Announce, ChannelInv, Messages
  <2> QED BY <2>1, <2>2 DEF Messages
<1>3. VerdictsTrue'
  BY DEF ChannelInv, VerdictsTrue, Follows
<1> QED BY <1>1, <1>2, <1>3 DEF ChannelInv

\* What a check will hear it still will when more is published.
LEMMA HeardStays ==
  ASSUME ChannelInv, NEW c \in Checks, NEW o \in Outcomes, NEW reached \in BOOLEAN, Announce(c, o, reached),
         NEW d \in Checks, WillHear(d)
  PROVE  WillHear(d)'
<1>1. PICK j \in DOMAIN inbox[d] : inbox[d][j] = SuccessOf(d)
  BY DEF WillHear
<1>2. j \in DOMAIN inbox'[d] /\ inbox'[d][j] = SuccessOf(d)
  BY <1>1, Published DEF ChannelInv
<1>3. \E k \in DOMAIN inbox'[d] : inbox'[d][k] = SuccessOf(d)
  BY <1>2
<1> QED BY <1>3 DEF WillHear, SuccessOf

LEMMA SuccessHeard ==
  ASSUME ChannelInv, NEW c \in Checks, NEW o \in Outcomes, NEW reached \in BOOLEAN, Announce(c, o, reached),
         o = "up", reached, c \in waiting
  PROVE  WillHear(c)'
<1>1. \E i \in DOMAIN inbox'[c] : inbox'[c][i] = [job |-> c, outcome |-> o]
  BY Published DEF ChannelInv
<1> QED BY <1>1 DEF WillHear, SuccessOf

------------------------------------------------------------------------------
(* The steps. *)

LEMMA BrowserCheck ==
  ASSUME BrowserInv, NEW c \in Checks, CannotStart(c) \/ PushUnanswered(c) \/ Enqueue(c) \/ ReadMessage(c) \/ GiveUp(c)
  PROVE  BrowserInv'
<1> USE DEF BrowserInv
<1>1. CASE CannotStart(c)
  <2> PICK v : v = IF scriptSaved THEN "unavailable" ELSE "no script"
    OBVIOUS
  <2>1. v \in Endings /\ v \notin Outcomes /\ Ends(c, v)
    BY <1>1 DEF CannotStart, Endings, Outcomes
  <2>2. UNCHANGED <<browserJobs, pushed, running, holding, ran, mishap, deaths>>
    BY <1>1 DEF CannotStart, sidecarVars
  <2>3. ChannelInv' /\ \A d \in Checks : Unstarted(d)' => Unstarted(d) /\ d # c
    BY <2>1, <2>2, ChannelEnds DEF Outcomes
  <2> QED BY <2>2, <2>3, ListQuiet
<1>2. CASE PushUnanswered(c)
  <2>1. "unavailable" \in Endings /\ Ends(c, "unavailable") /\ Unstarted(c)
    BY <1>2 DEF PushUnanswered, Endings, Unstarted
  <2>2. /\ UNCHANGED <<running, holding, ran, mishap, deaths>>
        /\ browserJobs' = Append(browserJobs, c) /\ pushed' = pushed \union {c}
    BY <1>2 DEF PushUnanswered, sidecarVars
  <2>3. ChannelInv' /\ \A d \in Checks : Unstarted(d)' => Unstarted(d) /\ d # c
    BY <2>1, <2>2, ChannelEnds
  <2> QED BY <2>1, <2>2, <2>3, JobAdded
<1>3. CASE Enqueue(c)
  <2>1. /\ Unstarted(c) /\ waiting' = waiting \union {c}
        /\ browserJobs' = Append(browserJobs, c) /\ pushed' = pushed \union {c}
        /\ UNCHANGED <<inbox, verdict, running, holding, ran, mishap, deaths>>
    BY <1>3 DEF Enqueue, Unstarted, sidecarVars
  <2>2. \A d \in Checks : Unstarted(d)' => Unstarted(d) /\ d # c
    BY <2>1 DEF Unstarted
  <2>3. ListInv'
    BY <2>1, <2>2, JobAdded
  <2>4. ~Runs(c)
    BY <2>1 DEF ListInv, RunsOnce
  <2>5. ChannelType'
    BY <2>1 DEF ChannelInv, ChannelType
  <2>6. Messages'
    <3>1. ASSUME NEW d \in Checks, NEW i \in DOMAIN inbox'[d], inbox'[d][i].job = d
          PROVE  Credible(d, i)'
      <4>1. Credible(d, i)
        BY <2>1, <3>1 DEF ChannelInv, Messages
      <4> QED BY <2>1, <4>1 DEF Credible, FailureExplained
    <3>2. \A d \in Checks : inbox'[d] # <<>> => d \in waiting'
      BY <2>1 DEF ChannelInv, Messages
    <3> QED BY <3>1, <3>2 DEF Messages
  <2>7. Announced'
    BY <2>1, <2>4 DEF ChannelInv, Announced, Runs, WillHear
  <2>8. VerdictsTrue'
    BY <2>1 DEF ChannelInv, VerdictsTrue, FailureExplained
  <2> QED BY <2>3, <2>5, <2>6, <2>7, <2>8 DEF ChannelInv
<1>4. CASE GiveUp(c)
  <2>1. "timed out" \in Endings /\ Ends(c, "timed out")
    BY <1>4 DEF GiveUp, Endings
  <2>2. UNCHANGED <<browserJobs, pushed, running, holding, ran, mishap, deaths>>
    BY <1>4 DEF GiveUp, sidecarVars
  <2>3. ChannelInv' /\ \A d \in Checks : Unstarted(d)' => Unstarted(d) /\ d # c
    BY <2>1, <2>2, ChannelEnds
  <2> QED BY <2>2, <2>3, ListQuiet
<1>5. CASE ReadMessage(c)
  <2> PICK box : box = inbox[c]
    OBVIOUS
  <2> PICK message : message = Head(box)
    OBVIOUS
  <2>1. /\ box \in Seq(BrowserMessages) /\ box # <<>>
        /\ UNCHANGED <<browserJobs, pushed, running, holding, ran, mishap, deaths>>
    BY <1>5 DEF ReadMessage, ChannelInv, ChannelType, sidecarVars
  <2>2. /\ message = box[1] /\ 1 \in DOMAIN box /\ message \in BrowserMessages
        /\ DOMAIN box = 1..Len(box) /\ Len(box) \in Nat
    BY <2>1, FirstTaken
  <2>3. CASE message.job = c
    <3>1. Ends(c, message.outcome)
      BY <1>5, <2>3 DEF ReadMessage, IsOwnResult
    <3>2. message.outcome \in Endings
      BY <2>2 DEF BrowserMessages, Endings
    <3>3. Credible(c, 1)
      BY <2>2, <2>3 DEF ChannelInv, Messages
    <3>4. \A j \in DOMAIN box : ~(j < 1)
      BY <2>2
    <3>5. /\ message.outcome = "up" => ran[c] = <<"up">>
          /\ message.outcome = "failed" => FailureExplained(c)
      BY <2>2, <3>3, <3>4 DEF Credible
    <3>6. ChannelInv' /\ \A d \in Checks : Unstarted(d)' => Unstarted(d) /\ d # c
      BY <2>1, <3>1, <3>2, <3>5, ChannelEnds
    <3> QED BY <2>1, <3>6, ListQuiet
  <2>4. CASE message.job # c
    <3>1. inbox' = [inbox EXCEPT ![c] = Tail(@)] /\ UNCHANGED <<waiting, verdict>>
      BY <1>5, <2>4 DEF ReadMessage, IsOwnResult
    <3>2. ChannelInv'
      BY <2>1, <2>4, <3>1, ChannelPasses
    <3>3. \A d \in Checks : Unstarted(d)' => Unstarted(d)
      BY <3>1 DEF Unstarted
    <3> QED BY <2>1, <3>2, <3>3, ListQuiet
  <2> QED BY <2>3, <2>4
<1> QED BY <1>1, <1>2, <1>3, <1>4, <1>5

\* A sidecar that has said nothing leaves what the checks know alone.
LEMMA ChannelQuiet ==
  ASSUME BrowserInv, UNCHANGED <<waiting, inbox, verdict>>, Follows,
         \A s \in Sidecars : \A c \in waiting :
           running'[s] = c /\ holding'[s] = "error" /\ ran'[c] = <<"up">> /\ mishap'[c] # "unheard"
             => running[s] = c /\ holding[s] = "error" /\ ran[c] = <<"up">> /\ mishap[c] # "unheard"
  PROVE  ChannelInv'
<1>1. Announced'
  BY DEF BrowserInv, ChannelInv, Announced, WillHear, SuccessOf
<1> QED BY <1>1, ChannelKept DEF BrowserInv

LEMMA BrowserTake ==
  ASSUME BrowserInv, NEW s \in Sidecars, TakeJob(s)
  PROVE  BrowserInv'
<1>1. UNCHANGED <<waiting, inbox, verdict, holding, ran, mishap>> /\ running[s] = NoJob
  BY DEF TakeJob
<1>2. holding[s] = "nothing" /\ \A t \in Sidecars \ {s} : running'[t] = running[t]
  BY <1>1 DEF TakeJob, BrowserInv, ListInv, ListType, RunsOnce
<1>3. Follows
  BY <1>1, SameRuns
<1>4. ChannelInv'
  <2>1. ASSUME NEW t \in Sidecars, NEW c \in waiting, running'[t] = c, holding'[t] = "error"
        PROVE  running[t] = c
    BY <1>1, <1>2, <2>1
  <2> QED BY <1>1, <1>3, <2>1, ChannelQuiet
<1> QED BY <1>4, ListTake DEF BrowserInv

LEMMA BrowserLaunchFails ==
  ASSUME BrowserInv, NEW s \in Sidecars, LaunchFails(s)
  PROVE  BrowserInv'
<1> PICK c : c = running[s]
  OBVIOUS
<1>1. /\ c # NoJob /\ holding[s] = "nothing"
      /\ holding' = [holding EXCEPT ![s] = "error"]
      /\ mishap' = [mishap EXCEPT ![c] = "no browser"]
      /\ UNCHANGED <<browserJobs, pushed, running, ran, deaths, waiting, verdict, inbox>>
  BY DEF LaunchFails, checkVars
<1>2. c \in Checks /\ ran[c] = <<>> /\ mishap[c] = "none"
  BY <1>1 DEF BrowserInv, ListInv, ListType, RunsOnce, JobHeld, Untouched
<1>3. ran' = [ran EXCEPT ![c] = <<>>] /\ <<>> \in RunsOfJob
  BY <1>1, <1>2 DEF BrowserInv, ListInv, ListType, RunsOfJob
<1>4. ListInv'
  <2>1. /\ "error" \in Outcomes \union {"error"} /\ "error" \notin Outcomes
        /\ "no browser" \in {"none", "no browser", "unheard"}
    BY DEF Outcomes
  <2>2. ListInv /\ running[s] = c
    BY DEF BrowserInv
  <2> QED BY <1>1, <1>2, <1>3, <2>1, <2>2, SidecarMoves
<1>5. <<>> # <<"up">> /\ <<>> # <<"failed">>
  OBVIOUS
<1>6. mishap'[c] = "no browser" /\ \A d \in Checks \ {c} : mishap'[d] = mishap[d]
  BY <1>1, <1>2 DEF BrowserInv, ListInv, ListType
<1>7. Follows
  BY <1>1, <1>2, <1>6 DEF Follows, FailureExplained
<1>8. ChannelInv'
  <2>1. ASSUME NEW t \in Sidecars, NEW d \in waiting,
               running'[t] = d, holding'[t] = "error", ran'[d] = <<"up">>, mishap'[d] # "unheard"
        PROVE  running[t] = d /\ holding[t] = "error" /\ ran[d] = <<"up">> /\ mishap[d] # "unheard"
    <3>1. d # c /\ d \in Checks
      BY <1>1, <1>2, <1>5, <2>1 DEF BrowserInv, ChannelInv, ChannelType
    <3>2. t # s
      BY <1>1, <2>1, <3>1
    <3>3. holding'[t] = holding[t]
      BY <1>1, <3>2 DEF BrowserInv, ListInv, ListType
    <3> QED BY <1>1, <1>6, <2>1, <3>1, <3>3
  <2> QED BY <1>1, <1>7, <2>1, ChannelQuiet
<1> QED BY <1>4, <1>8 DEF BrowserInv

LEMMA BrowserRun ==
  ASSUME BrowserInv, NEW s \in Sidecars, NEW found \in Outcomes, RunJob(s, found)
  PROVE  BrowserInv'
<1> PICK c : c = running[s]
  OBVIOUS
<1>1. /\ c # NoJob /\ holding[s] = "nothing"
      /\ holding' = [holding EXCEPT ![s] = found]
      /\ ran' = [ran EXCEPT ![c] = Append(@, found)]
      /\ UNCHANGED <<browserJobs, pushed, running, mishap, deaths, waiting, verdict, inbox>>
  BY DEF RunJob, checkVars
<1>2. c \in Checks /\ ran[c] = <<>> /\ mishap[c] = "none"
  BY <1>1 DEF BrowserInv, ListInv, ListType, RunsOnce, JobHeld, Untouched
<1>3. ran' = [ran EXCEPT ![c] = <<found>>] /\ <<found>> \in RunsOfJob
  <2>1. Append(<<>>, found) = <<found>>
    OBVIOUS
  <2>2. <<found>> \in RunsOfJob
    BY DEF Outcomes, RunsOfJob
  <2> QED BY <1>1, <1>2, <2>1, <2>2
<1>4. mishap' = [mishap EXCEPT ![c] = "none"]
  BY <1>1, <1>2 DEF BrowserInv, ListInv, ListType
<1>5. ListInv'
  <2>1. found \in Outcomes \union {"error"} /\ found # "error" /\ "none" \in {"none", "no browser", "unheard"}
    BY DEF Outcomes
  <2>2. ListInv /\ running[s] = c
    BY DEF BrowserInv
  <2> PICK r : r = <<found>>
    OBVIOUS
  <2>3. r \in RunsOfJob /\ ran' = [ran EXCEPT ![c] = r] /\ r = <<found>>
    BY <1>3
  <2>4. /\ c \in Checks /\ holding' = [holding EXCEPT ![s] = found] /\ mishap' = [mishap EXCEPT ![c] = "none"]
        /\ UNCHANGED <<browserJobs, pushed, running, deaths, waiting, verdict>>
    BY <1>1, <1>2, <1>4
  <2> QED BY ONLY <2>1, <2>2, <2>3, <2>4, SidecarMoves
<1>6. \A d \in Checks \ {c} : ran'[d] = ran[d]
  BY <1>1
<1>7. Follows
  <2>1. <<>> # <<"up">> /\ <<>> # <<"failed">>
    OBVIOUS
  <2>2. ~FailureExplained(c) /\ ran[c] # <<"up">>
    BY <1>2, <2>1 DEF FailureExplained
  <2>3. \A d \in Checks \ {c} : FailureExplained(d)' <=> FailureExplained(d)
    BY <1>1, <1>6 DEF FailureExplained
  <2> QED BY <1>6, <2>2, <2>3 DEF Follows
<1>8. ChannelInv'
  <2>1. ASSUME NEW t \in Sidecars, NEW d \in waiting,
               running'[t] = d, holding'[t] = "error", ran'[d] = <<"up">>, mishap'[d] # "unheard"
        PROVE  running[t] = d /\ holding[t] = "error" /\ ran[d] = <<"up">> /\ mishap[d] # "unheard"
    <3>1. t # s
      BY <1>1, <2>1 DEF BrowserInv, ListInv, ListType, Outcomes
    <3>2. holding'[t] = holding[t] /\ d \in Checks
      BY <1>1, <3>1 DEF BrowserInv, ListInv, ListType, ChannelInv, ChannelType
    <3>3. d # c
      BY <1>1, <2>1, <3>1 DEF BrowserInv, ListInv, JobsOnce
    <3> QED BY <1>1, <1>6, <2>1, <3>2, <3>3
  <2> QED BY <1>1, <1>7, <2>1, ChannelQuiet
<1> QED BY <1>5, <1>8 DEF BrowserInv

LEMMA BrowserDies ==
  ASSUME BrowserInv, NEW s \in Sidecars, SidecarDies(s)
  PROVE  BrowserInv'
<1>1. UNCHANGED <<waiting, inbox, verdict, ran, mishap>> /\ Idle(s)
  BY DEF SidecarDies, checkVars
<1>2. holding'[s] = "nothing" /\ \A t \in Sidecars \ {s} : running'[t] = running[t] /\ holding'[t] = holding[t]
  BY <1>1 DEF Idle, BrowserInv, ListInv, ListType
<1>3. ChannelInv'
  <2>1. ASSUME NEW t \in Sidecars, NEW c \in waiting, running'[t] = c, holding'[t] = "error"
        PROVE  running[t] = c /\ holding[t] = "error"
    BY <1>2, <2>1
  <2> QED BY <1>1, <2>1, SameRuns, ChannelQuiet
<1> QED BY <1>3, ListDies DEF BrowserInv

LEMMA BrowserPublishResult ==
  ASSUME BrowserInv, NEW s \in Sidecars, NEW reached \in BOOLEAN, NEW confirmed \in BOOLEAN,
         PublishResult(s, reached, confirmed)
  PROVE  BrowserInv'
<1> PICK c : c = running[s]
  OBVIOUS
<1> PICK o : o = holding[s]
  OBVIOUS
<1>1. /\ o \in Outcomes /\ Announce(c, o, reached)
      /\ UNCHANGED <<browserJobs, pushed, ran, deaths, waiting, verdict>>
  BY DEF PublishResult, checkVars, Outcomes
<1>2. c \in Checks /\ c # NoJob /\ ran[c] = <<o>> /\ mishap[c] = "none"
  <2>1. c # NoJob
    BY <1>1 DEF BrowserInv, ListInv, RunsOnce, Outcomes
  <2>2. c \in Checks
    BY <2>1 DEF BrowserInv, ListInv, ListType
  <2>3. JobHeld(s, c)
    BY <2>1 DEF BrowserInv, ListInv, RunsOnce
  <2> QED BY <1>1, <2>1, <2>2, <2>3 DEF JobHeld
<1>3. \A t \in Sidecars \ {s} : running[t] # c
  BY <1>2 DEF BrowserInv, ListInv, JobsOnce
<1>4. o = "up" => ran'[c] = <<"up">>
  BY <1>1, <1>2
<1>5. CASE confirmed
  <2>1. Idle(s) /\ mishap' = mishap
    BY <1>5 DEF PublishResult
  <2>2. ListInv'
    <3>1. deaths' \in Nat /\ deaths' >= deaths
      <4>1. deaths \in Nat
        BY DEF BrowserInv, ListInv, ListType
      <4> QED BY <1>1, <4>1
    <3> QED BY <1>1, <1>2, <2>1, <3>1, ListPublished DEF BrowserInv, Outcomes
  <2>3. Follows
    BY <1>1, <2>1, SameRuns
  <2>4. o = "failed" => FailureExplained(c)'
    BY <1>1, <1>2 DEF FailureExplained
  <2>5. holding'[s] = "nothing" /\ \A t \in Sidecars \ {s} : running'[t] = running[t] /\ holding'[t] = holding[t]
    BY <2>1 DEF Idle, BrowserInv, ListInv, ListType
  <2>6. Announced'
    <3>1. ASSUME NEW t \in Sidecars, NEW d \in waiting', running'[t] = d, holding'[t] = "error",
                 ran'[d] = <<"up">>, mishap'[d] # "unheard"
          PROVE  WillHear(d)'
      <4>1. d \in Checks /\ WillHear(d)
        BY <1>1, <2>1, <2>5, <3>1 DEF BrowserInv, ChannelInv, ChannelType, Announced
      <4> QED BY <1>1, <1>2, <4>1, HeardStays DEF BrowserInv
    <3> QED BY <3>1 DEF Announced
  <2>7. ChannelInv'
    BY <1>1, <1>2, <1>4, <2>3, <2>4, <2>6, ChannelAnnounces DEF BrowserInv
  <2> QED BY <2>2, <2>7 DEF BrowserInv
<1>6. CASE ~confirmed
  <2> PICK m : m = IF reached THEN "none" ELSE "unheard"
    OBVIOUS
  <2>1. /\ holding' = [holding EXCEPT ![s] = "error"] /\ running' = running
        /\ mishap' = IF reached THEN mishap ELSE [mishap EXCEPT ![c] = "unheard"]
    BY <1>6 DEF PublishResult
  <2>2. mishap' = [mishap EXCEPT ![c] = m] /\ m \in {"none", "unheard"}
    <3>1. CASE reached
      <4>1. mishap = [mishap EXCEPT ![c] = "none"]
        BY <1>2 DEF BrowserInv, ListInv, ListType
      <4> QED BY <2>1, <3>1, <4>1
    <3>2. CASE ~reached
      BY <2>1, <3>2
    <3> QED BY <3>1, <3>2
  <2>3. ran' = [ran EXCEPT ![c] = <<o>>] /\ <<o>> \in RunsOfJob /\ <<o>> # <<>>
    <3>1. ran' = [ran EXCEPT ![c] = <<o>>]
      BY <1>1, <1>2 DEF BrowserInv, ListInv, ListType
    <3>2. <<o>> \in RunsOfJob /\ <<o>> # <<>>
      BY <1>1 DEF Outcomes, RunsOfJob
    <3> QED BY <3>1, <3>2
  <2>4. ListInv'
    <3>1. /\ "error" \in Outcomes \union {"error"} /\ "error" \notin Outcomes
          /\ m \in {"none", "no browser", "unheard"}
      BY <2>2 DEF Outcomes
    <3>2. ListInv /\ running[s] = c
      BY DEF BrowserInv
    <3>3. <<o>> \in RunsOfJob /\ <<o>> # <<>> /\ ran' = [ran EXCEPT ![c] = <<o>>]
      BY <2>3
    <3>4. holding' = [holding EXCEPT ![s] = "error"] /\ mishap' = [mishap EXCEPT ![c] = m]
      BY <2>1, <2>2
    <3>5. UNCHANGED <<browserJobs, pushed, running, deaths, waiting, verdict>>
      BY <1>1, <2>1
    <3> QED BY <1>2, <3>1, <3>2, <3>3, <3>4, <3>5, SidecarMoves
  <2>5. mishap'[c] = m /\ \A d \in Checks \ {c} : mishap'[d] = mishap[d]
    BY <1>2, <2>2 DEF BrowserInv, ListInv, ListType
  <2>6. Follows
    <3>1. \A d \in Checks \ {c} : FailureExplained(d)' <=> FailureExplained(d)
      BY <1>1, <2>5 DEF FailureExplained
    <3>2. FailureExplained(c) => FailureExplained(c)'
      BY <1>1, <1>2, <2>3 DEF FailureExplained
    <3> QED BY <1>1, <3>1, <3>2 DEF Follows
  <2>7. o = "failed" => FailureExplained(c)'
    BY <1>1, <1>2 DEF FailureExplained
  <2>8. Announced'
    <3>1. ASSUME NEW t \in Sidecars, NEW d \in waiting', running'[t] = d, holding'[t] = "error",
                 ran'[d] = <<"up">>, mishap'[d] # "unheard"
          PROVE  WillHear(d)'
      <4>1. d \in waiting /\ d \in Checks
        BY <1>1 DEF BrowserInv, ChannelInv, ChannelType
      <4>2. CASE t = s
        <5>1. d = c
          BY <2>1, <3>1, <4>2
        <5>2. reached
          BY <2>1, <2>5, <3>1, <5>1, <1>2
        <5>3. <<o>> = <<"up">>
          BY <1>1, <1>2, <3>1, <5>1
        <5>4. o = "up"
          BY <5>3
        <5> QED BY <1>1, <1>2, <4>1, <5>1, <5>2, <5>4, SuccessHeard DEF BrowserInv
      <4>3. CASE t # s
        <5>1. running[t] = d /\ holding[t] = "error"
          BY <2>1, <3>1, <4>3 DEF BrowserInv, ListInv, ListType
        <5>2. d # c
          BY <1>3, <4>3, <5>1
        <5>3. WillHear(d)
          BY <1>1, <2>5, <3>1, <4>1, <5>1, <5>2 DEF BrowserInv, ChannelInv, Announced
        <5> QED BY <1>1, <1>2, <4>1, <5>3, HeardStays DEF BrowserInv
      <4> QED BY <4>2, <4>3
    <3> QED BY <3>1 DEF Announced
  <2>9. ChannelInv'
    BY <1>1, <1>2, <1>4, <2>6, <2>7, <2>8, ChannelAnnounces DEF BrowserInv
  <2> QED BY <2>4, <2>9 DEF BrowserInv
<1> QED BY <1>5, <1>6

LEMMA BrowserPublishError ==
  ASSUME BrowserInv, NEW s \in Sidecars, NEW reached \in BOOLEAN, NEW confirmed \in BOOLEAN,
         PublishError(s, reached, confirmed)
  PROVE  BrowserInv'
<1> PICK c : c = running[s]
  OBVIOUS
<1>1. /\ holding[s] = "error" /\ Announce(c, "failed", reached) /\ Idle(s)
      /\ deaths' = IF confirmed THEN deaths ELSE deaths + 1
      /\ UNCHANGED <<browserJobs, pushed, ran, mishap, waiting, verdict>>
  BY DEF PublishError, checkVars
<1>2. c \in Checks /\ c # NoJob /\ (ran[c] = <<>> => mishap[c] = "no browser") /\ ran[c] \in RunsOfJob
  <2>1. c # NoJob
    BY <1>1 DEF BrowserInv, ListInv, RunsOnce
  <2>2. c \in Checks
    BY <2>1 DEF BrowserInv, ListInv, ListType
  <2>3. JobHeld(s, c)
    BY <2>1 DEF BrowserInv, ListInv, RunsOnce
  <2> QED BY <1>1, <2>1, <2>2, <2>3 DEF JobHeld, BrowserInv, ListInv, ListType
<1>3. deaths' \in Nat /\ deaths' >= deaths
  <2>1. deaths \in Nat
    BY DEF BrowserInv, ListInv, ListType
  <2> QED BY <1>1, <2>1
<1>4. ListInv'
  BY <1>1, <1>2, <1>3, ListPublished DEF BrowserInv
<1>5. Follows
  BY <1>1, SameRuns
<1>6. c \in waiting => FailureExplained(c)' \/ WillHear(c)
  <2>1. CASE ran[c] = <<>> \/ ran[c] = <<"failed">> \/ mishap[c] = "unheard"
    BY <1>1, <1>2, <2>1 DEF FailureExplained, RunsOfJob
  <2>2. CASE ran[c] = <<"up">> /\ mishap[c] # "unheard"
    BY <1>1, <2>2 DEF BrowserInv, ChannelInv, Announced
  <2> QED BY <1>2, <2>1, <2>2 DEF RunsOfJob
<1>7. holding'[s] = "nothing" /\ \A t \in Sidecars \ {s} : running'[t] = running[t] /\ holding'[t] = holding[t]
  BY <1>1 DEF Idle, BrowserInv, ListInv, ListType
<1>8. "failed" \in Outcomes
  BY DEF Outcomes
<1>9. Announced'
  <2>1. ASSUME NEW t \in Sidecars, NEW d \in waiting', running'[t] = d, holding'[t] = "error",
               ran'[d] = <<"up">>, mishap'[d] # "unheard"
        PROVE  WillHear(d)'
    <3>1. d \in Checks /\ WillHear(d)
      BY <1>1, <1>7, <2>1 DEF BrowserInv, ChannelInv, ChannelType, Announced
    <3> QED BY <1>1, <1>2, <1>8, <3>1, HeardStays DEF BrowserInv
  <2> QED BY <2>1 DEF Announced
<1>10. ChannelInv'
  BY <1>1, <1>2, <1>5, <1>6, <1>8, <1>9, ChannelAnnounces DEF BrowserInv
<1> QED BY <1>4, <1>10 DEF BrowserInv

LEMMA BrowserQuiet ==
  BrowserInv /\ UNCHANGED <<browserJobs, pushed, waiting, inbox, verdict, sidecarVars>> => BrowserInv'
<1> SUFFICES ASSUME BrowserInv, UNCHANGED <<browserJobs, pushed, waiting, inbox, verdict, sidecarVars>>
             PROVE  BrowserInv'
  OBVIOUS
<1>1. ListInv'
  BY ListQuiet DEF BrowserInv, Unstarted, sidecarVars
<1>2. Follows
  BY SameRuns DEF sidecarVars
<1>3. ChannelInv'
  BY <1>2, ChannelQuiet DEF sidecarVars
<1> QED BY <1>1, <1>3 DEF BrowserInv

LEMMA BrowserInvNext == BrowserInv /\ [BrowserNext]_browserVars => BrowserInv'
<1> SUFFICES ASSUME BrowserInv, [BrowserNext]_browserVars PROVE BrowserInv'
  OBVIOUS
<1>1. CASE UNCHANGED browserVars
  BY <1>1, BrowserQuiet DEF browserVars, checkVars
<1>2. CASE SaveScript
  BY <1>2, BrowserQuiet DEF SaveScript
<1>3. CASE \E c \in Checks : CannotStart(c) \/ PushUnanswered(c) \/ Enqueue(c) \/ ReadMessage(c) \/ GiveUp(c)
  BY <1>3, BrowserCheck
<1>4. CASE \E s \in Sidecars : TakeJob(s) \/ LaunchFails(s) \/ SidecarDies(s)
  BY <1>4, BrowserTake, BrowserLaunchFails, BrowserDies
<1>5. CASE \E s \in Sidecars, found \in {"up", "failed"} : RunJob(s, found)
  BY <1>5, BrowserRun DEF Outcomes
<1>6. CASE \E s \in Sidecars, reached, confirmed \in BOOLEAN :
             PublishResult(s, reached, confirmed) \/ PublishError(s, reached, confirmed)
  BY <1>6, BrowserPublishResult, BrowserPublishError
<1> QED BY <1>1, <1>2, <1>3, <1>4, <1>5, <1>6 DEF BrowserNext

\* Any number of checks and sidecars share the list and the channel, calls of
\* Redis fail with and without effect, and a check is still up only when its own
\* script succeeded and fails only for a reason; no job is forgotten but with a
\* sidecar that died.
THEOREM BrowserVerdictsAlways == BrowserSpec => []BrowserVerdictsOwn
<1>1. BrowserInv => BrowserVerdictsOwn
  <2> SUFFICES ASSUME BrowserInv PROVE BrowserVerdictsOwn
    OBVIOUS
  <2>1. \A c \in Checks : Len(ran[c]) <= 1
    <3>1. \A r \in RunsOfJob : Len(r) <= 1
      BY DEF RunsOfJob
    <3> QED BY <3>1 DEF BrowserInv, ListInv, ListType
  <2>2. \A c \in Checks : /\ verdict[c] = "up" => ran[c] = <<"up">>
                          /\ verdict[c] = "failed" => FailureExplained(c)
    BY DEF BrowserInv, ChannelInv, VerdictsTrue
  <2>3. Forgotten = {c \in pushed :
                       /\ ran[c] = <<>> /\ mishap[c] # "no browser"
                       /\ \A i \in DOMAIN browserJobs : browserJobs[i] # c
                       /\ \A s \in Sidecars : running[s] # c}
    BY DEF Forgotten, Queued, Runs
  <2>4. Cardinality(Forgotten) <= deaths
    BY DEF BrowserInv, ListInv
  <2> QED BY <2>1, <2>2, <2>3, <2>4 DEF BrowserVerdictsOwn
<1> QED BY <1>1, BrowserInvInit, BrowserInvNext, PTL DEF BrowserSpec

------------------------------------------------------------------------------
(* Sending to channels.  Where a goroutine stands decides what its channel's *)
(* counters and log say; goroutines share nothing else.                      *)

ChannelRows == [kind : Kinds, enabled : BOOLEAN, valid : BOOLEAN]

Whereabouts == {"new", "trying", "accepted", "failed", "ended"}

AuditTypeOK ==
  /\ channels \in [Receivers -> ChannelRows]
  /\ sending \in [Receivers -> Whereabouts]
  /\ attempt \in [Receivers -> Nat] /\ received \in [Receivers -> Nat] /\ unheard \in [Receivers -> Nat]
  /\ eventLog \in [Receivers -> Seq(BOOLEAN)]

\* The entry of a channel could not be written.
Excused(ch) == contextOver \/ ch \in unwritten

\* Of a channel, where its goroutine stands, its attempts, what was accepted,
\* the answers that were lost, and its entries in the audit trail.
ChannelAudited(channel, where, tried, got, unseen, log) ==
  CASE where = "new" -> tried = 0 /\ got = 0 /\ unseen = 0 /\ log = <<>>
    [] where = "trying" ->
         /\ tried <= IF channel.kind \in Posted THEN MaxRetries ELSE 0
         /\ got = unseen /\ log = <<>>
         /\ Handled(channel) /\ channel.valid
         /\ got > 0 => ~SecretMasked(channel.kind)
    [] where \in {"accepted", "failed"} ->
         /\ tried <= MaxRetries + 1
         /\ got = IF where = "accepted" THEN unseen + 1 ELSE unseen
         /\ log = <<>>
         /\ Handled(channel)
         /\ got > 0 => channel.valid /\ ~SecretMasked(channel.kind)
    [] where = "ended" ->
         /\ tried <= MaxRetries + 1
         /\ got <= unseen + 1
         /\ got > 0 => channel.valid /\ Handled(channel) /\ ~SecretMasked(channel.kind)
         /\ IF Handled(channel) THEN \/ log = <<>>
                                     \/ log = <<TRUE>> /\ got > unseen
                                     \/ log = <<FALSE>> /\ ~(got > unseen)
                                ELSE log = <<>>

ChannelsAudited ==
  \A ch \in Receivers :
    ChannelAudited(channels[ch], sending[ch], attempt[ch], received[ch], unheard[ch], eventLog[ch])

NoneExcused ==
  \A ch \in Receivers : sending[ch] = "ended" /\ Handled(channels[ch]) /\ eventLog[ch] = <<>> => Excused(ch)

AuditInv == AuditTypeOK /\ ChannelsAudited /\ NoneExcused

LEMMA AuditInvInit == DeliveryInit => AuditInv
<1> SUFFICES ASSUME DeliveryInit PROVE AuditInv
  OBVIOUS
<1>1. AuditTypeOK /\ NoneExcused
  BY DEF DeliveryInit, AuditTypeOK, ChannelRows, Whereabouts, NoneExcused
<1>2. ChannelsAudited
  BY DEF DeliveryInit, ChannelsAudited, ChannelAudited
<1> QED BY <1>1, <1>2 DEF AuditInv

\* A step of one goroutine leaves the other channels alone.
LEMMA OneChannelStep ==
  ASSUME AuditInv, NEW ch \in Receivers, channels' = channels,
         NEW where \in Whereabouts, NEW tried \in Nat, NEW got \in Nat, NEW unseen \in Nat,
         NEW log \in Seq(BOOLEAN),
         sending' = [sending EXCEPT ![ch] = where], attempt' = [attempt EXCEPT ![ch] = tried],
         received' = [received EXCEPT ![ch] = got], unheard' = [unheard EXCEPT ![ch] = unseen],
         eventLog' = [eventLog EXCEPT ![ch] = log],
         contextOver' = contextOver, unwritten \subseteq unwritten',
         ChannelAudited(channels[ch], where, tried, got, unseen, log),
         where = "ended" /\ Handled(channels[ch]) /\ log = <<>> => contextOver \/ ch \in unwritten'
  PROVE  AuditInv'
<1>1. AuditTypeOK'
  BY DEF AuditInv, AuditTypeOK
<1>2. ASSUME NEW c \in Receivers
      PROVE  /\ ChannelAudited(channels[c], sending[c], attempt[c], received[c], unheard[c], eventLog[c])'
             /\ sending'[c] = "ended" /\ Handled(channels'[c]) /\ eventLog'[c] = <<>> => contextOver' \/ c \in unwritten'
  <2>1. CASE c = ch
    <3>1. /\ sending'[c] = where /\ attempt'[c] = tried /\ received'[c] = got
          /\ unheard'[c] = unseen /\ eventLog'[c] = log /\ channels'[c] = channels[ch]
      BY <2>1 DEF AuditInv, AuditTypeOK
    <3>2. ChannelAudited(channels'[c], sending'[c], attempt'[c], received'[c], unheard'[c], eventLog'[c])
      BY <3>1, Zenon
    <3>3. sending'[c] = "ended" /\ Handled(channels'[c]) /\ eventLog'[c] = <<>> => contextOver' \/ c \in unwritten'
      BY <2>1, <3>1, Zenon
    <3> QED BY <3>2, <3>3 DEF ChannelAudited
  <2>2. CASE c # ch
    <3>1. /\ sending'[c] = sending[c] /\ attempt'[c] = attempt[c] /\ received'[c] = received[c]
          /\ unheard'[c] = unheard[c] /\ eventLog'[c] = eventLog[c] /\ channels'[c] = channels[c]
      BY <2>2 DEF AuditInv, AuditTypeOK
    <3>2. /\ ChannelAudited(channels[c], sending[c], attempt[c], received[c], unheard[c], eventLog[c])
          /\ sending[c] = "ended" /\ Handled(channels[c]) /\ eventLog[c] = <<>> => contextOver \/ c \in unwritten
      BY DEF AuditInv, ChannelsAudited, NoneExcused, Excused
    <3>3. ChannelAudited(channels'[c], sending'[c], attempt'[c], received'[c], unheard'[c], eventLog'[c])
      BY <3>1, <3>2, Zenon
    <3>4. sending'[c] = "ended" /\ Handled(channels'[c]) /\ eventLog'[c] = <<>> => contextOver' \/ c \in unwritten'
      BY <3>1, <3>2
    <3> QED BY <3>3, <3>4 DEF ChannelAudited
  <2> QED BY <2>1, <2>2
<1>3. ChannelsAudited'
  BY <1>2 DEF ChannelsAudited
<1>4. NoneExcused'
  BY <1>2 DEF NoneExcused, Excused
<1> QED BY <1>1, <1>3, <1>4 DEF AuditInv

LEMMA AuditInvNext ==
  ASSUME AuditInv, DeliveryNext
  PROVE  AuditInv'
<1>c. CASE ContextEnds
  <2>1. AuditTypeOK' /\ ChannelsAudited'
    BY <1>c DEF ContextEnds, AuditInv, AuditTypeOK, ChannelsAudited
  <2>2. NoneExcused'
    BY <1>c DEF ContextEnds, NoneExcused, Excused
  <2> QED BY <2>1, <2>2 DEF AuditInv
<1>d. ASSUME NEW ch \in Receivers,
             \/ StartDelivery(ch) \/ DeadlinePasses(ch)
             \/ \E written \in BOOLEAN : LogNotificationEvent(ch, written)
             \/ \E answer \in Answers, processed \in BOOLEAN :
                  Post(ch, answer, processed) \/ Mail(ch, answer, processed)
      PROVE  AuditInv'
  <2> PICK channel : channel = channels[ch]
    OBVIOUS
  <2> PICK tried : tried = attempt[ch]
    OBVIOUS
  <2> PICK got : got = received[ch]
    OBVIOUS
  <2> PICK unseen : unseen = unheard[ch]
    OBVIOUS
  <2> PICK log : log = eventLog[ch]
    OBVIOUS
  <2>t. /\ channel \in ChannelRows /\ tried \in Nat /\ got \in Nat /\ unseen \in Nat /\ log \in Seq(BOOLEAN)
        /\ MaxRetries \in Nat
    BY DeliveryAssumption DEF AuditInv, AuditTypeOK
  <2>a. ChannelAudited(channel, sending[ch], tried, got, unseen, log)
    BY DEF AuditInv, ChannelsAudited
  <2>e. /\ attempt = [attempt EXCEPT ![ch] = tried] /\ received = [received EXCEPT ![ch] = got]
        /\ unheard = [unheard EXCEPT ![ch] = unseen] /\ eventLog = [eventLog EXCEPT ![ch] = log]
    BY DEF AuditInv, AuditTypeOK
  <2>w. /\ "new" \in Whereabouts /\ "trying" \in Whereabouts /\ "accepted" \in Whereabouts
        /\ "failed" \in Whereabouts /\ "ended" \in Whereabouts
    BY DEF Whereabouts
  <2>q. ASSUME UNCHANGED <<channels, attempt, received, unheard, outcome>>
        PROVE  /\ attempt' = [attempt EXCEPT ![ch] = tried] /\ received' = [received EXCEPT ![ch] = got]
               /\ unheard' = [unheard EXCEPT ![ch] = unseen] /\ channels' = channels
    BY <2>q, <2>e
  <2>u. ASSUME UNCHANGED <<contextOver, unwritten, eventLog>>
        PROVE  /\ eventLog' = [eventLog EXCEPT ![ch] = log]
               /\ contextOver' = contextOver /\ unwritten \subseteq unwritten'
    BY <2>u, <2>e
  <2>1. CASE StartDelivery(ch)
    <3>1. tried = 0 /\ got = 0 /\ unseen = 0 /\ log = <<>>
      BY <2>1, <2>a DEF StartDelivery, ChannelAudited
    <3>q. /\ attempt' = [attempt EXCEPT ![ch] = tried] /\ received' = [received EXCEPT ![ch] = got]
          /\ unheard' = [unheard EXCEPT ![ch] = unseen] /\ channels' = channels
      BY <2>1, <2>q DEF StartDelivery
    <3>u. /\ eventLog' = [eventLog EXCEPT ![ch] = log]
          /\ contextOver' = contextOver /\ unwritten \subseteq unwritten'
      BY <2>1, <2>u DEF StartDelivery, Concludes
    <3>2. CASE ~Handled(channel)
      <4>1. sending' = [sending EXCEPT ![ch] = "ended"]
        BY <2>1, <3>2 DEF StartDelivery, Handled
      <4>2. ChannelAudited(channel, "ended", tried, got, unseen, log)
        BY <3>1, <3>2, <2>t DEF ChannelAudited
      <4> QED BY <2>t, <2>w, <3>2, <3>q, <3>u, <4>1, <4>2, OneChannelStep
    <3>3. CASE Handled(channel) /\ ~channel.valid
      <4>1. sending' = [sending EXCEPT ![ch] = "failed"]
        BY <2>1, <3>3 DEF StartDelivery, Handled, Concludes
      <4>2. ChannelAudited(channel, "failed", tried, got, unseen, log)
        BY <3>1, <3>3, <2>t DEF ChannelAudited
      <4> QED BY <2>t, <2>w, <3>q, <3>u, <4>1, <4>2, OneChannelStep
    <3>4. CASE Handled(channel) /\ channel.valid
      <4>1. sending' = [sending EXCEPT ![ch] = "trying"]
        BY <2>1, <3>4 DEF StartDelivery, Handled
      <4>2. ChannelAudited(channel, "trying", tried, got, unseen, log)
        BY <3>1, <3>4, <2>t DEF ChannelAudited
      <4> QED BY <2>t, <2>w, <3>q, <3>u, <4>1, <4>2, OneChannelStep
    <3> QED BY <3>2, <3>3, <3>4
  <2>2. CASE DeadlinePasses(ch)
    <3>1. sending[ch] = "trying" /\ channel.kind \in Posted
      BY <2>2 DEF DeadlinePasses
    <3>2. /\ tried <= MaxRetries /\ got = unseen /\ log = <<>> /\ Handled(channel) /\ channel.valid
          /\ got > 0 => ~SecretMasked(channel.kind)
      BY <2>a, <3>1 DEF ChannelAudited
    <3>3. sending' = [sending EXCEPT ![ch] = "failed"]
      BY <2>2 DEF DeadlinePasses, Concludes
    <3>4. ChannelAudited(channel, "failed", tried, got, unseen, log)
      BY <3>2, <2>t DEF ChannelAudited
    <3>5. /\ attempt' = [attempt EXCEPT ![ch] = tried] /\ received' = [received EXCEPT ![ch] = got]
          /\ unheard' = [unheard EXCEPT ![ch] = unseen] /\ channels' = channels
      BY <2>2, <2>q DEF DeadlinePasses
    <3>6. /\ eventLog' = [eventLog EXCEPT ![ch] = log]
          /\ contextOver' = contextOver /\ unwritten \subseteq unwritten'
      BY <2>2, <2>u DEF DeadlinePasses, Concludes
    <3> QED BY <2>t, <2>w, <3>3, <3>4, <3>5, <3>6, OneChannelStep
  <2>3. ASSUME NEW answer \in Answers, NEW processed \in BOOLEAN, Post(ch, answer, processed)
        PROVE  AuditInv'
    <3> PICK result : result = PostOnce(answer)
      OBVIOUS
    <3> PICK more : more = IF processed \/ result.accepted THEN got + 1 ELSE got
      OBVIOUS
    <3> PICK missed : missed = IF processed THEN unseen + 1 ELSE unseen
      OBVIOUS
    <3>1. sending[ch] = "trying" /\ channel.kind \in Posted
      BY <2>3 DEF Post
    <3>2. /\ tried <= MaxRetries /\ got = unseen /\ log = <<>> /\ Handled(channel) /\ channel.valid
          /\ got > 0 => ~SecretMasked(channel.kind)
      BY <2>a, <3>1 DEF ChannelAudited
    <3>3. /\ attempt' = [attempt EXCEPT ![ch] = tried + 1]
          /\ received' = [received EXCEPT ![ch] = more]
          /\ unheard' = [unheard EXCEPT ![ch] = missed]
          /\ channels' = channels
      BY <2>3 DEF Post
    <3>u. /\ eventLog' = [eventLog EXCEPT ![ch] = log]
          /\ contextOver' = contextOver /\ unwritten \subseteq unwritten'
      BY <2>3, <2>u DEF Post, Concludes
    <3>4. result.accepted = Is2xx(answer) /\ (processed => answer.kind # "status" /\ ~SecretMasked(channel.kind))
      BY <2>3 DEF Post, PostOnce, Outcome
    <3>5. ~(processed /\ result.accepted)
      BY <3>4 DEF Is2xx
    <3>6. processed \/ result.accepted => ~SecretMasked(channel.kind)
      BY <2>3, <3>4 DEF Post, PossibleAnswers
    <3>7. more \in Nat /\ missed \in Nat /\ tried + 1 \in Nat
      BY <2>t
    <3>8. CASE result.accepted
      <4>1. sending' = [sending EXCEPT ![ch] = "accepted"]
        BY <2>3, <3>8 DEF Post, Concludes
      <4>2. more = got + 1 /\ missed = unseen
        BY <3>5, <3>8
      <4>3. ChannelAudited(channel, "accepted", tried + 1, more, missed, log)
        BY <3>2, <3>6, <3>8, <4>2, <2>t DEF ChannelAudited
      <4> QED BY <2>t, <2>w, <3>3, <3>u, <3>7, <4>1, <4>3, OneChannelStep
    <3>9. CASE ~result.accepted
      <4>1. more = missed /\ (more > got => ~SecretMasked(channel.kind))
        BY <3>2, <3>6, <3>9, <2>t
      <4>2. CASE GoesOn(ch, result)
        <5>1. sending' = [sending EXCEPT ![ch] = "trying"]
          BY <2>3, <3>1, <3>9, <4>2 DEF Post, AuditInv, AuditTypeOK
        <5>2. tried + 1 <= MaxRetries
          BY <4>2, <2>t DEF GoesOn
        <5>3. ChannelAudited(channel, "trying", tried + 1, more, missed, log)
          BY <3>1, <3>2, <3>7, <4>1, <5>2, <2>t DEF ChannelAudited
        <5> QED BY <2>t, <2>w, <3>3, <3>u, <3>7, <5>1, <5>3, OneChannelStep
      <4>3. CASE ~GoesOn(ch, result)
        <5>1. sending' = [sending EXCEPT ![ch] = "failed"]
          BY <2>3, <3>9, <4>3 DEF Post, Concludes
        <5>2. ChannelAudited(channel, "failed", tried + 1, more, missed, log)
          BY <3>2, <3>7, <4>1, <2>t DEF ChannelAudited
        <5> QED BY <2>t, <2>w, <3>3, <3>u, <3>7, <5>1, <5>2, OneChannelStep
      <4> QED BY <4>2, <4>3
    <3> QED BY <3>8, <3>9
  <2>4. ASSUME NEW answer \in Answers, NEW processed \in BOOLEAN, Mail(ch, answer, processed)
        PROVE  AuditInv'
    <3> PICK more : more = IF processed \/ Is2xx(answer) THEN got + 1 ELSE got
      OBVIOUS
    <3> PICK missed : missed = IF processed THEN unseen + 1 ELSE unseen
      OBVIOUS
    <3> PICK where : where = IF Is2xx(answer) THEN "accepted" ELSE "failed"
      OBVIOUS
    <3>1. sending[ch] = "trying" /\ channel.kind \notin Posted
      BY <2>4 DEF Mail
    <3>2. /\ tried <= 0 /\ got = unseen /\ log = <<>> /\ Handled(channel) /\ channel.valid
          /\ got > 0 => ~SecretMasked(channel.kind)
      BY <2>a, <3>1 DEF ChannelAudited
    <3>3. /\ attempt' = [attempt EXCEPT ![ch] = tried + 1]
          /\ received' = [received EXCEPT ![ch] = more]
          /\ unheard' = [unheard EXCEPT ![ch] = missed]
          /\ channels' = channels
          /\ sending' = [sending EXCEPT ![ch] = where]
      BY <2>4 DEF Mail, Concludes
    <3>u. /\ eventLog' = [eventLog EXCEPT ![ch] = log]
          /\ contextOver' = contextOver /\ unwritten \subseteq unwritten'
      BY <2>4, <2>u DEF Mail, Concludes
    <3>5. ~(processed /\ Is2xx(answer)) /\ (processed \/ Is2xx(answer) => ~SecretMasked(channel.kind))
      BY <2>4 DEF Mail, PossibleAnswers, Is2xx
    <3>6. more \in Nat /\ missed \in Nat /\ tried + 1 \in Nat /\ tried + 1 <= MaxRetries + 1
      BY <2>t, <3>2
    <3>7. more = (IF where = "accepted" THEN missed + 1 ELSE missed) /\ (more > 0 => ~SecretMasked(channel.kind))
      BY <3>2, <3>5, <2>t
    <3>8. where \in {"accepted", "failed"}
      OBVIOUS
    <3>9. ChannelAudited(channel, where, tried + 1, more, missed, log)
      BY <3>2, <3>6, <3>7, <3>8 DEF ChannelAudited
    <3>10. where \in Whereabouts /\ where # "ended"
      BY <3>8 DEF Whereabouts
    <3> QED BY <2>t, <3>3, <3>u, <3>6, <3>9, <3>10, OneChannelStep
  <2>5. ASSUME NEW written \in BOOLEAN, LogNotificationEvent(ch, written)
        PROVE  AuditInv'
    <3>1. sending[ch] \in {"accepted", "failed"} /\ (written => ~contextOver)
      BY <2>5 DEF LogNotificationEvent
    <3>2. /\ tried <= MaxRetries + 1 /\ log = <<>> /\ Handled(channel)
          /\ got = IF sending[ch] = "accepted" THEN unseen + 1 ELSE unseen
          /\ got > 0 => channel.valid /\ ~SecretMasked(channel.kind)
      BY <2>a, <3>1 DEF ChannelAudited
    <3>3. /\ sending' = [sending EXCEPT ![ch] = "ended"] /\ contextOver' = contextOver
          /\ unwritten' = IF written \/ contextOver THEN unwritten ELSE unwritten \union {ch}
          /\ attempt' = [attempt EXCEPT ![ch] = tried] /\ received' = [received EXCEPT ![ch] = got]
          /\ unheard' = [unheard EXCEPT ![ch] = unseen] /\ channels' = channels
      BY <2>5, <2>q DEF LogNotificationEvent
    <3>4. CASE written
      <4>1. PICK entry \in BOOLEAN : entry = (sending[ch] = "accepted")
        OBVIOUS
      <4>2. Append(<<>>, entry) = <<entry>> /\ <<entry>> \in Seq(BOOLEAN) /\ <<entry>> # <<>>
        OBVIOUS
      <4>3. eventLog' = [eventLog EXCEPT ![ch] = <<entry>>]
        BY <2>5, <3>2, <3>4, <4>1, <4>2 DEF LogNotificationEvent
      <4>4. got <= unseen + 1 /\ (sending[ch] = "accepted" <=> got > unseen)
        BY <3>1, <3>2, <2>t
      <4>5. (<<entry>> = <<TRUE>> /\ got > unseen) \/ (<<entry>> = <<FALSE>> /\ ~(got > unseen))
        <5>1. CASE sending[ch] = "accepted"
          BY <4>1, <4>4, <5>1
        <5>2. CASE sending[ch] # "accepted"
          BY <4>1, <4>4, <5>2
        <5> QED BY <5>1, <5>2
      <4>6. ChannelAudited(channel, "ended", tried, got, unseen, <<entry>>)
        BY <3>2, <4>4, <4>5 DEF ChannelAudited
      <4>7. unwritten \subseteq unwritten'
        BY <3>3
      <4> QED BY <2>t, <2>w, <3>3, <4>2, <4>3, <4>6, <4>7, OneChannelStep
    <3>5. CASE ~written
      <4>1. eventLog' = [eventLog EXCEPT ![ch] = log]
        BY <2>5, <2>e, <3>5 DEF LogNotificationEvent
      <4>2. unwritten \subseteq unwritten' /\ (contextOver \/ ch \in unwritten')
        BY <3>3, <3>5
      <4>3. ChannelAudited(channel, "ended", tried, got, unseen, log)
        BY <3>1, <3>2, <2>t DEF ChannelAudited
      <4> QED BY <2>t, <2>w, <3>3, <4>1, <4>2, <4>3, OneChannelStep
    <3> QED BY <3>4, <3>5
  <2> QED BY <1>d, <2>1, <2>2, <2>3, <2>4, <2>5
<1> QED BY <1>c, <1>d DEF DeliveryNext

\* When Service.send is over, a channel's audit entry is what its receiver got to
\* see, and is missing only when the context of the caller ended or the database
\* refused it, for any number of channels and of attempts after the first.
THEOREM AuditAlways == DeliverySpec => []AuditIsTrue
<1>1. AuditInv /\ UNCHANGED deliveryVars => AuditInv'
  BY DEF deliveryVars, AuditInv, AuditTypeOK, ChannelsAudited, NoneExcused, Excused
<1>2. AuditInv => AuditIsTrue
  <2> SUFFICES ASSUME AuditInv, NEW ch \in Receivers
               PROVE  /\ attempt[ch] <= MaxRetries + 1
                      /\ received[ch] <= unheard[ch] + 1
                      /\ received[ch] > 0 => /\ channels[ch].valid /\ Handled(channels[ch])
                                             /\ ~SecretMasked(channels[ch].kind)
                      /\ sending[ch] # "ended" \/ ~Handled(channels[ch]) => eventLog[ch] = <<>>
                      /\ sending[ch] = "ended" /\ Handled(channels[ch]) =>
                           IF eventLog[ch] = <<>> THEN contextOver \/ ch \in unwritten
                           ELSE Len(eventLog[ch]) = 1 /\ (Head(eventLog[ch]) <=> received[ch] > unheard[ch])
    BY DEF AuditIsTrue
  <2>1. /\ attempt[ch] \in Nat /\ received[ch] \in Nat /\ unheard[ch] \in Nat /\ MaxRetries \in Nat
        /\ sending[ch] \in {"new", "trying", "accepted", "failed", "ended"}
    BY DeliveryAssumption DEF AuditInv, AuditTypeOK, Whereabouts
  <2>2. ChannelAudited(channels[ch], sending[ch], attempt[ch], received[ch], unheard[ch], eventLog[ch])
    BY DEF AuditInv, ChannelsAudited
  <2>3. CASE sending[ch] = "new"
    <3>1. attempt[ch] = 0 /\ received[ch] = 0 /\ unheard[ch] = 0 /\ eventLog[ch] = <<>>
      BY <2>2, <2>3 DEF ChannelAudited
    <3>2. attempt[ch] <= MaxRetries + 1 /\ received[ch] <= unheard[ch] + 1 /\ ~(received[ch] > 0)
      BY <2>1, <3>1
    <3>3. sending[ch] # "ended"
      BY <2>3
    <3> QED BY <3>1, <3>2, <3>3, Zenon
  <2>4. CASE sending[ch] = "trying"
    <3>1. /\ attempt[ch] <= (IF channels[ch].kind \in Posted THEN MaxRetries ELSE 0)
          /\ received[ch] = unheard[ch] /\ Handled(channels[ch]) /\ channels[ch].valid
          /\ received[ch] > 0 => ~SecretMasked(channels[ch].kind)
          /\ eventLog[ch] = <<>>
      BY <2>2, <2>4 DEF ChannelAudited
    <3>2. attempt[ch] <= MaxRetries + 1 /\ received[ch] <= unheard[ch] + 1
      BY <2>1, <3>1
    <3>3. sending[ch] # "ended"
      BY <2>4
    <3> QED BY <3>1, <3>2, <3>3, Zenon
  <2>5. CASE sending[ch] \in {"accepted", "failed"}
    <3>1. /\ attempt[ch] <= MaxRetries + 1
          /\ received[ch] = (IF sending[ch] = "accepted" THEN unheard[ch] + 1 ELSE unheard[ch])
          /\ Handled(channels[ch])
          /\ received[ch] > 0 => channels[ch].valid /\ ~SecretMasked(channels[ch].kind)
          /\ eventLog[ch] = <<>>
      BY <2>2, <2>5 DEF ChannelAudited
    <3>2. received[ch] <= unheard[ch] + 1
      BY <2>1, <3>1
    <3>3. sending[ch] # "ended"
      BY <2>5
    <3> QED BY <3>1, <3>2, <3>3, Zenon
  <2>6. CASE sending[ch] = "ended"
    <3>1. \A b \in BOOLEAN : Len(<<b>>) = 1 /\ Head(<<b>>) = b
      OBVIOUS
    <3>2. /\ attempt[ch] <= MaxRetries + 1 /\ received[ch] <= unheard[ch] + 1
          /\ received[ch] > 0 => channels[ch].valid /\ Handled(channels[ch]) /\ ~SecretMasked(channels[ch].kind)
          /\ ~Handled(channels[ch]) => eventLog[ch] = <<>>
          /\ Handled(channels[ch]) => \/ eventLog[ch] = <<>>
                                      \/ eventLog[ch] = <<TRUE>> /\ received[ch] > unheard[ch]
                                      \/ eventLog[ch] = <<FALSE>> /\ ~(received[ch] > unheard[ch])
      BY <2>2, <2>6 DEF ChannelAudited
    <3>3. Handled(channels[ch]) /\ eventLog[ch] = <<>> => contextOver \/ ch \in unwritten
      BY <2>6 DEF AuditInv, NoneExcused, Excused
    <3>4. Handled(channels[ch]) /\ eventLog[ch] # <<>> =>
             Len(eventLog[ch]) = 1 /\ (Head(eventLog[ch]) <=> received[ch] > unheard[ch])
      BY <3>1, <3>2
    <3> QED BY <2>6, <3>2, <3>3, <3>4, Zenon
  <2> QED BY <2>1, <2>3, <2>4, <2>5, <2>6
<1> QED BY <1>1, <1>2, AuditInvInit, AuditInvNext, PTL DEF DeliverySpec

------------------------------------------------------------------------------
(* The escalation policy of an incident. *)

\* Points by field, so that a sum is a sum of five numbers.
LEMMA PointsOfFields ==
  ASSUME NEW A, A \subseteq RuleFields
  PROVE  /\ TotalPoints(A) \in 0..16
         /\ A # {} => TotalPoints(A) >= 1
         /\ TotalPoints(A) <= 1 /\ A # {} => A \in {{"severity"}, {"impact"}}
<1> PICK a, b, c, d, e : /\ a = IF "monitor" \in A THEN 8 ELSE 0
                         /\ b = IF "service" \in A THEN 4 ELSE 0
                         /\ c = IF "tag" \in A THEN 2 ELSE 0
                         /\ d = IF "severity" \in A THEN 1 ELSE 0
                         /\ e = IF "impact" \in A THEN 1 ELSE 0
  OBVIOUS
<1>1. TotalPoints(A) = a + b + c + d + e
  BY DEF TotalPoints, Points
<1>2. /\ a \in {0, 8} /\ b \in {0, 4} /\ c \in {0, 2} /\ d \in {0, 1} /\ e \in {0, 1}
      /\ "monitor" \in A <=> a = 8
      /\ "service" \in A <=> b = 4
      /\ "tag" \in A <=> c = 2
      /\ "severity" \in A <=> d = 1
      /\ "impact" \in A <=> e = 1
  OBVIOUS
<1>3. TotalPoints(A) \in 0..16
  BY <1>1, <1>2
<1>4. ASSUME A # {} PROVE TotalPoints(A) >= 1
  <2>1. a = 8 \/ b = 4 \/ c = 2 \/ d = 1 \/ e = 1
    BY <1>2, <1>4 DEF RuleFields
  <2> QED BY <1>1, <1>2, <2>1
<1>5. ASSUME TotalPoints(A) <= 1, A # {} PROVE A \in {{"severity"}, {"impact"}}
  <2>1. a = 0 /\ b = 0 /\ c = 0 /\ (d = 0 \/ e = 0)
    BY <1>1, <1>2, <1>5
  <2>2. "monitor" \notin A /\ "service" \notin A /\ "tag" \notin A /\ ("severity" \notin A \/ "impact" \notin A)
    BY <1>2, <2>1
  <2>3. A \subseteq {"severity"} \/ A \subseteq {"impact"}
    BY <2>2 DEF RuleFields
  <2> QED BY <1>5, <2>3
<1> QED BY <1>3, <1>4, <1>5

LEMMA MoreFieldsMorePoints ==
  ASSUME NEW A, NEW B, B \subseteq RuleFields, A \subseteq B, A # B
  PROVE  TotalPoints(A) < TotalPoints(B)
<1> PICK a, b, c, d, e : /\ a = IF "monitor" \in A THEN 8 ELSE 0
                         /\ b = IF "service" \in A THEN 4 ELSE 0
                         /\ c = IF "tag" \in A THEN 2 ELSE 0
                         /\ d = IF "severity" \in A THEN 1 ELSE 0
                         /\ e = IF "impact" \in A THEN 1 ELSE 0
  OBVIOUS
<1> PICK v, w, x, y, z : /\ v = IF "monitor" \in B THEN 8 ELSE 0
                         /\ w = IF "service" \in B THEN 4 ELSE 0
                         /\ x = IF "tag" \in B THEN 2 ELSE 0
                         /\ y = IF "severity" \in B THEN 1 ELSE 0
                         /\ z = IF "impact" \in B THEN 1 ELSE 0
  OBVIOUS
<1>1. TotalPoints(A) = a + b + c + d + e /\ TotalPoints(B) = v + w + x + y + z
  BY DEF TotalPoints, Points
<1>2. /\ a \in {0, 8} /\ b \in {0, 4} /\ c \in {0, 2} /\ d \in {0, 1} /\ e \in {0, 1}
      /\ v \in {0, 8} /\ w \in {0, 4} /\ x \in {0, 2} /\ y \in {0, 1} /\ z \in {0, 1}
      /\ a <= v /\ b <= w /\ c <= x /\ d <= y /\ e <= z
  OBVIOUS
<1>3. PICK f \in RuleFields : f \in B /\ f \notin A
  OBVIOUS
<1>4. a < v \/ b < w \/ c < x \/ d < y \/ e < z
  BY <1>3 DEF RuleFields
<1> QED BY <1>1, <1>2, <1>4

\* A fitting policy scores, and no other does.
LEMMA ScoresOfPolicies ==
  ASSUME NEW policy, NEW subject
  PROVE  /\ PolicyScore(policy, subject) \in 0..16
         /\ PolicyScore(policy, subject) > 0 <=> Fits(policy, subject)
         /\ Fits(policy, subject) /\ Named(policy) = {} => PolicyScore(policy, subject) = 1
         /\ Fits(policy, subject) /\ Named(policy) # {} =>
              PolicyScore(policy, subject) = TotalPoints(Named(policy))
<1>1. Named(policy) \subseteq RuleFields
  BY DEF Named
<1>2. TotalPoints(Named(policy)) \in 0..16 /\ (Named(policy) # {} => TotalPoints(Named(policy)) >= 1)
  BY <1>1, PointsOfFields
<1>3. CASE ~Fits(policy, subject)
  BY <1>3 DEF PolicyScore
<1>4. CASE Fits(policy, subject) /\ Named(policy) = {}
  BY <1>4 DEF PolicyScore
<1>5. CASE Fits(policy, subject) /\ Named(policy) # {}
  BY <1>2, <1>5 DEF PolicyScore
<1> QED BY <1>3, <1>4, <1>5

LEMMA ScoresCompared ==
  ASSUME NEW x \in 0..16, NEW y \in 0..16
  PROVE  /\ 16 - x \in Nat
         /\ 16 - x <= 16 - y => y <= x
         /\ y <= x /\ y # x => x > y
         /\ ~(x < y /\ (x > y \/ x = y))
OBVIOUS

\* Of any policies, the one an incident gets is enabled, fits, and is the most
\* specific but for the tie of a policy that names nothing (policyScore).
THEOREM EscalationAlways ==
  ASSUME NEW Rules, NEW policies \in Seq(Rules), NEW subject,
         \A i \in 1..Len(policies) : policies[i].enabled \in BOOLEAN
  PROVE  EscalationIsSpecific(policies, subject)
<1> DEFINE n == Len(policies)
           usable == {i \in 1..n : policies[i].enabled /\ PolicyScore(policies[i], subject) > 0}
           candidates == {i \in 1..n : policies[i].enabled /\ Fits(policies[i], subject)}
           before(i, j) == \/ PolicyScore(policies[i], subject) > PolicyScore(policies[j], subject)
                           \/ PolicyScore(policies[i], subject) = PolicyScore(policies[j], subject) /\ i <= j
           best == CHOOSE i \in usable : \A j \in usable : before(i, j)
<1>0. n \in Nat
  OBVIOUS
<1>s. PICK score : score = [i \in 1..n |-> PolicyScore(policies[i], subject)]
  OBVIOUS
<1>1. \A i \in 1..n : /\ score[i] = PolicyScore(policies[i], subject) /\ score[i] \in 0..16
                      /\ score[i] > 0 <=> Fits(policies[i], subject)
                      /\ Fits(policies[i], subject) /\ Named(policies[i]) = {} => score[i] = 1
                      /\ Fits(policies[i], subject) /\ Named(policies[i]) # {} => score[i] = TotalPoints(Named(policies[i]))
  BY <1>s, ScoresOfPolicies
<1>2. usable = candidates
  BY <1>1
<1>a. \A i \in usable : i \in 1..n /\ score[i] \in 0..16
  BY <1>1
<1>b. \A i, j \in 1..n : score[i] > score[j] \/ (score[i] = score[j] /\ i <= j) <=> before(i, j)
  BY <1>1
<1> HIDE DEF before
<1>3. ASSUME usable # {} PROVE \E i \in usable : \A j \in usable : before(i, j)
  <2> PICK S : S = {16 - score[i] : i \in usable}
    OBVIOUS
  <2>1. S \subseteq Nat /\ S # {}
    <3>1. \A i \in usable : 16 - score[i] \in Nat
      BY <1>a, ScoresCompared
    <3>2. S \subseteq Nat
      BY <3>1
    <3>3. S # {}
      BY <1>3
    <3> QED BY <3>2, <3>3
  <2>2. PICK least \in S : \A k \in S : least <= k
    BY <2>1, LeastNatural
  <2>3. PICK a \in usable : least = 16 - score[a]
    BY <2>2
  <2>4. \A j \in usable : score[j] <= score[a]
    <3> SUFFICES ASSUME NEW j \in usable PROVE score[j] <= score[a]
      OBVIOUS
    <3>1. 16 - score[j] \in S
      OBVIOUS
    <3>2. 16 - score[a] <= 16 - score[j]
      BY <2>2, <2>3, <3>1
    <3>3. score[j] \in 0..16 /\ score[a] \in 0..16
      BY <1>a
    <3> QED BY <3>2, <3>3, ScoresCompared
  <2> PICK U : U = {i \in usable : score[i] = score[a]}
    OBVIOUS
  <2>5. U \subseteq Nat /\ U # {}
    OBVIOUS
  <2>6. PICK i \in U : \A k \in U : i <= k
    BY <2>5, LeastNatural
  <2>7. ASSUME NEW j \in usable PROVE before(i, j)
    <3>1. i \in usable /\ score[i] = score[a] /\ score[j] <= score[i]
      BY <2>4, <2>6
    <3>2. j \in 1..n /\ i \in 1..n /\ score[i] \in 0..16 /\ score[j] \in 0..16
      BY <1>a, <3>1
    <3>3. CASE score[j] = score[i]
      <4>1. i <= j
        BY <2>6, <3>1, <3>3
      <4> QED BY <1>b, <3>2, <3>3, <4>1
    <3>4. CASE score[j] # score[i]
      <4>1. score[i] > score[j]
        BY <3>1, <3>2, <3>4, ScoresCompared
      <4> QED BY <1>b, <3>2, <4>1
    <3> QED BY <3>3, <3>4
  <2> QED BY <2>6, <2>7
<1> PICK i : i = ResolveEscalationPolicy(policies, subject)
  OBVIOUS
<1>4. i = IF usable = {} THEN 0 ELSE best
  BY DEF ResolveEscalationPolicy, before
<1>5. i = 0 <=> candidates = {}
  <2>1. usable # {} => best \in usable
    BY <1>3
  <2>2. \A k \in usable : k # 0
    BY <1>0
  <2>3. CASE usable = {}
    BY <1>2, <1>4, <2>3
  <2>4. CASE usable # {}
    <3>1. i \in usable
      BY <1>4, <2>1, <2>4
    <3> QED BY <1>2, <2>2, <2>4, <3>1
  <2> QED BY <2>3, <2>4
<1>6. ASSUME i # 0
      PROVE  /\ i \in candidates /\ i \in RunbooksForIncident(policies, subject)
             /\ \A j \in candidates :
                  Named(policies[i]) \subseteq Named(policies[j]) /\ Named(policies[i]) # Named(policies[j]) =>
                    /\ Named(policies[i]) = {} /\ i < j
                    /\ Named(policies[j]) \in {{"severity"}, {"impact"}}
             /\ \A j \in candidates : Named(policies[j]) = Named(policies[i]) => i <= j
  <2>1. i \in usable /\ \A j \in usable : before(i, j)
    BY <1>3, <1>4, <1>6
  <2>2. i \in candidates /\ i \in 1..n /\ Fits(policies[i], subject)
    BY <1>2, <2>1
  <2>3. i \in RunbooksForIncident(policies, subject)
    BY <2>2 DEF RunbooksForIncident, Fits
  <2>4. \A j \in candidates : /\ j \in 1..n /\ Fits(policies[j], subject)
                              /\ score[i] > score[j] \/ (score[i] = score[j] /\ i <= j)
    BY <1>2, <1>b, <2>1, <2>2
  <2>5. ASSUME NEW j \in candidates, Named(policies[i]) \subseteq Named(policies[j]), Named(policies[i]) # Named(policies[j])
        PROVE  /\ Named(policies[i]) = {} /\ i < j
               /\ Named(policies[j]) \in {{"severity"}, {"impact"}}
    <3>1. Named(policies[j]) # {} /\ Named(policies[j]) \subseteq RuleFields
      BY <2>5 DEF Named
    <3>2. score[j] = TotalPoints(Named(policies[j])) /\ score[j] \in 0..16 /\ score[i] \in 0..16
      BY <1>1, <2>2, <2>4, <3>1
    <3>3. Named(policies[i]) = {}
      <4>1. SUFFICES ASSUME Named(policies[i]) # {} PROVE FALSE
        OBVIOUS
      <4>2. score[i] = TotalPoints(Named(policies[i]))
        BY <1>1, <2>2, <4>1
      <4>3. score[i] < score[j]
        BY <2>5, <3>1, <3>2, <4>2, MoreFieldsMorePoints
      <4>4. score[i] > score[j] \/ score[i] = score[j]
        BY <2>4
      <4> QED BY <3>2, <4>3, <4>4, ScoresCompared
    <3>4. score[i] = 1
      BY <1>1, <2>2, <3>3
    <3>5. score[j] >= 1
      BY <3>1, <3>2, PointsOfFields
    <3>6. score[j] = 1 /\ i <= j
      BY <2>4, <3>2, <3>4, <3>5
    <3>7. Named(policies[j]) \in {{"severity"}, {"impact"}}
      BY <3>1, <3>2, <3>6, PointsOfFields
    <3>8. i # j
      BY <2>5
    <3> QED BY <2>2, <2>4, <3>3, <3>6, <3>7, <3>8
  <2>6. ASSUME NEW j \in candidates, Named(policies[j]) = Named(policies[i])
        PROVE  i <= j
    <3>1. j \in 1..n /\ Fits(policies[j], subject)
      BY <2>4
    <3>2. score[i] = score[j]
      <4>1. CASE Named(policies[i]) = {}
        BY <1>1, <2>2, <2>6, <3>1, <4>1
      <4>2. CASE Named(policies[i]) # {}
        BY <1>1, <2>2, <2>6, <3>1, <4>2
      <4> QED BY <4>1, <4>2
    <3>3. score[i] \in 0..16
      BY <1>1, <2>2
    <3> QED BY <2>4, <3>2, <3>3
  <2> QED BY <2>2, <2>3, <2>5, <2>6
<1> QED BY <1>5, <1>6 DEF EscalationIsSpecific

------------------------------------------------------------------------------
(* The hours of a maintenance window. *)

\* What division and remainder come to.
LEMMA Division ==
  ASSUME NEW a \in Int, NEW n \in Nat \ {0}
  PROVE  /\ a \div n \in Int /\ a % n \in 0..(n - 1)
         /\ a = (a \div n) * n + (a % n)
OBVIOUS

\* Multiples are ordered like what they are multiples of.
LEMMA Multiples ==
  ASSUME NEW q \in Int, NEW p \in Int, NEW n \in Nat \ {0}
  PROVE  /\ q * n \in Int /\ p * n \in Int
         /\ q + 1 <= p => q * n + n <= p * n
         /\ q <= p => q * n <= p * n
OBVIOUS

\* A number lies between two neighbouring multiples of one quotient only.
LEMMA Quotient ==
  ASSUME NEW a \in Int, NEW n \in Nat \ {0}, NEW q \in Int, q * n <= a, a < q * n + n
  PROVE  a \div n = q /\ a % n = a - q * n
<1> PICK p : p = a \div n
  OBVIOUS
<1>1. p \in Int /\ p * n <= a /\ a < p * n + n /\ a % n = a - p * n
  BY Division
<1>2. ~(p + 1 <= q)
  BY <1>1, Multiples
<1>3. ~(q + 1 <= p)
  BY <1>1, Multiples
<1>4. p = q
  BY <1>1, <1>2, <1>3
<1> QED BY <1>1, <1>4

\* The day and the time of a moment put together.
LEMMA DayOf ==
  ASSUME NEW d \in Int, NEW x \in 0..(DayTicks - 1)
  PROVE  /\ Day(d * DayTicks + x) = d /\ TimeOfDay(d * DayTicks + x) = x
         /\ d * DayTicks \in Int
<1>1. DayTicks \in Nat \ {0}
  BY CalendarAssumption
<1>2. d * DayTicks \in Int
  BY <1>1
<1> QED BY <1>1, <1>2, Quotient DEF Day, TimeOfDay

\* A moment lies in its day.
LEMMA DayTypes ==
  ASSUME NEW t \in Int
  PROVE  /\ Day(t) \in Int /\ TimeOfDay(t) \in 0..(DayTicks - 1)
         /\ Day(t) * DayTicks \in Int
         /\ Day(t) * DayTicks <= t /\ t < Day(t) * DayTicks + DayTicks
<1>1. DayTicks \in Nat \ {0}
  BY CalendarAssumption
<1> QED BY <1>1, Division, Multiples DEF Day, TimeOfDay

\* Of seven days in a row one has the weekday asked for.
LEMMA WeekdaysApart ==
  ASSUME NEW now \in Int, NEW start \in Int
  PROVE  \E back \in 0..6 :
           /\ back = (((now % 7) - (start % 7)) + 7) % 7
           /\ \A d \in Int : d <= now /\ now - d <= 6 => ((d % 7) = (start % 7) <=> d = now - back)
<1>1. now % 7 \in 0..6 /\ start % 7 \in 0..6
  OBVIOUS
<1> PICK back \in 0..6 : back = (((now % 7) - (start % 7)) + 7) % 7
  BY <1>1
<1>2. \A d \in Int : d <= now /\ now - d <= 6 => ((d % 7) = (start % 7) <=> d = now - back)
  OBVIOUS
<1> QED BY <1>2

\* What a window's rows hold.
IsWindow(w) ==
  /\ w.starts \in Int /\ w.ends \in Int /\ w.offset \in Int
  /\ w.zoneKnown \in BOOLEAN /\ w.enabled \in BOOLEAN

\* The days a recurrence asks for.
Due(w, start, d) ==
  /\ w.recurrence = "weekly" => Weekday(d) = Weekday(Day(start))
  /\ w.recurrence = "monthly" => MonthDay(d) = MonthDay(Day(start))

\* Of the days an occurrence could still be seen from, the code looks at one.
LEMMA CandidateIs ==
  ASSUME NEW w, w.recurrence \in {"daily", "weekly", "monthly"}, NEW start \in Int, NEW now \in Int
  PROVE  \E day \in Int :
           /\ Candidate(w, start, now) = day * DayTicks + TimeOfDay(start)
           /\ Day(now) - day \in 0..6
           /\ w.recurrence # "weekly" => day = Day(now)
           /\ Due(w, start, day) <=> (w.recurrence = "monthly" => MonthDay(Day(now)) = MonthDay(Day(start)))
           /\ \A d \in Int : /\ d <= Day(now) /\ Day(now) - d <= (IF w.recurrence = "weekly" THEN 6 ELSE 0)
                             /\ Due(w, start, d)
                             => d = day
<1> PICK today \in Int : today = Day(now)
  BY DayTypes
<1> PICK first \in Int : first = Day(start)
  BY DayTypes
<1>1. today \in Int /\ first \in Int
  OBVIOUS
<1>2. CASE w.recurrence = "weekly"
  <2>b. PICK back \in 0..6 :
          /\ back = (((today % 7) - (first % 7)) + 7) % 7
          /\ \A d \in Int : d <= today /\ today - d <= 6 => ((d % 7) = (first % 7) <=> d = today - back)
    BY WeekdaysApart
  <2>2. Candidate(w, start, now) = (today - back) * DayTicks + TimeOfDay(start)
    BY <1>2, <2>b DEF Candidate, Weekday
  <2>3. today - back \in Int /\ today - (today - back) = back /\ today - back <= today
    BY <1>1, <2>b
  <2>w. \A d : Due(w, start, d) <=> (d % 7) = (first % 7)
    BY <1>2 DEF Due, Weekday
  <2>4. Due(w, start, today - back)
    BY <2>b, <2>3, <2>w
  <2>5. \A d \in Int : d <= today /\ today - d <= 6 /\ Due(w, start, d) => d = today - back
    BY <2>b, <2>w
  <2> QED BY <1>2, <2>b, <2>2, <2>3, <2>4, <2>5
<1>3. CASE w.recurrence # "weekly"
  <2>1. Candidate(w, start, now) = today * DayTicks + TimeOfDay(start)
    <3>1. Candidate(w, start, now) = (today - 0) * DayTicks + TimeOfDay(start)
      BY <1>3 DEF Candidate
    <3> QED BY <1>1, <3>1
  <2>2. Due(w, start, today) <=> (w.recurrence = "monthly" => MonthDay(today) = MonthDay(first))
    BY <1>3 DEF Due
  <2> QED BY <1>1, <1>3, <2>1, <2>2
<1> QED BY <1>2, <1>3

\* A maintenance window is in effect exactly at the hours of its reference, for any
\* window, moment, length of day and calendar (isWindowActive).
THEOREM WindowsAlways ==
  ASSUME NEW w, IsWindow(w), NEW at \in Int,
         NEW days, days \subseteq Int, \A k \in 0..6 : Day(at + ZoneOffset(w)) - k \in days
  PROVE  WindowHoursAgree(w, at, days)
<1> SUFFICES ASSUME ValidWindow(w) PROVE WindowHoursAgree(w, at, days)
  BY DEF WindowHoursAgree
<1> PICK shift \in Int : shift = ZoneOffset(w)
  BY DEF ZoneOffset, IsWindow
<1> PICK begin \in Int : begin = w.starts
  BY DEF IsWindow
<1> PICK end \in Int : end = w.ends
  BY DEF IsWindow
<1>1. end > begin
  BY DEF ValidWindow
<1> PICK start \in Int : start = begin + shift
  OBVIOUS
<1> PICK now \in Int : now = at + shift
  OBVIOUS
<1>2. start \in Int /\ now \in Int
  OBVIOUS
<1>3. CASE w.recurrence \in {"", "none"}
  <2>1. IsWindowActive(w, at) <=> w.enabled /\ begin <= at /\ at < end
    BY <1>1, <1>3 DEF IsWindowActive
  <2>2. at \in begin..(end - 1) <=> begin <= at /\ at < end
    BY <1>1
  <2> QED BY <1>3, <2>1, <2>2 DEF WindowHoursAgree
<1>4. CASE w.recurrence \in {"daily", "weekly", "monthly"}
  <2>x. PICK x \in Int : x = TimeOfDay(start)
    BY DayTypes
  <2> PICK reach \in {0, 6} : reach = IF w.recurrence = "weekly" THEN 6 ELSE 0
    OBVIOUS
  <2> PICK from : from = Candidate(w, start, now)
    OBVIOUS
  <2>1. PICK day \in Int : /\ from = day * DayTicks + x
                           /\ Day(now) - day \in 0..6
                           /\ w.recurrence # "weekly" => day = Day(now)
                           /\ Due(w, start, day) <=> (w.recurrence = "monthly" => MonthDay(Day(now)) = MonthDay(Day(start)))
                           /\ \A d \in Int : d <= Day(now) /\ Day(now) - d <= reach /\ Due(w, start, d) => d = day
    BY <1>2, <1>4, <2>x, CandidateIs
  <2>2. x \in 0..(DayTicks - 1) /\ Day(now) \in Int
    BY <1>2, <2>x, DayTypes
  <2>o. \A t : t \in Occurrences(w, start, days) <=> \E d \in days : Due(w, start, d) /\ t = d * DayTicks + x
    <3>1. \A d \in days : Day(d * DayTicks + x) = d
      BY <2>2, DayOf
    <3>2. \A t : t \in Occurrences(w, start, days) <=>
                   \E d \in days : /\ t = d * DayTicks + x
                                   /\ CASE w.recurrence = "daily" -> TRUE
                                        [] w.recurrence = "weekly" -> Weekday(Day(t)) = Weekday(Day(start))
                                        [] w.recurrence = "monthly" -> MonthDay(Day(t)) = MonthDay(Day(start))
      BY <2>x DEF Occurrences
    <3>3. ASSUME NEW t, NEW d \in days, t = d * DayTicks + x
          PROVE  (CASE w.recurrence = "daily" -> TRUE
                    [] w.recurrence = "weekly" -> Weekday(Day(t)) = Weekday(Day(start))
                    [] w.recurrence = "monthly" -> MonthDay(Day(t)) = MonthDay(Day(start))) <=> Due(w, start, d)
      <4>1. Day(t) = d
        BY <3>1, <3>3
      <4>2. CASE w.recurrence = "daily"
        BY <4>2 DEF Due
      <4>3. CASE w.recurrence = "weekly"
        BY <4>1, <4>3 DEF Due
      <4>4. CASE w.recurrence = "monthly"
        BY <4>1, <4>4 DEF Due
      <4> QED BY <1>4, <4>2, <4>3, <4>4
    <3> QED BY <3>2, <3>3
  <2>3. day \in days
    <3>1. day = Day(now) - (Day(now) - day)
      BY <2>2
    <3> QED BY <2>1, <3>1
  <2>4. from \in Int
    BY <2>1, <2>2, DayOf
  <2>5. IsWindowActive(w, at) <=>
          w.enabled /\ Due(w, start, day) /\ from <= now /\ now < from + (end - begin)
    <3>1. IsWindowActive(w, at) <=>
            /\ w.enabled /\ end > begin
            /\ w.recurrence = "monthly" => MonthDay(Day(now)) = MonthDay(Day(start))
            /\ from <= now /\ now < from + (end - begin)
      <4>1. IsWindowActive(w, at) <=>
              LET c == Candidate(w, w.starts + ZoneOffset(w), at + ZoneOffset(w))
              IN  /\ w.enabled /\ w.ends > w.starts
                  /\ w.recurrence = "monthly" =>
                       MonthDay(Day(at + ZoneOffset(w))) = MonthDay(Day(w.starts + ZoneOffset(w)))
                  /\ c <= at + ZoneOffset(w) /\ at + ZoneOffset(w) < c + (w.ends - w.starts)
        <5>1. w.recurrence \notin {"", "none"}
          BY <1>4
        <5> QED BY <5>1 DEF IsWindowActive
      <4>2. w.starts + ZoneOffset(w) = start /\ at + ZoneOffset(w) = now
        OBVIOUS
      <4> QED BY <4>1, <4>2
    <3> QED BY <1>1, <2>1, <3>1
  <2>6. ASSUME Due(w, start, day), from <= now, now < from + (end - begin)
        PROVE  \E t \in Occurrences(w, start, days) : now \in t..(t + end - begin - 1) /\ Day(now) - Day(t) <= reach
    <3>1. from \in Occurrences(w, start, days)
      <4>1. \A t : t \in Occurrences(w, start, days) <=> \E d \in days : Due(w, start, d) /\ t = d * DayTicks + x
        BY <2>o
      <4> QED BY <2>1, <2>3, <2>6, <4>1
    <3>2. now \in from..(from + end - begin - 1)
      BY <1>1, <1>2, <2>4, <2>6
    <3>3. Day(from) = day
      BY <2>1, <2>2, DayOf
    <3>4. Day(now) - day <= reach
      BY <2>1, <2>2
    <3> QED BY <3>1, <3>2, <3>3, <3>4
  <2>7. ASSUME NEW t \in Occurrences(w, start, days), now \in t..(t + end - begin - 1), Day(now) - Day(t) <= reach
        PROVE  Due(w, start, day) /\ from <= now /\ now < from + (end - begin)
    <3>1. PICK d \in days : Due(w, start, d) /\ t = d * DayTicks + x
      <4>1. \A s : s \in Occurrences(w, start, days) <=> \E d \in days : Due(w, start, d) /\ s = d * DayTicks + x
        BY <2>o
      <4> QED BY <2>7, <4>1
    <3>2. d \in Int /\ Day(t) = d /\ t \in Int
      BY <2>2, <3>1, DayOf
    <3>3. t <= now
      BY <1>1, <1>2, <2>7, <3>2
    <3>4. d <= Day(now)
      <4> PICK q, n : q = Day(now) /\ n = DayTicks
        OBVIOUS
      <4>1. q \in Int /\ now < q * n + n /\ q * n \in Int
        BY <1>2, DayTypes
      <4>2. n \in Nat \ {0}
        BY CalendarAssumption
      <4>3. d * n \in Int /\ d * n <= t
        BY <2>2, <3>1, <3>2, <4>2
      <4>4. ~(q + 1 <= d)
        BY <1>2, <3>2, <3>3, <4>1, <4>2, <4>3, Multiples
      <4> QED BY <3>2, <4>1, <4>4
    <3>5. d = day
      BY <2>1, <2>7, <3>1, <3>2, <3>4
    <3>6. t = from
      BY <2>1, <3>1, <3>5
    <3> QED BY <1>1, <1>2, <2>4, <2>7, <3>1, <3>3, <3>5, <3>6
  <2>8. IsWindowActive(w, at) <=>
          w.enabled /\ \E t \in Occurrences(w, start, days) : now \in t..(t + end - begin - 1) /\ Day(now) - Day(t) <= reach
    BY <2>5, <2>6, <2>7
  <2> QED BY <1>4, <2>8 DEF WindowHoursAgree
<1> QED BY <1>3, <1>4 DEF ValidWindow, Recurrences

------------------------------------------------------------------------------
(* The on-call rotation. *)

\* A set of indices that is not empty has a greatest.
LEMMA GreatestIndex ==
  ASSUME NEW n \in Nat, NEW S, S \subseteq 1..n, S # {}
  PROVE  \E i \in S : \A k \in S : k <= i
<1> PICK T : T = {n - i : i \in S}
  OBVIOUS
<1>0. \A i \in S : n - i \in Nat
  OBVIOUS
<1>1. T \subseteq Nat /\ T # {}
  <2>1. T \subseteq Nat
    BY <1>0
  <2>2. T # {}
    OBVIOUS
  <2> QED BY <2>1, <2>2
<1>2. PICK least \in T : \A k \in T : least <= k
  BY <1>1, LeastNatural
<1>3. PICK i \in S : least = n - i
  BY <1>2
<1>4. ASSUME NEW k \in S PROVE k <= i
  <2>1. n - k \in T
    OBVIOUS
  <2>2. n - i <= n - k
    BY <1>2, <1>3, <2>1
  <2> QED BY <2>2
<1> QED BY <1>4

\* A quotient and a remainder determine what they are of.
LEMMA Remainder ==
  ASSUME NEW a \in Int, NEW n \in Nat \ {0}, NEW q \in Int, NEW r \in Nat, r < n, a = q * n + r
  PROVE  a \div n = q /\ a % n = r
<1>1. q * n \in Int /\ q * n <= a /\ a < q * n + n /\ a - q * n = r
  OBVIOUS
<1> QED BY <1>1, Quotient

\* Every number has a quotient and a remainder.
LEMMA Divided ==
  ASSUME NEW a \in Int, NEW n \in Nat \ {0}
  PROVE  \E q \in Int, r \in Nat : /\ a \div n = q /\ a % n = r
                                   /\ r < n /\ a = q * n + r /\ q * n \in Int
<1> PICK q \in Int : q = a \div n
  BY Division
<1> PICK r \in 0..(n - 1) : r = a % n
  BY Division
<1>1. a = q * n + r
  BY Division
<1>2. r \in Nat /\ r < n /\ q * n \in Int
  OBVIOUS
<1> WITNESS q \in Int
<1>3. r \in Nat
  BY <1>2
<1> WITNESS r \in Nat
<1> QED BY <1>1, <1>2

\* A multiple leaves no remainder.
LEMMA NoRemainder ==
  ASSUME NEW a \in Int, NEW n \in Nat \ {0}, NEW q \in Int, a = q * n
  PROVE  a % n = 0
<1>1. 0 \in Nat /\ 0 < n /\ a = q * n + 0
  OBVIOUS
<1> QED BY <1>1, Remainder

\* Go's remainder, taken twice, is never negative.
LEMMA ParticipantIs ==
  ASSUME NEW q \in Int, NEW n \in Nat \ {0}
  PROVE  ParticipantIndex(q, n) = q % n
<1>1. ASSUME NEW a \in Nat, a < n PROVE a % n = a /\ (a + n) % n = a
  <2> PICK b \in Int : b = a + n
    OBVIOUS
  <2>1. a = 0 * n + a /\ b = 1 * n + a
    OBVIOUS
  <2>2. a % n = a
    BY <1>1, <2>1, Remainder
  <2>3. b % n = a
    BY <1>1, <2>1, Remainder
  <2> QED BY <2>2, <2>3
<1>2. CASE q >= 0
  <2> PICK k \in Int, m \in Nat : q % n = m /\ m < n
    BY Divided
  <2>1. GoRem(q, n) = m
    BY <1>2 DEF GoRem
  <2>2. GoRem(m + n, n) = (m + n) % n
    BY DEF GoRem
  <2> QED BY <1>1, <2>1, <2>2 DEF ParticipantIndex
<1>3. CASE q < 0
  <2> PICK b \in Nat : b = -q
    BY <1>3
  <2> PICK k \in Int, m \in Nat : b % n = m /\ m < n /\ b = k * n + m /\ k * n \in Int
    <3>1. b \in Int
      OBVIOUS
    <3> QED BY <3>1, Divided
  <2>1. GoRem(q, n) = -m
    BY <1>3 DEF GoRem
  <2> PICK c \in Nat : c = n - m /\ c > 0
    OBVIOUS
  <2>2. ParticipantIndex(q, n) = c % n
    <3>1. -m + n = c /\ ~(c < 0)
      OBVIOUS
    <3> QED BY <2>1, <3>1 DEF ParticipantIndex, GoRem
  <2>3. CASE m = 0
    <3> PICK j \in Int : j = -k
      OBVIOUS
    <3>1. j * n = -(k * n)
      OBVIOUS
    <3>2. q = j * n
      BY <2>3, <3>1
    <3>3. q % n = 0
      BY ONLY q \in Int, j \in Int, n \in Nat \ {0}, <3>2, NoRemainder
    <3>4. c % n = 0
      <4>1. c = 1 * n
        BY <2>3
      <4> QED BY <4>1, NoRemainder
    <3> QED BY <2>2, <3>3, <3>4
  <2>4. CASE m # 0
    <3> PICK j \in Int : j = -k - 1
      OBVIOUS
    <3>1. j * n = -(k * n) - n
      OBVIOUS
    <3>2. q = j * n + c /\ c < n
      BY <2>4, <3>1
    <3>3. q % n = c
      BY ONLY q \in Int, j \in Int, n \in Nat \ {0}, c \in Nat, <3>2, Remainder
    <3> QED BY <1>1, <2>2, <3>2, <3>3
  <2> QED BY <2>3, <2>4
<1> QED BY <1>2, <1>3

\* Turns come round.
LEMMA NextTurn ==
  ASSUME NEW q \in Int, NEW p \in Int, p = q + 1, NEW n \in Nat \ {0}
  PROVE  p % n = ((q % n) + 1) % n
<1> PICK k \in Int, m \in Nat : q % n = m /\ m < n /\ q = k * n + m /\ k * n \in Int
  BY Divided
<1> PICK c \in Nat : c = m + 1
  OBVIOUS
<1>1. CASE c < n
  <2>1. p = k * n + c /\ c = 0 * n + c
    OBVIOUS
  <2> QED BY <1>1, <2>1, Remainder
<1>2. CASE c = n
  <2> PICK j \in Int : j = k + 1
    OBVIOUS
  <2>1. j * n = k * n + n
    OBVIOUS
  <2>2. p = j * n /\ c = 1 * n
    BY <1>2, <2>1
  <2>3. p % n = 0
    BY ONLY p \in Int, j \in Int, n \in Nat \ {0}, <2>2, NoRemainder
  <2>4. c % n = 0
    BY <2>2, NoRemainder
  <2> QED BY <2>3, <2>4
<1> QED BY <1>1, <1>2

\* What a schedule's row holds: no participant twice, and a time between hand-offs.
IsSchedule(s) ==
  /\ Len(s.participants) \in Nat
  /\ \A i, j \in 1..Len(s.participants) : s.participants[i] = s.participants[j] => i = j
  /\ s.rotation \in Nat \ {0} /\ s.handoff \in Int

\* The shift of a slot, counted from the hand-off.
ShiftOf(s, slot) ==
  [user |-> s.participants[(slot % Len(s.participants)) + 1],
   starts |-> s.handoff + slot * s.rotation, ends |-> s.handoff + slot * s.rotation + s.rotation]

\* The shift of a moment is that of the slot it lies in.
LEMMA RotationIs ==
  ASSUME NEW s, IsSchedule(s), Len(s.participants) # 0, NEW slot \in Int, NEW t \in Int,
         s.handoff + slot * s.rotation <= t, t < s.handoff + slot * s.rotation + s.rotation
  PROVE  RotationShift(s, t) = ShiftOf(s, slot)
<1> PICK h \in Int : h = s.handoff
  BY DEF IsSchedule
<1> PICK r \in Nat \ {0} : r = s.rotation
  BY DEF IsSchedule
<1> PICK n \in Nat \ {0} : n = Len(s.participants)
  BY DEF IsSchedule
<1>e. PICK e \in Int : e = t - h
  OBVIOUS
<1>1. slot * r \in Int
  OBVIOUS
<1>2. slot * r <= e /\ e < slot * r + r
  <2> PICK x \in Int : x = slot * r
    BY <1>1
  <2>1. h + x <= t /\ t < h + x + r
    OBVIOUS
  <2>2. x <= e /\ e < x + r
    BY ONLY <1>e, <2>1, e \in Int, h \in Int, x \in Int, t \in Int, r \in Nat
  <2> QED BY <2>2
<1>3. e \div r = slot
  BY <1>2, Quotient
<1>4. SlotOf(t - s.handoff, s.rotation) = slot
  <2>1. SlotOf(e, r) = slot
    BY <1>3 DEF SlotOf
  <2> QED BY <1>e, <2>1
<1>5. ParticipantIndex(slot, n) = slot % n
  BY ParticipantIs
<1>6. n # 0 /\ ~(r <= 0) /\ ~(n = 0 \/ r <= 0)
  OBVIOUS
<1>7. ~(Len(s.participants) = 0 \/ s.rotation <= 0)
  BY <1>6
<1>8. RotationShift(s, t) =
        LET slotAt == SlotOf(t - s.handoff, s.rotation)
            start == s.handoff + slotAt * s.rotation
        IN  [user |-> s.participants[ParticipantIndex(slotAt, Len(s.participants)) + 1],
             starts |-> start, ends |-> start + s.rotation]
  BY <1>7, Zenon DEF RotationShift
<1> QED BY <1>4, <1>5, <1>8 DEF ShiftOf

\* Every moment lies in a slot.
LEMMA SlotOfMoment ==
  ASSUME NEW s, IsSchedule(s), NEW t \in Int
  PROVE  \E slot \in Int : s.handoff + slot * s.rotation <= t /\ t < s.handoff + slot * s.rotation + s.rotation
<1> PICK h \in Int : h = s.handoff
  BY DEF IsSchedule
<1> PICK r \in Nat \ {0} : r = s.rotation
  BY DEF IsSchedule
<1> PICK e \in Int : e = t - h
  OBVIOUS
<1> PICK q \in Int, m \in Nat : m < r /\ e = q * r + m /\ q * r \in Int
  BY Divided
<1>1. h + q * r <= t /\ t < h + q * r + r
  OBVIOUS
<1> QED BY <1>1

\* A list of shifts, one to a slot, without a gap.
ListsFrom(shifts, s, slot) ==
  \E n \in 1..100 : Len(shifts) = n /\ \A i \in 1..n : shifts[i] = ShiftOf(s, slot + i - 1)

\* The shifts listed are those of the slots from that of the first moment on: the
\* least one that were not would follow one that is.
LEMMA UpcomingAre ==
  ASSUME NEW s, IsSchedule(s), Len(s.participants) # 0, NEW from \in Int, NEW count \in Int, NEW slot \in Int,
         s.handoff + slot * s.rotation <= from, from < s.handoff + slot * s.rotation + s.rotation
  PROVE  ListsFrom(UpcomingOnCallShifts(s, from, count), s, slot)
<1> PICK n \in 1..100 : n = IF count <= 0 \/ count > 100 THEN 10 ELSE count
  OBVIOUS
<1> PICK f : f = UpcomingOnCallShifts(s, from, count)
  OBVIOUS
<1>1. f = CHOOSE g : g = [i \in 1..n |-> RotationShift(s, IF i = 1 THEN from ELSE g[i - 1].ends)]
  BY DEF UpcomingOnCallShifts
<1> PICK listed : listed = [i \in 1..n |-> ShiftOf(s, slot + i - 1)]
  OBVIOUS
<1>2. ASSUME NEW i \in 1..n
      PROVE  RotationShift(s, IF i = 1 THEN from ELSE ShiftOf(s, slot + (i - 1) - 1).ends) = ShiftOf(s, slot + i - 1)
  <2> PICK h \in Int : h = s.handoff
    BY DEF IsSchedule
  <2> PICK r \in Nat \ {0} : r = s.rotation
    BY DEF IsSchedule
  <2>1. CASE i = 1
    <3>1. RotationShift(s, from) = ShiftOf(s, slot)
      BY RotationIs
    <3>2. slot + i - 1 = slot
      BY <2>1
    <3> QED BY <2>1, <3>1, <3>2
  <2>2. CASE i # 1
    <3> PICK q \in Int : q = slot + i - 1
      OBVIOUS
    <3> PICK p \in Int : p = slot + (i - 1) - 1
      OBVIOUS
    <3>1. q = p + 1 /\ p * r \in Int /\ q * r = p * r + r
      OBVIOUS
    <3> PICK x \in Int : x = p * r
      BY <3>1
    <3>a. q * r = x + r
      BY <3>1
    <3> PICK t \in Int : t = h + x + r
      OBVIOUS
    <3>2. ShiftOf(s, p).ends = t
      BY DEF ShiftOf
    <3>3. h + q * r <= t /\ t < h + q * r + r
      <4> PICK y \in Int : y = q * r
        BY <3>a
      <4>1. h + y <= t /\ t < h + y + r
        <5>1. y = x + r /\ t = h + x + r
          BY <3>a
        <5>2. r > 0
          OBVIOUS
        <5> QED BY ONLY <5>1, <5>2, h \in Int, x \in Int, y \in Int, r \in Nat
      <4> QED BY <4>1
    <3>4. s.handoff + q * s.rotation <= t /\ t < s.handoff + q * s.rotation + s.rotation
      BY <3>3
    <3>5. RotationShift(s, t) = ShiftOf(s, q)
      BY <3>4, RotationIs
    <3> QED BY <2>2, <3>2, <3>5
  <2> QED BY <2>1, <2>2
<1>3. listed = [i \in 1..n |-> RotationShift(s, IF i = 1 THEN from ELSE listed[i - 1].ends)]
  <2>1. ASSUME NEW i \in 1..n PROVE listed[i] = RotationShift(s, IF i = 1 THEN from ELSE listed[i - 1].ends)
    <3>1. CASE i = 1
      BY <1>2, <3>1
    <3>2. CASE i # 1
      <4>1. i - 1 \in 1..n /\ listed[i - 1] = ShiftOf(s, slot + (i - 1) - 1)
        BY <3>2
      <4> QED BY <1>2, <3>2, <4>1
    <3> QED BY <3>1, <3>2
  <2> QED BY <2>1
<1>4. f = [i \in 1..n |-> RotationShift(s, IF i = 1 THEN from ELSE f[i - 1].ends)]
  <2> DEFINE Fixed(g) == g = [i \in 1..n |-> RotationShift(s, IF i = 1 THEN from ELSE g[i - 1].ends)]
  <2>1. f = CHOOSE g : Fixed(g)
    BY <1>1
  <2>2. Fixed(listed)
    BY <1>3
  <2>3. Fixed(f)
    <3> HIDE DEF Fixed
    <3> QED BY ONLY <2>1, <2>2
  <2> QED BY <2>3
<1>5. \A i \in 1..n : f[i] = listed[i]
  <2> SUFFICES ASSUME \E i \in 1..n : f[i] # listed[i] PROVE FALSE
    OBVIOUS
  <2> PICK D : D = {i \in 1..n : f[i] # listed[i]}
    OBVIOUS
  <2>1. D \subseteq Nat /\ D # {}
    OBVIOUS
  <2>2. PICK i \in D : \A k \in D : i <= k
    BY <2>1, LeastNatural
  <2>3. i \in 1..n /\ f[i] # listed[i]
    OBVIOUS
  <2>4. /\ f[i] = RotationShift(s, IF i = 1 THEN from ELSE f[i - 1].ends)
        /\ listed[i] = RotationShift(s, IF i = 1 THEN from ELSE listed[i - 1].ends)
    BY <1>3, <1>4, <2>3
  <2>5. i # 1 => f[i - 1] = listed[i - 1]
    <3> SUFFICES ASSUME i # 1 PROVE f[i - 1] = listed[i - 1]
      OBVIOUS
    <3>1. i - 1 \in 1..n /\ ~(i <= i - 1)
      BY <2>3
    <3>2. i - 1 \notin D
      BY <2>2, <3>1
    <3> QED BY <3>1, <3>2
  <2> QED BY <2>3, <2>4, <2>5
<1>6. Len(f) = n
  BY <1>4
<1> QED BY <1>5, <1>6 DEF ListsFrom

\* The participant of a slot is found at its turn.
LEMMA TurnOf ==
  ASSUME NEW s, IsSchedule(s), NEW n \in Nat \ {0}, n = Len(s.participants), NEW slot \in Int
  PROVE  (CHOOSE i \in 1..n : s.participants[i] = ShiftOf(s, slot).user) = (slot % n) + 1
<1> PICK m \in 0..(n - 1) : m = slot % n
  BY Division
<1>1. m + 1 \in 1..n
  BY ONLY m \in 0..(n - 1), n \in Nat \ {0}
<1> PICK k \in 1..n : k = m + 1
  BY <1>1
<1>2. ShiftOf(s, slot).user = s.participants[k]
  BY DEF ShiftOf
<1>3. \A i \in 1..n : s.participants[i] = s.participants[k] <=> i = k
  BY DEF IsSchedule
<1>4. (CHOOSE i \in 1..n : s.participants[i] = ShiftOf(s, slot).user) = k
  BY <1>2, <1>3
<1> QED BY <1>4

\* The coming shifts are the one that contains the moment and those after it, they
\* give the participants their turns, and the one on call is the one listed unless
\* an override covers the moment, of which the last wins: for any schedule, moment,
\* count and overrides (rotationShift, UpcomingOnCallShifts, ResolveOnCall).
THEOREM OnCallAlways ==
  ASSUME NEW s, IsSchedule(s), NEW from \in Int, NEW count \in Int, NEW overrides, Len(overrides) \in Nat,
         \A j \in 1..Len(overrides) : overrides[j].starts \in Int /\ overrides[j].ends \in Int
  PROVE  OnCallAgrees(s, overrides, from, count)
<1> SUFFICES ASSUME Len(s.participants) > 0 PROVE OnCallAgrees(s, overrides, from, count)
  BY DEF OnCallAgrees
<1> PICK n \in Nat \ {0} : n = Len(s.participants)
  BY DEF IsSchedule
<1> PICK h \in Int : h = s.handoff
  BY DEF IsSchedule
<1> PICK r \in Nat \ {0} : r = s.rotation
  BY DEF IsSchedule
<1>1. PICK first \in Int : s.handoff + first * s.rotation <= from /\ from < s.handoff + first * s.rotation + s.rotation
  BY SlotOfMoment
<1> DEFINE shifts == UpcomingOnCallShifts(s, from, count)
<1>2. PICK m \in 1..100 : Len(shifts) = m /\ \A i \in 1..m : shifts[i] = ShiftOf(s, first + i - 1)
  <2>1. Len(s.participants) # 0
    OBVIOUS
  <2>2. ListsFrom(shifts, s, first)
    BY ONLY <1>1, <2>1, IsSchedule(s), from \in Int, count \in Int, first \in Int, UpcomingAre
  <2> QED BY <2>2 DEF ListsFrom
<1> HIDE DEF shifts
<1>4. Len(shifts) = m /\ \A i \in 1..m : shifts[i] = ShiftOf(s, first + i - 1)
  BY <1>2
<1>5. shifts[1].starts <= from /\ from < shifts[1].ends
  <2>1. first + 1 - 1 = first /\ 1 \in 1..m
    OBVIOUS
  <2>2. shifts[1] = ShiftOf(s, first)
    BY <1>4, <2>1
  <2> QED BY <1>1, <2>2 DEF ShiftOf
<1>6. RotationShift(s, s.handoff).user = s.participants[1]
  <2>1. 0 * r = 0 /\ h + 0 * r <= h /\ h < h + 0 * r + r
    OBVIOUS
  <2>2. RotationShift(s, h) = ShiftOf(s, 0)
    <3>1. s.handoff + 0 * s.rotation <= h /\ h < s.handoff + 0 * s.rotation + s.rotation
      BY <2>1
    <3> QED BY <3>1, RotationIs
  <2>3. 0 % n = 0
    <3>1. 0 = 0 * n
      OBVIOUS
    <3> QED BY ONLY <3>1, n \in Nat \ {0}, NoRemainder
  <2> QED BY <2>2, <2>3 DEF ShiftOf
<1>7. ASSUME NEW i \in 2..m
      PROVE  /\ shifts[i].starts = shifts[i - 1].ends
             /\ (CHOOSE k \in 1..n : s.participants[k] = shifts[i].user) =
                  ((CHOOSE k \in 1..n : s.participants[k] = shifts[i - 1].user) % n) + 1
  <2> PICK q \in Int : q = first + i - 1
    OBVIOUS
  <2> PICK p \in Int : p = first + (i - 1) - 1
    OBVIOUS
  <2>1. q = p + 1 /\ i \in 1..m /\ i - 1 \in 1..m
    OBVIOUS
  <2>2. shifts[i] = ShiftOf(s, q) /\ shifts[i - 1] = ShiftOf(s, p)
    BY <1>4, <2>1
  <2>3. ShiftOf(s, q).starts = ShiftOf(s, p).ends
    <3>1. q * r = p * r + r /\ p * r \in Int
      <4>1. q = p + 1
        BY <2>1
      <4> QED BY ONLY <4>1, q \in Int, p \in Int, r \in Nat \ {0}
    <3> PICK x \in Int : x = p * r
      BY <3>1
    <3>2. ShiftOf(s, q).starts = h + q * r /\ ShiftOf(s, p).ends = h + p * r + r
      BY DEF ShiftOf
    <3>3. h + (x + r) = h + x + r
      OBVIOUS
    <3> QED BY <3>1, <3>2, <3>3
  <2>4. (q % n) = ((p % n) + 1) % n
    BY <2>1, NextTurn
  <2>5. /\ (CHOOSE k \in 1..n : s.participants[k] = ShiftOf(s, q).user) = (q % n) + 1
        /\ (CHOOSE k \in 1..n : s.participants[k] = ShiftOf(s, p).user) = (p % n) + 1
    BY TurnOf
  <2> QED BY <2>2, <2>3, <2>4, <2>5
<1>8. ASSUME NEW i \in 1..m, NEW t \in shifts[i].starts..(shifts[i].ends - 1)
      PROVE  LET over == {j \in 1..Len(overrides) : t \in overrides[j].starts..(overrides[j].ends - 1)}
                 now == ResolveOnCall(s, overrides, t)
             IN  /\ over = {} => now = shifts[i]
                 /\ over # {} => \E j \in over : now = overrides[j] /\ \A k \in over : k <= j
  <2>o. PICK over : over = {j \in 1..Len(overrides) : t \in overrides[j].starts..(overrides[j].ends - 1)}
    OBVIOUS
  <2> PICK q \in Int : q = first + i - 1
    OBVIOUS
  <2>1. shifts[i] = ShiftOf(s, q)
    BY <1>4
  <2>2. q * r \in Int
    OBVIOUS
  <2> PICK x \in Int : x = q * r
    BY <2>2
  <2>3. shifts[i].starts = h + x /\ shifts[i].ends = h + x + r
    BY <2>1 DEF ShiftOf
  <2>4. t \in Int /\ h + x <= t /\ t < h + x + r
    <3> PICK a, b \in Int : a = h + x /\ b = h + x + r
      OBVIOUS
    <3>1. t \in a..(b - 1)
      BY <1>8, <2>3
    <3>2. t \in Int /\ a <= t /\ t < b
      BY ONLY <3>1, a \in Int, b \in Int
    <3> QED BY <3>2
  <2>5. RotationShift(s, t) = shifts[i]
    <3>1. s.handoff + q * s.rotation <= t /\ t < s.handoff + q * s.rotation + s.rotation
      BY <2>4
    <3> QED BY <2>1, <2>4, <3>1, RotationIs
  <2>6. over = {j \in 1..Len(overrides) : overrides[j].starts <= t /\ t < overrides[j].ends}
    <3>1. \A j \in 1..Len(overrides) :
            t \in overrides[j].starts..(overrides[j].ends - 1) <=> overrides[j].starts <= t /\ t < overrides[j].ends
      BY <2>4
    <3> QED BY <2>o, <3>1
  <2>7. ResolveOnCall(s, overrides, t) =
          IF over = {} THEN RotationShift(s, t) ELSE overrides[CHOOSE j \in over : \A k \in over : k <= j]
    BY <2>6 DEF ResolveOnCall
  <2>8. over # {} => \E j \in over : \A k \in over : k <= j
    BY <2>o, GreatestIndex
  <2> QED BY <2>o, <2>5, <2>7, <2>8
<1>9. \A i \in 2..Len(shifts) :
        /\ shifts[i].starts = shifts[i - 1].ends
        /\ (CHOOSE k \in 1..Len(s.participants) : s.participants[k] = shifts[i].user) =
             ((CHOOSE k \in 1..Len(s.participants) : s.participants[k] = shifts[i - 1].user) % Len(s.participants)) + 1
  BY <1>4, <1>7
<1>10. \A i \in 1..Len(shifts) : \A t \in shifts[i].starts..(shifts[i].ends - 1) :
         LET over == {j \in 1..Len(overrides) : t \in overrides[j].starts..(overrides[j].ends - 1)}
             now == ResolveOnCall(s, overrides, t)
         IN  /\ over = {} => now = shifts[i]
             /\ over # {} => \E j \in over : now = overrides[j] /\ \A k \in over : k <= j
  BY <1>4, <1>8
<1> USE DEF shifts
<1> QED BY ONLY <1>5, <1>6, <1>9, <1>10, Zenon DEF OnCallAgrees

\* The indices of a list that are kept are finitely many.
LEMMA KeptCount ==
  ASSUME NEW n \in Nat, NEW keep, keep \subseteq 1..n
  PROVE  IsFiniteSet(keep) /\ Cardinality(keep) \in Nat
<1>1. IsFiniteSet(1..n)
  BY FS_Interval
<1>2. IsFiniteSet(keep)
  BY <1>1, FS_Subset
<1> QED BY <1>2, FS_CardinalityType

\* How many of a set of indices come up to one of them.
Rank(keep, i) == Cardinality({j \in keep : j <= i})

\* A set of indices has a k-th element, for every k up to its size: the least with
\* k elements up to it.
LEMMA NthElement ==
  ASSUME NEW n \in Nat, NEW keep, keep \subseteq 1..n, NEW k \in 1..Cardinality(keep)
  PROVE  \E i \in keep : Rank(keep, i) = k
<1> DEFINE Upto(i) == {j \in keep : j <= i}
<1>1. IsFiniteSet(keep) /\ Cardinality(keep) \in Nat
  BY KeptCount
<1>2. ASSUME NEW i PROVE IsFiniteSet(Upto(i)) /\ Cardinality(Upto(i)) \in Nat
  <2>1. Upto(i) \subseteq 1..n
    OBVIOUS
  <2> HIDE DEF Upto
  <2> QED BY ONLY <2>1, n \in Nat, KeptCount
<1>3. keep # {}
  <2>1. SUFFICES ASSUME keep = {} PROVE FALSE
    OBVIOUS
  <2>2. Cardinality(keep) = 0
    BY <2>1, FS_EmptySet
  <2> QED BY <2>2
<1>4. PICK last \in keep : \A j \in keep : j <= last
  BY ONLY <1>3, n \in Nat, keep \subseteq 1..n, GreatestIndex
<1>5. Upto(last) = keep
  BY <1>4
<1> HIDE DEF Upto
<1>s. PICK S : S = {i \in keep : Cardinality(Upto(i)) >= k}
  OBVIOUS
<1>6. S \subseteq Nat /\ S # {}
  <2>1. Cardinality(Upto(last)) >= k
    BY <1>1, <1>5
  <2>2. last \in S
    BY <1>s, <2>1
  <2>3. S \subseteq 1..n
    BY <1>s
  <2>4. S \subseteq Nat
    BY ONLY <2>3, n \in Nat
  <2> QED BY <2>2, <2>4
<1>7. PICK i \in S : \A j \in S : i <= j
  BY ONLY <1>6, LeastNatural
<1>8. i \in keep /\ i \in Upto(i) /\ Cardinality(Upto(i)) >= k
  BY <1>7, <1>s DEF Upto
<1>c. PICK c \in Nat : c = Cardinality(Upto(i))
  BY <1>2
<1>r. PICK R : R = Upto(i) \ {i}
  OBVIOUS
<1>9. Cardinality(R) = c - 1
  BY <1>2, <1>8, <1>c, <1>r, FS_RemoveElement
<1>10. ASSUME c # k PROVE FALSE
  <2>1. Cardinality(R) >= k
    BY <1>8, <1>9, <1>10, <1>c
  <2>2. R # {}
    <3>1. SUFFICES ASSUME R = {} PROVE FALSE
      OBVIOUS
    <3>2. Cardinality(R) = 0
      BY <3>1, FS_EmptySet
    <3> QED BY <2>1, <3>2
  <2>3. R \subseteq 1..n /\ R \subseteq keep /\ \A j \in R : j <= i /\ j # i
    BY <1>r DEF Upto
  <2>4. PICK h \in R : \A j \in R : j <= h
    BY ONLY <2>2, <2>3, n \in Nat, GreatestIndex
  <2>5. Upto(h) = R
    <3>1. ASSUME NEW j \in keep, j <= h PROVE j \in R
      <4>1. j \in 1..n /\ h \in 1..n /\ i \in 1..n /\ h <= i /\ h # i
        BY <1>8, <2>3
      <4>2. j <= i /\ j # i
        BY ONLY <3>1, <4>1
      <4> QED BY <1>r, <4>2 DEF Upto
    <3> QED BY <2>3, <2>4, <3>1 DEF Upto
  <2>6. h \in S
    BY <1>s, <2>1, <2>3, <2>5
  <2>7. h \in 1..n /\ i \in 1..n /\ h <= i /\ h # i
    BY <1>8, <2>3
  <2> QED BY <1>7, <2>6, <2>7
<1> QED BY <1>8, <1>10, <1>c DEF Upto, Rank

\* The rotation of a new schedule has no participant twice (dedupeStrings).
LEMMA ScheduleMade ==
  ASSUME NEW names, Len(names) \in Nat, NEW rotation \in Nat \ {0}, NEW handoff \in Int, NEW now \in Int
  PROVE  IsSchedule(ScheduleRow(names, rotation, handoff, now))
<1>n. PICK n \in Nat : n = Len(names)
  OBVIOUS
<1> DEFINE keep == {i \in 1..Len(names) : names[i] # "" /\ \A j \in 1..(i - 1) : names[j] # names[i]}
           nth(k) == CHOOSE i \in keep : Cardinality({j \in keep : j <= i}) = k
<1>d. DedupeStrings(names) = [k \in 1..Cardinality(keep) |-> names[nth(k)]]
  BY Zenon DEF DedupeStrings
<1>k. keep = {i \in 1..n : names[i] # "" /\ \A j \in 1..(i - 1) : names[j] # names[i]}
  BY <1>n
<1> HIDE DEF keep
<1>1. keep \subseteq 1..n
  BY <1>k
<1>c. PICK c \in Nat : c = Cardinality(keep)
  BY ONLY <1>1, n \in Nat, KeptCount
<1>2. ASSUME NEW k \in 1..c PROVE nth(k) \in keep /\ Rank(keep, nth(k)) = k
  <2>1. k \in 1..Cardinality(keep)
    BY <1>c
  <2>2. \E i \in keep : Rank(keep, i) = k
    <3> HIDE DEF nth
    <3> QED BY ONLY <1>1, <2>1, n \in Nat, NthElement
  <2> QED BY <2>2, Zenon DEF Rank
<1>3. DedupeStrings(names) = [k \in 1..c |-> names[nth(k)]]
  BY <1>d, <1>c
<1> HIDE DEF nth
<1>4. Len(DedupeStrings(names)) = c
  BY <1>3
<1>5. ASSUME NEW k \in 1..c, NEW l \in 1..c, names[nth(k)] = names[nth(l)]
      PROVE  k = l
  <2> PICK a \in 1..n : a = nth(k)
    BY <1>1, <1>2
  <2> PICK b \in 1..n : b = nth(l)
    BY <1>1, <1>2
  <2>1. a \in keep /\ b \in keep
    BY <1>2
  <2>2. names[a] = names[b]
    BY <1>5
  <2>3. ~(a \in 1..(b - 1)) /\ ~(b \in 1..(a - 1))
    BY <1>k, <2>1, <2>2
  <2>4. a = b
    BY ONLY <2>3, a \in 1..n, b \in 1..n, n \in Nat
  <2> QED BY <1>2, <2>4
<1> QED BY <1>3, <1>4, <1>5 DEF ScheduleRow, IsSchedule
==============================================================================
