------------------------------ MODULE LeaderLock ------------------------------
(***************************************************************************)
(* The scheduler replicas of internal/scheduler/scheduler.go and the lock  *)
(* they share in Redis (internal/queue/redis.go).  The one that holds the  *)
(* lock leads: it pushes a job for every due monitor and region.  A        *)
(* replica remembers that it leads, and looks at the lock again only when  *)
(* its loop comes back to it.                                              *)
(*                                                                         *)
(* Time passes between any two steps: nothing in the code bounds how long  *)
(* a scan or a call takes.  A call to Redis executes there and answers     *)
(* later, or fails before or after it has executed; one that has failed    *)
(* has no later effect.  Redis itself does not lose the lock.              *)
(***************************************************************************)
EXTENDS Naturals, FiniteSets

CONSTANTS
  Replicas,
  Monitors,
  Regions,
  RegionsOf,   \* the regions each monitor is checked from
  TTL,         \* leaderTTL, in ticks of the clock
  MaxFaults,   \* bound on crashes and failing calls
  Gone,        \* the instance id of a process that has ended
  None

ASSUME RegionsAssumption == RegionsOf \in [Monitors -> SUBSET Regions]
ASSUME TTLAssumption == TTL \in Nat \ {0}
ASSUME OwnerAssumption == None # Gone /\ {None, Gone} \intersect Replicas = {}
ASSUME FaultAssumption == MaxFaults \in Nat

VARIABLES
  owner,      \* the value of the lock's key, None when it does not exist
  left,       \* its remaining time to live
  pc,         \* where a replica is in Run
  leader,     \* what it takes itself for
  reply,      \* Redis' answer on its way
  age,        \* ticks, up to TTL, since it last acquired the lock or asked to keep it
  due,        \* monitors it has never seen, or whose nextRun has passed
  todo,       \* jobs its scan has still to push
  cancelled,  \* its context
  faults

vars == <<owner, left, pc, leader, reply, age, due, todo, cancelled, faults>>
lock == <<owner, left, age>>
role == <<leader, reply>>
schedule == <<due, todo>>

Jobs == Monitors \X Regions

TypeOK ==
  /\ owner \in Replicas \union {Gone, None}
  /\ left \in 0..TTL
  /\ pc \in [Replicas -> {"down", "wait", "ask", "answer", "scan"}]
  /\ leader \in [Replicas -> BOOLEAN]
  /\ reply \in [Replicas -> BOOLEAN]
  /\ age \in [Replicas -> 0..TTL]
  /\ due \in [Replicas -> SUBSET Monitors]
  /\ todo \in [Replicas -> SUBSET Jobs]
  /\ cancelled \in [Replicas -> BOOLEAN]
  /\ faults \in 0..MaxFaults

Goto(r, from, to) ==
  /\ pc[r] = from
  /\ pc' = [pc EXCEPT ![r] = to]

Fault == faults < MaxFaults /\ faults' = faults + 1

\* Every call fails once the context is cancelled, and any call may fail.
CallFails(r) == Fault \/ (cancelled[r] /\ UNCHANGED faults)

------------------------------------------------------------------------------
(* Redis. *)

\* SET key r NX PX ttl, or the PEXPIRE of the script.
Grant(r) ==
  /\ owner' = r
  /\ left' = TTL
  /\ reply' = [reply EXCEPT ![r] = TRUE]

Looked(r) == age' = [age EXCEPT ![r] = 0]

\* Time passes, for the lock and for everybody.
Tick ==
  /\ left > 0 \/ \E r \in Replicas : age[r] < TTL
  /\ left' = IF left = 0 THEN 0 ELSE left - 1
  /\ owner' = IF left = 1 THEN None ELSE owner
  /\ age' = [r \in Replicas |-> IF age[r] = TTL THEN TTL ELSE age[r] + 1]
  /\ UNCHANGED <<pc, role, schedule, cancelled, faults>>

------------------------------------------------------------------------------
(* attemptLeader. *)

\* A process starts, with an instance id and a nextRun map of its own.
Boot(r) ==
  /\ Goto(r, "down", "ask")
  /\ due' = [due EXCEPT ![r] = Monitors]
  /\ UNCHANGED <<lock, role, todo, cancelled, faults>>

\* leaderTick.
AskLeader(r) ==
  /\ Goto(r, "wait", "ask")
  /\ UNCHANGED <<lock, role, schedule, cancelled, faults>>

\* Mutant: the lock is set without a time to live.
AcquireForever(r) ==
  /\ Goto(r, "ask", "answer")
  /\ ~leader[r]
  /\ \/ /\ owner = None
        /\ owner' = r /\ left' = 0
        /\ reply' = [reply EXCEPT ![r] = TRUE]
        /\ Looked(r)
     \/ owner # None /\ UNCHANGED <<lock, reply>>
  /\ UNCHANGED <<leader, schedule, cancelled, faults>>

\* AcquireLeader: SETNX, by a replica that does not lead.
Acquire(r) ==
  /\ Goto(r, "ask", "answer")
  /\ ~leader[r]
  /\ \/ owner = None /\ Grant(r) /\ Looked(r)
     \/ owner # None /\ UNCHANGED <<lock, reply>>
  /\ UNCHANGED <<leader, schedule, cancelled, faults>>

\* Mutant: any lock is extended, and Redis' 1 is taken for "still mine".
RefreshAny(r) ==
  /\ Goto(r, "ask", "answer")
  /\ leader[r]
  /\ Looked(r)
  /\ \/ /\ owner # None
        /\ left' = TTL
        /\ reply' = [reply EXCEPT ![r] = TRUE]
        /\ UNCHANGED owner
     \/ owner = None /\ UNCHANGED <<owner, left, reply>>
  /\ UNCHANGED <<leader, schedule, cancelled, faults>>

\* Mutant: the time to live is added to what is left of it.
RefreshAdds(r) ==
  /\ Goto(r, "ask", "answer")
  /\ leader[r]
  /\ Looked(r)
  /\ \/ /\ owner = r
        /\ left' = left + TTL
        /\ reply' = [reply EXCEPT ![r] = TRUE]
        /\ UNCHANGED owner
     \/ owner # r /\ UNCHANGED <<owner, left, reply>>
  /\ UNCHANGED <<leader, schedule, cancelled, faults>>

\* RefreshLeader: GET and PEXPIRE in one script, by a replica that leads.
Refresh(r) ==
  /\ Goto(r, "ask", "answer")
  /\ leader[r]
  /\ Looked(r)
  /\ \/ owner = r /\ Grant(r)
     \/ owner # r /\ UNCHANGED <<owner, left, reply>>
  /\ UNCHANGED <<leader, schedule, cancelled, faults>>

Answer(r) ==
  /\ Goto(r, "answer", "wait")
  /\ leader' = [leader EXCEPT ![r] = reply[r]]
  /\ reply' = [reply EXCEPT ![r] = FALSE]
  /\ UNCHANGED <<lock, schedule, cancelled, faults>>

\* Redis was not reached, or its answer was lost: the replica does not lead,
\* whatever Redis has granted it.
AskError(r) ==
  /\ Goto(r, "ask", "wait") \/ Goto(r, "answer", "wait")
  /\ leader' = [leader EXCEPT ![r] = FALSE]
  /\ reply' = [reply EXCEPT ![r] = FALSE]
  /\ CallFails(r)
  /\ UNCHANGED <<lock, schedule, cancelled>>

------------------------------------------------------------------------------
(* enqueueDue.  nextRun is set before a job is pushed, whether or not that  *)
(* succeeds; the next occasion is the monitor's next interval.              *)

BeginScan(r) ==
  /\ Goto(r, "wait", "scan")
  /\ leader[r]
  /\ due[r] # {}
  /\ todo' = [todo EXCEPT ![r] = {j \in Jobs : j[1] \in due[r] /\ j[2] \in RegionsOf[j[1]]}]
  /\ due' = [due EXCEPT ![r] = {}]
  /\ UNCHANGED <<lock, role, cancelled, faults>>

\* EnqueueCheck.
Push(r, j) ==
  /\ pc[r] = "scan"
  /\ j \in todo[r]
  /\ todo' = [todo EXCEPT ![r] = @ \ {j}]
  /\ UNCHANGED <<lock, pc, role, due, cancelled, faults>>

PushError(r, j) ==
  /\ pc[r] = "scan"
  /\ j \in todo[r]
  /\ CallFails(r)
  /\ todo' = [todo EXCEPT ![r] = @ \ {j}]
  /\ UNCHANGED <<lock, pc, role, due, cancelled>>

EndScan(r) ==
  /\ Goto(r, "scan", "wait")
  /\ todo[r] = {}
  /\ UNCHANGED <<lock, role, schedule, cancelled, faults>>

\* nextRun passes; for a monitor just seen it may lie in the past.
ComesDue(r, m) ==
  /\ pc[r] # "down"
  /\ m \notin due[r]
  /\ due' = [due EXCEPT ![r] = @ \union {m}]
  /\ UNCHANGED <<lock, pc, role, todo, cancelled, faults>>

------------------------------------------------------------------------------
(* The end of a process. *)

Cancel(r) ==
  /\ pc[r] # "down" /\ ~cancelled[r]
  /\ cancelled' = [cancelled EXCEPT ![r] = TRUE]
  /\ UNCHANGED <<lock, pc, role, schedule, faults>>

End(r) ==
  /\ pc' = [pc EXCEPT ![r] = "down"]
  /\ leader' = [leader EXCEPT ![r] = FALSE]
  /\ reply' = [reply EXCEPT ![r] = FALSE]
  /\ due' = [due EXCEPT ![r] = {}]
  /\ todo' = [todo EXCEPT ![r] = {}]
  /\ cancelled' = [cancelled EXCEPT ![r] = FALSE]

\* The lock of a process that ends without giving it back stays until it
\* expires: the next process has another instance id.
Abandon(r) ==
  /\ owner' = IF owner = r THEN Gone ELSE owner
  /\ age' = [age EXCEPT ![r] = TTL]
  /\ UNCHANGED left

\* Mutant: DEL without the comparison of the script.
ReleaseAny(r) ==
  /\ pc[r] = "wait" /\ cancelled[r] /\ leader[r]
  /\ End(r)
  /\ owner' = None /\ left' = 0
  /\ age' = [age EXCEPT ![r] = TTL]
  /\ UNCHANGED faults

\* ReleaseLeader, with a context of its own.
Release(r) ==
  /\ pc[r] = "wait" /\ cancelled[r] /\ leader[r]
  /\ End(r)
  /\ owner' = IF owner = r THEN None ELSE owner
  /\ left' = IF owner = r THEN 0 ELSE left
  /\ age' = [age EXCEPT ![r] = TTL]
  /\ UNCHANGED faults

\* Nothing is given back by a replica that does not know it holds the lock.
Leave(r) ==
  /\ pc[r] = "wait" /\ cancelled[r] /\ ~leader[r]
  /\ End(r) /\ Abandon(r)
  /\ UNCHANGED faults

\* The release fails.
ReleaseError(r) ==
  /\ pc[r] = "wait" /\ cancelled[r] /\ leader[r]
  /\ Fault
  /\ End(r) /\ Abandon(r)

Crash(r) ==
  /\ pc[r] # "down"
  /\ Fault
  /\ End(r) /\ Abandon(r)

------------------------------------------------------------------------------

Init ==
  /\ owner = None
  /\ left = 0
  /\ pc = [r \in Replicas |-> "down"]
  /\ leader = [r \in Replicas |-> FALSE]
  /\ reply = [r \in Replicas |-> FALSE]
  /\ age = [r \in Replicas |-> TTL]
  /\ due = [r \in Replicas |-> {}]
  /\ todo = [r \in Replicas |-> {}]
  /\ cancelled = [r \in Replicas |-> FALSE]
  /\ faults = 0

AttemptLeader(r) ==
  AskLeader(r) \/ Acquire(r) \/ Refresh(r) \/ Answer(r) \/ AskError(r)

Scan(r) ==
  \/ BeginScan(r) \/ EndScan(r)
  \/ \E j \in Jobs : Push(r, j) \/ PushError(r, j)
  \/ \E m \in Monitors : ComesDue(r, m)

Stop(r) == Release(r) \/ Leave(r) \/ ReleaseError(r) \/ Crash(r)

Next ==
  \/ Tick
  \/ \E r \in Replicas : \/ Boot(r) \/ AttemptLeader(r) \/ Scan(r)
                         \/ Cancel(r) \/ Stop(r)

Spec == Init /\ [][Next]_vars

\* Time goes on and so does every call.  The select of Run takes each of its
\* ready channels again and again: it picks among them at random.  Nothing is
\* asked of faults, of those who start processes or of those who stop them.
Fairness ==
  /\ WF_vars(Tick)
  /\ \A r \in Replicas :
       /\ WF_vars(AttemptLeader(r)) /\ SF_vars(AskLeader(r))
       /\ SF_vars(BeginScan(r)) /\ WF_vars(EndScan(r))
       /\ \A j \in Jobs : WF_vars(Push(r, j))
       /\ \A m \in Monitors : WF_vars(ComesDue(r, m))
       /\ SF_vars(Release(r) \/ Leave(r))

FairSpec == Spec /\ Fairness

------------------------------------------------------------------------------
(* Properties. *)

\* scheduler.go: "One scheduler replica wins the lock and becomes leader; the
\* rest poll the lock and stand by".  A replica may lead after it has lost the
\* lock, but only if it has not asked for a whole TTL, or while the answer that
\* it has lost it is on its way: with every loop shorter than the TTL, no two
\* replicas ever dispatch at the same time.
StaleLeadIsOld ==
  \A r \in Replicas :
    leader[r] /\ owner # r => age[r] = TTL \/ (pc[r] = "answer" /\ ~reply[r])

\* redis.go:171 and 191: nobody but its owner gives the lock up or takes it
\* over before it expires, and nobody else makes it last longer.
OnlyOwnerDecides ==
  [][/\ owner \in Replicas /\ owner' # owner => left = 1 \/ pc'[owner] = "down"
     /\ left' > left => pc[owner'] = "ask"]_vars

\* cmd/scheduler/main.go:7: the others "take over [...] if the leader dies".
\* Once processes are no longer started and stopped, and at least one runs, every
\* monitor is dispatched to each of its regions again and again, whoever held the
\* lock last and however that ended.
Running == {r \in Replicas : pc[r] # "down" /\ ~cancelled[r]}

JobsKeepComing ==
  \A S \in (SUBSET Replicas) \ {{}}, m \in Monitors : \A g \in RegionsOf[m] :
    <>[](Running = S) => []<><<\E r \in Replicas : Push(r, <<m, g>>)>>_vars
=============================================================================
