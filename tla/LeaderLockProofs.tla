--------------------------- MODULE LeaderLockProofs ---------------------------
(***************************************************************************)
(* Proofs about LeaderLock, for any number of replicas and any TTL.        *)
(***************************************************************************)
EXTENDS LeaderLock, TLAPS

\* The lock of a replica that is still alive runs out when its age says so.
Clock == \A r \in Replicas : owner = r => left > 0 /\ left + age[r] = TTL

\* A "yes" on its way was true when Redis gave it.
Pending == \A r \in Replicas : reply[r] => pc[r] = "answer" /\ (owner = r \/ age[r] = TTL)

IInv == TypeOK /\ Clock /\ Pending /\ StaleLeadIsOld

LEMMA InvInit == Init => IInv
BY TTLAssumption, FaultAssumption, OwnerAssumption
   DEF Init, IInv, TypeOK, Clock, Pending, StaleLeadIsOld

LEMMA InvTick ==
  ASSUME IInv, Tick
  PROVE  IInv'
<1>1. /\ left \in Nat /\ left <= TTL /\ TTL \in Nat
      /\ \A r \in Replicas : age[r] \in 0..TTL
      /\ None \notin Replicas
  BY TTLAssumption, OwnerAssumption DEF IInv, TypeOK
<1>2. \A r \in Replicas : age'[r] = IF age[r] = TTL THEN TTL ELSE age[r] + 1
  BY DEF Tick
<1>3. UNCHANGED <<pc, leader, reply, due, todo, cancelled, faults>>
  BY DEF Tick, role, schedule
<1>4. TypeOK'
  <2>1. age' \in [Replicas -> 0..TTL]
    BY <1>1 DEF Tick
  <2>2. left' \in 0..TTL /\ owner' \in Replicas \union {Gone, None}
    BY <1>1 DEF Tick, IInv, TypeOK
  <2> QED BY <1>3, <2>1, <2>2 DEF IInv, TypeOK
<1>5. Clock'
  BY <1>1, <1>2 DEF IInv, Clock, Tick
<1>6. \A r \in Replicas : age[r] = TTL => age'[r] = TTL
  BY <1>2
<1>7. \A r \in Replicas : owner = r /\ owner' # r => age'[r] = TTL
  BY <1>1, <1>2 DEF IInv, Clock, Tick
<1>8. Pending' /\ StaleLeadIsOld'
  BY <1>3, <1>6, <1>7 DEF IInv, Pending, StaleLeadIsOld
<1> QED BY <1>4, <1>5, <1>8 DEF IInv

\* Steps that leave Redis alone.
LEMMA InvAside ==
  ASSUME IInv, TypeOK', UNCHANGED lock,
         \A r \in Replicas : reply'[r] => reply[r] /\ pc'[r] = pc[r],
         \A r \in Replicas : leader'[r] =>
           (leader[r] /\ (pc[r] = "answer" => pc'[r] = "answer") /\ (reply'[r] => reply[r]))
             \/ reply[r]
  PROVE  IInv'
<1>1. Clock' /\ Pending'
  BY DEF IInv, Clock, Pending, lock
<1>2. StaleLeadIsOld'
  BY DEF IInv, StaleLeadIsOld, Pending, lock
<1> QED BY <1>1, <1>2 DEF IInv

LEMMA InvAttempt ==
  ASSUME IInv, NEW r \in Replicas, AttemptLeader(r) \/ Boot(r)
  PROVE  IInv'
<1> USE DEF Goto
<1>t. TypeOK /\ TTL \in Nat \ {0} /\ None \notin Replicas
  BY TTLAssumption, OwnerAssumption DEF IInv
<1>1. CASE Boot(r) \/ AskLeader(r)
  <2>1. TypeOK'
    BY <1>1, <1>t DEF Boot, AskLeader, TypeOK, lock, role, schedule
  <2>2. UNCHANGED <<leader, reply>> /\ UNCHANGED lock
    BY <1>1 DEF Boot, AskLeader, role, schedule
  <2>3. \A q \in Replicas : pc[q] = "answer" => pc'[q] = "answer"
    BY <1>1, <1>t DEF Boot, AskLeader, TypeOK
  <2>4. \A q \in Replicas : reply[q] => pc'[q] = pc[q]
    BY <1>1, <1>t DEF Boot, AskLeader, TypeOK, IInv, Pending
  <2> QED BY <2>1, <2>2, <2>3, <2>4, InvAside
<1>2. CASE Acquire(r) \/ Refresh(r)
  <2>1. pc[r] = "ask" /\ pc' = [pc EXCEPT ![r] = "answer"] /\ ~reply[r]
    BY <1>2, <1>t DEF Acquire, Refresh, IInv, Pending
  <2>2. leader' = leader /\ UNCHANGED <<due, todo, cancelled, faults>>
    BY <1>2 DEF Acquire, Refresh, schedule
  <2>3. CASE /\ owner \in {None, r}
             /\ owner' = r /\ left' = TTL
             /\ reply' = [reply EXCEPT ![r] = TRUE]
             /\ age' = [age EXCEPT ![r] = 0]
    <3>1. TypeOK'
      BY <2>1, <2>2, <2>3, <1>t DEF TypeOK
    <3>2. Clock'
      BY <2>3, <1>t DEF TypeOK, Clock
    <3>3. Pending'
      BY <2>1, <2>3, <1>t DEF TypeOK, IInv, Pending
    <3>4. StaleLeadIsOld'
      BY <2>1, <2>2, <2>3, <1>t DEF TypeOK, IInv, StaleLeadIsOld
    <3> QED BY <3>1, <3>2, <3>3, <3>4 DEF IInv
  <2>4. CASE /\ UNCHANGED <<owner, left, reply>>
             /\ \/ age' = age /\ ~leader[r]
                \/ age' = [age EXCEPT ![r] = 0] /\ owner # r
    <3>1. TypeOK'
      BY <2>1, <2>2, <2>4, <1>t DEF TypeOK
    <3>2. Clock'
      BY <2>4, <1>t DEF TypeOK, IInv, Clock
    <3>3. Pending'
      BY <2>1, <2>4, <1>t DEF TypeOK, IInv, Pending
    <3>4. StaleLeadIsOld'
      BY <2>1, <2>2, <2>4, <1>t DEF TypeOK, IInv, StaleLeadIsOld
    <3> QED BY <3>1, <3>2, <3>3, <3>4 DEF IInv
  <2> QED BY <1>2, <2>3, <2>4 DEF Acquire, Refresh, Grant, Looked, lock
<1>3. CASE Answer(r)
  <2>1. TypeOK'
    BY <1>3, <1>t DEF Answer, TypeOK, lock, schedule
  <2>2. \A q \in Replicas : reply'[q] => reply[q] /\ pc'[q] = pc[q]
    BY <1>3, <1>t DEF Answer, TypeOK
  <2>3. \A q \in Replicas : q # r => leader'[q] = leader[q] /\ pc'[q] = pc[q]
    BY <1>3, <1>t DEF Answer, TypeOK
  <2>4. leader'[r] = reply[r]
    BY <1>3, <1>t DEF Answer, TypeOK
  <2> QED BY <1>3, <2>1, <2>2, <2>3, <2>4, InvAside DEF Answer
<1>4. CASE AskError(r)
  <2>1. faults' \in 0..MaxFaults
    BY <1>4, <1>t, FaultAssumption DEF AskError, CallFails, Fault, TypeOK
  <2>2. TypeOK'
    BY <1>4, <1>t, <2>1 DEF AskError, TypeOK, lock, schedule
  <2>3. /\ \A q \in Replicas : reply'[q] => reply[q] /\ pc'[q] = pc[q]
        /\ \A q \in Replicas : leader'[q] => leader[q] /\ pc'[q] = pc[q]
    BY <1>4, <1>t DEF AskError, TypeOK
  <2> QED BY <1>4, <2>2, <2>3, InvAside DEF AskError
<1> QED BY <1>1, <1>2, <1>3, <1>4 DEF AttemptLeader

LEMMA InvScan ==
  ASSUME IInv, NEW r \in Replicas, Scan(r) \/ Cancel(r)
  PROVE  IInv'
<1> USE DEF Goto
<1>t. TypeOK
  BY DEF IInv
<1>1. UNCHANGED <<owner, left, age, leader, reply>>
  BY DEF Scan, Cancel, BeginScan, EndScan, Push, PushError, ComesDue, lock, role
<1>2. pc' \in [Replicas -> {"down", "wait", "ask", "answer", "scan"}]
  BY <1>t DEF Scan, Cancel, BeginScan, EndScan, Push, PushError, ComesDue, TypeOK
<1>3. due' \in [Replicas -> SUBSET Monitors] /\ cancelled' \in [Replicas -> BOOLEAN]
  <2>1. CASE BeginScan(r) \/ EndScan(r) \/ Cancel(r)
    BY <1>t, <2>1 DEF BeginScan, EndScan, Cancel, TypeOK, schedule
  <2>2. CASE \E j \in Jobs : Push(r, j) \/ PushError(r, j)
    BY <1>t, <2>2 DEF Push, PushError, TypeOK
  <2>3. CASE \E m \in Monitors : ComesDue(r, m)
    BY <1>t, <2>3 DEF ComesDue, TypeOK
  <2> QED BY <2>1, <2>2, <2>3 DEF Scan
<1>4. todo' \in [Replicas -> SUBSET Jobs]
  <2>1. CASE BeginScan(r)
    <3> DEFINE pushes == {j \in Jobs : j[1] \in due[r] /\ j[2] \in RegionsOf[j[1]]}
    <3>1. todo' = [todo EXCEPT ![r] = pushes]
      BY <2>1 DEF BeginScan
    <3>2. pushes \in SUBSET Jobs
      OBVIOUS
    <3> HIDE DEF pushes
    <3> QED BY <1>t, <3>1, <3>2 DEF TypeOK
  <2>2. CASE ~BeginScan(r)
    BY <1>t, <2>2 DEF Scan, Cancel, EndScan, Push, PushError, ComesDue, TypeOK, schedule
  <2> QED BY <2>1, <2>2
<1>5. faults' \in 0..MaxFaults
  BY <1>t, FaultAssumption
     DEF Scan, Cancel, BeginScan, EndScan, Push, PushError, ComesDue, CallFails, Fault, TypeOK
<1>6. \A q \in Replicas : pc[q] = "answer" => pc'[q] = "answer"
  BY <1>t DEF Scan, Cancel, BeginScan, EndScan, Push, PushError, ComesDue, TypeOK
<1>7. TypeOK'
  BY <1>1, <1>2, <1>3, <1>4, <1>5, <1>t DEF TypeOK
<1>8. UNCHANGED lock /\ \A q \in Replicas : reply[q] => pc'[q] = pc[q]
  BY <1>1, <1>6 DEF lock, IInv, Pending
<1> QED BY <1>1, <1>6, <1>7, <1>8, InvAside

LEMMA InvStop ==
  ASSUME IInv, NEW r \in Replicas, Stop(r)
  PROVE  IInv'
<1>t. TypeOK /\ TTL \in Nat /\ None \notin Replicas /\ Gone \notin Replicas
  BY TTLAssumption, OwnerAssumption DEF IInv
<1>1. End(r)
  BY DEF Stop, Release, Leave, ReleaseError, Crash
<1>2. \/ owner = r /\ owner' \in {None, Gone} /\ left' \in {0, left}
      \/ owner # r /\ UNCHANGED <<owner, left>>
  BY DEF Stop, Release, Leave, ReleaseError, Crash, Abandon
<1>3. age' = [age EXCEPT ![r] = TTL]
  BY DEF Stop, Release, Leave, ReleaseError, Crash, Abandon
<1>4. faults' \in 0..MaxFaults
  BY <1>t, FaultAssumption DEF Stop, Release, Leave, ReleaseError, Crash, Fault, TypeOK
<1>5. TypeOK'
  BY <1>t, <1>1, <1>2, <1>3, <1>4 DEF End, TypeOK
<1>6. Clock'
  BY <1>t, <1>2, <1>3 DEF TypeOK, IInv, Clock
<1>7. Pending' /\ StaleLeadIsOld'
  <2>1. ~leader'[r] /\ ~reply'[r]
    BY <1>t, <1>1 DEF End, TypeOK
  <2>2. \A q \in Replicas \ {r} : /\ (leader'[q] <=> leader[q]) /\ (reply'[q] <=> reply[q])
                                   /\ pc'[q] = pc[q] /\ age'[q] = age[q]
                                   /\ (owner' = q <=> owner = q)
    BY <1>t, <1>1, <1>2, <1>3 DEF End, TypeOK
  <2>3. Pending'
    <3> SUFFICES ASSUME NEW q \in Replicas, reply'[q]
                 PROVE  pc'[q] = "answer" /\ (owner' = q \/ age'[q] = TTL)
      BY DEF Pending
    <3>1. q # r
      BY <2>1
    <3>2. reply[q] /\ pc'[q] = pc[q] /\ age'[q] = age[q] /\ (owner' = q <=> owner = q)
      BY <2>2, <3>1
    <3>3. pc[q] = "answer" /\ (owner = q \/ age[q] = TTL)
      BY <3>2 DEF IInv, Pending
    <3> QED BY <3>2, <3>3
  <2>4. StaleLeadIsOld'
    <3> SUFFICES ASSUME NEW q \in Replicas, leader'[q], owner' # q
                 PROVE  age'[q] = TTL \/ (pc'[q] = "answer" /\ ~reply'[q])
      BY DEF StaleLeadIsOld
    <3>1. q # r
      BY <2>1
    <3>2. /\ leader[q] /\ (reply'[q] <=> reply[q]) /\ owner # q
          /\ pc'[q] = pc[q] /\ age'[q] = age[q]
      BY <2>2, <3>1
    <3>3. age[q] = TTL \/ (pc[q] = "answer" /\ ~reply[q])
      BY <3>2 DEF IInv, StaleLeadIsOld
    <3> QED BY <3>2, <3>3
  <2> QED BY <2>3, <2>4
<1> QED BY <1>5, <1>6, <1>7 DEF IInv

LEMMA InvNext == IInv /\ [Next]_vars => IInv'
<1> SUFFICES ASSUME IInv, [Next]_vars PROVE IInv'
  OBVIOUS
<1>1. CASE Tick
  BY <1>1, InvTick
<1>2. ASSUME NEW r \in Replicas,
             Boot(r) \/ AttemptLeader(r) \/ Scan(r) \/ Cancel(r) \/ Stop(r)
      PROVE  IInv'
  BY <1>2, InvAttempt, InvScan, InvStop
<1>3. CASE UNCHANGED vars
  BY <1>3 DEF vars, IInv, TypeOK, Clock, Pending, StaleLeadIsOld
<1> QED BY <1>1, <1>2, <1>3 DEF Next

LEMMA InvAlways == Spec => []IInv
BY InvInit, InvNext, PTL DEF Spec

\* Type correctness; the lock never outlives its TTL.
THEOREM TypeCorrect == Spec => []TypeOK
<1>1. IInv => TypeOK
  BY DEF IInv
<1> QED BY <1>1, InvAlways, PTL

\* A replica that leads without the lock has not asked for it for a whole TTL:
\* the age of its last grant and the time the lock has left add up to the TTL.
THEOREM StaleLead == Spec => []StaleLeadIsOld
<1>1. IInv => StaleLeadIsOld
  BY DEF IInv
<1> QED BY <1>1, InvAlways, PTL

\* What OnlyOwnerDecides asks of a step.
OwnerStep ==
  /\ owner \in Replicas /\ owner' # owner => left = 1 \/ pc'[owner] = "down"
  /\ left' > left => pc[owner'] = "ask"

LEMMA StepByOwner ==
  ASSUME TypeOK, [Next]_vars
  PROVE  OwnerStep \/ UNCHANGED vars
<1>t. left \in 0..TTL /\ TTL \in Nat /\ None \notin Replicas /\ Gone \notin Replicas
  BY TTLAssumption, OwnerAssumption DEF TypeOK
<1>1. CASE Tick
  BY <1>1, <1>t DEF Tick, OwnerStep
<1>2. ASSUME NEW r \in Replicas, Acquire(r) \/ Refresh(r)
      PROVE  OwnerStep
  BY <1>2, <1>t DEF Acquire, Refresh, Grant, Goto, lock, OwnerStep
<1>3. ASSUME NEW r \in Replicas, Stop(r)
      PROVE  OwnerStep
  <2>1. pc'[r] = "down"
    BY <1>3 DEF Stop, Release, Leave, ReleaseError, Crash, End, TypeOK
  <2>2. \/ owner = r /\ left' \in {0, left}
        \/ UNCHANGED <<owner, left>>
    BY <1>3 DEF Stop, Release, Leave, ReleaseError, Crash, Abandon
  <2> QED BY <1>t, <2>1, <2>2 DEF OwnerStep
<1>4. ASSUME NEW r \in Replicas,
             Boot(r) \/ AskLeader(r) \/ Answer(r) \/ AskError(r) \/ Scan(r) \/ Cancel(r)
      PROVE  OwnerStep
  <2>1. UNCHANGED <<owner, left>>
    BY <1>4 DEF Boot, AskLeader, Answer, AskError, Cancel, Scan, BeginScan, EndScan, Push,
                PushError, ComesDue, lock
  <2> QED BY <1>t, <2>1 DEF OwnerStep
<1> QED BY <1>1, <1>2, <1>3, <1>4 DEF Next, AttemptLeader

\* The lock changes hands only when it expires or its owner ends, and is made
\* to last longer only for the replica that asks for it.
THEOREM OwnerDecides == Spec => OnlyOwnerDecides
<1>1. TypeOK /\ [Next]_vars => [OwnerStep]_vars
  BY StepByOwner
<1>2. Spec => [][OwnerStep]_vars
  BY <1>1, TypeCorrect, PTL DEF Spec
<1> QED BY <1>2 DEF OnlyOwnerDecides, OwnerStep
=============================================================================
