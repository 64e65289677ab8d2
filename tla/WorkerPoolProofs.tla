--------------------------- MODULE WorkerPoolProofs ---------------------------
(***************************************************************************)
(* Proofs about WorkerPool, for any monitors, consumers and capacity.      *)
(***************************************************************************)
EXTENDS WorkerPool, SequenceTheorems, TLAPS

\* A consumer has a monitor exactly while it is between Receive and Forget.
Busy == \A c \in Consumers : step[c] \in {"idle", "left"} <=> current[c] = None

\* The scan is over when the channel is closed, and the channel is empty when a
\* consumer leaves: nothing can be sent to it or left in it afterwards.
ScanOver ==
  /\ admitted => scan # <<>>
  /\ phase # "running" => cancelled /\ scan = <<>>
  /\ \A c \in Consumers : step[c] = "left" => phase # "running" /\ jobs = <<>>

\* What Run has waited for by the time it is that far.
Waited ==
  /\ phase \in {"drained", "stopped", "unclean"} =>
       jobs = <<>> /\ \A c \in Consumers : step[c] = "left"
  /\ beat = "done" => cancelled
  /\ phase \in {"stopped", "unclean"} => beat = "done"
  /\ phase = "stopped" => ~row

IInv == TypeOK /\ Busy /\ InFlightIsRunning /\ ScanOver /\ Waited

LEMMA InvInit == Init => IInv
<1> SUFFICES ASSUME Init PROVE IInv
  OBVIOUS
<1> USE DEF Init
<1>1. TypeOK
  <2>1. <<>> \in Seq(Monitors) /\ Len(<<>>) <= Capacity
    BY EmptySeq, CapacityAssumption
  <2> QED BY <2>1 DEF TypeOK
<1>2. Busy /\ InFlightIsRunning
  BY DEF Busy, InFlightIsRunning
<1>3. ScanOver /\ Waited
  BY DEF ScanOver, Waited
<1> QED BY <1>1, <1>2, <1>3 DEF IInv

\* Steps of the scan leave the consumers alone, and are over once the channel is
\* closed.
LEMMA InvScan ==
  ASSUME IInv,
         UNCHANGED <<consuming, stopping, beating>>,
         due' \in SUBSET Monitors, scan' \in Seq(Monitors), admitted' \in BOOLEAN,
         jobs' \in Seq(Monitors), Len(jobs') <= Capacity,
         admitted' => scan' # <<>>,
         phase # "running" => scan' = scan /\ jobs' = jobs
  PROVE  IInv'
<1>1. TypeOK'
  BY DEF IInv, TypeOK, consuming, stopping, beating
<1>2. Busy' /\ InFlightIsRunning'
  BY DEF IInv, Busy, InFlightIsRunning, consuming
<1>3. ScanOver'
  BY DEF IInv, ScanOver, consuming, stopping
<1>4. Waited'
  BY DEF IInv, Waited, consuming, stopping, beating
<1> QED BY <1>1, <1>2, <1>3, <1>4 DEF IInv

LEMMA TailOfScan ==
  ASSUME IInv, admitted \/ scan # <<>>
  PROVE  /\ scan # <<>>
         /\ Tail(scan) \in Seq(Monitors)
         /\ Head(scan) \in Monitors
         /\ phase = "running"
<1>1. scan \in Seq(Monitors) /\ scan # <<>>
  BY DEF IInv, TypeOK, ScanOver
<1>2. phase = "running"
  BY <1>1 DEF IInv, ScanOver
<1> QED BY <1>1, <1>2, HeadTailProperties

LEMMA InvEnqueueDue ==
  ASSUME IInv, BeginScan \/ Consider \/ \E m \in Monitors : ComesDue(m)
  PROVE  IInv'
<1> USE DEF NextMonitor
<1>t. /\ due \in SUBSET Monitors /\ scan \in Seq(Monitors) /\ admitted \in BOOLEAN
      /\ jobs \in Seq(Monitors) /\ Len(jobs) <= Capacity
      /\ admitted => scan # <<>>
  BY DEF IInv, TypeOK, ScanOver
<1>1. CASE BeginScan
  <2>1. phase = "running" /\ scan' = Listed /\ ~admitted
    BY <1>1 DEF BeginScan, IInv, ScanOver
  <2> QED BY <1>1, <1>t, <2>1, ListedAssumption, InvScan DEF BeginScan
<1>2. CASE SkipInFlight
  BY <1>2, <1>t, TailOfScan, InvScan DEF SkipInFlight
<1>3. CASE Admit
  BY <1>3, <1>t, TailOfScan, InvScan DEF Admit
<1>4. CASE SkipInMaintenance \/ SkipNotDue
  BY <1>4, <1>t, TailOfScan, InvScan DEF SkipInMaintenance, SkipNotDue
<1>5. CASE Submit
  <2>1. /\ jobs' \in Seq(Monitors)
        /\ Len(jobs') = Len(jobs) + 1
    BY <1>5, <1>t, TailOfScan, AppendProperties DEF Submit
  <2>2. Len(jobs') <= Capacity
    BY <1>5, <1>t, <2>1, CapacityAssumption, LenProperties DEF Submit
  <2> QED BY <1>5, <1>t, <2>1, <2>2, TailOfScan, InvScan DEF Submit
<1>6. CASE QueueFull
  BY <1>6, <1>t, TailOfScan, InvScan DEF QueueFull
<1>7. CASE GiveUp
  <2>1. <<>> \in Seq(Monitors)
    BY EmptySeq
  <2> QED BY <1>7, <1>t, <2>1, TailOfScan, InvScan DEF GiveUp
<1>8. ASSUME NEW m \in Monitors, ComesDue(m) PROVE IInv'
  BY <1>8, <1>t, InvScan DEF ComesDue
<1> QED BY <1>1, <1>2, <1>3, <1>4, <1>5, <1>6, <1>7, <1>8 DEF Consider

\* A consumer that has not left keeps Run in its wait.
LEMMA StillWorking ==
  ASSUME IInv, NEW c \in Consumers, step[c] # "left"
  PROVE  phase \in {"running", "closed"}
BY DEF IInv, TypeOK, Waited

\* Steps of one consumer that change what it is doing.
LEMMA InvStep ==
  ASSUME IInv, NEW c \in Consumers, step[c] # "left",
         UNCHANGED <<scanning, stopping, beating>>,
         jobs' \in Seq(Monitors), Len(jobs') <= Capacity,
         NEW s \in {"idle", "start", "check", "end"},
         step' = [step EXCEPT ![c] = s],
         NEW m \in Monitors \union {None},
         current' = [current EXCEPT ![c] = m],
         s = "idle" <=> m = None,
         jobs = <<>> => jobs' = <<>>,
         inFlight' \in SUBSET Monitors,
         InFlightIsRunning'
  PROVE  IInv'
<1>t. /\ step \in [Consumers -> {"idle", "start", "check", "end", "left"}]
      /\ current \in [Consumers -> Monitors \union {None}]
  BY DEF IInv, TypeOK
<1>1. TypeOK'
  BY <1>t DEF IInv, TypeOK, scanning, stopping, beating
<1>2. Busy'
  BY <1>t DEF IInv, Busy
<1>3. ScanOver'
  BY <1>t DEF IInv, ScanOver, scanning, stopping
<1>4. Waited'
  <2>1. phase \in {"running", "closed"}
    BY StillWorking
  <2> QED BY <2>1 DEF IInv, Waited, stopping, beating
<1> QED BY <1>1, <1>2, <1>3, <1>4 DEF IInv

LEMMA InvConsume ==
  ASSUME IInv, NEW c \in Consumers, Consume(c)
  PROVE  IInv'
<1>t. /\ step \in [Consumers -> {"idle", "start", "check", "end", "left"}]
      /\ current \in [Consumers -> Monitors \union {None}]
      /\ jobs \in Seq(Monitors) /\ Len(jobs) <= Capacity
      /\ inFlight \in SUBSET Monitors
  BY DEF IInv, TypeOK
<1>b. step[c] \notin {"idle", "left"} => current[c] \in Monitors
  BY <1>t DEF IInv, Busy
<1>i. InFlightIsRunning
  BY DEF IInv
<1>1. CASE Receive(c)
  <2>1. /\ Head(jobs) \in Monitors
        /\ Tail(jobs) \in Seq(Monitors)
        /\ Len(Tail(jobs)) = Len(jobs) - 1
    BY <1>1, <1>t, HeadTailProperties DEF Receive
  <2>2. Len(Tail(jobs)) <= Capacity
    BY <1>t, <2>1, CapacityAssumption, LenProperties
  <2>3. InFlightIsRunning'
    BY <1>1, <1>t, <1>i DEF Receive, InFlightIsRunning
  <2>4. Head(jobs) # None
    BY <2>1, NobodyAssumption
  <2> QED BY <1>1, <1>t, <2>1, <2>2, <2>3, <2>4, InvStep DEF Receive
<1>2. CASE Start(c)
  <2>1. InFlightIsRunning'
    BY <1>2, <1>t, <1>i DEF Start, InFlightIsRunning
  <2>2. current[c] \in Monitors /\ current[c] # None
    BY <1>2, <1>b, NobodyAssumption DEF Start
  <2>3. current' = [current EXCEPT ![c] = current[c]]
    BY <1>2, <1>t DEF Start
  <2>4. /\ step[c] # "left" /\ inFlight' \in SUBSET Monitors
        /\ jobs' = jobs /\ step' = [step EXCEPT ![c] = "check"]
        /\ UNCHANGED <<scanning, stopping, beating>>
    BY <1>2, <1>t, <2>2 DEF Start
  <2> QED BY <1>t, <2>1, <2>2, <2>3, <2>4, InvStep
<1>3. CASE Complete(c) \/ Panic(c)
  <2>1. InFlightIsRunning'
    BY <1>3, <1>t, <1>i DEF Complete, Panic, InFlightIsRunning
  <2>2. current[c] \in Monitors /\ current[c] # None
    BY <1>3, <1>b, NobodyAssumption DEF Complete, Panic
  <2>3. current' = [current EXCEPT ![c] = current[c]]
    BY <1>3, <1>t DEF Complete, Panic
  <2>4. /\ step[c] # "left" /\ inFlight' = inFlight
        /\ jobs' = jobs /\ step' = [step EXCEPT ![c] = "end"]
        /\ UNCHANGED <<scanning, stopping, beating>>
    BY <1>3 DEF Complete, Panic
  <2> QED BY <1>t, <2>1, <2>2, <2>3, <2>4, InvStep
<1>4. CASE Forget(c)
  <2>1. InFlightIsRunning'
    <3> SUFFICES ASSUME NEW m \in inFlight'
                 PROVE  \E d \in Consumers : step'[d] \in {"check", "end"} /\ current'[d] = m
      BY DEF InFlightIsRunning
    <3>1. m \in inFlight /\ m # current[c]
      BY <1>4 DEF Forget
    <3>2. PICK d \in Consumers : step[d] \in {"check", "end"} /\ current[d] = m
      BY <1>i, <3>1 DEF InFlightIsRunning
    <3>3. d # c
      BY <3>1, <3>2
    <3> QED BY <1>4, <1>t, <3>2, <3>3 DEF Forget
  <2> QED BY <1>4, <1>t, <2>1, InvStep DEF Forget
<1>5. CASE Leave(c)
  <2>1. TypeOK'
    BY <1>5, <1>t DEF Leave, IInv, TypeOK, scanning, stopping, beating
  <2>2. Busy' /\ InFlightIsRunning'
    BY <1>5, <1>t DEF Leave, IInv, Busy, InFlightIsRunning
  <2>3. ScanOver'
    BY <1>5, <1>t DEF Leave, IInv, ScanOver, scanning, stopping
  <2>4. Waited'
    BY <1>5, <1>t, StillWorking DEF Leave, IInv, Waited, stopping, beating
  <2> QED BY <2>1, <2>2, <2>3, <2>4 DEF IInv
<1> QED BY <1>1, <1>2, <1>3, <1>4, <1>5 DEF Consume

LEMMA InvBeat ==
  ASSUME IInv, Beat
  PROVE  IInv'
<1> USE DEF Beat, BeginBeat, EndBeat, LeaveBeat
<1>1. UNCHANGED <<due, scan, admitted, jobs, current, step, inFlight, cancelled, phase>>
  BY DEF scanning, consuming, stopping
<1>2. TypeOK'
  BY <1>1 DEF IInv, TypeOK
<1>3. Busy' /\ InFlightIsRunning' /\ ScanOver'
  BY <1>1 DEF IInv, Busy, InFlightIsRunning, ScanOver
<1>4. Waited'
  BY <1>1 DEF IInv, Waited
<1> QED BY <1>2, <1>3, <1>4 DEF IInv

LEMMA InvStop ==
  ASSUME IInv, Cancel \/ Stop
  PROVE  IInv'
<1> USE DEF Stop, Cancel, CloseJobs, Drained, Cleanup
<1>1. UNCHANGED <<due, scan, admitted, jobs, current, step, inFlight, beat>>
  BY DEF scanning, consuming, beating
<1>2. TypeOK'
  BY <1>1 DEF IInv, TypeOK, beating
<1>3. Busy' /\ InFlightIsRunning'
  BY <1>1 DEF IInv, Busy, InFlightIsRunning
<1>4. ScanOver'
  BY <1>1 DEF IInv, ScanOver
<1>5. Waited'
  <2>1. CASE Cancel \/ CloseJobs
    BY <1>1, <2>1 DEF IInv, Waited, beating
  <2>2. CASE Drained
    <3>1. jobs = <<>>
      BY <2>2, ConsumersAssumption DEF IInv, ScanOver
    <3> QED BY <1>1, <2>2, <3>1 DEF IInv, Waited, beating
  <2>3. ASSUME NEW deleted \in BOOLEAN, Cleanup(deleted) PROVE Waited'
    <3>1. /\ jobs' = <<>> /\ \A c \in Consumers : step'[c] = "left"
          /\ beat' = "done" /\ cancelled'
      BY <1>1, <2>3 DEF IInv, Waited
    <3>2. phase' = "stopped" => deleted
      BY <2>3
    <3>3. deleted => ~row'
      BY <2>3
    <3> QED BY <3>1, <3>2, <3>3 DEF Waited
  <2> QED BY <2>1, <2>2, <2>3
<1> QED BY <1>2, <1>3, <1>4, <1>5 DEF IInv

LEMMA InvNext == IInv /\ [Next]_vars => IInv'
<1> SUFFICES ASSUME IInv, [Next]_vars PROVE IInv'
  OBVIOUS
<1>1. CASE BeginScan \/ Consider \/ \E m \in Monitors : ComesDue(m)
  BY <1>1, InvEnqueueDue
<1>2. CASE \E c \in Consumers : Consume(c)
  BY <1>2, InvConsume
<1>3. CASE Beat
  BY <1>3, InvBeat
<1>4. CASE Cancel \/ Stop
  BY <1>4, InvStop
<1>5. CASE UNCHANGED vars
  BY <1>5 DEF vars, IInv, TypeOK, Busy, InFlightIsRunning, ScanOver, Waited
<1> QED BY <1>1, <1>2, <1>3, <1>4, <1>5 DEF Next

LEMMA InvAlways == Spec => []IInv
BY InvInit, InvNext, PTL DEF Spec

\* Type correctness, the bound of the channel included, for any number of
\* monitors and consumers.
THEOREM TypeCorrect == Spec => []TypeOK
<1>1. IInv => TypeOK
  BY DEF IInv
<1> QED BY <1>1, InvAlways, PTL

\* No entry of inFlight is stale (worker.go:279): the deferred Delete runs for
\* every job, panics included, and a Delete by the other consumer of a monitor
\* takes the entry away too early, never too late.
THEOREM InFlightRuns == Spec => []InFlightIsRunning
<1>1. IInv => InFlightIsRunning
  BY DEF IInv
<1> QED BY <1>1, InvAlways, PTL

\* When Run has returned, the channel is empty, no consumer works, and the
\* heartbeat row is gone unless its deletion failed (worker.go:126-139).
THEOREM StopsClean == Spec => []CleanStop
<1>1. IInv => CleanStop
  <2> SUFFICES ASSUME IInv, phase \in {"stopped", "unclean"} PROVE CleanStop
    BY DEF CleanStop
  <2>1. jobs = <<>> /\ \A c \in Consumers : step[c] = "left"
    BY DEF IInv, Waited
  <2>2. \A c \in Consumers : current[c] = None
    BY <2>1 DEF IInv, Busy
  <2>3. inFlight = {}
    BY <2>1 DEF IInv, InFlightIsRunning
  <2>4. phase = "stopped" => ~row
    BY DEF IInv, Waited
  <2> QED BY <2>1, <2>2, <2>3, <2>4 DEF CleanStop
<1> QED BY <1>1, InvAlways, PTL
=============================================================================
