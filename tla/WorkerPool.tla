------------------------------ MODULE WorkerPool ------------------------------
(***************************************************************************)
(* The worker process of internal/worker/worker.go: the Run goroutine      *)
(* scans the enabled monitors on every tick and sends the due ones to a    *)
(* buffered channel, a fixed pool of consumers takes them from there, and  *)
(* a third goroutine writes the worker's heartbeat row.  A cancelled       *)
(* context shuts all three down.                                           *)
(*                                                                         *)
(* What a check does with its monitor is IncidentRules.  The counters the  *)
(* heartbeat reports, and what is in its row, are not modelled.            *)
(***************************************************************************)
EXTENDS Naturals, Sequences, FiniteSets, SequencesExt

CONSTANTS
  Monitors,
  Listed,      \* the enabled monitors of the region, in the order of the query
  Consumers,   \* CheckWorkerCount goroutines
  Capacity,    \* cap(w.jobs): twice the consumers, at least 4
  None

ASSUME ListedAssumption == Listed \in Seq(Monitors)
ASSUME CapacityAssumption == Capacity \in Nat \ {0}
ASSUME ConsumersAssumption == Consumers # {}
ASSUME NobodyAssumption == None \notin Monitors

VARIABLES
  due,        \* monitors never seen, or whose nextRun has passed
  scan,       \* monitors enqueueDue has still to look at
  admitted,   \* whether it has found the first of them not in flight
  jobs,       \* w.jobs
  current,    \* the monitor a consumer works on
  step,       \* where a consumer is in runOne
  inFlight,   \* w.inFlight
  cancelled,  \* ctx
  phase,      \* how far Run has come in its shutdown
  beat,       \* the heartbeat goroutine
  row         \* whether the worker's heartbeat row exists

vars == <<due, scan, admitted, jobs, current, step, inFlight,
          cancelled, phase, beat, row>>
scanning == <<due, scan, admitted>>
consuming == <<current, step, inFlight>>
stopping == <<cancelled, phase>>
beating == <<beat, row>>

TypeOK ==
  /\ due \in SUBSET Monitors
  /\ scan \in Seq(Monitors)
  /\ admitted \in BOOLEAN
  /\ jobs \in Seq(Monitors)
  /\ Len(jobs) <= Capacity
  /\ current \in [Consumers -> Monitors \union {None}]
  /\ step \in [Consumers -> {"idle", "start", "check", "end", "left"}]
  /\ inFlight \in SUBSET Monitors
  /\ cancelled \in BOOLEAN
  /\ phase \in {"running", "closed", "drained", "stopped", "unclean"}
  /\ beat \in {"waiting", "writing", "done"}
  /\ row \in BOOLEAN

------------------------------------------------------------------------------
(* enqueueDue. *)

\* A tick, or the call before the first one.  On a cancelled context the query
\* fails and nothing happens.
BeginScan ==
  /\ phase = "running" /\ ~cancelled
  /\ scan = <<>>
  /\ scan' = Listed
  /\ UNCHANGED <<due, admitted, jobs, consuming, stopping, beating>>

NextMonitor ==
  /\ scan' = Tail(scan)
  /\ admitted' = FALSE

SkipInFlight ==
  /\ scan # <<>> /\ ~admitted
  /\ Head(scan) \in inFlight
  /\ NextMonitor
  /\ UNCHANGED <<due, jobs, consuming, stopping, beating>>

Admit ==
  /\ scan # <<>> /\ ~admitted
  /\ Head(scan) \notin inFlight
  /\ admitted' = TRUE
  /\ UNCHANGED <<due, scan, jobs, consuming, stopping, beating>>

\* In a maintenance window, whether due or not; a failing read counts as none.
SkipInMaintenance ==
  /\ admitted
  /\ NextMonitor
  /\ UNCHANGED <<due, jobs, consuming, stopping, beating>>

SkipNotDue ==
  /\ admitted
  /\ Head(scan) \notin due
  /\ NextMonitor
  /\ UNCHANGED <<due, jobs, consuming, stopping, beating>>

\* Mutant: a slice in place of the bounded channel.
SubmitUnbounded ==
  /\ admitted
  /\ Head(scan) \in due
  /\ due' = due \ {Head(scan)}
  /\ jobs' = Append(jobs, Head(scan))
  /\ NextMonitor
  /\ UNCHANGED <<consuming, stopping, beating>>

Submit ==
  /\ admitted
  /\ Head(scan) \in due
  /\ Len(jobs) < Capacity
  /\ due' = due \ {Head(scan)}
  /\ jobs' = Append(jobs, Head(scan))
  /\ NextMonitor
  /\ UNCHANGED <<consuming, stopping, beating>>

\* The channel is full: the monitor is due again in a second.
QueueFull ==
  /\ admitted
  /\ Head(scan) \in due
  /\ Len(jobs) = Capacity /\ ~cancelled
  /\ due' = due \ {Head(scan)}
  /\ NextMonitor
  /\ UNCHANGED <<jobs, consuming, stopping, beating>>

\* The select may take ctx.Done() although there is room.
GiveUp ==
  /\ admitted
  /\ Head(scan) \in due
  /\ cancelled
  /\ due' = due \ {Head(scan)}
  /\ scan' = <<>>
  /\ admitted' = FALSE
  /\ UNCHANGED <<jobs, consuming, stopping, beating>>

\* nextRun passes.  A scan reads the clock once, when it begins.
ComesDue(m) ==
  /\ scan = <<>>
  /\ m \notin due
  /\ due' = due \union {m}
  /\ UNCHANGED <<scan, admitted, jobs, consuming, stopping, beating>>

------------------------------------------------------------------------------
(* consume and runOne. *)

Receive(c) ==
  /\ step[c] = "idle"
  /\ jobs # <<>>
  /\ jobs' = Tail(jobs)
  /\ current' = [current EXCEPT ![c] = Head(jobs)]
  /\ step' = [step EXCEPT ![c] = "start"]
  /\ UNCHANGED <<scanning, inFlight, stopping, beating>>

Start(c) ==
  /\ step[c] = "start"
  /\ inFlight' = inFlight \union {current[c]}
  /\ step' = [step EXCEPT ![c] = "check"]
  /\ UNCHANGED <<scanning, jobs, current, stopping, beating>>

\* RunCheck returns, with a result or an error.
Complete(c) ==
  /\ step[c] = "check"
  /\ step' = [step EXCEPT ![c] = "end"]
  /\ UNCHANGED <<scanning, jobs, current, inFlight, stopping, beating>>

\* Mutant: inFlight.Delete follows the check instead of being deferred.
PanicLeavesEntry(c) ==
  /\ step[c] = "check"
  /\ step' = [step EXCEPT ![c] = "idle"]
  /\ current' = [current EXCEPT ![c] = None]
  /\ UNCHANGED <<scanning, jobs, inFlight, stopping, beating>>

\* Mutant: the panic is recovered outside the consumer's loop.
PanicEndsConsumer(c) ==
  /\ step[c] = "check"
  /\ step' = [step EXCEPT ![c] = "dead"]
  /\ current' = [current EXCEPT ![c] = None]
  /\ inFlight' = inFlight \ {current[c]}
  /\ UNCHANGED <<scanning, jobs, stopping, beating>>

\* A check that panics is recovered from, and the deferred calls follow.
Panic(c) ==
  /\ step[c] = "check"
  /\ step' = [step EXCEPT ![c] = "end"]
  /\ UNCHANGED <<scanning, jobs, current, inFlight, stopping, beating>>

Forget(c) ==
  /\ step[c] = "end"
  /\ inFlight' = inFlight \ {current[c]}
  /\ current' = [current EXCEPT ![c] = None]
  /\ step' = [step EXCEPT ![c] = "idle"]
  /\ UNCHANGED <<scanning, jobs, stopping, beating>>

\* Mutant: the consumer watches the context instead of the channel.
LeaveAtOnce(c) ==
  /\ step[c] = "idle"
  /\ cancelled
  /\ step' = [step EXCEPT ![c] = "left"]
  /\ UNCHANGED <<scanning, jobs, current, inFlight, stopping, beating>>

\* The range over a closed channel ends once it is empty.
Leave(c) ==
  /\ step[c] = "idle"
  /\ phase # "running" /\ jobs = <<>>
  /\ step' = [step EXCEPT ![c] = "left"]
  /\ UNCHANGED <<scanning, jobs, current, inFlight, stopping, beating>>

------------------------------------------------------------------------------
(* runHeartbeats. *)

BeginBeat ==
  /\ beat = "waiting" /\ ~cancelled
  /\ beat' = "writing"
  /\ UNCHANGED <<scanning, jobs, consuming, stopping, row>>

\* The upsert may fail, and may take effect after the context was cancelled, but
\* not after the call has returned: a statement the client gave up is settled.
EndBeat(written) ==
  /\ beat = "writing"
  /\ beat' = "waiting"
  /\ row' = (row \/ written)
  /\ UNCHANGED <<scanning, jobs, consuming, stopping>>

LeaveBeat ==
  /\ beat = "waiting" /\ cancelled
  /\ beat' = "done"
  /\ UNCHANGED <<scanning, jobs, consuming, stopping, row>>

------------------------------------------------------------------------------
(* Shutdown. *)

Cancel ==
  /\ ~cancelled
  /\ cancelled' = TRUE
  /\ UNCHANGED <<scanning, jobs, consuming, phase, beating>>

\* close(w.jobs), by the goroutine that sends to it.
CloseJobs ==
  /\ phase = "running" /\ cancelled
  /\ scan = <<>>
  /\ phase' = "closed"
  /\ UNCHANGED <<scanning, jobs, consuming, cancelled, beating>>

\* wg.Wait().
Drained ==
  /\ phase = "closed"
  /\ \A c \in Consumers : step[c] = "left"
  /\ phase' = "drained"
  /\ UNCHANGED <<scanning, jobs, consuming, cancelled, beating>>

\* Mutant: the row is deleted without waiting for the heartbeat goroutine.
CleanupAtOnce(deleted) ==
  /\ phase = "drained"
  /\ phase' = IF deleted THEN "stopped" ELSE "unclean"
  /\ row' = (row /\ ~deleted)
  /\ UNCHANGED <<scanning, jobs, consuming, cancelled, beat>>

\* <-heartbeatDone, then the row is deleted with a context of its own.
Cleanup(deleted) ==
  /\ phase = "drained" /\ beat = "done"
  /\ phase' = IF deleted THEN "stopped" ELSE "unclean"
  /\ row' = (row /\ ~deleted)
  /\ UNCHANGED <<scanning, jobs, consuming, cancelled, beat>>

------------------------------------------------------------------------------

Init ==
  /\ due = Monitors
  /\ scan = <<>>
  /\ admitted = FALSE
  /\ jobs = <<>>
  /\ current = [c \in Consumers |-> None]
  /\ step = [c \in Consumers |-> "idle"]
  /\ inFlight = {}
  /\ cancelled = FALSE
  /\ phase = "running"
  /\ beat = "waiting"
  /\ row = FALSE

Consider ==
  \/ SkipInFlight \/ Admit \/ SkipInMaintenance \/ SkipNotDue
  \/ Submit \/ QueueFull \/ GiveUp

Consume(c) ==
  Receive(c) \/ Start(c) \/ Complete(c) \/ Panic(c) \/ Forget(c) \/ Leave(c)

Beat == BeginBeat \/ LeaveBeat \/ \E written \in BOOLEAN : EndBeat(written)

Stop == CloseJobs \/ Drained \/ \E deleted \in BOOLEAN : Cleanup(deleted)

Next ==
  \/ BeginScan \/ Consider
  \/ \E m \in Monitors : ComesDue(m)
  \/ \E c \in Consumers : Consume(c)
  \/ Beat \/ Cancel \/ Stop

Spec == Init /\ [][Next]_vars

\* Goroutines run, and every call ends by its timeout.  Nothing is asked of the
\* ticker, the clock or whoever cancels the context.
Fairness ==
  /\ WF_vars(Consider) /\ WF_vars(Beat) /\ WF_vars(Stop)
  /\ \A c \in Consumers : WF_vars(Consume(c))

FairSpec == Spec /\ Fairness

------------------------------------------------------------------------------
(* Properties. *)

\* No entry of inFlight outlives its job, not even when the check panics
\* (worker.go:279) or two consumers run one monitor: a monitor with a stale
\* entry would never be scheduled again (worker.go:223).
InFlightIsRunning ==
  \A m \in inFlight : \E c \in Consumers : step[c] \in {"check", "end"} /\ current[c] = m

\* After a clean shutdown no job is left in the channel or unfinished, and the
\* heartbeat row is gone, whatever was being written when the context was
\* cancelled (worker.go:126-139: "Best-effort cleanup so the UI doesn't show us
\* as alive after a clean shutdown").
CleanStop ==
  phase \in {"stopped", "unclean"} =>
    /\ jobs = <<>> /\ inFlight = {}
    /\ \A c \in Consumers : current[c] = None
    /\ phase = "stopped" => ~row

\* A monitor that was queued is taken up, through panics and a shutdown.
JobsRun ==
  \A m \in Monitors : m \in ToSet(jobs) ~> \E c \in Consumers : current[c] = m

\* A cancelled context ends Run: no goroutine waits for another for ever.
ShutdownEnds == cancelled ~> phase \in {"stopped", "unclean"}

\* README "Scheduler And Worker": the worker "skips monitors already in flight".
OneRunPerMonitor ==
  \A c, d \in Consumers : c # d /\ current[c] # None => current[c] # current[d]
=============================================================================
