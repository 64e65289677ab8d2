----------------------------- MODULE BrowserQueue ------------------------------
(***************************************************************************)
(* Browser checks: internal/checks/browser.go puts a job on a Redis list   *)
(* and waits on a shared result channel; the sidecars of                   *)
(* cmd/browser-worker/worker.mjs take jobs, run the script and publish.    *)
(*                                                                         *)
(* Every check and its job have one id.  The timeout of a check may pass   *)
(* at any moment: the sidecar counts the same number of milliseconds from  *)
(* the moment it starts, so its answer may come after it.  A call of Redis *)
(* that fails may have done its work all the same.                         *)
(***************************************************************************)
EXTENDS Naturals, Sequences, FiniteSets

CONSTANTS
  Checks,       \* executions of BrowserChecker.Check
  Sidecars,
  NoJob,
  MaxDeaths     \* bound: how often a sidecar dies

ASSUME BrowserAssumption == NoJob \notin Checks /\ MaxDeaths \in Nat

VARIABLES
  scriptSaved,   \* whether the monitor has a browser script
  browserJobs,   \* queue:browser; the next job to take is the first
  pushed,        \* the jobs that were put there
  waiting,       \* checks subscribed to queue:browser:results
  inbox,         \* what a check's subscription has received and it has not read
  verdict,       \* the result of a check, "none" before its end
  running,       \* the job of a sidecar
  holding,       \* what it is about to publish of it: the script's outcome, or the "error" of its catch
  ran,           \* what each job's script did, every time it was run
  mishap,        \* of a job: "no browser" could be launched, or its result was "unheard" and not confirmed
  deaths

checkVars == <<scriptSaved, browserJobs, pushed, waiting, verdict>>
sidecarVars == <<running, holding, ran, mishap, deaths>>
browserVars == <<checkVars, inbox, sidecarVars>>

Ends(c, v) ==
  /\ verdict' = [verdict EXCEPT ![c] = v]
  /\ waiting' = waiting \ {c}
  /\ inbox' = [inbox EXCEPT ![c] = <<>>]

------------------------------------------------------------------------------
(* The check. *)

\* No script, or no answer of Redis to the subscription or the push, which may
\* have been carried out.
CannotStart(c) ==
  /\ verdict[c] = "none" /\ c \notin waiting
  /\ Ends(c, IF scriptSaved THEN "unavailable" ELSE "no script")
  /\ UNCHANGED <<scriptSaved, browserJobs, pushed, sidecarVars>>

PushUnanswered(c) ==
  /\ scriptSaved
  /\ verdict[c] = "none" /\ c \notin waiting
  /\ Ends(c, "unavailable")
  /\ browserJobs' = Append(browserJobs, c)
  /\ pushed' = pushed \union {c}
  /\ UNCHANGED <<scriptSaved, sidecarVars>>

\* Subscribed before the push, so that the answer cannot be missed.
Enqueue(c) ==
  /\ scriptSaved
  /\ verdict[c] = "none" /\ c \notin waiting
  /\ waiting' = waiting \union {c}
  /\ browserJobs' = Append(browserJobs, c)
  /\ pushed' = pushed \union {c}
  /\ UNCHANGED <<scriptSaved, inbox, verdict, sidecarVars>>

\* Mutant: the first result on the shared channel is taken.
AnyResult(c, message) == TRUE

\* The next message: another job's result is passed over.
IsOwnResult(c, message) == message.job = c

ReadMessage(c) ==
  /\ inbox[c] # <<>>
  /\ LET message == Head(inbox[c])
     IN  IF IsOwnResult(c, message)
           THEN Ends(c, message.outcome)
           ELSE /\ inbox' = [inbox EXCEPT ![c] = Tail(@)]
                /\ UNCHANGED <<verdict, waiting>>
  /\ UNCHANGED <<scriptSaved, browserJobs, pushed, sidecarVars>>

\* checkCtx.Done: the job stays where it is.
GiveUp(c) ==
  /\ c \in waiting
  /\ Ends(c, "timed out")
  /\ UNCHANGED <<scriptSaved, browserJobs, pushed, sidecarVars>>

\* setMonitorBrowserScript, for the first time.
SaveScript ==
  /\ ~scriptSaved
  /\ scriptSaved' = TRUE
  /\ UNCHANGED <<browserJobs, pushed, waiting, inbox, verdict, sidecarVars>>

------------------------------------------------------------------------------
(* The sidecar. *)

TakeJob(s) ==
  /\ running[s] = NoJob
  /\ browserJobs # <<>>
  /\ running' = [running EXCEPT ![s] = Head(browserJobs)]
  /\ browserJobs' = Tail(browserJobs)
  /\ UNCHANGED <<scriptSaved, pushed, waiting, inbox, verdict, holding, ran, mishap, deaths>>

\* chromium.launch throws, outside the inner try: the catch of the loop is next.
LaunchFails(s) ==
  /\ running[s] # NoJob /\ holding[s] = "nothing"
  /\ holding' = [holding EXCEPT ![s] = "error"]
  /\ mishap' = [mishap EXCEPT ![running[s]] = "no browser"]
  /\ UNCHANGED <<checkVars, inbox, running, ran, deaths>>

\* runJob: the script succeeds, fails or exceeds the job's timeout.
RunJob(s, outcome) ==
  /\ running[s] # NoJob /\ holding[s] = "nothing"
  /\ ran' = [ran EXCEPT ![running[s]] = Append(@, outcome)]
  /\ holding' = [holding EXCEPT ![s] = outcome]
  /\ UNCHANGED <<checkVars, inbox, running, mishap, deaths>>

\* PUBLISH to every subscriber of that moment.
Announce(job, outcome, reached) ==
  inbox' = [c \in Checks |-> IF reached /\ c \in waiting THEN Append(inbox[c], [job |-> job, outcome |-> outcome])
                            ELSE inbox[c]]

Idle(s) ==
  /\ running' = [running EXCEPT ![s] = NoJob]
  /\ holding' = [holding EXCEPT ![s] = "nothing"]

\* A publish that is not confirmed ends in the catch, whether it reached anyone.
PublishResult(s, reached, confirmed) ==
  LET job == running[s] IN
  /\ holding[s] \in {"up", "failed"}
  /\ Announce(job, holding[s], reached)
  /\ IF confirmed THEN Idle(s) /\ UNCHANGED mishap
     ELSE /\ holding' = [holding EXCEPT ![s] = "error"]
          /\ mishap' = IF reached THEN mishap ELSE [mishap EXCEPT ![job] = "unheard"]
          /\ UNCHANGED running
  /\ UNCHANGED <<checkVars, ran, deaths>>

\* The catch publishes a failure of the job, whatever its script did; if that
\* is not confirmed either the process ends.
PublishError(s, reached, confirmed) ==
  /\ holding[s] = "error"
  /\ Announce(running[s], "failed", reached)
  /\ Idle(s)
  /\ IF confirmed THEN UNCHANGED deaths ELSE deaths < MaxDeaths /\ deaths' = deaths + 1
  /\ UNCHANGED <<checkVars, ran, mishap>>

\* The sidecar dies with its job, or the answer to its BRPOP is lost; it is
\* started again.
SidecarDies(s) ==
  /\ running[s] # NoJob
  /\ deaths < MaxDeaths
  /\ Idle(s)
  /\ deaths' = deaths + 1
  /\ UNCHANGED <<checkVars, inbox, ran, mishap>>

------------------------------------------------------------------------------
BrowserInit ==
  /\ scriptSaved = FALSE /\ deaths = 0
  /\ browserJobs = <<>> /\ waiting = {} /\ pushed = {}
  /\ inbox = [c \in Checks |-> <<>>]
  /\ verdict = [c \in Checks |-> "none"]
  /\ running = [s \in Sidecars |-> NoJob]
  /\ holding = [s \in Sidecars |-> "nothing"]
  /\ ran = [c \in Checks |-> <<>>]
  /\ mishap = [c \in Checks |-> "none"]

BrowserNext ==
  \/ \E c \in Checks : CannotStart(c) \/ PushUnanswered(c) \/ Enqueue(c) \/ ReadMessage(c) \/ GiveUp(c)
  \/ \E s \in Sidecars : TakeJob(s) \/ LaunchFails(s) \/ SidecarDies(s)
  \/ \E s \in Sidecars, outcome \in {"up", "failed"} : RunJob(s, outcome)
  \/ \E s \in Sidecars, reached, confirmed \in BOOLEAN :
       PublishResult(s, reached, confirmed) \/ PublishError(s, reached, confirmed)
  \/ SaveScript

BrowserSpec == BrowserInit /\ [][BrowserNext]_browserVars

------------------------------------------------------------------------------
(* Properties. *)

\* The run of its own job bears a check's failure out; without a browser there is
\* none, and a success may have been announced to no one.
FailureExplained(c) ==
  \/ ran[c] = <<"failed">>
  \/ ran[c] = <<>> /\ mishap[c] = "no browser"
  \/ ran[c] = <<"up">> /\ mishap[c] = "unheard"

\* A check is up only if its own script succeeded in the only run of its job,
\* however many checks and sidecars share the list and the channel, and fails only
\* if that run failed, no browser started, or the announcement of its success got
\* lost: one that reached it is not taken back by the failure that the sidecar
\* publishes when it was not confirmed.  And no more jobs than sidecars have died
\* are neither queued, with a sidecar, run, nor known to lack a browser: a job is
\* never forgotten, even by a check that has given up or was told that the push
\* failed.
BrowserVerdictsOwn ==
  /\ \A c \in Checks :
       /\ Len(ran[c]) <= 1
       /\ verdict[c] = "up" => ran[c] = <<"up">>
       /\ verdict[c] = "failed" => FailureExplained(c)
  /\ Cardinality({c \in pushed :
       /\ ran[c] = <<>> /\ mishap[c] # "no browser"
       /\ \A i \in DOMAIN browserJobs : browserJobs[i] # c
       /\ \A s \in Sidecars : running[s] # c}) <= deaths
=============================================================================
