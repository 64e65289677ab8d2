------------------------------- MODULE Outbox -------------------------------
(***************************************************************************)
(* The notification outbox: Dispatcher.Enqueue                             *)
(* (internal/notifications/dispatcher.go) stores one row per channel, and  *)
(* the pollers (internal/notifications/outbox.go), one in every API        *)
(* process, claim rows in batches and deliver them one after the other.    *)
(*                                                                         *)
(* A notice starts where IncidentRules' Notify ends: a goroutine runs      *)
(* Enqueue for one event.  A cancelled context (shutdown) fails every      *)
(* later call of the poller, so it is the same as a crash here.  A payload *)
(* is always a marshalled Event, so decoding it does not fail.             *)
(***************************************************************************)
EXTENDS Integers, Sequences, FiniteSets, SequencesExt

CONSTANTS
  Channels,      \* channels of a type that has a provider; the others get no row
  Events,        \* incident notices
  Pollers,
  MaxAttempts,   \* maxAttempts (8)
  Batch,         \* rows claimed at a time (50)
  Outcomes,      \* what Provider.Send may meet
  FaultKinds,    \* what may go wrong: see AllFaultKinds
  MaxFaults,     \* bound on the times something does
  None

\* accepted: 2xx; rejected: another 4xx, or a channel without its settings;
\* unavailable: nothing received, 5xx or 429; unanswered: received, but the
\* answer was lost or came too late.
AllOutcomes == {"accepted", "rejected", "unavailable", "unanswered"}
AllFaultKinds == {"insert", "abandon", "read", "update", "crash"}
Undelivered == AllOutcomes \ {"accepted"}

ASSUME OutboxAssumption == {MaxAttempts, Batch} \subseteq Nat \ {0} /\ MaxFaults \in Nat
ASSUME OutcomeAssumption ==
  /\ Outcomes \subseteq AllOutcomes
  /\ FaultKinds \subseteq AllFaultKinds
  /\ None \notin AllOutcomes \union {"swallowed"}
ASSUME PollerAssumption == Pollers \intersect {"absent", "waiting", "done", "lost"} = {}

VARIABLES
  channels,  \* the notification_channels table
  listed,    \* events whose Enqueue has listed the channels
  todo,      \* channels an Enqueue has still to write a row for
  rows,      \* the notification_outbox table, in order of insertion
  due,       \* pending rows with next_attempt_at <= now, in its order
  batch,     \* the entries a poller has claimed and not finished
  pc,        \* where a poller is with the first of them
  outcome,   \* what a poller has to record about it
  faults     \* crashes and failing calls so far

vars == <<channels, listed, todo, rows, due, batch, pc, outcome, faults>>
enqueue == <<listed, todo>>
poller == <<batch, pc, outcome>>

------------------------------------------------------------------------------
(* Types. *)

\* sends and accepted are auxiliary: Send calls made for the row, and how many
\* of them the receiver accepted.  last is last_error.
Row == [event : Events, channel : Channels,
        status : {"pending", "processing", "delivered", "failed"},
        attempts : Nat, last : Undelivered \union {None}, sends : Nat, accepted : Nat]
Entry == [id : Nat, attempts : Nat]
TypeOK ==
  /\ channels \in [Channels -> {"enabled", "disabled", "gone"}]
  /\ listed \subseteq Events
  /\ todo \in [Events -> SUBSET Channels]
  /\ rows \in Seq(Row)
  /\ due \in Seq(DOMAIN rows)
  /\ batch \in [Pollers -> Seq(Entry)]
  /\ pc \in [Pollers -> {"idle", "fetch", "send", "mark"}]
  /\ outcome \in [Pollers -> AllOutcomes \union {"swallowed", None}]
  /\ faults \in Nat

------------------------------------------------------------------------------
(* Users change the channels at any time. *)

SetEnabled(c, enabled) ==
  /\ channels[c] # "gone"
  /\ channels' = [channels EXCEPT ![c] = IF enabled THEN "enabled" ELSE "disabled"]
  /\ UNCHANGED <<enqueue, rows, due, poller, faults>>

\* Deleted, or given a type without a provider (a change back is left out).
Withdraw(c) ==
  /\ channels[c] # "gone"
  /\ channels' = [channels EXCEPT ![c] = "gone"]
  /\ UNCHANGED <<enqueue, rows, due, poller, faults>>

------------------------------------------------------------------------------
(* Enqueue: list the channels, then one INSERT for each. *)

ListChannels(ev) ==
  /\ ev \notin listed
  /\ listed' = listed \union {ev}
  /\ todo' = [todo EXCEPT ![ev] = {c \in Channels : channels[c] = "enabled"}]
  /\ UNCHANGED <<channels, rows, due, poller, faults>>

\* The new row is due at once: rows come due in the order of next_attempt_at.
EnqueueNotification(ev, c) ==
  /\ c \in todo[ev]
  /\ todo' = [todo EXCEPT ![ev] = @ \ {c}]
  /\ rows' = Append(rows, [event |-> ev, channel |-> c, status |-> "pending",
                           attempts |-> 0, last |-> None, sends |-> 0, accepted |-> 0])
  /\ due' = Append(due, Len(rows) + 1)
  /\ UNCHANGED <<channels, listed, poller, faults>>

------------------------------------------------------------------------------
(* The poller. *)

\* How many rows a claim takes.
Claimable == IF Len(due) < Batch THEN Len(due) ELSE Batch

\* Mutant: the claim does not keep the other pollers from the rows.
ClaimUnlocked(p) ==
  /\ pc[p] = "idle"
  /\ due # <<>>
  /\ batch' = [batch EXCEPT ![p] =
       [i \in 1..Claimable |-> [id |-> due[i], attempts |-> rows[due[i]].attempts]]]
  /\ rows' = [r \in DOMAIN rows |->
       IF r \in {due[i] : i \in 1..Claimable}
       THEN [rows[r] EXCEPT !.status = "processing"] ELSE rows[r]]
  /\ pc' = [pc EXCEPT ![p] = "fetch"]
  /\ UNCHANGED <<channels, enqueue, due, outcome, faults>>

\* One transaction.  SKIP LOCKED keeps two pollers from seeing the same row.
ClaimPending(p) ==
  LET claimed == {due[i] : i \in 1..Claimable}
  IN  /\ pc[p] = "idle"
      /\ due # <<>>
      /\ batch' = [batch EXCEPT ![p] =
           [i \in 1..Claimable |-> [id |-> due[i], attempts |-> rows[due[i]].attempts]]]
      /\ rows' = [r \in DOMAIN rows |->
           IF r \in claimed THEN [rows[r] EXCEPT !.status = "processing"] ELSE rows[r]]
      /\ due' = SubSeq(due, Claimable + 1, Len(due))
      /\ pc' = [pc EXCEPT ![p] = "fetch"]
      /\ UNCHANGED <<channels, enqueue, outcome, faults>>

Current(p) == Head(batch[p])

Record(p, o) ==
  /\ pc' = [pc EXCEPT ![p] = "mark"]
  /\ outcome' = [outcome EXCEPT ![p] = o]

\* Mutant: a channel that was disabled meanwhile is dropped like a deleted one.
FetchEnabledChannel(p) ==
  /\ pc[p] = "fetch"
  /\ \/ /\ channels[rows[Current(p).id].channel] = "enabled"
        /\ pc' = [pc EXCEPT ![p] = "send"]
        /\ UNCHANGED outcome
     \/ /\ channels[rows[Current(p).id].channel] # "enabled"
        /\ Record(p, "swallowed")
  /\ UNCHANGED <<channels, enqueue, rows, due, batch, faults>>

\* A channel that cannot be read is taken for a deleted one (FetchError).  Nobody
\* asks whether it is still enabled.
FetchChannel(p) ==
  LET c == rows[Current(p).id].channel
  IN  /\ pc[p] = "fetch"
      /\ \/ /\ channels[c] # "gone"
            /\ pc' = [pc EXCEPT ![p] = "send"]
            /\ UNCHANGED outcome
         \/ /\ channels[c] = "gone"
            /\ Record(p, "swallowed")
      /\ UNCHANGED <<channels, enqueue, rows, due, batch, faults>>

Sent(row, o) ==
  [row EXCEPT !.sends = row.sends + 1,
              !.accepted = row.accepted + IF o = "accepted" THEN 1 ELSE 0]

Send(p, o) ==
  /\ pc[p] = "send"
  /\ Record(p, o)
  /\ rows' = [rows EXCEPT ![Current(p).id] = Sent(rows[Current(p).id], o)]
  /\ UNCHANGED <<channels, enqueue, due, batch, faults>>

\* Mutant: the rest of the batch is dropped after its first entry.
AdvanceToIdle(p) ==
  /\ pc' = [pc EXCEPT ![p] = "idle"]
  /\ batch' = [batch EXCEPT ![p] = <<>>]
  /\ outcome' = [outcome EXCEPT ![p] = None]

\* On to the next entry of the batch, or back to waiting for the ticker.
Advance(p) ==
  /\ pc' = [pc EXCEPT ![p] = IF Len(batch[p]) = 1 THEN "idle" ELSE "fetch"]
  /\ batch' = [batch EXCEPT ![p] = Tail(@)]
  /\ outcome' = [outcome EXCEPT ![p] = None]

MarkDelivered(p) ==
  /\ pc[p] = "mark"
  /\ outcome[p] \in {"accepted", "swallowed"}
  /\ rows' = [rows EXCEPT ![Current(p).id].status = "delivered"]
  /\ Advance(p)
  /\ UNCHANGED <<channels, enqueue, due, faults>>

\* Mutant: one attempt too many.
MarkRetryLate(p) ==
  LET attempts == Current(p).attempts + 1
  IN  /\ pc[p] = "mark"
      /\ outcome[p] \in Undelivered
      /\ rows' = [rows EXCEPT ![Current(p).id] =
           [@ EXCEPT !.attempts = attempts, !.last = outcome[p],
                     !.status = IF attempts > MaxAttempts THEN "failed" ELSE "pending"]]
      /\ Advance(p)
      /\ UNCHANGED <<channels, enqueue, due, faults>>

\* Whatever the provider says about the error being retryable.
MarkRetry(p) ==
  LET attempts == Current(p).attempts + 1
  IN  /\ pc[p] = "mark"
      /\ outcome[p] \in Undelivered
      /\ rows' = [rows EXCEPT ![Current(p).id] =
           [@ EXCEPT !.attempts = attempts, !.last = outcome[p],
                     !.status = IF attempts >= MaxAttempts THEN "failed" ELSE "pending"]]
      /\ Advance(p)
      /\ UNCHANGED <<channels, enqueue, due, faults>>

\* Mutant: the query leaves out delivered rows only.
UndeliveredComesDue(r) ==
  /\ r \in DOMAIN rows
  /\ rows[r].status # "delivered"
  /\ r \notin ToSet(due)
  /\ due' = Append(due, r)
  /\ UNCHANGED <<channels, enqueue, rows, poller, faults>>

\* The backoff of a row is over.  Jitter lets rows overtake each other.
ComesDue(r) ==
  /\ r \in DOMAIN rows
  /\ rows[r].status = "pending"
  /\ r \notin ToSet(due)
  /\ due' = Append(due, r)
  /\ UNCHANGED <<channels, enqueue, rows, poller, faults>>

------------------------------------------------------------------------------
(* Failures.  A failing claim changes nothing. *)

Fault(kind) ==
  /\ kind \in FaultKinds
  /\ faults < MaxFaults
  /\ faults' = faults + 1

\* An INSERT that fails is logged, and the loop goes on.
EnqueueError(ev, c) ==
  /\ Fault("insert")
  /\ c \in todo[ev]
  /\ todo' = [todo EXCEPT ![ev] = @ \ {c}]
  /\ UNCHANGED <<channels, listed, rows, due, poller>>

\* The process that enqueues dies, or its notificationTimeout is over.
Abandon(ev) ==
  /\ Fault("abandon")
  /\ todo[ev] # {}
  /\ todo' = [todo EXCEPT ![ev] = {}]
  /\ UNCHANGED <<channels, listed, rows, due, poller>>

FetchError(p) ==
  /\ Fault("read")
  /\ pc[p] = "fetch"
  /\ Record(p, "swallowed")
  /\ UNCHANGED <<channels, enqueue, rows, due, batch>>

\* The UPDATE fails: the row stays as the claim left it.
MarkError(p) ==
  /\ Fault("update")
  /\ pc[p] = "mark"
  /\ Advance(p)
  /\ UNCHANGED <<channels, enqueue, rows, due>>

\* Mutant: the rows of a process that died are handed back to the others.
CrashRequeues(p) ==
  /\ Fault("crash")
  /\ pc[p] # "idle"
  /\ rows' = [r \in DOMAIN rows |->
       IF \E i \in DOMAIN batch[p] : batch[p][i].id = r
       THEN [rows[r] EXCEPT !.status = "pending"] ELSE rows[r]]
  /\ pc' = [pc EXCEPT ![p] = "idle"]
  /\ batch' = [batch EXCEPT ![p] = <<>>]
  /\ outcome' = [outcome EXCEPT ![p] = None]
  /\ UNCHANGED <<channels, enqueue, due>>

\* The process dies, or is shut down, and starts again.
Crash(p) ==
  /\ Fault("crash")
  /\ pc[p] # "idle"
  /\ pc' = [pc EXCEPT ![p] = "idle"]
  /\ batch' = [batch EXCEPT ![p] = <<>>]
  /\ outcome' = [outcome EXCEPT ![p] = None]
  /\ UNCHANGED <<channels, enqueue, rows, due>>

------------------------------------------------------------------------------

Init ==
  /\ channels \in [Channels -> {"enabled", "disabled"}]
  /\ listed = {}
  /\ todo = [ev \in Events |-> {}]
  /\ rows = <<>>
  /\ due = <<>>
  /\ batch = [p \in Pollers |-> <<>>]
  /\ pc = [p \in Pollers |-> "idle"]
  /\ outcome = [p \in Pollers |-> None]
  /\ faults = 0

Deliver(p) ==
  \/ FetchChannel(p) \/ MarkDelivered(p) \/ MarkRetry(p)
  \/ \E o \in Outcomes : Send(p, o)

PollerFault(p) == FetchError(p) \/ MarkError(p) \/ Crash(p)

Next ==
  \/ \E c \in Channels : Withdraw(c) \/ \E enabled \in BOOLEAN : SetEnabled(c, enabled)
  \/ \E ev \in Events : ListChannels(ev) \/ Abandon(ev)
  \/ \E ev \in Events, c \in Channels : EnqueueNotification(ev, c) \/ EnqueueError(ev, c)
  \/ \E p \in Pollers : ClaimPending(p) \/ Deliver(p) \/ PollerFault(p)
  \/ \E r \in DOMAIN rows : ComesDue(r)

Spec == Init /\ [][Next]_vars

\* The most rows there can be: one for each event and channel.
Rows == 1..(Cardinality(Events) * Cardinality(Channels))

\* The ticker fires, every call ends by its timeout, the clock goes on.  Users
\* and faults are left to chance.
Fairness ==
  /\ \A p \in Pollers : WF_vars(ClaimPending(p)) /\ WF_vars(Deliver(p))
  /\ \A ev \in Events, c \in Channels : WF_vars(EnqueueNotification(ev, c))
  /\ \A r \in Rows : WF_vars(ComesDue(r))

FairSpec == Spec /\ Fairness

------------------------------------------------------------------------------
(* Properties. *)

Held(p) == {batch[p][i].id : i \in DOMAIN batch[p]}

\* A row is claimed by one poller at a time, is pending while nobody has it, and
\* is never touched again once settled (gorm_store.go:3016, SKIP LOCKED and the
\* "processing" status).  A row whose poller stopped is lost to all.
Holder(r) ==
  CASE r \notin DOMAIN rows -> "absent"
    [] r \in DOMAIN rows /\ rows[r].status = "pending" -> "waiting"
    [] r \in DOMAIN rows /\ rows[r].status \in {"delivered", "failed"} -> "done"
    [] r \in DOMAIN rows /\ rows[r].status = "processing" ->
         IF \E p \in Pollers : r \in Held(p)
         THEN CHOOSE p \in Pollers : r \in Held(p)
         ELSE "lost"

Pool == INSTANCE TaskPool WITH Tasks <- Rows, Workers <- Pollers,
                               holder <- [r \in Rows |-> Holder(r)]
PoolSpec == Pool!Spec

\* No row is in two batches, or twice in one, and every row in a batch is
\* "processing": two pollers never send the same notice at the same time.
Exclusive ==
  /\ \A p \in Pollers : \A i, j \in DOMAIN batch[p] :
       batch[p][i].id = batch[p][j].id => i = j
  /\ \A p, q \in Pollers : p # q => Held(p) \intersect Held(q) = {}
  /\ \A p \in Pollers : \A r \in Held(p) : r \in DOMAIN rows /\ rows[r].status = "processing"

\* attempts counts the Send calls, although it is written from the copy made at
\* claim time: a row is given up after MaxAttempts calls, no fewer and no more.
AttemptsAreSends ==
  \A r \in DOMAIN rows :
    /\ rows[r].sends <= MaxAttempts
    /\ rows[r].status \in {"pending", "failed"} => rows[r].sends = rows[r].attempts
    /\ rows[r].status = "failed" <=> rows[r].attempts = MaxAttempts

\* outbox.go:75 "Channel deleted between enqueue and dispatch; mark delivered":
\* apart from that, a delivered notice has reached its receiver.
DeliveredIsReceived ==
  \A r \in DOMAIN rows :
    rows[r].status = "delivered" =>
      rows[r].accepted > 0 \/ channels[rows[r].channel] = "gone"

\* Once a receiver has accepted a notice it is never sent it again, whatever
\* crashes or fails before that is recorded: only a lost answer brings a second.
AcceptedIsLast ==
  [][\A r \in DOMAIN rows : rows[r].accepted > 0 => rows'[r].sends = rows[r].sends]_vars

\* dispatcher.go:33 "callers return immediately and survive a crash before
\* delivery": a stored notice is eventually delivered or given up.
Settled(r) == r \in DOMAIN rows /\ rows[r].status \in {"delivered", "failed"}

EveryRowSettles == \A r \in Rows : r \in DOMAIN rows ~> Settled(r)
=============================================================================
