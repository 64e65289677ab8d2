------------------------------ MODULE RegionWindow -----------------------------
(***************************************************************************)
(* internal/scheduler/aggregator.go for one monitor: the latest verdict of *)
(* every region, those too old put aside, and the conclusion drawn from    *)
(* the others.  The code only logs the conclusion.                         *)
(*                                                                         *)
(* Workers publish to Redis without waiting for an answer: a result may    *)
(* be lost, and two workers of one region may publish in another order     *)
(* than they checked.                                                      *)
(***************************************************************************)
EXTENDS Naturals, FiniteSets

CONSTANTS
  AggRegions,
  ConfirmationThreshold,  \* the monitor's, as stored; 0 counts as 1
  WindowExpiry,
  MaxMinutes,             \* bound: how far the clock goes
  MaxFlying               \* bound: results on their way at once

ASSUME RegionAssumption ==
  ConfirmationThreshold \in Nat /\ WindowExpiry \in Nat /\ MaxMinutes \in Nat

VARIABLES
  minutes,
  flying,    \* results published or about to be
  window,    \* Aggregator.state of this monitor
  newest,    \* the latest checked of all results handled since the start
  overtaken  \* regions whose last handled result is not their newest

regionVars == <<minutes, flying, window, newest, overtaken>>

NoVerdict == [present |-> FALSE, success |-> FALSE, seenAt |-> 0]

Verdict(success, at) == [present |-> TRUE, success |-> success, seenAt |-> at]

Expired(v) == minutes - v.seenAt > WindowExpiry

\* maybeUpdate.
Counted(verdicts, success) ==
  Cardinality({r \in AggRegions :
    verdicts[r].present /\ ~Expired(verdicts[r]) /\ verdicts[r].success = success})

Conclusion(verdicts) ==
  LET threshold == IF ConfirmationThreshold = 0 THEN 1 ELSE ConfirmationThreshold
  IN  IF Counted(verdicts, FALSE) >= threshold THEN "down"
      ELSE IF Counted(verdicts, TRUE) >= threshold THEN "up"
      ELSE "unconfirmed"

------------------------------------------------------------------------------
\* A worker of the region has checked; it publishes at some later moment.
RegionChecks(r, success) ==
  /\ Cardinality(flying) < MaxFlying
  /\ flying' = flying \union {[region |-> r, verdict |-> Verdict(success, minutes)]}
  /\ UNCHANGED <<minutes, window, newest, overtaken>>

\* handle: whatever arrives last is kept.
Stored(verdicts, result) == [verdicts EXCEPT ![result.region] = result.verdict]

Handle(result) ==
  LET r == result.region
      older == newest[r].present /\ result.verdict.seenAt < newest[r].seenAt
  IN  /\ flying' = flying \ {result}
      /\ window' = Stored(window, result)
      /\ newest' = IF older THEN newest ELSE [newest EXCEPT ![r] = result.verdict]
      /\ overtaken' = IF older THEN overtaken \union {r} ELSE overtaken \ {r}
      /\ UNCHANGED minutes

ResultLost(result) ==
  /\ flying' = flying \ {result}
  /\ UNCHANGED <<minutes, window, newest, overtaken>>

\* Mutant: evicted as soon as the window is reached, when the verdict still counts.
KeptShorter(v) == v.present /\ minutes - v.seenAt < WindowExpiry

Kept(v) == v.present /\ ~Expired(v)

EvictStale ==
  /\ window' = [r \in AggRegions |-> IF Kept(window[r]) THEN window[r] ELSE NoVerdict]
  /\ UNCHANGED <<minutes, flying, newest, overtaken>>

AggregatorRestarts ==
  /\ window' = [r \in AggRegions |-> NoVerdict]
  /\ newest' = window'
  /\ overtaken' = {}
  /\ UNCHANGED <<minutes, flying>>

MinutePasses ==
  /\ minutes < MaxMinutes
  /\ minutes' = minutes + 1
  /\ UNCHANGED <<flying, window, newest, overtaken>>

RegionInit ==
  /\ minutes = 0 /\ flying = {} /\ overtaken = {}
  /\ window = [r \in AggRegions |-> NoVerdict]
  /\ newest = window

RegionNext ==
  \/ \E r \in AggRegions, success \in BOOLEAN : RegionChecks(r, success)
  \/ \E result \in flying : Handle(result) \/ ResultLost(result)
  \/ EvictStale \/ AggregatorRestarts \/ MinutePasses

RegionSpec == RegionInit /\ [][RegionNext]_regionVars

------------------------------------------------------------------------------
\* Forgetting old verdicts never changes a conclusion: it is the one drawn from
\* the newest result of every region ever handled, unless some region's results
\* arrived in another order than they were checked.
WindowLosesNothing == overtaken = {} => Conclusion(window) = Conclusion(newest)
=============================================================================
