--------------------------- MODULE HeartbeatMonitors ---------------------------
(***************************************************************************)
(* The dead man's switch of internal/api/heartbeats.go and                 *)
(* internal/checks/heartbeat.go for one monitor: pings by token, settings  *)
(* saved by users (which may issue a new token), the check that compares   *)
(* the last ping with the deadline, and the deletion of the monitor.       *)
(*                                                                         *)
(* RecordHeartbeatPing and setMonitorHeartbeat are two statements each,    *)
(* interleaved here.  The clock counts seconds.  Source address and user   *)
(* agent of a ping are left out.                                           *)
(***************************************************************************)
EXTENDS Integers

CONSTANTS
  Pingers,       \* requests to the ping URL, each made once
  Savers,        \* requests to the settings URL, each made once
  Deadlines,     \* expectedIntervalSeconds + graceSeconds a user may ask for
  MaxSeconds,    \* bound: how far the clock goes
  MaxTokens      \* bound: how many tokens are issued

ASSUME HeartbeatAssumption ==
  Deadlines \subseteq Nat /\ MaxSeconds \in Nat /\ MaxTokens \in Nat

Never == -1
NoToken == 0

VARIABLES
  seconds,     \* now, since the monitor was created
  monitorLive, \* whether the monitor exists
  beatRow,     \* the row of heartbeats, or one with NoToken
  recent,      \* tokens whose rate limit key is set in Redis
  ping,        \* where a ping is, and when it found its row
  save,        \* where a save is, and the row it read
  issued,      \* the token handed out last
  pinged,      \* the seconds at which pings were accepted
  forgotten,   \* those of them whose row a slower request has overwritten
  raced        \* whether a save has overwritten a row another save had written

beatVars == <<seconds, monitorLive, beatRow, recent, ping, save, issued, pinged, forgotten, raced>>

NoRow == [token |-> NoToken, deadline |-> 0, last |-> Never]
NewPing == [stage |-> "new", at |-> Never, others |-> {}]
NewSave == [stage |-> "new", row |-> NoRow, rotate |-> FALSE, stale |-> FALSE, others |-> {}]

Stages == {"new", "open", "done"}

HeartbeatRows == [token : 0..MaxTokens, deadline : Deadlines \union {0}, last : -1..MaxSeconds]

BeatTypeOK ==
  /\ seconds \in 0..MaxSeconds
  /\ monitorLive \in BOOLEAN /\ raced \in BOOLEAN
  /\ beatRow \in HeartbeatRows
  /\ recent \subseteq 1..MaxTokens
  /\ ping \in [Pingers -> [stage : Stages, at : -1..MaxSeconds, others : SUBSET (0..MaxSeconds)]]
  /\ save \in [Savers -> [stage : Stages, row : HeartbeatRows, rotate : BOOLEAN,
                          stale : BOOLEAN, others : SUBSET (0..MaxSeconds)]]
  /\ issued \in 0..MaxTokens
  /\ pinged \in SUBSET (0..MaxSeconds)
  /\ forgotten \in SUBSET (0..MaxSeconds)

------------------------------------------------------------------------------
(* A ping. *)

\* heartbeatPing up to the lookup by token.  Without an answer of Redis the
\* rate limit does not apply.
FindsRow(p, redisUp) ==
  /\ ping[p].stage = "new"
  /\ beatRow.token # NoToken
  /\ redisUp => beatRow.token \notin recent
  /\ recent' = IF redisUp THEN recent \union {beatRow.token} ELSE recent
  /\ ping' = [ping EXCEPT ![p] = [stage |-> "open", at |-> seconds, others |-> {}]]
  /\ UNCHANGED <<seconds, monitorLive, beatRow, save, issued, pinged, forgotten, raced>>

\* The update, by monitor id, with the time taken after the lookup; the answer
\* is a 200 whatever happened to the token in between.
LastPing(row, at) == [row EXCEPT !.last = at]

\* Requests that have not written yet will overwrite this ping.
Overtaken(requests, at) ==
  [r \in DOMAIN requests |-> [requests[r] EXCEPT !.others = IF requests[r].stage = "open" THEN @ \union {at} ELSE @]]

RecordHeartbeatPing(p) ==
  LET at == ping[p].at IN
  /\ ping[p].stage = "open"
  /\ beatRow' = LastPing(beatRow, at)
  /\ pinged' = pinged \union {at}
  /\ forgotten' = forgotten \union {t \in ping[p].others : t > at}
  /\ ping' = [Overtaken(ping, at) EXCEPT ![p].stage = "done", ![p].others = {}]
  /\ save' = Overtaken(save, at)
  /\ UNCHANGED <<seconds, monitorLive, recent, issued, raced>>

------------------------------------------------------------------------------
(* Saving the settings. *)

\* setMonitorHeartbeat up to GetHeartbeat: a first save or a requested rotation
\* issues a token.
ReadSettings(s, deadline, regenerate) ==
  LET rotate == regenerate \/ beatRow.token = NoToken IN
  /\ save[s].stage = "new"
  /\ monitorLive
  /\ rotate => issued < MaxTokens
  /\ save' = [save EXCEPT ![s] = [stage |-> "open", row |-> [beatRow EXCEPT !.deadline = deadline],
                                  rotate |-> rotate, stale |-> FALSE, others |-> {}]]
  /\ UNCHANGED <<seconds, monitorLive, beatRow, recent, ping, issued, pinged, forgotten, raced>>

\* Mutant: a rotation answers with a new token and saves the old one.
SavedWithOldToken(read, token) == read

\* SetHeartbeat saves every column of the row that was read.
SavedRow(read, token) == [read EXCEPT !.token = token]

SetHeartbeat(s) ==
  LET token == IF save[s].rotate THEN issued + 1 ELSE save[s].row.token IN
  /\ save[s].stage = "open"
  /\ token <= MaxTokens
  /\ beatRow' = SavedRow(save[s].row, token)
  /\ issued' = IF save[s].rotate THEN token ELSE issued
  /\ raced' = (raced \/ save[s].stale)
  /\ forgotten' = forgotten \union save[s].others
  /\ save' = [r \in Savers |-> IF r = s THEN [NewSave EXCEPT !.stage = "done"]
                          ELSE [save[r] EXCEPT !.stale = save[r].stage = "open"]]
  /\ UNCHANGED <<seconds, monitorLive, recent, ping, pinged>>

\* DeleteMonitor leaves the row of heartbeats behind.
MonitorDeleted ==
  /\ monitorLive
  /\ monitorLive' = FALSE
  /\ UNCHANGED <<seconds, beatRow, recent, ping, save, issued, pinged, forgotten, raced>>

\* The clock, and with it the expiry of the rate limit keys after a second.
SecondPasses ==
  /\ seconds < MaxSeconds
  /\ seconds' = seconds + 1
  /\ recent' = {}
  /\ UNCHANGED <<monitorLive, beatRow, ping, save, issued, pinged, forgotten, raced>>

------------------------------------------------------------------------------
\* Mutant: the deadline itself is already too late.
BeatUpBefore(row, now) ==
  /\ row.token # NoToken
  /\ IF row.last = Never THEN now < row.deadline ELSE now - row.last < row.deadline

\* HeartbeatChecker.Check: a monitor never pinged is up for one deadline after
\* its creation.
BeatUp(row, now) ==
  /\ row.token # NoToken
  /\ IF row.last = Never THEN now < row.deadline ELSE now - row.last <= row.deadline

BeatInit ==
  /\ seconds = 0 /\ monitorLive = TRUE
  /\ beatRow = NoRow /\ recent = {}
  /\ ping = [p \in Pingers |-> NewPing]
  /\ save = [s \in Savers |-> NewSave]
  /\ issued = NoToken /\ pinged = {} /\ forgotten = {} /\ raced = FALSE

BeatNext ==
  \/ \E p \in Pingers : (\E up \in BOOLEAN : FindsRow(p, up)) \/ RecordHeartbeatPing(p)
  \/ \E s \in Savers : SetHeartbeat(s)
  \/ \E s \in Savers, d \in Deadlines, again \in BOOLEAN : ReadSettings(s, d, again)
  \/ MonitorDeleted
  \/ SecondPasses

BeatSpec == BeatInit /\ [][BeatNext]_beatVars

------------------------------------------------------------------------------
(* Properties. *)

\* The check reports a monitor up only when a ping was accepted within the
\* deadline (or none is recorded and the monitor is young), and down only when
\* none was -- except pings whose row a slower request wrote over: a save of the
\* settings that had read before the ping was written, or another ping that had
\* looked its row up earlier.  Only those are forgotten.
VerdictFollowsPings ==
  beatRow.token # NoToken =>
    LET within == {t \in pinged : seconds - t <= beatRow.deadline}
    IN  /\ within \ forgotten # {} => BeatUp(beatRow, seconds)
        /\ BeatUp(beatRow, seconds) => within # {} \/ beatRow.last = Never

\* The token handed out last is the one the ping URL accepts, unless a save
\* wrote back a row it had read before another save's: a rotation is undone, or
\* of two first saves only one token works.
LastTokenWorks == ~raced => beatRow.token = issued
=============================================================================
