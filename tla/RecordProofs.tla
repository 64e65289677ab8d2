----------------------------- MODULE RecordProofs -----------------------------
(***************************************************************************)
(* Proofs about the records the control plane keeps: heartbeat settings    *)
(* (HeartbeatMonitors), credentials and what they did (Access), monitors,  *)
(* tags and windows (Catalogue), notes on incidents and dependencies       *)
(* (IncidentRecords), status pages and their mail (StatusPages), for any   *)
(* number of rows and requests.  And about what checks and receivers       *)
(* conclude (CheckOutcomes, ChannelDelivery), the views of a status page,  *)
(* and the questions a run asks of algorithms (MCControlPlane).            *)
(***************************************************************************)
EXTENDS MCControlPlane, MessageProofs, ReportProofs, FiniteSetTheorems, TLAPS

------------------------------------------------------------------------------
(* Heartbeat monitors: pings, and saves of their settings. *)

\* Pings are accepted in the past.
Clocked ==
  /\ \A t \in pinged : t <= seconds
  /\ \A p \in Pingers : ping[p].stage = "open" => ping[p].at \in 0..seconds

\* A row, or what a save has read of it, shows a ping that was accepted.
Recorded ==
  /\ beatRow.last \in pinged \union {Never}
  /\ \A s \in Savers : save[s].stage = "open" => save[s].row.last \in pinged \union {Never}

\* A later ping than the one a row shows is forgotten, and whatever a request
\* under way will write is no older than the pings it has not overtaken.
Remembered ==
  /\ \A t \in pinged \ forgotten : t <= beatRow.last
  /\ \A p \in Pingers : ping[p].stage = "open" =>
       \A t \in pinged : t \in forgotten \/ t \in ping[p].others \/ t <= ping[p].at
  /\ \A s \in Savers : save[s].stage = "open" =>
       \A t \in pinged : t \in forgotten \/ t \in save[s].others \/ t <= save[s].row.last

\* A save that is not stale has read the token that is in force.
TokensRead ==
  /\ LastTokenWorks
  /\ \A s \in Savers : save[s].stage = "open" /\ ~save[s].stale => save[s].row.token = beatRow.token

BeatInv == BeatTypeOK /\ Clocked /\ Recorded /\ Remembered /\ TokensRead

LEMMA InvInit == BeatInit => BeatInv
<1> SUFFICES ASSUME BeatInit PROVE BeatInv
  OBVIOUS
<1> USE HeartbeatAssumption DEF Never, NoToken
<1>1. NoRow \in HeartbeatRows
  BY DEF NoRow, HeartbeatRows
<1>2. ping \in [Pingers -> [stage : Stages, at : -1..MaxSeconds, others : SUBSET (0..MaxSeconds)]]
  BY DEF BeatInit, NewPing, Stages
<1>3. save \in [Savers -> [stage : Stages, row : HeartbeatRows, rotate : BOOLEAN,
                         stale : BOOLEAN, others : SUBSET (0..MaxSeconds)]]
  BY <1>1 DEF BeatInit, NewSave, Stages
<1>4. BeatTypeOK
  <2>1. beatRow \in HeartbeatRows /\ recent = {}
    BY <1>1 DEF BeatInit
  <2>a. MaxSeconds \in Nat /\ MaxTokens \in Nat
    BY HeartbeatAssumption
  <2>b. /\ seconds = 0 /\ monitorLive = TRUE /\ raced = FALSE
        /\ issued = 0 /\ pinged = {} /\ forgotten = {}
    BY DEF BeatInit
  <2>c. seconds \in 0..MaxSeconds /\ issued \in 0..MaxTokens
    BY <2>a, <2>b, SMT
  <2>d. monitorLive \in BOOLEAN /\ raced \in BOOLEAN
    BY <2>b
  <2>2. /\ seconds \in 0..MaxSeconds /\ monitorLive \in BOOLEAN /\ raced \in BOOLEAN
        /\ issued \in 0..MaxTokens /\ pinged = {} /\ forgotten = {}
    BY <2>b, <2>c, <2>d
  <2>3. pinged \in SUBSET (0..MaxSeconds) /\ forgotten \in SUBSET (0..MaxSeconds)
    BY <2>2
  <2> QED BY <1>2, <1>3, <2>1, <2>2, <2>3 DEF BeatTypeOK
<1>5. (\A p \in Pingers : ping[p].stage = "new") /\ (\A s \in Savers : save[s].stage = "new")
  BY DEF BeatInit, NewPing, NewSave
<1>6. Clocked /\ Recorded /\ Remembered /\ TokensRead
  BY <1>5 DEF BeatInit, NoRow, Clocked, Recorded, Remembered, TokensRead, LastTokenWorks
<1> QED BY <1>4, <1>6 DEF BeatInv

LEMMA InvFindsRow ==
  ASSUME BeatInv, NEW p \in Pingers, NEW up \in BOOLEAN, FindsRow(p, up)
  PROVE  BeatInv'
<1> USE DEF FindsRow
<1>t. BeatTypeOK /\ MaxSeconds \in Nat /\ MaxTokens \in Nat
  BY HeartbeatAssumption DEF BeatInv
<1>1. /\ ping' = [ping EXCEPT ![p] = [stage |-> "open", at |-> seconds, others |-> {}]]
      /\ UNCHANGED <<seconds, monitorLive, beatRow, save, issued, pinged, forgotten, raced>>
  OBVIOUS
<1>2. \A q \in Pingers : ping'[q].stage = "open" =>
        IF q = p THEN ping'[q].at = seconds ELSE ping'[q] = ping[q] /\ ping[q].stage = "open"
  BY <1>1, <1>t DEF BeatTypeOK
<1>3. BeatTypeOK'
  <2>1. beatRow.token \in 1..MaxTokens
    BY <1>t DEF BeatTypeOK, HeartbeatRows, NoToken
  <2>2. recent' \subseteq 1..MaxTokens
    BY <2>1, <1>t DEF BeatTypeOK
  <2>3. ping' \in [Pingers -> [stage : Stages, at : -1..MaxSeconds, others : SUBSET (0..MaxSeconds)]]
    BY <1>1, <1>t DEF BeatTypeOK, Stages
  <2> QED BY <1>1, <1>t, <2>2, <2>3 DEF BeatTypeOK
<1>4. Clocked'
  BY <1>1, <1>2, <1>t DEF BeatInv, Clocked, BeatTypeOK
<1>5. Recorded' /\ TokensRead'
  BY <1>1 DEF BeatInv, Recorded, TokensRead, LastTokenWorks
<1>6. Remembered'
  BY <1>1, <1>2, <1>t DEF BeatInv, Remembered, Clocked, BeatTypeOK
<1> QED BY <1>3, <1>4, <1>5, <1>6 DEF BeatInv

LEMMA InvPing ==
  ASSUME BeatInv, NEW p \in Pingers, RecordHeartbeatPing(p)
  PROVE  BeatInv'
<1> DEFINE at == ping[p].at
<1>t. BeatTypeOK /\ MaxSeconds \in Nat /\ MaxTokens \in Nat
  BY HeartbeatAssumption DEF BeatInv
<1>a. at \in 0..seconds /\ at \in 0..MaxSeconds
  BY <1>t DEF BeatInv, Clocked, RecordHeartbeatPing, BeatTypeOK
<1>1. /\ ping[p].stage = "open"
      /\ beatRow' = [beatRow EXCEPT !.last = at]
      /\ pinged' = pinged \union {at}
      /\ forgotten' = forgotten \union {t \in ping[p].others : t > at}
      /\ UNCHANGED <<seconds, monitorLive, recent, issued, raced>>
  BY DEF RecordHeartbeatPing, LastPing
<1>2. /\ ping' = [q \in Pingers |-> IF q = p THEN [ping[p] EXCEPT !.stage = "done", !.others = {}]
                                   ELSE IF ping[q].stage = "open" THEN [ping[q] EXCEPT !.others = @ \union {at}]
                                   ELSE ping[q]]
  BY <1>t DEF RecordHeartbeatPing, Overtaken, BeatTypeOK
<1>3. save' = [s \in Savers |-> IF save[s].stage = "open" THEN [save[s] EXCEPT !.others = @ \union {at}] ELSE save[s]]
  BY <1>t DEF RecordHeartbeatPing, Overtaken, BeatTypeOK
<1> HIDE DEF at
<1>4. BeatTypeOK'
  <2>1. beatRow' \in HeartbeatRows
    BY <1>1, <1>a, <1>t DEF BeatTypeOK, HeartbeatRows
  <2>2. ping' \in [Pingers -> [stage : Stages, at : -1..MaxSeconds, others : SUBSET (0..MaxSeconds)]]
    <3>1. \A q \in Pingers :
            /\ [ping[q] EXCEPT !.stage = "done", !.others = {}]
                 \in [stage : Stages, at : -1..MaxSeconds, others : SUBSET (0..MaxSeconds)]
            /\ [ping[q] EXCEPT !.others = @ \union {at}]
                 \in [stage : Stages, at : -1..MaxSeconds, others : SUBSET (0..MaxSeconds)]
      BY <1>a, <1>t DEF BeatTypeOK, Stages
    <3> QED BY <1>2, <3>1, <1>t DEF BeatTypeOK
  <2>3. save' \in [Savers -> [stage : Stages, row : HeartbeatRows, rotate : BOOLEAN,
                            stale : BOOLEAN, others : SUBSET (0..MaxSeconds)]]
    BY <1>3, <1>a, <1>t DEF BeatTypeOK
  <2>4. pinged' \in SUBSET (0..MaxSeconds) /\ forgotten' \in SUBSET (0..MaxSeconds)
    BY <1>1, <1>a, <1>t DEF BeatTypeOK
  <2> QED BY <1>1, <1>t, <2>1, <2>2, <2>3, <2>4 DEF BeatTypeOK
<1>5. \A q \in Pingers : ping'[q].stage = "open" =>
        q # p /\ ping[q].stage = "open" /\ ping'[q].at = ping[q].at /\ ping'[q].others = ping[q].others \union {at}
  BY <1>2, <1>t DEF BeatTypeOK
<1>6. \A s \in Savers : save'[s].stage = "open" =>
        save[s].stage = "open" /\ save'[s].row = save[s].row /\ save'[s].stale = save[s].stale
          /\ save'[s].others = save[s].others \union {at}
  BY <1>3, <1>t DEF BeatTypeOK
<1>7. beatRow'.last = at /\ beatRow'.token = beatRow.token
  BY <1>1, <1>t DEF BeatTypeOK, HeartbeatRows
<1>8. Clocked'
  BY <1>1, <1>5, <1>a DEF BeatInv, Clocked
<1>9. Recorded'
  BY <1>1, <1>6, <1>7 DEF BeatInv, Recorded
<1>10. Remembered'
  <2>1. \A t \in pinged' \ forgotten' : t <= beatRow'.last
    <3> SUFFICES ASSUME NEW t \in pinged', t \notin forgotten' PROVE t <= at
      BY <1>7
    <3>1. CASE t = at
      BY <3>1, <1>a
    <3>2. CASE t \in pinged
      <4>1. t \in Int /\ at \in Int
        BY <3>2, <1>a, <1>t DEF BeatTypeOK
      <4>2. t \in ping[p].others \/ t <= at
        BY <3>2, <1>1 DEF BeatInv, Remembered, at
      <4> QED BY <4>1, <4>2, <1>1
    <3> QED BY <3>1, <3>2, <1>1
  <2>2. \A q \in Pingers : ping'[q].stage = "open" =>
          \A t \in pinged' : t \in forgotten' \/ t \in ping'[q].others \/ t <= ping'[q].at
    BY <1>1, <1>5 DEF BeatInv, Remembered
  <2>3. \A s \in Savers : save'[s].stage = "open" =>
          \A t \in pinged' : t \in forgotten' \/ t \in save'[s].others \/ t <= save'[s].row.last
    BY <1>1, <1>6 DEF BeatInv, Remembered
  <2> QED BY <2>1, <2>2, <2>3 DEF Remembered
<1>11. TokensRead'
  BY <1>1, <1>6, <1>7 DEF BeatInv, TokensRead, LastTokenWorks
<1> QED BY <1>4, <1>8, <1>9, <1>10, <1>11 DEF BeatInv

LEMMA InvReadSettings ==
  ASSUME BeatInv, NEW s \in Savers, NEW d \in Deadlines, NEW again \in BOOLEAN, ReadSettings(s, d, again)
  PROVE  BeatInv'
<1> DEFINE rotate == again \/ beatRow.token = NoToken
<1>t. BeatTypeOK /\ Deadlines \subseteq Nat
  BY HeartbeatAssumption DEF BeatInv
<1>1. /\ save' = [save EXCEPT ![s] = [stage |-> "open", row |-> [beatRow EXCEPT !.deadline = d],
                                    rotate |-> rotate, stale |-> FALSE, others |-> {}]]
      /\ UNCHANGED <<seconds, monitorLive, beatRow, recent, ping, issued, pinged, forgotten, raced>>
  BY DEF ReadSettings
<1>2. rotate \in BOOLEAN
  OBVIOUS
<1> HIDE DEF rotate
<1>3. BeatTypeOK'
  <2>1. [beatRow EXCEPT !.deadline = d] \in HeartbeatRows
    BY <1>t DEF BeatTypeOK, HeartbeatRows
  <2>2. save' \in [Savers -> [stage : Stages, row : HeartbeatRows, rotate : BOOLEAN,
                            stale : BOOLEAN, others : SUBSET (0..MaxSeconds)]]
    BY <1>1, <1>2, <2>1, <1>t DEF BeatTypeOK, Stages
  <2> QED BY <1>1, <1>t, <2>2 DEF BeatTypeOK
<1>4. \A r \in Savers : save'[r].stage = "open" =>
        \/ save[r].stage = "open" /\ save'[r] = save[r]
        \/ save'[r].row.last = beatRow.last /\ save'[r].row.token = beatRow.token
  BY <1>1, <1>t DEF BeatTypeOK, HeartbeatRows
<1>5. Clocked' /\ Recorded' /\ TokensRead'
  BY <1>1, <1>4 DEF BeatInv, Clocked, Recorded, TokensRead, LastTokenWorks
<1>6. Remembered'
  BY <1>1, <1>4 DEF BeatInv, Remembered
<1> QED BY <1>3, <1>5, <1>6 DEF BeatInv

LEMMA InvSetHeartbeat ==
  ASSUME BeatInv, NEW s \in Savers, SetHeartbeat(s)
  PROVE  BeatInv'
<1> DEFINE token == IF save[s].rotate THEN issued + 1 ELSE save[s].row.token
<1>t. BeatTypeOK /\ MaxTokens \in Nat
  BY HeartbeatAssumption DEF BeatInv
<1>1. /\ save[s].stage = "open" /\ token <= MaxTokens
      /\ beatRow' = [save[s].row EXCEPT !.token = token]
      /\ issued' = IF save[s].rotate THEN token ELSE issued
      /\ raced' = (raced \/ save[s].stale)
      /\ forgotten' = forgotten \union save[s].others
      /\ save' = [r \in Savers |-> IF r = s THEN [NewSave EXCEPT !.stage = "done"]
                                  ELSE [save[r] EXCEPT !.stale = save[r].stage = "open"]]
      /\ UNCHANGED <<seconds, monitorLive, recent, ping, pinged>>
  BY DEF SetHeartbeat, SavedRow
<1>2. token \in 0..MaxTokens
  BY <1>1, <1>t DEF BeatTypeOK, HeartbeatRows
<1>3. beatRow'.last = save[s].row.last /\ beatRow'.token = token /\ beatRow' \in HeartbeatRows
  BY <1>1, <1>2, <1>t DEF BeatTypeOK, HeartbeatRows
<1>4. ~raced' => beatRow'.token = issued'
  BY <1>1, <1>3 DEF BeatInv, TokensRead, LastTokenWorks
<1>5. issued' \in 0..MaxTokens
  BY <1>1, <1>2, <1>t DEF BeatTypeOK
<1> HIDE DEF token
<1>6. \A r \in Savers : save'[r].stage = "open" =>
        save[r].stage = "open" /\ save'[r].row = save[r].row /\ save'[r].others = save[r].others /\ save'[r].stale
  BY <1>1, <1>t DEF BeatTypeOK, NewSave
<1>7. BeatTypeOK'
  <2>1. NewSave \in [stage : Stages, row : HeartbeatRows, rotate : BOOLEAN, stale : BOOLEAN, others : SUBSET (0..MaxSeconds)]
    BY HeartbeatAssumption DEF NewSave, NoRow, Stages, HeartbeatRows, NoToken, Never
  <2>2. save' \in [Savers -> [stage : Stages, row : HeartbeatRows, rotate : BOOLEAN,
                            stale : BOOLEAN, others : SUBSET (0..MaxSeconds)]]
    BY <1>1, <2>1, <1>t DEF BeatTypeOK, Stages
  <2>3. raced' \in BOOLEAN /\ forgotten' \in SUBSET (0..MaxSeconds)
    BY <1>1, <1>t DEF BeatTypeOK
  <2> QED BY <1>1, <1>3, <1>5, <1>t, <2>2, <2>3 DEF BeatTypeOK
<1>8. Clocked' /\ Recorded'
  BY <1>1, <1>3, <1>6 DEF BeatInv, Clocked, Recorded
<1>9. Remembered'
  BY <1>1, <1>3, <1>6 DEF BeatInv, Remembered
<1>10. TokensRead'
  BY <1>4, <1>6 DEF TokensRead, LastTokenWorks
<1> QED BY <1>7, <1>8, <1>9, <1>10 DEF BeatInv

\* Time and the deletion of the monitor touch no row.
LEMMA InvAside ==
  ASSUME BeatInv, MonitorDeleted \/ SecondPasses \/ UNCHANGED beatVars
  PROVE  BeatInv'
<1>1. BeatTypeOK /\ UNCHANGED <<beatRow, ping, save, issued, pinged, forgotten, raced>>
  BY DEF BeatInv, MonitorDeleted, SecondPasses, beatVars
<1>2. seconds' >= seconds /\ seconds \in Int /\ seconds' \in Int
  BY <1>1, HeartbeatAssumption DEF BeatTypeOK, MonitorDeleted, SecondPasses, beatVars
<1>a. BeatTypeOK'
  <2>t. /\ seconds \in 0..MaxSeconds /\ MaxSeconds \in Nat
        /\ monitorLive \in BOOLEAN /\ recent \subseteq 1..MaxTokens
    BY <1>1, HeartbeatAssumption DEF BeatTypeOK
  <2>1. seconds' \in 0..MaxSeconds /\ monitorLive' \in BOOLEAN /\ recent' \subseteq 1..MaxTokens
    <3>1. CASE MonitorDeleted
      BY <2>t, <3>1 DEF MonitorDeleted
    <3>2. CASE SecondPasses
      BY <2>t, <3>2 DEF SecondPasses
    <3>3. CASE UNCHANGED beatVars
      BY <2>t, <3>3 DEF beatVars
    <3> QED BY <3>1, <3>2, <3>3
  <2>2. /\ raced' \in BOOLEAN /\ beatRow' \in HeartbeatRows /\ issued' \in 0..MaxTokens
        /\ pinged' \in SUBSET (0..MaxSeconds) /\ forgotten' \in SUBSET (0..MaxSeconds)
    BY <1>1 DEF BeatTypeOK
  <2>3. ping' \in [Pingers -> [stage : Stages, at : -1..MaxSeconds, others : SUBSET (0..MaxSeconds)]]
    BY <1>1 DEF BeatTypeOK
  <2>4. save' \in [Savers -> [stage : Stages, row : HeartbeatRows, rotate : BOOLEAN,
                            stale : BOOLEAN, others : SUBSET (0..MaxSeconds)]]
    BY <1>1 DEF BeatTypeOK
  <2> QED BY <2>1, <2>2, <2>3, <2>4 DEF BeatTypeOK
<1>3. Clocked'
  <2>1. \A t \in pinged : t \in Int /\ t <= seconds
    BY <1>1 DEF BeatInv, Clocked, BeatTypeOK
  <2>2. \A p \in Pingers : ping[p].stage = "open" => ping[p].at \in 0..seconds'
    BY <1>2 DEF BeatInv, Clocked
  <2> QED BY <1>1, <1>2, <2>1, <2>2 DEF Clocked
<1>4. Recorded' /\ Remembered' /\ TokensRead'
  BY <1>1 DEF BeatInv, Recorded, Remembered, TokensRead, LastTokenWorks
<1> QED BY <1>a, <1>3, <1>4 DEF BeatInv

LEMMA InvNext == BeatInv /\ [BeatNext]_beatVars => BeatInv'
<1> SUFFICES ASSUME BeatInv, [BeatNext]_beatVars PROVE BeatInv'
  OBVIOUS
<1> QED
  BY InvFindsRow, InvPing, InvReadSettings, InvSetHeartbeat, InvAside DEF BeatNext

\* The verdict depends on the row alone, and the invariant ties the row to the pings.
LEMMA InvVerdict == BeatInv => VerdictFollowsPings
<1> SUFFICES ASSUME BeatInv, beatRow.token # NoToken
             PROVE  LET within == {t \in pinged : seconds - t <= beatRow.deadline}
                    IN  /\ within \ forgotten # {} => BeatUp(beatRow, seconds)
                        /\ BeatUp(beatRow, seconds) => within # {} \/ beatRow.last = Never
  BY DEF VerdictFollowsPings
<1> DEFINE within == {t \in pinged : seconds - t <= beatRow.deadline}
<1>t. /\ seconds \in Nat /\ beatRow.deadline \in Nat /\ beatRow.last \in Int
      /\ \A t \in pinged : t \in Nat
  <2>1. seconds \in 0..MaxSeconds /\ beatRow \in HeartbeatRows /\ pinged \in SUBSET (0..MaxSeconds)
    BY DEF BeatInv, BeatTypeOK
  <2>a. beatRow.deadline \in Deadlines \union {0} /\ beatRow.last \in -1..MaxSeconds
    BY <2>1 DEF HeartbeatRows
  <2>b. Deadlines \subseteq Nat /\ MaxSeconds \in Nat
    BY HeartbeatAssumption
  <2>c. beatRow.deadline \in Deadlines \/ beatRow.deadline = 0
    BY <2>a
  <2>d. 0 \in Nat
    OBVIOUS
  <2>2. beatRow.deadline \in Nat
    BY <2>b, <2>c, <2>d, Zenon
  <2>3. beatRow.last \in Int
    BY <2>a, <2>b
  <2>4. seconds \in Nat /\ \A t \in pinged : t \in Nat
    BY <2>1, <2>b
  <2> QED BY <2>2, <2>3, <2>4
<1>1. ASSUME NEW t \in within, t \notin forgotten
      PROVE  BeatUp(beatRow, seconds)
  <2>1. t \in Nat /\ t <= beatRow.last /\ seconds - t <= beatRow.deadline
    BY <1>1, <1>t DEF BeatInv, Remembered
  <2> QED BY <2>1, <1>t DEF BeatUp, Never
<1>2. ASSUME BeatUp(beatRow, seconds), beatRow.last # Never
      PROVE  within # {}
  <2>1. beatRow.last \in pinged
    BY <1>2 DEF BeatInv, Recorded
  <2> QED BY <1>2, <2>1 DEF BeatUp
<1> QED BY <1>1, <1>2

\* The monitor is shown as up when a ping that nobody wrote over was accepted
\* within the deadline, and only then or while none is recorded, however many
\* pings and saves of the settings overlap (heartbeats.go, heartbeat.go).
THEOREM VerdictsFollow == BeatSpec => []VerdictFollowsPings
BY InvInit, InvNext, InvVerdict, PTL DEF BeatSpec

\* The token handed out last works until a save writes back a row that another
\* save has changed since it was read (setMonitorHeartbeat).
THEOREM LastTokenHolds == BeatSpec => []LastTokenWorks
<1>1. BeatInv => LastTokenWorks
  BY DEF BeatInv, TokensRead
<1> QED BY <1>1, InvInit, InvNext, PTL DEF BeatSpec

------------------------------------------------------------------------------
(* Access.  A revocation is for ever, so a request that passes the lookup of *)
(* its credential was entitled when it arrived; organisations of credentials *)
(* and monitors are written once, so what a request has read of them stays   *)
(* true until it writes.                                                     *)

Credentials == Keys \union Agents
AnyOrg == AccOrgs \union {NoOwner}

RequestRows ==
  [stage : {"new", "arrived", "authenticated"}, by : Credentials \union {User, Bootstrap, NoTarget},
   org : AnyOrg, role : {"owner", "admin", "member", "viewer"},
   op : {"none", "create", "revoke", "poll", "submit"},
   target : Credentials \union AccMonitors \union {NoTarget}, alive : BOOLEAN]

Assignments ==
  [org : AccOrgs, agent : Agents \union {NoTarget}, regions : SUBSET AccRegions, enabled : BOOLEAN, live : BOOLEAN]

AccessTypeOK ==
  /\ credential \in [Credentials -> [org : AnyOrg, revokedBy : AnyOrg]]
  /\ request \in [Requests -> RequestRows]
  /\ assignment \in [AccMonitors -> Assignments]
  /\ recorded \subseteq [agent : Agents, monitor : AccMonitors, org : AccOrgs]
  /\ jobs \subseteq Agents \X AccMonitors

\* A request that has arrived knows whether its credential was valid; one that
\* was not is not found any more.
ArrivalKnown(q) ==
  IF q.by \in Credentials
    THEN credential[q.by].org # NoOwner /\ (q.alive \/ credential[q.by].revokedBy # NoOwner)
    ELSE q.alive /\ q.by # NoTarget

\* What an authenticated request has read still holds.
StillEntitled(q) ==
  /\ q.alive
  /\ q.by \in Agents => q.org = credential[q.by].org /\ q.org # NoOwner

RequestsEntitled ==
  \A r \in Requests :
    /\ request[r].stage = "arrived" => ArrivalKnown(request[r])
    /\ request[r].stage = "authenticated" => StillEntitled(request[r])
    /\ request[r].op \in Work => request[r].by \in Agents
    /\ request[r].op = "submit" => request[r].target \in AccMonitors

RecordedStays == \A x \in recorded : x.org # NoOwner

AccessInv == AccessTypeOK /\ RequestsEntitled /\ RecordedStays /\ EffectsAreEntitled

\* What any step does to the credentials: organisations and revocations stay.
CredentialsStay ==
  \A c \in Credentials :
    /\ credential[c].org # NoOwner => credential'[c].org = credential[c].org
    /\ credential[c].revokedBy # NoOwner => credential'[c].revokedBy # NoOwner

LEMMA AccessInvInit == AccessInit => AccessInv
<1> SUFFICES ASSUME AccessInit PROVE AccessInv
  OBVIOUS
<1>1. AccessTypeOK
  BY DEF AccessInit, AccessTypeOK, Credentials, AnyOrg, RequestRows, NewRequest, Assignments
<1>2. RequestsEntitled
  BY DEF AccessInit, RequestsEntitled, NewRequest, Work
<1>3. EffectsAreEntitled /\ RecordedStays
  BY DEF AccessInit, EffectsAreEntitled, RecordedStays
<1> QED BY <1>1, <1>2, <1>3 DEF AccessInv

\* Steps after which the request of r alone may differ.
LEMMA RequestStep ==
  ASSUME AccessInv, AccessTypeOK', NEW r \in Requests, NEW q,
         request' = [request EXCEPT ![r] = q], CredentialsStay,
         q.stage = "arrived" => ArrivalKnown(q)',
         q.stage = "authenticated" => StillEntitled(q)',
         q.op \in Work => q.by \in Agents,
         q.op = "submit" => q.target \in AccMonitors
  PROVE  RequestsEntitled'
<1> SUFFICES ASSUME NEW t \in Requests
             PROVE  /\ request'[t].stage = "arrived" => ArrivalKnown(request[t])'
                    /\ request'[t].stage = "authenticated" => StillEntitled(request[t])'
                    /\ request'[t].op \in Work => request'[t].by \in Agents
                    /\ request'[t].op = "submit" => request'[t].target \in AccMonitors
  BY DEF RequestsEntitled
<1>1. CASE t = r
  <2>1. request'[t] = q
    BY <1>1 DEF AccessInv, AccessTypeOK
  <2> QED BY <2>1 DEF ArrivalKnown, StillEntitled
<1>2. CASE t # r
  <2>1. request'[t] = request[t]
    BY <1>2 DEF AccessInv, AccessTypeOK
  <2>2. /\ request[t].stage = "arrived" => ArrivalKnown(request[t])
        /\ request[t].stage = "authenticated" => StillEntitled(request[t])
        /\ request[t].op \in Work => request[t].by \in Agents
        /\ request[t].op = "submit" => request[t].target \in AccMonitors
    BY DEF AccessInv, RequestsEntitled
  <2>3. request[t].stage = "arrived" => ArrivalKnown(request[t])'
    BY <2>1, <2>2 DEF ArrivalKnown, CredentialsStay
  <2>4. request[t].stage = "authenticated" => StillEntitled(request[t])'
    BY <2>1, <2>2 DEF StillEntitled, CredentialsStay, Credentials
  <2> QED BY <2>1, <2>2, <2>3, <2>4
<1> QED BY <1>1, <1>2

\* Steps that record nothing, leave assignments' organisations alone and hand
\* agents jobs of their own organisation only.
LEMMA NothingRecorded ==
  ASSUME AccessInv, AccessTypeOK', RequestsEntitled', CredentialsStay,
         ~overdue', recorded' = recorded,
         \A j \in jobs' : j \in jobs \/ assignment[j[2]].org = credential[j[1]].org,
         \A m \in AccMonitors : assignment'[m].org = assignment[m].org,
         \A c \in Credentials : credential'[c].revokedBy \in {NoOwner, credential'[c].org}
  PROVE  AccessInv'
<1>1. \A x \in recorded : x.agent \in Credentials /\ x.monitor \in AccMonitors
  BY DEF AccessInv, AccessTypeOK, Credentials
<1>2. \A x \in recorded : x.org = credential'[x.agent].org /\ assignment'[x.monitor].org = x.org
  BY <1>1 DEF AccessInv, EffectsAreEntitled, RecordedStays, CredentialsStay
<1>3. RecordedStays'
  BY DEF AccessInv, RecordedStays
<1>4. \A j \in jobs' : assignment'[j[2]].org = credential'[j[1]].org
  <2> SUFFICES ASSUME NEW j \in jobs' PROVE assignment'[j[2]].org = credential'[j[1]].org
    OBVIOUS
  <2>1. j[1] \in Credentials /\ j[2] \in AccMonitors
    BY DEF AccessTypeOK, Credentials
  <2>2. assignment[j[2]].org = credential[j[1]].org
    BY DEF AccessInv, EffectsAreEntitled
  <2>3. assignment[j[2]].org \in AccOrgs
    BY <2>1 DEF AccessInv, AccessTypeOK, Assignments
  <2>4. credential'[j[1]].org = credential[j[1]].org
    BY <2>1, <2>2, <2>3, AccessAssumption DEF CredentialsStay
  <2> QED BY <2>1, <2>2, <2>4
<1> QED BY <1>2, <1>3, <1>4 DEF AccessInv, EffectsAreEntitled, Credentials

LEMMA NewRequestIsIdle ==
  NewRequest.stage = "new" /\ NewRequest.op = "none"
BY DEF NewRequest

LEMMA AccessArrive ==
  ASSUME AccessInv, NEW r \in Requests, NEW by \in Credentials \union {User, Bootstrap},
         NEW org \in AnyOrg, NEW role \in {"owner", "admin", "member", "viewer"},
         NEW op \in {"create", "revoke", "poll", "submit"},
         NEW target \in Credentials \union AccMonitors \union {NoTarget},
         op = "submit" => target \in AccMonitors,
         Arrive(r, by, org, role, op, target)
  PROVE  AccessInv'
<1> PICK q : q = [stage |-> "arrived", by |-> by, org |-> org, role |-> role, op |-> op,
                  target |-> target, alive |-> by \in Keys \union Agents => Live(by)]
  OBVIOUS
<1>1. /\ request' = [request EXCEPT ![r] = q]
      /\ UNCHANGED <<credential, overdue, assignment, jobs, recorded>>
      /\ by \in Credentials => credential[by].org # NoOwner
      /\ op \in Work => by \in Agents
  BY DEF Arrive, Credentials, Work
<1>2. /\ q.stage = "arrived" /\ q.by = by /\ q.op = op /\ q.target = target
      /\ q.alive <=> (by \in Credentials => Live(by))
      /\ q \in RequestRows
  BY DEF Credentials, RequestRows
<1>3. ArrivalKnown(q)'
  <2>1. by # NoTarget
    BY <1>2, AccessAssumption DEF Credentials, User, Bootstrap, NoTarget
  <2> QED BY <1>1, <1>2, <2>1 DEF ArrivalKnown, Live
<1>4. CredentialsStay /\ AccessTypeOK'
  BY <1>1, <1>2 DEF CredentialsStay, AccessInv, AccessTypeOK
<1>5. RequestsEntitled'
  <2>1. /\ q.stage # "authenticated"
        /\ q.op \in Work => q.by \in Agents
        /\ q.op = "submit" => q.target \in AccMonitors
    BY <1>1, <1>2
  <2> QED BY <1>1, <1>3, <1>4, <2>1, RequestStep
<1> QED BY <1>1, <1>4, <1>5, NothingRecorded DEF AccessInv, EffectsAreEntitled, Credentials

\* A request that is answered leaves an idle slot.
LEMMA AccessAnswered ==
  ASSUME AccessInv, NEW r \in Requests, Answered(r)
  PROVE  /\ request' \in [Requests -> RequestRows]
         /\ AccessTypeOK' /\ CredentialsStay => RequestsEntitled'
<1> PICK q : q = NewRequest
  OBVIOUS
<1>1. q \in RequestRows /\ q.stage = "new" /\ q.op = "none"
  BY DEF NewRequest, RequestRows, AnyOrg
<1>2. /\ request' = [request EXCEPT ![r] = q]
      /\ request' \in [Requests -> RequestRows]
  BY <1>1 DEF Answered, AccessInv, AccessTypeOK
<1>3. ASSUME AccessTypeOK', CredentialsStay PROVE RequestsEntitled'
  <2>1. q.stage # "arrived" /\ q.stage # "authenticated" /\ q.op \notin Work /\ q.op # "submit"
    BY <1>1 DEF Work
  <2> QED BY <1>2, <1>3, <2>1, RequestStep
<1> QED BY <1>2, <1>3

LEMMA AccessAuthenticate ==
  ASSUME AccessInv, NEW r \in Requests, Authenticate(r) \/ LookupFails(r)
  PROVE  AccessInv'
<1>1. UNCHANGED <<credential, overdue, assignment, jobs, recorded>>
  BY DEF Authenticate, LookupFails
<1>2. /\ request[r].stage = "arrived" /\ ArrivalKnown(request[r])
      /\ request[r].op \in Work => request[r].by \in Agents
      /\ request[r].op = "submit" => request[r].target \in AccMonitors
      /\ request[r] \in RequestRows
  BY DEF Authenticate, LookupFails, AccessInv, AccessTypeOK, RequestsEntitled
<1>3. CredentialsStay
  BY <1>1 DEF CredentialsStay
<1>4. AccessTypeOK' /\ RequestsEntitled'
  <2>1. CASE Answered(r)
    <3>1. AccessTypeOK'
      BY <1>1, <2>1, AccessAnswered DEF AccessInv, AccessTypeOK
    <3> QED BY <1>3, <2>1, <3>1, AccessAnswered
  <2>2. CASE ~Answered(r)
    <3> DEFINE org == CASE request[r].by = Bootstrap -> BootstrapOrg
                        [] request[r].by = User -> request[r].org
                        [] OTHER -> credential[request[r].by].org
               by == IF request[r].by \in Agents THEN request[r].by ELSE User
    <3> PICK q : q = [request[r] EXCEPT !.stage = "authenticated", !.org = org, !.role = "viewer", !.by = by]
      OBVIOUS
    <3>1. request' = [request EXCEPT ![r] = q] /\ (request[r].by \in Credentials => Live(request[r].by))
      BY <2>2 DEF Authenticate, LookupFails, Found, Credentials
    <3>2. org \in AnyOrg /\ by \in Credentials \union {User}
      <4>1. request[r].by \in Credentials \union {User, Bootstrap}
        BY <1>2 DEF ArrivalKnown, RequestRows
      <4>2. request[r].by \in Credentials => credential[request[r].by].org \in AnyOrg
        BY DEF AccessInv, AccessTypeOK
      <4>3. request[r].org \in AnyOrg /\ BootstrapOrg \in AnyOrg
        BY <1>2, AccessAssumption DEF RequestRows, AnyOrg
      <4> QED BY <4>1, <4>2, <4>3 DEF Credentials
    <3>3. by \in Agents => by = request[r].by /\ org = credential[by].org
      BY AccessAssumption DEF Credentials
    <3> HIDE DEF org, by
    <3>4. /\ q \in RequestRows
          /\ q.stage = "authenticated" /\ q.org = org /\ q.by = by
          /\ q.op = request[r].op /\ q.target = request[r].target /\ q.alive = request[r].alive
      BY <1>2, <3>2 DEF RequestRows
    <3>5. AccessTypeOK'
      BY <1>1, <3>1, <3>4 DEF AccessInv, AccessTypeOK
    <3>6. request[r].alive
      BY <1>2, <3>1 DEF ArrivalKnown, Live
    <3>7. StillEntitled(q)'
      <4>1. q.by \in Agents => q.org = credential[q.by].org /\ Live(q.by)
        BY <3>1, <3>3, <3>4 DEF Credentials
      <4> QED BY <1>1, <3>4, <3>6, <4>1 DEF StillEntitled, Live
    <3>8. q.op \in Work => q.by \in Agents
      BY <1>2, <3>4 DEF by
    <3>9. q.op = "submit" => q.target \in AccMonitors
      BY <1>2, <3>4
    <3> QED BY <1>3, <3>1, <3>4, <3>5, <3>7, <3>8, <3>9, RequestStep
  <2> QED BY <2>1, <2>2
<1> QED BY <1>1, <1>3, <1>4, NothingRecorded DEF AccessInv, EffectsAreEntitled, Credentials

\* Whoever performs an operation was entitled to when the request arrived.
LEMMA AccessPerforms ==
  ASSUME AccessInv, NEW r \in Requests, NEW op, Performs(r, op)
  PROVE  /\ request[r] \in RequestRows /\ StillEntitled(request[r])
         /\ Done(r) \/ Refused(r) => Answered(r) /\ ~overdue'
         /\ op \in Work => request[r].by \in Agents
<1>1. request[r] \in RequestRows /\ StillEntitled(request[r])
  BY DEF Performs, AccessInv, AccessTypeOK, RequestsEntitled
<1>2. ~overdue
  BY DEF AccessInv, EffectsAreEntitled
<1>3. op \in Work => request[r].by \in Agents
  BY DEF Performs, AccessInv, RequestsEntitled
<1>4. Refused(r) => Answered(r) /\ ~overdue'
  BY <1>2 DEF Refused
<1>5. Done(r) => Answered(r) /\ ~overdue'
  BY <1>1, <1>2 DEF Done, StillEntitled
<1> QED BY <1>1, <1>3, <1>4, <1>5

LEMMA AccessCreate ==
  ASSUME AccessInv, NEW r \in Requests, CreateCredential(r)
  PROVE  AccessInv'
<1>1. /\ request[r] \in RequestRows /\ Answered(r) /\ ~overdue'
      /\ UNCHANGED <<assignment, jobs, recorded>>
  BY AccessPerforms DEF CreateCredential
<1>2. PICK c \in Credentials : /\ credential[c].org = NoOwner
                               /\ credential' = [credential EXCEPT ![c].org = request[r].org]
  BY DEF CreateCredential, Credentials
<1>3. /\ credential[c] \in [org : AnyOrg, revokedBy : AnyOrg]
      /\ credential[c].revokedBy = NoOwner
  <2>1. credential[c] \in [org : AnyOrg, revokedBy : AnyOrg]
    BY DEF AccessInv, AccessTypeOK
  <2> QED BY <1>2, <2>1 DEF AccessInv, EffectsAreEntitled, Credentials
<1>4. /\ credential' \in [Credentials -> [org : AnyOrg, revokedBy : AnyOrg]]
      /\ credential'[c].revokedBy = NoOwner
      /\ \A d \in Credentials \ {c} : credential'[d] = credential[d]
  BY <1>1, <1>2, <1>3 DEF AccessInv, AccessTypeOK, RequestRows
<1>5. CredentialsStay
  BY <1>2, <1>3, <1>4 DEF CredentialsStay
<1>6. AccessTypeOK'
  BY <1>1, <1>4, AccessAnswered DEF AccessInv, AccessTypeOK
<1>7. RequestsEntitled'
  BY <1>1, <1>5, <1>6, AccessAnswered
<1>8. \A d \in Credentials : credential'[d].revokedBy \in {NoOwner, credential'[d].org}
  BY <1>4 DEF AccessInv, EffectsAreEntitled, Credentials
<1> QED BY <1>1, <1>5, <1>6, <1>7, <1>8, NothingRecorded

LEMMA AccessRevoke ==
  ASSUME AccessInv, NEW r \in Requests, Revoke(r)
  PROVE  AccessInv'
<1> DEFINE c == request[r].target
           org == request[r].org
<1>1. /\ request[r] \in RequestRows /\ Answered(r) /\ ~overdue'
      /\ UNCHANGED <<assignment, jobs, recorded>>
  BY AccessPerforms DEF Revoke
<1>2. \/ UNCHANGED credential
      \/ credential[c].org = org /\ credential' = [credential EXCEPT ![c].revokedBy = org]
  BY DEF Revoke, Revocable
<1>3. org \in AnyOrg
  BY <1>1 DEF RequestRows
<1> HIDE DEF c, org
<1>4. /\ credential' \in [Credentials -> [org : AnyOrg, revokedBy : AnyOrg]]
      /\ \A d \in Credentials :
           /\ credential'[d].org = credential[d].org
           /\ \/ credential'[d].revokedBy = credential[d].revokedBy
              \/ d = c /\ credential[c].org = org /\ credential'[d].revokedBy = org
  BY <1>2, <1>3 DEF AccessInv, AccessTypeOK
<1>5. \A d \in Credentials : credential[d].revokedBy \in {NoOwner, credential[d].org}
  BY DEF AccessInv, EffectsAreEntitled, Credentials
<1>6. CredentialsStay
  BY <1>4, <1>5 DEF CredentialsStay
<1>7. AccessTypeOK'
  BY <1>1, <1>4, AccessAnswered DEF AccessInv, AccessTypeOK
<1>8. RequestsEntitled'
  BY <1>1, <1>6, <1>7, AccessAnswered
<1>9. \A d \in Credentials : credential'[d].revokedBy \in {NoOwner, credential'[d].org}
  BY <1>4, <1>5
<1> QED BY <1>1, <1>6, <1>7, <1>8, <1>9, NothingRecorded

LEMMA AccessJobs ==
  ASSUME AccessInv, NEW r \in Requests, AgentJobs(r)
  PROVE  AccessInv'
<1>1. /\ Answered(r) /\ ~overdue' /\ UNCHANGED <<credential, assignment, recorded>>
      /\ request[r].by \in Agents
  BY AccessPerforms DEF AgentJobs, Work
<1>2. \A j \in jobs' : j \in jobs \/ \E m \in AccMonitors : j = <<request[r].by, m>> /\ assignment[m].org = request[r].org
  BY DEF AgentJobs, Assigned
<1>6. request[r].org = credential[request[r].by].org
  BY <1>1, AccessPerforms DEF AgentJobs, StillEntitled
<1>7. \A j \in jobs' : j \in jobs \/ assignment[j[2]].org = credential[j[1]].org
  BY <1>2, <1>6
<1>8. jobs' \subseteq Agents \X AccMonitors
  BY <1>1, <1>2 DEF AccessInv, AccessTypeOK
<1>3. CredentialsStay
  BY <1>1 DEF CredentialsStay
<1>4. AccessTypeOK'
  BY <1>1, <1>8, AccessAnswered DEF AccessInv, AccessTypeOK
<1>5. RequestsEntitled'
  BY <1>1, <1>3, <1>4, AccessAnswered
<1> QED
  BY <1>1, <1>3, <1>4, <1>5, <1>7, NothingRecorded DEF AccessInv, EffectsAreEntitled, Credentials

LEMMA AccessSubmit ==
  ASSUME AccessInv, NEW r \in Requests, AgentSubmitResult(r)
  PROVE  AccessInv'
<1> DEFINE q == request[r]
           x == [agent |-> q.by, monitor |-> q.target, org |-> assignment[q.target].org]
<1>1. /\ q \in RequestRows /\ Answered(r) /\ ~overdue' /\ UNCHANGED <<credential, assignment, jobs>>
      /\ StillEntitled(q) /\ q.op = "submit"
  BY AccessPerforms DEF AgentSubmitResult, Performs
<1>2. q.by \in Agents /\ q.target \in AccMonitors
  BY <1>1 DEF AccessInv, RequestsEntitled, Work
<1>3. \/ UNCHANGED recorded
      \/ assignment[q.target].org = q.org /\ recorded' = recorded \union {x}
  BY DEF AgentSubmitResult, GetMonitor
<1>4. /\ q.org \in AccOrgs /\ q.org = credential[q.by].org
  BY <1>1, <1>2 DEF RequestRows, AnyOrg, StillEntitled
<1>5. /\ x \in [agent : Agents, monitor : AccMonitors, org : AccOrgs]
      /\ x.agent = q.by /\ x.monitor = q.target /\ x.org = assignment[q.target].org
  <2>1. assignment[q.target].org \in AccOrgs
    BY <1>2 DEF AccessInv, AccessTypeOK, Assignments
  <2> QED BY <1>2, <2>1
<1> HIDE DEF q, x
<1>6. CredentialsStay
  BY <1>1 DEF CredentialsStay
<1>7. AccessTypeOK'
  BY <1>1, <1>3, <1>5, AccessAnswered DEF AccessInv, AccessTypeOK
<1>8. RequestsEntitled'
  BY <1>1, <1>6, <1>7, AccessAnswered
<1>9. RecordedStays'
  BY <1>3, <1>4, <1>5, AccessAssumption DEF AccessInv, RecordedStays
<1>10. EffectsAreEntitled'
  BY <1>1, <1>3, <1>4, <1>5 DEF AccessInv, EffectsAreEntitled
<1> QED BY <1>7, <1>8, <1>9, <1>10 DEF AccessInv

LEMMA AccessAssign ==
  ASSUME AccessInv, NEW m \in AccMonitors,
         \/ AssignedMonitorDeleted(m)
         \/ \E a \in Agents \union {NoTarget}, enabled \in BOOLEAN : EditAssignment(m, a, enabled)
  PROVE  AccessInv'
<1>1. UNCHANGED <<credential, request, overdue, jobs, recorded>>
  BY DEF AssignedMonitorDeleted, EditAssignment
<1> DEFINE OrgsStay == /\ assignment' \in [AccMonitors -> Assignments]
                   /\ \A k \in AccMonitors : assignment'[k].org = assignment[k].org
<1>2. OrgsStay
  <2>1. assignment \in [AccMonitors -> Assignments] /\ assignment[m] \in Assignments
    BY DEF AccessInv, AccessTypeOK
  <2>2. CASE AssignedMonitorDeleted(m)
    BY <2>1, <2>2 DEF AssignedMonitorDeleted, Assignments
  <2>3. ASSUME NEW a \in Agents \union {NoTarget}, NEW enabled \in BOOLEAN,
               EditAssignment(m, a, enabled)
        PROVE  OrgsStay
    BY <2>1, <2>3 DEF EditAssignment, Assignments
  <2> QED BY <2>2, <2>3
<1>3. AccessTypeOK' /\ CredentialsStay
  BY <1>1, <1>2 DEF AccessInv, AccessTypeOK, CredentialsStay
<1>4. RequestsEntitled'
  BY <1>1 DEF AccessInv, RequestsEntitled, ArrivalKnown, StillEntitled
<1> QED BY <1>1, <1>2, <1>3, <1>4, NothingRecorded DEF AccessInv, EffectsAreEntitled, Credentials

LEMMA AccessInvNext == AccessInv /\ AccessNext => AccessInv'
<1> SUFFICES ASSUME AccessInv, AccessNext PROVE AccessInv'
  OBVIOUS
<1> USE DEF Credentials, AnyOrg
<1>1. CASE KeyOps
  <2>1. PICK r \in Requests :
          \/ \E k \in Keys \union {Bootstrap} :
               \/ Arrive(r, k, NoOwner, "admin", "create", NoTarget)
               \/ \E c \in Keys \union Agents : Arrive(r, k, NoOwner, "admin", "revoke", c)
          \/ \E org \in AccOrgs, role \in UserRoles :
               \/ Arrive(r, User, org, role, "create", NoTarget)
               \/ \E c \in Keys \union Agents : Arrive(r, User, org, role, "revoke", c)
          \/ CreateCredential(r) \/ Revoke(r)
    BY <1>1 DEF KeyOps
  <2>2. ASSUME NEW k \in Keys \union {Bootstrap},
               \/ Arrive(r, k, NoOwner, "admin", "create", NoTarget)
               \/ \E c \in Keys \union Agents : Arrive(r, k, NoOwner, "admin", "revoke", c)
        PROVE  AccessInv'
    BY <2>2, AccessArrive
  <2>3. ASSUME NEW org \in AccOrgs, NEW role \in UserRoles,
               \/ Arrive(r, User, org, role, "create", NoTarget)
               \/ \E c \in Keys \union Agents : Arrive(r, User, org, role, "revoke", c)
        PROVE  AccessInv'
    <3>1. role \in {"owner", "admin", "member", "viewer"}
      BY AccessAssumption
    <3> QED BY <2>3, <3>1, AccessArrive
  <2> QED BY <2>1, <2>2, <2>3, AccessCreate, AccessRevoke
<1>2. CASE AgentOps
  <2>1. PICK r \in Requests :
          \/ \E a \in Agents : \/ Arrive(r, a, NoOwner, "viewer", "poll", NoTarget)
                               \/ \E m \in AccMonitors : Arrive(r, a, NoOwner, "viewer", "submit", m)
          \/ AgentJobs(r) \/ AgentSubmitResult(r)
    BY <1>2 DEF AgentOps
  <2>2. ASSUME NEW a \in Agents,
               \/ Arrive(r, a, NoOwner, "viewer", "poll", NoTarget)
               \/ \E m \in AccMonitors : Arrive(r, a, NoOwner, "viewer", "submit", m)
        PROVE  AccessInv'
    BY <2>2, AccessArrive
  <2> QED BY <2>1, <2>2, AccessJobs, AccessSubmit
<1> QED BY <1>1, <1>2, AccessAuthenticate, AccessAssign DEF AccessNext, RequestsNext, AssignmentsNext

\* A phone that has signed in is reached by that organisation; one that signed
\* out and never went astray has no row; and until then it knows its row's id.
DeviceTypeOK ==
  /\ device \in [Phones -> [id : Nat, org : AnyOrg]]
  /\ phone \in [Phones -> [org : AnyOrg, id : Nat, count : Nat, astray : BOOLEAN]]

PhonesFollow ==
  \A p \in Phones :
    IF phone[p].org # NoOwner
      THEN /\ device[p].id # 0 /\ device[p].org = phone[p].org
           /\ ~phone[p].astray => device[p].id = phone[p].id
      ELSE ~phone[p].astray => device[p].id = 0

DeviceInv == DeviceTypeOK /\ PhonesFollow

LEMMA DeviceInvInit == AccessInit => DeviceInv
BY DEF AccessInit, DeviceInv, DeviceTypeOK, PhonesFollow, AnyOrg

\* A step of one phone: its two rows change together.
LEMMA PhoneStep ==
  ASSUME DeviceInv, NEW p \in Phones,
         NEW d \in [id : Nat, org : AnyOrg],
         NEW q \in [org : AnyOrg, id : Nat, count : Nat, astray : BOOLEAN],
         device' = [device EXCEPT ![p] = d], phone' = [phone EXCEPT ![p] = q],
         IF q.org # NoOwner THEN d.id # 0 /\ d.org = q.org /\ (~q.astray => d.id = q.id)
                            ELSE ~q.astray => d.id = 0
  PROVE  DeviceInv'
BY DEF DeviceInv, DeviceTypeOK, PhonesFollow

LEMMA DeviceInvNext == DeviceInv /\ DevicesNext => DeviceInv'
<1> SUFFICES ASSUME DeviceInv, NEW p \in Phones,
                    PhoneForgets(p) \/ \E org \in AccOrgs : UpsertPushDevice(p, org) \/ DeletePushDevice(p, org)
             PROVE  DeviceInv'
  BY DEF DevicesNext
<1> PICK d0 : d0 = device[p]
  OBVIOUS
<1> PICK q0 : q0 = phone[p]
  OBVIOUS
<1>1. /\ d0 \in [id : Nat, org : AnyOrg]
      /\ q0 \in [org : AnyOrg, id : Nat, count : Nat, astray : BOOLEAN]
      /\ device = [device EXCEPT ![p] = d0] /\ phone = [phone EXCEPT ![p] = q0]
  BY DEF DeviceInv, DeviceTypeOK
<1>2. IF q0.org # NoOwner THEN d0.id # 0 /\ d0.org = q0.org /\ (~q0.astray => d0.id = q0.id)
                          ELSE ~q0.astray => d0.id = 0
  BY DEF DeviceInv, PhonesFollow
<1>3. NoOwner \in AnyOrg /\ NoOwner \notin AccOrgs /\ AccOrgs \subseteq AnyOrg
  BY AccessAssumption DEF AnyOrg
<1>4. CASE PhoneForgets(p)
  <2>1. /\ phone' = [phone EXCEPT ![p] = [q0 EXCEPT !.org = NoOwner, !.astray = TRUE]]
        /\ device' = [device EXCEPT ![p] = d0]
    BY <1>1, <1>4 DEF PhoneForgets
  <2> QED BY <1>1, <1>3, <2>1, PhoneStep
<1>5. ASSUME NEW org \in AccOrgs, UpsertPushDevice(p, org)
      PROVE  DeviceInv'
  <2> PICK new : new = q0.count + 1
    OBVIOUS
  <2> PICK d : d = [id |-> IF d0.id = 0 THEN new ELSE d0.id, org |-> org]
    OBVIOUS
  <2> PICK q : q = [q0 EXCEPT !.org = org, !.id = new, !.count = new,
                              !.astray = @ \/ d0.id # 0]
    OBVIOUS
  <2>1. device' = [device EXCEPT ![p] = d] /\ phone' = [phone EXCEPT ![p] = q]
    BY <1>1, <1>5 DEF UpsertPushDevice
  <2>2. d \in [id : Nat, org : AnyOrg] /\ d.org = org /\ d.id # 0 /\ (d0.id = 0 => d.id = new)
    BY <1>1, <1>3
  <2>3. q = [org |-> org, id |-> new, count |-> new, astray |-> q0.astray \/ d0.id # 0]
    BY <1>1
  <2>4. new \in Nat /\ org \in AnyOrg /\ (q0.astray \/ d0.id # 0) \in BOOLEAN
    BY <1>1, <1>3
  <2>5. q \in [org : AnyOrg, id : Nat, count : Nat, astray : BOOLEAN]
    BY <2>3, <2>4
  <2>6. q.org = org /\ q.id = new
    BY <2>3
  <2>7. ~q.astray => d0.id = 0
    BY <2>3
  <2> QED BY <1>2, <1>3, <2>1, <2>2, <2>5, <2>6, <2>7, PhoneStep
<1>6. ASSUME NEW org \in AccOrgs, DeletePushDevice(p, org)
      PROVE  DeviceInv'
  <2> PICK d : d = IF d0.id = q0.id /\ d0.org = org THEN [id |-> 0, org |-> NoOwner] ELSE d0
    OBVIOUS
  <2> PICK q : q = [q0 EXCEPT !.org = NoOwner, !.astray = @ \/ org # d0.org]
    OBVIOUS
  <2>a. q0.org # NoOwner
    BY <1>1, <1>6 DEF DeletePushDevice
  <2>b. device' = [device EXCEPT ![p] = d]
    BY <1>1, <1>6 DEF DeletePushDevice
  <2>c. phone' = [phone EXCEPT ![p] = q]
    BY <1>1, <1>6 DEF DeletePushDevice
  <2>1. device' = [device EXCEPT ![p] = d] /\ phone' = [phone EXCEPT ![p] = q] /\ q0.org # NoOwner
    BY <2>a, <2>b, <2>c
  <2>2. d \in [id : Nat, org : AnyOrg]
    BY <1>1, <1>3
  <2>3. /\ q \in [org : AnyOrg, id : Nat, count : Nat, astray : BOOLEAN]
        /\ q.org = NoOwner /\ (~q.astray => ~q0.astray /\ org = d0.org)
    BY <1>1, <1>3
  <2>4. ~q.astray => d.id = 0
    BY <1>2, <2>1, <2>3
  <2> QED BY <1>3, <2>1, <2>2, <2>3, <2>4, PhoneStep
<1> QED BY <1>4, <1>5, <1>6

\* Whatever requests, revocations, reassignments and registrations interleave,
\* nothing is changed on a credential that had been revoked before the request
\* arrived, across organisations or for another organisation's monitor, and a
\* phone is pushed to by the organisation it is signed in to and by no other.
THEOREM EntitlementsAlways == AccessSpec => []EntitlementsHold
<1>1. AccessInit => AccessInv /\ DeviceInv
  BY AccessInvInit, DeviceInvInit
<1>2. AccessInv /\ DeviceInv /\ [(AccessNext /\ UNCHANGED deviceVars) \/ (DevicesNext /\ UNCHANGED accessVars)]_<<accessVars, deviceVars>>
        => AccessInv' /\ DeviceInv'
  <2>1. AccessInv /\ UNCHANGED accessVars => AccessInv'
    BY DEF accessVars, AccessInv, AccessTypeOK, RequestsEntitled, ArrivalKnown, StillEntitled, RecordedStays,
           EffectsAreEntitled
  <2>2. DeviceInv /\ UNCHANGED deviceVars => DeviceInv'
    BY DEF deviceVars, DeviceInv, DeviceTypeOK, PhonesFollow
  <2> QED BY <2>1, <2>2, AccessInvNext, DeviceInvNext
<1>3. DeviceInv => PushesReachOwners
  <2> SUFFICES ASSUME DeviceInv, NEW p \in Phones
               PROVE  /\ \A org \in AccOrgs : phone[p].org = org => {o \in AccOrgs : p \in Reached(o)} = {org}
                      /\ phone[p].org = NoOwner /\ ~phone[p].astray => \A org \in AccOrgs : p \notin Reached(org)
    BY DEF PushesReachOwners
  <2> QED BY AccessAssumption DEF DeviceInv, PhonesFollow, Reached
<1>4. AccessInv => EffectsAreEntitled
  BY DEF AccessInv
<1> QED BY <1>1, <1>2, <1>3, <1>4, PTL DEF AccessSpec, EntitlementsHold

------------------------------------------------------------------------------
(* The catalogue.  Links point to rows that exist, a monitor's tags are of   *)
(* its organisation, and only live windows are enabled.                      *)

Owners == CatOrgs \union {CHOOSE o \in CatOrgs : TRUE}
MonitorRows == [stage : IdStages, org : Owners, enabled : BOOLEAN, service : ServiceIds \union {NoService},
                status : {"up", "down", "degraded"}, tags : SUBSET TagRows]
WindowRows == [stage : IdStages, org : Owners, enabled : BOOLEAN, monitors : SUBSET MonitorIds, tags : SUBSET TagRows]

CatTypeOK ==
  /\ tags \subseteq TagRows
  /\ monitors \in [MonitorIds -> MonitorRows]
  /\ windows \in [WindowIds -> WindowRows]

TagsLinked == \A m \in LiveMonitors : monitors[m].tags \subseteq {t \in tags : t.org = monitors[m].org}

TargetsLinked ==
  \A w \in WindowIds : /\ windows[w].tags \subseteq tags /\ windows[w].monitors \subseteq LiveMonitors
                       /\ windows[w].enabled => windows[w].stage = "live"

CatInv == CatTypeOK /\ TagsLinked /\ TargetsLinked

LEMMA CatInvInit == CatInit => CatInv
<1> SUFFICES ASSUME CatInit PROVE CatInv
  OBVIOUS
<1>1. NoMonitor \in MonitorRows /\ NoWindow \in WindowRows
  BY DEF NoMonitor, NoWindow, MonitorRows, WindowRows, Owners, IdStages
<1>2. CatTypeOK
  BY <1>1 DEF CatInit, CatTypeOK
<1>3. LiveMonitors = {}
  BY DEF CatInit, LiveMonitors, NoMonitor
<1>4. \A w \in WindowIds : windows[w].tags = {} /\ windows[w].monitors = {} /\ ~windows[w].enabled
  BY DEF CatInit, NoWindow
<1> QED BY <1>2, <1>3, <1>4 DEF CatInv, TagsLinked, TargetsLinked

\* A row of a monitor is replaced by one whose tags exist and are its
\* organisation's; tags may be added meanwhile.
LEMMA MonitorWritten ==
  ASSUME CatInv, NEW m \in MonitorIds, NEW row \in MonitorRows,
         monitors' = [monitors EXCEPT ![m] = row],
         tags \subseteq tags', tags' \subseteq TagRows, windows' = windows,
         row.stage = "live", row.tags \subseteq {t \in tags' : t.org = row.org}
  PROVE  CatInv'
<1>1. CatTypeOK'
  BY DEF CatInv, CatTypeOK
<1>2. monitors'[m] = row /\ \A n \in MonitorIds \ {m} : monitors'[n] = monitors[n]
  BY DEF CatInv, CatTypeOK
<1>3. LiveMonitors' = LiveMonitors \union {m}
  BY <1>2 DEF LiveMonitors
<1>4. TagsLinked'
  BY <1>2, <1>3 DEF CatInv, TagsLinked
<1>5. TargetsLinked'
  BY <1>3 DEF CatInv, TargetsLinked
<1> QED BY <1>1, <1>4, <1>5 DEF CatInv

LEMMA MonitorTagsType ==
  ASSUME NEW org \in CatOrgs, NEW ls \in SUBSET Labels
  PROVE  MonitorTags(org, ls) \subseteq TagRows /\ \A t \in MonitorTags(org, ls) : t.org = org
<1>1. NormalizeTags(ls) \subseteq Names
  BY DEF NormalizeTags, Names
<1> QED BY <1>1 DEF MonitorTags, TagRows

LEMMA CatMonitorSaved ==
  ASSUME CatInv, NEW org \in CatOrgs, NEW m \in MonitorIds, NEW b \in BOOLEAN,
         NEW s \in ServiceIds \union {NoService}, NEW ls \in SUBSET Labels,
         CreateMonitor(org, m, b, s, ls) \/ UpdateMonitor(org, m, b, s, ls)
  PROVE  CatInv'
<1>1. MonitorTags(org, ls) \subseteq TagRows /\ \A t \in MonitorTags(org, ls) : t.org = org
  BY MonitorTagsType
<1> PICK st : st = IF CreateMonitor(org, m, b, s, ls) THEN "degraded" ELSE monitors[m].status
  OBVIOUS
<1> DEFINE row == [stage |-> "live", org |-> org, enabled |-> b, service |-> s, status |-> st,
                   tags |-> MonitorTags(org, ls)]
<1>2. st \in {"up", "down", "degraded"}
  BY DEF CatInv, CatTypeOK, MonitorRows
<1>3. row \in MonitorRows
  BY <1>1, <1>2 DEF MonitorRows, IdStages, Owners
<1>4. monitors' = [monitors EXCEPT ![m] = row]
  <2>1. CASE CreateMonitor(org, m, b, s, ls)
    BY <2>1 DEF CreateMonitor, NormalizeMonitor
  <2>2. CASE ~CreateMonitor(org, m, b, s, ls)
    <3>1. UpdateMonitor(org, m, b, s, ls) /\ st = monitors[m].status
      BY <2>2
    <3>2. monitors' = [monitors EXCEPT ![m] = [NormalizeMonitor(org, b, s, ls) EXCEPT !.status = monitors[m].status]]
      BY <3>1 DEF UpdateMonitor
    <3>3. [NormalizeMonitor(org, b, s, ls) EXCEPT !.status = monitors[m].status] = row
      BY <3>1 DEF NormalizeMonitor
    <3> QED BY <3>2, <3>3
  <2> QED BY <2>1, <2>2
<1>5. tags' = tags \union MonitorTags(org, ls) /\ windows' = windows
  BY DEF CreateMonitor, UpdateMonitor
<1>6. row.stage = "live" /\ row.tags \subseteq {t \in tags' : t.org = row.org}
  BY <1>1, <1>5
<1>7. tags \subseteq tags' /\ tags' \subseteq TagRows
  BY <1>1, <1>5 DEF CatInv, CatTypeOK
<1> HIDE DEF row
<1> QED BY <1>3, <1>4, <1>5, <1>6, <1>7, MonitorWritten

LEMMA CatSetTags ==
  ASSUME CatInv, NEW org \in CatOrgs, NEW m \in MonitorIds, NEW chosen \in SUBSET tags,
         SetMonitorTags(org, m, chosen)
  PROVE  CatInv'
<1> PICK old : old = monitors[m]
  OBVIOUS
<1> PICK links : links = {t \in chosen : t.org = org}
  OBVIOUS
<1> PICK row : row = [old EXCEPT !.tags = links]
  OBVIOUS
<1>1. old \in MonitorRows /\ old.stage = "live" /\ old.org = org
  BY DEF CatInv, CatTypeOK, SetMonitorTags, Owned
<1>2. links \subseteq TagRows /\ links \subseteq tags
  BY DEF CatInv, CatTypeOK
<1>3. row \in MonitorRows /\ row.stage = "live" /\ row.org = org /\ row.tags = links
  BY <1>1, <1>2 DEF MonitorRows
<1>4. monitors' = [monitors EXCEPT ![m] = row] /\ tags' = tags /\ windows' = windows
  BY DEF SetMonitorTags
<1>5. row.tags \subseteq {t \in tags' : t.org = row.org}
  BY <1>2, <1>3, <1>4
<1>6. tags \subseteq tags' /\ tags' \subseteq TagRows
  BY <1>4 DEF CatInv, CatTypeOK
<1> QED BY <1>3, <1>4, <1>5, <1>6, MonitorWritten

LEMMA CatStatus ==
  ASSUME CatInv, NEW m \in MonitorIds, NEW st \in {"up", "down"}, UpdateMonitorStatus(m, st)
  PROVE  CatInv'
<1> PICK old : old = monitors[m]
  OBVIOUS
<1> PICK row : row = [old EXCEPT !.status = st]
  OBVIOUS
<1>1. old \in MonitorRows /\ old.stage = "live" /\ m \in LiveMonitors
  BY DEF CatInv, CatTypeOK, UpdateMonitorStatus, LiveMonitors
<1>2. row \in MonitorRows /\ row.stage = "live" /\ row.org = old.org /\ row.tags = old.tags
  BY <1>1 DEF MonitorRows
<1>3. monitors' = [monitors EXCEPT ![m] = row] /\ tags' = tags /\ windows' = windows
  BY DEF UpdateMonitorStatus
<1>4. row.tags \subseteq {t \in tags' : t.org = row.org}
  BY <1>1, <1>2, <1>3 DEF CatInv, TagsLinked
<1>5. tags \subseteq tags' /\ tags' \subseteq TagRows
  BY <1>3 DEF CatInv, CatTypeOK
<1> QED BY <1>2, <1>3, <1>4, <1>5, MonitorWritten

\* What a deletion takes away from the other rows.
LEMMA TagUnlinked ==
  ASSUME NEW row \in MonitorRows, NEW t
  PROVE  LET new == [row EXCEPT !.tags = @ \ {t}]
         IN  new \in MonitorRows /\ new.tags = row.tags \ {t} /\ new.stage = row.stage /\ new.org = row.org
BY DEF MonitorRows

LEMMA TagUntargeted ==
  ASSUME NEW row \in WindowRows, NEW t
  PROVE  LET new == [row EXCEPT !.tags = @ \ {t}]
         IN  /\ new \in WindowRows /\ new.tags = row.tags \ {t} /\ new.monitors = row.monitors
             /\ new.stage = row.stage /\ new.enabled = row.enabled
BY DEF WindowRows

LEMMA MonitorUntargeted ==
  ASSUME NEW row \in WindowRows, NEW m
  PROVE  LET new == [row EXCEPT !.monitors = @ \ {m}]
         IN  /\ new \in WindowRows /\ new.tags = row.tags /\ new.monitors = row.monitors \ {m}
             /\ new.stage = row.stage /\ new.enabled = row.enabled
BY DEF WindowRows

LEMMA TagTaken ==
  ASSUME CatInv, NEW org \in CatOrgs, NEW t \in tags, DeleteTag(org, t)
  PROVE  /\ tags' = tags \ {t} /\ t \in TagRows
         /\ \A m \in MonitorIds : /\ monitors'[m] \in MonitorRows /\ monitors'[m].tags = monitors[m].tags \ {t}
                                  /\ monitors'[m].stage = monitors[m].stage /\ monitors'[m].org = monitors[m].org
         /\ \A w \in WindowIds : /\ windows'[w] \in WindowRows /\ windows'[w].tags = windows[w].tags \ {t}
                                 /\ windows'[w].monitors = windows[w].monitors
                                 /\ windows'[w].stage = windows[w].stage /\ windows'[w].enabled = windows[w].enabled
<1>1. /\ tags' = tags \ {t}
      /\ monitors' = [m \in MonitorIds |-> [monitors[m] EXCEPT !.tags = @ \ {t}]]
      /\ windows' = [w \in WindowIds |-> [windows[w] EXCEPT !.tags = @ \ {t}]]
  BY DEF DeleteTag
<1>2. t \in TagRows /\ (\A m \in MonitorIds : monitors[m] \in MonitorRows)
      /\ (\A w \in WindowIds : windows[w] \in WindowRows)
  BY DEF CatInv, CatTypeOK
<1>3. \A m \in MonitorIds : /\ monitors'[m] \in MonitorRows /\ monitors'[m].tags = monitors[m].tags \ {t}
                            /\ monitors'[m].stage = monitors[m].stage /\ monitors'[m].org = monitors[m].org
  <2> SUFFICES ASSUME NEW m \in MonitorIds
           PROVE  /\ monitors'[m] \in MonitorRows /\ monitors'[m].tags = monitors[m].tags \ {t}
                  /\ monitors'[m].stage = monitors[m].stage /\ monitors'[m].org = monitors[m].org
    OBVIOUS
  <2> PICK row \in MonitorRows : row = monitors[m]
    BY <1>1, <1>2
  <2>1. monitors'[m] = [row EXCEPT !.tags = @ \ {t}]
    BY <1>1, <1>2
  <2> QED BY <2>1, TagUnlinked
<1>4. \A w \in WindowIds : /\ windows'[w] \in WindowRows /\ windows'[w].tags = windows[w].tags \ {t}
                           /\ windows'[w].monitors = windows[w].monitors
                           /\ windows'[w].stage = windows[w].stage /\ windows'[w].enabled = windows[w].enabled
  <2> SUFFICES ASSUME NEW w \in WindowIds
           PROVE  /\ windows'[w] \in WindowRows /\ windows'[w].tags = windows[w].tags \ {t}
                  /\ windows'[w].monitors = windows[w].monitors
                  /\ windows'[w].stage = windows[w].stage /\ windows'[w].enabled = windows[w].enabled
    OBVIOUS
  <2> PICK row \in WindowRows : row = windows[w]
    BY <1>1, <1>2
  <2>1. windows'[w] = [row EXCEPT !.tags = @ \ {t}]
    BY <1>1, <1>2
  <2> QED BY <2>1, TagUntargeted
<1> QED BY <1>1, <1>2, <1>3, <1>4

LEMMA CatTagDeleted ==
  ASSUME CatInv, NEW org \in CatOrgs, NEW t \in tags, DeleteTag(org, t)
  PROVE  CatInv'
<1>1. /\ tags' = tags \ {t}
      /\ \A m \in MonitorIds : /\ monitors'[m] \in MonitorRows /\ monitors'[m].tags = monitors[m].tags \ {t}
                               /\ monitors'[m].stage = monitors[m].stage /\ monitors'[m].org = monitors[m].org
      /\ \A w \in WindowIds : /\ windows'[w] \in WindowRows /\ windows'[w].tags = windows[w].tags \ {t}
                              /\ windows'[w].monitors = windows[w].monitors
                              /\ windows'[w].stage = windows[w].stage /\ windows'[w].enabled = windows[w].enabled
  BY TagTaken
<1>2. LiveMonitors' = LiveMonitors
  BY <1>1 DEF LiveMonitors
<1>3. CatTypeOK'
  <2>1. monitors' = [m \in MonitorIds |-> monitors'[m]] /\ windows' = [w \in WindowIds |-> windows'[w]]
    BY DEF DeleteTag
  <2> QED BY <1>1, <2>1 DEF CatInv, CatTypeOK
<1>4. TagsLinked'
  BY <1>1, <1>2 DEF CatInv, TagsLinked, LiveMonitors
<1>5. TargetsLinked'
  BY <1>1, <1>2 DEF CatInv, TargetsLinked
<1> QED BY <1>3, <1>4, <1>5 DEF CatInv

LEMMA MonitorTaken ==
  ASSUME CatInv, NEW org \in CatOrgs, NEW m \in MonitorIds, DeleteMonitor(org, m)
  PROVE  /\ tags' = tags
         /\ monitors' \in [MonitorIds -> MonitorRows] /\ monitors'[m].stage = "gone"
         /\ \A n \in MonitorIds \ {m} : monitors'[n] = monitors[n]
         /\ \A w \in WindowIds : /\ windows'[w] \in WindowRows /\ windows'[w].tags = windows[w].tags
                                 /\ windows'[w].monitors = windows[w].monitors \ {m}
                                 /\ windows'[w].stage = windows[w].stage /\ windows'[w].enabled = windows[w].enabled
<1> PICK none : none = [NoMonitor EXCEPT !.stage = "gone"]
  OBVIOUS
<1>1. none \in MonitorRows /\ none.stage = "gone"
  BY DEF NoMonitor, MonitorRows, Owners, IdStages
<1>2. /\ monitors' = [monitors EXCEPT ![m] = none] /\ tags' = tags
      /\ windows' = [w \in WindowIds |-> [windows[w] EXCEPT !.monitors = @ \ {m}]]
  BY DEF DeleteMonitor
<1>3. \A w \in WindowIds : windows[w] \in WindowRows
  BY DEF CatInv, CatTypeOK
<1>4. \A w \in WindowIds : /\ windows'[w] \in WindowRows /\ windows'[w].tags = windows[w].tags
                           /\ windows'[w].monitors = windows[w].monitors \ {m}
                           /\ windows'[w].stage = windows[w].stage /\ windows'[w].enabled = windows[w].enabled
  <2> SUFFICES ASSUME NEW w \in WindowIds
           PROVE  /\ windows'[w] \in WindowRows /\ windows'[w].tags = windows[w].tags
                  /\ windows'[w].monitors = windows[w].monitors \ {m}
                  /\ windows'[w].stage = windows[w].stage /\ windows'[w].enabled = windows[w].enabled
    OBVIOUS
  <2> PICK row \in WindowRows : row = windows[w]
    BY <1>2, <1>3
  <2>1. windows'[w] = [row EXCEPT !.monitors = @ \ {m}]
    BY <1>2, <1>3
  <2> QED BY <2>1, MonitorUntargeted
<1>5. /\ monitors' \in [MonitorIds -> MonitorRows] /\ monitors'[m].stage = "gone"
      /\ \A n \in MonitorIds \ {m} : monitors'[n] = monitors[n]
  BY <1>1, <1>2 DEF CatInv, CatTypeOK
<1> QED BY <1>2, <1>4, <1>5

LEMMA CatMonitorDeleted ==
  ASSUME CatInv, NEW org \in CatOrgs, NEW m \in MonitorIds, DeleteMonitor(org, m)
  PROVE  CatInv'
<1>1. /\ tags' = tags
      /\ monitors' \in [MonitorIds -> MonitorRows] /\ monitors'[m].stage = "gone"
      /\ \A n \in MonitorIds \ {m} : monitors'[n] = monitors[n]
      /\ \A w \in WindowIds : /\ windows'[w] \in WindowRows /\ windows'[w].tags = windows[w].tags
                              /\ windows'[w].monitors = windows[w].monitors \ {m}
                              /\ windows'[w].stage = windows[w].stage /\ windows'[w].enabled = windows[w].enabled
  BY MonitorTaken
<1>2. LiveMonitors' = LiveMonitors \ {m}
  BY <1>1 DEF LiveMonitors
<1>3. CatTypeOK'
  <2>1. windows' = [w \in WindowIds |-> windows'[w]]
    BY DEF DeleteMonitor
  <2> QED BY <1>1, <2>1 DEF CatInv, CatTypeOK
<1>4. TagsLinked'
  BY <1>1, <1>2 DEF CatInv, TagsLinked, LiveMonitors
<1>5. TargetsLinked'
  BY <1>1, <1>2 DEF CatInv, TargetsLinked
<1> QED BY <1>3, <1>4, <1>5 DEF CatInv

\* A row of a window is replaced by one whose targets exist.
LEMMA CatWindowWritten ==
  ASSUME CatInv, NEW w \in WindowIds, NEW row \in WindowRows,
         windows' = [windows EXCEPT ![w] = row], UNCHANGED <<tags, monitors>>,
         row.tags \subseteq tags, row.monitors \subseteq LiveMonitors, row.enabled => row.stage = "live"
  PROVE  CatInv'
<1>1. windows'[w] = row /\ \A v \in WindowIds \ {w} : windows'[v] = windows[v]
  BY DEF CatInv, CatTypeOK
<1>2. LiveMonitors' = LiveMonitors
  BY DEF LiveMonitors
<1>3. CatTypeOK'
  BY DEF CatInv, CatTypeOK
<1>4. TagsLinked'
  BY <1>2 DEF CatInv, TagsLinked
<1>5. TargetsLinked'
  BY <1>1, <1>2 DEF CatInv, TargetsLinked
<1> QED BY <1>3, <1>4, <1>5 DEF CatInv

LEMMA CatWindow ==
  ASSUME CatInv, NEW org \in CatOrgs, NEW w \in WindowIds,
         \/ DeleteMaintenanceWindow(org, w)
         \/ \E ms \in SUBSET LiveMonitors, ls \in SUBSET Labels :
              \/ CreateMaintenanceWindow(org, w, ms, ls)
              \/ \E b \in BOOLEAN : UpdateMaintenanceWindow(org, w, b, ms, ls)
  PROVE  CatInv'
<1>1. CASE DeleteMaintenanceWindow(org, w)
  <2> PICK row : row = [NoWindow EXCEPT !.stage = "gone"]
    OBVIOUS
  <2>1. row \in WindowRows /\ row.tags = {} /\ row.monitors = {} /\ ~row.enabled
    BY DEF NoWindow, WindowRows, Owners, IdStages
  <2>2. windows' = [windows EXCEPT ![w] = row] /\ UNCHANGED <<tags, monitors>>
    BY <1>1 DEF DeleteMaintenanceWindow
  <2> QED BY <2>1, <2>2, CatWindowWritten
<1>2. ASSUME NEW ms \in SUBSET LiveMonitors, NEW ls \in SUBSET Labels,
             \/ CreateMaintenanceWindow(org, w, ms, ls)
             \/ \E b \in BOOLEAN : UpdateMaintenanceWindow(org, w, b, ms, ls)
      PROVE  CatInv'
  <2>1. PICK b \in BOOLEAN, linked \in SUBSET tags :
          windows' = [windows EXCEPT ![w] = [stage |-> "live", org |-> org, enabled |-> b,
                                             monitors |-> ms, tags |-> linked]]
    BY <1>2 DEF CreateMaintenanceWindow, UpdateMaintenanceWindow, WindowTargets
  <2> PICK row : row = [stage |-> "live", org |-> org, enabled |-> b, monitors |-> ms, tags |-> linked]
    OBVIOUS
  <2>2. linked \subseteq TagRows /\ ms \subseteq MonitorIds
    BY DEF CatInv, CatTypeOK, LiveMonitors
  <2>3. row \in WindowRows
    BY <2>2 DEF WindowRows, IdStages, Owners
  <2>4. UNCHANGED <<tags, monitors>>
    BY <1>2 DEF CreateMaintenanceWindow, UpdateMaintenanceWindow
  <2> QED BY <2>1, <2>3, <2>4, CatWindowWritten
<1> QED BY <1>1, <1>2

\* A step that leaves monitors and windows alone and deletes no tag.
LEMMA CatQuiet ==
  ASSUME CatInv, UNCHANGED <<monitors, windows>>, tags \subseteq tags', tags' \subseteq TagRows
  PROVE  CatInv'
<1>1. LiveMonitors' = LiveMonitors
  BY DEF LiveMonitors
<1> QED BY <1>1 DEF CatInv, CatTypeOK, TagsLinked, TargetsLinked

LEMMA CatCreateTag ==
  ASSUME CatInv, NEW org \in CatOrgs, NEW l \in Labels, CreateTag(org, l)
  PROVE  CatInv'
<1>1. [org |-> org, name |-> Name(l)] \in TagRows
  BY DEF TagRows, Names
<1> QED BY <1>1, CatQuiet DEF CreateTag, CatInv, CatTypeOK

LEMMA CatInvNext == CatInv /\ [CatNext]_catVars => CatInv'
<1> SUFFICES ASSUME CatInv, [CatNext]_catVars PROVE CatInv'
  OBVIOUS
<1>t. tags \subseteq TagRows
  BY DEF CatInv, CatTypeOK
<1>1. CASE UNCHANGED catVars
  BY <1>1, <1>t, CatQuiet DEF catVars
<1>2. ASSUME NEW org \in CatOrgs, TagOps(org)
      PROVE  CatInv'
  BY <1>2, CatCreateTag, CatTagDeleted, CatSetTags DEF TagOps
<1>3. ASSUME NEW org \in CatOrgs, ServiceOps(org)
      PROVE  CatInv'
  <2>1. UNCHANGED <<tags, monitors, windows>>
    BY <1>3 DEF ServiceOps, CreateService, UpdateService, DeleteService
  <2> QED BY <1>t, <2>1, CatQuiet
<1>4. ASSUME NEW org \in CatOrgs, MonitorOps(org)
      PROVE  CatInv'
  <2>1. PICK m \in MonitorIds :
          \/ DeleteMonitor(org, m)
          \/ \E b \in BOOLEAN, s \in {i \in ServiceIds : services[i].stage # "unused"} \union {NoService},
                ls \in SUBSET Labels :
               CreateMonitor(org, m, b, s, ls) \/ UpdateMonitor(org, m, b, s, ls)
    BY <1>4 DEF MonitorOps
  <2>2. CASE DeleteMonitor(org, m)
    BY <2>2, CatMonitorDeleted
  <2>3. ASSUME NEW b \in BOOLEAN, NEW s \in {i \in ServiceIds : services[i].stage # "unused"} \union {NoService},
               NEW ls \in SUBSET Labels,
               CreateMonitor(org, m, b, s, ls) \/ UpdateMonitor(org, m, b, s, ls)
        PROVE  CatInv'
    <3>1. s \in ServiceIds \union {NoService}
      OBVIOUS
    <3> QED BY <2>3, <3>1, CatMonitorSaved
  <2> QED BY <2>1, <2>2, <2>3
<1>5. ASSUME NEW org \in CatOrgs, WindowOps(org)
      PROVE  CatInv'
  BY <1>5, CatWindow DEF WindowOps
<1>6. ASSUME NEW m \in MonitorIds, NEW st \in {"up", "down"}, UpdateMonitorStatus(m, st)
      PROVE  CatInv'
  BY <1>6, CatStatus
<1> QED BY <1>1, <1>2, <1>3, <1>4, <1>5, <1>6 DEF CatNext

LEMMA LinksFollow == CatInv => LinksHold
<1> SUFFICES ASSUME CatInv PROVE LinksHold
  OBVIOUS
<1>1. \A m \in LiveMonitors : monitors[m].tags \subseteq {t \in tags : t.org = monitors[m].org}
  BY DEF CatInv, TagsLinked
<1>2. \A w \in WindowIds : windows[w].tags \subseteq tags /\ windows[w].monitors \subseteq LiveMonitors
  BY DEF CatInv, TargetsLinked
<1>3. ASSUME NEW w \in WindowIds, NEW org \in CatOrgs, NEW label \in Labels, windows[w].enabled,
             Name(label) \in {t.name : t \in windows[w].tags}, NormalizeTags({label}) # {},
             NEW m \in ListMonitorsByTags(org, {label})
      PROVE  Covers(w, m)
  <2>1. windows[w].stage = "live"
    BY <1>3 DEF CatInv, TargetsLinked
  <2>2. Name(label) \in NormalizeTags({label})
    BY <1>3 DEF NormalizeTags
  <2>3. m \in LiveMonitors /\ Name(label) \in {t.name : t \in monitors[m].tags}
    BY <2>2 DEF ListMonitorsByTags
  <2>4. WindowMatchesMonitor(windows[w], m, {t.name : t \in monitors[m].tags})
    BY <1>3, <2>3 DEF WindowMatchesMonitor
  <2> QED BY <1>3, <2>1, <2>3, <2>4 DEF Covers
<1> QED BY <1>1, <1>2, <1>3 DEF LinksHold

\* What CoverageGrows allows when window w comes to cover monitor m.
CoverageReason(w, m) ==
  \/ windows'[w] # windows[w] /\ tags' = tags /\ monitors' = monitors
  \/ monitors'[m].tags # monitors[m].tags \/ monitors[m].stage = "unused"
  \/ /\ Cardinality(windows[w].monitors) + Cardinality(windows[w].tags) = 1
     /\ windows'[w].monitors \union windows'[w].tags = {}

\* A window and a monitor that keep what counts keep their relation.
LEMMA SameCoverage ==
  ASSUME NEW w \in WindowIds, NEW m \in MonitorIds,
         windows'[w] = windows[w], monitors'[m].tags = monitors[m].tags,
         monitors'[m].stage = monitors[m].stage
  PROVE  Covers(w, m)' => Covers(w, m)
BY DEF Covers, WindowMatchesMonitor, LiveMonitors

\* A window that lost a target covers a monitor as before, unless it was its last.
LEMMA TargetLost ==
  ASSUME NEW w \in WindowIds, NEW m \in MonitorIds, NEW gone,
         \/ windows'[w].monitors = windows[w].monitors \ {gone} /\ windows'[w].tags = windows[w].tags
         \/ windows'[w].tags = windows[w].tags \ {gone} /\ windows'[w].monitors = windows[w].monitors,
         windows'[w].stage = windows[w].stage, windows'[w].enabled = windows[w].enabled,
         monitors'[m].tags \subseteq monitors[m].tags, monitors'[m].stage = monitors[m].stage,
         ~Covers(w, m), Covers(w, m)'
  PROVE  /\ Cardinality(windows[w].monitors) + Cardinality(windows[w].tags) = 1
         /\ windows'[w].monitors \union windows'[w].tags = {}
<1> PICK ms : ms = windows[w].monitors
  OBVIOUS
<1> PICK ts : ts = windows[w].tags
  OBVIOUS
<1> PICK names : names = {t.name : t \in monitors[m].tags}
  OBVIOUS
<1> PICK later : later = {t.name : t \in monitors'[m].tags}
  OBVIOUS
<1>1. windows[w].stage = "live" /\ windows[w].enabled /\ m \in LiveMonitors
  BY DEF Covers, LiveMonitors
<1>2. ~WindowMatchesMonitor(windows[w], m, names)
  BY <1>1 DEF Covers
<1>3. WindowMatchesMonitor(windows'[w], m, later)
  BY DEF Covers
<1>4. later \subseteq names
  OBVIOUS
<1>5. ~(m \in ms) /\ ~(\E t \in ts : t.name \in names) /\ (ms # {} \/ ts # {})
  BY <1>2 DEF WindowMatchesMonitor
<1>6. windows'[w].monitors \subseteq ms /\ windows'[w].tags \subseteq ts
  OBVIOUS
<1>7. ~(m \in windows'[w].monitors) /\ ~(\E t \in windows'[w].tags : t.name \in later)
  BY <1>4, <1>5, <1>6
<1>8. windows'[w].monitors = {} /\ windows'[w].tags = {}
  BY <1>3, <1>7 DEF WindowMatchesMonitor
<1>9. (ms = {gone} /\ ts = {}) \/ (ts = {gone} /\ ms = {})
  BY <1>5, <1>8
<1>10. Cardinality(ms) + Cardinality(ts) = 1
  <2>1. Cardinality({gone}) = 1 /\ Cardinality({}) = 0
    BY FS_Singleton, FS_EmptySet
  <2>2. (Cardinality(ms) = 1 /\ Cardinality(ts) = 0) \/ (Cardinality(ms) = 0 /\ Cardinality(ts) = 1)
    BY <1>9, <2>1
  <2> QED BY <2>2
<1> QED BY <1>8, <1>10

LEMMA CoverageStep ==
  ASSUME CatInv, CatNext, NEW w \in WindowIds, NEW m \in MonitorIds, ~Covers(w, m), Covers(w, m)'
  PROVE  CoverageReason(w, m)
<1>t. /\ monitors \in [MonitorIds -> MonitorRows]
      /\ windows \in [WindowIds -> WindowRows]
  BY DEF CatInv, CatTypeOK
<1>q. ASSUME UNCHANGED <<monitors, windows>> PROVE FALSE
  BY <1>q, SameCoverage
<1>1. ASSUME NEW org \in CatOrgs, TagOps(org)
      PROVE  CoverageReason(w, m)
  <2>1. CASE \E l \in Labels : CreateTag(org, l)
    BY <2>1, <1>q DEF CreateTag
  <2>2. ASSUME NEW t \in tags, DeleteTag(org, t)
        PROVE  CoverageReason(w, m)
    <3>1. /\ monitors'[m].tags = monitors[m].tags \ {t} /\ monitors'[m].stage = monitors[m].stage
          /\ windows'[w].tags = windows[w].tags \ {t} /\ windows'[w].monitors = windows[w].monitors
          /\ windows'[w].stage = windows[w].stage /\ windows'[w].enabled = windows[w].enabled
      BY <2>2, TagTaken
    <3>2. monitors'[m].tags \subseteq monitors[m].tags
      BY <3>1
    <3> QED BY <3>1, <3>2, TargetLost DEF CoverageReason
  <2>3. ASSUME NEW n \in MonitorIds, NEW chosen \in SUBSET tags, SetMonitorTags(org, n, chosen)
        PROVE  CoverageReason(w, m)
    <3> PICK links : links = {t \in chosen : t.org = org}
      OBVIOUS
    <3>1. monitors' = [monitors EXCEPT ![n].tags = links] /\ windows' = windows
      BY <2>3 DEF SetMonitorTags
    <3>2. monitors'[m].stage = monitors[m].stage
      BY <3>1, <1>t DEF MonitorRows
    <3> QED BY <3>1, <3>2, SameCoverage DEF CoverageReason
  <2> QED BY <1>1, <2>1, <2>2, <2>3 DEF TagOps
<1>2. ASSUME NEW org \in CatOrgs, ServiceOps(org)
      PROVE  CoverageReason(w, m)
  BY <1>2, <1>q DEF ServiceOps, CreateService, UpdateService, DeleteService
<1>3. ASSUME NEW org \in CatOrgs, MonitorOps(org)
      PROVE  CoverageReason(w, m)
  <2>1. PICK n \in MonitorIds :
          \/ DeleteMonitor(org, n)
          \/ \E b \in BOOLEAN, s \in {i \in ServiceIds : services[i].stage # "unused"} \union {NoService},
                ls \in SUBSET Labels :
               CreateMonitor(org, n, b, s, ls) \/ UpdateMonitor(org, n, b, s, ls)
    BY <1>3 DEF MonitorOps
  <2>2. CASE DeleteMonitor(org, n)
    <3>1. /\ monitors'[n].stage = "gone" /\ \A x \in MonitorIds \ {n} : monitors'[x] = monitors[x]
          /\ windows'[w].tags = windows[w].tags /\ windows'[w].monitors = windows[w].monitors \ {n}
          /\ windows'[w].stage = windows[w].stage /\ windows'[w].enabled = windows[w].enabled
      BY <2>2, MonitorTaken
    <3>2. m # n
      BY <3>1 DEF Covers, LiveMonitors
    <3>3. monitors'[m] = monitors[m]
      BY <3>1, <3>2
    <3> QED BY <3>1, <3>3, TargetLost DEF CoverageReason
  <2>3. ASSUME NEW b \in BOOLEAN, NEW s, NEW ls \in SUBSET Labels, CreateMonitor(org, n, b, s, ls)
        PROVE  CoverageReason(w, m)
    <3>1. /\ monitors[n].stage = "unused" /\ windows' = windows
          /\ monitors' = [monitors EXCEPT ![n] = NormalizeMonitor(org, b, s, ls)]
      BY <2>3 DEF CreateMonitor
    <3>2. CASE m = n
      BY <3>1, <3>2 DEF CoverageReason
    <3>3. CASE m # n
      <4>1. monitors'[m] = monitors[m]
        BY <3>1, <3>3, <1>t
      <4> QED BY <3>1, <4>1, SameCoverage
    <3> QED BY <3>2, <3>3
  <2>4. ASSUME NEW b \in BOOLEAN, NEW s, NEW ls \in SUBSET Labels, UpdateMonitor(org, n, b, s, ls)
        PROVE  CoverageReason(w, m)
    <3> PICK row : row = [NormalizeMonitor(org, b, s, ls) EXCEPT !.status = monitors[n].status]
      OBVIOUS
    <3>1. /\ monitors[n].stage = "live" /\ windows' = windows /\ monitors' = [monitors EXCEPT ![n] = row]
      BY <2>4 DEF UpdateMonitor, Owned
    <3>2. row.stage = "live"
      BY DEF NormalizeMonitor
    <3>3. monitors'[m].stage = monitors[m].stage
      BY <3>1, <3>2, <1>t
    <3> QED BY <3>1, <3>3, SameCoverage DEF CoverageReason
  <2> QED BY <2>1, <2>2, <2>3, <2>4
<1>4. ASSUME NEW org \in CatOrgs, WindowOps(org)
      PROVE  CoverageReason(w, m)
  <2>1. PICK v \in WindowIds : \E row : windows' = [windows EXCEPT ![v] = row]
    BY <1>4 DEF WindowOps, DeleteMaintenanceWindow, CreateMaintenanceWindow, UpdateMaintenanceWindow
  <2>2. UNCHANGED <<tags, monitors>>
    BY <1>4 DEF WindowOps, DeleteMaintenanceWindow, CreateMaintenanceWindow, UpdateMaintenanceWindow
  <2>3. windows'[w] # windows[w]
    BY <2>2, SameCoverage
  <2> QED BY <2>2, <2>3 DEF CoverageReason
<1>5. ASSUME NEW n \in MonitorIds, NEW st \in {"up", "down"}, UpdateMonitorStatus(n, st)
      PROVE  CoverageReason(w, m)
  <2>1. monitors' = [monitors EXCEPT ![n].status = st] /\ windows' = windows
    BY <1>5 DEF UpdateMonitorStatus
  <2>2. monitors'[m].stage = monitors[m].stage /\ monitors'[m].tags = monitors[m].tags
    BY <2>1, <1>t DEF MonitorRows
  <2> QED BY <2>1, <2>2, SameCoverage
<1> QED BY <1>1, <1>2, <1>3, <1>4, <1>5 DEF CatNext

\* No deletion, edit or status makes a maintenance window cover a monitor it did
\* not cover, but for the deletion of the window's last target, in a catalogue
\* of any size and after any number of edits.
THEOREM CoverageAlwaysGrows == CatSpec => CoverageGrows
<1>1. CatInv /\ [CatNext]_catVars =>
        [\A w \in WindowIds, m \in MonitorIds :
           ~Covers(w, m) /\ Covers(w, m)' =>
             \/ windows'[w] # windows[w] /\ tags' = tags /\ monitors' = monitors
             \/ monitors'[m].tags # monitors[m].tags \/ monitors[m].stage = "unused"
             \/ /\ Cardinality(windows[w].monitors) + Cardinality(windows[w].tags) = 1
                /\ windows'[w].monitors \union windows'[w].tags = {}]_catVars
  BY CoverageStep DEF CoverageReason
<1> QED BY <1>1, CatInvInit, CatInvNext, PTL DEF CatSpec, CoverageGrows

------------------------------------------------------------------------------
(* Dependencies.  Every row is one a committed save wanted; an open save has *)
(* seen it, and will delete it, or its save committed while this one was     *)
(* open.                                                                     *)

DepRows == [parent : Parents, by : DepSavers]
SaveRows == [stage : {"new", "delete", "insert", "committed", "refused"}, wanted : SUBSET Parents,
             seen : SUBSET DepRows, deleted : SUBSET DepRows, beside : SUBSET DepSavers]

DepsTypeOK ==
  /\ deps \subseteq DepRows
  /\ saver \in [DepSavers -> SaveRows]
  /\ lastSaver \in DepSavers \union {Nobody}

RowsCommitted ==
  /\ \A r \in deps : saver[r.by].stage = "committed" /\ r.parent \in saver[r.by].wanted
  /\ \A s \in DepSavers : \A t \in saver[s].beside : saver[t].stage = "committed"

SavesKnow ==
  \A s \in DepSavers : \A r \in deps :
    /\ saver[s].stage = "delete" => r \in saver[s].seen \/ r.by \in saver[s].beside
    /\ saver[s].stage = "insert" => r \in saver[s].deleted \/ r.by \in saver[s].beside

LastSaved ==
  lastSaver # Nobody =>
    /\ saver[lastSaver].stage = "committed"
    /\ OwnRows(lastSaver) \subseteq deps
    /\ \A r \in deps : r.by = lastSaver \/ r.by \in saver[lastSaver].beside

DepsInv == DepsTypeOK /\ RowsCommitted /\ SavesKnow /\ LastSaved

LEMMA DepsInvInit == RecInit => DepsInv
<1> SUFFICES ASSUME RecInit PROVE DepsInv
  OBVIOUS
<1>1. NoSaver \in SaveRows /\ NoSaver.beside = {}
  BY DEF NoSaver, SaveRows
<1>2. DepsTypeOK
  BY <1>1 DEF RecInit, DepsTypeOK
<1> QED BY <1>1, <1>2 DEF RecInit, DepsInv, RowsCommitted, SavesKnow, LastSaved

\* One save goes on; no row is written.
LEMMA SaveStep ==
  ASSUME DepsInv, NEW s \in DepSavers, NEW row \in SaveRows,
         saver' = [saver EXCEPT ![s] = row], UNCHANGED <<deps, lastSaver>>,
         saver[s].stage # "committed", row.stage # "committed",
         row.beside \subseteq saver[s].beside,
         \A r \in deps : /\ row.stage = "delete" => r \in row.seen \/ r.by \in row.beside
                         /\ row.stage = "insert" => r \in row.deleted \/ r.by \in row.beside
  PROVE  DepsInv'
<1>1. saver'[s] = row /\ \A t \in DepSavers \ {s} : saver'[t] = saver[t]
  BY DEF DepsInv, DepsTypeOK
<1>2. DepsTypeOK'
  BY DEF DepsInv, DepsTypeOK
<1>3. \A t \in DepSavers : saver[t].stage = "committed" => t # s /\ saver'[t] = saver[t]
  BY <1>1
<1>4. \A r \in deps : r.by \in DepSavers
  BY DEF DepsInv, DepsTypeOK, DepRows
<1>5. \A t \in DepSavers : saver[t].beside \subseteq DepSavers
  BY DEF DepsInv, DepsTypeOK, SaveRows
<1>6. RowsCommitted'
  BY <1>1, <1>3, <1>4, <1>5 DEF DepsInv, RowsCommitted
<1>7. SavesKnow'
  BY <1>1 DEF DepsInv, SavesKnow
<1>8. LastSaved'
  <2> SUFFICES ASSUME lastSaver # Nobody
               PROVE  /\ saver'[lastSaver].stage = "committed"
                      /\ OwnRows(lastSaver)' \subseteq deps
                      /\ \A r \in deps : r.by = lastSaver \/ r.by \in saver'[lastSaver].beside
    BY DEF LastSaved
  <2>1. lastSaver \in DepSavers /\ saver[lastSaver].stage = "committed"
    BY DEF DepsInv, DepsTypeOK, LastSaved
  <2>2. saver'[lastSaver] = saver[lastSaver]
    BY <1>3, <2>1
  <2> QED BY <2>1, <2>2 DEF DepsInv, LastSaved, OwnRows
<1> QED BY <1>2, <1>6, <1>7, <1>8 DEF DepsInv

LEMMA DepsOpenSave ==
  ASSUME DepsInv, NEW s \in DepSavers, NEW wanted \in SUBSET Parents, OpenSave(s, wanted)
  PROVE  DepsInv'
<1> PICK now : now = deps
  OBVIOUS
<1> PICK base : base = NoSaver
  OBVIOUS
<1> PICK row : row = [base EXCEPT !.stage = "delete", !.wanted = wanted, !.seen = now]
  OBVIOUS
<1>1. now \subseteq DepRows /\ base \in SaveRows /\ base.beside = {}
  BY DEF DepsInv, DepsTypeOK, NoSaver, SaveRows
<1>2. row \in SaveRows /\ row.stage = "delete" /\ row.seen = now /\ row.beside = {}
  BY <1>1 DEF SaveRows
<1>3. saver' = [saver EXCEPT ![s] = row] /\ UNCHANGED <<deps, lastSaver>> /\ saver[s].stage = "new"
  BY DEF OpenSave
<1> QED BY <1>2, <1>3, SaveStep

LEMMA DepsDelete ==
  ASSUME DepsInv, NEW s \in DepSavers, DeleteDependencies(s)
  PROVE  DepsInv'
<1> PICK now : now = deps
  OBVIOUS
<1> PICK old : old = saver[s]
  OBVIOUS
<1> PICK row : row = [old EXCEPT !.stage = "insert", !.deleted = old.seen \intersect now]
  OBVIOUS
<1>1. now \subseteq DepRows /\ old \in SaveRows
  BY DEF DepsInv, DepsTypeOK
<1>2. /\ row \in SaveRows /\ row.stage = "insert" /\ row.deleted = old.seen \intersect now
      /\ row.beside = old.beside
  BY <1>1 DEF SaveRows
<1>3. /\ saver' = [saver EXCEPT ![s] = row] /\ UNCHANGED <<deps, lastSaver>> /\ saver[s].stage = "delete"
  BY <1>1 DEF DeleteDependencies, SaveRows
<1>4. \A r \in deps : r \in row.deleted \/ r.by \in row.beside
  BY <1>2, <1>3 DEF DepsInv, SavesKnow
<1> QED BY <1>2, <1>3, <1>4, SaveStep

LEMMA DepsCommit ==
  ASSUME DepsInv, NEW s \in DepSavers, CommitDependencies(s)
  PROVE  DepsInv'
<1> PICK old : old = saver[s]
  OBVIOUS
<1>0. old \in SaveRows /\ old.stage = "insert"
  BY DEF DepsInv, DepsTypeOK, CommitDependencies
<1>1. CASE ~(saver[s].wanted \subseteq parentLive)
  <2> PICK row : row = [old EXCEPT !.stage = "refused"]
    OBVIOUS
  <2>1. row \in SaveRows /\ row.stage = "refused" /\ row.beside = old.beside
    BY <1>0 DEF SaveRows
  <2>2. saver' = [saver EXCEPT ![s] = row] /\ UNCHANGED <<deps, lastSaver>>
    BY <1>1 DEF CommitDependencies
  <2> QED BY <1>0, <2>1, <2>2, SaveStep
<1>2. CASE saver[s].wanted \subseteq parentLive
  <2>1. /\ deps' = (deps \ old.deleted) \union OwnRows(s)
        /\ lastSaver' = s
        /\ saver' = [t \in DepSavers |->
                       IF t = s THEN [old EXCEPT !.stage = "committed"]
                       ELSE IF saver[t].stage \in {"delete", "insert"} THEN [saver[t] EXCEPT !.beside = @ \union {s}]
                       ELSE saver[t]]
    BY <1>2 DEF CommitDependencies
  <2>2. /\ saver'[s] \in SaveRows /\ saver'[s].stage = "committed"
        /\ saver'[s].wanted = old.wanted /\ saver'[s].beside = old.beside
    <3>1. saver'[s] = [old EXCEPT !.stage = "committed"]
      BY <2>1
    <3> QED BY <1>0, <3>1 DEF SaveRows
  <2>3. ASSUME NEW t \in DepSavers, t # s
        PROVE  /\ saver'[t] \in SaveRows /\ saver'[t].stage = saver[t].stage /\ saver'[t].wanted = saver[t].wanted
               /\ saver'[t].seen = saver[t].seen /\ saver'[t].deleted = saver[t].deleted
               /\ saver'[t].beside = IF saver[t].stage \in {"delete", "insert"} THEN saver[t].beside \union {s}
                                     ELSE saver[t].beside
    <3> PICK q : q = saver[t]
      OBVIOUS
    <3>1. q \in SaveRows
      BY DEF DepsInv, DepsTypeOK
    <3>2. CASE q.stage \in {"delete", "insert"}
      <4>1. saver'[t] = [q EXCEPT !.beside = @ \union {s}]
        BY <2>1, <2>3, <3>2
      <4> QED BY <3>1, <3>2, <4>1 DEF SaveRows
    <3>3. CASE q.stage \notin {"delete", "insert"}
      <4>1. saver'[t] = q
        BY <2>1, <2>3, <3>3
      <4> QED BY <3>1, <3>3, <4>1 DEF SaveRows
    <3> QED BY <3>2, <3>3
  <2>4. OwnRows(s) \subseteq DepRows /\ \A r \in OwnRows(s) : r.by = s /\ r.parent \in old.wanted
    BY <1>0 DEF OwnRows, DepRows, SaveRows
  <2>5. DepsTypeOK'
    <3>1. saver' \in [DepSavers -> SaveRows]
      BY <2>1, <2>2, <2>3
    <3> QED BY <2>1, <2>4, <3>1 DEF DepsInv, DepsTypeOK
  <2>6. \A r \in deps : r.by \in DepSavers /\ r.by # s /\ saver[r.by].stage = "committed"
    BY <1>0 DEF DepsInv, DepsTypeOK, DepRows, RowsCommitted
  <2>7. RowsCommitted'
    <3>1. ASSUME NEW r \in deps'
          PROVE  saver'[r.by].stage = "committed" /\ r.parent \in saver'[r.by].wanted
      <4>1. CASE r \in deps
        BY <2>3, <2>6, <4>1 DEF DepsInv, RowsCommitted
      <4>2. CASE r \in OwnRows(s)
        BY <2>2, <2>4, <4>2
      <4> QED BY <2>1, <4>1, <4>2
    <3>2. ASSUME NEW t \in DepSavers, NEW u \in saver'[t].beside
          PROVE  saver'[u].stage = "committed"
      <4>1. u = s \/ u \in saver[t].beside
        BY <2>2, <2>3
      <4>2. ASSUME u \in saver[t].beside, u # s PROVE saver'[u].stage = "committed"
        <5>1. saver[u].stage = "committed" /\ u \in DepSavers
          BY <4>2 DEF DepsInv, DepsTypeOK, SaveRows, RowsCommitted
        <5> QED BY <2>3, <4>2, <5>1
      <4> QED BY <2>2, <4>1, <4>2
    <3> QED BY <3>1, <3>2 DEF RowsCommitted
  <2>8. SavesKnow'
    <3> SUFFICES ASSUME NEW t \in DepSavers, NEW r \in deps'
                 PROVE  /\ saver'[t].stage = "delete" => r \in saver'[t].seen \/ r.by \in saver'[t].beside
                        /\ saver'[t].stage = "insert" => r \in saver'[t].deleted \/ r.by \in saver'[t].beside
      BY DEF SavesKnow
    <3>1. CASE t = s
      BY <2>2, <3>1
    <3>2. CASE t # s /\ r \in deps
      BY <2>3, <3>2 DEF DepsInv, SavesKnow
    <3>3. CASE t # s /\ r \in OwnRows(s)
      BY <2>3, <2>4, <3>3
    <3> QED BY <2>1, <3>1, <3>2, <3>3
  <2>9. LastSaved'
    <3>1. saver'[s].stage = "committed"
      BY <2>2
    <3>2. OwnRows(s)' = OwnRows(s)
      BY <2>2 DEF OwnRows
    <3>3. ASSUME NEW r \in deps' PROVE r.by = s \/ r.by \in saver'[s].beside
      <4>1. CASE r \in deps /\ r \notin old.deleted
        BY <1>0, <2>2, <4>1 DEF DepsInv, SavesKnow
      <4>2. CASE r \in OwnRows(s)
        BY <2>4, <4>2
      <4> QED BY <2>1, <4>1, <4>2
    <3> QED BY <2>1, <3>1, <3>2, <3>3 DEF LastSaved, OwnRows
  <2> QED BY <2>5, <2>7, <2>8, <2>9 DEF DepsInv
<1> QED BY <1>1, <1>2

LEMMA DepsQuiet == DepsInv /\ UNCHANGED <<deps, saver, lastSaver>> => DepsInv'
BY DEF DepsInv, DepsTypeOK, RowsCommitted, SavesKnow, LastSaved, OwnRows

LEMMA DepsInvNext == DepsInv /\ [RecNext]_recVars => DepsInv'
<1> SUFFICES ASSUME DepsInv, [RecNext]_recVars PROVE DepsInv'
  OBVIOUS
<1>1. CASE UNCHANGED recVars
  BY <1>1, DepsQuiet DEF recVars
<1>2. CASE NotesNext
  <2>1. UNCHANGED <<deps, saver, lastSaver>>
    BY <1>2 DEF NotesNext, CommentOps, PostmortemOps, ItemOps, CreateIncidentComment, UpdateIncidentComment,
             DeleteIncidentComment, CreateIncidentActionItem, UpdateIncidentActionItem, RecordIncidentTimeline,
             ReadPostmortem, InsertPostmortem, UpdatePostmortem, AuthorStops
  <2> QED BY <2>1, DepsQuiet
<1>3. ASSUME NEW s \in DepSavers,
             \/ DeleteDependencies(s) \/ CommitDependencies(s)
             \/ \E wanted \in SUBSET Parents : OpenSave(s, wanted)
      PROVE  DepsInv'
  BY <1>3, DepsDelete, DepsCommit, DepsOpenSave
<1>4. ASSUME NEW p \in Parents, ParentDeleted(p)
      PROVE  DepsInv'
  BY <1>4, DepsQuiet DEF ParentDeleted
<1> QED BY <1>1, <1>2, <1>3, <1>4 DEF RecNext, DepsNext

LEMMA DepsFollow == DepsInv => DependenciesFollowSaves
<1> SUFFICES ASSUME DepsInv, lastSaver # Nobody
             PROVE  /\ saver[lastSaver].wanted \subseteq {r.parent : r \in deps}
                    /\ {r.parent : r \in deps} \subseteq
                         saver[lastSaver].wanted \union UNION {saver[s].wanted : s \in saver[lastSaver].beside}
  BY DEF DependenciesFollowSaves
<1>1. ASSUME NEW p \in saver[lastSaver].wanted PROVE p \in {r.parent : r \in deps}
  <2>1. [parent |-> p, by |-> lastSaver] \in deps
    BY DEF DepsInv, LastSaved, OwnRows
  <2>2. p = [parent |-> p, by |-> lastSaver].parent
    OBVIOUS
  <2> QED BY <2>1, <2>2
<1>2. ASSUME NEW r \in deps
      PROVE  r.parent \in saver[lastSaver].wanted \union UNION {saver[s].wanted : s \in saver[lastSaver].beside}
  <2>1. r.parent \in saver[r.by].wanted /\ (r.by = lastSaver \/ r.by \in saver[lastSaver].beside)
    BY DEF DepsInv, RowsCommitted, LastSaved
  <2> QED BY <2>1
<1> QED BY <1>1, <1>2

------------------------------------------------------------------------------
(* Notes.  An author's event is written after its row, by the same author.   *)

AuthorStages == {"new", "log", "insert", "update", "done", "refused", "stopped"}
Notes == {"none", "comment", "edit", "delete", "item", "postmortem"}
Writers == Authors \union {Nobody}
CommentRows == [id : Authors, body : Authors]
ItemRows == [id : Authors, title : Authors, doneBy : Writers]

NotesTypeOK ==
  /\ author \in [Authors -> [stage : AuthorStages, op : Notes]]
  /\ comments \subseteq CommentRows /\ items \subseteq ItemRows
  /\ timeline \subseteq [type : Notes, id : Authors]
  /\ postmortem \in [creator : Writers, text : Writers]

EventsTrue ==
  \A e \in timeline : author[e.id].op = e.type /\ author[e.id].stage = "done" /\ e.id \notin unlogged

RowsTold ==
  \A row \in comments \union items :
    author[row.id].stage = "log" \/ row.id \in unlogged \/ \E e \in timeline : e.id = row.id

\* The author whose event about the post-mortem is written, or will be, made it.
OneCreator ==
  /\ postmortem.text = lastText
  /\ \A a \in Authors : author[a].stage = "log" /\ author[a].op = "postmortem" => postmortem.creator = a
  /\ \A a \in Authors : [type |-> "postmortem", id |-> a] \in timeline => postmortem.creator = a

UnloggedEnded == \A a \in unlogged : a \in Authors /\ author[a].stage \in {"done", "stopped"}

NotesInv == NotesTypeOK /\ EventsTrue /\ RowsTold /\ OneCreator /\ UnloggedEnded

LEMMA NotesInvInit == RecInit => NotesInv
<1> SUFFICES ASSUME RecInit PROVE NotesInv
  OBVIOUS
<1>1. NotesTypeOK
  BY DEF RecInit, NoAuthor, AuthorStages, Notes, Writers, NotesTypeOK
<1>2. \A a \in Authors : author[a].stage = "new"
  BY DEF RecInit, NoAuthor
<1> QED BY <1>1, <1>2 DEF RecInit, NotesInv, EventsTrue, RowsTold, OneCreator, UnloggedEnded

LEMMA AuthorGoes ==
  ASSUME NotesInv, NEW a \in Authors, NEW stage, NEW op, Goes(a, stage, op)
  PROVE  author'[a] = [stage |-> stage, op |-> op] /\ \A b \in Authors \ {a} : author'[b] = author[b]
BY DEF Goes, NotesInv, NotesTypeOK

\* An author that has written nothing yet writes rows of comments and items.
LEMMA RowsWritten ==
  ASSUME NotesInv, NEW a \in Authors, author[a].stage = "new",
         NEW stage \in {"log", "done"}, NEW op \in {"comment", "edit", "delete", "item"}, Goes(a, stage, op),
         UNCHANGED <<timeline, unlogged, postmortem, lastText>>,
         comments' \subseteq CommentRows, items' \subseteq ItemRows,
         \A row \in comments' \union items' :
           \/ stage = "log" /\ row.id = a
           \/ \E old \in comments \union items : row.id = old.id
  PROVE  NotesInv'
<1>1. author'[a] = [stage |-> stage, op |-> op] /\ \A b \in Authors \ {a} : author'[b] = author[b]
  BY AuthorGoes
<1>2. NotesTypeOK'
  <2>1. author' \in [Authors -> [stage : AuthorStages, op : Notes]]
    BY DEF NotesInv, NotesTypeOK, Goes, AuthorStages, Notes
  <2> QED BY <2>1 DEF NotesInv, NotesTypeOK
<1>3. EventsTrue'
  <2>1. \A e \in timeline : e.id \in Authors /\ e.id # a
    BY DEF NotesInv, NotesTypeOK, EventsTrue
  <2> QED BY <1>1, <2>1 DEF NotesInv, EventsTrue
<1>4. RowsTold'
  <2> SUFFICES ASSUME NEW row \in comments' \union items'
               PROVE  author'[row.id].stage = "log" \/ row.id \in unlogged \/ \E e \in timeline : e.id = row.id
    BY DEF RowsTold
  <2>1. CASE stage = "log" /\ row.id = a
    BY <1>1, <2>1
  <2>2. ASSUME NEW old \in comments \union items, row.id = old.id
        PROVE  author'[row.id].stage = "log" \/ row.id \in unlogged \/ \E e \in timeline : e.id = row.id
    <3>1. author[row.id].stage = "log" \/ row.id \in unlogged \/ \E e \in timeline : e.id = row.id
      BY <2>2 DEF NotesInv, RowsTold
    <3>2. author[row.id].stage = "log" => row.id # a /\ row.id \in Authors
      BY <2>2 DEF NotesInv, NotesTypeOK, CommentRows, ItemRows
    <3> QED BY <1>1, <3>1, <3>2
  <2> QED BY <2>1, <2>2
<1>5. OneCreator'
  BY <1>1 DEF NotesInv, OneCreator
<1>6. UnloggedEnded'
  BY <1>1 DEF NotesInv, UnloggedEnded
<1> QED BY <1>2, <1>3, <1>4, <1>5, <1>6 DEF NotesInv

LEMMA NotesRows ==
  ASSUME NotesInv, NEW a \in Authors, CommentOps(a) \/ ItemOps(a)
  PROVE  NotesInv'
<1>0. comments \subseteq CommentRows /\ items \subseteq ItemRows
  BY DEF NotesInv, NotesTypeOK
<1>1. CASE CreateIncidentComment(a)
  <2>1. \A row \in comments' \union items' : row.id = a \/ \E old \in comments \union items : row.id = old.id
    BY <1>1 DEF CreateIncidentComment
  <2>9. comments' \subseteq CommentRows /\ items' \subseteq ItemRows
    BY <1>0, <1>1 DEF CreateIncidentComment, CommentRows
  <2> QED BY <1>1, <2>1, <2>9, RowsWritten DEF CreateIncidentComment
<1>2. CASE UpdateIncidentComment(a)
  <2>1. PICK c \in comments : comments' = (comments \ {c}) \union {[c EXCEPT !.body = a]}
    BY <1>2 DEF UpdateIncidentComment
  <2>2. [c EXCEPT !.body = a].id = c.id /\ [c EXCEPT !.body = a] \in CommentRows
    BY <1>0 DEF CommentRows
  <2>3. \A row \in comments' \union items' : \E old \in comments \union items : row.id = old.id
    BY <1>2, <2>1, <2>2 DEF UpdateIncidentComment
  <2>9. comments' \subseteq CommentRows /\ items' \subseteq ItemRows
    BY <1>0, <1>2, <2>1, <2>2 DEF UpdateIncidentComment
  <2> QED BY <1>2, <2>3, <2>9, RowsWritten DEF UpdateIncidentComment
<1>3. CASE DeleteIncidentComment(a)
  <2>1. \A row \in comments' \union items' : \E old \in comments \union items : row.id = old.id
    BY <1>3 DEF DeleteIncidentComment
  <2>9. comments' \subseteq CommentRows /\ items' \subseteq ItemRows
    BY <1>0, <1>3 DEF DeleteIncidentComment
  <2> QED BY <1>3, <2>1, <2>9, RowsWritten DEF DeleteIncidentComment
<1>4. CASE CreateIncidentActionItem(a)
  <2>1. \A row \in comments' \union items' : row.id = a \/ \E old \in comments \union items : row.id = old.id
    BY <1>4 DEF CreateIncidentActionItem
  <2>9. comments' \subseteq CommentRows /\ items' \subseteq ItemRows
    BY <1>0, <1>4 DEF CreateIncidentActionItem, ItemRows, Writers
  <2> QED BY <1>4, <2>1, <2>9, RowsWritten DEF CreateIncidentActionItem
<1>5. ASSUME NEW done \in BOOLEAN, UpdateIncidentActionItem(a, done)
      PROVE  NotesInv'
  <2>1. PICK i \in items :
          items' = (items \ {i}) \union {[i EXCEPT !.title = a, !.doneBy = IF done THEN a ELSE Nobody]}
    BY <1>5 DEF UpdateIncidentActionItem
  <2> PICK by \in Writers : by = IF done THEN a ELSE Nobody
    BY DEF Writers
  <2>2. [i EXCEPT !.title = a, !.doneBy = by].id = i.id /\ [i EXCEPT !.title = a, !.doneBy = by] \in ItemRows
    BY <1>0 DEF ItemRows
  <2>3. \A row \in comments' \union items' : \E old \in comments \union items : row.id = old.id
    BY <1>5, <2>1, <2>2 DEF UpdateIncidentActionItem
  <2>9. comments' \subseteq CommentRows /\ items' \subseteq ItemRows
    BY <1>0, <1>5, <2>1, <2>2 DEF UpdateIncidentActionItem
  <2> QED BY <1>5, <2>3, <2>9, RowsWritten DEF UpdateIncidentActionItem
<1> QED BY <1>1, <1>2, <1>3, <1>4, <1>5 DEF CommentOps, ItemOps

LEMMA NotesTimeline ==
  ASSUME NotesInv, NEW a \in Authors, NEW ok \in BOOLEAN, RecordIncidentTimeline(a, ok)
  PROVE  NotesInv'
<1> PICK op : op = author[a].op
  OBVIOUS
<1>1. /\ author[a].stage = "log" /\ Goes(a, "done", op)
      /\ UNCHANGED <<comments, postmortem, items, lastText>>
      /\ timeline' = IF ok THEN timeline \union {[type |-> op, id |-> a]} ELSE timeline
      /\ unlogged' = IF ok THEN unlogged ELSE unlogged \union {a}
  BY DEF RecordIncidentTimeline
<1>2. author'[a] = [stage |-> "done", op |-> op] /\ \A b \in Authors \ {a} : author'[b] = author[b]
  BY <1>1, AuthorGoes
<1>3. \A e \in timeline : e.id # a
  BY <1>1 DEF NotesInv, EventsTrue
<1>o. op \in Notes
  BY DEF NotesInv, NotesTypeOK
<1> PICK event : event = [type |-> op, id |-> a]
  OBVIOUS
<1>4. event.type = op /\ event.id = a /\ timeline \subseteq timeline' /\ unlogged \subseteq unlogged'
      /\ (\A e \in timeline' : e \in timeline \/ (ok /\ e = event))
      /\ (\A b \in unlogged' : b \in unlogged \/ (~ok /\ b = a))
      /\ (ok => event \in timeline') /\ (~ok => a \in unlogged')
  BY <1>1
<1>5. NotesTypeOK'
  <2>1. author' \in [Authors -> [stage : AuthorStages, op : Notes]]
    BY <1>1, <1>o DEF NotesInv, NotesTypeOK, Goes, AuthorStages
  <2>2. timeline' \subseteq [type : Notes, id : Authors]
    BY <1>1, <1>o DEF NotesInv, NotesTypeOK
  <2> QED BY <1>1, <2>1, <2>2 DEF NotesInv, NotesTypeOK
<1>6. EventsTrue'
  <2> SUFFICES ASSUME NEW e \in timeline'
               PROVE  author'[e.id].op = e.type /\ author'[e.id].stage = "done" /\ e.id \notin unlogged'
    BY DEF EventsTrue
  <2>1. CASE e \in timeline
    <3>1. e.id # a /\ e.id \in Authors
      BY <1>3, <2>1 DEF NotesInv, NotesTypeOK
    <3> QED BY <1>2, <1>4, <2>1, <3>1 DEF NotesInv, EventsTrue
  <2>2. CASE ok /\ e = event
    <3>1. a \notin unlogged
      BY <1>1 DEF NotesInv, UnloggedEnded
    <3> QED BY <1>2, <1>4, <2>2, <3>1
  <2> QED BY <1>4, <2>1, <2>2
<1>7. RowsTold'
  <2> SUFFICES ASSUME NEW row \in comments \union items
               PROVE  author'[row.id].stage = "log" \/ row.id \in unlogged' \/ \E e \in timeline' : e.id = row.id
    BY <1>1 DEF RowsTold
  <2>1. author[row.id].stage = "log" \/ row.id \in unlogged \/ \E e \in timeline : e.id = row.id
    BY DEF NotesInv, RowsTold
  <2>2. row.id \in Authors
    BY DEF NotesInv, NotesTypeOK, CommentRows, ItemRows
  <2>3. row.id = a => row.id \in unlogged' \/ \E e \in timeline' : e.id = row.id
    BY <1>4
  <2> QED BY <1>2, <1>4, <2>1, <2>2, <2>3
<1>8. OneCreator'
  <2>1. \A b \in Authors : author'[b].stage = "log" => b # a /\ author'[b] = author[b]
    BY <1>2
  <2>2. ASSUME NEW b \in Authors, [type |-> "postmortem", id |-> b] \in timeline' PROVE postmortem.creator = b
    <3>1. CASE [type |-> "postmortem", id |-> b] \in timeline
      BY <3>1 DEF NotesInv, OneCreator
    <3>2. CASE [type |-> "postmortem", id |-> b] = event
      <4>1. b = a /\ op = "postmortem"
        BY <1>4, <3>2
      <4> QED BY <1>1, <4>1 DEF NotesInv, OneCreator
    <3> QED BY <1>4, <2>2, <3>1, <3>2
  <2> QED BY <1>1, <2>1, <2>2 DEF NotesInv, OneCreator
<1>9. UnloggedEnded'
  BY <1>2, <1>4 DEF NotesInv, UnloggedEnded
<1> QED BY <1>5, <1>6, <1>7, <1>8, <1>9 DEF NotesInv

\* An author whose event is not due, or is given up, goes on or ends.
LEMMA AuthorMoves ==
  ASSUME NotesInv, NEW a \in Authors, NEW stage \in AuthorStages, NEW op \in Notes, Goes(a, stage, op),
         UNCHANGED <<comments, items, timeline>>, unlogged \subseteq unlogged',
         \A b \in unlogged' : b \in unlogged \/ (b = a /\ stage = "stopped"),
         author[a].stage \notin {"done", "stopped"},
         author[a].stage = "log" => a \in unlogged',
         OneCreator', (postmortem \in [creator : Writers, text : Writers])'
  PROVE  NotesInv'
<1>1. author'[a] = [stage |-> stage, op |-> op] /\ \A b \in Authors \ {a} : author'[b] = author[b]
  BY AuthorGoes
<1>2. NotesTypeOK'
  <2>1. author' \in [Authors -> [stage : AuthorStages, op : Notes]]
    BY DEF NotesInv, NotesTypeOK, Goes
  <2> QED BY <2>1 DEF NotesInv, NotesTypeOK
<1>3. EventsTrue'
  <2>1. \A e \in timeline : e.id \in Authors /\ e.id # a
    BY DEF NotesInv, NotesTypeOK, EventsTrue
  <2> QED BY <1>1, <2>1 DEF NotesInv, EventsTrue
<1>4. RowsTold'
  <2> SUFFICES ASSUME NEW row \in comments \union items
               PROVE  author'[row.id].stage = "log" \/ row.id \in unlogged' \/ \E e \in timeline : e.id = row.id
    BY DEF RowsTold
  <2>1. author[row.id].stage = "log" \/ row.id \in unlogged \/ \E e \in timeline : e.id = row.id
    BY DEF NotesInv, RowsTold
  <2>2. row.id \in Authors
    BY DEF NotesInv, NotesTypeOK, CommentRows, ItemRows
  <2> QED BY <1>1, <2>1, <2>2
<1>5. UnloggedEnded'
  BY <1>1 DEF NotesInv, UnloggedEnded
<1> QED BY <1>2, <1>3, <1>4, <1>5 DEF NotesInv

LEMMA NotesPostmortem ==
  ASSUME NotesInv, NEW a \in Authors, PostmortemOps(a)
  PROVE  NotesInv'
<1>0. a # Nobody /\ "postmortem" \in Notes /\ {"log", "done", "refused", "insert", "update"} \subseteq AuthorStages
      /\ a \in Writers
  BY RecordsAssumption DEF Notes, AuthorStages, Writers
<1>1. CASE ReadPostmortem(a)
  <2> PICK stage : stage = IF postmortem.creator = Nobody THEN "insert" ELSE "update"
    OBVIOUS
  <2>1. /\ author[a].stage = "new" /\ Goes(a, stage, "postmortem") /\ stage \in {"insert", "update"}
        /\ UNCHANGED <<comments, postmortem, items, timeline, lastText, unlogged>>
    BY <1>1 DEF ReadPostmortem
  <2>2. author'[a] = [stage |-> stage, op |-> "postmortem"] /\ \A b \in Authors \ {a} : author'[b] = author[b]
    BY <2>1, AuthorGoes
  <2>3. OneCreator'
    BY <2>1, <2>2 DEF NotesInv, OneCreator
  <2>4. (postmortem \in [creator : Writers, text : Writers])'
    BY <2>1 DEF NotesInv, NotesTypeOK
  <2> QED BY <1>0, <2>1, <2>3, <2>4, AuthorMoves
<1>2. CASE InsertPostmortem(a) /\ postmortem.creator = Nobody
  <2>1. /\ author[a].stage = "insert" /\ Goes(a, "log", "postmortem")
        /\ postmortem' = [creator |-> a, text |-> a] /\ lastText' = a
        /\ UNCHANGED <<comments, items, timeline, unlogged>>
    BY <1>2 DEF InsertPostmortem
  <2>2. author'[a] = [stage |-> "log", op |-> "postmortem"] /\ \A b \in Authors \ {a} : author'[b] = author[b]
    BY <2>1, AuthorGoes
  <2>3. OneCreator'
    <3>1. \A b \in Authors : b # Nobody
      BY RecordsAssumption
    <3>2. \A b \in Authors : ~(author[b].stage = "log" /\ author[b].op = "postmortem")
                             /\ [type |-> "postmortem", id |-> b] \notin timeline
      BY <1>2, <3>1 DEF NotesInv, OneCreator
    <3> QED BY <2>1, <2>2, <3>2 DEF OneCreator
  <2>4. (postmortem \in [creator : Writers, text : Writers])'
    BY <1>0, <2>1
  <2> QED BY <1>0, <2>1, <2>3, <2>4, AuthorMoves
<1>3. CASE InsertPostmortem(a) /\ postmortem.creator # Nobody
  <2>1. /\ author[a].stage = "insert" /\ Goes(a, "refused", "postmortem")
        /\ UNCHANGED <<comments, postmortem, items, timeline, lastText, unlogged>>
    BY <1>3 DEF InsertPostmortem
  <2>2. author'[a] = [stage |-> "refused", op |-> "postmortem"] /\ \A b \in Authors \ {a} : author'[b] = author[b]
    BY <2>1, AuthorGoes
  <2>3. OneCreator'
    BY <2>1, <2>2 DEF NotesInv, OneCreator
  <2>4. (postmortem \in [creator : Writers, text : Writers])'
    BY <2>1 DEF NotesInv, NotesTypeOK
  <2> QED BY <1>0, <2>1, <2>3, <2>4, AuthorMoves
<1>4. CASE UpdatePostmortem(a)
  <2> PICK old : old = postmortem
    OBVIOUS
  <2>1. /\ author[a].stage = "update" /\ Goes(a, "done", "postmortem")
        /\ postmortem' = [old EXCEPT !.text = a] /\ lastText' = a
        /\ UNCHANGED <<comments, items, timeline, unlogged>>
    BY <1>4 DEF UpdatePostmortem
  <2>2. author'[a] = [stage |-> "done", op |-> "postmortem"] /\ \A b \in Authors \ {a} : author'[b] = author[b]
    BY <2>1, AuthorGoes
  <2>3. old \in [creator : Writers, text : Writers]
    BY DEF NotesInv, NotesTypeOK
  <2>4. /\ postmortem' \in [creator : Writers, text : Writers]
        /\ postmortem'.text = a /\ postmortem'.creator = old.creator
    BY <1>0, <2>1, <2>3
  <2>5. OneCreator'
    BY <2>1, <2>2, <2>4 DEF NotesInv, OneCreator
  <2> QED BY <1>0, <2>1, <2>4, <2>5, AuthorMoves
<1> QED BY <1>1, <1>2, <1>3, <1>4 DEF PostmortemOps

LEMMA NotesStop ==
  ASSUME NotesInv, NEW a \in Authors, AuthorStops(a)
  PROVE  NotesInv'
<1> PICK op : op = author[a].op
  OBVIOUS
<1>1. /\ author[a].stage \in {"log", "insert", "update"} /\ Goes(a, "stopped", op)
      /\ UNCHANGED <<comments, postmortem, items, timeline, lastText>>
      /\ unlogged' = IF author[a].stage = "log" THEN unlogged \union {a} ELSE unlogged
  BY DEF AuthorStops
<1>2. author'[a] = [stage |-> "stopped", op |-> op] /\ \A b \in Authors \ {a} : author'[b] = author[b]
  BY <1>1, AuthorGoes
<1>3. op \in Notes /\ "stopped" \in AuthorStages
  BY DEF NotesInv, NotesTypeOK, AuthorStages
<1>4. OneCreator'
  BY <1>1, <1>2 DEF NotesInv, OneCreator
<1>5. (postmortem \in [creator : Writers, text : Writers])'
  BY <1>1 DEF NotesInv, NotesTypeOK
<1>6. unlogged \subseteq unlogged' /\ (\A b \in unlogged' : b \in unlogged \/ b = a)
      /\ (author[a].stage = "log" => a \in unlogged')
  BY <1>1
<1> QED BY <1>1, <1>3, <1>4, <1>5, <1>6, AuthorMoves

LEMMA NotesQuiet == NotesInv /\ UNCHANGED notes => NotesInv'
BY DEF notes, NotesInv, NotesTypeOK, EventsTrue, RowsTold, OneCreator, UnloggedEnded

LEMMA NotesInvNext == NotesInv /\ [RecNext]_recVars => NotesInv'
<1> SUFFICES ASSUME NotesInv, [RecNext]_recVars PROVE NotesInv'
  OBVIOUS
<1>1. CASE UNCHANGED recVars
  BY <1>1, NotesQuiet DEF recVars
<1>2. CASE DepsNext
  BY <1>2, NotesQuiet DEF DepsNext, OpenSave, DeleteDependencies, CommitDependencies, ParentDeleted
<1>3. CASE NotesNext
  BY <1>3, NotesRows, NotesPostmortem, NotesTimeline, NotesStop DEF NotesNext
<1> QED BY <1>1, <1>2, <1>3 DEF RecNext

LEMMA NotesTrue == NotesInv => NotesAreTrue
BY DEF NotesInv, EventsTrue, RowsTold, OneCreator, NotesAreTrue

------------------------------------------------------------------------------
(* Status pages.  No two live pages share a slug or a domain.                *)

PageRows == [stage : {"unused", "live", "gone"}, slug : Slugs \union {""}, domain : Domains, verified : BOOLEAN,
             published : BOOLEAN, public : BOOLEAN, autoUpdates : BOOLEAN]

PagesInv ==
  /\ pages \in [PageIds -> PageRows]
  /\ \A g, h \in LivePages : g # h => pages[g].slug # pages[h].slug /\ pages[g].domain # pages[h].domain
  /\ \A g \in LivePages : pages[g].published <=> pages[g].public

LEMMA PagesInvInit == StatusInit => PagesInv
<1> SUFFICES ASSUME StatusInit PROVE PagesInv
  OBVIOUS
<1>1. NoPage \in PageRows /\ NoPage.stage = "unused"
  BY StatusPagesAssumption DEF NoPage, PageRows
<1>2. pages \in [PageIds -> PageRows] /\ LivePages = {}
  BY <1>1 DEF StatusInit, LivePages
<1> QED BY <1>2 DEF PagesInv

\* A page is saved whose slug and domain no other live page has.
LEMMA PageSaved ==
  ASSUME PagesInv, NEW g \in PageIds, NEW row \in PageRows, pages' = [pages EXCEPT ![g] = row],
         row.stage = "live" => Unique(g, row.slug, row.domain) /\ (row.published <=> row.public)
  PROVE  PagesInv'
<1>1. pages' \in [PageIds -> PageRows]
  BY DEF PagesInv
<1>2. pages'[g] = row /\ \A h \in PageIds \ {g} : pages'[h] = pages[h]
  BY DEF PagesInv
<1>4. \A h \in LivePages' : h # g => h \in LivePages \ {g} /\ pages'[h] = pages[h]
  BY <1>2 DEF LivePages
<1>5. \A h \in LivePages' : h # g /\ row.stage = "live" => pages[h].slug # row.slug /\ pages[h].domain # row.domain
  BY <1>4 DEF Unique
<1>6. g \in LivePages' => row.stage = "live"
  BY <1>2 DEF LivePages
<1>7. ASSUME NEW x \in LivePages', NEW y \in LivePages', x # y
      PROVE  pages'[x].slug # pages'[y].slug /\ pages'[x].domain # pages'[y].domain
  <2>1. CASE x # g /\ y # g
    BY <1>4, <1>7, <2>1 DEF PagesInv
  <2>2. CASE x = g
    BY <1>2, <1>4, <1>5, <1>6, <1>7, <2>2
  <2>3. CASE y = g
    BY <1>2, <1>4, <1>5, <1>6, <1>7, <2>3
  <2> QED BY <2>1, <2>2, <2>3
<1>8. \A h \in LivePages' : pages'[h].published <=> pages'[h].public
  BY <1>2, <1>4, <1>6 DEF PagesInv
<1> QED BY <1>1, <1>7, <1>8 DEF PagesInv

LEMMA PagesInvNext == PagesInv /\ [PagesNext \/ MailNext]_pagesVars => PagesInv'
<1> SUFFICES ASSUME PagesInv, [PagesNext \/ MailNext]_pagesVars PROVE PagesInv'
  OBVIOUS
<1>0. ASSUME pages' = pages PROVE PagesInv'
  BY <1>0 DEF PagesInv, LivePages
<1>1. CASE UNCHANGED pagesVars
  BY <1>0, <1>1 DEF pagesVars
<1>2. CASE MailNext
  BY <1>0, <1>2 DEF MailNext, Subscribe, Confirm, Unsubscribe, DeleteStatusPageComponent,
       CreateStatusPageAnnouncement, CreateDraft, AutoCreateStatusPageIncidentUpdate,
       ListStatusPageSubscribers, StartSending, MailOne, SendingEnds, SendingStops, ChannelToggled
<1>3. ASSUME NEW g \in PageIds, NEW slug \in Slugs, NEW d \in Domains, NEW p \in BOOLEAN,
             CreateStatusPage(g, slug, d, p)
      PROVE  PagesInv'
  <2> PICK row : row = [stage |-> "live", slug |-> slug, domain |-> d, verified |-> FALSE,
                        published |-> p, public |-> p, autoUpdates |-> FALSE]
    OBVIOUS
  <2>1. row \in PageRows /\ row.slug = slug /\ row.domain = d
    BY DEF PageRows
  <2>2. row.published <=> row.public
    OBVIOUS
  <2>3. pages' = [pages EXCEPT ![g] = row] /\ Unique(g, slug, d)
    BY <1>3 DEF CreateStatusPage
  <2> QED BY <2>1, <2>2, <2>3, PageSaved
<1>4. ASSUME NEW g \in PageIds, NEW page \in PageRequests, UpdateStatusPage(g, page)
      PROVE  PagesInv'
  <2> PICK shown \in BOOLEAN : shown = (page.published \/ page.public)
    OBVIOUS
  <2> PICK row : row = [stage |-> "live", slug |-> page.slug, domain |-> page.domain,
                        verified |-> page.verified, autoUpdates |-> page.autoUpdates,
                        published |-> shown, public |-> shown]
    OBVIOUS
  <2>0. page.slug \in Slugs /\ page.domain \in Domains /\ page.verified \in BOOLEAN /\ page.autoUpdates \in BOOLEAN
    BY DEF PageRequests
  <2>1. row \in PageRows /\ row.slug = page.slug /\ row.domain = page.domain
    BY <2>0 DEF PageRows
  <2>2. row.published <=> row.public
    OBVIOUS
  <2>3. pages' = [pages EXCEPT ![g] = row] /\ Unique(g, page.slug, page.domain)
    <3>1. (page.public \/ page.published) = shown
      OBVIOUS
    <3> QED BY <1>4, <3>1 DEF UpdateStatusPage
  <2> QED BY <2>1, <2>2, <2>3, PageSaved
<1>5. ASSUME NEW g \in PageIds, DeleteStatusPage(g)
      PROVE  PagesInv'
  <2> PICK row : row = [NoPage EXCEPT !.stage = "gone"]
    OBVIOUS
  <2>1. row \in PageRows /\ row.stage = "gone"
    BY StatusPagesAssumption DEF NoPage, PageRows
  <2>2. pages' = [pages EXCEPT ![g] = row]
    BY <1>5 DEF DeleteStatusPage
  <2> QED BY <2>1, <2>2, PageSaved
<1> QED BY <1>1, <1>2, <1>3, <1>4, <1>5 DEF PagesNext

LEMMA AtMostOne ==
  ASSUME NEW S, \A x, y \in S : x = y
  PROVE  Cardinality(S) <= 1
<1>1. CASE S = {}
  BY <1>1, FS_EmptySet
<1>2. ASSUME NEW x \in S PROVE Cardinality(S) <= 1
  <2>1. S = {x}
    OBVIOUS
  <2> QED BY <2>1, FS_Singleton
<1> QED BY <1>1, <1>2

LEMMA PagesFound == PagesInv => PagesAnswer
<1> SUFFICES ASSUME PagesInv PROVE PagesAnswer
  OBVIOUS
<1>1. ASSUME NEW slug, slug # "" PROVE \A x, y \in LookupPublishedPage(slug, NoDomain) : x = y
  BY <1>1 DEF PagesInv, LookupPublishedPage, GetStatusPageBySlug
<1>2. ASSUME NEW host PROVE \A x, y \in LookupPublishedPage("", host) : x = y
  BY DEF PagesInv, LookupPublishedPage, GetStatusPageByDomain
<1>3. \A slug \in Slugs : Cardinality(LookupPublishedPage(slug, NoDomain)) <= 1
  <2> SUFFICES ASSUME NEW slug \in Slugs PROVE Cardinality(LookupPublishedPage(slug, NoDomain)) <= 1
    OBVIOUS
  <2> PICK found : found = LookupPublishedPage(slug, NoDomain)
    OBVIOUS
  <2>1. \A x, y \in found : x = y
    BY <1>1, <1>2
  <2> QED BY <2>1, AtMostOne
<1>4. ASSUME NEW host \in Domains
      PROVE  /\ Cardinality(LookupPublishedPage("", host)) <= 1
             /\ \A g \in LookupPublishedPage("", host) : g \in LookupPublishedPage(pages[g].slug, host)
  <2> PICK found : found = LookupPublishedPage("", host)
    OBVIOUS
  <2>1. \A x, y \in found : x = y
    BY <1>2
  <2>2. Cardinality(found) <= 1
    BY <2>1, AtMostOne
  <2>3. ASSUME NEW g \in LookupPublishedPage("", host) PROVE g \in LookupPublishedPage(pages[g].slug, host)
    <3>1. CASE pages[g].slug = ""
      BY <3>1
    <3>2. CASE pages[g].slug # ""
      <4>1. g \in LivePages /\ pages[g].published
        BY DEF LookupPublishedPage, GetStatusPageByDomain
      <4> QED BY <3>2, <4>1 DEF LookupPublishedPage, GetStatusPageBySlug
    <3> QED BY <3>1, <3>2
  <2> QED BY <2>2, <2>3
<1>5. \A g \in LivePages : pages[g].published <=> pages[g].public
  BY DEF PagesInv
<1>6. \A host \in Domains :
        LET found == LookupPublishedPage("", host)
        IN  /\ Cardinality(found) <= 1
            /\ \A g \in found : g \in LookupPublishedPage(pages[g].slug, host)
  BY <1>4
<1> QED BY <1>3, <1>5, <1>6 DEF PagesAnswer

------------------------------------------------------------------------------
(* Mail.  A list is read once; what it says of a subscriber stays true of    *)
(* whoever has not unsubscribed.                                             *)

SubRows == [stage : {"none", "pending", "confirmed", "gone"}, wants : SUBSET Components, chose : SUBSET Components]
MailRows == [email : Emails, confirmed : BOOLEAN, wants : SUBSET Components]
AnnRows == [stage : {"unused", "draft", "auto", "inserted", "listed", "sending", "sent", "silent", "stopped"},
            about : SUBSET Components, list : SUBSET MailRows]

MailTypes ==
  /\ liveComps \in SUBSET Components
  /\ subs \in [Emails -> SubRows]
  /\ anns \in [Announcements -> AnnRows]
  /\ mailed \in [Announcements -> SUBSET Emails]
  /\ steady \in [Announcements -> SUBSET Emails]
  /\ since \in [Announcements -> SUBSET Emails]

\* What is left of a choice is what is left of its components.
ChoicesLeft == \A e \in Emails : subs[e].wants = subs[e].chose \intersect liveComps

Subscribed == {e \in Emails : subs[e].stage \in {"pending", "confirmed"}}

\* A listed row tells of somebody who had subscribed, was confirmed in time if
\* the row says so, and shows what was left of the choice then.
RowTrue(a, s) ==
  /\ subs[s.email].stage # "none"
  /\ s.confirmed => s.email \in since[a]
  /\ s.email \in Subscribed =>
       /\ s.wants \subseteq subs[s.email].chose
       /\ s.wants = {} => subs[s.email].chose \intersect liveComps = {}

ListsTrue == \A a \in Announcements : \A s \in anns[a].list : RowTrue(a, s)

\* Before the list is read there is none, and nobody who is confirmed is missed.
BeforeList ==
  \A a \in Announcements :
    /\ steady[a] \subseteq Confirmed
    /\ anns[a].stage \in {"unused", "draft", "auto", "inserted"} => anns[a].list = {}
    /\ anns[a].stage = "inserted" => Confirmed \subseteq since[a]

\* Afterwards everybody confirmed all along is on it.
AfterList ==
  \A a \in Announcements :
    anns[a].stage \in {"listed", "sending", "sent"} =>
      \A e \in steady[a] : \E s \in anns[a].list : s.email = e /\ s.confirmed

MailedFromList ==
  \A a \in Announcements :
    /\ mailed[a] \subseteq Addressees(a)
    /\ anns[a].stage = "sent" => Addressees(a) \subseteq mailed[a]

MailInv == MailTypes /\ ChoicesLeft /\ ListsTrue /\ BeforeList /\ AfterList /\ MailedFromList

LEMMA MailInvInit == StatusInit => MailInv
<1> SUFFICES ASSUME StatusInit PROVE MailInv
  OBVIOUS
<1>1. NoSub \in SubRows /\ NoSub.stage = "none" /\ NoSub.wants = {} /\ NoSub.chose = {}
  BY DEF NoSub, SubRows
<1>2. NoAnn \in AnnRows /\ NoAnn.stage = "unused" /\ NoAnn.list = {}
  BY DEF NoAnn, AnnRows
<1>3. MailTypes
  BY <1>1, <1>2 DEF StatusInit, MailTypes
<1>4. ChoicesLeft
  BY <1>1 DEF StatusInit, ChoicesLeft
<1>5. \A a \in Announcements : anns[a].stage = "unused" /\ anns[a].list = {} /\ steady[a] = {} /\ mailed[a] = {}
  BY <1>2 DEF StatusInit
<1> QED BY <1>3, <1>4, <1>5 DEF MailInv, ListsTrue, BeforeList, AfterList, MailedFromList

\* The invariant says that the mail follows the choices.
LEMMA MailFollows == MailInv => MailFollowsChoices
<1> SUFFICES ASSUME MailInv, NEW a \in Announcements
             PROVE  /\ mailed[a] \subseteq since[a]
                    /\ \A e \in mailed[a] \intersect Confirmed :
                         SubscriberMatches(subs[e].chose, anns[a].about)
                         \/ \E s \in anns[a].list : s.email = e /\ s.wants = {} /\ subs[e].chose \intersect liveComps = {}
                    /\ anns[a].stage = "sent" =>
                         {e \in steady[a] : SubscriberMatches(subs[e].chose, anns[a].about)} \subseteq
                         mailed[a] \union {e \in Emails : \E s \in anns[a].list : s.email = e /\ s.wants # subs[e].chose}
  BY DEF MailFollowsChoices
<1>1. \A e \in Addressees(a) : \E s \in anns[a].list :
        s.email = e /\ s.confirmed /\ SubscriberMatches(s.wants, anns[a].about) /\ RowTrue(a, s)
  BY DEF Addressees, MailInv, ListsTrue
<1>2. mailed[a] \subseteq Addressees(a)
  BY DEF MailInv, MailedFromList
<1>3. mailed[a] \subseteq since[a]
  BY <1>1, <1>2 DEF RowTrue
<1>4. ASSUME NEW e \in mailed[a] \intersect Confirmed
      PROVE  SubscriberMatches(subs[e].chose, anns[a].about)
             \/ \E s \in anns[a].list : s.email = e /\ s.wants = {} /\ subs[e].chose \intersect liveComps = {}
  <2>1. e \in Subscribed
    BY DEF Confirmed, Subscribed
  <2>2. PICK s \in anns[a].list : s.email = e /\ SubscriberMatches(s.wants, anns[a].about) /\ RowTrue(a, s)
    BY <1>1, <1>2
  <2>3. s.wants \subseteq subs[e].chose /\ (s.wants = {} => subs[e].chose \intersect liveComps = {})
    BY <2>1, <2>2 DEF RowTrue
  <2>4. CASE s.wants = {}
    BY <2>2, <2>3, <2>4
  <2>5. CASE s.wants # {}
    BY <2>2, <2>3, <2>5 DEF SubscriberMatches
  <2> QED BY <2>4, <2>5
<1>5. ASSUME anns[a].stage = "sent", NEW e \in steady[a], SubscriberMatches(subs[e].chose, anns[a].about)
      PROVE  e \in mailed[a] \/ \E s \in anns[a].list : s.email = e /\ s.wants # subs[e].chose
  <2>1. PICK s \in anns[a].list : s.email = e /\ s.confirmed
    BY <1>5 DEF MailInv, AfterList
  <2>2. CASE s.wants = subs[e].chose
    <3>1. s.email \in Addressees(a)
      BY <1>5, <2>1, <2>2 DEF Addressees
    <3> QED BY <1>5, <2>1, <3>1 DEF MailInv, MailedFromList
  <2> QED BY <2>1, <2>2
<1>6. steady[a] \subseteq Emails
  BY DEF MailInv, MailTypes
<1> QED BY <1>3, <1>4, <1>5, <1>6

\* Lists that stay true while subscriptions change: chosen and what remains of
\* it only shrink, or are chosen anew by somebody who was on no list.
LEMMA ListsStayTrue ==
  ASSUME MailTypes, ListsTrue, anns' = anns,
         \A a \in Announcements : since[a] \subseteq since'[a],
         liveComps' \subseteq liveComps,
         \A e \in Emails : subs[e].stage # "none" =>
            /\ subs'[e].stage # "none"
            /\ e \in Subscribed' => e \in Subscribed /\ subs'[e].chose = subs[e].chose
  PROVE  ListsTrue'
<1> SUFFICES ASSUME NEW a \in Announcements, NEW s \in anns[a].list PROVE RowTrue(a, s)'
  BY DEF ListsTrue
<1>1. RowTrue(a, s) /\ s.email \in Emails /\ s \in MailRows
  BY DEF ListsTrue, MailTypes, AnnRows, MailRows
<1>2. subs'[s.email].stage # "none" /\ (s.confirmed => s.email \in since'[a])
  BY <1>1 DEF RowTrue
<1>3. ASSUME s.email \in Subscribed'
      PROVE  s.wants \subseteq subs'[s.email].chose /\ (s.wants = {} => subs'[s.email].chose \intersect liveComps' = {})
  BY <1>1, <1>3 DEF RowTrue
<1> QED BY <1>2, <1>3 DEF RowTrue

LEMMA MailInvSubs ==
  ASSUME MailInv, NEW e \in Emails,
         (\E wants \in SUBSET Components : Subscribe(e, wants)) \/ Confirm(e) \/ Unsubscribe(e)
  PROVE  MailInv'
<1>1. ASSUME NEW wants \in SUBSET Components, Subscribe(e, wants) PROVE MailInv'
  <2> PICK row : row = [stage |-> "pending", wants |-> wants, chose |-> wants]
    OBVIOUS
  <2>1. row \in SubRows /\ row.stage = "pending" /\ row.wants = wants /\ row.chose = wants
    BY DEF SubRows
  <2>2. /\ subs[e].stage = "none" /\ wants \subseteq liveComps /\ subs' = [subs EXCEPT ![e] = row]
        /\ liveComps' = liveComps /\ anns' = anns /\ mailed' = mailed /\ steady' = steady /\ since' = since
    BY <1>1 DEF Subscribe
  <2>3. subs'[e] = row /\ \A x \in Emails \ {e} : subs'[x] = subs[x]
    BY <2>2 DEF MailInv, MailTypes
  <2>4. MailTypes'
    BY <2>1, <2>2 DEF MailInv, MailTypes
  <2>5. ChoicesLeft'
    BY <2>1, <2>2, <2>3 DEF MailInv, ChoicesLeft
  <2>6. Confirmed' = Confirmed
    BY <2>1, <2>2, <2>3 DEF Confirmed
  <2>7. ListsTrue'
    <3>1. \A x \in Emails : subs[x].stage # "none" => subs'[x] = subs[x]
      BY <2>2, <2>3
    <3>2. \A x \in Emails : subs[x].stage # "none" =>
            subs'[x].stage # "none" /\ (x \in Subscribed' => x \in Subscribed /\ subs'[x].chose = subs[x].chose)
      BY <3>1 DEF Subscribed
    <3> QED BY <2>2, <3>2, ListsStayTrue DEF MailInv
  <2>8. BeforeList' /\ AfterList' /\ MailedFromList'
    BY <2>2, <2>6 DEF MailInv, BeforeList, AfterList, MailedFromList, Addressees
  <2> QED BY <2>4, <2>5, <2>7, <2>8 DEF MailInv
<1>2. ASSUME Confirm(e) PROVE MailInv'
  <2>0. subs[e] \in SubRows
    BY DEF MailInv, MailTypes
  <2> PICK row : row = [stage |-> "confirmed", wants |-> subs[e].wants, chose |-> subs[e].chose]
    OBVIOUS
  <2>1. row \in SubRows /\ row.stage = "confirmed" /\ row.wants = subs[e].wants /\ row.chose = subs[e].chose
    BY <2>0 DEF SubRows
  <2>a. row = [subs[e] EXCEPT !.stage = "confirmed"]
    BY <2>0 DEF SubRows
  <2>2. /\ subs[e].stage \in {"pending", "confirmed"} /\ subs' = [subs EXCEPT ![e] = row]
        /\ liveComps' = liveComps /\ anns' = anns /\ mailed' = mailed /\ steady' = steady
    BY <1>2, <2>a DEF Confirm, MailInv, MailTypes
  <2>3. subs'[e] = row /\ \A x \in Emails \ {e} : subs'[x] = subs[x]
    BY <2>2 DEF MailInv, MailTypes
  <2>4. MailTypes'
    <3>1. since' \in [Announcements -> SUBSET Emails]
      BY <1>2 DEF Confirm, MailInv, MailTypes
    <3> QED BY <2>1, <2>2, <3>1 DEF MailInv, MailTypes
  <2>5. ChoicesLeft'
    BY <2>1, <2>2, <2>3 DEF MailInv, ChoicesLeft
  <2>6. Confirmed' = Confirmed \union {e}
    BY <2>1, <2>2, <2>3 DEF Confirmed
  <2>7. \A a \in Announcements : /\ since[a] \subseteq since'[a]
                                 /\ anns[a].stage = "inserted" => since'[a] = since[a] \union {e}
    BY <1>2 DEF Confirm
  <2>8. ListsTrue'
    <3>1. \A x \in Emails : subs[x].stage # "none" =>
            subs'[x].stage # "none" /\ (x \in Subscribed' => x \in Subscribed /\ subs'[x].chose = subs[x].chose)
      BY <2>1, <2>2, <2>3 DEF Subscribed
    <3> QED BY <2>2, <2>7, <3>1, ListsStayTrue DEF MailInv
  <2>9. BeforeList'
    BY <2>2, <2>6, <2>7 DEF MailInv, BeforeList
  <2>10. AfterList' /\ MailedFromList'
    BY <2>2 DEF MailInv, AfterList, MailedFromList, Addressees
  <2> QED BY <2>4, <2>5, <2>8, <2>9, <2>10 DEF MailInv
<1>3. ASSUME Unsubscribe(e) PROVE MailInv'
  <2> PICK row : row = [stage |-> "gone", wants |-> {}, chose |-> {}]
    OBVIOUS
  <2>1. row \in SubRows /\ row.stage = "gone" /\ row.wants = {} /\ row.chose = {}
    BY DEF SubRows
  <2>a. row = [NoSub EXCEPT !.stage = "gone"]
    BY DEF NoSub
  <2>2. /\ subs[e].stage \in {"pending", "confirmed"} /\ subs' = [subs EXCEPT ![e] = row]
        /\ liveComps' = liveComps /\ anns' = anns /\ mailed' = mailed /\ since' = since
    BY <1>3, <2>a DEF Unsubscribe
  <2>3. subs'[e] = row /\ \A x \in Emails \ {e} : subs'[x] = subs[x]
    BY <2>2 DEF MailInv, MailTypes
  <2>b. steady' = [a \in Announcements |-> steady[a] \ {e}]
    BY <1>3 DEF Unsubscribe
  <2>4. MailTypes'
    BY <2>1, <2>2, <2>b DEF MailInv, MailTypes
  <2>5. ChoicesLeft'
    BY <2>1, <2>2, <2>3 DEF MailInv, ChoicesLeft
  <2>6. Confirmed' = Confirmed \ {e}
    BY <2>1, <2>2, <2>3 DEF Confirmed
  <2>7. ListsTrue'
    <3>1. \A x \in Emails : subs[x].stage # "none" =>
            subs'[x].stage # "none" /\ (x \in Subscribed' => x \in Subscribed /\ subs'[x].chose = subs[x].chose)
      BY <2>1, <2>2, <2>3 DEF Subscribed
    <3> QED BY <2>2, <3>1, ListsStayTrue DEF MailInv
  <2>c. \A a \in Announcements : steady'[a] = steady[a] \ {e}
    BY <2>b
  <2>8. BeforeList'
    BY <2>2, <2>6, <2>c DEF MailInv, BeforeList
  <2>9. AfterList' /\ MailedFromList'
    BY <2>2, <2>c DEF MailInv, AfterList, MailedFromList, Addressees
  <2> QED BY <2>4, <2>5, <2>7, <2>8, <2>9 DEF MailInv
<1> QED BY <1>1, <1>2, <1>3

LEMMA MailInvComponent ==
  ASSUME MailInv, NEW c \in Components, DeleteStatusPageComponent(c)
  PROVE  MailInv'
<1>1. /\ liveComps' = liveComps \ {c} /\ anns' = anns /\ mailed' = mailed /\ steady' = steady /\ since' = since
      /\ subs' = [e \in Emails |-> [subs[e] EXCEPT !.wants = @ \ {c}]]
  BY DEF DeleteStatusPageComponent
<1>2. \A e \in Emails : /\ subs'[e] \in SubRows /\ subs'[e].wants = subs[e].wants \ {c}
                        /\ subs'[e].stage = subs[e].stage /\ subs'[e].chose = subs[e].chose
  <2> SUFFICES ASSUME NEW e \in Emails PROVE /\ subs'[e] \in SubRows /\ subs'[e].wants = subs[e].wants \ {c}
                        /\ subs'[e].stage = subs[e].stage /\ subs'[e].chose = subs[e].chose
    OBVIOUS
  <2>1. subs[e] \in SubRows /\ subs'[e] = [subs[e] EXCEPT !.wants = subs[e].wants \ {c}]
    BY <1>1 DEF MailInv, MailTypes
  <2> QED BY <2>1 DEF SubRows
<1>3. MailTypes'
  BY <1>1, <1>2 DEF MailInv, MailTypes
<1>4. ChoicesLeft'
  BY <1>1, <1>2 DEF MailInv, ChoicesLeft
<1>5. Confirmed' = Confirmed /\ Subscribed' = Subscribed
  BY <1>2 DEF Confirmed, Subscribed
<1>6. ListsTrue'
  <2>1. \A x \in Emails : subs[x].stage # "none" =>
          subs'[x].stage # "none" /\ (x \in Subscribed' => x \in Subscribed /\ subs'[x].chose = subs[x].chose)
    BY <1>2, <1>5
  <2> QED BY <1>1, <2>1, ListsStayTrue DEF MailInv
<1>7. BeforeList'
  BY <1>1, <1>5 DEF MailInv, BeforeList
<1>8. AfterList' /\ MailedFromList'
  BY <1>1 DEF MailInv, AfterList, MailedFromList, Addressees
<1> QED BY <1>3, <1>4, <1>6, <1>7, <1>8 DEF MailInv

\* The invariant of one announcement, for the steps that change one.
AnnInv(a) ==
  /\ \A s \in anns[a].list : RowTrue(a, s)
  /\ steady[a] \subseteq Confirmed
  /\ anns[a].stage \in {"unused", "draft", "auto", "inserted"} => anns[a].list = {}
  /\ anns[a].stage = "inserted" => Confirmed \subseteq since[a]
  /\ anns[a].stage \in {"listed", "sending", "sent"} =>
       \A e \in steady[a] : \E s \in anns[a].list : s.email = e /\ s.confirmed
  /\ mailed[a] \subseteq Addressees(a)
  /\ anns[a].stage = "sent" => Addressees(a) \subseteq mailed[a]

LEMMA OneByOne ==
  MailInv <=> MailTypes /\ ChoicesLeft /\ \A a \in Announcements : AnnInv(a)
BY DEF MailInv, ListsTrue, BeforeList, AfterList, MailedFromList, AnnInv

LEMMA AnnStep ==
  ASSUME MailInv, NEW a \in Announcements, NEW row \in AnnRows, anns' = [anns EXCEPT ![a] = row],
         UNCHANGED <<liveComps, subs>>, mailed' = mailed,
         steady' \in [Announcements -> SUBSET Emails], since' \in [Announcements -> SUBSET Emails],
         \A b \in Announcements \ {a} : steady'[b] = steady[b] /\ since'[b] = since[b],
         AnnInv(a)'
  PROVE  MailInv'
<1>1. anns'[a] = row /\ \A b \in Announcements \ {a} : anns'[b] = anns[b]
  BY DEF MailInv, MailTypes
<1>2. MailTypes' /\ ChoicesLeft'
  BY DEF MailInv, MailTypes, ChoicesLeft
<1>3. ASSUME NEW b \in Announcements \ {a} PROVE AnnInv(b)'
  <2>1. AnnInv(b)
    BY OneByOne
  <2> QED BY <1>1, <1>3, <2>1 DEF AnnInv, RowTrue, Addressees, Confirmed, Subscribed
<1>4. \A b \in Announcements : AnnInv(b)'
  BY <1>3
<1>5. MailTypes' /\ ChoicesLeft' /\ (\A b \in Announcements : AnnInv(b)') => MailInv'
  BY DEF MailInv, ListsTrue, BeforeList, AfterList, MailedFromList, AnnInv
<1> QED BY <1>2, <1>4, <1>5

\* An announcement with the list that was read.
LEMMA RowListed ==
  ASSUME NEW ann \in AnnRows, NEW rows
  PROVE  [[ann EXCEPT !.stage = "listed"] EXCEPT !.list = rows] = [stage |-> "listed", about |-> ann.about, list |-> rows]
<1> PICK first : first = [stage |-> "listed", about |-> ann.about, list |-> ann.list]
  OBVIOUS
<1>1. [ann EXCEPT !.stage = "listed"] = first
  BY DEF AnnRows
<1>2. first \in AnnRows /\ first.about = ann.about /\ first.stage = "listed"
  BY DEF AnnRows
<1>3. [first EXCEPT !.list = rows] = [stage |-> "listed", about |-> ann.about, list |-> rows]
  BY <1>2 DEF AnnRows
<1> QED BY <1>1, <1>3

LEMMA MailInvAnn ==
  ASSUME MailInv, NEW a \in Announcements,
         \/ \E about \in SUBSET Components : CreateStatusPageAnnouncement(a, about) \/ CreateDraft(a, about)
         \/ AutoCreateStatusPageIncidentUpdate(a) \/ ListStatusPageSubscribers(a)
         \/ StartSending(a) \/ MailOne(a) \/ SendingEnds(a) \/ SendingStops(a)
  PROVE  MailInv'
<1>0. anns[a] \in AnnRows /\ AnnInv(a)
  BY OneByOne DEF MailInv, MailTypes
<1>a. ASSUME anns[a].stage = "unused", NEW stage \in {"draft", "auto", "inserted"}, NEW about \in SUBSET Components,
             anns' = [anns EXCEPT ![a] = [stage |-> stage, about |-> about, list |-> {}]],
             UNCHANGED <<liveComps, subs>>, mailed' = mailed,
             \/ steady' = steady /\ since' = since /\ stage # "inserted"
             \/ steady' = [steady EXCEPT ![a] = Confirmed] /\ since' = [since EXCEPT ![a] = Confirmed]
      PROVE  MailInv'
  <2> PICK row : row = [stage |-> stage, about |-> about, list |-> {}]
    OBVIOUS
  <2>1. row \in AnnRows /\ row.stage = stage /\ row.list = {}
    BY DEF AnnRows
  <2>2. anns' = [anns EXCEPT ![a] = row] /\ anns'[a] = row
    BY <1>a DEF MailInv, MailTypes
  <2>3. mailed[a] = {}
    <3>1. anns[a].list = {}
      BY <1>0, <1>a DEF AnnInv
    <3> QED BY <1>0, <3>1 DEF AnnInv, Addressees
  <2>4. steady[a] \in SUBSET Confirmed /\ Confirmed' = Confirmed /\ Confirmed \in SUBSET Emails
    BY <1>0, <1>a DEF AnnInv, Confirmed
  <2>5. /\ steady' \in [Announcements -> SUBSET Emails] /\ since' \in [Announcements -> SUBSET Emails]
        /\ \A b \in Announcements \ {a} : steady'[b] = steady[b] /\ since'[b] = since[b]
    BY <1>a, <2>4 DEF MailInv, MailTypes
  <2>6. steady'[a] \subseteq Confirmed /\ (stage = "inserted" => since'[a] = Confirmed)
    BY <1>a, <2>4 DEF MailInv, MailTypes
  <2>7. AnnInv(a)'
    BY <1>a, <2>1, <2>2, <2>3, <2>4, <2>6 DEF AnnInv
  <2> QED BY <1>a, <2>1, <2>2, <2>5, <2>7, AnnStep
<1>1. ASSUME NEW about \in SUBSET Components, CreateStatusPageAnnouncement(a, about) PROVE MailInv'
  <2>1. /\ anns[a].stage = "unused"
        /\ anns' = [anns EXCEPT ![a] = [stage |-> "inserted", about |-> about, list |-> {}]]
        /\ UNCHANGED <<liveComps, subs>> /\ mailed' = mailed
        /\ steady' = [steady EXCEPT ![a] = Confirmed] /\ since' = [since EXCEPT ![a] = Confirmed]
    BY <1>1 DEF CreateStatusPageAnnouncement
  <2> QED BY <2>1, <1>a
<1>2. ASSUME NEW about \in SUBSET Components, CreateDraft(a, about) PROVE MailInv'
  <2>1. /\ anns[a].stage = "unused"
        /\ anns' = [anns EXCEPT ![a] = [stage |-> "draft", about |-> about, list |-> {}]]
        /\ UNCHANGED <<liveComps, subs>> /\ mailed' = mailed /\ steady' = steady /\ since' = since
    BY <1>2 DEF CreateDraft
  <2> QED BY <2>1, <1>a
<1>3. ASSUME AutoCreateStatusPageIncidentUpdate(a) PROVE MailInv'
  <2>1. PICK c \in LinkedComponents \intersect liveComps : anns' = [anns EXCEPT ![a] = [stage |-> "auto", about |-> {c}, list |-> {}]]
    BY <1>3 DEF AutoCreateStatusPageIncidentUpdate
  <2>2. {c} \in SUBSET Components
    BY DEF MailInv, MailTypes
  <2> QED BY <1>3, <1>a, <2>1, <2>2 DEF AutoCreateStatusPageIncidentUpdate
<1>4. ASSUME ListStatusPageSubscribers(a) PROVE MailInv'
  <2> PICK rows : rows = {[email |-> e, confirmed |-> subs[e].stage = "confirmed", wants |-> subs[e].wants]
                            : e \in {x \in Emails : subs[x].stage \in {"pending", "confirmed"}}}
    OBVIOUS
  <2>1. \A s \in rows : /\ s \in MailRows /\ s.email \in Subscribed
                        /\ s.confirmed <=> s.email \in Confirmed
                        /\ s.wants = subs[s.email].wants
    <3> SUFFICES ASSUME NEW e \in Subscribed,
                        NEW s, s = [email |-> e, confirmed |-> subs[e].stage = "confirmed", wants |-> subs[e].wants]
                 PROVE  /\ s \in MailRows /\ s.email \in Subscribed
                        /\ s.confirmed <=> s.email \in Confirmed
                        /\ s.wants = subs[s.email].wants
      BY DEF Subscribed
    <3>1. e \in Emails /\ subs[e].wants \in SUBSET Components
      BY DEF MailInv, MailTypes, SubRows, Subscribed
    <3>2. s.email = e /\ s.wants = subs[e].wants /\ (s.confirmed <=> e \in Confirmed)
      BY <3>1 DEF Confirmed
    <3>3. s \in MailRows
      BY <3>1 DEF MailRows
    <3> QED BY <3>2, <3>3
  <2>2. \A e \in Confirmed : \E s \in rows : s.email = e /\ s.confirmed
    <3> SUFFICES ASSUME NEW e \in Confirmed PROVE \E s \in rows : s.email = e /\ s.confirmed
      OBVIOUS
    <3> PICK s : s = [email |-> e, confirmed |-> subs[e].stage = "confirmed", wants |-> subs[e].wants]
      OBVIOUS
    <3>1. e \in Emails /\ subs[e].stage = "confirmed"
      BY DEF Confirmed
    <3>2. s \in rows
      BY <3>1
    <3>3. s.email = e
      OBVIOUS
    <3>4. s.confirmed
      BY <2>1, <3>2, <3>3
    <3> QED BY <3>2, <3>3, <3>4
  <2> HIDE DEF Confirmed
  <2> PICK row : row = [stage |-> "listed", about |-> anns[a].about, list |-> rows]
    OBVIOUS
  <2>3. row \in AnnRows /\ row.stage = "listed" /\ row.list = rows
    BY <1>0, <2>1 DEF AnnRows
  <2>4. /\ anns[a].stage = "inserted" /\ anns' = [anns EXCEPT ![a] = row]
        /\ UNCHANGED <<liveComps, subs, mailed, steady, since>>
    <3>1. /\ anns[a].stage = "inserted" /\ UNCHANGED <<liveComps, subs, mailed, steady, since>>
          /\ anns' = [anns EXCEPT ![a] = [[anns[a] EXCEPT !.stage = "listed"] EXCEPT !.list = rows]]
      BY <1>4 DEF ListStatusPageSubscribers, MailInv, MailTypes
    <3>2. [[anns[a] EXCEPT !.stage = "listed"] EXCEPT !.list = rows] = row
      BY <1>0, RowListed
    <3> QED BY <3>1, <3>2
  <2>5. anns'[a] = row
    BY <2>4 DEF MailInv, MailTypes
  <2>6. steady[a] \subseteq Confirmed /\ Confirmed \subseteq since[a] /\ mailed[a] = {}
    BY <1>0, <2>4 DEF AnnInv, Addressees
  <2>7. \A s \in rows : RowTrue(a, s)'
    <3> SUFFICES ASSUME NEW s \in rows PROVE RowTrue(a, s)'
      OBVIOUS
    <3>1. s.email \in Emails /\ subs[s.email].stage # "none" /\ s.wants = subs[s.email].chose \intersect liveComps
      BY <2>1 DEF MailInv, ChoicesLeft, Subscribed
    <3>2. s.confirmed => s.email \in since[a]
      BY <2>1, <2>6
    <3> QED BY <2>4, <3>1, <3>2 DEF RowTrue
  <2>8. AnnInv(a)'
    BY <2>2, <2>3, <2>4, <2>5, <2>6, <2>7 DEF AnnInv, Confirmed
  <2>9. steady' \in [Announcements -> SUBSET Emails] /\ since' \in [Announcements -> SUBSET Emails]
    BY <2>4 DEF MailInv, MailTypes
  <2> QED BY <2>3, <2>4, <2>8, <2>9, AnnStep
<1>b. ASSUME NEW stage \in {"sending", "silent", "sent", "stopped"},
             anns' = [anns EXCEPT ![a].stage = stage], UNCHANGED <<liveComps, subs, mailed, steady, since>>,
             anns[a].stage = "listed" \/ anns[a].stage = "sending" \/ stage = "stopped",
             stage = "sent" => Addressees(a) \subseteq mailed[a]
      PROVE  MailInv'
  <2> PICK row : row = [stage |-> stage, about |-> anns[a].about, list |-> anns[a].list]
    OBVIOUS
  <2>1. row \in AnnRows /\ row.stage = stage /\ row.about = anns[a].about /\ row.list = anns[a].list
    BY <1>0 DEF AnnRows
  <2>2. anns' = [anns EXCEPT ![a] = row]
    <3>1. anns' = [anns EXCEPT ![a] = [anns[a] EXCEPT !.stage = stage]]
      BY <1>b DEF MailInv, MailTypes
    <3>2. [anns[a] EXCEPT !.stage = stage] = row
      BY <1>0 DEF AnnRows
    <3> QED BY <3>1, <3>2
  <2>3. anns'[a] = row
    BY <2>2 DEF MailInv, MailTypes
  <2>4. Addressees(a)' = Addressees(a) /\ Confirmed' = Confirmed
    BY <1>b, <2>1, <2>3 DEF Addressees, Confirmed
  <2>5. \A s : RowTrue(a, s)' <=> RowTrue(a, s)
    BY <1>b DEF RowTrue, Subscribed
  <2>6. AnnInv(a)'
    BY <1>0, <1>b, <2>1, <2>3, <2>4, <2>5 DEF AnnInv
  <2>7. steady' \in [Announcements -> SUBSET Emails] /\ since' \in [Announcements -> SUBSET Emails]
    BY <1>b DEF MailInv, MailTypes
  <2> QED BY <1>b, <2>1, <2>2, <2>6, <2>7, AnnStep
<1>5. ASSUME StartSending(a) PROVE MailInv'
  <2>1. CASE emailOn
    BY <1>5, <1>b, <2>1 DEF StartSending
  <2>2. CASE ~emailOn
    BY <1>5, <1>b, <2>2 DEF StartSending
  <2> QED BY <2>1, <2>2
<1>6. ASSUME SendingEnds(a) PROVE MailInv'
  BY <1>6, <1>b DEF SendingEnds
<1>7. ASSUME SendingStops(a) PROVE MailInv'
  BY <1>7, <1>b DEF SendingStops
<1>8. ASSUME MailOne(a) PROVE MailInv'
  <2>1. PICK e \in Addressees(a) \ mailed[a] : mailed' = [mailed EXCEPT ![a] = @ \union {e}]
    BY <1>8 DEF MailOne
  <2>2. UNCHANGED <<liveComps, subs, anns, steady, since>> /\ anns[a].stage = "sending"
    BY <1>8 DEF MailOne
  <2>3. e \in Emails
    BY <1>0 DEF Addressees, AnnRows, MailRows
  <2>4. MailTypes'
    BY <2>1, <2>2, <2>3 DEF MailInv, MailTypes
  <2>5. \A b \in Announcements : mailed'[b] = IF b = a THEN mailed[a] \union {e} ELSE mailed[b]
    BY <2>1 DEF MailInv, MailTypes
  <2>6. MailedFromList'
    BY <2>2, <2>5 DEF MailInv, MailedFromList, Addressees
  <2> QED
    BY <2>2, <2>4, <2>6
    DEF MailInv, ChoicesLeft, ListsTrue, RowTrue, BeforeList, AfterList, Confirmed, Subscribed
<1> QED BY <1>1, <1>2, <1>3, <1>4, <1>5, <1>6, <1>7, <1>8

LEMMA MailInvNext == MailInv /\ [PagesNext \/ MailNext]_pagesVars => MailInv'
<1> SUFFICES ASSUME MailInv, [PagesNext \/ MailNext]_pagesVars PROVE MailInv'
  OBVIOUS
<1>0. ASSUME UNCHANGED <<liveComps, subs, anns, mailed, steady, since>> PROVE MailInv'
  BY <1>0 DEF MailInv, MailTypes, ChoicesLeft, ListsTrue, RowTrue, BeforeList, AfterList, MailedFromList,
       Addressees, Confirmed, Subscribed
<1>1. CASE UNCHANGED pagesVars
  BY <1>0, <1>1 DEF pagesVars
<1>2. CASE PagesNext
  BY <1>0, <1>2 DEF PagesNext, CreateStatusPage, UpdateStatusPage, DeleteStatusPage, mail
<1>3. CASE MailNext
  <2>1. CASE ChannelToggled
    BY <1>0, <2>1 DEF ChannelToggled
  <2> QED BY <1>3, <2>1, MailInvSubs, MailInvComponent, MailInvAnn DEF MailNext
<1> QED BY <1>1, <1>2, <1>3

\* However confirmations, deletions and mails interleave, an announcement goes to
\* confirmed addresses about what they chose, and when it ends nobody who was
\* confirmed all along was passed over (SendStatusPageAnnouncement,
\* subscriberMatchesAnnouncement), for any subscribers and announcements.
THEOREM MailAlwaysFollows == StatusSpec => []MailFollowsChoices
<1>1. StatusInit => MailInv
  BY MailInvInit
<1>2. MailInv /\ [PagesNext \/ MailNext]_pagesVars => MailInv'
  BY MailInvNext
<1>3. MailInv => MailFollowsChoices
  BY MailFollows
<1> QED BY <1>1, <1>2, <1>3, PTL DEF StatusSpec

------------------------------------------------------------------------------
(* Together.  The components share no variable, so what each keeps, all keep.   *)

\* What the records say is what was written: dependencies, notes, links and the
\* addresses of pages (phase23_store.go, gorm_store.go).
THEOREM RecordsAlways == RecSpec /\ CatSpec /\ StatusSpec => []RecordsAgree
<1>1. RecInit => DepsInv /\ NotesInv
  BY DepsInvInit, NotesInvInit
<1>2. DepsInv /\ [RecNext]_recVars => DepsInv'
  BY DepsInvNext
<1>3. NotesInv /\ [RecNext]_recVars => NotesInv'
  BY NotesInvNext
<1>4. CatInit => CatInv
  BY CatInvInit
<1>5. CatInv /\ [CatNext]_catVars => CatInv'
  BY CatInvNext
<1>6. StatusInit => PagesInv
  BY PagesInvInit
<1>7. PagesInv /\ [PagesNext \/ MailNext]_pagesVars => PagesInv'
  BY PagesInvNext
<1>8. DepsInv /\ NotesInv /\ CatInv /\ PagesInv => RecordsAgree
  BY DepsFollow, NotesTrue, LinksFollow, PagesFound DEF RecordsAgree
<1> QED BY <1>1, <1>2, <1>3, <1>4, <1>5, <1>6, <1>7, <1>8, PTL DEF RecSpec, CatSpec, StatusSpec

\* The steps of AccessSpec.
EntitledSteps == (AccessNext /\ UNCHANGED deviceVars) \/ (DevicesNext /\ UNCHANGED accessVars)

\* A step of the run is a step of one component and leaves the others alone.
LEMMA RunSteps ==
  ASSUME [Next]_<<moving, part, query>>
  PROVE  /\ [BeatNext]_beatVars /\ [BrowserNext]_browserVars
         /\ [RegionNext]_regionVars /\ [DeliveryNext]_deliveryVars /\ [CatNext]_catVars
         /\ [RecNext]_recVars /\ [PagesNext \/ MailNext]_pagesVars
         /\ [ClerkNext]_clerkVars /\ [EntitledSteps]_<<accessVars, deviceVars>>
<1>1. CASE Alone("beats") /\ BeatNext
  BY <1>1 DEF Alone
<1>2. CASE Alone("browser") /\ BrowserNext
  BY <1>2 DEF Alone
<1>3. CASE Alone("regions") /\ RegionNext
  BY <1>3 DEF Alone
<1>4. CASE Alone("delivery") /\ DeliveryNext
  BY <1>4 DEF Alone
<1>5. CASE Alone("catalogue") /\ CatNext
  BY <1>5 DEF Alone
<1>6. CASE Alone("notes") /\ NotesNext
  BY <1>6 DEF Alone, RecNext
<1>7. CASE Alone("deps") /\ DepsNext
  BY <1>7 DEF Alone, RecNext
<1>8. CASE Alone("pages") /\ PagesNext
  BY <1>8 DEF Alone
<1>9. CASE Alone("mail") /\ MailNext
  BY <1>9 DEF Alone
<1>10. CASE UNCHANGED <<moving, part, query>>
  BY <1>10 DEF moving
<1>11. CASE Alone("webhooks") /\ WebhooksNext
  BY <1>11 DEF Alone, ClerkNext
<1>12. CASE Alone("sign-ins") /\ ClerkNext
  BY <1>12 DEF Alone
<1>13. CASE Alone("requests") /\ RequestsNext
  BY <1>13 DEF Alone, AccessNext, EntitledSteps
<1>14. CASE Alone("assignments") /\ AccessNext
  BY <1>14 DEF Alone, EntitledSteps
<1>15. CASE Alone("devices") /\ DevicesNext
  BY <1>15 DEF Alone, EntitledSteps
<1> QED
  BY <1>1, <1>2, <1>3, <1>4, <1>5, <1>6, <1>7, <1>8, <1>9, <1>10, <1>11, <1>12, <1>13, <1>14, <1>15 DEF Next

\* The instance that TLC checks behaves as every component's specification says,
\* whichever component it lets move: what is proved of a component holds in it.
THEOREM ComponentsKept ==
  Spec => /\ BeatSpec /\ BrowserSpec /\ RegionSpec /\ DeliverySpec
          /\ CatSpec /\ RecSpec /\ StatusSpec /\ ClerkSpec /\ AccessSpec
<1>1. Init => /\ BeatInit /\ BrowserInit /\ RegionInit /\ DeliveryInit
              /\ CatInit /\ RecInit /\ StatusInit /\ ClerkInit /\ AccessInit
  BY DEF Init
<1>2. [Next]_<<moving, part, query>> =>
        /\ [BeatNext]_beatVars /\ [BrowserNext]_browserVars
        /\ [RegionNext]_regionVars /\ [DeliveryNext]_deliveryVars /\ [CatNext]_catVars
        /\ [RecNext]_recVars /\ [PagesNext \/ MailNext]_pagesVars
        /\ [ClerkNext]_clerkVars /\ [EntitledSteps]_<<accessVars, deviceVars>>
  BY RunSteps
<1> QED
  BY <1>1, <1>2, PTL
  DEF Spec, BeatSpec, BrowserSpec, RegionSpec, DeliverySpec, CatSpec, RecSpec, StatusSpec, ClerkSpec, AccessSpec,
      EntitledSteps

------------------------------------------------------------------------------
(* What checks conclude.  A result as a plain row, and its fields one by one. *)

Concluded(status, success, told, err, code) ==
  [status |-> status, success |-> success, told |-> told, err |-> err, code |-> code]
OutcomeRows == [status : {"up", "down", "degraded"}, success : BOOLEAN, told : BOOLEAN, err : BOOLEAN, code : Int]

LEMMA StatusChanged ==
  ASSUME NEW o \in OutcomeRows, NEW t \in OutcomeRows, t.code = o.code,
         (t.success <=> o.success), (t.told <=> o.told), (t.err <=> o.err)
  PROVE  [o EXCEPT !.status = t.status] = t
BY DEF OutcomeRows

LEMMA SuccessSet ==
  ASSUME NEW o \in OutcomeRows, NEW t \in OutcomeRows, t.code = o.code,
         t.status = o.status, (t.told <=> o.told), (t.err <=> o.err), t.success
  PROVE  [o EXCEPT !.success = TRUE] = t
BY DEF OutcomeRows

LEMMA ToldSet ==
  ASSUME NEW o \in OutcomeRows, NEW t \in OutcomeRows, t.code = o.code,
         t.status = o.status, (t.success <=> o.success), (t.err <=> o.err), t.told
  PROVE  [o EXCEPT !.told = TRUE] = t
BY DEF OutcomeRows

LEMMA ErrSet ==
  ASSUME NEW o \in OutcomeRows, NEW t \in OutcomeRows, t.code = o.code,
         t.status = o.status, (t.success <=> o.success), (t.told <=> o.told), t.err
  PROVE  [o EXCEPT !.err = TRUE] = t
BY DEF OutcomeRows

\* The conclusions a checker can draw, as plain rows.
LEMMA Conclusions ==
  /\ Up = Concluded("up", TRUE, FALSE, FALSE, 0)
  /\ NotMet = Concluded("down", FALSE, TRUE, FALSE, 0)
  /\ CannotTell = Concluded("down", FALSE, TRUE, TRUE, 0)
  /\ ExpiresSoon = Concluded("degraded", TRUE, TRUE, FALSE, 0)
  /\ [NotMet EXCEPT !.status = "degraded"] = Concluded("degraded", FALSE, TRUE, FALSE, 0)
<1> PICK base : base = Concluded("down", FALSE, FALSE, FALSE, 0)
  OBVIOUS
<1>1. base \in OutcomeRows /\ base.status = "down" /\ ~base.success /\ ~base.told /\ ~base.err /\ base.code = 0
  BY DEF Concluded, OutcomeRows
<1> PICK half : half = Concluded("up", FALSE, FALSE, FALSE, 0)
  OBVIOUS
<1>2. half \in OutcomeRows /\ half.status = "up" /\ ~half.success /\ ~half.told /\ ~half.err /\ half.code = 0
  BY DEF Concluded, OutcomeRows
<1> PICK up : up = Concluded("up", TRUE, FALSE, FALSE, 0)
  OBVIOUS
<1>3. up \in OutcomeRows /\ up.status = "up" /\ up.success /\ ~up.told /\ ~up.err /\ up.code = 0
  BY DEF Concluded, OutcomeRows
<1> PICK notMet : notMet = Concluded("down", FALSE, TRUE, FALSE, 0)
  OBVIOUS
<1>4. notMet \in OutcomeRows /\ notMet.status = "down" /\ ~notMet.success /\ notMet.told /\ ~notMet.err /\ notMet.code = 0
  BY DEF Concluded, OutcomeRows
<1> PICK cannot : cannot = Concluded("down", FALSE, TRUE, TRUE, 0)
  OBVIOUS
<1>5. cannot \in OutcomeRows /\ cannot.status = "down" /\ ~cannot.success /\ cannot.told /\ cannot.err /\ cannot.code = 0
  BY DEF Concluded, OutcomeRows
<1> PICK late : late = Concluded("degraded", TRUE, FALSE, FALSE, 0)
  OBVIOUS
<1>6. late \in OutcomeRows /\ late.status = "degraded" /\ late.success /\ ~late.told /\ ~late.err /\ late.code = 0
  BY DEF Concluded, OutcomeRows
<1> PICK soon : soon = Concluded("degraded", TRUE, TRUE, FALSE, 0)
  OBVIOUS
<1>7. soon \in OutcomeRows /\ soon.status = "degraded" /\ soon.success /\ soon.told /\ ~soon.err /\ soon.code = 0
  BY DEF Concluded, OutcomeRows
<1> PICK lossy : lossy = Concluded("degraded", FALSE, TRUE, FALSE, 0)
  OBVIOUS
<1>8. lossy \in OutcomeRows /\ lossy.status = "degraded" /\ ~lossy.success /\ lossy.told /\ ~lossy.err /\ lossy.code = 0
  BY DEF Concluded, OutcomeRows
<1>11. BaseResult = base
  BY DEF BaseResult, Concluded
<1>12. [base EXCEPT !.status = half.status] = half
  BY <1>1, <1>2, StatusChanged
<1>13. [half EXCEPT !.success = TRUE] = up
  BY <1>2, <1>3, SuccessSet
<1>14. Up = up
  <2>1. Up = [[base EXCEPT !.status = "up"] EXCEPT !.success = TRUE]
    BY <1>11 DEF Up
  <2> QED BY <1>2, <1>12, <1>13, <2>1
<1>15. [base EXCEPT !.told = TRUE] = notMet
  BY <1>1, <1>4, ToldSet
<1>16. NotMet = notMet
  BY <1>11, <1>15 DEF NotMet
<1>17. [notMet EXCEPT !.err = TRUE] = cannot
  BY <1>4, <1>5, ErrSet
<1>18. CannotTell = cannot
  BY <1>16, <1>17 DEF CannotTell
<1>19. [notMet EXCEPT !.status = lossy.status] = lossy
  BY <1>4, <1>8, StatusChanged
<1>20. [up EXCEPT !.status = late.status] = late
  BY <1>3, <1>6, StatusChanged
<1>21. [late EXCEPT !.told = TRUE] = soon
  BY <1>6, <1>7, ToldSet
<1>22. ExpiresSoon = soon
  <2>1. ExpiresSoon = [[up EXCEPT !.status = "degraded"] EXCEPT !.told = TRUE]
    BY <1>14 DEF ExpiresSoon
  <2> QED BY <1>6, <1>20, <1>21, <2>1
<1>23. [NotMet EXCEPT !.status = "degraded"] = lossy
  BY <1>8, <1>16, <1>19
<1> QED BY <1>14, <1>16, <1>18, <1>22, <1>23

\* The rows that tell one thing; RunCheck's normalisation leaves them as they are.
Coherently ==
  {o \in OutcomeRows :
     \/ o.status = "up" /\ o.success /\ ~o.told /\ ~o.err
     \/ o.status = "degraded" /\ o.told /\ ~o.err
     \/ o.status = "down" /\ ~o.success /\ o.told}

LEMMA CoherentRows == \A o \in Coherently : Coherent(o)
<1> SUFFICES ASSUME NEW o \in Coherently PROVE Coherent(o)
  OBVIOUS
<1> PICK n : n = Normalised(o)
  OBVIOUS
<1>1. o \in OutcomeRows /\ o.status # ""
  BY DEF Coherently
<1>2. n.told = (o.told \/ o.err) /\ n.status = o.status /\ n.success = o.success /\ n.err = o.err
  BY <1>1 DEF Normalised, OutcomeRows
<1> QED BY <1>2 DEF Coherent, Coherently

LEMMA ConclusionsCohere ==
  /\ Up \in Coherently /\ NotMet \in Coherently /\ CannotTell \in Coherently
  /\ ExpiresSoon \in Coherently /\ [NotMet EXCEPT !.status = "degraded"] \in Coherently
<1>1. Up \in Coherently
  <2>s. PICK o : o = Concluded("up", TRUE, FALSE, FALSE, 0)
    OBVIOUS
  <2>1. o \in OutcomeRows /\ o.status = "up" /\ o.success /\ ~o.told /\ ~o.err
    BY <2>s DEF Concluded, OutcomeRows
  <2>2. o \in Coherently
    BY <2>1 DEF Coherently
  <2> QED BY <2>s, <2>2, Conclusions
<1>2. NotMet \in Coherently
  <2>s. PICK o : o = Concluded("down", FALSE, TRUE, FALSE, 0)
    OBVIOUS
  <2>1. o \in OutcomeRows /\ o.status = "down" /\ ~o.success /\ o.told
    BY <2>s DEF Concluded, OutcomeRows
  <2>2. o \in Coherently
    BY <2>1 DEF Coherently
  <2> QED BY <2>s, <2>2, Conclusions
<1>3. CannotTell \in Coherently
  <2>s. PICK o : o = Concluded("down", FALSE, TRUE, TRUE, 0)
    OBVIOUS
  <2>1. o \in OutcomeRows /\ o.status = "down" /\ ~o.success /\ o.told
    BY <2>s DEF Concluded, OutcomeRows
  <2>2. o \in Coherently
    BY <2>1 DEF Coherently
  <2> QED BY <2>s, <2>2, Conclusions
<1>4. ExpiresSoon \in Coherently
  <2>s. PICK o : o = Concluded("degraded", TRUE, TRUE, FALSE, 0)
    OBVIOUS
  <2>1. o \in OutcomeRows /\ o.status = "degraded" /\ o.told /\ ~o.err
    BY <2>s DEF Concluded, OutcomeRows
  <2>2. o \in Coherently
    BY <2>1 DEF Coherently
  <2> QED BY <2>s, <2>2, Conclusions
<1>5. [NotMet EXCEPT !.status = "degraded"] \in Coherently
  <2>s. PICK o : o = Concluded("degraded", FALSE, TRUE, FALSE, 0)
    OBVIOUS
  <2>1. o \in OutcomeRows /\ o.status = "degraded" /\ o.told /\ ~o.err
    BY <2>s DEF Concluded, OutcomeRows
  <2>2. o \in Coherently
    BY <2>1 DEF Coherently
  <2> QED BY <2>s, <2>2, Conclusions
<1> QED BY <1>1, <1>2, <1>3, <1>4, <1>5

LEMMA CodeSet ==
  ASSUME NEW o \in Coherently, NEW c \in Int
  PROVE  [o EXCEPT !.code = c] \in Coherently
BY DEF Coherently, OutcomeRows

\* What a check may be asked: the parts a conclusion depends on.
Asked(q) ==
  /\ q.type \in {"http", "keyword", "api", "tcp", "dns", "udp", "icmp", "ping", "tls", "domain", "multistep"}
  /\ q.type \in {"http", "keyword", "api"} => q.code \in Int
  /\ q.type = "tls" => q.hours \in Int /\ q.warnDays \in Int
  /\ q.type = "domain" => q.rdap \in {"unreachable", "unreadable", "refuses", "silent", "dated"}

\* Whatever the network answers, the result of every checker that keeps no state
\* tells one thing after RunCheck has normalised it (Registry.For, RunCheck).
THEOREM ChecksAreCoherent == \A q : Asked(q) => Coherent(Check(q))
<1> SUFFICES ASSUME NEW q, Asked(q) PROVE Check(q) \in Coherently
  BY CoherentRows
<1> USE ConclusionsCohere
<1>1. CASE q.type \in {"http", "keyword", "api"}
  <2>1. Check(q) = HTTPCheck(q)
    BY <1>1 DEF Check
  <2>2. q.code \in Int
    BY <1>1 DEF Asked
  <2>3. \A o \in {Up, NotMet, CannotTell} : [o EXCEPT !.code = q.code] \in Coherently
    BY <2>2, CodeSet
  <2>4. \/ HTTPCheck(q) = CannotTell
        \/ \E o \in {Up, NotMet, CannotTell} : HTTPCheck(q) = [o EXCEPT !.code = q.code]
    BY DEF HTTPCheck
  <2> QED BY <2>1, <2>3, <2>4
<1>2. CASE q.type = "tcp"
  <2>1. Check(q) = TCPCheck(q.connects)
    BY <1>2 DEF Check
  <2> QED BY <2>1 DEF TCPCheck
<1>3. CASE q.type = "dns"
  <2>1. Check(q) = DNSCheck(q.connects, q.replies)
    BY <1>3 DEF Check
  <2> QED BY <2>1 DEF DNSCheck
<1>4. CASE q.type = "udp"
  <2>1. Check(q) = UDPCheck(q.connects, q.expects, q.reply)
    BY <1>4 DEF Check
  <2> QED BY <2>1 DEF UDPCheck
<1>5. CASE q.type = "icmp"
  <2>1. Check(q) = ICMPCheck(q.connects, q.replies)
    BY <1>5 DEF Check
  <2> QED BY <2>1 DEF ICMPCheck
<1>6. CASE q.type = "ping"
  <2>1. Check(q) = PingCheck(q.mode, q.echoed, q.connects)
    BY <1>6 DEF Check
  <2> QED BY <2>1 DEF PingCheck, TCPCheck
<1>7. CASE q.type = "tls"
  <2>1. Check(q) = TLSCheck(q.handshake, q.hours, q.warnDays)
    BY <1>7 DEF Check
  <2>2. q.hours \in Int
    BY <1>7 DEF Asked
  <2>3. CASE q.handshake # "ok" \/ q.hours <= 0
    BY <2>1, <2>3 DEF TLSCheck
  <2>4. CASE ~(q.handshake # "ok" \/ q.hours <= 0)
    <3>1. TLSExpiryStatus(q.hours, q.warnDays) \in {"degraded", "up"}
      BY <2>4 DEF TLSExpiryStatus
    <3>2. Check(q) \in {ExpiresSoon, Up}
      BY <2>1, <2>4, <3>1 DEF TLSCheck
    <3> QED BY <3>2
  <2> QED BY <2>3, <2>4
<1>8. CASE q.type = "domain"
  <2>1. Check(q) = DomainCheck(q)
    BY <1>8 DEF Check
  <2>2. \A hours, warnDays : ClassifyDomainExpiry(hours, warnDays) \in Coherently
    BY DEF ClassifyDomainExpiry
  <2>3. q.rdap \in {"unreachable", "unreadable", "refuses", "silent", "dated"}
    BY <1>8 DEF Asked
  <2>4. \/ DomainCheck(q) \in {CannotTell, NotMet}
        \/ \E hours, warnDays : DomainCheck(q) = ClassifyDomainExpiry(hours, warnDays)
    <3>1. CASE q.rdap \in {"unreachable", "unreadable"}
      BY <3>1 DEF DomainCheck
    <3>2. CASE q.rdap \in {"refuses", "silent"}
      BY <3>2 DEF DomainCheck
    <3>3. CASE q.rdap = "dated"
      BY <3>3 DEF DomainCheck
    <3> QED BY <2>3, <3>1, <3>2, <3>3
  <2> QED BY <2>1, <2>2, <2>4
<1>9. CASE q.type = "multistep"
  <2>1. Check(q) = MultistepCheck(q)
    BY <1>9 DEF Check
  <2>2. MultistepCheck(q) = NotMet \/ MultistepCheck(q) = [Up EXCEPT !.code = 200]
    BY DEF MultistepCheck
  <2> QED BY <2>1, <2>2, CodeSet
<1> QED BY <1>1, <1>2, <1>3, <1>4, <1>5, <1>6, <1>7, <1>8, <1>9 DEF Asked

\* A domain and a certificate with the same expiry and warning differ on two days
\* at most, wherever the expiry and the warning lie (ClassifyDomainExpiry,
\* TLSExpiryStatus).
THEOREM ExpiryAlways == \A hours \in Int, warnDays \in Nat \ {0} : ExpiryAgrees(hours, warnDays)
<1> SUFFICES ASSUME NEW hours \in Int, NEW warnDays \in Nat \ {0} PROVE ExpiryAgrees(hours, warnDays)
  OBVIOUS
<1> PICK days : days = TruncatedDays(hours)
  OBVIOUS
<1> PICK domain : domain = ClassifyDomainExpiry(hours, warnDays)
  OBVIOUS
<1> PICK tls : tls = TLSExpiryStatus(hours, warnDays)
  OBVIOUS
<1>1. /\ days \in Int
      /\ days < 0 <=> hours <= -24
      /\ days <= warnDays <=> hours < 24 * (warnDays + 1)
  BY DEF TruncatedDays
<1>2. /\ domain \in {NotMet, ExpiresSoon, Up}
      /\ domain = NotMet <=> days < 0
      /\ days >= 0 /\ days <= warnDays => domain = ExpiresSoon
      /\ days > warnDays => domain = Up
  BY <1>1, Conclusions DEF ClassifyDomainExpiry, Concluded
<1>3. /\ hours <= 0 => tls = "down"
      /\ hours > 0 /\ hours <= 24 * warnDays => tls = "degraded"
      /\ hours > 24 * warnDays => tls = "up"
  BY DEF TLSExpiryStatus
<1>4. /\ NotMet.status = "down" /\ ~NotMet.success /\ ExpiresSoon.status = "degraded" /\ ExpiresSoon.success
      /\ Up.status = "up" /\ Up.success
  BY Conclusions DEF Concluded
<1>5. domain.status # tls => hours \in -23..0 \/ hours \in (24 * warnDays + 1)..(24 * warnDays + 23)
  BY <1>1, <1>2, <1>3, <1>4
<1>6. (hours > 0 => domain.success) /\ (hours <= -24 => ~domain.success)
  BY <1>1, <1>2, <1>4
<1>7. Coherent(domain)
  BY <1>2, ConclusionsCohere, CoherentRows
<1> QED BY <1>5, <1>6, <1>7 DEF ExpiryAgrees

\* The period of a month is the calendar month, quarter or year it lies in
\* (PeriodStartMonth).
THEOREM PeriodAlways == \A period \in {"month", "quarter", "year"}, month \in 1..12 : PeriodAgrees(period, month)
<1> SUFFICES ASSUME NEW period \in {"month", "quarter", "year"}, NEW month \in 1..12 PROVE PeriodAgrees(period, month)
  OBVIOUS
<1>1. CASE period = "month"
  BY <1>1 DEF PeriodAgrees, PeriodStartMonth
<1>2. CASE period = "quarter"
  BY <1>2 DEF PeriodAgrees, PeriodStartMonth
<1>3. CASE period = "year"
  BY <1>3 DEF PeriodAgrees, PeriodStartMonth
<1> QED BY <1>1, <1>2, <1>3

------------------------------------------------------------------------------
(* Assertions, requests, scripts and receivers. *)

\* What an assertion compares: nothing, a text or a number.
Comparable(x) == x = Missing \/ (\E v : x = Text(v)) \/ (\E v \in Int : x = Number(v))

\* The assertions, each by itself.
LEMMA AssertionsAre ==
  ASSUME NEW got, NEW want
  PROVE  /\ EvaluateAssertion("exists", got, want) <=> got # Missing
         /\ EvaluateAssertion("equals", got, want) <=> got # Missing /\ Same(got, want)
         /\ EvaluateAssertion("notEquals", got, want) <=> got = Missing \/ ~Same(got, want)
         /\ EvaluateAssertion("greaterThan", got, want) <=> got.kind = "number" /\ want.kind = "number" /\ got.v > want.v
         /\ EvaluateAssertion("lessThan", got, want) <=> got.kind = "number" /\ want.kind = "number" /\ got.v < want.v
<1>1. EvaluateAssertion("exists", got, want) <=> got # Missing
  BY Zenon DEF EvaluateAssertion
<1>2. EvaluateAssertion("equals", got, want) <=> got # Missing /\ Same(got, want)
  BY Zenon DEF EvaluateAssertion
<1>3. EvaluateAssertion("notEquals", got, want) <=> got = Missing \/ ~Same(got, want)
  BY Zenon DEF EvaluateAssertion
<1>4. EvaluateAssertion("greaterThan", got, want) <=> got.kind = "number" /\ want.kind = "number" /\ got.v > want.v
  BY Zenon DEF EvaluateAssertion
<1>5. EvaluateAssertion("lessThan", got, want) <=> got.kind = "number" /\ want.kind = "number" /\ got.v < want.v
  BY Zenon DEF EvaluateAssertion
<1> QED BY <1>1, <1>2, <1>3, <1>4, <1>5

\* Of two numbers one is the smaller unless they are equal, nothing is equal to what
\* is missing, and `notEquals' is the opposite of `equals' (evaluateAssertion,
\* valuesEqual).
THEOREM AssertionsAlways == \A got, want : Comparable(got) /\ Comparable(want) => AssertionsAgree(got, want)
<1> SUFFICES ASSUME NEW got, NEW want, Comparable(got), Comparable(want) PROVE AssertionsAgree(got, want)
  OBVIOUS
<1> DEFINE ops == {"equals", "greaterThan", "lessThan"}
           Holds(op) == EvaluateAssertion(op, got, want)
           holds == {op \in ops : Holds(op)}
<1>1. got = Missing => got.kind = "missing"
  BY DEF Missing
<1>2. ASSUME got.kind = "number", want.kind = "number"
      PROVE  Cardinality(holds) = 1
  <2>1. PICK a \in Int : got = Number(a)
    BY <1>2 DEF Comparable, Missing, Text
  <2>2. PICK b \in Int : want = Number(b)
    BY <1>2 DEF Comparable, Missing, Text
  <2>3. got # Missing /\ got.v = a /\ want.v = b
    BY <1>1, <1>2, <2>1, <2>2 DEF Number
  <2>4. Same(got, want) <=> a = b
    BY <1>2, <2>3 DEF Same
  <2>5. (Holds("equals") <=> a = b) /\ (Holds("greaterThan") <=> a > b) /\ (Holds("lessThan") <=> a < b)
    BY <1>2, <2>3, <2>4, AssertionsAre
  <2> HIDE DEF Holds
  <2>6. \E op : holds = {op}
    <3>1. CASE a = b
      <4>1. holds = {"equals"}
        BY <2>5, <3>1
      <4> QED BY <4>1
    <3>2. CASE a > b
      <4>1. holds = {"greaterThan"}
        BY <2>5, <3>2
      <4> QED BY <4>1
    <3>3. CASE a < b
      <4>1. holds = {"lessThan"}
        BY <2>5, <3>3
      <4> QED BY <4>1
    <3> QED BY <3>1, <3>2, <3>3
  <2> QED BY <2>6, FS_Singleton
<1>3. got = Missing => holds = {} /\ ~EvaluateAssertion("exists", got, want)
  <2> SUFFICES ASSUME got = Missing PROVE holds = {} /\ ~EvaluateAssertion("exists", got, want)
    OBVIOUS
  <2>1. ~Holds("equals") /\ ~Holds("greaterThan") /\ ~Holds("lessThan") /\ ~EvaluateAssertion("exists", got, want)
    BY <1>1, AssertionsAre
  <2> HIDE DEF Holds
  <2> QED BY <2>1
<1>4. EvaluateAssertion("notEquals", got, want) <=> ~EvaluateAssertion("equals", got, want)
  BY AssertionsAre
<1>5. AssertionsAgree(got, want) <=>
        /\ got.kind = "number" /\ want.kind = "number" => Cardinality(holds) = 1
        /\ got = Missing => holds = {} /\ ~EvaluateAssertion("exists", got, want)
        /\ EvaluateAssertion("notEquals", got, want) <=> ~EvaluateAssertion("equals", got, want)
  BY DEF AssertionsAgree
<1> HIDE DEF holds
<1> QED BY <1>2, <1>3, <1>4, <1>5

\* HTTP, keyword and API checks.
HTTPRequests(methods, answers, keywords, lists, bodies) ==
  [type : {"http", "keyword", "api"}, method : methods, answer : answers, code : Int, expected : Int,
   keyword : keywords, assertions : lists, body : bodies]

\* When the answer to a request is a success.
Succeeds(q) ==
  /\ MethodAllowed(q.type, q.method) /\ q.answer # "none" /\ (q.answer = "broken" => q.method = "HEAD")
  /\ q.code = IF q.expected = 0 THEN 200 ELSE q.expected
  /\ q.type = "keyword" => (q.method # "HEAD" /\ q.keyword = "kept") \/ q.keyword = "unset"
  /\ q.type = "api" => ValidateAPIAssertions(q.assertions, IF q.method = "HEAD" THEN [kept |-> FALSE] ELSE q.body)

LEMMA SucceedsOnly ==
  ASSUME NEW q PROVE HTTPCheck(q).success <=> Succeeds(q)
<1> DEFINE Met == /\ q.code = IF q.expected = 0 THEN 200 ELSE q.expected
                  /\ q.type = "keyword" => (q.method # "HEAD" /\ q.keyword = "kept") \/ q.keyword = "unset"
                  /\ q.type = "api" => ValidateAPIAssertions(q.assertions, IF q.method = "HEAD" THEN [kept |-> FALSE] ELSE q.body)
           Declined == ~MethodAllowed(q.type, q.method) \/ q.answer = "none"
           Broken == q.answer = "broken" /\ q.method # "HEAD"
<1>1. HTTPCheck(q) = IF Declined THEN CannotTell
                     ELSE IF Broken THEN [CannotTell EXCEPT !.code = q.code]
                     ELSE [(IF Met THEN Up ELSE NotMet) EXCEPT !.code = q.code]
  BY DEF HTTPCheck
<1>2. \A o \in Coherently : [o EXCEPT !.code = q.code].success = o.success
  BY DEF Coherently, OutcomeRows
<1>3. Up.success /\ ~NotMet.success /\ ~CannotTell.success
  BY Conclusions DEF Concluded
<1> HIDE DEF Met, Declined, Broken
<1>4. HTTPCheck(q).success <=> ~Declined /\ ~Broken /\ Met
  BY <1>1, <1>2, <1>3, ConclusionsCohere
<1> QED BY <1>4 DEF Met, Declined, Broken, Succeeds

\* A keyword or API monitor is up only if an HTTP monitor would be, and with HEAD
\* it is up only if it asks nothing of the body (HTTPChecker.Check).
THEOREM HTTPAlways ==
  ASSUME NEW methods, NEW answers, NEW keywords, NEW lists, NEW bodies,
         NEW q \in HTTPRequests(methods, answers, keywords, lists, bodies)
  PROVE  HTTPAgrees(q)
<1> PICK plain \in HTTPRequests(methods, answers, keywords, lists, bodies) : plain = [q EXCEPT !.type = "http"]
  BY DEF HTTPRequests
<1>1. /\ plain.type = "http" /\ plain.method = q.method /\ plain.answer = q.answer /\ plain.code = q.code
      /\ plain.expected = q.expected
  BY DEF HTTPRequests
<1>2. q.type \in {"http", "keyword", "api"} /\ q.code \in Int
  BY DEF HTTPRequests
<1>3. Check(q) = HTTPCheck(q)
  BY <1>2 DEF Check
<1>4. Coherent(Check(q))
  BY <1>2, ChecksAreCoherent DEF Asked
<1>5. HTTPCheck(q).success /\ q.method \in {"GET", "HEAD"} => HTTPCheck(plain).success
  <2>1. q.method \in {"GET", "HEAD"} => MethodAllowed("http", q.method)
    BY DEF MethodAllowed
  <2>2. HTTPCheck(plain).success <=>
          /\ MethodAllowed("http", q.method) /\ q.answer # "none" /\ (q.answer = "broken" => q.method = "HEAD")
          /\ q.code = IF q.expected = 0 THEN 200 ELSE q.expected
    <3>1. HTTPCheck(plain).success <=> Succeeds(plain)
      BY ONLY SucceedsOnly
    <3> QED BY <1>1, <3>1 DEF Succeeds
  <2> QED BY <2>1, <2>2, SucceedsOnly DEF Succeeds
<1>6. HTTPCheck(q).success /\ q.method = "HEAD" =>
        /\ q.type = "keyword" => q.keyword = "unset"
        /\ q.type = "api" => q.assertions = <<>>
  <2>1. \A list : ValidateAPIAssertions(list, [kept |-> FALSE]) => list = <<>>
    BY DEF ValidateAPIAssertions
  <2> QED BY <2>1, SucceedsOnly DEF Succeeds
<1> QED BY <1>3, <1>4, <1>5, <1>6 DEF HTTPAgrees

\* The answers of a receiver, whatever statuses it may give.
LEMMA SendsAlike ==
  ASSUME NEW complete \in BOOLEAN, NEW answer, NEW a \in BOOLEAN, NEW t \in BOOLEAN,
         a = Is2xx(answer), answer.kind = "status" => t = Temporary(answer.code),
         answer.kind # "status" => t = TRUE /\ a = FALSE
  PROVE  ProvidersAgree(complete, answer)
<1>1. DeliveryFromStatus(answer) = Outcome(a, Temporary(answer.code), TRUE)
  BY DEF DeliveryFromStatus
<1>2. CASE ~complete
  BY <1>2 DEF ProvidersAgree, TwilioSend, SNSSend, SlackSend, PushSend, WebhookSend, Misconfigured, Outcome
<1>3. CASE complete
  <2>1. (answer.kind # "status" \/ Temporary(answer.code)) = t
    BY DEF Temporary
  <2> PICK e : e = Outcome(a, t, TRUE)
    OBVIOUS
  <2>2. TwilioSend(complete, answer) = e /\ SNSSend(complete, answer) = e
    BY <1>1, <1>3 DEF TwilioSend, SNSSend
  <2>3. SlackSend(complete, answer) = e /\ PushSend(1, answer) = e
    <3>1. e = Outcome(a, answer.kind # "status" \/ Temporary(answer.code), TRUE)
      BY <2>1
    <3>2. e = Outcome(Is2xx(answer), answer.kind # "status" \/ Temporary(answer.code), TRUE)
      BY <3>1, Zenon
    <3>3. SlackSend(complete, answer) = e
      BY <1>3, <3>2, Zenon DEF SlackSend
    <3>4. PushSend(1, answer) = e
      <4>1. 1 # 0
        OBVIOUS
      <4> QED BY <3>2, <4>1, Zenon DEF PushSend
    <3> QED BY <3>3, <3>4
  <2>4. WebhookSend(complete, answer) = IF answer.kind = "cancelled" THEN [e EXCEPT !.retryable = FALSE] ELSE e
    BY <1>3 DEF WebhookSend, PostOnce, Outcome
  <2> QED BY <1>3, <2>1, <2>2, <2>3, <2>4 DEF ProvidersAgree
<1> QED BY <1>2, <1>3

\* The providers judge every answer alike, but that the webhook provider does not
\* try again when it is cancelled (postOnce, deliveryFromStatus).
THEOREM ProvidersAlways == \A complete \in BOOLEAN, answer \in Answers : ProvidersAgree(complete, answer)
<1> SUFFICES ASSUME NEW complete \in BOOLEAN, NEW answer \in Answers PROVE ProvidersAgree(complete, answer)
  OBVIOUS
<1> PICK a \in BOOLEAN : a = Is2xx(answer)
  BY DEF Is2xx
<1> PICK t \in BOOLEAN : t = (answer.kind = "status" => Temporary(answer.code))
  OBVIOUS
<1>1. answer.kind # "status" => a = FALSE
  BY DEF Is2xx
<1> QED BY <1>1, SendsAlike DEF Temporary

\* The variables a step may use, and whether it does what it is asked to.
KnownBefore(script, i) == script.vars \union UNION {script.steps[j].extracts : j \in 1..(i - 1)}
GoodStep(script, i) ==
  LET s == script.steps[i]
  IN  /\ s.answers /\ s.uses \subseteq KnownBefore(script, i) /\ s.extracts \subseteq s.present
      /\ \A k \in DOMAIN s.assertions : StepAssertionHolds(s.assertions[k])

\* The states after each of the first m steps.
Begun(script) == [vars |-> script.vars, failed |-> FALSE, run |-> 0]
StatesAfter(script, m, f) ==
  f = [k \in 0..m |-> IF k = 0 THEN Begun(script) ELSE RunMultistepStep(f[k - 1], script.steps[k])]

\* What AfterSteps stands for.
LEMMA StepsUnfold ==
  ASSUME NEW script
  PROVE  AfterSteps(script) = CHOOSE f : StatesAfter(script, Len(script.steps), f)
BY DEF AfterSteps, StatesAfter, Begun

\* One more step.
LEMMA OneMoreStep ==
  ASSUME NEW script, NEW m \in Nat, NEW f, StatesAfter(script, m, f)
  PROVE  \E g : StatesAfter(script, m + 1, g)
<1> DEFINE last == RunMultistepStep(f[m], script.steps[m + 1])
           g == [k \in 0..(m + 1) |-> IF k <= m THEN f[k] ELSE last]
           rest == [k \in 0..(m + 1) |-> IF k = 0 THEN Begun(script) ELSE RunMultistepStep(g[k - 1], script.steps[k])]
<1>1. \A k \in 0..m : f[k] = IF k = 0 THEN Begun(script) ELSE RunMultistepStep(f[k - 1], script.steps[k])
  BY DEF StatesAfter
<1>2. \A k \in 0..(m + 1) : g[k] = rest[k]
  <2> SUFFICES ASSUME NEW k \in 0..(m + 1) PROVE g[k] = rest[k]
    OBVIOUS
  <2>1. CASE k = 0
    BY <1>1, <2>1
  <2>2. CASE k > 0
    <3>1. k - 1 \in 0..m /\ g[k - 1] = f[k - 1]
      BY <2>2
    <3>2. rest[k] = RunMultistepStep(f[k - 1], script.steps[k])
      BY <2>2, <3>1
    <3>3. k <= m => g[k] = RunMultistepStep(f[k - 1], script.steps[k])
      BY <1>1, <2>2
    <3>4. ~(k <= m) => k = m + 1 /\ k - 1 = m
      OBVIOUS
    <3>5. ~(k <= m) => g[k] = RunMultistepStep(f[k - 1], script.steps[k])
      BY <3>4
    <3> HIDE DEF g, rest
    <3> QED BY <3>2, <3>3, <3>5
  <2> QED BY <2>1, <2>2
<1>3. g = rest
  <2>1. DOMAIN g = 0..(m + 1) /\ DOMAIN rest = 0..(m + 1) /\ g = [k \in 0..(m + 1) |-> g[k]] /\ rest = [k \in 0..(m + 1) |-> rest[k]]
    OBVIOUS
  <2> HIDE DEF g, rest
  <2> QED BY <1>2, <2>1
<1>4. StatesAfter(script, m + 1, g)
  BY <1>3, Zenon DEF StatesAfter
<1> QED BY <1>4

\* There are such states, after any number of steps,
LEMMA StepsExist ==
  ASSUME NEW script, NEW n \in Nat
  PROVE  \E f : StatesAfter(script, n, f)
<1> DEFINE without == {m \in Nat : ~\E f : StatesAfter(script, m, f)}
<1> SUFFICES ASSUME n \in without PROVE FALSE
  OBVIOUS
<1>1. without \subseteq Nat /\ without # {}
  OBVIOUS
<1>2. PICK m \in without : \A k \in without : m <= k
  BY <1>1, LeastNumber
<1>3. m \in Nat /\ ~\E f : StatesAfter(script, m, f)
  OBVIOUS
<1>4. CASE m = 0
  <2> DEFINE g == [k \in 0..0 |-> Begun(script)]
             rest == [k \in 0..0 |-> IF k = 0 THEN Begun(script) ELSE RunMultistepStep(g[k - 1], script.steps[k])]
  <2>1. g = rest
    OBVIOUS
  <2>2. StatesAfter(script, 0, g)
    BY <2>1, Zenon DEF StatesAfter
  <2> QED BY <1>3, <1>4, <2>2
<1>5. CASE m # 0
  <2>1. m - 1 \in Nat /\ m - 1 \notin without /\ m = (m - 1) + 1
    BY <1>2, <1>3, <1>5
  <2>2. PICK f : StatesAfter(script, m - 1, f)
    BY <2>1
  <2> HIDE DEF without
  <2>3. \E g : StatesAfter(script, (m - 1) + 1, g)
    BY ONLY <2>1, <2>2, OneMoreStep
  <2> QED BY <1>3, <2>1, <2>3
<1> QED BY <1>4, <1>5

\* so that AfterSteps gives the states step by step.
LEMMA StepByStep ==
  ASSUME NEW script, Len(script.steps) \in Nat
  PROVE  /\ AfterSteps(script)[0] = Begun(script)
         /\ \A k \in 1..Len(script.steps) : AfterSteps(script)[k] = RunMultistepStep(AfterSteps(script)[k - 1], script.steps[k])
<1> PICK n \in Nat : n = Len(script.steps)
  OBVIOUS
<1> PICK f : f = AfterSteps(script)
  OBVIOUS
<1>1. StatesAfter(script, n, f)
  BY StepsUnfold, StepsExist
<1>2. \A k \in 0..n : f[k] = IF k = 0 THEN Begun(script) ELSE RunMultistepStep(f[k - 1], script.steps[k])
  BY <1>1 DEF StatesAfter
<1>3. f[0] = Begun(script)
  BY <1>2
<1>4. \A k \in 1..n : f[k] = RunMultistepStep(f[k - 1], script.steps[k])
  BY <1>2
<1> QED BY <1>3, <1>4

\* The states of a script whose variables are names.
StatesOf(names) == [vars : SUBSET names, failed : BOOLEAN, run : Nat]

\* Whether a step does what it is asked to in a state.
Does(state, step) ==
  /\ ~state.failed /\ step.uses \subseteq state.vars /\ step.answers
  /\ \A i \in DOMAIN step.assertions : StepAssertionHolds(step.assertions[i])
  /\ step.extracts \subseteq step.present

\* What one step does to the state.
LEMMA StepEffect ==
  ASSUME NEW names, NEW state \in StatesOf(names), NEW step, step.extracts \subseteq names,
         NEW next, next = RunMultistepStep(state, step)
  PROVE  /\ next \in StatesOf(names)
         /\ Does(state, step) => next.vars = state.vars \union step.extracts /\ next.failed = state.failed /\ next.run = state.run + 1
         /\ ~Does(state, step) => next.vars = state.vars /\ next.failed /\ next.run = state.run
<1>1. next = IF Does(state, step) THEN [state EXCEPT !.vars = @ \union step.extracts, !.run = @ + 1]
             ELSE [state EXCEPT !.failed = TRUE]
  BY Zenon DEF RunMultistepStep, Does
<1> PICK vars \in SUBSET names : vars = state.vars \union step.extracts
  BY DEF StatesOf
<1> PICK run \in Nat : run = state.run + 1
  BY DEF StatesOf
<1> PICK moved : moved = [state EXCEPT !.vars = vars, !.run = run]
  OBVIOUS
<1> PICK stopped : stopped = [state EXCEPT !.failed = TRUE]
  OBVIOUS
<1>2. /\ moved \in StatesOf(names)
      /\ moved.vars = state.vars \union step.extracts /\ moved.failed = state.failed /\ moved.run = state.run + 1
  <2>1. moved \in StatesOf(names) /\ moved.vars = vars /\ moved.failed = state.failed /\ moved.run = run
    BY ONLY state \in StatesOf(names), vars \in SUBSET names, run \in Nat,
            moved = [state EXCEPT !.vars = vars, !.run = run] DEF StatesOf
  <2> QED BY <2>1
<1>3. /\ stopped \in StatesOf(names)
      /\ stopped.vars = state.vars /\ stopped.failed /\ stopped.run = state.run
  BY DEF StatesOf
<1>4. next = IF Does(state, step) THEN moved ELSE stopped
  <2>1. moved = [state EXCEPT !.vars = @ \union step.extracts, !.run = @ + 1]
    OBVIOUS
  <2> QED BY <1>1, <2>1, Zenon
<1> QED BY ONLY <1>2, <1>3, <1>4

\* The next step knows what this one extracted as well.
LEMMA KnownGrows ==
  ASSUME NEW script, NEW i \in Nat \ {0}
  PROVE  /\ KnownBefore(script, 1) = script.vars
         /\ KnownBefore(script, i + 1) = KnownBefore(script, i) \union script.steps[i].extracts
<1>1. 1..(1 - 1) = {} /\ 1..((i + 1) - 1) = 1..(i - 1) \union {i}
  OBVIOUS
<1>2. KnownBefore(script, 1) = script.vars
  BY <1>1 DEF KnownBefore
<1>3. KnownBefore(script, i + 1) = script.vars \union UNION {script.steps[j].extracts : j \in 1..(i - 1) \union {i}}
  BY <1>1 DEF KnownBefore
<1>4. UNION {script.steps[j].extracts : j \in 1..(i - 1) \union {i}}
        = (UNION {script.steps[j].extracts : j \in 1..(i - 1)}) \union script.steps[i].extracts
  OBVIOUS
<1> QED BY <1>2, <1>3, <1>4 DEF KnownBefore

\* After k steps: whether all were good, and how far the script has come.
SoFar(script, names, k, state) ==
  /\ state \in StatesOf(names) /\ state.run <= k
  /\ ~state.failed <=> \A j \in 1..k : GoodStep(script, j)
  /\ ~state.failed => state.vars = KnownBefore(script, k + 1) /\ state.run = k
  /\ \A i \in 1..k : state.run >= i <=> \A j \in 1..i : GoodStep(script, j)

\* One step keeps that.
LEMMA SoFarOn ==
  ASSUME NEW script, NEW names, NEW k \in Nat, NEW state, SoFar(script, names, k, state),
         script.steps[k + 1].extracts \subseteq names,
         NEW next, next = RunMultistepStep(state, script.steps[k + 1])
  PROVE  SoFar(script, names, k + 1, next)
<1> PICK step : step = script.steps[k + 1]
  OBVIOUS
<1> PICK good \in BOOLEAN : good = GoodStep(script, k + 1)
  BY DEF GoodStep
<1> PICK does \in BOOLEAN : does = Does(state, step)
  BY DEF Does
<1>1. state \in StatesOf(names) /\ state.run \in Nat /\ state.run <= k
  BY DEF SoFar, StatesOf
<1>2. does <=> ~state.failed /\ good
  BY DEF GoodStep, SoFar, Does
<1>3. /\ next \in StatesOf(names)
      /\ does => next.vars = state.vars \union step.extracts /\ next.failed = state.failed /\ next.run = state.run + 1
      /\ ~does => next.vars = state.vars /\ next.failed /\ next.run = state.run
  <2>1. step.extracts \subseteq names /\ next = RunMultistepStep(state, step)
    OBVIOUS
  <2>2. /\ next \in StatesOf(names)
        /\ Does(state, step) => next.vars = state.vars \union step.extracts /\ next.failed = state.failed /\ next.run = state.run + 1
        /\ ~Does(state, step) => next.vars = state.vars /\ next.failed /\ next.run = state.run
    BY ONLY <1>1, <2>1, StepEffect
  <2> QED BY <2>2
<1>4. 1..(k + 1) = 1..k \union {k + 1}
  OBVIOUS
<1>5. (\A j \in 1..(k + 1) : GoodStep(script, j)) <=> (\A j \in 1..k : GoodStep(script, j)) /\ good
  BY <1>4
<1>6. CASE does
  <2>1. ~state.failed /\ good /\ state.run = k /\ state.vars = KnownBefore(script, k + 1)
    BY <1>2, <1>6 DEF SoFar
  <2>2. \A j \in 1..(k + 1) : GoodStep(script, j)
    BY <1>5, <2>1 DEF SoFar
  <2>3. next.vars = KnownBefore(script, (k + 1) + 1)
    <3>1. k + 1 \in Nat \ {0}
      OBVIOUS
    <3>2. KnownBefore(script, (k + 1) + 1) = KnownBefore(script, k + 1) \union script.steps[k + 1].extracts
      BY ONLY <3>1, KnownGrows
    <3> QED BY <1>3, <1>6, <2>1, <3>2
  <2>4. next.run = k + 1 /\ ~next.failed
    BY <1>3, <1>6, <2>1
  <2>5. \A i \in 1..(k + 1) : next.run >= i /\ \A j \in 1..i : GoodStep(script, j)
    BY <2>2, <2>4
  <2> QED BY <1>3, <2>2, <2>3, <2>4, <2>5 DEF SoFar
<1>7. CASE ~does
  <2>1. ~(\A j \in 1..(k + 1) : GoodStep(script, j))
    BY <1>2, <1>5, <1>7 DEF SoFar
  <2>2. next.failed /\ next.run = state.run
    BY <1>3, <1>7
  <2>3. ASSUME NEW i \in 1..(k + 1) PROVE next.run >= i <=> \A j \in 1..i : GoodStep(script, j)
    <3>1. CASE i \in 1..k
      BY <2>2, <3>1 DEF SoFar
    <3>2. CASE i = k + 1
      BY <1>1, <2>1, <2>2, <3>2
    <3> QED BY <1>4, <3>1, <3>2
  <2>4. next.run <= k + 1
    BY <1>1, <2>2
  <2> QED BY <1>3, <2>1, <2>2, <2>3, <2>4 DEF SoFar
<1> QED BY <1>6, <1>7

\* So it is after every step.
LEMMA SoFarAlways ==
  ASSUME NEW script, Len(script.steps) \in Nat, NEW names, script.vars \subseteq names,
         \A i \in 1..Len(script.steps) : script.steps[i].extracts \subseteq names
  PROVE  SoFar(script, names, Len(script.steps), AfterSteps(script)[Len(script.steps)])
<1> PICK n \in Nat : n = Len(script.steps)
  OBVIOUS
<1> PICK f : f = AfterSteps(script)
  OBVIOUS
<1> DEFINE wrong == {k \in 0..n : ~SoFar(script, names, k, f[k])}
<1> SUFFICES ASSUME n \in wrong PROVE FALSE
  OBVIOUS
<1>1. wrong \subseteq Nat /\ wrong # {}
  OBVIOUS
<1>2. PICK k \in wrong : \A m \in wrong : k <= m
  BY <1>1, LeastNumber
<1>3. k \in 0..n /\ ~SoFar(script, names, k, f[k])
  OBVIOUS
<1>4. f[0] = Begun(script) /\ \A m \in 1..n : f[m] = RunMultistepStep(f[m - 1], script.steps[m])
  BY StepByStep
<1>5. CASE k = 0
  <2> PICK b : b = Begun(script)
    OBVIOUS
  <2>1. b \in StatesOf(names) /\ b.vars = script.vars /\ ~b.failed /\ b.run = 0
    BY DEF Begun, StatesOf
  <2>2. KnownBefore(script, 0 + 1) = script.vars
    <3>1. KnownBefore(script, 1) = script.vars
      <4>1. 1 \in Nat \ {0}
        OBVIOUS
      <4> QED BY ONLY <4>1, KnownGrows
    <3> QED BY <3>1
  <2>3. SoFar(script, names, 0, b)
    BY <2>1, <2>2 DEF SoFar
  <2> QED BY <1>3, <1>4, <1>5, <2>3
<1>6. CASE k # 0
  <2> PICK m \in Nat : m = k - 1 /\ k = m + 1 /\ m \in 0..n /\ k \in 1..n
    BY <1>3, <1>6
  <2>1. SoFar(script, names, m, f[m])
    BY <1>2
  <2>2. f[k] = RunMultistepStep(f[m], script.steps[m + 1]) /\ script.steps[m + 1].extracts \subseteq names
    BY <1>4
  <2>3. SoFar(script, names, m + 1, f[k])
    BY ONLY <2>1, <2>2, SoFarOn
  <2> QED BY <1>3, <2>3
<1> QED BY <1>5, <1>6

\* A script is up exactly when all its steps, in order, do what they are asked to,
\* and nothing runs after a step that does not (MultistepChecker.Check,
\* runMultistepStep).
THEOREM ScriptAlways ==
  ASSUME NEW script, script.type = "multistep", NEW steps, script.steps \in Seq(steps)
  PROVE  ScriptAgrees(script)
<1> PICK n \in Nat : n = Len(script.steps)
  OBVIOUS
<1> PICK names : names = script.vars \union UNION {script.steps[i].extracts : i \in 1..n}
  OBVIOUS
<1> PICK last : last = AfterSteps(script)[n]
  OBVIOUS
<1>1. SoFar(script, names, n, last)
  <2>1. script.vars \subseteq names /\ \A i \in 1..n : script.steps[i].extracts \subseteq names
    OBVIOUS
  <2> QED BY <2>1, SoFarAlways
<1>2. script.steps = <<>> <=> n = 0
  OBVIOUS
<1>3. MultistepCheck(script) = IF n = 0 \/ last.failed THEN NotMet ELSE [Up EXCEPT !.code = 200]
  BY <1>2 DEF MultistepCheck
<1>4. ~NotMet.success /\ [Up EXCEPT !.code = 200].success
  BY Conclusions DEF Concluded
<1>5. MultistepCheck(script).success <=> n > 0 /\ \A i \in 1..n : GoodStep(script, i)
  BY <1>1, <1>3, <1>4 DEF SoFar
<1>6. \A i \in 1..n : last.run >= i <=> \A j \in 1..i : GoodStep(script, j)
  BY <1>1 DEF SoFar
<1>7. Coherent(Check(script))
  BY ChecksAreCoherent DEF Asked
<1>8. ScriptAgrees(script) <=>
        /\ MultistepCheck(script).success <=> n > 0 /\ \A i \in 1..n : GoodStep(script, i)
        /\ \A i \in 1..n : last.run >= i <=> \A j \in 1..i : GoodStep(script, j)
        /\ Coherent(Check(script))
  BY DEF ScriptAgrees, GoodStep, KnownBefore
<1> QED BY <1>5, <1>6, <1>7, <1>8

------------------------------------------------------------------------------
(* The two views of a status page's component. *)

\* Ranks tell statuses apart.
LEMMA RanksApart ==
  /\ StatusRank("up") = 0 /\ StatusRank("degraded") = 1 /\ StatusRank("down") = 2
  /\ \A s, t \in ShownStatuses : StatusRank(s) = StatusRank(t) => s = t
  /\ \A s \in ShownStatuses : StatusRank(s) \in 0..2
<1>1. StatusRank("up") = 0
  BY DEF StatusRank
<1>2. StatusRank("degraded") = 1
  BY DEF StatusRank
<1>3. StatusRank("down") = 2
  BY DEF StatusRank
<1> QED BY <1>1, <1>2, <1>3 DEF ShownStatuses

\* The HTML page shows the worst of the linked monitors.
LEMMA RenderedWorst ==
  ASSUME NEW c, c.linked \subseteq ShownStatuses
  PROVE  RenderedStatus(c) = WorstStatus(c.linked)
<1> PICK L \in SUBSET ShownStatuses : L = c.linked
  OBVIOUS
<1>1. CASE L = {}
  BY <1>1 DEF RenderedStatus, WorstStatus
<1>2. CASE L # {}
  <2> DEFINE Worst(s) == \A t \in L : StatusRank(t) <= StatusRank(s)
  <2>1. RenderedStatus(c) = CHOOSE s \in L : Worst(s)
    BY <1>2 DEF RenderedStatus
  <2>2. WorstStatus(L) \in L /\ Worst(WorstStatus(L))
    BY <1>2, RanksApart DEF WorstStatus, ShownStatuses
  <2>3. \A s \in L : Worst(s) => s = WorstStatus(L)
    <3> SUFFICES ASSUME NEW s \in L, Worst(s) PROVE s = WorstStatus(L)
      OBVIOUS
    <3>1. StatusRank(s) <= StatusRank(WorstStatus(L)) /\ StatusRank(WorstStatus(L)) <= StatusRank(s)
      BY <2>2
    <3>2. StatusRank(s) = StatusRank(WorstStatus(L))
      BY <2>2, <3>1, RanksApart
    <3> QED BY <2>2, <3>2, RanksApart
  <2> HIDE DEF Worst
  <2> QED BY <2>1, <2>2, <2>3
<1> QED BY <1>1, <1>2

\* The two views of a component differ exactly where a manual status hides the
\* monitors, or the service's monitors are worse than the linked ones
\* (componentStatus, renderStatusPageView).
THEOREM ViewsAlways ==
  ASSUME NEW c, c.linked \subseteq ShownStatuses, c.ofService \subseteq ShownStatuses
  PROVE  ComponentViewsAgree(c)
<1> PICK L \in SUBSET ShownStatuses, S \in SUBSET ShownStatuses : L = c.linked /\ S = c.ofService
  OBVIOUS
<1>1. RenderedStatus(c) = WorstStatus(L)
  BY RenderedWorst
<1> DEFINE Manual == c.manual # ""
           Worse == \E s \in S : \A t \in L \union {"up"} : StatusRank(t) < StatusRank(s)
<1>2. ComponentViewsAgree(c) <=>
        (ComponentStatus(c) # RenderedStatus(c) <=> IF Manual THEN c.manual # WorstStatus(L) ELSE Worse)
  BY DEF ComponentViewsAgree
<1>3. ComponentStatus(c) = IF Manual THEN c.manual ELSE WorstStatus(S \union L)
  BY DEF ComponentStatus
<1>4. WorstStatus(S \union L) # WorstStatus(L) <=> Worse
  <2>1. "up" # "down" /\ "up" # "degraded" /\ "down" # "degraded"
    OBVIOUS
  <2>2. CASE "down" \in L
    <3>1. WorstStatus(S \union L) = "down" /\ WorstStatus(L) = "down"
      BY <2>2 DEF WorstStatus
    <3>2. ~Worse
      BY <2>2, RanksApart
    <3> HIDE DEF Worse
    <3> QED BY <3>1, <3>2
  <2>3. CASE "down" \notin L /\ "down" \in S
    <3>1. WorstStatus(S \union L) = "down" /\ WorstStatus(L) # "down"
      BY <2>1, <2>3 DEF WorstStatus
    <3>2. \A t \in L \union {"up"} : StatusRank(t) < 2
      <4> SUFFICES ASSUME NEW t \in L \union {"up"} PROVE StatusRank(t) < 2
        OBVIOUS
      <4>1. t = "up" \/ t = "degraded"
        BY <2>3 DEF ShownStatuses
      <4> QED BY <4>1, RanksApart
    <3>3. Worse
      BY <2>3, <3>2, RanksApart
    <3> HIDE DEF Worse
    <3> QED BY <3>1, <3>3
  <2>4. CASE "down" \notin L /\ "down" \notin S /\ "degraded" \in L
    <3>1. WorstStatus(S \union L) = "degraded" /\ WorstStatus(L) = "degraded"
      BY <2>4 DEF WorstStatus
    <3>2. \A s \in S : StatusRank(s) <= 1
      <4> SUFFICES ASSUME NEW s \in S PROVE StatusRank(s) <= 1
        OBVIOUS
      <4>1. s = "up" \/ s = "degraded"
        BY <2>4 DEF ShownStatuses
      <4> QED BY <4>1, RanksApart
    <3>3. ~Worse
      BY <2>4, <3>2, RanksApart
    <3> HIDE DEF Worse
    <3> QED BY <3>1, <3>3
  <2>5. CASE "down" \notin L /\ "down" \notin S /\ "degraded" \notin L /\ "degraded" \in S
    <3>1. WorstStatus(S \union L) = "degraded" /\ WorstStatus(L) = "up"
      BY <2>5 DEF WorstStatus
    <3>2. \A t \in L \union {"up"} : t = "up"
      BY <2>5 DEF ShownStatuses
    <3>3. Worse
      BY <2>5, <3>2, RanksApart
    <3> HIDE DEF Worse
    <3> QED BY <2>1, <3>1, <3>3
  <2>6. CASE "down" \notin L /\ "down" \notin S /\ "degraded" \notin L /\ "degraded" \notin S
    <3>1. WorstStatus(S \union L) = "up" /\ WorstStatus(L) = "up"
      BY <2>6 DEF WorstStatus
    <3>2. \A s \in S : s = "up"
      BY <2>6 DEF ShownStatuses
    <3>3. ~Worse
      BY <3>2, RanksApart
    <3> HIDE DEF Worse
    <3> QED BY <3>1, <3>3
  <2> QED BY <2>2, <2>3, <2>4, <2>5, <2>6
<1> HIDE DEF Manual, Worse
<1> QED BY <1>1, <1>2, <1>3, <1>4

------------------------------------------------------------------------------
(* Questions.  A behaviour that asks an algorithm asks one thing only.         *)

OneQuestion ==
  /\ part = "windows" => query \in WindowQueries
  /\ part = "rotation" => query \in OnCallQueries
  /\ part = "policies" => query \in PolicyQueries
  /\ part = "views" => query \in ViewQueries
  /\ part = "uptime" => query \in UptimeQueries
  /\ part = "sla" => query \in SlaQueries
  /\ part = "period" => query \in PeriodQueries
  /\ part = "values" => query \in ValueQueries
  /\ part = "http" => query \in HTTPQueries
  /\ part = "network" => query \in NetworkQueries \union DomainQueries
  /\ part = "expiry" => query \in ExpiryQueries
  /\ part = "script" => query \in ScriptQueries
  /\ part = "providers" => query \in ProviderQueries

\* The question is chosen at the start.
LEMMA OneQuestionInit == Init => OneQuestion
  BY DEF Init, OneQuestion, MovingParts

\* No step asks another.
LEMMA OneQuestionNext == OneQuestion /\ [Next]_<<moving, part, query>> => OneQuestion'
<1> SUFFICES ASSUME OneQuestion, [Next]_<<moving, part, query>> PROVE OneQuestion'
  OBVIOUS
<1>1. UNCHANGED <<part, query>>
  BY DEF Next, Alone
<1> QED BY <1>1 DEF OneQuestion

\* The windows the run asks about are windows, and the days it looks back on
\* include the week before each moment unless a day has one or two ticks.
LEMMA WindowsAsked ==
  ASSUME DayTicks >= 3, NEW q \in WindowQueries
  PROVE  WindowHoursAgree(q.w, q.at, -14..20)
<1>1. q.w \in Windows /\ q.at \in 0..60
  BY DEF WindowQueries
<1>2. IsWindow(q.w) /\ ZoneOffset(q.w) \in 0..2
  <2> PICK w : w = q.w
    OBVIOUS
  <2>1. /\ w.starts \in {0, 4, 13, 20} /\ w.ends \in {3, 5, 16, 22, 40} /\ w.offset \in {0, 2}
        /\ w.zoneKnown \in BOOLEAN /\ w.enabled \in BOOLEAN
    BY <1>1 DEF Windows
  <2>2. w.starts \in Int /\ w.ends \in Int /\ w.offset \in Int
    BY ONLY <2>1
  <2>3. IsWindow(w)
    BY <2>1, <2>2 DEF IsWindow
  <2>4. ZoneOffset(w) \in {0, 2}
    BY <2>1, Zenon DEF ZoneOffset
  <2> QED BY <2>3, <2>4
<1> PICK now \in 0..62 : now = q.at + ZoneOffset(q.w)
  BY <1>1, <1>2
<1> PICK n \in Nat \ {0} : n = DayTicks /\ n >= 3
  BY CalendarAssumption
<1>3. now \div n \in 0..20
  <2> PICK d \in Int, m \in Nat : now \div n = d /\ m < n /\ now = d * n + m /\ d * n \in Int
    <3>1. now \in Int
      OBVIOUS
    <3> QED BY ONLY <3>1, n \in Nat \ {0}, Divided
  <2>1. d * n <= now /\ now < d * n + n
    OBVIOUS
  <2>2. d < 0 => d * n + n <= 0
    <3>1. d < 0 => d + 1 <= 0
      OBVIOUS
    <3>2. 0 * n = 0
      OBVIOUS
    <3> QED BY <3>1, <3>2, Multiples
  <2>3. d > 20 => 21 * n <= d * n
    <3>1. d > 20 => 21 <= d
      OBVIOUS
    <3> QED BY <3>1, Multiples
  <2>4. 21 * n > 62
    OBVIOUS
  <2>5. ~(d < 0)
    BY <2>1, <2>2
  <2>6. ~(d > 20)
    BY <2>1, <2>3, <2>4
  <2> QED BY <2>5, <2>6
<1>4. \A k \in 0..6 : Day(q.at + ZoneOffset(q.w)) - k \in -14..20
  BY <1>3 DEF Day
<1>5. -14..20 \subseteq Int /\ q.at \in Int
  BY <1>1
<1> QED BY ONLY <1>2, <1>4, <1>5, WindowsAlways

\* In the run a window is in effect exactly at the hours of its reference
\* (isWindowActive).
THEOREM WindowsInRun == DayTicks >= 3 => (Spec => []WindowHours)
<1> SUFFICES ASSUME DayTicks >= 3 PROVE Spec => []WindowHours
  OBVIOUS
<1>1. OneQuestion => WindowHours
  BY WindowsAsked DEF OneQuestion, WindowHours
<1> QED BY <1>1, OneQuestionInit, OneQuestionNext, PTL DEF Spec

\* The participants it asks about are lists,
LEMMA NamesAsked ==
  ASSUME NEW names \in {<<"a", "b">>, <<"b", "", "a", "b", "c">>, <<>>}
  PROVE  Len(names) \in Nat
<1>1. CASE names = <<"a", "b">>
  BY <1>1
<1>2. CASE names = <<"b", "", "a", "b", "c">>
  BY <1>2
<1>3. CASE names = <<>>
  BY <1>3
<1> QED BY <1>1, <1>2, <1>3

\* and so are the overrides, each of which has a start and an end.
LEMMA OverridesAsked ==
  ASSUME NEW o \in Overrides
  PROVE  Len(o) \in Nat /\ \A j \in 1..Len(o) : o[j].starts \in Int /\ o[j].ends \in Int
<1>x. PICK x : x = [user |-> "x", starts |-> 3, ends |-> 9]
  OBVIOUS
<1>y. PICK y : y = [user |-> "y", starts |-> 5, ends |-> 6]
  OBVIOUS
<1>1. x.starts \in Int /\ x.ends \in Int /\ y.starts \in Int /\ y.ends \in Int
  BY <1>x, <1>y
<1>2. o = <<>> \/ o = <<x>> \/ o = <<x, y>>
  BY <1>x, <1>y, Zenon DEF Overrides
<1>3. CASE o = <<>>
  BY ONLY <1>3
<1>4. CASE o = <<x>>
  BY ONLY <1>1, <1>4
<1>5. CASE o = <<x, y>>
  BY ONLY <1>1, <1>5
<1> QED BY ONLY <1>2, <1>3, <1>4, <1>5

\* A question about a schedule is made of its parts.
LEMMA RotationParts ==
  ASSUME NEW NameLists, NEW Rotations, NEW Handoffs, NEW Moments, NEW Counts,
         NEW q \in {[s |-> ScheduleRow(names, rotation, handoff, 5), overrides |-> o, from |-> from, count |-> count] :
                      names \in NameLists, rotation \in Rotations, handoff \in Handoffs,
                      from \in Moments, count \in Counts, o \in Overrides}
  PROVE  \E names \in NameLists, rotation \in Rotations, handoff \in Handoffs, from \in Moments, count \in Counts :
           /\ q.s = ScheduleRow(names, rotation, handoff, 5)
           /\ q.overrides \in Overrides /\ q.from = from /\ q.count = count
OBVIOUS

\* The inputs the run draws them from.
RunNames == {<<"a", "b">>, <<"b", "", "a", "b", "c">>, <<>>}
RunRotations == {2, 3}
RunHandoffs == {-1, 0, 9}
RunMoments == {0, 4, 7, 11}
RunCounts == {0, 3}

\* Its questions are of these inputs.
LEMMA RotationsDrawn ==
  OnCallQueries = {[s |-> ScheduleRow(names, rotation, handoff, 5), overrides |-> o, from |-> from, count |-> count] :
                     names \in RunNames, rotation \in RunRotations, handoff \in RunHandoffs,
                     from \in RunMoments, count \in RunCounts, o \in Overrides}
BY DEF OnCallQueries, RunNames, RunRotations, RunHandoffs, RunMoments, RunCounts

\* What the run asks of on-call schedules, it asks of new rows of them.
LEMMA RotationsAsked ==
  ASSUME NEW q \in OnCallQueries
  PROVE  OnCallAgrees(q.s, q.overrides, q.from, q.count)
<1>1. PICK names \in RunNames, rotation \in RunRotations, handoff \in RunHandoffs, from \in RunMoments, count \in RunCounts :
        /\ q.s = ScheduleRow(names, rotation, handoff, 5)
        /\ q.overrides \in Overrides /\ q.from = from /\ q.count = count
  BY RotationsDrawn, RotationParts
<1>2. rotation \in Nat \ {0} /\ handoff \in Int /\ from \in Int /\ count \in Int /\ 5 \in Int
  BY DEF RunRotations, RunHandoffs, RunMoments, RunCounts
<1>3. Len(names) \in Nat
  BY NamesAsked, Zenon DEF RunNames
<1>4. IsSchedule(ScheduleRow(names, rotation, handoff, 5))
  BY ONLY <1>2, <1>3, ScheduleMade
<1>5. Len(q.overrides) \in Nat /\ \A j \in 1..Len(q.overrides) : q.overrides[j].starts \in Int /\ q.overrides[j].ends \in Int
  BY <1>1, OverridesAsked
<1>6. OnCallAgrees(ScheduleRow(names, rotation, handoff, 5), q.overrides, from, count)
  BY ONLY <1>2, <1>4, <1>5, OnCallAlways
<1> QED BY <1>1, <1>6

\* What it asks of policies, it asks of two with a record's fields.
LEMMA PoliciesAsked ==
  ASSUME NEW q \in PolicyQueries
  PROVE  EscalationIsSpecific(q.policies, q.subject)
<1>1. q.policies \in Policies \X Policies
  BY Zenon DEF PolicyQueries
<1> PICK a \in Policies, b \in Policies : q.policies = <<a, b>>
  BY <1>1
<1>2. <<a, b>> \in Seq(Policies)
  BY ONLY a \in Policies, b \in Policies
<1>3. a.enabled \in BOOLEAN /\ b.enabled \in BOOLEAN
  BY DEF Policies
<1>4. \A i \in 1..Len(<<a, b>>) : <<a, b>>[i].enabled \in BOOLEAN
  BY ONLY <1>3
<1>5. EscalationIsSpecific(<<a, b>>, q.subject)
  BY ONLY <1>2, <1>4, EscalationAlways
<1> QED BY <1>5

\* In the run the coming shifts and whoever is on call agree, and an incident gets
\* the policy that fits it best (ResolveOnCall, UpcomingOnCallShifts, policyScore).
THEOREM RoutingInRun == Spec => []RoutingAgrees
<1>1. OneQuestion => RoutingAgrees
  BY RotationsAsked, PoliciesAsked DEF OneQuestion, RoutingAgrees
<1> QED BY <1>1, OneQuestionInit, OneQuestionNext, PTL DEF Spec

------------------------------------------------------------------------------
(* Questions about reports and outcomes. *)

\* A question about a component's views is about statuses that are shown.
LEMMA ViewsAsked ==
  ASSUME NEW q \in ViewQueries
  PROVE  ComponentViewsAgree(q)
<1>1. ASSUME NEW manuals, NEW c \in [manual : manuals, ofService : SUBSET ShownStatuses, linked : SUBSET ShownStatuses]
      PROVE  c.linked \subseteq ShownStatuses /\ c.ofService \subseteq ShownStatuses
  OBVIOUS
<1>2. PICK manuals : q \in [manual : manuals, ofService : SUBSET ShownStatuses, linked : SUBSET ShownStatuses]
  BY Zenon DEF ViewQueries
<1>3. q.linked \subseteq ShownStatuses /\ q.ofService \subseteq ShownStatuses
  BY ONLY <1>1, <1>2
<1> QED BY ONLY <1>3, ViewsAlways

\* The requests the run makes, with an open status.
RunFilters ==
  [monitors : {{"m1"}, {"m1", "m2"}}, status : {AnyStatus}, after : {0, 2}, before : {3, 5},
   excludeMaintenance : BOOLEAN, limit : {3}, offset : {0}]

\* They are requests for reports.
LEMMA FiltersAsked ==
  ASSUME NEW f \in Filters
  PROVE  /\ f \in FiltersOf({"m1", "m2"}, {AnyStatus}) /\ f.status = AnyStatus
         /\ f.after \in Nat /\ IsFiniteSet(f.monitors)
<1>1. Filters = RunFilters
  BY Zenon DEF Filters, RunFilters, AnyStatus
<1>2. f \in RunFilters
  BY ONLY <1>1, f \in Filters
<1>3. /\ f \in FiltersOf({"m1", "m2"}, {AnyStatus}) /\ f.status = AnyStatus
      /\ f.after \in Nat /\ f.monitors \in {{"m1"}, {"m1", "m2"}}
  BY ONLY <1>2 DEF RunFilters, FiltersOf
<1>4. IsFiniteSet({"m1"}) /\ IsFiniteSet({"m1", "m2"})
  <2>1. IsFiniteSet({"m1"}) /\ IsFiniteSet({"m1"} \union {"m2"})
    BY FS_Singleton, FS_AddElement
  <2>2. {"m1", "m2"} = {"m1"} \union {"m2"}
    OBVIOUS
  <2> QED BY ONLY <2>1, <2>2
<1> QED BY ONLY <1>3, <1>4

\* The row of a time, and all rows.
RowAt(f, t) ==
  [monitor |-> IF t = 3 THEN "m2" ELSE "m1", at |-> t, status |-> IF f[t].ok THEN "up" ELSE "down",
   success |-> f[t].ok, ms |-> f[t].ms, suppressed |-> f[t].hidden]
LEMMA RowsByTime ==
  ASSUME NEW f
  PROVE  ResultRows(f) = {RowAt(f, t) : t \in DOMAIN f}
BY DEF ResultRows, RowAt

\* The rows of the run: at most one for each of a few times.
LEMMA RowsAsked ==
  ASSUME LastSecond >= 3, NEW rows \in ResultSets
  PROVE  /\ CheckRows(rows) /\ Cardinality(rows) \in Nat /\ Cardinality(rows) <= 4
         /\ \A r \in rows : r.ms \in Nat
         /\ \A a, b \in rows : a.at = b.at => a = b
<1> DEFINE Results == [ok : BOOLEAN, ms : {1, 4, 9}, hidden : {FALSE}]
<1>1. PICK times \in SUBSET {0, 2, 3} : \E f \in [times -> Results] : rows = ResultRows(f)
  BY DEF ResultSets
<1>2. PICK f \in [times -> Results] : rows = ResultRows(f)
  BY <1>1
<1>3. DOMAIN f = times /\ \A t \in times : f[t].ms \in {1, 4, 9}
  BY <1>2
<1>4. rows = {RowAt(f, t) : t \in times}
  BY <1>2, <1>3, RowsByTime
<1>5. \A t \in times : RowAt(f, t).at = t /\ RowAt(f, t).ms = f[t].ms
  BY DEF RowAt
<1> DEFINE row == [t \in times |-> RowAt(f, t)]
<1>6. row \in Surjection(times, rows)
  BY <1>4 DEF Surjection
<1> HIDE DEF row
<1>7. IsFiniteSet(times) /\ Cardinality(times) \in Nat /\ Cardinality(times) <= 4
  <2> PICK a \in Int, b \in Int : a = 0 /\ b = 3
    OBVIOUS
  <2>1. IsFiniteSet(a..b) /\ Cardinality(a..b) = IF a > b THEN 0 ELSE b - a + 1
    BY ONLY a \in Int, b \in Int, FS_Interval
  <2>2. Cardinality(a..b) = 4
    BY <2>1
  <2>3. times \subseteq a..b
    OBVIOUS
  <2> QED BY <2>1, <2>2, <2>3, Smaller
<1>8. IsFiniteSet(rows) /\ Cardinality(rows) \in Nat /\ Cardinality(rows) <= 4
  <2>1. IsFiniteSet(rows) /\ Cardinality(rows) <= Cardinality(times)
    BY <1>6, <1>7, FS_Surjection
  <2>2. Cardinality(rows) \in Nat
    BY <2>1, FS_CardinalityType
  <2> QED BY <1>7, <2>1, <2>2
<1>9. \A r \in rows : r.at \in 0..LastSecond /\ r.ms \in Nat
  <2>1. LastSecond \in Int
    BY ReportsAssumption
  <2>2. ASSUME NEW t \in times PROVE RowAt(f, t).at \in 0..LastSecond /\ RowAt(f, t).ms \in Nat
    <3>1. t \in {0, 2, 3}
      OBVIOUS
    <3> QED BY ONLY <1>3, <1>5, <2>1, <3>1, LastSecond >= 3
  <2> QED BY ONLY <1>4, <2>2
<1>10. \A a, b \in rows : a.at = b.at => a = b
  BY ONLY <1>4, <1>5
<1> QED BY ONLY <1>8, <1>9, <1>10 DEF CheckRows

\* The incidents and monitors of the run's overview.
LEMMA OverviewAsked ==
  ASSUME LastSecond >= 3
  PROVE  /\ IncidentRows(UptimeIncidents)
         /\ \A i \in UptimeIncidents : i.monitor \in DOMAIN MonitorStatuses /\ i.started <= LastSecond
         /\ IsFiniteSet(DOMAIN MonitorStatuses)
         /\ \A m \in DOMAIN MonitorStatuses : MonitorStatuses[m] \in {"up", "down", "degraded"}
<1> PICK x : x = [monitor |-> "m1", status |-> "open", started |-> 2, resolved |-> Ongoing]
  OBVIOUS
<1> PICK y : y = [monitor |-> "m2", status |-> "resolved", started |-> 0, resolved |-> 3]
  OBVIOUS
<1>1. UptimeIncidents = {x} \union {y}
  BY DEF UptimeIncidents
<1>2. IsFiniteSet({x} \union {y})
  BY ONLY FS_Singleton, FS_AddElement
<1>3. /\ x.started = 2 /\ x.resolved = -1 /\ x.monitor = "m1"
      /\ y.started = 0 /\ y.resolved = 3 /\ y.monitor = "m2"
  BY DEF Ongoing
<1>4. DOMAIN MonitorStatuses = {"m1"} \union {"m2"} /\ MonitorStatuses["m1"] = "up" /\ MonitorStatuses["m2"] = "down"
  BY DEF MonitorStatuses
<1>5. IsFiniteSet({"m1"} \union {"m2"})
  BY FS_Singleton, FS_AddElement
<1>6. LastSecond \in Int
  BY ReportsAssumption
<1>7. \A i \in {x} \union {y} : i.started \in Int /\ i.resolved \in Int /\ i.started <= LastSecond
                                 /\ i.monitor \in {"m1"} \union {"m2"}
  BY ONLY <1>3, <1>6, LastSecond >= 3
<1>8. IncidentRows(UptimeIncidents)
  BY ONLY <1>1, <1>2, <1>7 DEF IncidentRows
<1>9. \A i \in UptimeIncidents : i.monitor \in DOMAIN MonitorStatuses /\ i.started <= LastSecond
  BY ONLY <1>1, <1>4, <1>7
<1>10. \A m \in DOMAIN MonitorStatuses : MonitorStatuses[m] \in {"up", "down", "degraded"}
  BY ONLY <1>4
<1> QED BY ONLY <1>4, <1>5, <1>8, <1>9, <1>10

\* The uptime reports and overviews the run asks for.
LEMMA UptimeAsked ==
  ASSUME LastSecond >= 3, ReportLimit >= 4, NEW q \in UptimeQueries
  PROVE  /\ UptimeAgrees(q.rows, q.filter)
         /\ FiguresAgree(q.rows, UptimeIncidents, MonitorStatuses, q.filter.after)
<1>1. q.rows \in ResultSets /\ q.filter \in Filters
  BY ONLY q \in UptimeQueries DEF UptimeQueries
<1> PICK rows \in ResultSets : rows = q.rows
  BY <1>1
<1> PICK filter \in Filters : filter = q.filter
  BY <1>1
<1>2. /\ CheckRows(rows) /\ Cardinality(rows) \in Nat /\ Cardinality(rows) <= 4
      /\ \A r \in rows : r.ms \in Nat
      /\ \A a, b \in rows : a.at = b.at => a = b
  BY RowsAsked
<1>3. filter \in FiltersOf({"m1", "m2"}, {AnyStatus}) /\ filter.after \in Nat
  BY FiltersAsked
<1>4. \A a, b \in Selected(rows, filter) : a.at = b.at => a = b
  <2>1. Selected(rows, filter) \subseteq rows
    BY DEF Selected
  <2> QED BY ONLY <1>2, <2>1
<1>5. UptimeAgrees(rows, filter)
  BY ONLY <1>2, <1>3, <1>4, UptimeAlways
<1>6. Cardinality(rows) <= ReportLimit /\ Cardinality(rows) <= 500
  <2>1. ReportLimit \in Int
    BY ReportsAssumption
  <2> QED BY ONLY <1>2, <2>1, ReportLimit >= 4
<1>7. /\ IncidentRows(UptimeIncidents)
      /\ \A i \in UptimeIncidents : i.monitor \in DOMAIN MonitorStatuses /\ i.started <= LastSecond
      /\ IsFiniteSet(DOMAIN MonitorStatuses)
      /\ \A m \in DOMAIN MonitorStatuses : MonitorStatuses[m] \in {"up", "down", "degraded"}
  BY ONLY LastSecond >= 3, OverviewAsked
<1>8. FiguresAgree(rows, UptimeIncidents, MonitorStatuses, filter.after)
  BY ONLY <1>2, <1>3, <1>6, <1>7, FiguresAlways
<1> QED BY <1>5, <1>8

\* There are finitely many outages to choose from.
LEMMA OutagesFinite == IsFiniteSet(Outages)
<1> DEFINE sites == {"m1", "m2"}
           begins == {0, 2, 3}
           ends == {-1, 3, 4}
           triples == (sites \X begins) \X ends
           made == [p \in triples |-> [monitor |-> p[1][1], status |-> "open", started |-> p[1][2], resolved |-> p[2]]]
<1>1. IsFiniteSet(sites)
  <2>1. IsFiniteSet({"m1"} \union {"m2"})
    BY FS_Singleton, FS_AddElement
  <2>2. sites = {"m1"} \union {"m2"}
    OBVIOUS
  <2> QED BY ONLY <2>1, <2>2
<1>2. IsFiniteSet(begins) /\ IsFiniteSet(ends)
  <2>1. -1 \in Int /\ 4 \in Int
    OBVIOUS
  <2>2. IsFiniteSet(-1..4)
    BY <2>1, FS_Interval
  <2>3. begins \subseteq -1..4 /\ ends \subseteq -1..4
    OBVIOUS
  <2> QED BY <2>2, <2>3, FS_Subset
<1>3. IsFiniteSet(triples)
  <2> HIDE DEF sites, begins, ends
  <2>1. IsFiniteSet(sites \X begins)
    BY ONLY <1>1, <1>2, FS_Product
  <2> QED BY <1>2, <2>1, FS_Product
<1>4. made \in Surjection(triples, Outages)
  <2>1. ASSUME NEW p \in triples PROVE made[p] \in Outages
    BY DEF Outages, Ongoing
  <2>2. ASSUME NEW o \in Outages PROVE \E p \in triples : made[p] = o
    <3>1. /\ o.monitor \in sites /\ o.status = "open" /\ o.started \in begins /\ o.resolved \in ends
          /\ o = [monitor |-> o.monitor, status |-> "open", started |-> o.started, resolved |-> o.resolved]
      BY DEF Outages, Ongoing
    <3> PICK a \in sites, b \in begins, c \in ends : a = o.monitor /\ b = o.started /\ c = o.resolved
      BY <3>1
    <3>2. <<<<a, b>>, c>> \in triples
      OBVIOUS
    <3>3. made[<<<<a, b>>, c>>] = [monitor |-> a, status |-> "open", started |-> b, resolved |-> c]
      BY <3>2
    <3> QED BY <3>1, <3>2, <3>3
  <2> HIDE DEF triples
  <2>3. DOMAIN made = triples
    OBVIOUS
  <2>4. made \in [triples -> Outages]
    BY <2>1
  <2> QED BY <2>2, <2>4 DEF Surjection
<1> HIDE DEF triples, made
<1> QED BY <1>3, <1>4, FS_Surjection

\* The SLA reports the run asks for.
LEMMA SlaAsked ==
  ASSUME NEW q \in SlaQueries
  PROVE  SlaAgrees(q.incidents, q.filter)
<1>1. q.incidents \subseteq Outages /\ q.filter \in Filters
  BY DEF SlaQueries
<1> PICK incidents \in SUBSET Outages : incidents = q.incidents
  BY <1>1
<1> PICK filter \in Filters : filter = q.filter
  BY <1>1
<1>2. IncidentRows(incidents)
  <2>1. IsFiniteSet(incidents)
    BY OutagesFinite, FS_Subset
  <2>2. \A o \in Outages : o.started \in Int /\ o.resolved \in Int
    BY DEF Outages, Ongoing
  <2> QED BY <2>1, <2>2 DEF IncidentRows
<1>3. filter \in FiltersOf({"m1", "m2"}, {AnyStatus}) /\ filter.status = AnyStatus /\ IsFiniteSet(filter.monitors)
  BY FiltersAsked
<1>4. SlaAgrees(incidents, filter)
  BY ONLY <1>2, <1>3, SlaAlways
<1> QED BY <1>4

\* The values the run compares can be compared.
LEMMA ValuesAsked ==
  ASSUME NEW q \in ValueQueries
  PROVE  AssertionsAgree(q.got, q.want)
<1>1. \A x \in Values : Comparable(x)
  BY DEF Values, Comparable
<1>2. q.got \in Values /\ q.want \in Values
  BY DEF ValueQueries
<1> QED BY ONLY <1>1, <1>2, AssertionsAlways

\* Its requests are requests,
LEMMA HTTPAsked ==
  ASSUME NEW q \in HTTPQueries
  PROVE  HTTPAgrees(q)
<1> DEFINE Rows(lists, bodies) ==
             [type : {"http", "keyword", "api"}, method : {"GET", "HEAD", "POST"}, answer : {"none", "broken", "whole"},
              code : {200, 301}, expected : {0, 200, 301}, keyword : {"unset", "kept", "beyond"}, assertions : lists,
              body : bodies]
<1>1. PICK bodies : HTTPQueries = Rows(Asserted, bodies)
  BY DEF HTTPQueries
<1> PICK lists : lists = Asserted
  OBVIOUS
<1>2. q \in HTTPRequests({"GET", "HEAD", "POST"}, {"none", "broken", "whole"}, {"unset", "kept", "beyond"}, lists, bodies)
  <2>1. q \in Rows(lists, bodies)
    BY <1>1
  <2> QED BY ONLY <2>1 DEF HTTPRequests
<1> QED BY ONLY <1>2, HTTPAlways

\* its network checks are asked what they need,
LEMMA NetworkAsked ==
  ASSUME NEW q \in NetworkQueries \union DomainQueries
  PROVE  Coherent(Check(q))
<1> DEFINE NetworkRows(modes) ==
             [type : {"tcp", "dns", "udp", "icmp", "ping", "tls"}, connects : BOOLEAN, replies : 0..3, expects : BOOLEAN,
              reply : {"none", "other", "expected"}, mode : modes, echoed : BOOLEAN, handshake : {"ok", "refused"},
              hours : {-5, 100, 900}, warnDays : {10}]
<1>1. PICK modes : NetworkQueries = NetworkRows(modes)
  BY Zenon DEF NetworkQueries
<1>2. ASSUME NEW r \in NetworkRows(modes) PROVE Asked(r)
  <2>1. r.type \in {"tcp", "dns", "udp", "icmp", "ping", "tls"} /\ r.hours \in Int /\ r.warnDays \in Int
    BY ONLY <1>2
  <2> QED BY ONLY <2>1 DEF Asked
<1>3. ASSUME NEW r \in DomainQueries PROVE Asked(r)
  <2>1. r.type = "domain" /\ r.rdap \in {"unreachable", "unreadable", "refuses", "silent", "dated"}
    BY ONLY <1>3 DEF DomainQueries
  <2> QED BY ONLY <2>1 DEF Asked
<1> HIDE DEF NetworkRows
<1>4. Asked(q)
  BY <1>1, <1>2, <1>3
<1> QED BY ONLY <1>4, ChecksAreCoherent

\* and its scripts are lists of steps.
LEMMA ScriptsAsked ==
  ASSUME NEW q \in ScriptQueries
  PROVE  ScriptAgrees(q)
<1>1. PICK lists : /\ q \in [type : {"multistep"}, vars : {{}, {"t"}}, steps : lists]
                   /\ lists = UNION {[1..n -> ScriptSteps] : n \in 0..2}
  BY DEF ScriptQueries
<1>2. q.type = "multistep" /\ q.steps \in lists
  BY ONLY <1>1
<1> PICK steps : steps = ScriptSteps
  OBVIOUS
<1>3. PICK n \in Nat : q.steps \in [1..n -> steps]
  <2>1. PICK n \in 0..2 : q.steps \in [1..n -> steps]
    BY <1>1, <1>2, Zenon
  <2> QED BY <2>1
<1>4. q.steps \in Seq(steps)
  BY ONLY <1>3
<1> QED BY ONLY <1>2, <1>4, ScriptAlways

\* In the run the figures of every report fit together and pages show every row: the
\* inputs have at most four rows, of four seconds (summarizeResults,
\* SLAReportForMonitor, OverviewStats, ListCheckResults, componentStatus).
THEOREM ReportsInRun == LastSecond >= 3 /\ ReportLimit >= 4 => (Spec => []ReportsAgree)
<1> SUFFICES ASSUME LastSecond >= 3, ReportLimit >= 4 PROVE Spec => []ReportsAgree
  OBVIOUS
<1>1. OneQuestion => ReportsAgree
  <2> SUFFICES ASSUME OneQuestion PROVE ReportsAgree
    OBVIOUS
  <2>1. part = "views" => ComponentViewsAgree(query)
    BY ViewsAsked DEF OneQuestion
  <2>2. part = "uptime" => /\ UptimeAgrees(query.rows, query.filter)
                           /\ FiguresAgree(query.rows, UptimeIncidents, MonitorStatuses, query.filter.after)
    BY UptimeAsked DEF OneQuestion
  <2>3. part = "period" => PeriodAgrees(query.period, query.month)
    BY PeriodAlways DEF OneQuestion, PeriodQueries
  <2>4. part = "sla" => SlaAgrees(query.incidents, query.filter)
    BY SlaAsked DEF OneQuestion
  <2> QED BY <2>1, <2>2, <2>3, <2>4 DEF ReportsAgree
<1> QED BY <1>1, OneQuestionInit, OneQuestionNext, PTL DEF Spec

\* In the run every check and every provider concludes what its reference says
\* (RunCheck, evaluateAssertion, ClassifyDomainExpiry, runMultistepStep, postOnce).
THEOREM OutcomesInRun == Spec => []OutcomesAgree
<1>1. OneQuestion => OutcomesAgree
  <2> SUFFICES ASSUME OneQuestion PROVE OutcomesAgree
    OBVIOUS
  <2>1. part = "values" => AssertionsAgree(query.got, query.want)
    BY ValuesAsked DEF OneQuestion
  <2>2. part = "http" => HTTPAgrees(query)
    BY HTTPAsked DEF OneQuestion
  <2>3. part = "network" => Coherent(Check(query))
    BY NetworkAsked DEF OneQuestion
  <2>4. part = "expiry" => ExpiryAgrees(query.hours, query.warn)
    BY ExpiryAlways DEF OneQuestion, ExpiryQueries
  <2>5. part = "script" => ScriptAgrees(query)
    BY ScriptsAsked DEF OneQuestion
  <2>6. part = "providers" => ProvidersAgree(query.complete, query.answer)
    BY ProvidersAlways DEF OneQuestion, ProviderQueries
  <2> QED BY <2>1, <2>2, <2>3, <2>4, <2>5, <2>6 DEF OutcomesAgree
<1> QED BY <1>1, OneQuestionInit, OneQuestionNext, PTL DEF Spec
==============================================================================
