---------------------------- MODULE IncidentRecords ----------------------------
(***************************************************************************)
(* What users write around one incident and its monitor                    *)
(* (repository/phase23_store.go): comments, the post-mortem, action items, *)
(* the timeline that tells of them, and the monitors this one depends on,  *)
(* whose active incidents suppress its own.                                *)
(*                                                                         *)
(* Requests run concurrently, one database statement at a time, and may    *)
(* stop between two of them.  Texts are represented by who wrote them.     *)
(***************************************************************************)
EXTENDS Integers, FiniteSets

CONSTANTS
  Authors,     \* requests about the incident's notes, each made once
  DepSavers,   \* requests that save dependencies, each made once
  Parents      \* other monitors of the organisation

Nobody == "nobody"

ASSUME RecordsAssumption == Nobody \notin Authors \union DepSavers

VARIABLES
  comments,    \* rows: [id, body], an id being the author of the first version
  postmortem,  \* [creator, text], both Nobody when there is no row
  items,       \* rows: [id, title, doneBy]
  timeline,    \* events: [type, id]
  author,      \* [Authors -> [stage, op]]
  lastText,    \* who made the last save of the post-mortem that succeeded
  unlogged,    \* authors whose event was not written
  deps,        \* rows of monitor_dependencies of the monitor: [parent, by]
  saver,       \* [DepSavers -> [stage, wanted, seen, deleted, beside]]
  lastSaver,   \* who committed dependencies last
  parentLive   \* parents that have not been deleted

notes == <<comments, postmortem, items, timeline, author, lastText, unlogged>>
recVars == <<notes, deps, saver, lastSaver, parentLive>>

NoAuthor == [stage |-> "new", op |-> "none"]
NoSaver == [stage |-> "new", wanted |-> {}, seen |-> {}, deleted |-> {}, beside |-> {}]

Goes(a, stage, op) == author' = [author EXCEPT ![a] = [stage |-> stage, op |-> op]]

------------------------------------------------------------------------------
(* Comments and action items: the row, then the event. *)

CreateIncidentComment(a) ==
  /\ author[a].stage = "new"
  /\ comments' = comments \union {[id |-> a, body |-> a]}
  /\ Goes(a, "log", "comment")
  /\ UNCHANGED <<postmortem, items, timeline, lastText, unlogged, deps, saver, lastSaver, parentLive>>

UpdateIncidentComment(a) ==
  /\ author[a].stage = "new"
  /\ \E c \in comments : comments' = (comments \ {c}) \union {[c EXCEPT !.body = a]}
  /\ Goes(a, "done", "edit")
  /\ UNCHANGED <<postmortem, items, timeline, lastText, unlogged, deps, saver, lastSaver, parentLive>>

DeleteIncidentComment(a) ==
  /\ author[a].stage = "new"
  /\ \E c \in comments : comments' = comments \ {c}
  /\ Goes(a, "done", "delete")
  /\ UNCHANGED <<postmortem, items, timeline, lastText, unlogged, deps, saver, lastSaver, parentLive>>

CreateIncidentActionItem(a) ==
  /\ author[a].stage = "new"
  /\ items' = items \union {[id |-> a, title |-> a, doneBy |-> Nobody]}
  /\ Goes(a, "log", "item")
  /\ UNCHANGED <<comments, postmortem, timeline, lastText, unlogged, deps, saver, lastSaver, parentLive>>

\* Every column is written: an update without a completion takes it back.
UpdateIncidentActionItem(a, complete) ==
  /\ author[a].stage = "new"
  /\ \E i \in items :
       items' = (items \ {i}) \union {[i EXCEPT !.title = a, !.doneBy = IF complete THEN a ELSE Nobody]}
  /\ Goes(a, "done", "edit")
  /\ UNCHANGED <<comments, postmortem, timeline, lastText, unlogged, deps, saver, lastSaver, parentLive>>

\* RecordIncidentTimeline; its error is ignored.
RecordIncidentTimeline(a, ok) ==
  /\ author[a].stage = "log"
  /\ timeline' = IF ok THEN timeline \union {[type |-> author[a].op, id |-> a]} ELSE timeline
  /\ unlogged' = IF ok THEN unlogged ELSE unlogged \union {a}
  /\ Goes(a, "done", author[a].op)
  /\ UNCHANGED <<comments, postmortem, items, lastText, deps, saver, lastSaver, parentLive>>

------------------------------------------------------------------------------
(* The post-mortem: read, then insert or update. *)

ReadPostmortem(a) ==
  /\ author[a].stage = "new"
  /\ Goes(a, IF postmortem.creator = Nobody THEN "insert" ELSE "update", "postmortem")
  /\ UNCHANGED <<comments, postmortem, items, timeline, lastText, unlogged, deps, saver, lastSaver, parentLive>>

\* The unique index refuses a second row.
InsertPostmortem(a) ==
  /\ author[a].stage = "insert"
  /\ IF postmortem.creator = Nobody
     THEN /\ postmortem' = [creator |-> a, text |-> a]
          /\ lastText' = a
          /\ Goes(a, "log", "postmortem")
     ELSE Goes(a, "refused", "postmortem") /\ UNCHANGED <<postmortem, lastText>>
  /\ UNCHANGED <<comments, items, timeline, unlogged, deps, saver, lastSaver, parentLive>>

\* The creator stays, and no event is recorded.
UpdatePostmortem(a) ==
  /\ author[a].stage = "update"
  /\ postmortem' = [postmortem EXCEPT !.text = a]
  /\ lastText' = a
  /\ Goes(a, "done", "postmortem")
  /\ UNCHANGED <<comments, items, timeline, unlogged, deps, saver, lastSaver, parentLive>>

\* The process ends, or the next statement fails, between two statements.
AuthorStops(a) ==
  /\ author[a].stage \in {"log", "insert", "update"}
  /\ unlogged' = IF author[a].stage = "log" THEN unlogged \union {a} ELSE unlogged
  /\ Goes(a, "stopped", author[a].op)
  /\ UNCHANGED <<comments, postmortem, items, timeline, lastText, deps, saver, lastSaver, parentLive>>

------------------------------------------------------------------------------
(* Dependencies: SetMonitorDependencies is a transaction at READ COMMITTED, a   *)
(* DELETE of the rows it sees and an INSERT per parent.  A user may name the    *)
(* monitor itself, which is skipped.                                            *)

OpenSave(s, wanted) ==
  /\ saver[s].stage = "new"
  /\ saver' = [saver EXCEPT ![s] = [NoSaver EXCEPT !.stage = "delete", !.wanted = wanted, !.seen = deps]]
  /\ UNCHANGED <<notes, deps, lastSaver, parentLive>>

\* The DELETE waits for a transaction that has deleted one of the rows, and
\* then passes over the rows that are gone; it does not see newer ones.
DeleteDependencies(s) ==
  /\ saver[s].stage = "delete"
  /\ \A t \in DepSavers : saver[t].stage = "insert" => saver[t].deleted \intersect saver[s].seen = {}
  /\ saver' = [saver EXCEPT ![s].stage = "insert", ![s].deleted = saver[s].seen \intersect deps]
  /\ UNCHANGED <<notes, deps, lastSaver, parentLive>>

OwnRows(s) == {[parent |-> p, by |-> s] : p \in saver[s].wanted}

\* Mutant: the save adds its rows and deletes none.
CommitAdds(s) ==
  /\ saver[s].stage = "insert"
  /\ deps' = deps \union OwnRows(s)
  /\ lastSaver' = s
  /\ saver' = [saver EXCEPT ![s].stage = "committed"]
  /\ UNCHANGED <<notes, parentLive>>

\* A parent that does not exist rolls everything back.
CommitDependencies(s) ==
  /\ saver[s].stage = "insert"
  /\ IF saver[s].wanted \subseteq parentLive
     THEN /\ deps' = (deps \ saver[s].deleted) \union OwnRows(s)
          /\ lastSaver' = s
          /\ saver' = [t \in DepSavers |->
                         IF t = s THEN [saver[s] EXCEPT !.stage = "committed"]
                         ELSE IF saver[t].stage \in {"delete", "insert"} THEN [saver[t] EXCEPT !.beside = @ \union {s}]
                         ELSE saver[t]]
     ELSE saver' = [saver EXCEPT ![s].stage = "refused"] /\ UNCHANGED <<deps, lastSaver>>
  /\ UNCHANGED <<notes, parentLive>>

\* DeleteMonitor leaves the rows that name the monitor, and its incidents.
ParentDeleted(p) ==
  /\ p \in parentLive
  /\ parentLive' = parentLive \ {p}
  /\ UNCHANGED <<notes, deps, saver, lastSaver>>

------------------------------------------------------------------------------
RecInit ==
  /\ comments = {} /\ items = {} /\ timeline = {} /\ unlogged = {}
  /\ postmortem = [creator |-> Nobody, text |-> Nobody]
  /\ author = [a \in Authors |-> NoAuthor]
  /\ lastText = Nobody /\ lastSaver = Nobody
  /\ deps = {}
  /\ saver = [s \in DepSavers |-> NoSaver]
  /\ parentLive = Parents

CommentOps(a) == CreateIncidentComment(a) \/ UpdateIncidentComment(a) \/ DeleteIncidentComment(a)
PostmortemOps(a) == ReadPostmortem(a) \/ InsertPostmortem(a) \/ UpdatePostmortem(a)
ItemOps(a) == CreateIncidentActionItem(a) \/ \E done \in BOOLEAN : UpdateIncidentActionItem(a, done)

NotesNext == \E a \in Authors :
  \/ CommentOps(a) \/ PostmortemOps(a) \/ ItemOps(a)
  \/ (\E ok \in BOOLEAN : RecordIncidentTimeline(a, ok))
  \/ AuthorStops(a)

DepsNext ==
  \/ \E s \in DepSavers :
       \/ DeleteDependencies(s) \/ CommitDependencies(s)
       \/ \E wanted \in SUBSET Parents : OpenSave(s, wanted)
  \/ \E p \in Parents : ParentDeleted(p)

\* The two share no row.
RecNext == NotesNext \/ DepsNext

RecSpec == RecInit /\ [][RecNext]_recVars

------------------------------------------------------------------------------
(* Properties. *)

\* After a save of the dependencies the monitor depends on the parents the save
\* named; others are left only of saves that committed while it was open, for
\* its DELETE did not see their rows: the last of two overlapping saves does not
\* win, their union does.
DependenciesFollowSaves ==
  lastSaver # Nobody =>
    LET now == {r.parent : r \in deps}
        named(s) == saver[s].wanted
    IN  /\ named(lastSaver) \subseteq now
        /\ now \subseteq named(lastSaver) \union UNION {named(s) : s \in saver[lastSaver].beside}

\* The timeline tells of every comment, action item and post-mortem that was
\* created, except those whose event failed or was not reached, and of nothing
\* else; of the saves of a post-mortem that race to create it one wins, and the
\* text is that of the last save that was not refused.
NotesAreTrue ==
  /\ \A e \in timeline : author[e.id].op = e.type /\ author[e.id].stage = "done" /\ e.id \notin unlogged
  /\ \A row \in comments \union items :
       author[row.id].stage = "log" \/ row.id \in unlogged \/ \E e \in timeline : e.id = row.id
  /\ postmortem.text = lastText
  /\ \A a \in Authors : [type |-> "postmortem", id |-> a] \in timeline => postmortem.creator = a
=============================================================================
