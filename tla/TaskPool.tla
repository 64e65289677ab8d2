------------------------------ MODULE TaskPool ------------------------------
(***************************************************************************)
(* What a durable queue promises its consumers: a task is held by one      *)
(* worker at a time, and a finished task is never taken again.  A worker   *)
(* that stops loses the tasks it holds: nothing here hands them back.      *)
(***************************************************************************)
CONSTANTS Tasks, Workers

VARIABLE holder   \* for each task, the worker that holds it, or its state

Init == holder = [t \in Tasks |-> "absent"]

Become(S, from, to) ==
  /\ S # {}
  /\ \A t \in S : holder[t] = from
  /\ holder' = [t \in Tasks |-> IF t \in S THEN to ELSE holder[t]]

Add(t) == Become({t}, "absent", "waiting")
Take(w, S) == Become(S, "waiting", w)
Finish(w, t) == Become({t}, w, "done")
Return(w, t) == Become({t}, w, "waiting")
Lose(w, S) == Become(S, w, "lost")

Next ==
  \/ \E t \in Tasks : Add(t)
  \/ \E w \in Workers, t \in Tasks : Finish(w, t) \/ Return(w, t)
  \/ \E w \in Workers, S \in SUBSET Tasks : Take(w, S) \/ Lose(w, S)

Spec == Init /\ [][Next]_holder
=============================================================================
