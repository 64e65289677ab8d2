----------------------------- MODULE MCSerialRules -----------------------------
(***************************************************************************)
(* The instance of IncidentRules with one evaluator.  A behaviour asks one *)
(* of two questions, chosen at the start: how monitors and their parents   *)
(* and regions act together, on results whose status and success agree; or *)
(* what one monitor makes of every result a checker or an agent may        *)
(* report.  Asked at once they would only multiply each other's states.    *)
(***************************************************************************)
EXTENDS MCIncidentRules

VARIABLE reports   \* "agreeing" results of every monitor, or "any" results of m1

Reported(e) ==
  IF reports = "agreeing" THEN job[e].outcome \in UpOrDown ELSE job[e].monitor = m1

SerialInit == Init /\ reports \in {"agreeing", "any"}

SerialNext ==
  /\ Next
  /\ UNCHANGED reports
  /\ \A e \in Evaluators : pc'[e] # "idle" => Reported(e)'

SerialSpec == SerialInit /\ [][SerialNext]_<<vars, reports>>
=============================================================================
