-------------------------- MODULE MCIncidentRules --------------------------
(* Small instances of IncidentRules for TLC. *)
EXTENDS IncidentRules

CONSTANTS m1, m2

NoParents == [m \in Monitors |-> {}]
ChildAndParent == [m \in Monitors |-> IF m = m2 THEN {m1} ELSE {}]

\* What most checkers report; AllOutcomes has what any checker and any agent may.
Result(says, succeeded) == [status |-> says, success |-> succeeded]
UpOrDown == {Result("up", TRUE), Result("down", FALSE)}

Symmetry == Permutations(Evaluators) \union Permutations(Users)
=============================================================================
