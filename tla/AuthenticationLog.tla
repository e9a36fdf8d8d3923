-------------------------- MODULE AuthenticationLog --------------------------
(***************************************************************************)
(* What the evidence of Management authentication promises (ADR-0020): a   *)
(* verdict and its observation appear in one instant.  An hour, credential *)
(* and outcome has one row, which nothing replaces or changes, and only a  *)
(* verdict more than the retention later takes it away.  An attempt is     *)
(* answered when its verdict has committed, whether or not the answer      *)
(* reaches the caller.                                                     *)
(***************************************************************************)
EXTENDS Naturals

CONSTANTS Attempts, Observations, Retention

VARIABLES
  log,       \* the observations in force
  answers,   \* who was answered, and the observation that belongs to it
  admitted   \* the attempts that were let in

Key(row) == <<row.credential, row.outcome, row.bucket>>

\* Beyond the retention of an answer that observed `row`.
Outdated(old, row) == old.bucket + Retention < row.bucket

Init == log = {} /\ answers = {} /\ admitted = {}

Answer(a, row) ==
  /\ \A given \in answers : given.attempt # a
  /\ answers' = answers \cup {[attempt |-> a, row |-> row]}
  /\ admitted' = admitted \cup (IF row.outcome = "succeeded" THEN {a} ELSE {})
  /\ log' \subseteq log \cup {row}
  /\ \A old \in log \ log' : Outdated(old, row)
  /\ row \in log' \ log => \A old \in log : Key(old) # Key(row)
  /\ \/ \E new \in log' : Key(new) = Key(row)
     \/ \E given \in answers : Outdated(row, given.row)

\* The attempt that is answered, and what it observed.
Next ==
  \E given \in answers' \ answers :
    /\ given.attempt \in Attempts /\ given.row \in Observations
    /\ Answer(given.attempt, given.row)

Spec == Init /\ [][Next]_<<log, answers, admitted>>
=============================================================================
