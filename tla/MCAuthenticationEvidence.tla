------------------------ MODULE MCAuthenticationEvidence ------------------------
(***************************************************************************)
(* Instances of AuthenticationEvidence for TLC.                            *)
(***************************************************************************)
EXTENDS AuthenticationEvidence, TLC

CONSTANTS a1, a2, a3, c1, p1

Symmetry == Permutations(Attempts)

\* The credential expires at the last instant of the run.
MCOwner  == [c \in Credentials |-> p1]
MCExpiry == [c \in Credentials |-> MaxClock]
=============================================================================
