------------------------------- MODULE MCStream -------------------------------
(* Stream with two jobs: the state of the first one changes more than once,  *)
(* and one event is not broadcast to a connection without a job.             *)
EXTENDS Stream

CONSTANTS j1, j2

Owners == [e \in Events |-> IF e = 2 THEN j2 ELSE j1]

Kinds == [e \in Events |-> IF e = 3 THEN "scoped" ELSE "state"]
=============================================================================
