-------------------------------- MODULE MCMerge --------------------------------
(* Merge with two jobs and two requests that can change places.  The first *)
(* job may be resumed, and whatever can be asked is asked for it; the      *)
(* second one moves the base branch under it.                              *)
EXTENDS Merge, TLC

CONSTANTS j1, j2

Sessions == j1 :> 2 @@ j2 :> 1

Asked == j1 :> Actions \cup {"agent_pr"} @@ j2 :> {"merge"}

AnyRequest == Permutations(Requests)
=============================================================================
