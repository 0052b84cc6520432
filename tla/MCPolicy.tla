------------------------------- MODULE MCPolicy -------------------------------
(* Policy with a security-critical call, a routine call that is gated and  *)
(* an edit, which only leaves a savepoint.                                 *)
EXTENDS Policy

CONSTANTS wipe, fetch, edit, destructive, network, mutation

ReasonsOfCalls ==
    [a \in Actions |-> CASE a = wipe -> destructive
                         [] a = fetch -> network
                         [] OTHER -> mutation]

Verdicts ==
    [r \in Reasons |-> IF r = mutation THEN "warn" ELSE "escalate"]
=============================================================================
