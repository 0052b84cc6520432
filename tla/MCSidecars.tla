------------------------------ MODULE MCSidecars ------------------------------
(* Sidecars with two of them: a reviewer with a gate, which queues what it    *)
(* cannot execute at once and also runs before the agent, and a watcher,     *)
(* which skips events, runs its timer in parallel and runs after the agent.  *)
EXTENDS Sidecars, TLC

CONSTANTS reviewer, watcher, c1, c2, c3

Owners == <<reviewer, reviewer, watcher, watcher>>
On == <<"event", "manual", "event", "timer">>
Policy == <<"queue", "queue", "skip_if_running", "parallel">>
Phase == (reviewer :> "preflight" @@ watcher :> "postflight")

AnyCall == Permutations(Calls)
=============================================================================
