-------------------------------- MODULE Tunnel --------------------------------
(***************************************************************************)
(* The connector of remote access: TunnelWatchdog, the thread that restarts *)
(* it, and TunnelHandle.close (backend/services/sharing/tunnel_service.py), *)
(* which the main thread, its signal handlers, the force-exit timer and     *)
(* atexit call while the server goes down (backend/cli.py).                 *)
(*                                                                          *)
(* The connector is managed: an external one has no watchdog and nothing is *)
(* closed.  A connector that is killed is gone, and time is left out: a     *)
(* wait may end at any moment.                                              *)
(***************************************************************************)
EXTENDS Naturals, FiniteSets, FiniteSetsExt

CONSTANTS
    Connectors,     \* the connector processes, numbered (ids are used again)
    FailThreshold,  \* _FAIL_THRESHOLD
    RelayEvery,     \* _RELAY_CHECK_FREQUENCY
    Attempts,       \* _RESTART_ATTEMPTS
    Env,            \* what goes wrong
    MaxSignals,     \* bound: signals that arrive
    MaxFaults       \* bound: changes of the origin, relay and connector

First == 1          \* the connector of start_remote_access, handle.proc
None == 0

ASSUME ConnectorAssumption == Connectors = 1 .. Cardinality(Connectors)
ASSUME BoundAssumption ==
    /\ FailThreshold \in Nat \ {0} /\ RelayEvery \in Nat \ {0}
    /\ Attempts \in Nat \ {0} /\ MaxSignals \in 0 .. 3 /\ MaxFaults \in Nat
ASSUME EnvAssumption == Env \subseteq {"interrupt", "spawnError", "slowJoin"}

VARIABLES
    alive,          \* the connectors that run
    cut,            \* those that the relay does not forward to any more
    origin,         \* the local server answers
    proc,           \* TunnelWatchdog.proc
    fresh,          \* the connector a restart has spawned and not published
    dog,            \* what the thread is doing: see DogStates
    attempt,        \* of a restart,
    failures,       \* consecutive_failures
    checks,         \* check_count modulo RelayEvery
    stop,           \* _stop_event
    closed,         \* TunnelHandle._closed
    lock,           \* who holds _close_lock
    closer,         \* how far each call of close is
    main,           \* how far the main thread is
    signals,        \* how many signals have arrived
    faults          \* how many changes there have been

world == <<origin, cut, faults>>
watch == <<proc, fresh, dog, attempt, failures, checks>>
closing == <<stop, closed, lock, closer>>
vars == <<alive, world, watch, closing, main, signals>>

DogStates == {"waiting", "checking", "origin", "relay", "backoff", "terminate",
              "spawn", "publish", "grace", "recover", "ended"}

\* The calls of close: the finally of the main thread, the handler of a second
\* signal and of a third one, the timer and atexit.
Closers == {"finally", "second", "third", "timer", "atexit"}

TypeOK ==
    /\ alive \subseteq Connectors /\ cut \subseteq Connectors
    /\ origin \in BOOLEAN
    /\ proc \in Connectors /\ fresh \in Connectors \cup {None}
    /\ dog \in DogStates
    /\ attempt \in 0 .. Attempts
    /\ failures \in 0 .. FailThreshold - 1
    /\ checks \in 0 .. RelayEvery - 1
    /\ stop \in BOOLEAN /\ closed \in BOOLEAN
    /\ lock \in Closers \cup {"nobody"}
    /\ closer \in [Closers -> {"idle", "armed", "enter", "join", "reap", "done", "broken"}]
    /\ main \in {"serving", "stopping", "closing", "exited"}
    /\ signals \in Nat /\ faults \in Nat
    /\ fresh # None <=> dog = "publish"

Init ==
    /\ alive = {First} /\ cut = {} /\ origin = TRUE
    /\ proc = First /\ fresh = None
    /\ dog = "waiting" /\ attempt = 0 /\ failures = 0 /\ checks = 0
    /\ stop = FALSE /\ closed = FALSE /\ lock = "nobody"
    /\ closer = [k \in Closers |-> "idle"]
    /\ main = "serving" /\ signals = 0
    /\ faults = 0
-----------------------------------------------------------------------------
(* The watchdog.                                                           *)

\* Where the thread goes on, with what tally.
Go(state, tally) == dog' = state /\ failures' = tally

\* _stop_event.wait between two checks, before the first, and after a restart
\* that gave up.
Wait ==
    /\ dog = "waiting"
    /\ Go(IF stop THEN "ended" ELSE "checking", failures)
    /\ UNCHANGED <<alive, world, proc, fresh, attempt, checks>>

\* The loop of _run: a connector that has exited is restarted at once.
CheckProcess ==
    /\ dog = "checking"
    /\ checks' = IF stop THEN checks ELSE (checks + 1) % RelayEvery
    /\ IF stop THEN Go("ended", failures) /\ UNCHANGED attempt
       ELSE IF proc \in alive THEN Go("origin", failures) /\ UNCHANGED attempt
       ELSE Go("terminate", failures) /\ attempt' = 1
    /\ UNCHANGED <<alive, world, proc, fresh>>

\* Mutant: a check that says nothing about the relay clears the tally.
ClearTally ==
    /\ dog = "origin"
    /\ IF origin /\ checks = 0 THEN Go("relay", failures) ELSE Go("waiting", 0)
    /\ UNCHANGED <<alive, world, proc, fresh, attempt, checks>>

\* An origin that is down says nothing about the connector, and the relay is
\* probed at every RelayEvery-th check only.
CheckOrigin ==
    /\ dog = "origin"
    /\ Go(IF origin /\ checks = 0 THEN "relay" ELSE "waiting", failures)
    /\ UNCHANGED <<alive, world, proc, fresh, attempt, checks>>

\* The probe goes through the relay to the origin.
ProbeRelay ==
    /\ dog = "relay"
    /\ IF origin /\ proc \in alive \ cut
       THEN Go("waiting", 0) /\ UNCHANGED attempt
       ELSE IF failures + 1 < FailThreshold
       THEN Go("waiting", failures + 1) /\ UNCHANGED attempt
       ELSE Go("terminate", 0) /\ attempt' = 1
    /\ UNCHANGED <<alive, world, proc, fresh, checks>>

\* An attempt has failed: the next one, or the cooldown.
Retry ==
    IF attempt < Attempts THEN Go("backoff", failures) /\ attempt' = attempt + 1
    ELSE Go("waiting", 0) /\ attempt' = 0

\* _restart_process returns; the caller clears the tally.
Restarted == Go("waiting", 0) /\ attempt' = 0

BackOff ==
    /\ dog = "backoff"
    /\ IF stop THEN Restarted ELSE Go("terminate", failures) /\ UNCHANGED attempt
    /\ UNCHANGED <<alive, world, proc, fresh, checks>>

\* Mutant: the connector is not stopped before another one is started.
LeaveRunning ==
    /\ dog = "terminate"
    /\ Go("spawn", failures)
    /\ UNCHANGED <<alive, world, proc, fresh, attempt, checks>>

Terminate ==
    /\ dog = "terminate"
    /\ alive' = alive \ {proc}
    /\ Go("spawn", failures)
    /\ UNCHANGED <<world, proc, fresh, attempt, checks>>

\* _spawn_connector, which may raise.
Spawn ==
    LET id == Min(Connectors \ (alive \cup {proc, First}))
    IN  /\ dog = "spawn"
        /\ \/ /\ fresh' = id /\ alive' = alive \cup {id} /\ cut' = cut \ {id}
              /\ Go("publish", failures) /\ UNCHANGED attempt
           \/ /\ "spawnError" \in Env
              /\ Retry
              /\ UNCHANGED <<alive, cut, fresh>>
        /\ UNCHANGED <<origin, faults, proc, checks>>

\* Mutant: a restart does not look at the stop event before it publishes.
AdoptAlways ==
    /\ dog = "publish"
    /\ fresh' = None
    /\ proc' = fresh /\ Go("grace", failures)
    /\ UNCHANGED <<alive, world, checks, attempt>>

\* Under the lock with which close takes its snapshot: a connector that comes
\* after the stop is retired.
Publish ==
    /\ dog = "publish"
    /\ fresh' = None
    /\ IF stop THEN alive' = alive \ {fresh} /\ Restarted /\ UNCHANGED proc
       ELSE proc' = fresh /\ Go("grace", failures) /\ UNCHANGED <<alive, attempt>>
    /\ UNCHANGED <<world, checks>>

Grace ==
    /\ dog = "grace"
    /\ IF stop THEN Restarted
       ELSE IF proc \in alive THEN Go("recover", failures) /\ UNCHANGED attempt
       ELSE Retry
    /\ UNCHANGED <<alive, world, proc, fresh, checks>>

\* _wait_for_recovery looks at the origin only, until it times out.
Recover ==
    /\ dog = "recover"
    /\ IF proc \in alive /\ origin THEN Restarted ELSE Retry
    /\ UNCHANGED <<alive, world, proc, fresh, checks>>

Dog == \/ Wait \/ CheckProcess \/ CheckOrigin \/ ProbeRelay \/ BackOff
       \/ Terminate \/ Spawn \/ Publish \/ Grace \/ Recover
-----------------------------------------------------------------------------
(* Closing.                                                                *)

At(k, state) == closer' = [closer EXCEPT ![k] = state]

\* A handler interrupts whatever the main thread is doing, another handler too.
Runs(k) == k = "second" => closer["third"] \in {"idle", "done"}

\* close: whoever comes second finds the handle closed.
Enter(k) ==
    /\ closer[k] = "enter" /\ Runs(k) /\ lock = "nobody"
    /\ IF closed THEN At(k, "done") /\ UNCHANGED <<stop, closed, lock>>
       ELSE closed' = TRUE /\ stop' = TRUE /\ lock' = k /\ At(k, "join")
    /\ UNCHANGED alive

\* TunnelWatchdog.stop waits for the thread, but not forever.
Join(k) ==
    /\ closer[k] = "join" /\ Runs(k)
    /\ dog = "ended" \/ "slowJoin" \in Env
    /\ At(k, "reap")
    /\ UNCHANGED <<alive, stop, closed, lock>>

\* The two processes it knows are terminated.
Reap(k) ==
    /\ closer[k] = "reap" /\ Runs(k)
    /\ alive' = alive \ {First, proc}
    /\ lock' = "nobody" /\ At(k, "done")
    /\ UNCHANGED <<stop, closed>>

Close(k) ==
    /\ Enter(k) \/ Join(k) \/ Reap(k)
    /\ UNCHANGED <<world, watch, main, signals>>
-----------------------------------------------------------------------------
(* The process.                                                            *)

\* Mutant: the timer that forces the exit is not started.
SignalOnly ==
    /\ main \in {"serving", "stopping"} /\ signals < MaxSignals
    /\ signals' = signals + 1
    /\ main' = "stopping"
    /\ CASE signals = 0 -> UNCHANGED closer
         [] signals = 1 -> At("second", "enter")
         [] OTHER -> At("third", "enter")
    /\ UNCHANGED <<alive, world, watch, stop, closed, lock>>

\* _handle_exit_patched, while the server runs: the first signal starts the
\* timer, a later one closes the tunnel at once.
Signal ==
    /\ main \in {"serving", "stopping"} /\ signals < MaxSignals
    /\ signals' = signals + 1
    /\ main' = "stopping"
    /\ At(<<"timer", "second", "third">>[signals + 1],
          IF signals = 0 THEN "armed" ELSE "enter")
    /\ UNCHANGED <<alive, world, watch, stop, closed, lock>>

\* server.run returns, which it cannot while a handler runs.
ServerReturns ==
    /\ main \in {"serving", "stopping"} /\ closer["second"] = "idle"
    /\ main' = "closing"
    /\ At("finally", "enter")
    /\ UNCHANGED <<alive, world, watch, stop, closed, lock, signals>>

\* _force_exit_watchdog.
TimerFires ==
    /\ closer["timer"] = "armed"
    /\ At("timer", "enter")
    /\ UNCHANGED <<alive, world, watch, stop, closed, lock, main, signals>>

\* Ctrl-C once the server has returned: Python's own handler raises
\* KeyboardInterrupt wherever the main thread is.
Interrupt ==
    /\ "interrupt" \in Env
    /\ closer["finally"] \in {"enter", "join", "reap"}
    /\ At("finally", "broken")
    /\ lock' = IF lock = "finally" THEN "nobody" ELSE lock
    /\ UNCHANGED <<alive, world, watch, stop, closed, main, signals>>

\* The main thread is at its end and calls the atexit handlers.
AtExit ==
    /\ closer["finally"] \in {"done", "broken"} /\ closer["atexit"] = "idle"
    /\ At("atexit", "enter")
    /\ UNCHANGED <<alive, world, watch, stop, closed, lock, main, signals>>

\* The interpreter is through, or a handler or the timer calls _exit.  Every
\* thread ends with the process, the connector does not.
Exit ==
    /\ \E k \in Closers \ {"finally"} : closer[k] = "done"
    /\ main' = "exited"
    /\ UNCHANGED <<alive, world, watch, closing, signals>>
-----------------------------------------------------------------------------
(* The rest of the world.                                                  *)

Change ==
    /\ faults < MaxFaults /\ faults' = faults + 1
    /\ UNCHANGED <<watch, closing, main, signals>>

OriginChanges ==
    /\ Change
    /\ origin' = ~origin
    /\ UNCHANGED <<alive, cut>>

RelayDrops(c) ==
    /\ Change
    /\ c \in alive \ cut /\ cut' = cut \cup {c}
    /\ UNCHANGED <<alive, origin>>

ConnectorExits(c) ==
    /\ Change
    /\ c \in alive /\ alive' = alive \ {c}
    /\ UNCHANGED <<cut, origin>>

World == OriginChanges \/ \E c \in Connectors : RelayDrops(c) \/ ConnectorExits(c)

Watching == Dog /\ UNCHANGED <<closing, main, signals>>

Ending == ServerReturns \/ AtExit \/ Interrupt \/ Signal

Next ==
    /\ main # "exited"
    /\ \/ Watching \/ Ending \/ TimerFires \/ Exit \/ World
       \/ \E k \in Closers : Close(k)

Spec == Init /\ [][Next]_vars

\* The threads go on; that the server returns is not taken for granted, nor
\* that a signal comes.
Fairness ==
    /\ WF_vars(main # "exited" /\ Watching)
    /\ WF_vars(main # "exited" /\ TimerFires)
    /\ WF_vars(main # "exited" /\ AtExit)
    /\ WF_vars(main # "exited" /\ Exit)
    /\ \A k \in Closers : WF_vars(main # "exited" /\ Close(k))

FairSpec == Spec /\ Fairness
-----------------------------------------------------------------------------
(* Properties.                                                             *)

\* Two connectors of one tunnel never run at the same time.
OneConnector == Cardinality(alive) <= 1

\* Once a close has gone through, nothing runs but what a restart in progress
\* is about to retire.  A close that Ctrl-C breaks off has not: it leaves the
\* handle closed, so that no later call stops the connector.
ClosedIsReaped ==
    closed /\ lock = "nobody" /\ closer["finally"] # "broken" => alive \subseteq {fresh}

\* A connector that the relay has dropped is replaced, as long as the origin is
\* there to tell.
DroppedIsReplaced ==
    \A c \in Connectors :
        c \in alive \cap cut ~> c \notin alive \cap cut \/ stop \/ ~origin

\* A signal ends the process, whether the server returns or not.
SignalExits == signals > 0 ~> main = "exited"
=============================================================================
