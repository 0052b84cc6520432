----------------------------- MODULE TunnelProofs -----------------------------
(***************************************************************************)
(* Proofs about Tunnel: how many connectors run, and which ones outlive a   *)
(* close, for any number of checks, attempts and faults.                    *)
(***************************************************************************)
EXTENDS Tunnel, FiniteSetTheorems, TLAPS

\* The connector that may run: the one a restart has just spawned, none between
\* the end of one and the start of the next, the published one otherwise.
Current ==
    CASE dog = "publish" -> {fresh}
      [] dog = "spawn" -> {}
      [] OTHER -> {proc}

AtMostCurrent == alive \subseteq Current

\* A close stops the watchdog, and is broken off only once the server is gone.
Closing ==
    /\ closer \in [Closers -> {"idle", "armed", "enter", "join", "reap", "done", "broken"}]
    /\ signals \in Nat
    /\ closed => stop
    /\ closer["finally"] # "idle" => main \notin {"serving", "stopping"}

TunnelInv == AtMostCurrent /\ Closing /\ ClosedIsReaped

\* At first the connector of start_remote_access runs and nothing is closed.
LEMMA InitInv == Init => TunnelInv
BY DEF Init, TunnelInv, AtMostCurrent, Current, Closing, ClosedIsReaped, Closers

\* A step of the watchdog that starts no connector and publishes none.
LEMMA QuietStep ==
    ASSUME TunnelInv, UNCHANGED <<proc, closing, main, alive, signals>>,
           dog \notin {"spawn", "publish", "terminate"}, dog' \notin {"spawn", "publish"},
           UNCHANGED fresh
    PROVE  TunnelInv'
BY DEF TunnelInv, AtMostCurrent, Current, Closing, ClosedIsReaped, closing

\* Every step of the watchdog: the connector that stays is the current one, and
\* one that comes after the stop is retired.
LEMMA DogStep ==
    ASSUME TunnelInv, Watching
    PROVE  TunnelInv'
<1> USE DEF Watching, Go, Restarted, Retry, closing, world
<1>1. CASE Wait
    BY <1>1, QuietStep DEF Wait
<1>2. CASE CheckProcess
    BY <1>2, QuietStep DEF CheckProcess
<1>3. CASE CheckOrigin
    BY <1>3, QuietStep DEF CheckOrigin
<1>4. CASE ProbeRelay
    BY <1>4, QuietStep DEF ProbeRelay
<1>5. CASE BackOff
    BY <1>5, QuietStep DEF BackOff
<1>6. CASE Terminate
    BY <1>6 DEF Terminate, TunnelInv, AtMostCurrent, Current, Closing, ClosedIsReaped
<1>7. CASE Spawn
    <2>1. /\ dog = "spawn" /\ alive = {} /\ UNCHANGED <<proc, stop, closed, lock, closer, main, signals>>
        BY <1>7 DEF Spawn, TunnelInv, AtMostCurrent, Current
    <2>2. CASE dog' = "publish"
        <3>1. alive' = {fresh'}
            BY <1>7, <2>1, <2>2 DEF Spawn
        <3> QED BY <2>1, <2>2, <3>1 DEF TunnelInv, AtMostCurrent, Current, Closing, ClosedIsReaped
    <2>3. CASE dog' # "publish"
        <3>1. alive' = {} /\ UNCHANGED fresh
            BY <1>7, <2>1, <2>3 DEF Spawn
        <3> QED BY <2>1, <2>3, <3>1 DEF TunnelInv, AtMostCurrent, Current, Closing, ClosedIsReaped
    <2> QED BY <2>2, <2>3
<1>8. CASE Publish
    <2>1. alive \subseteq {fresh}
        BY <1>8 DEF Publish, TunnelInv, AtMostCurrent, Current
    <2>2. CASE stop
        <3>1. alive' = {}
            BY <1>8, <2>1, <2>2 DEF Publish
        <3> QED BY <1>8, <3>1 DEF Publish, TunnelInv, AtMostCurrent, Current, Closing, ClosedIsReaped
    <2>3. CASE ~stop
        BY <1>8, <2>1, <2>3 DEF Publish, TunnelInv, AtMostCurrent, Current, Closing, ClosedIsReaped
    <2> QED BY <2>2, <2>3
<1>9. CASE Grace
    BY <1>9, QuietStep DEF Grace
<1>10. CASE Recover
    BY <1>10, QuietStep DEF Recover
<1> QED BY <1>1, <1>2, <1>3, <1>4, <1>5, <1>6, <1>7, <1>8, <1>9, <1>10 DEF Dog

\* Every step of a call of close.
LEMMA CloseStep ==
    ASSUME TunnelInv, NEW k \in Closers, Close(k)
    PROVE  TunnelInv'
<1> USE DEF At, watch
<1>0. k # "nobody" /\ "finally" \in Closers
    BY DEF Closers
<1>1. CASE Enter(k)
    BY <1>0, <1>1 DEF Enter, Close, TunnelInv, AtMostCurrent, Current, Closing, ClosedIsReaped
<1>2. CASE Join(k)
    BY <1>0, <1>2 DEF Join, Close, TunnelInv, AtMostCurrent, Current, Closing, ClosedIsReaped
<1>3. CASE Reap(k)
    <2>1. alive' \subseteq {fresh} /\ alive' \subseteq alive
        BY <1>3 DEF Reap, TunnelInv, AtMostCurrent, Current
    <2> QED BY <1>0, <1>3, <2>1
            DEF Reap, Close, TunnelInv, AtMostCurrent, Current, Closing, ClosedIsReaped
<1> QED BY <1>1, <1>2, <1>3 DEF Close

\* Every step of the main thread.
LEMMA MainStep ==
    ASSUME TunnelInv, Ending \/ TimerFires \/ Exit
    PROVE  TunnelInv'
<1> USE DEF At, watch, closing, TunnelInv, AtMostCurrent, Current, Closing, ClosedIsReaped
<1>1. "finally" \in Closers
    BY DEF Closers
<1>2. CASE ServerReturns
    BY <1>1, <1>2 DEF ServerReturns
<1>3. CASE AtExit
    BY <1>1, <1>3 DEF AtExit, Closers
<1>4. CASE Interrupt
    BY <1>1, <1>4 DEF Interrupt
<1>5. CASE Signal
    <2> DEFINE j == <<"timer", "second", "third">>[signals + 1]
    <2>1. signals \in {0, 1, 2}
        BY <1>5, BoundAssumption DEF Signal
    <2>2. j \in {"timer", "second", "third"}
        BY <2>1
    <2>3. PICK s : /\ s \in {"armed", "enter"}
                   /\ closer' = [closer EXCEPT ![j] = s]
        BY <1>5 DEF Signal
    <2>4. closer'["finally"] = closer["finally"]
        BY <1>1, <2>2, <2>3
    <2>5. signals' \in Nat /\ main' = "stopping" /\ closer["finally"] = "idle"
        BY <1>5 DEF Signal
    <2>6. Closing'
        BY <1>5, <2>2, <2>3, <2>4, <2>5 DEF Signal, Closers
    <2> QED BY <1>5, <2>4, <2>6 DEF Signal
<1>6. CASE TimerFires
    BY <1>1, <1>6 DEF TimerFires, Closers
<1>7. CASE Exit
    BY <1>1, <1>7 DEF Exit
<1> QED BY <1>2, <1>3, <1>4, <1>5, <1>6, <1>7 DEF Ending

\* The rest of the world only takes connectors away.
LEMMA WorldStep ==
    ASSUME TunnelInv, World
    PROVE  TunnelInv'
<1>1. alive' \subseteq alive /\ UNCHANGED <<watch, closing, main, signals>>
    BY DEF World, Change, OriginChanges, RelayDrops, ConnectorExits
<1> QED BY <1>1 DEF watch, closing, TunnelInv, AtMostCurrent, Current, Closing, ClosedIsReaped

\* The invariant both theorems follow from.
LEMMA Invariance == Spec => []TunnelInv
<1>1. TunnelInv /\ [Next]_vars => TunnelInv'
    <2> SUFFICES ASSUME TunnelInv, [Next]_vars
                 PROVE  TunnelInv'
        OBVIOUS
    <2>1. CASE Next
        BY <2>1, DogStep, CloseStep, MainStep, WorldStep DEF Next
    <2>2. CASE UNCHANGED vars
        BY <2>2 DEF vars, watch, closing, TunnelInv, AtMostCurrent, Current, Closing,
                    ClosedIsReaped
    <2> QED BY <2>1, <2>2
<1> QED BY InitInv, <1>1, PTL DEF Spec

\* Whatever the watchdog restarts, at most one connector serves the tunnel.
THEOREM OneConnectorHolds == Spec => []OneConnector
<1>1. ASSUME AtMostCurrent
      PROVE  OneConnector
    <2>1. PICK c : alive \subseteq {c}
        BY <1>1 DEF AtMostCurrent, Current
    <2>2. CASE alive = {}
        <3>1. Cardinality(alive) = 0
            BY <2>2, FS_EmptySet
        <3> QED BY <3>1 DEF OneConnector
    <2>3. CASE alive = {c}
        <3>1. Cardinality(alive) = 1
            BY <2>3, FS_Singleton
        <3> QED BY <3>1 DEF OneConnector
    <2> QED BY <2>1, <2>2, <2>3
<1> QED BY Invariance, <1>1, PTL DEF TunnelInv

\* A close that goes through leaves nothing running but the connector that a
\* restart in progress is about to retire.
THEOREM CloseReaps == Spec => []ClosedIsReaped
BY Invariance, PTL DEF TunnelInv
=============================================================================
