---------------------------- MODULE SidecarProofs ----------------------------
(***************************************************************************)
(* Proofs about Sidecars, for any number of sidecars, triggers and calls:   *)
(* what stops the tools of an agent, that a sidecar runs once at a time,    *)
(* and that what it has queued runs once, and before the batch is closed.   *)
(***************************************************************************)
EXTENDS Sidecars, FiniteSetTheorems, SequenceTheorems, WellFoundedInduction, TLAPS

\* The two properties need one another, and that only an agent with a session
\* is paused.
GateInv == GatesDoNotLiftOthers /\ PausedHasReason /\ (~Working => ~paused)

\* The end of a pipeline neither starts an agent nor ends its session.
LEMMA FinishKeepsSession ==
    ASSUME NEW c \in Tasks, Finish(c)
    PROVE  Working' <=> Working
<1>1. CASE c = Main /\ ~Active
    <2>1. job' \in {"draining", "closed"}
        BY <1>1 DEF Finish, Deactivating
    <2> QED BY <1>1, <2>1 DEF Active, Working
<1>2. CASE ~(c = Main /\ ~Active)
    BY <1>2 DEF Finish, Working
<1> QED BY <1>1, <1>2

\* No entry into the dispatcher disturbs a gate.
LEMMA EntriesKeepGates ==
    ASSUME NEW c, NEW todo, NEW tick, Enter(c, todo, tick)
    PROVE  UNCHANGED <<job, gating>>
BY DEF Enter

\* An approval drops its own gate, and lifts the pause with the last one.
LEMMA PassStep ==
    ASSUME GateInv, NEW c \in Tasks, Pass(c)
    PROVE  GateInv'
<1> DEFINE s == SidecarOf[call[c].at]
<1>1. Working' <=> Working
    BY FinishKeepsSession DEF Pass
<1>2. /\ gates' = gates \ {s} /\ standing' = standing \ {s}
      /\ paused' = (paused /\ ~(Working /\ gates' = {}))
      /\ held' = held /\ raced' = raced
    BY DEF Pass
<1>3. GatesDoNotLiftOthers'
    BY <1>2 DEF GateInv, GatesDoNotLiftOthers
<1>4. PausedHasReason'
    BY <1>2 DEF GateInv, PausedHasReason
<1> QED BY <1>1, <1>2, <1>3, <1>4 DEF GateInv

\* A rejection pauses the tools under a gate that is recorded.
LEMMA BlockStep ==
    ASSUME GateInv, NEW c \in Tasks, Block(c)
    PROVE  GateInv'
<1> DEFINE s == SidecarOf[call[c].at]
<1>1. Working' <=> Working
    BY FinishKeepsSession DEF Block
<1>2. /\ paused' = (paused \/ Working)
      /\ standing' = IF Working THEN standing \cup ({s} \cap gates) ELSE standing
      /\ raced' = (raced \/ (Working /\ s \notin gates))
      /\ gates' = gates /\ held' = held
    BY DEF Block
<1>3. GatesDoNotLiftOthers'
    BY <1>2 DEF GateInv, GatesDoNotLiftOthers
<1>4. PausedHasReason'
    BY <1>2 DEF GateInv, PausedHasReason
<1> QED BY <1>1, <1>2, <1>3, <1>4 DEF GateInv

\* One step per action.
LEMMA GateStep ==
    ASSUME GateInv, [Next]_vars
    PROVE  GateInv'
<1> USE DEF GateInv, GatesDoNotLiftOthers, PausedHasReason, Working, gating
<1>1. CASE \E c \in Calls : Event(c) \/ Fire(c) \/ Tick(c)
    BY <1>1, EntriesKeepGates DEF Event, Fire, Tick
<1>2. ASSUME NEW c \in Tasks, Complete(c) PROVE GateInv'
    <2>1. Working' <=> Working
        BY <1>2, FinishKeepsSession DEF Complete
    <2> QED BY <1>2, <2>1 DEF Complete
<1>3. ASSUME NEW c \in Tasks, Reject(c) PROVE GateInv'
    BY <1>3 DEF Reject
<1>4. CASE \E c \in Tasks : Piping(c)
    BY <1>2, <1>3, <1>4, PassStep, BlockStep DEF Piping
<1>5. CASE Pause
    BY <1>5 DEF Pause
<1>6. CASE SendMessage \/ StallInterrupt
    BY <1>6 DEF SendMessage, StallInterrupt, Resumed
<1>7. CASE ApproveGates
    BY <1>7 DEF ApproveGates
<1>8. CASE RunPreflight
    BY <1>8, EntriesKeepGates DEF RunPreflight
<1>9. CASE Ready \/ StartAgent \/ EndTurn
    BY <1>9 DEF Ready, StartAgent, EndTurn
<1>10. CASE CleanUp
    BY <1>10 DEF CleanUp
<1>11. CASE Deactivate
    <2>1. job' \in {"draining", "closed"} /\ job = "postflight"
        BY <1>11 DEF Deactivate, Deactivating
    <2> QED BY <1>11, <2>1 DEF Deactivate
<1>12. CASE UNCHANGED vars
    BY <1>12 DEF vars
<1> QED
    BY <1>1, <1>4, <1>5, <1>6, <1>7, <1>8, <1>9, <1>10, <1>11, <1>12 DEF Next

\* The invariant both theorems follow from.
LEMMA GateInvariance == Spec => []GateInv
<1>1. Init => GateInv
    BY DEF Init, GateInv, GatesDoNotLiftOthers, PausedHasReason, Working
<1> QED BY <1>1, GateStep, PTL DEF Spec

\* handle_sidecar_gate: the pause of a gate outlasts the approvals of other
\* sidecars.
THEOREM GatesDoNotInterfere == Spec => []GatesDoNotLiftOthers
BY GateInvariance, PTL DEF GateInv

\* pause_job, handle_sidecar_gate and resolve_sidecar_gate: tools that are
\* paused have a gate or the operator to wait for, unless a gate was resolved
\* while it was being raised.
THEOREM PausesHaveReasons == Spec => []PausedHasReason
BY GateInvariance, PTL DEF GateInv

-----------------------------------------------------------------------------
(* Types, slots and the queue.                                             *)

\* The calls that hold a slot are finitely many.
Holders == {c \in Tasks : Slotted(c)}

\* What a call goes over is the queue for as long as it is kept, and never
\* longer than the queue may be.
ListsFit(queue, record) ==
    /\ Len(queue) <= Cardinality(Triggers)
    /\ \A d \in Tasks :
          /\ record[d].kept => record[d].list = queue
          /\ Len(record[d].list) <= Cardinality(Triggers)
          /\ record[d].pos <= Len(record[d].list)

\* The task of the job is between two phases, or past the last.
MainRests == job \in {"ready", "working", "closed"} => call[Main].pc = "done"

TypeInv == TypeOK /\ IsFiniteSet(Holders) /\ ListsFit(queued, call) /\ MainRests

NoParallel(s) == \A t \in Triggers : SidecarOf[t] = s => PolicyOf[t] # "parallel"

\* A slot is in flight exactly while a call executes its sidecar.
Slots ==
    Active =>
        \A s \in Sidecars :
            /\ s \in inFlight => \E c \in Tasks : Executes(c, s)
            /\ NoParallel(s) =>
                  \A c \in Tasks : Executes(c, s) =>
                      s \in inFlight /\ \A d \in Tasks : Executes(d, s) => d = c

\* The triggers a call may still bring.
ToCome(c) ==
    {t \in Triggers :
        \/ call[c].pc = "new" \/ t \in call[c].todo
        \/ c = Main /\ job \in {"preflight", "ready", "working"}
           /\ t \in InPhase("postflight")}

\* The drains that go over the queue are at an item they have executed.
Drains ==
    \A c \in Tasks : call[c].kept =>
        Executing(c) /\ call[c].pos > 0 /\ call[c].list[call[c].pos] \in ran

\* No item is executed twice while the dispatcher knows the job.
Fresh ==
    /\ ~again
    /\ \A i, k \in DOMAIN queued : queued[i] = queued[k] => i = k
    /\ \A c \in Tasks : \A t \in ToCome(c) : <<c, t>> \notin ran \cup Range(queued)
    /\ \A i \in DOMAIN queued : queued[i] \in ran =>
          \E c \in Tasks : call[c].kept /\ call[c].pos = i
    /\ job = "preflight" => call[Main].todo \subseteq InPhase("preflight")

\* The task of the job has executed the queue up to where it is.
Flushed ==
    /\ call[Main].kept
    /\ \A i \in 1 .. call[Main].pos : queued[i] \in ran

QueueInv ==
    /\ Drains
    /\ ~lapped =>
          /\ accepted \subseteq Range(queued) \cup ran
          /\ Active => Fresh
          /\ job = "draining" => Flushed
          /\ job = "closed" => accepted \subseteq ran

-----------------------------------------------------------------------------
(* The operators that put triggers and items in an order.                  *)

\* A set of naturals has a least element.
LEMMA MinIsLeast ==
    ASSUME NEW S, S \subseteq Nat, S # {}
    PROVE  Min(S) \in S /\ \A n \in S : Min(S) <= n
<1> DEFINE R == OpToRel(<, Nat)
<1>1. IsWellFoundedOn(R, Nat)
    BY NatLessThanWellFounded
<1>2. \A i, k \in Nat : <<i, k>> \in R <=> i < k
    BY DEF OpToRel
<1> HIDE DEF R
<1>3. PICK m \in S : \A n \in S : ~(<<n, m>> \in R)
    BY <1>1, WFMin
<1>4. ASSUME NEW n \in S PROVE m <= n
    <2>1. n \in Nat /\ m \in Nat
        OBVIOUS
    <2>2. ~(n < m)
        BY <1>2, <1>3, <2>1
    <2> QED BY <2>1, <2>2
<1> QED BY <1>3, <1>4 DEF Min

\* Increasing enumerations of a set of numbers.
Enumerates(q, S) ==
    /\ q \in [1 .. Cardinality(S) -> S]
    /\ \A i, k \in 1 .. Cardinality(S) : i < k => q[i] < q[k]

\* Every finite set of numbers has one: the smallest set that had none would
\* have more than its least element, and the rest of it has one.
LEMMA EnumerationExists ==
    ASSUME NEW S, S \subseteq Nat, IsFiniteSet(S)
    PROVE  \E q : Enumerates(q, S)
<1> DEFINE Bad == {n \in Nat : \E T : T \subseteq Nat /\ IsFiniteSet(T)
                                       /\ Cardinality(T) = n
                                       /\ ~\E q : Enumerates(q, T)}
<1>1. Bad = {}
    <2> SUFFICES ASSUME Bad # {} PROVE FALSE
        OBVIOUS
    <2>1. Min(Bad) \in Bad /\ \A n \in Bad : Min(Bad) <= n
        BY MinIsLeast
    <2> DEFINE n == Min(Bad)
    <2>2. PICK T : /\ T \subseteq Nat /\ IsFiniteSet(T) /\ Cardinality(T) = n
                   /\ ~\E q : Enumerates(q, T)
        BY <2>1
    <2> HIDE DEF n
    <2>3. CASE T = {}
        <3>1. Cardinality(T) = 0
            BY <2>3, FS_EmptySet
        <3>2. Enumerates(<<>>, T)
            BY <3>1 DEF Enumerates
        <3> QED BY <2>2, <3>2
    <2>4. CASE T # {}
        <3> DEFINE m == Min(T)
                   R == T \ {m}
        <3>1. m \in T /\ \A t \in T : m <= t
            BY <2>2, <2>4, MinIsLeast
        <3>2. IsFiniteSet(R) /\ Cardinality(R) = n - 1
            BY <2>2, <3>1, FS_RemoveElement
        <3>3. Cardinality(R) \in Nat /\ n \in Nat
            BY <2>2, <3>2, FS_CardinalityType
        <3> HIDE DEF m, R
        <3>4. PICK q : Enumerates(q, R)
            <4>1. n - 1 \in Nat /\ n - 1 < n
                BY <3>2, <3>3
            <4>2. R \subseteq Nat
                BY <2>2 DEF R
            <4>3. n - 1 \notin Bad
                <5>1. n - 1 \in Bad => n <= n - 1
                    BY <2>1 DEF n
                <5> QED BY <4>1, <5>1, <3>3
            <4> QED BY <3>2, <4>1, <4>2, <4>3
        <3> DEFINE p == [i \in 1 .. n |-> IF i = 1 THEN m ELSE q[i - 1]]
        <3>5. /\ \A i \in 1 .. n - 1 : q[i] \in R
              /\ \A i, k \in 1 .. n - 1 : i < k => q[i] < q[k]
            BY <3>2, <3>4 DEF Enumerates
        <3>6. R \subseteq T /\ \A t \in R : m < t
            BY <2>2, <3>1 DEF R
        <3>7. p \in [1 .. n -> T]
            <4> SUFFICES ASSUME NEW i \in 1 .. n PROVE p[i] \in T
                OBVIOUS
            <4>1. CASE i = 1 BY <3>1, <4>1
            <4>2. CASE i # 1
                <5>1. i - 1 \in 1 .. n - 1 BY <3>3, <4>2
                <5> QED BY <3>5, <3>6, <4>2, <5>1
            <4> QED BY <4>1, <4>2
        <3>8. ASSUME NEW i \in 1 .. n, NEW k \in 1 .. n, i < k PROVE p[i] < p[k]
            <4>1. k - 1 \in 1 .. n - 1 /\ k # 1 BY <3>3, <3>8
            <4>2. CASE i = 1
                <5>1. p[i] = m /\ p[k] = q[k - 1] BY <4>1, <4>2
                <5> QED BY <3>5, <3>6, <4>1, <5>1
            <4>3. CASE i # 1
                <5>1. i - 1 \in 1 .. n - 1 /\ i - 1 < k - 1 BY <3>3, <3>8, <4>3
                <5>2. p[i] = q[i - 1] /\ p[k] = q[k - 1] BY <4>1, <4>3
                <5> QED BY <3>5, <4>1, <5>1, <5>2
            <4> QED BY <4>2, <4>3
        <3>9. Enumerates(p, T)
            BY <2>2, <3>7, <3>8 DEF Enumerates
        <3> QED BY <2>2, <3>9
    <2> QED BY <2>3, <2>4
<1>2. Cardinality(S) \in Nat
    BY FS_CardinalityType
<1> QED BY <1>1, <1>2

\* InOrder is one.
LEMMA InOrderEnumerates ==
    ASSUME NEW S, S \subseteq Nat, IsFiniteSet(S)
    PROVE  Enumerates(InOrder(S), S)
<1>1. PICK q : Enumerates(q, S)
    BY EnumerationExists
<1>2. /\ q \in [1 .. Cardinality(S) -> S]
      /\ \A i, k \in DOMAIN q : i < k => q[i] < q[k]
    BY <1>1 DEF Enumerates
<1>3. /\ InOrder(S) \in [1 .. Cardinality(S) -> S]
      /\ \A i, k \in DOMAIN InOrder(S) : i < k => InOrder(S)[i] < InOrder(S)[k]
    BY <1>2 DEF InOrder
<1> QED BY <1>3 DEF Enumerates

-----------------------------------------------------------------------------
(* What a call has done when it has gone over its triggers: it has put some  *)
(* of them into the queue, and executes the next one or is done.             *)

Done == [NewCall EXCEPT !.pc = "done"]

\* The items a call brings: some of its triggers, each of them once.
Brought(c, triggers, items) ==
    /\ items \in Seq(Item)
    /\ \A i \in DOMAIN items : \E t \in triggers : items[i] = <<c, t>>
    /\ \A i, k \in DOMAIN items : items[i] = items[k] => i = k

\* The drains go on with the items appended.
Seen(queue, r) == IF r.kept THEN [r EXCEPT !.list = queue] ELSE r

Tried(c, todo, flying, deep, queue, record, items, passed) ==
    /\ passed \subseteq todo /\ Brought(c, passed, items)
    /\ queued' = queue \o items /\ Len(queued') <= Cardinality(Triggers)
    /\ accepted' = IF Active THEN accepted \cup Range(items) ELSE accepted
    /\ fired' \subseteq Once
    /\ call' = [d \in Tasks |-> call'[d]]
    /\ \A d \in Tasks \ {c} : call'[d] = Seen(queued', record[d])
    /\ \/ /\ call'[c] = Done
          /\ inFlight' = flying /\ depth' = deep
          /\ UNCHANGED <<ran, again>>
       \/ \E run \in todo \ passed :
             /\ SidecarOf[run] \notin flying \/ PolicyOf[run] = "parallel"
             /\ \A t \in passed : t < run
             /\ inFlight' = flying \cup {SidecarOf[run]} /\ depth' = deep + 1
             /\ ran' = ran \cup {<<c, run>>}
             /\ again' = (again \/ <<c, run>> \in ran)
             /\ call'[c] = [Seen(queued', record[c]) EXCEPT
                             !.pc = "running", !.at = run,
                             !.todo = {t \in todo : t > run}]

\* The first part of an enumeration of triggers, as items of a call.
LEMMA BroughtInOrder ==
    ASSUME NEW c \in Tasks, NEW S, S \subseteq Triggers, NEW n \in Nat,
           n <= Cardinality(S)
    PROVE  Brought(c, S, [i \in 1 .. n |-> <<c, InOrder(S)[i]>>])
<1> DEFINE q == InOrder(S)
           items == [i \in 1 .. n |-> <<c, q[i]>>]
<1>1. IsFiniteSet(S) /\ S \subseteq Nat /\ Cardinality(S) \in Nat
    BY TriggerAssumption, FS_Subset, FS_CardinalityType
<1>2. Enumerates(q, S)
    BY <1>1, InOrderEnumerates
<1> HIDE DEF q
<1>3. /\ \A i \in 1 .. n : q[i] \in S
      /\ \A i, k \in 1 .. n : i < k => q[i] < q[k]
    BY <1>1, <1>2 DEF Enumerates
<1>4. \A i \in 1 .. n : items[i] \in Item
    BY <1>3 DEF Item
<1>5. items \in Seq(Item)
    BY <1>4
<1>6. \A i, k \in 1 .. n : items[i] = items[k] => i = k
    <2> SUFFICES ASSUME NEW i \in 1 .. n, NEW k \in 1 .. n, items[i] = items[k]
                 PROVE  i = k
        OBVIOUS
    <2>1. q[i] = q[k] /\ q[i] \in Nat
        BY <1>1, <1>3
    <2> QED BY <1>3, <2>1
<1>7. \A i \in 1 .. n : \E t \in S : items[i] = <<c, t>>
    BY <1>3
<1> QED BY <1>5, <1>6, <1>7 DEF q, Brought

LEMMA TryFacts ==
    ASSUME NEW c \in Tasks, NEW todo \in SUBSET Triggers, NEW flying, NEW deep,
           NEW queue \in Seq(Item), NEW record \in [Tasks -> Call],
           ListsFit(queue, record), fired \subseteq Once,
           Try(c, todo, flying, deep, queue, record)
    PROVE  \E items, passed : Tried(c, todo, flying, deep, queue, record, items, passed)
<1> DEFINE due == todo \ fired
           free == {t \in due : SidecarOf[t] \notin flying \/ PolicyOf[t] = "parallel"}
           passed == {t \in due : \A u \in free : t < u}
           waits == {t \in passed : PolicyOf[t] = "queue"}
           room == Cardinality(Triggers) - Len(queue)
           n == Min({room, Len(InOrder(waits))})
           items == [i \in 1 .. n |-> <<c, InOrder(waits)[i]>>]
           grown == Grown(record, items)
           run == Min(free)
<1>1. /\ IsFiniteSet(waits) /\ waits \subseteq Triggers /\ waits \subseteq Nat
      /\ Cardinality(waits) \in Nat /\ Cardinality(Triggers) \in Nat
    BY TriggerAssumption, FS_Subset, FS_CardinalityType
<1>2. Len(InOrder(waits)) = Cardinality(waits)
    <2>1. Enumerates(InOrder(waits), waits)
        BY <1>1, InOrderEnumerates
    <2> HIDE DEF waits
    <2> QED BY <1>1, <2>1 DEF Enumerates
<1>3. room \in Nat
    BY <1>1 DEF ListsFit
<1>4. n \in Nat /\ n <= room /\ n <= Cardinality(waits)
    <2> HIDE DEF room, waits
    <2> DEFINE both == {room, Len(InOrder(waits))}
    <2>1. both \subseteq Nat /\ both # {}
        BY <1>1, <1>2, <1>3
    <2>2. Min(both) \in both /\ \A k \in both : Min(both) <= k
        BY <2>1, MinIsLeast
    <2> QED BY <1>2, <2>1, <2>2
<1>5. Brought(c, waits, items)
    <2> HIDE DEF waits, n
    <2> QED BY <1>1, <1>4, BroughtInOrder
<1>6. Brought(c, passed, items)
    <2> HIDE DEF n, items
    <2> QED BY <1>5 DEF Brought
<1>7. Len(items) = n /\ items \in Seq(Item)
    <2> HIDE DEF n
    <2>1. DOMAIN items = 1 .. n
        OBVIOUS
    <2> HIDE DEF items
    <2>2. items \in Seq(Item)
        BY <1>5 DEF Brought
    <2> QED BY <1>4, <2>1, <2>2
<1>8. /\ queued' = queue \o items
      /\ accepted' = IF Active THEN accepted \cup Range(items) ELSE accepted
      /\ IF free = {}
         THEN /\ call' = [grown EXCEPT ![c] = Done]
              /\ inFlight' = flying /\ depth' = deep
              /\ fired' = fired \cup (due \cap Once)
              /\ UNCHANGED <<ran, again>>
         ELSE /\ inFlight' = flying \cup {SidecarOf[run]} /\ depth' = deep + 1
              /\ fired' = fired \cup ((passed \cup {run}) \cap Once)
              /\ Executed(c, <<c, run>>,
                          [grown EXCEPT ![c].todo = {t \in todo : t > run}])
    BY DEF Try, Done
<1> HIDE DEF n, items
<1>9. Len(queued') <= Cardinality(Triggers)
    BY <1>1, <1>3, <1>4, <1>7, <1>8
<1>10. \A d \in Tasks : grown[d] = Seen(queued', record[d])
    <2>1. ASSUME NEW d \in Tasks PROVE grown[d] = Seen(queued', record[d])
        <3>1. CASE record[d].kept
            <4>1. record[d].list = queue
                BY <3>1 DEF ListsFit
            <4> QED BY <1>8, <3>1, <4>1 DEF Grown, Seen
        <3>2. CASE ~record[d].kept
            BY <3>2 DEF Grown, Seen
        <3> QED BY <3>1, <3>2
    <2> QED BY <2>1
<1>11. fired' \subseteq Once /\ passed \subseteq todo
    BY <1>8
<1>12. CASE free = {}
    <2>1. /\ call' = [grown EXCEPT ![c] = Done] /\ inFlight' = flying /\ depth' = deep
          /\ UNCHANGED <<ran, again>>
        BY <1>8, <1>12
    <2>2. /\ call' = [d \in Tasks |-> call'[d]] /\ call'[c] = Done
          /\ \A d \in Tasks \ {c} : call'[d] = grown[d]
        BY <2>1 DEF Grown
    <2>3. Tried(c, todo, flying, deep, queue, record, items, passed)
        BY <1>6, <1>8, <1>9, <1>10, <1>11, <2>1, <2>2 DEF Tried
    <2> QED BY <2>3
<1>13. CASE free # {}
    <2>1. free \subseteq Nat
        BY TriggerAssumption
    <2>2. run \in free /\ \A t \in passed : t < run
        BY <1>13, <2>1, MinIsLeast
    <2>3. run \in todo \ passed
        <3>1. run \in todo /\ run \in Nat
            BY <2>1, <2>2
        <3>2. ~(run < run)
            BY <3>1
        <3> QED BY <2>2, <3>1, <3>2
    <2>4. SidecarOf[run] \notin flying \/ PolicyOf[run] = "parallel"
        BY <2>2
    <2> HIDE DEF run, free, grown
    <2>5. /\ inFlight' = flying \cup {SidecarOf[run]} /\ depth' = deep + 1
          /\ ran' = ran \cup {<<c, run>>} /\ again' = (again \/ <<c, run>> \in ran)
          /\ call' = [[grown EXCEPT ![c].todo = {t \in todo : t > run}]
                         EXCEPT ![c].pc = "running", ![c].at = run]
        BY <1>8, <1>13 DEF Executed
    <2>6. grown = [d \in Tasks |-> grown[d]]
        BY DEF grown, Grown
    <2>7. /\ call' = [d \in Tasks |-> call'[d]]
          /\ \A d \in Tasks \ {c} : call'[d] = grown[d]
          /\ call'[c] = [grown[c] EXCEPT !.pc = "running", !.at = run,
                                        !.todo = {t \in todo : t > run}]
        BY <2>5, <2>6
    <2>8. Tried(c, todo, flying, deep, queue, record, items, passed)
        BY <1>6, <1>8, <1>9, <1>10, <1>11, <2>2, <2>3, <2>4, <2>5, <2>7 DEF Tried
    <2> QED BY <2>8
<1> QED BY <1>12, <1>13

-----------------------------------------------------------------------------
(* Types.                                                                  *)

\* What is left of a sequence when one place of it is taken out.
LEMMA RemoveAtFacts ==
    ASSUME NEW S, NEW q \in Seq(S), NEW i \in 1 .. Len(q)
    PROVE  /\ RemoveAt(q, i) \in Seq(S)
           /\ Len(RemoveAt(q, i)) = Len(q) - 1
           /\ \A k \in 1 .. Len(q) - 1 :
                 RemoveAt(q, i)[k] = IF k < i THEN q[k] ELSE q[k + 1]
<1> DEFINE l == SubSeq(q, 1, i - 1)
           r == SubSeq(q, i + 1, Len(q))
<1>1. /\ l \in Seq(S) /\ Len(l) = i - 1
      /\ \A k \in 1 .. i - 1 : l[k] = q[k]
    OBVIOUS
<1>2. /\ r \in Seq(S) /\ Len(r) = Len(q) - i
      /\ \A k \in 1 .. Len(q) - i : r[k] = q[i + k]
    OBVIOUS
<1> HIDE DEF l, r
<1>3. /\ l \o r \in Seq(S) /\ Len(l \o r) = Len(q) - 1
      /\ \A k \in 1 .. Len(q) - 1 : (l \o r)[k] = IF k < i THEN l[k] ELSE r[k - (i - 1)]
    <2>1. Len(l) + Len(r) = Len(q) - 1
        BY <1>1, <1>2
    <2>2. /\ l \o r \in Seq(S) /\ Len(l \o r) = Len(l) + Len(r)
          /\ \A k \in 1 .. Len(l) + Len(r) :
                (l \o r)[k] = IF k <= Len(l) THEN l[k] ELSE r[k - Len(l)]
        BY <1>1, <1>2, ConcatProperties
    <2>3. ASSUME NEW k \in 1 .. Len(q) - 1
          PROVE  (l \o r)[k] = IF k < i THEN l[k] ELSE r[k - (i - 1)]
        <3>1. (l \o r)[k] = IF k <= i - 1 THEN l[k] ELSE r[k - (i - 1)]
            BY <1>1, <2>1, <2>2
        <3>2. k <= i - 1 <=> k < i
            OBVIOUS
        <3> QED BY <3>1, <3>2
    <2> QED BY <2>1, <2>2, <2>3
<1>4. ASSUME NEW k \in 1 .. Len(q) - 1
      PROVE  (l \o r)[k] = IF k < i THEN q[k] ELSE q[k + 1]
    <2>1. CASE k < i
        BY <1>1, <1>3, <2>1
    <2>2. CASE ~(k < i)
        <3>1. k - (i - 1) \in 1 .. Len(q) - i /\ i + (k - (i - 1)) = k + 1
            BY <2>2
        <3> QED BY <1>2, <1>3, <2>2, <3>1
    <2> QED BY <2>1, <2>2
<1> QED BY <1>3, <1>4 DEF RemoveAt, l, r

\* The types a round of triggers leaves.
LEMMA TriedTypes ==
    ASSUME TypeInv, NEW c \in Tasks, NEW todo \in SUBSET Triggers,
           NEW flying \in SUBSET Sidecars, NEW deep,
           NEW queue \in Seq(Item), NEW record \in [Tasks -> Call],
           ListsFit(queue, record), NEW items, NEW passed,
           Tried(c, todo, flying, deep, queue, record, items, passed),
           \A d \in Tasks \ {c} : record[d].pc = call[d].pc /\ record[d].at = call[d].at
    PROVE  /\ call' \in [Tasks -> Call]
           /\ \A d \in Tasks : call'[d].pc \in {"running", "gating"}
                               => call'[d].at \in Triggers
           /\ inFlight' \subseteq Sidecars /\ fired' \subseteq Once
           /\ queued' \in Seq(Item)
           /\ accepted' \subseteq Item /\ ran' \subseteq Item /\ again' \in BOOLEAN
           /\ ListsFit(queued, call)'
<1>1. /\ items \in Seq(Item) /\ passed \subseteq todo /\ queued' = queue \o items
      /\ Len(queued') <= Cardinality(Triggers)
    BY DEF Tried, Brought
<1>2. queued' \in Seq(Item) /\ Len(queued') = Len(queue) + Len(items)
    BY <1>1
<1>3. ASSUME NEW d \in Tasks
      PROVE  /\ Seen(queued', record[d]) \in Call
             /\ Seen(queued', record[d]).kept => Seen(queued', record[d]).list = queued'
             /\ Len(Seen(queued', record[d]).list) <= Cardinality(Triggers)
             /\ Seen(queued', record[d]).pos <= Len(Seen(queued', record[d]).list)
             /\ Seen(queued', record[d]).pc = record[d].pc
             /\ Seen(queued', record[d]).at = record[d].at
    <2>1. record[d] \in Call
        OBVIOUS
    <2>2. CASE record[d].kept
        <3>1. Seen(queued', record[d]) = [record[d] EXCEPT !.list = queued']
            BY <2>2 DEF Seen
        <3>2. record[d].list = queue /\ record[d].pos <= Len(queue) /\ record[d].pos \in Nat
            BY <2>1, <2>2 DEF ListsFit, Call
        <3>3. Len(queue) \in Nat /\ Len(items) \in Nat
            BY <1>1
        <3>4. record[d].pos <= Len(queued')
            BY <1>2, <3>2, <3>3
        <3>5. /\ [record[d] EXCEPT !.list = queued'] \in Call
              /\ [record[d] EXCEPT !.list = queued'].list = queued'
              /\ [record[d] EXCEPT !.list = queued'].pos = record[d].pos
              /\ [record[d] EXCEPT !.list = queued'].pc = record[d].pc
              /\ [record[d] EXCEPT !.list = queued'].at = record[d].at
            BY <1>2, <2>1 DEF Call
        <3> QED BY <1>1, <3>1, <3>4, <3>5
    <2>3. CASE ~record[d].kept
        <3>1. Seen(queued', record[d]) = record[d]
            BY <2>3 DEF Seen
        <3>2. /\ Len(record[d].list) <= Cardinality(Triggers)
              /\ record[d].pos <= Len(record[d].list)
            BY DEF ListsFit
        <3> QED BY <2>1, <2>3, <3>1, <3>2
    <2> QED BY <2>2, <2>3
<1>4. Done \in Call /\ ~Done.kept /\ Done.list = <<>> /\ Done.pos = 0 /\ Done.pc = "done"
    <2>1. NewCall \in Call /\ ~NewCall.kept /\ NewCall.list = <<>> /\ NewCall.pos = 0
        BY DEF NewCall, Call, NoTrigger
    <2> QED BY <2>1 DEF Done, Call
<1>5. Len(<<>>) = 0 /\ Cardinality(Triggers) \in Nat
    BY TriggerAssumption, FS_CardinalityType
<1>6. /\ call'[c] \in Call
      /\ call'[c].kept => call'[c].list = queued'
      /\ Len(call'[c].list) <= Cardinality(Triggers)
      /\ call'[c].pos <= Len(call'[c].list)
      /\ call'[c].pc \in {"running", "gating"} => call'[c].at \in Triggers
    <2>1. CASE call'[c] = Done
        BY <1>4, <1>5, <2>1
    <2>2. CASE call'[c] # Done
        <3>1. PICK run \in todo :
                call'[c] = [Seen(queued', record[c]) EXCEPT
                              !.pc = "running", !.at = run, !.todo = {t \in todo : t > run}]
            BY <2>2 DEF Tried
        <3> DEFINE later == {t \in todo : t > run}
                   r == Seen(queued', record[c])
        <3>2. later \in SUBSET Triggers
            OBVIOUS
        <3>3. r \in Call /\ (r.kept => r.list = queued')
              /\ Len(r.list) <= Cardinality(Triggers) /\ r.pos <= Len(r.list)
            BY <1>3
        <3>4. call'[c] = [r EXCEPT !.pc = "running", !.at = run, !.todo = later]
            BY <3>1
        <3> HIDE DEF r, later
        <3> QED BY <3>2, <3>3, <3>4 DEF Call
    <2> QED BY <2>1, <2>2
<1>7. ASSUME NEW d \in Tasks \ {c}
      PROVE  call'[d] = Seen(queued', record[d])
    BY DEF Tried
<1>8. /\ call' \in [Tasks -> Call]
      /\ \A d \in Tasks : call'[d].pc \in {"running", "gating"} => call'[d].at \in Triggers
    <2>1. call' = [d \in Tasks |-> call'[d]]
        BY DEF Tried
    <2> QED BY <1>3, <1>6, <1>7, <2>1 DEF TypeInv, TypeOK, Executing
<1>9. ListsFit(queued, call)'
    BY <1>1, <1>3, <1>6, <1>7 DEF ListsFit
<1>10. Range(items) \subseteq Item
    BY <1>1 DEF Range
<1>11. fired' \subseteq Once /\ accepted' \subseteq Item
    BY <1>10 DEF Tried, TypeInv, TypeOK
<1>12. inFlight' \subseteq Sidecars
    <2>1. ASSUME NEW run \in todo, inFlight' = flying \cup {SidecarOf[run]}
          PROVE  inFlight' \subseteq Sidecars
        BY <2>1, TriggerAssumption
    <2> QED BY <2>1 DEF Tried
<1>13. ran' \subseteq Item /\ again' \in BOOLEAN
    <2>1. ASSUME NEW run \in todo, ran' = ran \cup {<<c, run>>},
                 again' = (again \/ <<c, run>> \in ran)
          PROVE  ran' \subseteq Item /\ again' \in BOOLEAN
        BY <2>1 DEF TypeInv, TypeOK, Item
    <2>2. CASE UNCHANGED <<ran, again>>
        BY <2>2 DEF TypeInv, TypeOK
    <2> QED BY <2>1, <2>2 DEF Tried
<1> QED BY <1>2, <1>8, <1>9, <1>11, <1>12, <1>13

\* The calls once the lists that drains go over are not the queue any more.
Ended(record) ==
    /\ record \in [Tasks -> Call]
    /\ \A d \in Tasks :
          /\ record[d].pc = call[d].pc /\ record[d].at = call[d].at
          /\ record[d].todo = call[d].todo
          /\ ~record[d].kept
          /\ Len(record[d].list) <= Cardinality(Triggers)
          /\ record[d].pos <= Len(record[d].list)

LEMMA ReplacedFacts ==
    ASSUME TypeInv, NEW c \in Tasks
    PROVE  /\ Ended(Replaced(call))
           /\ Ended(Replaced([call EXCEPT ![c].list = <<>>, ![c].pos = 0]))
<1>1. call \in [Tasks -> Call] /\ Len(<<>>) = 0 /\ Cardinality(Triggers) \in Nat
    BY TriggerAssumption, FS_CardinalityType DEF TypeInv, TypeOK
<1>2. ASSUME NEW record \in [Tasks -> Call],
             \A d \in Tasks :
                /\ record[d].pc = call[d].pc /\ record[d].at = call[d].at
                /\ record[d].todo = call[d].todo
                /\ Len(record[d].list) <= Cardinality(Triggers)
                /\ record[d].pos <= Len(record[d].list)
      PROVE  Ended(Replaced(record))
    <2>1. ASSUME NEW d \in Tasks
          PROVE  /\ [record[d] EXCEPT !.kept = FALSE] \in Call
                 /\ [record[d] EXCEPT !.kept = FALSE].pc = record[d].pc
                 /\ [record[d] EXCEPT !.kept = FALSE].at = record[d].at
                 /\ [record[d] EXCEPT !.kept = FALSE].todo = record[d].todo
                 /\ [record[d] EXCEPT !.kept = FALSE].list = record[d].list
                 /\ [record[d] EXCEPT !.kept = FALSE].pos = record[d].pos
                 /\ ~[record[d] EXCEPT !.kept = FALSE].kept
        <3>1. record[d] \in Call
            OBVIOUS
        <3> QED BY <3>1 DEF Call
    <2>2. Replaced(record) \in [Tasks -> Call]
        BY <2>1 DEF Replaced
    <2>3. \A d \in Tasks : Replaced(record)[d] = [record[d] EXCEPT !.kept = FALSE]
        BY DEF Replaced
    <2>4. ASSUME NEW d \in Tasks
          PROVE  /\ Replaced(record)[d].pc = call[d].pc
                 /\ Replaced(record)[d].at = call[d].at
                 /\ Replaced(record)[d].todo = call[d].todo
                 /\ ~Replaced(record)[d].kept
                 /\ Len(Replaced(record)[d].list) <= Cardinality(Triggers)
                 /\ Replaced(record)[d].pos <= Len(Replaced(record)[d].list)
        BY <1>2, <2>1, <2>3
    <2> QED BY <2>2, <2>4 DEF Ended
<1>3. Ended(Replaced(call))
    BY <1>1, <1>2 DEF TypeInv, ListsFit
<1> DEFINE record == [call EXCEPT ![c].list = <<>>, ![c].pos = 0]
<1>4. /\ record \in [Tasks -> Call]
      /\ \A d \in Tasks :
            /\ record[d].pc = call[d].pc /\ record[d].at = call[d].at
            /\ record[d].todo = call[d].todo
      /\ record[c].list = <<>> /\ record[c].pos = 0
      /\ \A d \in Tasks \ {c} : record[d] = call[d]
    <2>1. call[c] \in Call
        BY <1>1
    <2> DEFINE r == [call[c] EXCEPT !.list = <<>>, !.pos = 0]
    <2>2. /\ r \in Call /\ r.pc = call[c].pc /\ r.at = call[c].at
          /\ r.todo = call[c].todo /\ r.list = <<>> /\ r.pos = 0
        <3>1. <<>> \in Seq(Item) /\ 0 \in Nat
            OBVIOUS
        <3> QED BY <2>1, <3>1 DEF Call
    <2> DEFINE first == [call EXCEPT ![c].list = <<>>]
    <2>3. /\ first = [d \in Tasks |-> first[d]]
          /\ first[c] = [call[c] EXCEPT !.list = <<>>]
          /\ \A d \in Tasks \ {c} : first[d] = call[d]
        BY <1>1, Zenon
    <2>4. record = [first EXCEPT ![c].pos = 0]
        OBVIOUS
    <2> HIDE DEF first
    <2>5. /\ record = [d \in Tasks |-> record[d]]
          /\ record[c] = [first[c] EXCEPT !.pos = 0]
          /\ \A d \in Tasks \ {c} : record[d] = first[d]
        BY <2>3, <2>4, Zenon
    <2>6. record[c] = r
        BY <2>3, <2>5
    <2> HIDE DEF r, record
    <2> QED BY <1>1, <2>2, <2>3, <2>5, <2>6
<1> HIDE DEF record
<1>5. ASSUME NEW d \in Tasks
      PROVE  /\ Len(record[d].list) <= Cardinality(Triggers)
             /\ record[d].pos <= Len(record[d].list)
    <2>1. CASE d = c
        BY <1>1, <1>4, <2>1
    <2>2. CASE d # c
        BY <1>4, <2>2 DEF TypeInv, ListsFit
    <2> QED BY <2>1, <2>2
<1>6. Ended(Replaced(record))
    BY <1>2, <1>4, <1>5
<1> QED BY <1>3, <1>6 DEF record

\* A drain that ends makes what it has gone over the queue.
LEMMA EndDrainFacts ==
    ASSUME TypeInv, NEW c \in Tasks, Executing(c), call[c].pos > 0, EndDrain(c)
    PROVE  LET rest == RemoveAt(call[c].list, call[c].pos)
           IN  /\ call[c].pos \in 1 .. Len(call[c].list) /\ call[c].list \in Seq(Item)
               /\ rest \in Seq(Item) /\ Len(rest) <= Cardinality(Triggers)
               /\ lapped' = (lapped \/ Others(c) # {} \/ ~call[c].kept)
               /\ \E record, items, passed :
                    /\ Ended(record) /\ ListsFit(rest, record)
                    /\ Tried(c, call[c].todo, inFlight \ {SidecarOf[call[c].at]},
                             depth - 1, rest, record, items, passed)
<1> DEFINE rest == RemoveAt(call[c].list, call[c].pos)
           record == Replaced([call EXCEPT ![c].list = <<>>, ![c].pos = 0])
           flying == inFlight \ {SidecarOf[call[c].at]}
<1>1. /\ call[c] \in Call /\ call[c].list \in Seq(Item) /\ call[c].pos \in Nat
      /\ call[c].todo \in SUBSET Triggers /\ fired \subseteq Once
    BY DEF TypeInv, TypeOK, Call
<1>2. call[c].pos \in 1 .. Len(call[c].list) /\ Len(call[c].list) <= Cardinality(Triggers)
    <2>1. call[c].pos <= Len(call[c].list) /\ Len(call[c].list) <= Cardinality(Triggers)
        BY DEF TypeInv, ListsFit
    <2> QED BY <1>1, <2>1
<1>3. Cardinality(Triggers) \in Nat
    BY TriggerAssumption, FS_CardinalityType
<1>4. rest \in Seq(Item) /\ Len(rest) <= Cardinality(Triggers)
    <2>1. rest \in Seq(Item) /\ Len(rest) = Len(call[c].list) - 1
        BY <1>1, <1>2, RemoveAtFacts
    <2>2. Len(call[c].list) \in Nat
        BY <1>1
    <2> QED BY <1>2, <1>3, <2>1, <2>2
<1>5. Ended(record)
    BY ReplacedFacts
<1>6. /\ lapped' = (lapped \/ Others(c) # {} \/ ~call[c].kept)
      /\ Try(c, call[c].todo, flying, depth - 1, rest, record)
    BY DEF EndDrain
<1> HIDE DEF rest, record, flying
<1>7. record \in [Tasks -> Call] /\ ListsFit(rest, record)
    BY <1>4, <1>5 DEF Ended, ListsFit
<1>8. \E items, passed :
        Tried(c, call[c].todo, flying, depth - 1, rest, record, items, passed)
    BY <1>1, <1>4, <1>6, <1>7, TryFacts
<1> QED BY <1>1, <1>2, <1>4, <1>5, <1>6, <1>7, <1>8 DEF rest, record, flying

\* The first item of the sidecar that c has executed.
FirstOf(c, pos) ==
    /\ pos \in 1 .. Len(queued) /\ Of(queued[pos]) = SidecarOf[call[c].at]
    /\ \A k \in 1 .. Len(queued) :
          Of(queued[k]) = SidecarOf[call[c].at] => pos <= k

\* The end of a run executes it, or the call goes on with its triggers.
LEMMA EndRunFacts ==
    ASSUME TypeInv, NEW c \in Tasks, Executing(c), EndRun(c)
    PROVE  /\ lapped' = (lapped \/ Others(c) # {})
           /\ \/ /\ \A k \in 1 .. Len(queued) : Of(queued[k]) # SidecarOf[call[c].at]
                 /\ \E record, items, passed :
                      /\ Ended(record) /\ ListsFit(queued, record)
                      /\ Tried(c, call[c].todo, inFlight \ {SidecarOf[call[c].at]},
                               depth - 1, queued, record, items, passed)
              \/ \E pos :
                   /\ FirstOf(c, pos)
                   /\ Executed(c, queued[pos],
                         [call EXCEPT ![c].kept = TRUE, ![c].list = queued, ![c].pos = pos])
                   /\ inFlight' = inFlight \cup {SidecarOf[call[c].at]}
                   /\ UNCHANGED <<depth, fired, queued, accepted>>
<1> DEFINE s == SidecarOf[call[c].at]
           OfSidecar(item) == Of(item) = s
           I == {i \in 1 .. Len(queued) : Of(queued[i]) = s}
           pos == SelectInSeq(queued, OfSidecar)
           flying == inFlight \ {s}
<1>1. pos = IF I # {} THEN Min(I) ELSE 0
    BY DEF SelectInSeq
<1>2. lapped' = (lapped \/ Others(c) # {})
    BY DEF EndRun
<1>3. IF pos = 0
      THEN Try(c, call[c].todo, flying, depth - 1, queued, Replaced(call))
      ELSE /\ Executed(c, queued[pos],
                 [call EXCEPT ![c].kept = TRUE, ![c].list = queued, ![c].pos = pos])
           /\ inFlight' = inFlight \cup {s}
           /\ UNCHANGED <<depth, fired, queued, accepted>>
    BY DEF EndRun
<1> HIDE DEF pos
<1>4. /\ call[c] \in Call /\ call[c].todo \in SUBSET Triggers /\ fired \subseteq Once
      /\ queued \in Seq(Item) /\ Len(queued) <= Cardinality(Triggers)
    BY DEF TypeInv, TypeOK, Call
<1>5. I \subseteq Nat
    OBVIOUS
<1>6. CASE I = {}
    <2>1. pos = 0
        BY <1>1, <1>6
    <2>2. Ended(Replaced(call))
        BY ReplacedFacts
    <2>3. Replaced(call) \in [Tasks -> Call] /\ ListsFit(queued, Replaced(call))
        BY <1>4, <2>2 DEF Ended, ListsFit
    <2>4. Try(c, call[c].todo, flying, depth - 1, queued, Replaced(call))
        BY <1>3, <2>1
    <2> HIDE DEF flying
    <2>5. \E items, passed :
            Tried(c, call[c].todo, flying, depth - 1, queued, Replaced(call), items, passed)
        BY <1>4, <2>3, <2>4, TryFacts
    <2> QED BY <1>2, <1>6, <2>2, <2>3, <2>5 DEF flying
<1>7. CASE I # {}
    <2>1. Min(I) \in I /\ \A k \in I : Min(I) <= k
        BY <1>5, <1>7, MinIsLeast
    <2>2. pos = Min(I)
        BY <1>1, <1>7
    <2>3. FirstOf(c, pos) /\ pos # 0
        BY <2>1, <2>2 DEF FirstOf
    <2> QED BY <1>2, <1>3, <2>3
<1> QED BY <1>6, <1>7

\* A call executes an item of the list it goes over.
OnItem(c, list, pos, record) ==
    /\ call' \in [Tasks -> Call]
    /\ call'[c].pc = "running" /\ call'[c].at = list[pos][2]
    /\ call'[c].todo = record[c].todo /\ call'[c].kept = record[c].kept
    /\ call'[c].list = list /\ call'[c].pos = pos
    /\ \A d \in Tasks \ {c} : call'[d] = record[d]
    /\ ran' = ran \cup {list[pos]} /\ again' = (again \/ list[pos] \in ran)
    /\ list[pos] \in Item /\ list[pos][2] \in Triggers

LEMMA DrainStep ==
    ASSUME NEW record \in [Tasks -> Call], NEW c \in Tasks,
           NEW list \in Seq(Item), NEW pos \in 1 .. Len(list),
           Executed(c, list[pos], [record EXCEPT ![c].list = list, ![c].pos = pos])
    PROVE  OnItem(c, list, pos, record)
<1>1. list[pos] \in Item /\ list[pos][2] \in Triggers
    BY DEF Item
<1> DEFINE a == [record EXCEPT ![c].list = list]
           b == [a EXCEPT ![c].pos = pos]
           p == [b EXCEPT ![c].pc = "running"]
           q == [p EXCEPT ![c].at = list[pos][2]]
<1>2. call' = q /\ ran' = ran \cup {list[pos]} /\ again' = (again \/ list[pos] \in ran)
    BY DEF Executed
<1> HIDE DEF q
<1>3. record[c] \in Call /\ pos \in Nat
    OBVIOUS
<1>4. /\ a = [d \in Tasks |-> a[d]] /\ a[c] = [record[c] EXCEPT !.list = list]
      /\ \A d \in Tasks \ {c} : a[d] = record[d]
    BY Zenon
<1> HIDE DEF a
<1>5. /\ a[c] \in Call /\ a[c].todo = record[c].todo /\ a[c].kept = record[c].kept
      /\ a[c].list = list
    BY <1>3, <1>4 DEF Call
<1>6. /\ b = [d \in Tasks |-> b[d]] /\ b[c] = [a[c] EXCEPT !.pos = pos]
      /\ \A d \in Tasks \ {c} : b[d] = a[d]
    BY <1>4, Zenon
<1> HIDE DEF b
<1>7. /\ b[c] \in Call /\ b[c].todo = record[c].todo /\ b[c].kept = record[c].kept
      /\ b[c].list = list /\ b[c].pos = pos
    BY <1>3, <1>5, <1>6 DEF Call
<1>8. /\ p = [d \in Tasks |-> p[d]] /\ p[c] = [b[c] EXCEPT !.pc = "running"]
      /\ \A d \in Tasks \ {c} : p[d] = b[d]
    BY <1>6, Zenon
<1> HIDE DEF p
<1>9. /\ p[c] \in Call /\ p[c].todo = record[c].todo /\ p[c].kept = record[c].kept
      /\ p[c].list = list /\ p[c].pos = pos /\ p[c].pc = "running"
    BY <1>7, <1>8 DEF Call
<1>10. /\ q = [d \in Tasks |-> q[d]] /\ q[c] = [p[c] EXCEPT !.at = list[pos][2]]
       /\ \A d \in Tasks \ {c} : q[d] = p[d]
    BY <1>8, Zenon DEF q
<1>11. /\ q[c] \in Call /\ q[c].todo = record[c].todo /\ q[c].kept = record[c].kept
       /\ q[c].list = list /\ q[c].pos = pos /\ q[c].pc = "running"
       /\ q[c].at = list[pos][2]
    BY <1>1, <1>9, <1>10 DEF Call
<1>12. q \in [Tasks -> Call]
    <2>1. \A d \in Tasks : q[d] \in Call
        BY <1>4, <1>6, <1>8, <1>10, <1>11
    <2> QED BY <1>10, <2>1
<1> QED BY <1>1, <1>2, <1>4, <1>6, <1>8, <1>10, <1>11, <1>12 DEF OnItem

\* One field of one call changes.
LEMMA KeptRecord ==
    ASSUME TypeInv, NEW c \in Tasks
    PROVE  LET record == [call EXCEPT ![c].kept = TRUE]
           IN  /\ record \in [Tasks -> Call]
               /\ record[c].todo = call[c].todo /\ record[c].kept
               /\ \A d \in Tasks \ {c} : record[d] = call[d]
<1> DEFINE record == [call EXCEPT ![c].kept = TRUE]
<1>1. call \in [Tasks -> Call] /\ call[c] \in Call
    BY DEF TypeInv, TypeOK
<1>2. /\ record = [d \in Tasks |-> record[d]]
      /\ record[c] = [call[c] EXCEPT !.kept = TRUE]
      /\ \A d \in Tasks \ {c} : record[d] = call[d]
    BY <1>1, Zenon
<1> HIDE DEF record
<1>3. record[c] \in Call /\ record[c].todo = call[c].todo /\ record[c].kept
    BY <1>1, <1>2 DEF Call
<1>4. record \in [Tasks -> Call]
    BY <1>1, <1>2, <1>3
<1> QED BY <1>2, <1>3, <1>4 DEF record

\* A call whose pipeline is over and whose drain has more to execute.
LEMMA DrainedFacts ==
    ASSUME TypeInv, NEW c \in Tasks, NEW pos \in 1 .. Len(queued), UNCHANGED queued,
           Executed(c, queued[pos],
               [call EXCEPT ![c].kept = TRUE, ![c].list = queued, ![c].pos = pos])
    PROVE  /\ call' \in [Tasks -> Call]
           /\ call'[c].pc = "running" /\ call'[c].at = queued[pos][2]
           /\ call'[c].todo = call[c].todo /\ call'[c].kept
           /\ call'[c].list = queued /\ call'[c].pos = pos
           /\ \A d \in Tasks \ {c} : call'[d] = call[d]
           /\ ran' = ran \cup {queued[pos]} /\ again' = (again \/ queued[pos] \in ran)
           /\ queued[pos] \in Item /\ queued[pos][2] \in Triggers
           /\ ListsFit(queued, call)'
<1> DEFINE record == [call EXCEPT ![c].kept = TRUE]
<1>1. /\ record \in [Tasks -> Call] /\ record[c].todo = call[c].todo /\ record[c].kept
      /\ \A d \in Tasks \ {c} : record[d] = call[d]
    BY KeptRecord
<1>2. Executed(c, queued[pos], [record EXCEPT ![c].list = queued, ![c].pos = pos])
    OBVIOUS
<1>3. queued \in Seq(Item) /\ Len(queued) \in Nat
    BY DEF TypeInv, TypeOK
<1> HIDE DEF record
<1>4. /\ call' \in [Tasks -> Call]
      /\ call'[c].pc = "running" /\ call'[c].at = queued[pos][2]
      /\ call'[c].todo = record[c].todo /\ call'[c].kept = record[c].kept
      /\ call'[c].list = queued /\ call'[c].pos = pos
      /\ \A d \in Tasks \ {c} : call'[d] = record[d]
      /\ ran' = ran \cup {queued[pos]} /\ again' = (again \/ queued[pos] \in ran)
      /\ queued[pos] \in Item /\ queued[pos][2] \in Triggers
    BY <1>1, <1>2, <1>3, DrainStep DEF OnItem
<1>5. ListsFit(queued, call)'
    <2>1. Len(queued) <= Cardinality(Triggers)
        BY DEF TypeInv, ListsFit
    <2>2. ASSUME NEW d \in Tasks
          PROVE  /\ call'[d].kept => call'[d].list = queued'
                 /\ Len(call'[d].list) <= Cardinality(Triggers)
                 /\ call'[d].pos <= Len(call'[d].list)
        <3>1. CASE d = c
            BY <1>3, <1>4, <2>1, <3>1
        <3>2. CASE d # c
            BY <1>1, <1>4, <3>2 DEF TypeInv, ListsFit
        <3> QED BY <3>1, <3>2
    <2> QED BY <2>1, <2>2 DEF ListsFit
<1> QED BY <1>1, <1>4, <1>5

\* A drain that sees more items is where it was.
LEMMA SeenFacts ==
    ASSUME NEW r \in Call, NEW queue
    PROVE  /\ Seen(queue, r).pc = r.pc /\ Seen(queue, r).at = r.at
           /\ Seen(queue, r).todo = r.todo /\ Seen(queue, r).pos = r.pos
           /\ Seen(queue, r).kept = r.kept
           /\ Seen(queue, r).list = IF r.kept THEN queue ELSE r.list
<1>1. CASE r.kept
    <2>1. Seen(queue, r) = [r EXCEPT !.list = queue]
        BY <1>1 DEF Seen
    <2> QED BY <1>1, <2>1 DEF Call
<1>2. CASE ~r.kept
    BY <1>2 DEF Seen
<1> QED BY <1>1, <1>2

\* What a round of triggers leaves of the calls: unless the queue is replaced,
\* the drains go on.
Round(c, todo, flying, deep, queue, keeps, items, passed) ==
    /\ passed \subseteq todo /\ Brought(c, passed, items)
    /\ queued' = queue \o items
    /\ accepted' = IF Active THEN accepted \cup Range(items) ELSE accepted
    /\ \A d \in Tasks \ {c} :
          /\ call'[d].pc = call[d].pc /\ call'[d].at = call[d].at
          /\ call'[d].todo = call[d].todo
    /\ \A d \in Tasks : call'[d].kept => keeps /\ call[d].kept /\ call'[d].pos = call[d].pos
    /\ \A d \in Tasks \ {c} : keeps /\ call[d].kept => call'[d].kept
    /\ \/ /\ call'[c].pc = "done" /\ call'[c].todo = {} /\ ~call'[c].kept
          /\ inFlight' = flying /\ depth' = deep
          /\ UNCHANGED <<ran, again>>
       \/ \E run \in todo \ passed :
             /\ SidecarOf[run] \notin flying \/ PolicyOf[run] = "parallel"
             /\ \A t \in passed : t < run
             /\ inFlight' = flying \cup {SidecarOf[run]} /\ depth' = deep + 1
             /\ ran' = ran \cup {<<c, run>>}
             /\ again' = (again \/ <<c, run>> \in ran)
             /\ call'[c].pc = "running" /\ call'[c].at = run
             /\ call'[c].todo = {t \in todo : t > run}

\* The calls before a round: it may have replaced the queue.
Keeping(keeps, record) ==
    /\ record \in [Tasks -> Call]
    /\ \A d \in Tasks :
          /\ record[d].pc = call[d].pc /\ record[d].at = call[d].at
          /\ record[d].todo = call[d].todo
          /\ record[d].kept => keeps /\ call[d].kept /\ record[d].pos = call[d].pos
          /\ keeps /\ call[d].kept => record[d].kept

LEMMA TriedRound ==
    ASSUME NEW c \in Tasks, NEW todo, NEW flying, NEW deep, NEW queue, NEW keeps,
           NEW record, NEW items, NEW passed, Keeping(keeps, record),
           Tried(c, todo, flying, deep, queue, record, items, passed)
    PROVE  Round(c, todo, flying, deep, queue, keeps, items, passed)
<1>1. /\ passed \subseteq todo /\ Brought(c, passed, items)
      /\ queued' = queue \o items
      /\ accepted' = IF Active THEN accepted \cup Range(items) ELSE accepted
    BY DEF Tried
<1>2. \A d \in Tasks : record[d] \in Call
    BY DEF Keeping
<1>3. ASSUME NEW d \in Tasks \ {c}
      PROVE  /\ call'[d].pc = call[d].pc /\ call'[d].at = call[d].at
             /\ call'[d].todo = call[d].todo
             /\ call'[d].kept => keeps /\ call[d].kept /\ call'[d].pos = call[d].pos
             /\ keeps /\ call[d].kept => call'[d].kept
    <2>1. call'[d] = Seen(queued', record[d])
        BY DEF Tried
    <2>2. /\ call'[d].pc = record[d].pc /\ call'[d].at = record[d].at
          /\ call'[d].todo = record[d].todo /\ call'[d].pos = record[d].pos
          /\ call'[d].kept = record[d].kept
        BY <1>2, <2>1, SeenFacts
    <2> QED BY <2>2 DEF Keeping
<1>4. CASE call'[c] = Done /\ inFlight' = flying /\ depth' = deep
           /\ UNCHANGED <<ran, again>>
    <2>1. NewCall \in Call /\ ~NewCall.kept /\ NewCall.todo = {}
        BY DEF NewCall, Call, NoTrigger
    <2>2. call'[c].pc = "done" /\ ~call'[c].kept /\ call'[c].todo = {}
        BY <1>4, <2>1 DEF Done, Call
    <2> QED BY <1>1, <1>3, <1>4, <2>2 DEF Round
<1>5. ASSUME NEW run \in todo \ passed,
             SidecarOf[run] \notin flying \/ PolicyOf[run] = "parallel",
             \A t \in passed : t < run,
             inFlight' = flying \cup {SidecarOf[run]}, depth' = deep + 1,
             ran' = ran \cup {<<c, run>>}, again' = (again \/ <<c, run>> \in ran),
             call'[c] = [Seen(queued', record[c]) EXCEPT
                           !.pc = "running", !.at = run, !.todo = {t \in todo : t > run}]
      PROVE  Round(c, todo, flying, deep, queue, keeps, items, passed)
    <2> DEFINE r == Seen(queued', record[c])
               later == {t \in todo : t > run}
    <2>1. r = [f \in DOMAIN record[c] |-> r[f]]
          /\ DOMAIN record[c] = {"pc", "tick", "todo", "at", "list", "pos", "kept"}
          /\ r.kept = record[c].kept /\ r.pos = record[c].pos
        <3>1. record[c] \in Call
            BY <1>2
        <3>2. r.kept = record[c].kept /\ r.pos = record[c].pos
            BY <3>1, SeenFacts
        <3>3. CASE record[c].kept
            BY <3>1, <3>2, <3>3 DEF Call, Seen
        <3>4. CASE ~record[c].kept
            BY <3>1, <3>2, <3>4 DEF Call, Seen
        <3> QED BY <3>2, <3>3, <3>4
    <2>2. call'[c] = [r EXCEPT !.pc = "running", !.at = run, !.todo = later]
        BY <1>5
    <2> HIDE DEF r, later
    <2>3. /\ call'[c].pc = "running" /\ call'[c].at = run /\ call'[c].todo = later
          /\ call'[c].kept = r.kept /\ call'[c].pos = r.pos
        BY <2>1, <2>2
    <2>4. call'[c].kept => keeps /\ call[c].kept /\ call'[c].pos = call[c].pos
        BY <2>1, <2>3 DEF Keeping
    <2> QED BY <1>1, <1>3, <1>5, <2>3, <2>4 DEF Round, later
<1> QED BY <1>4, <1>5 DEF Tried

\* The slots a round leaves are those of the others, and that of its call while
\* it executes a pipeline.
LEMMA RoundCounts ==
    ASSUME NEW c \in Tasks, NEW todo, NEW flying, NEW queue, NEW keeps,
           NEW items, NEW passed, NEW others, others = Holders \ {c}, IsFiniteSet(others),
           Round(c, todo, flying, Cardinality(others), queue, keeps, items, passed),
           Active' <=> Active, c = Main => Active
    PROVE  IsFiniteSet(Holders') /\ depth' = Cardinality(Holders')
<1>1. \/ call'[c].pc = "done" /\ depth' = Cardinality(others)
      \/ call'[c].pc = "running" /\ depth' = Cardinality(others) + 1
    BY DEF Round
<1>2. \A d \in Tasks \ {c} : Slotted(d)' <=> Slotted(d)
    BY DEF Round, Slotted, Executing, Active
<1>3. CASE call'[c].pc = "done" /\ depth' = Cardinality(others)
    <2>1. Holders' = others
        BY <1>2, <1>3 DEF Holders, Slotted, Executing
    <2> QED BY <1>3, <2>1
<1>4. CASE call'[c].pc = "running" /\ depth' = Cardinality(others) + 1
    <2>1. Slotted(c)'
        BY <1>4 DEF Slotted, Executing, Active
    <2>2. Holders' = others \cup {c} /\ c \notin others
        BY <1>2, <2>1 DEF Holders
    <2>3. IsFiniteSet(Holders') /\ Cardinality(Holders') = Cardinality(others) + 1
        BY <2>2, FS_AddElement
    <2> QED BY <1>4, <2>3
<1> QED BY <1>1, <1>3, <1>4

\* The part of TypeInv that the dispatcher writes.
DispatchTypes ==
    /\ job \in JobPhases /\ MainRests
    /\ call \in [Tasks -> Call]
    /\ \A c \in Tasks : Executing(c) => call[c].at \in Triggers
    /\ inFlight \subseteq Sidecars
    /\ depth = Cardinality(Holders) /\ IsFiniteSet(Holders)
    /\ fired \subseteq Once
    /\ queued \in Seq(Item) /\ ListsFit(queued, call)
    /\ accepted \subseteq Item /\ ran \subseteq Item
    /\ again \in BOOLEAN /\ lapped \in BOOLEAN

\* The part that gates and operator write.
GatingTypes ==
    /\ gates \subseteq Sidecars /\ standing \subseteq Sidecars
    /\ paused \in BOOLEAN /\ held \in BOOLEAN /\ raced \in BOOLEAN
    /\ ~Working => ~paused

LEMMA TypeParts == TypeInv <=> DispatchTypes /\ GatingTypes
BY DEF TypeInv, TypeOK, DispatchTypes, GatingTypes, Holders, ListsFit

\* A round keeps the types.
LEMMA RoundTypes ==
    ASSUME TypeInv, NEW c \in Tasks, NEW todo \in SUBSET Triggers,
           NEW flying \in SUBSET Sidecars, NEW deep, deep = Cardinality(Holders \ {c}),
           NEW queue \in Seq(Item), NEW keeps, NEW record, Keeping(keeps, record),
           ListsFit(queue, record), NEW items, NEW passed,
           Tried(c, todo, flying, deep, queue, record, items, passed),
           Active' <=> Active, c = Main => Active, job' \in JobPhases, MainRests',
           lapped' \in BOOLEAN
    PROVE  DispatchTypes'
<1>1. Round(c, todo, flying, deep, queue, keeps, items, passed)
    BY TriedRound
<1>2. IsFiniteSet(Holders \ {c})
    BY FS_Subset DEF TypeInv
<1>3. IsFiniteSet(Holders') /\ depth' = Cardinality(Holders')
    BY <1>1, <1>2, RoundCounts
<1>4. record \in [Tasks -> Call]
    BY DEF Keeping
<1>5. \A d \in Tasks \ {c} : record[d].pc = call[d].pc /\ record[d].at = call[d].at
    BY DEF Keeping
<1>6. /\ call' \in [Tasks -> Call]
      /\ \A d \in Tasks : call'[d].pc \in {"running", "gating"}
                           => call'[d].at \in Triggers
      /\ inFlight' \subseteq Sidecars /\ fired' \subseteq Once
      /\ queued' \in Seq(Item)
      /\ accepted' \subseteq Item /\ ran' \subseteq Item /\ again' \in BOOLEAN
      /\ ListsFit(queued, call)'
    BY <1>4, <1>5, TriedTypes
<1> QED BY <1>3, <1>6 DEF DispatchTypes, Executing

\* What the end of a pipeline of a call with a slot leaves: a round of its
\* triggers over what its drain makes the queue,
Renewed(c) ==
    /\ call[c].pos \in 1 .. Len(call[c].list)
    /\ lapped' = (lapped \/ Others(c) # {} \/ ~call[c].kept)
    /\ \E items, passed :
          Round(c, call[c].todo, inFlight \ {SidecarOf[call[c].at]}, depth - 1,
                RemoveAt(call[c].list, call[c].pos), FALSE, items, passed)

\* a round over the queue, in which nothing of its sidecar waits,
WentOn(c) ==
    /\ call[c].pos = 0
    /\ \A k \in 1 .. Len(queued) : Of(queued[k]) # SidecarOf[call[c].at]
    /\ lapped' = (lapped \/ Others(c) # {})
    /\ \E items, passed :
          Round(c, call[c].todo, inFlight \ {SidecarOf[call[c].at]}, depth - 1,
                queued, FALSE, items, passed)

\* or the first item that waits for the sidecar.
Drained(c, pos) ==
    /\ call[c].pos = 0 /\ FirstOf(c, pos)
    /\ lapped' = (lapped \/ Others(c) # {})
    /\ inFlight' = inFlight \cup {SidecarOf[call[c].at]}
    /\ UNCHANGED <<depth, fired, queued, accepted>>
    /\ ran' = ran \cup {queued[pos]} /\ again' = (again \/ queued[pos] \in ran)
    /\ \A d \in Tasks \ {c} : call'[d] = call[d]
    /\ call'[c].pc = "running" /\ call'[c].at = queued[pos][2]
    /\ call'[c].todo = call[c].todo /\ call'[c].kept /\ call'[c].pos = pos
    /\ call'[c].list = queued

LEMMA EndedKeeping ==
    ASSUME NEW record, Ended(record)
    PROVE  Keeping(FALSE, record)
BY DEF Ended, Keeping

\* The task of the job rests when another call goes on.
LEMMA ElsewhereRests ==
    ASSUME TypeInv, NEW c \in Tasks, Executing(c), UNCHANGED job,
           \A d \in Tasks \ {c} : call'[d].pc = call[d].pc
    PROVE  MainRests'
BY DEF TypeInv, MainRests, Executing, Tasks

LEMMA EndDrainOutcome ==
    ASSUME TypeInv, NEW c \in Tasks, Slotted(c), call[c].pos > 0, EndDrain(c),
           UNCHANGED job
    PROVE  DispatchTypes' /\ Renewed(c)
<1> DEFINE rest == RemoveAt(call[c].list, call[c].pos)
           flying == inFlight \ {SidecarOf[call[c].at]}
<1>1. Executing(c) /\ c \in Holders /\ (c = Main => Active)
    BY DEF Slotted, Holders, Active
<1>2. /\ call[c].pos \in 1 .. Len(call[c].list)
      /\ rest \in Seq(Item) /\ Len(rest) <= Cardinality(Triggers)
      /\ lapped' = (lapped \/ Others(c) # {} \/ ~call[c].kept)
      /\ \E record, items, passed :
            /\ Ended(record) /\ ListsFit(rest, record)
            /\ Tried(c, call[c].todo, flying, depth - 1, rest, record, items, passed)
    BY <1>1, EndDrainFacts
<1> HIDE DEF rest
<1>3. PICK record, items, passed :
            /\ Ended(record) /\ ListsFit(rest, record)
            /\ Tried(c, call[c].todo, flying, depth - 1, rest, record, items, passed)
    BY <1>2
<1>4. Keeping(FALSE, record)
    BY <1>3, EndedKeeping
<1>5. Round(c, call[c].todo, flying, depth - 1, rest, FALSE, items, passed)
    BY <1>3, <1>4, TriedRound
<1>6. depth - 1 = Cardinality(Holders \ {c})
    BY <1>1, FS_RemoveElement DEF TypeInv, TypeOK, Holders
<1>7. call[c].todo \in SUBSET Triggers /\ flying \in SUBSET Sidecars
    BY DEF TypeInv, TypeOK, Call
<1>8. lapped' \in BOOLEAN /\ job' \in JobPhases /\ (Active' <=> Active)
    BY <1>2 DEF TypeInv, TypeOK, Active
<1>9. MainRests'
    <2>1. \A d \in Tasks \ {c} : call'[d].pc = call[d].pc
        BY <1>5 DEF Round
    <2> QED BY <1>1, <2>1, ElsewhereRests
<1> HIDE DEF flying
<1>10. DispatchTypes'
    BY <1>1, <1>2, <1>3, <1>4, <1>6, <1>7, <1>8, <1>9, RoundTypes
<1> QED BY <1>2, <1>5, <1>10 DEF Renewed, rest, flying

LEMMA EndRunOutcome ==
    ASSUME TypeInv, NEW c \in Tasks, Slotted(c), call[c].pos = 0, EndRun(c),
           UNCHANGED job
    PROVE  DispatchTypes' /\ (WentOn(c) \/ \E pos : Drained(c, pos))
<1> DEFINE flying == inFlight \ {SidecarOf[call[c].at]}
<1>1. Executing(c) /\ c \in Holders /\ (c = Main => Active)
    BY DEF Slotted, Holders, Active
<1>2. call[c].todo \in SUBSET Triggers /\ flying \in SUBSET Sidecars
    BY DEF TypeInv, TypeOK, Call
<1>3. /\ queued \in Seq(Item) /\ SidecarOf[call[c].at] \in Sidecars
      /\ call \in [Tasks -> Call]
    BY <1>1, TriggerAssumption DEF TypeInv, TypeOK
<1>4. lapped' = (lapped \/ Others(c) # {})
    BY <1>1, EndRunFacts
<1>5. lapped' \in BOOLEAN /\ job' \in JobPhases /\ (Active' <=> Active)
    BY <1>4 DEF TypeInv, TypeOK, Active
<1> HIDE DEF flying
<1>6. CASE /\ \A k \in 1 .. Len(queued) : Of(queued[k]) # SidecarOf[call[c].at]
           /\ \E record, items, passed :
                 /\ Ended(record) /\ ListsFit(queued, record)
                 /\ Tried(c, call[c].todo, flying, depth - 1, queued, record, items, passed)
    <2>1. PICK record, items, passed :
            /\ Ended(record) /\ ListsFit(queued, record)
            /\ Tried(c, call[c].todo, flying, depth - 1, queued, record, items, passed)
        BY <1>6
    <2>2. Keeping(FALSE, record)
        BY <2>1, EndedKeeping
    <2>3. Round(c, call[c].todo, flying, depth - 1, queued, FALSE, items, passed)
        BY <2>1, <2>2, TriedRound
    <2>4. depth - 1 = Cardinality(Holders \ {c})
        BY <1>1, FS_RemoveElement DEF TypeInv, TypeOK, Holders
    <2>5. MainRests'
        <3>1. \A d \in Tasks \ {c} : call'[d].pc = call[d].pc
            BY <2>3 DEF Round
        <3> QED BY <1>1, <3>1, ElsewhereRests
    <2>6. DispatchTypes'
        BY <1>1, <1>2, <1>3, <1>5, <2>1, <2>2, <2>4, <2>5, RoundTypes
    <2>7. WentOn(c)
        BY <1>4, <1>6, <2>3 DEF WentOn, flying
    <2> QED BY <2>6, <2>7
<1>7. ASSUME NEW pos, FirstOf(c, pos),
             Executed(c, queued[pos],
               [call EXCEPT ![c].kept = TRUE, ![c].list = queued, ![c].pos = pos]),
             inFlight' = inFlight \cup {SidecarOf[call[c].at]},
             UNCHANGED <<depth, fired, queued, accepted>>
      PROVE  DispatchTypes' /\ Drained(c, pos)
    <2>1. pos \in 1 .. Len(queued)
        BY <1>7 DEF FirstOf
    <2>2. /\ call' \in [Tasks -> Call]
          /\ call'[c].pc = "running" /\ call'[c].at = queued[pos][2]
          /\ call'[c].todo = call[c].todo /\ call'[c].kept
          /\ call'[c].list = queued /\ call'[c].pos = pos
          /\ \A d \in Tasks \ {c} : call'[d] = call[d]
          /\ ran' = ran \cup {queued[pos]} /\ again' = (again \/ queued[pos] \in ran)
          /\ queued[pos] \in Item /\ queued[pos][2] \in Triggers
          /\ ListsFit(queued, call)'
        BY <1>7, <2>1, DrainedFacts
    <2>3. \A d \in Tasks : Slotted(d)' <=> Slotted(d)
        BY <1>1, <2>2 DEF Slotted, Executing
    <2>4. Holders' = Holders
        BY <2>3 DEF Holders
    <2>5. \A d \in Tasks : Executing(d)' => call'[d].at \in Triggers
        BY <2>2 DEF TypeInv, TypeOK, Executing
    <2>6. MainRests'
        BY <1>1, <2>2, ElsewhereRests
    <2>7. ran' \subseteq Item /\ again' \in BOOLEAN
        BY <2>2 DEF TypeInv, TypeOK
    <2>8. /\ inFlight' \subseteq Sidecars /\ fired' \subseteq Once /\ accepted' \subseteq Item
          /\ queued' \in Seq(Item) /\ depth' = Cardinality(Holders') /\ IsFiniteSet(Holders')
        BY <1>3, <1>7, <2>4 DEF TypeInv, TypeOK, Holders
    <2>9. DispatchTypes'
        BY <1>5, <2>2, <2>5, <2>6, <2>7, <2>8 DEF DispatchTypes
    <2>10. Drained(c, pos)
        BY <1>4, <1>7, <2>2 DEF Drained
    <2> QED BY <2>9, <2>10
<1> QED BY <1>1, <1>6, <1>7, EndRunFacts DEF flying

\* What the task of the job leaves that goes over the queue at the end.
Flushing(pos, list, kept) ==
    /\ \A d \in Tasks \ {Main} : call'[d] = call[d]
    /\ UNCHANGED <<inFlight, depth, fired, queued, accepted>>
    /\ \/ /\ pos \in 1 .. Len(list) /\ job' = "draining"
          /\ call'[Main].pc = "running" /\ call'[Main].kept = kept
          /\ call'[Main].pos = pos /\ call'[Main].list = list
          /\ ran' = ran \cup {list[pos]}
       \/ /\ pos > Len(list) /\ job' = "closed"
          /\ call'[Main].pc = "done" /\ ~call'[Main].kept
          /\ UNCHANGED <<ran, again>>

LEMMA DeactivatingOutcome ==
    ASSUME TypeInv, ~Slotted(Main), NEW list \in Seq(Item), NEW pos \in Nat \ {0},
           NEW record \in [Tasks -> Call], \A d \in Tasks \ {Main} : record[d] = call[d],
           record[Main].kept => list = queued, Len(list) <= Cardinality(Triggers),
           Deactivating(pos, list, record), UNCHANGED lapped
    PROVE  DispatchTypes' /\ Flushing(pos, list, record[Main].kept)
<1>1. Main \in Tasks
    BY DEF Tasks
<1>2. UNCHANGED <<inFlight, depth, fired, queued, accepted>> /\ job' \in {"draining", "closed"}
    BY DEF Deactivating
<1>3. /\ call' \in [Tasks -> Call] /\ ListsFit(queued, call)'
      /\ \A d \in Tasks \ {Main} : call'[d] = call[d]
      /\ Executing(Main)' => call'[Main].at \in Triggers
      /\ ran' \subseteq Item /\ again' \in BOOLEAN
      /\ Flushing(pos, list, record[Main].kept)
    <2>1. CASE pos <= Len(list)
        <3>1. /\ pos \in 1 .. Len(list) /\ job' = "draining"
              /\ Executed(Main, list[pos],
                     [record EXCEPT ![Main].list = list, ![Main].pos = pos])
            BY <2>1 DEF Deactivating
        <3>2. /\ call' \in [Tasks -> Call]
              /\ call'[Main].pc = "running" /\ call'[Main].at = list[pos][2]
              /\ call'[Main].kept = record[Main].kept
              /\ call'[Main].list = list /\ call'[Main].pos = pos
              /\ \A d \in Tasks \ {Main} : call'[d] = record[d]
              /\ ran' = ran \cup {list[pos]} /\ again' = (again \/ list[pos] \in ran)
              /\ list[pos] \in Item /\ list[pos][2] \in Triggers
            <4>1. OnItem(Main, list, pos, record)
                BY <1>1, <3>1, DrainStep, Zenon
            <4> QED BY <4>1 DEF OnItem
        <3>3. ListsFit(queued, call)'
            BY <1>2, <2>1, <3>2 DEF ListsFit, TypeInv
        <3>4. ran' \subseteq Item /\ again' \in BOOLEAN
            BY <3>2 DEF TypeInv, TypeOK
        <3> QED BY <1>2, <3>1, <3>2, <3>3, <3>4 DEF Flushing
    <2>2. CASE ~(pos <= Len(list))
        <3>1. /\ job' = "closed" /\ call' = [record EXCEPT ![Main] = Done]
              /\ UNCHANGED <<ran, again>>
            BY <2>2 DEF Deactivating, Done
        <3>2. /\ Done \in Call /\ ~Done.kept /\ Done.list = <<>> /\ Done.pos = 0
              /\ Done.pc = "done"
            <4>1. NewCall \in Call /\ ~NewCall.kept /\ NewCall.list = <<>> /\ NewCall.pos = 0
                BY DEF NewCall, Call, NoTrigger
            <4> QED BY <4>1 DEF Done, Call
        <3>3. /\ call' \in [Tasks -> Call] /\ call'[Main] = Done
              /\ \A d \in Tasks \ {Main} : call'[d] = record[d]
            BY <1>1, <3>1, <3>2
        <3>4. Len(<<>>) = 0 /\ Cardinality(Triggers) \in Nat /\ Len(list) \in Nat
            BY TriggerAssumption, FS_CardinalityType
        <3>5. ListsFit(queued, call)'
            BY <1>2, <3>2, <3>3, <3>4 DEF ListsFit, TypeInv
        <3>6. ran' \subseteq Item /\ again' \in BOOLEAN
            BY <3>1 DEF TypeInv, TypeOK
        <3>7. pos > Len(list)
            BY <2>2, <3>4
        <3> QED BY <1>2, <3>1, <3>2, <3>3, <3>5, <3>6, <3>7 DEF Flushing, Executing
    <2> QED BY <2>1, <2>2
<1>4. \A d \in Tasks : Slotted(d)' <=> Slotted(d)
    BY <1>1, <1>2, <1>3 DEF Slotted, Executing
<1>5. Holders' = Holders
    BY <1>4 DEF Holders
<1>6. MainRests' /\ job' \in JobPhases /\ lapped' \in BOOLEAN
    <2>1. job' = "closed" => call'[Main].pc = "done"
        BY <1>3 DEF Flushing
    <2> QED BY <1>2, <2>1 DEF MainRests, JobPhases, TypeInv, TypeOK
<1>7. \A d \in Tasks : Executing(d)' => call'[d].at \in Triggers
    BY <1>3 DEF TypeInv, TypeOK, Executing
<1>8. /\ inFlight' \subseteq Sidecars /\ fired' \subseteq Once /\ accepted' \subseteq Item
      /\ queued' \in Seq(Item) /\ depth' = Cardinality(Holders') /\ IsFiniteSet(Holders')
    BY <1>2, <1>5 DEF TypeInv, TypeOK, Holders
<1> QED BY <1>3, <1>6, <1>7, <1>8 DEF DispatchTypes

\* A call without a slot enters, and the queue is appended to.
LEMMA EnteredOutcome ==
    ASSUME TypeInv, NEW c \in Tasks, ~Slotted(c), NEW todo \in SUBSET Triggers,
           NEW record, Keeping(TRUE, record), ListsFit(queued, record),
           Try(c, todo, inFlight, depth, queued, record), Active, Active',
           job' \in JobPhases, MainRests' \/ (c # Main /\ UNCHANGED job),
           UNCHANGED lapped
    PROVE  /\ DispatchTypes'
           /\ \E items, passed :
                 Round(c, todo, inFlight, depth, queued, TRUE, items, passed)
<1>1. /\ record \in [Tasks -> Call] /\ queued \in Seq(Item) /\ fired \subseteq Once
      /\ inFlight \in SUBSET Sidecars /\ lapped' \in BOOLEAN
    BY DEF Keeping, TypeInv, TypeOK
<1>2. PICK items, passed :
        Tried(c, todo, inFlight, depth, queued, record, items, passed)
    BY <1>1, TryFacts
<1>3. Round(c, todo, inFlight, depth, queued, TRUE, items, passed)
    BY <1>2, TriedRound
<1>4. depth = Cardinality(Holders \ {c})
    <2>1. Holders \ {c} = Holders
        BY DEF Holders
    <2> QED BY <2>1 DEF TypeInv, TypeOK, Holders
<1>5. MainRests'
    <2>1. \A d \in Tasks \ {c} : call'[d].pc = call[d].pc
        BY <1>3 DEF Round
    <2> QED BY <2>1 DEF MainRests, TypeInv, Tasks
<1>6. DispatchTypes'
    BY <1>1, <1>2, <1>4, <1>5, RoundTypes
<1> QED BY <1>3, <1>6

LEMMA EnterOutcome ==
    ASSUME TypeInv, NEW c \in Tasks, NEW todo \in SUBSET Triggers, NEW tick \in BOOLEAN,
           Enter(c, todo, tick), Active, c = Main => job = "preflight"
    PROVE  /\ DispatchTypes'
           /\ \E items, passed :
                 Round(c, todo, inFlight, depth, queued, TRUE, items, passed)
<1> DEFINE record == [call EXCEPT ![c].tick = tick]
<1>1. /\ call[c].pc = "new" /\ UNCHANGED <<job, lapped>>
      /\ Try(c, todo, inFlight, depth, queued, record)
    BY DEF Enter
<1>2. ~Slotted(c) /\ Active' /\ job' \in JobPhases /\ call \in [Tasks -> Call]
    BY <1>1 DEF Slotted, Executing, Active, TypeInv, TypeOK
<1>3. /\ record = [d \in Tasks |-> record[d]]
      /\ record[c] = [call[c] EXCEPT !.tick = tick]
      /\ \A d \in Tasks \ {c} : record[d] = call[d]
    BY <1>2, Zenon
<1> HIDE DEF record
<1>4. /\ record[c] \in Call
      /\ record[c].pc = call[c].pc /\ record[c].at = call[c].at
      /\ record[c].todo = call[c].todo /\ record[c].kept = call[c].kept
      /\ record[c].list = call[c].list /\ record[c].pos = call[c].pos
    <2>1. call[c] \in Call
        BY <1>2
    <2> QED BY <1>3, <2>1 DEF Call
<1>5. record \in [Tasks -> Call]
    BY <1>2, <1>3, <1>4
<1>6. Keeping(TRUE, record) /\ ListsFit(queued, record)
    BY <1>3, <1>4, <1>5 DEF Keeping, ListsFit, TypeInv
<1>7. MainRests' \/ (c # Main /\ UNCHANGED job)
    BY <1>1 DEF MainRests
<1> QED BY <1>1, <1>2, <1>6, <1>7, EnteredOutcome

LEMMA CleanUpOutcome ==
    ASSUME TypeInv, CleanUp
    PROVE  /\ DispatchTypes'
           /\ \E items, passed :
                 Round(Main, InPhase("postflight"), inFlight, depth, queued, TRUE,
                       items, passed)
<1>1. /\ job \in {"ready", "working"} /\ job' = "postflight" /\ UNCHANGED lapped
      /\ Try(Main, InPhase("postflight"), inFlight, depth, queued, call)
    BY DEF CleanUp
<1>2. Main \in Tasks /\ InPhase("postflight") \in SUBSET Triggers
    BY DEF Tasks, InPhase
<1>3. ~Slotted(Main) /\ Active /\ Active' /\ job' \in JobPhases /\ MainRests'
    BY <1>1 DEF TypeInv, MainRests, Slotted, Executing, Active, JobPhases
<1>4. Keeping(TRUE, call) /\ ListsFit(queued, call)
    BY DEF Keeping, TypeInv, TypeOK
<1>5. MainRests' \/ (Main # Main /\ UNCHANGED job)
    BY <1>3
<1> QED BY <1>1, <1>2, <1>3, <1>4, <1>5, EnteredOutcome

LEMMA DeactivateOutcome ==
    ASSUME TypeInv, Deactivate
    PROVE  DispatchTypes' /\ Flushing(1, queued, TRUE)
<1>1. Main \in Tasks /\ call[Main].pc = "done" /\ UNCHANGED lapped
      /\ Deactivating(1, queued, [call EXCEPT ![Main].kept = TRUE])
    BY DEF Tasks, Deactivate
<1> DEFINE record == [call EXCEPT ![Main].kept = TRUE]
<1>2. /\ record \in [Tasks -> Call] /\ record[Main].kept
      /\ \A d \in Tasks \ {Main} : record[d] = call[d]
    BY <1>1, KeptRecord
<1>3. Deactivating(1, queued, record)
    BY <1>1
<1> HIDE DEF record
<1>4. queued \in Seq(Item) /\ Len(queued) <= Cardinality(Triggers) /\ ~Slotted(Main)
    BY <1>1 DEF TypeInv, TypeOK, Slotted, Executing
<1>5. DispatchTypes' /\ Flushing(1, queued, record[Main].kept)
    <2>1. 1 \in Nat \ {0} /\ (record[Main].kept => queued = queued)
        OBVIOUS
    <2> QED BY <1>1, <1>2, <1>3, <1>4, <2>1, DeactivatingOutcome, Zenon
<1>6. record[Main].kept = TRUE
    <2>1. record[Main] \in Call
        BY <1>1, <1>2
    <2>2. record[Main].kept \in BOOLEAN
        BY <2>1 DEF Call
    <2> QED BY <1>2, <2>2
<1> QED BY <1>5, <1>6

\* The end of a pipeline.
LEMMA FinishOutcome ==
    ASSUME TypeInv, NEW c \in Tasks, Executing(c), Finish(c)
    PROVE  /\ DispatchTypes'
           /\ \/ Slotted(c) /\ UNCHANGED job
                 /\ (Renewed(c) \/ WentOn(c) \/ \E pos : Drained(c, pos))
              \/ /\ c = Main /\ ~Active /\ UNCHANGED lapped
                 /\ Flushing(call[Main].pos + 1, call[Main].list, call[Main].kept)
<1>1. call \in [Tasks -> Call] /\ call[c].pos \in Nat /\ call[c].list \in Seq(Item)
    BY DEF TypeInv, TypeOK, Call
<1>2. CASE c = Main /\ ~Active
    <2>1. /\ Deactivating(call[Main].pos + 1, call[Main].list, call)
          /\ UNCHANGED lapped /\ ~Slotted(Main)
        BY <1>2 DEF Finish, Slotted, Active
    <2>2. call[Main].kept => call[Main].list = queued
        BY <1>2 DEF TypeInv, ListsFit
    <2>3. Len(call[Main].list) <= Cardinality(Triggers)
        BY <1>2 DEF TypeInv, ListsFit
    <2>4. /\ DispatchTypes'
          /\ Flushing(call[Main].pos + 1, call[Main].list, call[Main].kept)
        BY <1>1, <1>2, <2>1, <2>2, <2>3, DeactivatingOutcome
    <2> QED BY <1>2, <2>1, <2>4
<1>3. CASE ~(c = Main /\ ~Active)
    <2>1. Slotted(c) /\ UNCHANGED job /\ (IF call[c].pos > 0 THEN EndDrain(c) ELSE EndRun(c))
        BY <1>3 DEF Finish, Slotted, Active
    <2>2. CASE call[c].pos > 0
        BY <2>1, <2>2, EndDrainOutcome
    <2>3. CASE ~(call[c].pos > 0)
        <3>1. call[c].pos = 0
            BY <1>1, <2>3
        <3> QED BY <2>1, <3>1, EndRunOutcome
    <2> QED BY <2>2, <2>3
<1> QED BY <1>2, <1>3

\* A rejection writes the gate and waits for the row: no slot changes hands.
LEMMA RejectFacts ==
    ASSUME TypeInv, NEW c \in Tasks, Reject(c)
    PROVE  /\ UNCHANGED <<job, inFlight, depth, fired, queued, accepted, ran, again, lapped>>
           /\ call' \in [Tasks -> Call]
           /\ call[c].pc = "running" /\ call'[c].pc = "gating"
           /\ \A d \in Tasks \ {c} : call'[d].pc = call[d].pc
           /\ \A d \in Tasks :
                 /\ Executing(d)' <=> Executing(d)
                 /\ call'[d].at = call[d].at /\ call'[d].todo = call[d].todo
                 /\ call'[d].kept = call[d].kept /\ call'[d].pos = call[d].pos
                 /\ call'[d].list = call[d].list
<1>1. call \in [Tasks -> Call] /\ call[c] \in Call /\ call[c].pc = "running"
    BY DEF TypeInv, TypeOK, Reject
<1>2. /\ call' = [d \in Tasks |-> call'[d]]
      /\ call'[c] = [call[c] EXCEPT !.pc = "gating"]
      /\ \A d \in Tasks \ {c} : call'[d] = call[d]
    <2>1. call' = [call EXCEPT ![c].pc = "gating"]
        BY DEF Reject
    <2> QED BY <1>1, <2>1, Zenon
<1>3. /\ call'[c] \in Call /\ call'[c].pc = "gating"
      /\ call'[c].at = call[c].at /\ call'[c].todo = call[c].todo
      /\ call'[c].kept = call[c].kept /\ call'[c].pos = call[c].pos
      /\ call'[c].list = call[c].list
    BY <1>1, <1>2 DEF Call
<1>4. call' \in [Tasks -> Call]
    BY <1>1, <1>2, <1>3
<1> QED BY <1>1, <1>2, <1>3, <1>4 DEF Reject, Executing

LEMMA RejectTypes ==
    ASSUME TypeInv, NEW c \in Tasks, Reject(c)
    PROVE  DispatchTypes'
<1>1. /\ UNCHANGED <<job, inFlight, depth, fired, queued, accepted, ran, again, lapped>>
      /\ call' \in [Tasks -> Call] /\ Executing(c)
      /\ \A d \in Tasks \ {c} : call'[d].pc = call[d].pc
      /\ \A d \in Tasks :
            /\ Executing(d)' <=> Executing(d)
            /\ call'[d].at = call[d].at /\ call'[d].todo = call[d].todo
            /\ call'[d].kept = call[d].kept /\ call'[d].pos = call[d].pos
            /\ call'[d].list = call[d].list
    BY RejectFacts DEF Executing
<1>2. Holders' = Holders
    BY <1>1 DEF Holders, Slotted
<1>3. MainRests'
    BY <1>1, ElsewhereRests
<1>4. ListsFit(queued, call)'
    BY <1>1 DEF TypeInv, ListsFit
<1> QED BY <1>1, <1>2, <1>3, <1>4 DEF TypeInv, TypeOK, DispatchTypes, Holders

\* The actions that leave the dispatcher alone.
LEMMA IdleTypes ==
    ASSUME TypeInv, UNCHANGED dispatch, job' \in JobPhases, Active, Active', MainRests'
    PROVE  DispatchTypes'
<1>1. Holders' = Holders
    BY DEF Holders, Slotted, Executing, Active, dispatch
<1> QED BY <1>1 DEF TypeInv, TypeOK, DispatchTypes, Holders, dispatch, ListsFit, Executing

\* A gate is that of a sidecar, and only an agent with a session is paused.
LEMMA GatingStep ==
    ASSUME TypeInv, [Next]_vars
    PROVE  GatingTypes'
<1> USE DEF GatingTypes, gating
<1>1. GatingTypes
    BY DEF TypeInv, TypeOK
<1>2. \A c \in Tasks : Executing(c) => SidecarOf[call[c].at] \in Sidecars
    BY TriggerAssumption DEF TypeInv, TypeOK
<1>3. ASSUME NEW c \in Tasks, Complete(c) PROVE GatingTypes'
    <2>1. UNCHANGED gating /\ (Working' <=> Working)
        BY <1>3, FinishKeepsSession DEF Complete
    <2> QED BY <1>1, <2>1
<1>4. ASSUME NEW c \in Tasks, Pass(c) PROVE GatingTypes'
    <2>1. Working' <=> Working
        BY <1>4, FinishKeepsSession DEF Pass
    <2>2. /\ gates' \subseteq gates /\ standing' \subseteq standing
          /\ paused' = (paused /\ ~(Working /\ gates' = {})) /\ UNCHANGED <<held, raced>>
        BY <1>4 DEF Pass
    <2> QED BY <1>1, <2>1, <2>2
<1>5. ASSUME NEW c \in Tasks, Reject(c) PROVE GatingTypes'
    <2>1. /\ gates' = gates \cup {SidecarOf[call[c].at]} /\ Executing(c)
          /\ UNCHANGED <<job, paused, held, standing, raced>>
        BY <1>5 DEF Reject, Executing
    <2> QED BY <1>1, <1>2, <2>1 DEF Working
<1>6. ASSUME NEW c \in Tasks, Block(c) PROVE GatingTypes'
    <2>1. Working' <=> Working
        BY <1>6, FinishKeepsSession DEF Block
    <2>2. /\ paused' = (paused \/ Working)
          /\ standing' \subseteq standing \cup gates
          /\ raced' \in BOOLEAN /\ UNCHANGED <<gates, held>>
        BY <1>1, <1>6 DEF Block
    <2> QED BY <1>1, <2>1, <2>2
<1>7. CASE \E c \in Tasks : Piping(c)
    BY <1>3, <1>4, <1>5, <1>6, <1>7 DEF Piping
<1>8. CASE \E c \in Calls : Event(c) \/ Fire(c) \/ Tick(c)
    BY <1>1, <1>8, EntriesKeepGates DEF Event, Fire, Tick, Working
<1>9. CASE Pause \/ SendMessage \/ StallInterrupt \/ ApproveGates
    BY <1>1, <1>9 DEF Pause, SendMessage, StallInterrupt, Resumed, ApproveGates, Working
<1>10. CASE RunPreflight
    BY <1>1, <1>10, EntriesKeepGates DEF RunPreflight, Working
<1>11. CASE Ready \/ StartAgent \/ EndTurn
    <2>1. CASE Ready \/ StartAgent
        BY <1>1, <2>1 DEF Ready, StartAgent, Working
    <2>2. CASE EndTurn
        <3>1. /\ job' = "ready" /\ paused' = FALSE /\ held' = FALSE /\ standing' = {}
              /\ gates' = gates /\ raced' = raced
            BY <2>2 DEF EndTurn
        <3> QED BY <1>1, <3>1 DEF Working
    <2> QED BY <1>11, <2>1, <2>2
<1>12. CASE CleanUp
    BY <1>1, <1>12 DEF CleanUp, Working
<1>13. CASE Deactivate
    <2>1. ~Working /\ UNCHANGED gating
        BY <1>13 DEF Deactivate, Working
    <2> QED BY <1>1, <2>1
<1>14. CASE UNCHANGED vars
    BY <1>1, <1>14 DEF vars, Working
<1> QED BY <1>7, <1>8, <1>9, <1>10, <1>11, <1>12, <1>13, <1>14 DEF Next

\* What an entry brings: conditions it matches.
LEMMA EntrySteps ==
    ASSUME TypeInv, NEW c \in Calls, Event(c) \/ Fire(c) \/ Tick(c)
    PROVE  Active /\ \E todo \in SUBSET Triggers, tick \in BOOLEAN : Enter(c, todo, tick)
<1>1. CASE Event(c)
    BY <1>1 DEF Event
<1>2. CASE Fire(c)
    BY <1>2 DEF Fire
<1>3. CASE Tick(c)
    BY <1>3 DEF Tick
<1> QED BY <1>1, <1>2, <1>3

\* One step per action.
LEMMA DispatchStep ==
    ASSUME TypeInv, [Next]_vars
    PROVE  DispatchTypes'
<1>1. ASSUME NEW c \in Calls, Event(c) \/ Fire(c) \/ Tick(c) PROVE DispatchTypes'
    <2>1. c \in Tasks /\ c # Main
        BY CallAssumption DEF Tasks
    <2> QED BY <1>1, <2>1, EntrySteps, EnterOutcome
<1>2. ASSUME NEW c \in Tasks, Complete(c) \/ Pass(c) \/ Block(c) PROVE DispatchTypes'
    <2>1. Executing(c) /\ Finish(c)
        BY <1>2 DEF Complete, Pass, Block, Executing
    <2> QED BY <2>1, FinishOutcome
<1>3. CASE \E c \in Tasks : Piping(c)
    BY <1>2, <1>3, RejectTypes DEF Piping
<1>4. CASE Pause \/ SendMessage \/ StallInterrupt \/ ApproveGates \/ UNCHANGED vars
    <2>1. UNCHANGED <<job, dispatch>>
        BY <1>4 DEF Pause, SendMessage, StallInterrupt, Resumed, ApproveGates, vars
    <2>2. Holders' = Holders
        BY <2>1 DEF Holders, Slotted, Executing, dispatch
    <2> QED
        BY <2>1, <2>2 DEF TypeInv, TypeOK, DispatchTypes, Holders, dispatch, ListsFit,
                          Executing, MainRests
<1>5. CASE RunPreflight
    <2>1. Main \in Tasks /\ InPhase("preflight") \in SUBSET Triggers /\ Active
          /\ job = "preflight" /\ Enter(Main, InPhase("preflight"), FALSE)
        BY <1>5 DEF RunPreflight, Tasks, InPhase, Active
    <2> QED BY <2>1, EnterOutcome
<1>6. CASE Ready \/ StartAgent \/ EndTurn
    <2>1. UNCHANGED dispatch /\ job' \in JobPhases /\ Active /\ Active' /\ MainRests'
        BY <1>6 DEF Ready, StartAgent, EndTurn, JobPhases, Active, MainRests, TypeInv, dispatch
    <2> QED BY <2>1, IdleTypes
<1>7. CASE CleanUp
    BY <1>7, CleanUpOutcome
<1>8. CASE Deactivate
    BY <1>8, DeactivateOutcome
<1> QED BY <1>1, <1>3, <1>4, <1>5, <1>6, <1>7, <1>8 DEF Next

LEMMA TypeStep ==
    ASSUME TypeInv, [Next]_vars
    PROVE  TypeInv'
<1>1. (DispatchTypes /\ GatingTypes)'
    BY DispatchStep, GatingStep
<1> QED BY <1>1, TypeParts, PTL

LEMMA TypeInit == Init => TypeInv
<1> SUFFICES ASSUME Init PROVE TypeInv
    OBVIOUS
<1>1. NewCall \in Call /\ NewCall.pc = "new" /\ ~NewCall.kept /\ NewCall.list = <<>>
      /\ NewCall.pos = 0
    BY DEF NewCall, Call, NoTrigger
<1>2. call \in [Tasks -> Call] /\ \A c \in Tasks : call[c] = NewCall
    BY <1>1 DEF Init
<1>3. Holders = {}
    BY <1>1, <1>2 DEF Holders, Slotted, Executing
<1>4. IsFiniteSet(Holders) /\ Cardinality(Holders) = 0
    BY <1>3, FS_EmptySet
<1>5. Cardinality(Triggers) \in Nat /\ Len(<<>>) = 0 /\ <<>> \in Seq(Item)
    BY TriggerAssumption, FS_CardinalityType
<1>6. ListsFit(queued, call)
    BY <1>1, <1>2, <1>5 DEF Init, ListsFit
<1>7. DispatchTypes
    BY <1>1, <1>2, <1>4, <1>5, <1>6
       DEF Init, DispatchTypes, JobPhases, MainRests, Executing
<1>8. GatingTypes
    BY DEF Init, GatingTypes, Working
<1> QED BY <1>7, <1>8, TypeParts

\* The dispatcher counts the pipelines it executes, and neither the queue nor
\* the list of a drain outgrows its bound.
THEOREM SidecarTypes == Spec => []TypeOK
<1>1. TypeInv /\ [Next]_vars => TypeInv'
    BY TypeStep
<1>2. TypeInv => TypeOK
    BY DEF TypeInv
<1> QED BY <1>1, <1>2, TypeInit, PTL DEF Spec

-----------------------------------------------------------------------------
(* Slots.                                                                  *)

\* The slots are those of the other calls than c.
SlotsBut(c, flying) ==
    \A s \in Sidecars :
        /\ s \in flying => \E d \in Tasks \ {c} : Executes(d, s)
        /\ NoParallel(s) =>
              \A d \in Tasks \ {c} : Executes(d, s) =>
                  s \in flying /\ \A e \in Tasks \ {c} : Executes(e, s) => e = d

\* A call without a slot has none to give back; a call with one gives it back.
LEMMA SlotsElsewhere ==
    ASSUME TypeInv, Slots, Active, NEW c \in Tasks
    PROVE  /\ ~Executing(c) => SlotsBut(c, inFlight)
           /\ Executing(c) => SlotsBut(c, inFlight \ {SidecarOf[call[c].at]})
<1>1. ASSUME ~Executing(c) PROVE SlotsBut(c, inFlight)
    BY <1>1 DEF Slots, SlotsBut, Executes
<1>2. ASSUME Executing(c) PROVE SlotsBut(c, inFlight \ {SidecarOf[call[c].at]})
    <2> DEFINE own == SidecarOf[call[c].at]
    <2>1. \A s \in Sidecars : Executes(c, s) <=> s = own
        BY <1>2 DEF Executes
    <2>2. own \in Sidecars
        BY <1>2, TriggerAssumption DEF TypeInv, TypeOK
    <2> HIDE DEF own
    <2>3. ASSUME NEW s \in Sidecars, s \in inFlight \ {own}
          PROVE  \E d \in Tasks \ {c} : Executes(d, s)
        BY <2>1, <2>3 DEF Slots
    <2>4. ASSUME NEW s \in Sidecars, NoParallel(s), NEW d \in Tasks \ {c}, Executes(d, s)
          PROVE  s \in inFlight \ {own} /\ \A e \in Tasks \ {c} : Executes(e, s) => e = d
        <3>1. s \in inFlight /\ \A e \in Tasks : Executes(e, s) => e = d
            BY <2>4 DEF Slots
        <3> QED BY <2>1, <2>4, <3>1
    <2>5. SlotsBut(c, inFlight \ {own})
        BY <2>3, <2>4 DEF SlotsBut
    <2> QED BY <2>5 DEF own
<1> QED BY <1>1, <1>2

\* A round takes a slot only when it is free.
LEMMA RoundSlots ==
    ASSUME NEW c \in Tasks, NEW todo \in SUBSET Triggers, NEW flying, SlotsBut(c, flying),
           NEW deep, NEW queue, NEW keeps, NEW items, NEW passed,
           Round(c, todo, flying, deep, queue, keeps, items, passed)
    PROVE  Slots'
<1>1. \A d \in Tasks \ {c} : \A s \in Sidecars : Executes(d, s)' <=> Executes(d, s)
    BY DEF Round, Executes, Executing
<1>2. \A s : NoParallel(s)' <=> NoParallel(s)
    BY DEF NoParallel
<1>3. CASE call'[c].pc = "done" /\ inFlight' = flying
    <2>1. \A s \in Sidecars : ~Executes(c, s)'
        BY <1>3 DEF Executes, Executing
    <2> QED BY <1>1, <1>2, <1>3, <2>1 DEF Slots, SlotsBut
<1>4. ASSUME NEW run \in todo \ passed,
             SidecarOf[run] \notin flying \/ PolicyOf[run] = "parallel",
             inFlight' = flying \cup {SidecarOf[run]},
             call'[c].pc = "running", call'[c].at = run
      PROVE  Slots'
    <2> DEFINE own == SidecarOf[run]
    <2>1. own \in Sidecars /\ inFlight' = flying \cup {own}
        BY <1>4, TriggerAssumption
    <2>2. \A s \in Sidecars : Executes(c, s)' <=> s = own
        BY <1>4 DEF Executes, Executing
    <2>3. NoParallel(own) => own \notin flying
        BY <1>4 DEF NoParallel
    <2> HIDE DEF own
    <2>4. ASSUME NEW s \in Sidecars, s \in inFlight' PROVE \E d \in Tasks : Executes(d, s)'
        BY <1>1, <2>1, <2>2, <2>4 DEF SlotsBut
    <2>5. ASSUME NEW s \in Sidecars, NoParallel(s), NEW d \in Tasks, Executes(d, s)'
          PROVE  s \in inFlight' /\ \A e \in Tasks : Executes(e, s)' => e = d
        <3>1. CASE s = own
            <4>1. \A e \in Tasks \ {c} : ~Executes(e, s)'
                BY <1>1, <2>3, <2>5, <3>1 DEF SlotsBut
            <4> QED BY <2>1, <2>5, <3>1, <4>1
        <3>2. CASE s # own
            <4>1. d # c /\ Executes(d, s) /\ ~Executes(c, s)'
                BY <1>1, <2>2, <2>5, <3>2
            <4>2. s \in flying /\ \A e \in Tasks \ {c} : Executes(e, s) => e = d
                BY <2>5, <4>1 DEF SlotsBut
            <4> QED BY <1>1, <2>1, <4>1, <4>2
        <3> QED BY <3>1, <3>2
    <2> QED BY <1>2, <2>4, <2>5 DEF Slots
<1> QED BY <1>3, <1>4 DEF Round

\* The next item that waits for a sidecar takes over its slot.
LEMMA DrainedSlots ==
    ASSUME TypeInv, Slots, Active, NEW c \in Tasks, Executing(c), NEW pos, Drained(c, pos)
    PROVE  Slots'
<1>1. SidecarOf[call'[c].at] = SidecarOf[call[c].at] /\ Executing(c)'
    BY DEF Drained, FirstOf, Of, Executing
<1>2. \A d \in Tasks : \A s \in Sidecars : Executes(d, s)' <=> Executes(d, s)
    <2>1. \A d \in Tasks \ {c} : call'[d] = call[d]
        BY DEF Drained
    <2> QED BY <1>1, <2>1 DEF Executes, Executing
<1>3. inFlight' = inFlight \cup {SidecarOf[call[c].at]}
    BY DEF Drained
<1>4. \A s : NoParallel(s)' <=> NoParallel(s)
    BY DEF NoParallel
<1>5. \A s \in Sidecars : s \in inFlight' => \E d \in Tasks : Executes(d, s)
    BY <1>3 DEF Slots, Executes
<1> QED BY <1>2, <1>3, <1>4, <1>5 DEF Slots

LEMMA FinishSlots ==
    ASSUME TypeInv, Slots, NEW c \in Tasks, Executing(c), Finish(c)
    PROVE  Slots'
<1> DEFINE flying == inFlight \ {SidecarOf[call[c].at]}
<1>1. CASE Slotted(c) /\ UNCHANGED job /\ Active
    <2>1. call[c].todo \in SUBSET Triggers /\ SlotsBut(c, flying)
        BY <1>1, SlotsElsewhere DEF TypeInv, TypeOK, Call
    <2> HIDE DEF flying
    <2>2. CASE Renewed(c)
        <3>1. PICK items, passed :
                Round(c, call[c].todo, flying, depth - 1,
                      RemoveAt(call[c].list, call[c].pos), FALSE, items, passed)
            BY <2>2 DEF Renewed, flying
        <3> QED BY <2>1, <3>1, RoundSlots
    <2>3. CASE WentOn(c)
        <3>1. PICK items, passed :
                Round(c, call[c].todo, flying, depth - 1, queued, FALSE, items, passed)
            BY <2>3 DEF WentOn, flying
        <3> QED BY <2>1, <3>1, RoundSlots
    <2>4. CASE \E pos : Drained(c, pos)
        BY <1>1, <2>4, DrainedSlots
    <2>5. Renewed(c) \/ WentOn(c) \/ \E pos : Drained(c, pos)
        BY <1>1, FinishOutcome DEF Slotted, Active
    <2> QED BY <2>2, <2>3, <2>4, <2>5
<1>2. CASE ~Active
    <2>1. ~Active'
        <3>1. UNCHANGED job \/ job' \in {"draining", "closed"}
            BY FinishOutcome DEF Flushing
        <3> QED BY <1>2, <3>1 DEF Active
    <2> QED BY <2>1 DEF Slots
<1>3. CASE Active
    BY <1>1, <1>3, FinishOutcome
<1> QED BY <1>2, <1>3

\* One step per action.
LEMMA SlotsStep ==
    ASSUME TypeInv, Slots, [Next]_vars
    PROVE  Slots'
<1>1. ASSUME NEW c \in Tasks, c = Main => job = "preflight", Active,
             NEW todo \in SUBSET Triggers, NEW tick \in BOOLEAN, Enter(c, todo, tick)
      PROVE  Slots'
    <2>1. PICK items, passed : Round(c, todo, inFlight, depth, queued, TRUE, items, passed)
        BY <1>1, EnterOutcome
    <2>2. ~Executing(c)
        BY <1>1 DEF Enter, Executing
    <2>3. SlotsBut(c, inFlight)
        BY <1>1, <2>2, SlotsElsewhere
    <2> QED BY <2>1, <2>3, RoundSlots
<1>2. CASE \E c \in Calls : Event(c) \/ Fire(c) \/ Tick(c)
    <2>1. PICK c \in Calls : Event(c) \/ Fire(c) \/ Tick(c)
        BY <1>2
    <2>2. c \in Tasks /\ c # Main
        BY CallAssumption DEF Tasks
    <2> QED BY <1>1, <2>1, <2>2, EntrySteps
<1>3. ASSUME NEW c \in Tasks, Complete(c) \/ Pass(c) \/ Block(c) PROVE Slots'
    <2>1. Executing(c) /\ Finish(c)
        BY <1>3 DEF Complete, Pass, Block, Executing
    <2> QED BY <2>1, FinishSlots
<1>4. ASSUME NEW c \in Tasks, Reject(c) PROVE Slots'
    <2>1. /\ UNCHANGED <<job, inFlight>>
          /\ \A d \in Tasks : Executing(d)' <=> Executing(d)
          /\ \A d \in Tasks : call'[d].at = call[d].at
        BY <1>4, RejectFacts
    <2> QED BY <2>1 DEF Slots, Active, Executes, NoParallel
<1>5. CASE \E c \in Tasks : Piping(c)
    BY <1>3, <1>4, <1>5 DEF Piping
<1>6. CASE \/ Pause \/ SendMessage \/ StallInterrupt \/ ApproveGates
          \/ Ready \/ StartAgent \/ EndTurn \/ UNCHANGED vars
    <2>1. UNCHANGED <<inFlight, call>> /\ (Active' => Active)
        BY <1>6 DEF Pause, SendMessage, StallInterrupt, Resumed, ApproveGates, Ready, StartAgent,
                    EndTurn, vars, dispatch, Active
    <2> QED BY <2>1 DEF Slots, Executes, Executing, NoParallel
<1>7. CASE RunPreflight
    <2>1. Main \in Tasks /\ InPhase("preflight") \in SUBSET Triggers /\ Active
          /\ job = "preflight" /\ Enter(Main, InPhase("preflight"), FALSE)
        BY <1>7 DEF RunPreflight, Tasks, InPhase, Active
    <2> QED BY <1>1, <2>1
<1>8. CASE CleanUp
    <2>1. PICK items, passed :
            Round(Main, InPhase("postflight"), inFlight, depth, queued, TRUE, items, passed)
        BY <1>8, CleanUpOutcome
    <2>2. Main \in Tasks /\ InPhase("postflight") \in SUBSET Triggers /\ Active
          /\ ~Executing(Main)
        BY <1>8 DEF CleanUp, Tasks, InPhase, Active, TypeInv, MainRests, Executing
    <2>3. SlotsBut(Main, inFlight)
        BY <2>2, SlotsElsewhere
    <2> QED BY <2>1, <2>2, <2>3, RoundSlots
<1>9. CASE Deactivate
    <2>1. ~Active'
        BY <1>9, DeactivateOutcome DEF Flushing, Active
    <2> QED BY <2>1 DEF Slots
<1> QED BY <1>2, <1>5, <1>6, <1>7, <1>8, <1>9 DEF Next

\* _try_execute and its finally: until the job is deactivated, a sidecar without
\* parallel triggers executes one pipeline at a time, and a slot that is taken is
\* that of a pipeline being executed, which will give it back.
THEOREM OneRunAtATime == Spec => []OneAtATime
<1>1. Init => Slots
    BY DEF Init, Slots, Executes, Executing, NewCall
<1>2. Slots => OneAtATime
    <2> SUFFICES ASSUME Slots, Active, NEW s \in Sidecars
                 PROVE  LET running == {c \in Tasks : Executes(c, s)}
                        IN  /\ s \in inFlight => running # {}
                            /\ NoParallel(s) => Cardinality(running) <= 1
        BY DEF OneAtATime, NoParallel
    <2> DEFINE running == {c \in Tasks : Executes(c, s)}
    <2>1. s \in inFlight => running # {}
        BY DEF Slots
    <2>2. ASSUME NoParallel(s) PROVE Cardinality(running) <= 1
        <3>1. CASE running = {}
            BY <3>1, FS_EmptySet
        <3>2. CASE running # {}
            <4>1. PICK d : d \in running
                BY <3>2
            <4>2. running = {d}
                BY <2>2, <4>1 DEF Slots
            <4> QED BY <4>2, FS_Singleton
        <3> QED BY <3>1, <3>2
    <2> QED BY <2>1, <2>2
<1>3. TypeInv /\ Slots /\ [Next]_vars => TypeInv' /\ Slots'
    BY TypeStep, SlotsStep
<1> QED BY <1>1, <1>2, <1>3, TypeInit, PTL DEF Spec

-----------------------------------------------------------------------------
(* The queue.                                                              *)

LEMMA DrainsStep ==
    ASSUME TypeInv, TypeInv', Drains, ran \subseteq ran', NEW c \in Tasks, NEW keeps,
           keeps => ~call[c].kept /\ \E items : items \in Seq(Item) /\ queued' = queued \o items,
           \A d \in Tasks \ {c} : call'[d].pc = call[d].pc,
           \A d \in Tasks : call'[d].kept => keeps /\ call[d].kept /\ call'[d].pos = call[d].pos
    PROVE  Drains'
<1> SUFFICES ASSUME NEW d \in Tasks, call'[d].kept
             PROVE  Executing(d)' /\ call'[d].pos > 0 /\ call'[d].list[call'[d].pos] \in ran'
    BY DEF Drains
<1>1. keeps /\ call[d].kept /\ call'[d].pos = call[d].pos /\ d # c
    OBVIOUS
<1>2. Executing(d)' /\ call[d].pos > 0 /\ call[d].list[call[d].pos] \in ran
    BY <1>1 DEF Drains, Executing
<1>3. /\ call[d].list = queued /\ call[d].pos <= Len(queued) /\ call'[d].list = queued'
      /\ call[d].pos \in Nat /\ queued \in Seq(Item)
    <2>1. call[d] \in Call
        BY DEF TypeInv, TypeOK
    <2>2. ListsFit(queued, call)'
        BY DEF TypeInv
    <2> QED BY <1>1, <2>1, <2>2 DEF TypeInv, TypeOK, ListsFit, Call
<1>4. PICK items : items \in Seq(Item) /\ queued' = queued \o items
    BY <1>1
<1> DEFINE i == call[d].pos
<1>5. i \in 1 .. Len(queued) /\ queued[i] \in ran /\ call'[d].pos = i
    BY <1>1, <1>2, <1>3
<1> HIDE DEF i
<1>6. (queued \o items)[i] = queued[i]
    BY <1>3, <1>4, <1>5
<1> QED BY <1>1, <1>2, <1>3, <1>4, <1>5, <1>6 DEF i

\* A queue that nothing has been executed of, but where a drain is.
FreshIn(queue, keeps) ==
    /\ accepted \subseteq Range(queue) \cup ran /\ ~again
    /\ \A i, k \in DOMAIN queue : queue[i] = queue[k] => i = k
    /\ \A d \in Tasks : \A t \in ToCome(d) : <<d, t>> \notin ran \cup Range(queue)
    /\ \A i \in DOMAIN queue : queue[i] \in ran =>
          keeps /\ \E d \in Tasks : call[d].kept /\ call[d].pos = i
    /\ job = "preflight" => call[Main].todo \subseteq InPhase("preflight")

LEMMA RangeOfConcat ==
    ASSUME NEW S, NEW p \in Seq(S), NEW q \in Seq(S)
    PROVE  /\ Range(p \o q) = Range(p) \cup Range(q)
           /\ \A i \in DOMAIN p : (p \o q)[i] = p[i] /\ i \in DOMAIN (p \o q)
           /\ \A i \in DOMAIN (p \o q) :
                 \/ i \in DOMAIN p
                 \/ i - Len(p) \in DOMAIN q /\ (p \o q)[i] = q[i - Len(p)]
           /\ DOMAIN p \subseteq Nat /\ DOMAIN (p \o q) \subseteq Nat /\ Len(p) \in Nat
<1>1. /\ p \o q \in Seq(S) /\ Len(p \o q) = Len(p) + Len(q)
      /\ \A i \in 1 .. Len(p) + Len(q) :
            (p \o q)[i] = IF i <= Len(p) THEN p[i] ELSE q[i - Len(p)]
    BY ConcatProperties
<1>2. /\ DOMAIN p = 1 .. Len(p) /\ DOMAIN q = 1 .. Len(q)
      /\ DOMAIN (p \o q) = 1 .. Len(p) + Len(q) /\ Len(p) \in Nat /\ Len(q) \in Nat
    BY <1>1
<1> DEFINE w == p \o q
<1> HIDE DEF w
<1>3. \A i \in DOMAIN p : w[i] = p[i] /\ i \in DOMAIN w
    BY <1>1, <1>2 DEF w
<1>4. ASSUME NEW i \in DOMAIN w, i \notin DOMAIN p
      PROVE  i - Len(p) \in DOMAIN q /\ w[i] = q[i - Len(p)]
    <2>1. i \in 1 .. Len(p) + Len(q) /\ ~(i <= Len(p))
        BY <1>2, <1>4 DEF w
    <2>2. i - Len(p) \in 1 .. Len(q)
        BY <1>2, <2>1
    <2> QED BY <1>1, <1>2, <2>1, <2>2 DEF w
<1>5. ASSUME NEW i \in DOMAIN q
      PROVE  Len(p) + i \in DOMAIN w /\ w[Len(p) + i] = q[i]
    <2>1. /\ i \in 1 .. Len(q) /\ Len(p) + i \in 1 .. Len(p) + Len(q)
          /\ ~(Len(p) + i <= Len(p)) /\ (Len(p) + i) - Len(p) = i
        BY <1>2, <1>5
    <2> QED BY <1>1, <1>2, <2>1 DEF w
<1>6. Range(w) = Range(p) \cup Range(q)
    BY <1>3, <1>4, <1>5 DEF Range
<1>7. DOMAIN p \subseteq Nat /\ DOMAIN w \subseteq Nat
    BY <1>2 DEF w
<1> QED BY <1>2, <1>3, <1>4, <1>6, <1>7 DEF w

\* A round over a fresh queue leaves one: the items it brings are its call's, are
\* neither in the queue nor executed, and come before the one it executes.
LEMMA RoundFresh ==
    ASSUME TypeInv, NEW c \in Tasks, NEW todo \in SUBSET Triggers, todo \subseteq ToCome(c),
           NEW flying, NEW deep, NEW queue \in Seq(Item), NEW keeps, FreshIn(queue, keeps),
           NEW items, NEW passed,
           Round(c, todo, flying, deep, queue, keeps, items, passed),
           keeps => ~call[c].kept, Active,
           job' \in {"preflight", "ready", "working"} => job' = job,
           c = Main /\ job' \in {"preflight", "ready", "working"} =>
               todo \subseteq InPhase("preflight")
    PROVE  accepted' \subseteq Range(queued') \cup ran' /\ Fresh'
<1>1. /\ passed \subseteq todo /\ Brought(c, passed, items) /\ queued' = queue \o items
      /\ accepted' = accepted \cup Range(items)
    BY DEF Round
<1>2. /\ items \in Seq(Item)
      /\ \A i \in DOMAIN items : \E t \in passed : items[i] = <<c, t>>
      /\ \A i, k \in DOMAIN items : items[i] = items[k] => i = k
    BY <1>1 DEF Brought
<1>3. /\ Range(queued') = Range(queue) \cup Range(items)
      /\ \A i \in DOMAIN queue : queued'[i] = queue[i] /\ i \in DOMAIN queued'
      /\ \A i \in DOMAIN queued' :
            \/ i \in DOMAIN queue
            \/ i - Len(queue) \in DOMAIN items /\ queued'[i] = items[i - Len(queue)]
      /\ DOMAIN queue \subseteq Nat /\ DOMAIN queued' \subseteq Nat /\ Len(queue) \in Nat
    BY <1>1, <1>2, RangeOfConcat
<1>4. \A i \in DOMAIN queue : queue[i] \in Range(queue)
    BY DEF Range
<1>5. \A x \in Range(items) : \E t \in passed : x = <<c, t>>
    BY <1>2 DEF Range
<1>6. \A t \in todo : <<c, t>> \notin ran /\ <<c, t>> \notin Range(queue)
    BY DEF FreshIn
<1>7. \A i \in DOMAIN queued' : i \notin DOMAIN queue =>
          \E t \in passed : queued'[i] = <<c, t>>
    BY <1>2, <1>3
<1>8. /\ \A d \in Tasks \ {c} : call'[d].pc = call[d].pc /\ call'[d].todo = call[d].todo
      /\ \A d \in Tasks : keeps /\ call[d].kept => call'[d].kept /\ call'[d].pos = call[d].pos
      /\ call'[c].pc # "new"
      /\ \/ UNCHANGED <<ran, again>> /\ call'[c].todo = {}
         \/ \E run \in todo \ passed :
               /\ \A t \in passed : t < run
               /\ ran' = ran \cup {<<c, run>>} /\ again' = (again \/ <<c, run>> \in ran)
               /\ call'[c].todo = {t \in todo : t > run}
    BY DEF Round
<1>9. /\ ~again' /\ ran \subseteq ran'
      /\ \A x \in ran' \ ran : \E run \in todo \ passed : x = <<c, run>>
      /\ call'[c].todo \subseteq todo
      /\ \A t \in call'[c].todo : t \notin passed /\ <<c, t>> \notin ran'
    <2>1. CASE UNCHANGED <<ran, again>> /\ call'[c].todo = {}
        BY <2>1 DEF FreshIn
    <2>2. ASSUME NEW run \in todo \ passed, \A t \in passed : t < run,
                 ran' = ran \cup {<<c, run>>}, again' = (again \/ <<c, run>> \in ran),
                 call'[c].todo = {t \in todo : t > run}
          PROVE  /\ ~again' /\ ran \subseteq ran'
                 /\ \A x \in ran' \ ran : \E u \in todo \ passed : x = <<c, u>>
                 /\ call'[c].todo \subseteq todo
                 /\ \A t \in call'[c].todo : t \notin passed /\ <<c, t>> \notin ran'
        <3>1. ~again' /\ ran \subseteq ran' /\ call'[c].todo \subseteq todo
              /\ \A x \in ran' \ ran : \E u \in todo \ passed : x = <<c, u>>
            BY <1>6, <2>2 DEF FreshIn
        <3>2. ASSUME NEW t \in call'[c].todo PROVE t \notin passed /\ <<c, t>> \notin ran'
            <4>1. t \in todo /\ t > run /\ t \in Nat /\ run \in Nat
                BY <2>2, TriggerAssumption
            <4>2. t # run /\ ~(t < run)
                BY <4>1
            <4>3. <<c, t>> # <<c, run>>
                BY <4>2
            <4> QED BY <1>6, <2>2, <4>1, <4>2, <4>3
        <3> QED BY <3>1, <3>2
    <2> QED BY <1>8, <2>1, <2>2
<1>10. accepted' \subseteq Range(queued') \cup ran'
    BY <1>1, <1>3, <1>9 DEF FreshIn
<1>11. ASSUME NEW i \in DOMAIN queued', NEW k \in DOMAIN queued', queued'[i] = queued'[k]
       PROVE  i = k
    <2>1. CASE i \in DOMAIN queue /\ k \in DOMAIN queue
        BY <1>3, <1>11, <2>1 DEF FreshIn
    <2>2. CASE i \notin DOMAIN queue /\ k \notin DOMAIN queue
        <3>1. i - Len(queue) = k - Len(queue)
            BY <1>2, <1>3, <1>11, <2>2
        <3> QED BY <1>3, <3>1
    <2>3. CASE i \in DOMAIN queue /\ k \notin DOMAIN queue
        BY <1>1, <1>3, <1>4, <1>6, <1>7, <1>11, <2>3
    <2>4. CASE i \notin DOMAIN queue /\ k \in DOMAIN queue
        BY <1>1, <1>3, <1>4, <1>6, <1>7, <1>11, <2>4
    <2> QED BY <2>1, <2>2, <2>3, <2>4
<1>12. ASSUME NEW d \in Tasks, NEW t \in ToCome(d)'
       PROVE  <<d, t>> \notin ran' \cup Range(queued')
    <2>1. t \in Triggers
        BY DEF ToCome
    <2>2. CASE d # c
        <3>1. t \in ToCome(d)
            BY <1>8, <2>2 DEF ToCome, InPhase
        <3>2. <<d, t>> \notin ran \cup Range(queue)
            BY <3>1 DEF FreshIn
        <3>3. \A u : <<d, t>> # <<c, u>>
            BY <2>2
        <3> QED BY <1>3, <1>5, <1>9, <3>2, <3>3
    <2>3. CASE d = c
        <3>1. CASE t \in call'[c].todo
            <4>1. t \in todo /\ t \notin passed /\ <<c, t>> \notin ran'
                BY <1>9, <3>1
            <4>2. <<c, t>> \notin Range(items)
                BY <1>5, <4>1
            <4> QED BY <1>3, <1>6, <2>3, <4>1, <4>2
        <3>2. CASE t \notin call'[c].todo
            <4>1. c = Main /\ job' \in {"preflight", "ready", "working"}
                  /\ t \in InPhase("postflight")
                BY <1>8, <2>3, <3>2 DEF ToCome, InPhase
            <4>2. todo \subseteq InPhase("preflight") /\ t \in ToCome(c)
                BY <2>1, <4>1 DEF ToCome
            <4>3. t \notin todo
                BY <4>1, <4>2 DEF InPhase
            <4>4. <<c, t>> \notin ran \cup Range(queue)
                BY <4>2 DEF FreshIn
            <4>5. \A u \in todo : <<c, t>> # <<c, u>>
                BY <4>3
            <4> QED BY <1>1, <1>3, <1>5, <1>9, <2>3, <4>4, <4>5
        <3> QED BY <3>1, <3>2
    <2> QED BY <2>2, <2>3
<1>13. ASSUME NEW i \in DOMAIN queued', queued'[i] \in ran'
       PROVE  \E d \in Tasks : call'[d].kept /\ call'[d].pos = i
    <2>1. CASE i \in DOMAIN queue
        <3>1. queued'[i] = queue[i] /\ queue[i] \in Range(queue)
            BY <1>3, <1>4, <2>1
        <3>2. queue[i] \in ran
            BY <1>6, <1>9, <1>13, <3>1
        <3> QED BY <1>8, <2>1, <3>2 DEF FreshIn
    <2>2. CASE i \notin DOMAIN queue
        <3>1. PICK t \in passed : queued'[i] = <<c, t>>
            BY <1>7, <2>2
        <3>2. <<c, t>> \notin ran
            BY <1>1, <1>6, <3>1
        <3>3. \A run \in todo \ passed : <<c, t>> # <<c, run>>
            BY <3>1
        <3> QED BY <1>9, <1>13, <3>1, <3>2, <3>3
    <2> QED BY <2>1, <2>2
<1>14. job' = "preflight" => call'[Main].todo \subseteq InPhase("preflight")
    <2>1. Main \in Tasks
        BY DEF Tasks
    <2>2. CASE c = Main
        BY <1>9, <2>2
    <2>3. CASE c # Main
        BY <1>8, <2>1, <2>3 DEF FreshIn
    <2> QED BY <2>2, <2>3
<1>15. Fresh'
    <2>1. (job = "preflight" => call[Main].todo \subseteq InPhase("preflight"))'
        BY <1>14 DEF InPhase
    <2> QED BY <1>9, <1>11, <1>12, <1>13, <2>1 DEF Fresh
<1> QED BY <1>10, <1>15

\* The queue as an entry finds it,
LEMMA QueueIsFresh ==
    ASSUME TypeInv, QueueInv, ~lapped, Active
    PROVE  FreshIn(queued, TRUE)
BY DEF QueueInv, Fresh, FreshIn

\* when no drain goes over it,
LEMMA RestedIsFresh ==
    ASSUME TypeInv, QueueInv, ~lapped, Active, \A d \in Tasks : ~call[d].kept
    PROVE  FreshIn(queued, FALSE) /\ \A i \in DOMAIN queued : queued[i] \notin ran
BY DEF QueueInv, Fresh, FreshIn

\* and as the only drain leaves it.
LEMMA RemovedIsFresh ==
    ASSUME TypeInv, QueueInv, ~lapped, Active, NEW c \in Tasks, call[c].kept, Others(c) = {},
           call[c].pos \in 1 .. Len(call[c].list)
    PROVE  FreshIn(RemoveAt(call[c].list, call[c].pos), FALSE)
<1> DEFINE p == call[c].pos
           rest == RemoveAt(queued, p)
           n == Len(queued)
<1>1. call[c].list = queued /\ queued \in Seq(Item) /\ p \in 1 .. n
    BY DEF TypeInv, TypeOK, ListsFit
<1>2. queued[p] \in ran
    BY <1>1 DEF QueueInv, Drains
<1>3. \A d \in Tasks : call[d].kept => d = c
    BY DEF Others
<1>4. n \in Nat /\ DOMAIN queued = 1 .. n
    BY <1>1
<1>5. /\ rest \in Seq(Item) /\ Len(rest) = n - 1
      /\ \A k \in 1 .. n - 1 : rest[k] = IF k < p THEN queued[k] ELSE queued[k + 1]
    BY <1>1, RemoveAtFacts
<1>6. /\ accepted \subseteq Range(queued) \cup ran /\ ~again
      /\ \A i, k \in 1 .. n : queued[i] = queued[k] => i = k
      /\ \A d \in Tasks : \A t \in ToCome(d) : <<d, t>> \notin ran \cup Range(queued)
      /\ \A i \in 1 .. n : queued[i] \in ran =>
            \E d \in Tasks : call[d].kept /\ call[d].pos = i
      /\ job = "preflight" => call[Main].todo \subseteq InPhase("preflight")
    BY <1>4 DEF QueueInv, Fresh
<1>7. DOMAIN rest = 1 .. n - 1
    BY <1>5
<1> HIDE DEF rest, n, p
<1> DEFINE old(k) == IF k < p THEN k ELSE k + 1
<1>8. ASSUME NEW k \in 1 .. n - 1
      PROVE  old(k) \in 1 .. n /\ old(k) # p /\ rest[k] = queued[old(k)]
    <2>1. k \in 1 .. n /\ k + 1 \in 1 .. n /\ p \in Nat
        BY <1>1, <1>4
    <2> QED BY <1>5, <2>1
<1>9. ASSUME NEW i \in 1 .. n - 1, NEW k \in 1 .. n - 1, rest[i] = rest[k]
      PROVE  i = k
    <2>1. old(i) = old(k)
        BY <1>6, <1>8, <1>9
    <2>2. i \in Nat /\ k \in Nat /\ p \in Nat
        BY <1>1, <1>4
    <2> QED BY <2>1, <2>2
<1>10. \A i \in 1 .. n - 1 : rest[i] \notin ran
    <2>1. p = call[c].pos
        BY DEF p
    <2> HIDE DEF old
    <2>2. ASSUME NEW k \in 1 .. n, queued[k] \in ran PROVE k = p
        BY <1>3, <1>6, <2>1, <2>2
    <2> QED BY <1>8, <2>2
<1>11. ASSUME NEW k \in 1 .. n, k # p
       PROVE  \E i \in 1 .. n - 1 : rest[i] = queued[k]
    <2>1. CASE k < p
        <3>1. k \in 1 .. n - 1
            BY <1>1, <1>4, <2>1
        <3> QED BY <1>5, <2>1, <3>1
    <2>2. CASE ~(k < p)
        <3>1. k - 1 \in 1 .. n - 1 /\ ~(k - 1 < p) /\ (k - 1) + 1 = k
            BY <1>1, <1>4, <1>11, <2>2
        <3> QED BY <1>5, <3>1
    <2> QED BY <2>1, <2>2
<1>12. Range(rest) \subseteq Range(queued)
    <2> HIDE DEF old
    <2> QED BY <1>4, <1>7, <1>8 DEF Range
<1>13. Range(queued) \subseteq Range(rest) \cup ran
    BY <1>2, <1>4, <1>7, <1>11 DEF Range
<1>14. FreshIn(rest, FALSE)
    BY <1>6, <1>7, <1>9, <1>10, <1>12, <1>13 DEF FreshIn
<1> QED BY <1>1, <1>14 DEF rest, p

\* A round at the end of a pipeline: no drain goes on.
LEMMA RoundQueue ==
    ASSUME TypeInv, QueueInv, NEW c \in Tasks, Slotted(c), UNCHANGED job,
           NEW flying, NEW deep, NEW queue \in Seq(Item), NEW items, NEW passed,
           Round(c, call[c].todo, flying, deep, queue, FALSE, items, passed),
           ~lapped' => ~lapped /\ Others(c) = {} /\ (Active => FreshIn(queue, FALSE))
    PROVE  QueueInv'
<1>1. \A d \in Tasks : ~call'[d].kept
    BY DEF Round
<1>2. Drains'
    BY <1>1 DEF Drains
<1>3. ran \subseteq ran'
    BY DEF Round
<1>4. Executing(c) /\ (c = Main => Active) /\ (Active' <=> Active)
    BY DEF Slotted, Active
<1> SUFFICES ASSUME ~lapped'
             PROVE  /\ accepted' \subseteq Range(queued') \cup ran'
                    /\ Active' => Fresh'
                    /\ job' = "draining" => Flushed'
                    /\ job' = "closed" => accepted' \subseteq ran'
    BY <1>2 DEF QueueInv
<1>5. CASE Active
    <2>1. call[c].todo \in SUBSET Triggers /\ call[c].todo \subseteq ToCome(c)
        BY DEF TypeInv, TypeOK, Call, ToCome
    <2>2. FreshIn(queue, FALSE) /\ job' = job
        BY <1>5
    <2>3. c = Main /\ job' \in {"preflight", "ready", "working"} =>
            call[c].todo \subseteq InPhase("preflight")
        BY <1>4, <2>2 DEF TypeInv, MainRests, FreshIn, Executing
    <2>4. accepted' \subseteq Range(queued') \cup ran' /\ Fresh'
        BY <1>5, <2>1, <2>2, <2>3, RoundFresh
    <2> QED BY <1>5, <2>4 DEF Active
<1>6. CASE job = "draining"
    <2>1. call[Main].kept /\ Main \in Tasks
        BY <1>6 DEF QueueInv, Flushed, Tasks
    <2>2. Main \in Others(c)
        BY <1>4, <1>6, <2>1 DEF Others, Active
    <2> QED BY <2>2
<1>7. CASE job = "closed"
    <2>1. accepted \subseteq ran /\ ~Active
        BY <1>7 DEF QueueInv, Active
    <2>2. accepted' = accepted
        BY <2>1 DEF Round
    <2> QED BY <1>3, <1>4, <1>7, <2>1, <2>2
<1> QED BY <1>5, <1>6, <1>7 DEF Active

\* The first item that waits for the sidecar: nobody has executed it.
LEMMA DrainedQueue ==
    ASSUME TypeInv, QueueInv, NEW c \in Tasks, Slotted(c), UNCHANGED job,
           NEW pos, Drained(c, pos)
    PROVE  QueueInv'
<1>1. /\ ran' = ran \cup {queued[pos]} /\ again' = (again \/ queued[pos] \in ran)
      /\ \A d \in Tasks \ {c} : call'[d] = call[d]
      /\ call'[c].pc = "running" /\ call'[c].kept /\ call'[c].pos = pos
      /\ call'[c].todo = call[c].todo /\ call'[c].list = queued
      /\ UNCHANGED <<queued, accepted>> /\ call[c].pos = 0
      /\ pos \in 1 .. Len(queued) /\ lapped' = (lapped \/ Others(c) # {})
    BY DEF Drained, FirstOf
<1>2. Drains'
    <2>1. ASSUME NEW d \in Tasks, call'[d].kept
          PROVE  Executing(d)' /\ call'[d].pos > 0 /\ call'[d].list[call'[d].pos] \in ran'
        <3>1. CASE d = c
            BY <1>1, <3>1 DEF Executing
        <3>2. CASE d # c
            BY <1>1, <2>1, <3>2 DEF Executing, QueueInv, Drains
        <3> QED BY <3>1, <3>2
    <2> QED BY <2>1 DEF Drains
<1>3. Executing(c) /\ (c = Main => Active) /\ (Active' <=> Active)
    BY DEF Slotted, Active
<1> SUFFICES ASSUME ~lapped'
             PROVE  /\ accepted' \subseteq Range(queued') \cup ran'
                    /\ Active' => Fresh'
                    /\ job' = "draining" => Flushed'
                    /\ job' = "closed" => accepted' \subseteq ran'
    BY <1>2 DEF QueueInv
<1>4. ~lapped /\ Others(c) = {}
    BY <1>1
<1>5. ~call[c].kept
    BY <1>1 DEF QueueInv, Drains
<1>6. \A d \in Tasks : ~call[d].kept
    BY <1>4, <1>5 DEF Others
<1>7. accepted' \subseteq Range(queued') \cup ran'
    BY <1>1, <1>4 DEF QueueInv
<1>8. ASSUME Active PROVE Fresh'
    <2>1. FreshIn(queued, FALSE) /\ \A i \in DOMAIN queued : queued[i] \notin ran
        BY <1>4, <1>6, <1>8, RestedIsFresh
    <2>2. queued \in Seq(Item) /\ pos \in DOMAIN queued /\ queued[pos] \in Range(queued)
        BY <1>1 DEF TypeInv, TypeOK, Range
    <2>3. ~again'
        BY <1>1, <2>1, <2>2 DEF FreshIn
    <2>4. \A i, k \in DOMAIN queued' : queued'[i] = queued'[k] => i = k
        BY <1>1, <2>1 DEF FreshIn
    <2>5. \A d \in Tasks : call[d].pc = "new" <=> call'[d].pc = "new"
        BY <1>1, <1>3 DEF Executing
    <2>6. \A d \in Tasks : call'[d].todo = call[d].todo
        BY <1>1
    <2>7. \A d \in Tasks : ToCome(d)' = ToCome(d)
        BY <2>5, <2>6 DEF ToCome, InPhase
    <2>8. ASSUME NEW d \in Tasks, NEW t \in ToCome(d)'
          PROVE  <<d, t>> \notin ran' \cup Range(queued')
        <3>1. t \in ToCome(d)
            BY <2>7
        <3>2. <<d, t>> \notin ran \cup Range(queued)
            BY <2>1, <3>1 DEF FreshIn
        <3>3. <<d, t>> # queued[pos] /\ queued' = queued
            BY <1>1, <2>2, <3>2
        <3> QED BY <1>1, <3>2, <3>3
    <2>9. \A i \in DOMAIN queued' : queued'[i] \in ran' =>
            \E d \in Tasks : call'[d].kept /\ call'[d].pos = i
        <3>1. ASSUME NEW i \in DOMAIN queued, queued[i] \in ran' PROVE i = pos
            BY <1>1, <2>1, <2>2, <3>1 DEF FreshIn
        <3> QED BY <1>1, <3>1
    <2>10. (job = "preflight" => call[Main].todo \subseteq InPhase("preflight"))'
        BY <2>1, <2>6 DEF FreshIn, InPhase, Tasks
    <2> QED BY <2>3, <2>4, <2>8, <2>9, <2>10 DEF Fresh
<1>9. job # "draining"
    <2>1. ASSUME job = "draining" PROVE call[Main].kept /\ Main \in Tasks
        BY <1>4, <2>1 DEF QueueInv, Flushed, Tasks
    <2> QED BY <1>6, <2>1
<1>10. job = "closed" => accepted' \subseteq ran'
    BY <1>1, <1>4 DEF QueueInv
<1> QED BY <1>3, <1>7, <1>8, <1>9, <1>10

\* The task of the job goes over the queue from where it is.
LEMMA FlushQueue ==
    ASSUME TypeInv, QueueInv, NEW pos \in Nat \ {0}, NEW kept, ~lapped => kept,
           Flushing(pos, queued, kept), UNCHANGED lapped,
           ~lapped => \A i \in 1 .. pos - 1 : i <= Len(queued) => queued[i] \in ran
    PROVE  QueueInv'
<1>1. /\ \A d \in Tasks \ {Main} : call'[d] = call[d]
      /\ UNCHANGED <<queued, accepted>> /\ job' \in {"draining", "closed"} /\ ran \subseteq ran'
      /\ \/ /\ pos \in 1 .. Len(queued) /\ job' = "draining"
            /\ call'[Main].pc = "running" /\ call'[Main].kept = kept
            /\ call'[Main].pos = pos /\ call'[Main].list = queued
            /\ ran' = ran \cup {queued[pos]}
         \/ /\ pos > Len(queued) /\ job' = "closed"
            /\ call'[Main].pc = "done" /\ ~call'[Main].kept
            /\ UNCHANGED <<ran, again>>
    BY DEF Flushing
<1>2. Drains'
    <2>1. ASSUME NEW d \in Tasks, call'[d].kept
          PROVE  Executing(d)' /\ call'[d].pos > 0 /\ call'[d].list[call'[d].pos] \in ran'
        <3>1. CASE d = Main
            BY <1>1, <2>1, <3>1 DEF Executing
        <3>2. CASE d # Main
            BY <1>1, <2>1, <3>2 DEF Executing, QueueInv, Drains
        <3> QED BY <3>1, <3>2
    <2> QED BY <2>1 DEF Drains
<1> SUFFICES ASSUME ~lapped
             PROVE  /\ accepted' \subseteq Range(queued') \cup ran'
                    /\ job' = "draining" => Flushed'
                    /\ job' = "closed" => accepted' \subseteq ran'
    BY <1>1, <1>2 DEF QueueInv, Active
<1>3. accepted' \subseteq Range(queued') \cup ran'
    BY <1>1 DEF QueueInv
<1>4. queued \in Seq(Item) /\ Len(queued) \in Nat /\ DOMAIN queued = 1 .. Len(queued)
    BY DEF TypeInv, TypeOK
<1>5. CASE job' = "draining"
    <2>1. /\ pos \in 1 .. Len(queued) /\ call'[Main].kept /\ call'[Main].pos = pos
          /\ ran' = ran \cup {queued[pos]}
        BY <1>1, <1>5
    <2>2. ASSUME NEW i \in 1 .. pos PROVE queued[i] \in ran'
        <3>1. CASE i = pos
            BY <2>1, <3>1
        <3>2. CASE i # pos
            <4>1. i \in 1 .. pos - 1 /\ i <= Len(queued)
                BY <1>4, <2>1, <3>2
            <4> QED BY <2>1, <4>1
        <3> QED BY <3>1, <3>2
    <2> QED BY <1>1, <1>3, <1>5, <2>1, <2>2 DEF Flushed
<1>6. CASE job' = "closed"
    <2>1. pos > Len(queued) /\ ran' = ran
        BY <1>1, <1>6
    <2>2. ASSUME NEW i \in 1 .. Len(queued) PROVE queued[i] \in ran
        <3>1. i \in 1 .. pos - 1 /\ i <= Len(queued)
            BY <1>4, <2>1
        <3> QED BY <3>1
    <2>3. Range(queued) \subseteq ran
        BY <1>4, <2>2 DEF Range
    <2> QED BY <1>1, <1>3, <1>6, <2>1, <2>3
<1> QED BY <1>1, <1>5, <1>6

LEMMA FinishQueue ==
    ASSUME TypeInv, QueueInv, NEW c \in Tasks, Executing(c), Finish(c)
    PROVE  QueueInv'
<1>1. CASE Slotted(c) /\ UNCHANGED job
           /\ (Renewed(c) \/ WentOn(c) \/ \E pos : Drained(c, pos))
    <2> DEFINE flying == inFlight \ {SidecarOf[call[c].at]}
    <2>1. CASE Renewed(c)
        <3> DEFINE rest == RemoveAt(call[c].list, call[c].pos)
        <3>1. /\ call[c].pos \in 1 .. Len(call[c].list)
              /\ lapped' = (lapped \/ Others(c) # {} \/ ~call[c].kept)
            BY <2>1 DEF Renewed
        <3>2. PICK items, passed :
                Round(c, call[c].todo, flying, depth - 1, rest, FALSE, items, passed)
            BY <2>1 DEF Renewed
        <3>3. rest \in Seq(Item)
            <4>1. call[c].list \in Seq(Item)
                BY DEF TypeInv, TypeOK, Call
            <4> QED BY <3>1, <4>1, RemoveAtFacts
        <3>4. ~lapped' => ~lapped /\ Others(c) = {} /\ call[c].kept
            BY <3>1
        <3>5. ~lapped' /\ Active => FreshIn(rest, FALSE)
            BY <3>1, <3>4, RemovedIsFresh
        <3>6. ~lapped' => ~lapped /\ Others(c) = {} /\ (Active => FreshIn(rest, FALSE))
            BY <3>4, <3>5
        <3> HIDE DEF rest, flying
        <3> QED BY <1>1, <3>2, <3>3, <3>6, RoundQueue
    <2>2. CASE WentOn(c)
        <3>1. call[c].pos = 0 /\ lapped' = (lapped \/ Others(c) # {})
            BY <2>2 DEF WentOn
        <3>2. PICK items, passed :
                Round(c, call[c].todo, flying, depth - 1, queued, FALSE, items, passed)
            BY <2>2 DEF WentOn
        <3>3. queued \in Seq(Item)
            BY DEF TypeInv, TypeOK
        <3>4. ~call[c].kept
            BY <3>1 DEF QueueInv, Drains
        <3>5. ~lapped' => \A d \in Tasks : ~call[d].kept
            BY <3>1, <3>4 DEF Others
        <3>6. ~lapped' /\ Active => FreshIn(queued, FALSE)
            BY <3>1, <3>5, RestedIsFresh
        <3>7. ~lapped' => ~lapped /\ Others(c) = {} /\ (Active => FreshIn(queued, FALSE))
            BY <3>1, <3>6
        <3> HIDE DEF flying
        <3> QED BY <1>1, <3>2, <3>3, <3>7, RoundQueue
    <2>3. CASE \E pos : Drained(c, pos)
        BY <1>1, <2>3, DrainedQueue
    <2> QED BY <1>1, <2>1, <2>2, <2>3
<1>2. CASE /\ c = Main /\ ~Active /\ UNCHANGED lapped
           /\ Flushing(call[Main].pos + 1, call[Main].list, call[Main].kept)
    <2> DEFINE pos == call[Main].pos + 1
    <2>1. call[Main] \in Call /\ call[Main].pos \in Nat /\ Main \in Tasks
        BY <1>2 DEF TypeInv, TypeOK, Call
    <2>2. job = "draining"
        BY <1>2 DEF Active, TypeInv, MainRests, Executing
    <2>3. CASE ~lapped
        <3>1. call[Main].kept /\ \A i \in 1 .. call[Main].pos : queued[i] \in ran
            BY <2>2, <2>3 DEF QueueInv, Flushed
        <3>2. call[Main].list = queued
            BY <2>1, <3>1 DEF TypeInv, ListsFit
        <3>3. pos \in Nat \ {0} /\ pos - 1 = call[Main].pos
            BY <2>1
        <3>4. Flushing(pos, queued, call[Main].kept)
            BY <1>2, <3>2
        <3>5. \A i \in 1 .. pos - 1 : i <= Len(queued) => queued[i] \in ran
            BY <3>1, <3>3
        <3> HIDE DEF pos
        <3> QED BY <1>2, <3>1, <3>3, <3>4, <3>5, FlushQueue
    <2>4. CASE lapped
        <3>1. /\ \A d \in Tasks \ {Main} : call'[d] = call[d] /\ ran \subseteq ran'
              /\ call'[Main].kept =>
                    /\ call'[Main].pc = "running" /\ pos > 0
                    /\ call'[Main].pos = pos /\ call'[Main].list = call[Main].list
                    /\ call[Main].list[pos] \in ran'
            BY <1>2, <2>1 DEF Flushing
        <3>2. ran \subseteq ran'
            BY <1>2 DEF Flushing
        <3>3. ASSUME NEW d \in Tasks, call'[d].kept
              PROVE  /\ Executing(d)' /\ call'[d].pos > 0
                     /\ call'[d].list[call'[d].pos] \in ran'
            <4>1. CASE d = Main
                BY <3>1, <3>3, <4>1 DEF Executing
            <4>2. CASE d # Main
                BY <3>1, <3>2, <3>3, <4>2 DEF Executing, QueueInv, Drains
            <4> QED BY <4>1, <4>2
        <3>4. Drains' /\ lapped'
            BY <1>2, <2>4, <3>3 DEF Drains
        <3> QED BY <3>4 DEF QueueInv
    <2> QED BY <2>3, <2>4
<1> QED BY <1>1, <1>2, FinishOutcome

\* A call that enters brings what it has not brought before.
LEMMA EnteredQueue ==
    ASSUME TypeInv, TypeInv', QueueInv, NEW c \in Tasks, ~Executing(c), Active, Active',
           UNCHANGED lapped, NEW todo \in SUBSET Triggers, todo \subseteq ToCome(c),
           NEW items, NEW passed,
           Round(c, todo, inFlight, depth, queued, TRUE, items, passed),
           job' \in {"preflight", "ready", "working"} => job' = job,
           c = Main /\ job' \in {"preflight", "ready", "working"} =>
               todo \subseteq InPhase("preflight")
    PROVE  QueueInv'
<1>1. /\ ran \subseteq ran' /\ queued' = queued \o items /\ items \in Seq(Item)
      /\ \A d \in Tasks \ {c} : call'[d].pc = call[d].pc
      /\ \A d \in Tasks : call'[d].kept => call[d].kept /\ call'[d].pos = call[d].pos
    BY DEF Round, Brought
<1>2. ~call[c].kept
    BY DEF QueueInv, Drains
<1>3. Drains'
    BY <1>1, <1>2, DrainsStep DEF QueueInv
<1>4. ASSUME ~lapped PROVE accepted' \subseteq Range(queued') \cup ran' /\ Fresh'
    <2>1. FreshIn(queued, TRUE) /\ queued \in Seq(Item)
        BY <1>4, QueueIsFresh DEF TypeInv, TypeOK
    <2> QED BY <1>2, <2>1, RoundFresh
<1> QED BY <1>3, <1>4 DEF QueueInv, Active

\* One step per action.
LEMMA QueueStep ==
    ASSUME TypeInv, TypeInv', QueueInv, [Next]_vars
    PROVE  QueueInv'
<1>1. ASSUME NEW c \in Tasks, NEW todo \in SUBSET Triggers, NEW tick \in BOOLEAN,
             c = Main => job = "preflight" /\ todo = InPhase("preflight"),
             Active, Enter(c, todo, tick)
      PROVE  QueueInv'
    <2>1. PICK items, passed : Round(c, todo, inFlight, depth, queued, TRUE, items, passed)
        BY <1>1, EnterOutcome
    <2>2. call[c].pc = "new" /\ UNCHANGED <<job, lapped>>
        BY <1>1 DEF Enter
    <2>3. ~Executing(c) /\ Active' /\ todo \subseteq ToCome(c)
        BY <1>1, <2>2 DEF Executing, Active, ToCome
    <2> QED BY <1>1, <2>1, <2>2, <2>3, EnteredQueue
<1>2. CASE \E c \in Calls : Event(c) \/ Fire(c) \/ Tick(c)
    <2>1. PICK c \in Calls : Event(c) \/ Fire(c) \/ Tick(c)
        BY <1>2
    <2>2. c \in Tasks /\ c # Main
        BY CallAssumption DEF Tasks
    <2> QED BY <1>1, <2>1, <2>2, EntrySteps
<1>3. ASSUME NEW c \in Tasks, Complete(c) \/ Pass(c) \/ Block(c) PROVE QueueInv'
    <2>1. Executing(c) /\ Finish(c)
        BY <1>3 DEF Complete, Pass, Block, Executing
    <2> QED BY <2>1, FinishQueue
<1>4. ASSUME NEW c \in Tasks, Reject(c) PROVE QueueInv'
    <2>1. /\ UNCHANGED <<job, queued, accepted, ran, again, lapped>>
          /\ call[c].pc = "running" /\ call'[c].pc = "gating"
          /\ \A d \in Tasks \ {c} : call'[d].pc = call[d].pc
          /\ \A d \in Tasks :
                /\ Executing(d)' <=> Executing(d)
                /\ call'[d].todo = call[d].todo
                /\ call'[d].kept = call[d].kept /\ call'[d].pos = call[d].pos
                /\ call'[d].list = call[d].list
        BY <1>4, RejectFacts
    <2>2. \A d \in Tasks : call'[d].pc = "new" <=> call[d].pc = "new"
        BY <2>1
    <2>3. \A d \in Tasks : ToCome(d)' = ToCome(d)
        BY <2>1, <2>2 DEF ToCome, InPhase
    <2>4. Drains'
        BY <2>1 DEF QueueInv, Drains
    <2>5. ~lapped /\ Active => Fresh'
        BY <2>1, <2>3 DEF QueueInv, Fresh, InPhase, Tasks
    <2>6. ~lapped /\ job = "draining" => Flushed'
        BY <2>1 DEF QueueInv, Flushed, Tasks
    <2> QED BY <2>1, <2>4, <2>5, <2>6 DEF QueueInv, Active
<1>5. CASE \E c \in Tasks : Piping(c)
    BY <1>3, <1>4, <1>5 DEF Piping
<1>6. CASE \/ Pause \/ SendMessage \/ StallInterrupt \/ ApproveGates
          \/ Ready \/ StartAgent \/ EndTurn \/ UNCHANGED vars
    <2>1. /\ UNCHANGED dispatch
          /\ \/ UNCHANGED job
             \/ job \in {"preflight", "ready", "working"} /\ job' \in {"ready", "working"}
        BY <1>6 DEF Pause, SendMessage, StallInterrupt, Resumed, ApproveGates, Ready, StartAgent,
                    EndTurn, vars
    <2>2. UNCHANGED <<call, queued, accepted, ran, again, lapped>>
        BY <2>1 DEF dispatch
    <2>3. \A d \in Tasks : ToCome(d)' \subseteq ToCome(d)
        BY <2>1, <2>2 DEF ToCome, InPhase
    <2>4. Drains'
        BY <2>2 DEF QueueInv, Drains, Executing
    <2>5. ~lapped /\ Active => Fresh'
        BY <2>1, <2>2, <2>3 DEF QueueInv, Fresh, InPhase
    <2>6. ~lapped /\ job = "draining" => Flushed'
        BY <2>2 DEF QueueInv, Flushed
    <2> QED BY <2>1, <2>2, <2>4, <2>5, <2>6 DEF QueueInv, Active
<1>7. CASE RunPreflight
    <2>1. Main \in Tasks /\ InPhase("preflight") \in SUBSET Triggers /\ Active
          /\ job = "preflight" /\ Enter(Main, InPhase("preflight"), FALSE)
        BY <1>7 DEF RunPreflight, Tasks, InPhase, Active
    <2> QED BY <1>1, <2>1
<1>8. CASE CleanUp
    <2>1. PICK items, passed :
            Round(Main, InPhase("postflight"), inFlight, depth, queued, TRUE, items, passed)
        BY <1>8, CleanUpOutcome
    <2>2. /\ job \in {"ready", "working"} /\ job' = "postflight" /\ UNCHANGED lapped
          /\ Main \in Tasks /\ InPhase("postflight") \in SUBSET Triggers
        BY <1>8 DEF CleanUp, Tasks, InPhase
    <2>3. /\ Active /\ Active' /\ ~Executing(Main)
          /\ InPhase("postflight") \subseteq ToCome(Main)
        BY <2>2 DEF Active, TypeInv, MainRests, Executing, ToCome, InPhase
    <2> QED BY <2>1, <2>2, <2>3, EnteredQueue
<1>9. CASE Deactivate
    <2>1. Flushing(1, queued, TRUE) /\ UNCHANGED lapped
        BY <1>9, DeactivateOutcome DEF Deactivate
    <2>2. \A i \in 1 .. 1 - 1 : i <= Len(queued) => queued[i] \in ran
        OBVIOUS
    <2>3. 1 \in Nat \ {0}
        OBVIOUS
    <2> QED BY <2>1, <2>2, <2>3, FlushQueue
<1> QED BY <1>2, <1>5, <1>6, <1>7, <1>8, <1>9 DEF Next

LEMMA QueueInvariance == Spec => []QueueInv
<1>1. Init => QueueInv
    <2> SUFFICES ASSUME Init PROVE QueueInv
        OBVIOUS
    <2>1. \A c \in Tasks : ~call[c].kept /\ call[c].todo = {}
        BY DEF Init, NewCall
    <2>2. Range(queued) = {} /\ queued = <<>> /\ ran = {} /\ accepted = {} /\ ~again
          /\ job = "preflight"
        BY DEF Init, Range
    <2> QED BY <2>1, <2>2 DEF QueueInv, Drains, Fresh, Tasks
<1>2. TypeInv /\ QueueInv /\ [Next]_vars => TypeInv' /\ QueueInv'
    BY TypeStep, QueueStep
<1> QED BY <1>1, <1>2, TypeInit, PTL DEF Spec

\* _drain_queue: until the job is deactivated, and as long as no drain replaces
\* the queue under another one, a trigger that was queued is executed once.
THEOREM QueuedOnce == Spec => []QueuedRunsOnce
<1>1. QueueInv => QueuedRunsOnce
    BY DEF QueueInv, QueuedRunsOnce, Fresh
<1> QED BY <1>1, QueueInvariance, PTL

\* deactivate: what was queued has been executed when the dispatcher forgets the
\* job, as long as no drain replaces the queue under another one.
THEOREM QueueIsFlushed == Spec => []NothingLeftBehind
<1>1. QueueInv => NothingLeftBehind
    BY DEF QueueInv, NothingLeftBehind
<1> QED BY <1>1, QueueInvariance, PTL
=============================================================================
