----------------------------- MODULE PolicyProofs -----------------------------
(***************************************************************************)
(* Proofs about Policy, for every set of calls and reasons and any number  *)
(* of starts: its type invariant, that security-critical calls are held,   *)
(* that every waiter a batcher still knows can be answered, that no call   *)
(* joins an answered batch, and that Policy implements PolicyContract.     *)
(***************************************************************************)
EXTENDS Policy, TLAPS

\* The states of a call that has not come to the batcher.
Early == {"idle", "warned", "gated", "judged"}

\* The router's own bookkeeping: what the monitor judges and what is waived
\* is never critical, and what only leaves a savepoint is advisory.
Routing ==
    /\ trust \cap Critical = {}
    /\ \A a \in Actions :
         /\ act[a] = "judged" => ReasonOf[a] \notin Critical
         /\ act[a] = "judged" => VerdictOf[ReasonOf[a]] = "escalate"
         /\ act[a] = "warned" => VerdictOf[ReasonOf[a]] = "warn"
         /\ act[a] = "gated" => VerdictOf[ReasonOf[a]] \in Gates
         /\ act[a] \in Early => inBatch[a] = NoBatch

\* The batchers' own bookkeeping: the batch a batcher knows was opened in its
\* round and has no answer yet; a call is the name of a batch, or in one,
\* only after it came to the batcher; an open batch is known, and its calls
\* wait.
Batching ==
    /\ \A r \in 0 .. MaxRounds : jobBatch[r] # NoBatch =>
         future[jobBatch[r]] \in {"open", "canceled"} /\ asked[jobBatch[r]] = r
    /\ \A a \in Actions : asked[a] <= round
    /\ \A a \in Actions : future[a] # "none" => act[a] \notin Early
    /\ \A a \in Actions : act[a] = "batched" => inBatch[a] # NoBatch
    /\ \A a \in Actions : inBatch[a] # NoBatch =>
         /\ future[inBatch[a]] # "none"
         /\ future[inBatch[a]] = "open" =>
              act[a] = "batched" /\ jobBatch[asked[a]] = inBatch[a]

IInv ==
    /\ TypeOK
    /\ Routing
    /\ Batching
    /\ CriticalIsHeld
    /\ WaitingCanBeAnswered

\* Nothing is asked, batched or waived at first.
LEMMA InitIInv == Init => IInv
  BY ReasonAssumption, BoundAssumption
  DEF Init, IInv, TypeOK, Routing, Batching, CriticalIsHeld,
      WaitingCanBeAnswered, HasRouter, Early, Decided

-----------------------------------------------------------------------------
(* Type correctness.                                                       *)

\* What joining a batch does.
LEMMA SubmitJoins ==
    ASSUME TypeOK, NEW a \in Actions, Submit(a)
    PROVE  \E b \in Actions :
             /\ b = IF jobBatch[asked[a]] # NoBatch THEN jobBatch[asked[a]] ELSE a
             /\ act' = [act EXCEPT ![a] = "batched"]
             /\ inBatch' = [inBatch EXCEPT ![a] = b]
             /\ jobBatch' = [jobBatch EXCEPT ![asked[a]] = b]
             /\ future' = [future EXCEPT ![b] = IF @ = "none" THEN "open" ELSE @]
             /\ shown' \in [Actions -> SUBSET Actions]
             /\ timer' \subseteq Actions
             /\ late' = IF HasRouter(a) THEN late ELSE late \cup {a}
<1> DEFINE open == jobBatch[asked[a]] # NoBatch
           b == IF open THEN jobBatch[asked[a]] ELSE a
<1>1. b \in Actions
  BY DEF TypeOK
<1>2. /\ act' = [act EXCEPT ![a] = "batched"]
      /\ inBatch' = [inBatch EXCEPT ![a] = b]
      /\ jobBatch' = [jobBatch EXCEPT ![asked[a]] = b]
      /\ future' = [future EXCEPT ![b] = IF @ = "none" THEN "open" ELSE @]
      /\ shown' = IF open THEN shown ELSE [shown EXCEPT ![b] = {a}]
      /\ timer' = IF open THEN timer \cup {b} ELSE timer
      /\ late' = IF HasRouter(a) THEN late ELSE late \cup {a}
  BY DEF Submit
<1>3. shown' \in [Actions -> SUBSET Actions] /\ timer' \subseteq Actions
  BY <1>1, <1>2 DEF TypeOK
<1> QED
  BY <1>1, <1>2, <1>3

LEMMA SubmitType ==
    ASSUME TypeOK, NEW a \in Actions, Submit(a)
    PROVE  /\ act' = [act EXCEPT ![a] = "batched"]
           /\ inBatch' \in [Actions -> Actions \cup {NoBatch}]
           /\ jobBatch' \in [0 .. MaxRounds -> Actions \cup {NoBatch}]
           /\ future' \in [Actions -> Results \cup {"none", "open", "canceled"}]
           /\ shown' \in [Actions -> SUBSET Actions]
           /\ timer' \subseteq Actions
           /\ late' \subseteq Actions
<1>1. PICK b \in Actions :
             /\ act' = [act EXCEPT ![a] = "batched"]
             /\ inBatch' = [inBatch EXCEPT ![a] = b]
             /\ jobBatch' = [jobBatch EXCEPT ![asked[a]] = b]
             /\ future' = [future EXCEPT ![b] = IF @ = "none" THEN "open" ELSE @]
             /\ shown' \in [Actions -> SUBSET Actions]
             /\ timer' \subseteq Actions
             /\ late' = IF HasRouter(a) THEN late ELSE late \cup {a}
  BY SubmitJoins
<1> QED
  BY <1>1 DEF TypeOK

\* Every step keeps the types.
LEMMA TypeStep == TypeOK /\ [Next]_vars => TypeOK'
<1> SUFFICES ASSUME TypeOK, [Next]_vars PROVE TypeOK'
  OBVIOUS
<1>1. ASSUME NEW a \in Actions, Ask(a) PROVE TypeOK'
  BY <1>1 DEF TypeOK, Ask, Enforced, Decided, run, batcher
<1>2. ASSUME NEW a \in Actions, Warned(a) PROVE TypeOK'
  BY <1>2 DEF TypeOK, Warned, Decided, run, batcher
<1>3. ASSUME NEW a \in Actions, Gated(a) PROVE TypeOK'
  <2>1. CASE Submit(a)
    BY <1>3, <2>1, SubmitType DEF TypeOK, Gated, run
  <2>2. CASE act' = [act EXCEPT ![a] = "judged"]
             /\ UNCHANGED <<inBatch, batcher, future, shown, late>>
    BY <1>3, <2>2 DEF TypeOK, Gated, run, batcher
  <2> QED
    BY <1>3, <2>1, <2>2 DEF Gated
<1>4. ASSUME NEW a \in Actions, MonitorSays(a) PROVE TypeOK'
  <2>1. CASE Submit(a)
    BY <1>4, <2>1, SubmitType DEF TypeOK, MonitorSays, run
  <2>2. CASE /\ \E verdict \in {"allowed", "denied"} :
                  act' = [act EXCEPT ![a] = verdict]
             /\ UNCHANGED <<inBatch, batcher, future, shown, late>>
    BY <1>4, <2>2 DEF TypeOK, MonitorSays, Decided, run, batcher
  <2> QED
    BY <1>4, <2>1, <2>2 DEF MonitorSays
<1>5. ASSUME NEW a \in Actions, Hear(a) PROVE TypeOK'
  BY <1>5, ReasonAssumption
  DEF TypeOK, Hear, WaiveReason, Decided, run, batcher
<1>6. ASSUME NEW a \in Actions, CancelCallback(a) PROVE TypeOK'
  BY <1>6 DEF TypeOK, CancelCallback, Decided, run, batcher
<1>7. ASSUME NEW b \in Actions, WindowCloses(b) PROVE TypeOK'
  BY <1>7 DEF TypeOK, WindowCloses, Members, call, run
<1>8. ASSUME NEW b \in Actions, ResolveBatch(b) PROVE TypeOK'
  BY <1>8 DEF TypeOK, ResolveBatch, Settle, Forget, Results, call, run
<1>9. ASSUME TrustJob PROVE TypeOK'
  BY <1>9 DEF TypeOK, TrustJob, Settle, Forget, Results, call, run, batcher
<1>10. ASSUME Begin PROVE TypeOK'
  BY <1>10, BoundAssumption DEF TypeOK, Begin, call, batcher
<1>11. ASSUME End PROVE TypeOK'
  BY <1>11 DEF TypeOK, End, call, batcher
<1>12. ASSUME CleanUp PROVE TypeOK'
  BY <1>12 DEF TypeOK, CleanUp, Forget, call
<1>13. ASSUME UNCHANGED vars PROVE TypeOK'
  BY <1>13 DEF TypeOK, vars
<1> QED
  BY <1>1, <1>2, <1>3, <1>4, <1>5, <1>6, <1>7, <1>8, <1>9, <1>10, <1>11,
     <1>12, <1>13 DEF Next, Callback

\* Every variable keeps its type.
THEOREM TypeCorrect == Spec => []TypeOK
<1>1. Init => TypeOK
  BY InitIInv DEF IInv
<1> QED
  BY <1>1, TypeStep, PTL DEF Spec

-----------------------------------------------------------------------------
(* The bookkeeping of the router and the batcher.                          *)

\* Every part of the invariant holds after a call came to a batcher.
LEMMA SubmitStep ==
    ASSUME IInv, NEW a \in Actions, act[a] \in {"gated", "judged"},
           Submit(a), UNCHANGED <<run, asked, trust>>
    PROVE  Routing' /\ Batching' /\ CriticalIsHeld' /\ WaitingCanBeAnswered'
<1> USE DEF IInv
<1>1. PICK b \in Actions :
             /\ b = IF jobBatch[asked[a]] # NoBatch THEN jobBatch[asked[a]] ELSE a
             /\ act' = [act EXCEPT ![a] = "batched"]
             /\ inBatch' = [inBatch EXCEPT ![a] = b]
             /\ jobBatch' = [jobBatch EXCEPT ![asked[a]] = b]
             /\ future' = [future EXCEPT ![b] = IF @ = "none" THEN "open" ELSE @]
             /\ late' = IF HasRouter(a) THEN late ELSE late \cup {a}
  BY SubmitJoins
<1>2. /\ future[b] \in {"none", "open", "canceled"}
      /\ future'[b] \in {"open", "canceled"}
      /\ asked[b] = asked[a]
      /\ b # NoBatch
      /\ inBatch[a] = NoBatch
  <2>1. future[a] = "none" /\ inBatch[a] = NoBatch
    BY DEF Batching, Routing, Early
  <2>2. asked[a] \in 0 .. MaxRounds
    BY DEF TypeOK
  <2>3. CASE jobBatch[asked[a]] # NoBatch
    BY <1>1, <2>1, <2>2, <2>3, NoBatchAssumption DEF Batching, TypeOK
  <2>4. CASE jobBatch[asked[a]] = NoBatch
    BY <1>1, <2>1, <2>2, <2>4, NoBatchAssumption DEF Batching, TypeOK
  <2> QED
    BY <2>3, <2>4
<1>3. /\ UNCHANGED <<round, job, asked, trust>>
      /\ \A c \in Actions : c # a => act'[c] = act[c] /\ inBatch'[c] = inBatch[c]
      /\ act'[a] = "batched" /\ inBatch'[a] = b
      /\ \A c \in Actions : c # b => future'[c] = future[c]
      /\ future[b] # "none" => future'[b] = future[b]
      /\ \A r \in 0 .. MaxRounds : r # asked[a] => jobBatch'[r] = jobBatch[r]
      /\ jobBatch'[asked[a]] = b /\ asked[a] \in 0 .. MaxRounds
      /\ late' = IF HasRouter(a) THEN late ELSE late \cup {a}
  BY <1>1 DEF TypeOK, run
<1>4. Routing'
  BY <1>3 DEF Routing, Early
<1>5. ASSUME NEW c \in Actions, inBatch'[c] # NoBatch, c # a
      PROVE  /\ inBatch'[c] = inBatch[c] /\ act'[c] = act[c]
             /\ inBatch[c] \in Actions
             /\ future'[inBatch[c]] = future[inBatch[c]]
             /\ future[inBatch[c]] # "none"
  <2>1. inBatch'[c] = inBatch[c] /\ act'[c] = act[c] /\ inBatch[c] \in Actions
    BY <1>3, <1>5 DEF TypeOK
  <2>2. future[inBatch[c]] # "none"
    BY <1>5, <2>1 DEF Batching
  <2> QED
    BY <1>3, <2>1, <2>2
<1>6. Batching'
  <2>1. ASSUME NEW r \in 0 .. MaxRounds, jobBatch'[r] # NoBatch
        PROVE  future'[jobBatch'[r]] \in {"open", "canceled"}
               /\ asked'[jobBatch'[r]] = r
    <3>1. CASE r = asked[a]
      BY <1>2, <1>3, <3>1
    <3>2. CASE r # asked[a]
      <4>1. jobBatch'[r] = jobBatch[r] /\ jobBatch[r] \in Actions
            /\ future[jobBatch[r]] \in {"open", "canceled"} /\ asked[jobBatch[r]] = r
        BY <1>3, <2>1, <3>2 DEF Batching, TypeOK
      <4> QED
        BY <1>2, <1>3, <4>1
    <3> QED
      BY <3>1, <3>2
  <2>2. \A c \in Actions : asked'[c] <= round'
    BY <1>3 DEF Batching
  <2>3. ASSUME NEW c \in Actions, future'[c] # "none"
        PROVE  act'[c] \notin Early
    <3>1. CASE c = a
      BY <1>3, <3>1 DEF Early
    <3>2. CASE c # a
      <4>1. future[c] # "none"
        <5>1. CASE c = b
          BY <1>1, <1>2, <3>2, <5>1 DEF Batching, TypeOK
        <5> QED
          BY <1>3, <2>3, <5>1
      <4> QED
        BY <1>3, <3>2, <4>1 DEF Batching
    <3> QED
      BY <3>1, <3>2
  <2>4. ASSUME NEW c \in Actions, act'[c] = "batched"
        PROVE  inBatch'[c] # NoBatch
    BY <1>2, <1>3, <2>4 DEF Batching
  <2>5. ASSUME NEW c \in Actions, inBatch'[c] # NoBatch
        PROVE  /\ future'[inBatch'[c]] # "none"
               /\ future'[inBatch'[c]] = "open" =>
                    act'[c] = "batched" /\ jobBatch'[asked'[c]] = inBatch'[c]
    <3>1. CASE c = a
      BY <1>2, <1>3, <3>1
    <3>2. CASE c # a
      <4>1. /\ inBatch'[c] = inBatch[c] /\ act'[c] = act[c]
            /\ future'[inBatch[c]] = future[inBatch[c]]
            /\ future[inBatch[c]] # "none"
        BY <1>5, <2>5, <3>2
      <4>2. ASSUME future[inBatch[c]] = "open"
            PROVE  act[c] = "batched" /\ jobBatch'[asked[c]] = inBatch[c]
        <5>1. act[c] = "batched" /\ jobBatch[asked[c]] = inBatch[c]
              /\ inBatch[c] # NoBatch /\ asked[c] \in 0 .. MaxRounds
          BY <2>5, <4>1, <4>2 DEF Batching, TypeOK
        <5>2. CASE asked[c] = asked[a]
          BY <1>1, <1>3, <5>1, <5>2
        <5>3. CASE asked[c] # asked[a]
          BY <1>3, <5>1, <5>3
        <5> QED
          BY <5>1, <5>2, <5>3
      <4> QED
        BY <1>3, <4>1, <4>2
    <3> QED
      BY <3>1, <3>2
  <2> QED
    BY <2>1, <2>2, <2>3, <2>4, <2>5 DEF Batching
<1>7. CriticalIsHeld'
  <2> SUFFICES ASSUME NEW c \in Actions, act'[c] = "allowed",
                      ReasonOf[c] \in Critical
               PROVE  inBatch'[c] # NoBatch
                      /\ future'[inBatch'[c]] \in Yes \cup {ByTrust}
    BY DEF CriticalIsHeld, OperatorSaidYes, FoundByTrust
  <2>1. c # a /\ act[c] = "allowed"
    BY <1>3
  <2>2. inBatch[c] # NoBatch /\ future[inBatch[c]] \in Yes \cup {ByTrust}
    BY <2>1 DEF CriticalIsHeld, OperatorSaidYes, FoundByTrust
  <2> QED
    BY <1>3, <1>5, <2>1, <2>2
<1>8. WaitingCanBeAnswered'
  <2> SUFFICES ASSUME NEW c \in Actions, act'[c] = "batched",
                      future'[inBatch'[c]] = "open"
               PROVE  IF HasRouter(c) THEN jobBatch'[round] = inBatch'[c]
                                      ELSE c \in late'
    BY <1>3 DEF WaitingCanBeAnswered, HasRouter
  <2>1. CASE c = a
    BY <1>3, <2>1 DEF HasRouter
  <2>2. CASE c # a
    <3>1. inBatch'[c] # NoBatch
      BY <1>6, <2>2 DEF Batching
    <3>2. inBatch'[c] = inBatch[c] /\ act[c] = "batched"
          /\ future[inBatch[c]] = "open"
      BY <1>5, <2>2, <3>1
    <3>3. CASE HasRouter(c)
      BY <1>3, <1>6, <2>2, <3>1, <3>3 DEF HasRouter, Batching
    <3>4. CASE ~HasRouter(c)
      BY <1>3, <3>2, <3>4 DEF WaitingCanBeAnswered
    <3> QED
      BY <3>3, <3>4
  <2> QED
    BY <2>1, <2>2
<1> QED
  BY <1>4, <1>6, <1>7, <1>8

\* A batch of the round that is done, answered or let go, leaves nobody
\* waiting.
LEMMA DoneStep ==
    ASSUME IInv, NEW b, b = jobBatch[round], NEW said \in Results \cup {"canceled"},
           future' = IF b # NoBatch /\ future[b] = "open"
                     THEN [future EXCEPT ![b] = said] ELSE future,
           jobBatch' = [jobBatch EXCEPT ![round] = NoBatch],
           UNCHANGED <<call, round>>, job # "off", trust' \cap Critical = {}
    PROVE  Routing' /\ Batching' /\ CriticalIsHeld' /\ WaitingCanBeAnswered'
<1> USE DEF IInv
<1>1. /\ UNCHANGED <<act, asked, inBatch, late, round>>
      /\ round \in 0 .. MaxRounds
      /\ b # NoBatch => /\ b \in Actions /\ asked[b] = round
                        /\ future[b] \in {"open", "canceled"}
                        /\ future'[b] # "open" /\ future'[b] # "none"
      /\ \A c \in Actions : c # b => future'[c] = future[c]
      /\ \A r \in 0 .. MaxRounds : r # round => jobBatch'[r] = jobBatch[r]
      /\ jobBatch'[round] = NoBatch
  BY NoBatchAssumption DEF TypeOK, Batching, call, Results, Resolutions, ByTrust
<1>2. Routing'
  BY <1>1 DEF Routing
<1>3. ASSUME NEW c \in Actions, inBatch[c] # NoBatch
      PROVE  /\ future'[inBatch[c]] # "none"
             /\ future'[inBatch[c]] = "open" =>
                  /\ future[inBatch[c]] = "open" /\ asked[c] # round
                  /\ act[c] = "batched" /\ jobBatch[asked[c]] = inBatch[c]
  <2>1. inBatch[c] \in Actions /\ future[inBatch[c]] # "none"
    BY <1>3 DEF TypeOK, Batching
  <2>2. ASSUME future'[inBatch[c]] = "open"
        PROVE  inBatch[c] # b /\ future[inBatch[c]] = "open"
    BY <1>1, <1>3, <2>1, <2>2
  <2>3. ASSUME future[inBatch[c]] = "open"
        PROVE  act[c] = "batched" /\ jobBatch[asked[c]] = inBatch[c]
    BY <1>3, <2>3 DEF Batching
  <2> QED
    BY <1>1, <1>3, <2>1, <2>2, <2>3
<1>4. Batching'
  <2>1. ASSUME NEW r \in 0 .. MaxRounds, jobBatch'[r] # NoBatch
        PROVE  future'[jobBatch'[r]] \in {"open", "canceled"}
               /\ asked'[jobBatch'[r]] = r
    <3>1. r # round /\ jobBatch'[r] = jobBatch[r] /\ jobBatch[r] \in Actions
          /\ future[jobBatch[r]] \in {"open", "canceled"} /\ asked[jobBatch[r]] = r
      BY <1>1, <2>1 DEF Batching, TypeOK
    <3> QED
      BY <1>1, <3>1
  <2>2. ASSUME NEW c \in Actions, future'[c] # "none" PROVE act'[c] \notin Early
    BY <1>1, <2>2 DEF Batching
  <2>3. \A c \in Actions : asked'[c] <= round'
    BY <1>1 DEF Batching
  <2>4. \A c \in Actions : act'[c] = "batched" => inBatch'[c] # NoBatch
    BY <1>1 DEF Batching
  <2>5. ASSUME NEW c \in Actions, inBatch'[c] # NoBatch
        PROVE  /\ future'[inBatch'[c]] # "none"
               /\ future'[inBatch'[c]] = "open" =>
                    act'[c] = "batched" /\ jobBatch'[asked'[c]] = inBatch'[c]
    BY <1>1, <1>3, <2>5 DEF TypeOK
  <2> QED
    BY <2>1, <2>2, <2>3, <2>4, <2>5 DEF Batching
<1>5. CriticalIsHeld'
  <2> SUFFICES ASSUME NEW c \in Actions, act'[c] = "allowed",
                      ReasonOf[c] \in Critical
               PROVE  inBatch'[c] # NoBatch
                      /\ future'[inBatch'[c]] \in Yes \cup {ByTrust}
    BY DEF CriticalIsHeld, OperatorSaidYes, FoundByTrust
  <2>1. inBatch[c] # NoBatch /\ future[inBatch[c]] \in Yes \cup {ByTrust}
        /\ inBatch[c] \in Actions
    BY <1>1 DEF CriticalIsHeld, OperatorSaidYes, FoundByTrust, TypeOK
  <2> QED
    BY <1>1, <2>1 DEF Yes, ByTrust
<1>6. WaitingCanBeAnswered'
  <2> SUFFICES ASSUME NEW c \in Actions, act'[c] = "batched",
                      future'[inBatch'[c]] = "open"
               PROVE  ~HasRouter(c)' /\ c \in late'
    BY DEF WaitingCanBeAnswered
  <2>1. act[c] = "batched" /\ inBatch[c] # NoBatch /\ inBatch'[c] = inBatch[c]
    BY <1>1 DEF Batching
  <2>2. future[inBatch[c]] = "open" /\ asked[c] # round
    BY <1>3, <2>1
  <2> QED
    BY <1>1, <2>1, <2>2 DEF WaitingCanBeAnswered, HasRouter
<1> QED
  BY <1>2, <1>4, <1>5, <1>6

\* The invariant is kept by every step.
LEMMA InvStep == IInv /\ [Next]_vars => IInv'
<1> SUFFICES ASSUME IInv, [Next]_vars
             PROVE  Routing' /\ Batching' /\ CriticalIsHeld'
                    /\ WaitingCanBeAnswered'
  BY TypeStep DEF IInv
<1> USE DEF IInv
<1> DEFINE Rest == Routing' /\ Batching' /\ CriticalIsHeld'
                   /\ WaitingCanBeAnswered'
<1>1. ASSUME NEW a \in Actions, Ask(a) PROVE Rest
  <2>1. /\ act' = [act EXCEPT ![a] = act'[a]]
        /\ act[a] = "idle"
        /\ act'[a] = Enforced(ReasonOf[a])
        /\ asked' = [asked EXCEPT ![a] = round]
        /\ UNCHANGED <<round, job, inBatch, jobBatch, future, trust, late>>
    BY <1>1 DEF Ask, run, batcher, TypeOK
  <2>2. ReasonOf[a] \in Reasons
        /\ VerdictOf[ReasonOf[a]] \in {"allow", "warn"} \cup Gates
    BY ReasonAssumption
  <2>3. \/ act'[a] = "allowed" /\ ReasonOf[a] \notin Critical
        \/ act'[a] = "warned" /\ VerdictOf[ReasonOf[a]] = "warn"
        \/ act'[a] = "gated" /\ VerdictOf[ReasonOf[a]] \in Gates
    BY <2>1, <2>2, CriticalAssumption DEF Enforced, Gates, Routing
  <2>4. future[a] = "none" \/ future[a] # "none"
    OBVIOUS
  <2>5. Routing'
    BY <2>1, <2>3 DEF Routing, TypeOK, Early
  <2>6. Batching'
    <3>1. future[a] = "none"
      BY <2>1 DEF Batching, Early
    <3> QED
      BY <2>1, <2>3, <3>1 DEF Batching, TypeOK
  <2>7. CriticalIsHeld'
    BY <2>1, <2>3 DEF CriticalIsHeld, OperatorSaidYes, FoundByTrust, TypeOK
  <2>8. WaitingCanBeAnswered'
    BY <2>1, <2>3 DEF WaitingCanBeAnswered, HasRouter, TypeOK
  <2> QED
    BY <2>5, <2>6, <2>7, <2>8
<1>2. ASSUME NEW a \in Actions, Warned(a) PROVE Rest
  <2>1. /\ act[a] = "warned"
        /\ act' = [act EXCEPT ![a] = "allowed"]
        /\ UNCHANGED <<round, job, asked, inBatch, jobBatch, future, trust,
                       late>>
    BY <1>2 DEF Warned, run, batcher
  <2>2. ReasonOf[a] \notin Critical
    BY <2>1, CriticalAssumption DEF Routing, Gates
  <2>3. Routing'
    BY <2>1 DEF Routing, TypeOK, Early
  <2>4. Batching'
    BY <2>1 DEF Batching, TypeOK, Early
  <2>5. CriticalIsHeld'
    BY <2>1, <2>2 DEF CriticalIsHeld, OperatorSaidYes, FoundByTrust, TypeOK
  <2>6. WaitingCanBeAnswered'
    BY <2>1 DEF WaitingCanBeAnswered, HasRouter, TypeOK
  <2> QED
    BY <2>3, <2>4, <2>5, <2>6
<1>3. ASSUME NEW a \in Actions, Gated(a) PROVE Rest
  <2>1. CASE Submit(a)
    BY <1>3, <2>1, SubmitStep DEF Gated
  <2>2. CASE /\ MonitorEligible(a)
             /\ act' = [act EXCEPT ![a] = "judged"]
             /\ UNCHANGED <<inBatch, batcher, future, shown, late>>
    <3>1. /\ act[a] = "gated"
          /\ UNCHANGED <<round, job, asked, inBatch, jobBatch, future, trust, late>>
      BY <1>3, <2>2 DEF Gated, run, batcher
    <3>2. Routing'
      BY <2>2, <3>1 DEF Routing, TypeOK, Early, MonitorEligible
    <3>3. Batching'
      BY <2>2, <3>1 DEF Batching, TypeOK, Early
    <3>4. CriticalIsHeld'
      BY <2>2, <3>1 DEF CriticalIsHeld, OperatorSaidYes, FoundByTrust, TypeOK
    <3>5. WaitingCanBeAnswered'
      BY <2>2, <3>1 DEF WaitingCanBeAnswered, HasRouter, TypeOK
    <3> QED
      BY <3>2, <3>3, <3>4, <3>5
  <2> QED
    BY <1>3, <2>1, <2>2 DEF Gated
<1>4. ASSUME NEW a \in Actions, MonitorSays(a) PROVE Rest
  <2>1. CASE Submit(a)
    BY <1>4, <2>1, SubmitStep DEF MonitorSays
  <2>2. CASE /\ \E verdict \in {"allowed", "denied"} :
                  act' = [act EXCEPT ![a] = verdict]
             /\ UNCHANGED <<inBatch, batcher, future, shown, late>>
    <3>1. /\ act[a] = "judged"
          /\ UNCHANGED <<round, job, asked, inBatch, jobBatch, future, trust,
                         late>>
      BY <1>4, <2>2 DEF MonitorSays, run, batcher
    <3>2. Routing'
      BY <2>2, <3>1 DEF Routing, TypeOK, Early
    <3>3. Batching'
      BY <2>2, <3>1 DEF Batching, TypeOK, Early
    <3>4. CriticalIsHeld'
      BY <2>2, <3>1 DEF CriticalIsHeld, OperatorSaidYes, FoundByTrust, Routing, TypeOK
    <3>5. WaitingCanBeAnswered'
      BY <2>2, <3>1 DEF WaitingCanBeAnswered, HasRouter, TypeOK
    <3> QED
      BY <3>2, <3>3, <3>4, <3>5
  <2> QED
    BY <1>4, <2>1, <2>2 DEF MonitorSays
<1>5. ASSUME NEW a \in Actions, Hear(a) PROVE Rest
  <2>1. /\ act[a] = "batched"
        /\ act' = [act EXCEPT ![a] = act'[a]]
        /\ act'[a] \in Decided
        /\ act'[a] = "allowed" => future[inBatch[a]] \in Yes \cup {ByTrust}
        /\ inBatch[a] # NoBatch
        /\ future[inBatch[a]] # "open"
        /\ UNCHANGED <<round, job, asked, inBatch, jobBatch, future, late>>
        /\ trust' \cap Critical = {}
    BY <1>5 DEF Hear, WaiveReason, Routing, Batching, Decided, TypeOK, run,
                batcher
  <2>2. Routing'
    BY <2>1 DEF Routing, TypeOK, Early, Decided
  <2>3. Batching'
    BY <2>1 DEF Batching, TypeOK, Early, Decided
  <2>4. CriticalIsHeld'
    BY <2>1 DEF CriticalIsHeld, OperatorSaidYes, FoundByTrust, TypeOK
  <2>5. WaitingCanBeAnswered'
    BY <2>1 DEF WaitingCanBeAnswered, HasRouter, TypeOK, Decided
  <2> QED
    BY <2>2, <2>3, <2>4, <2>5
<1>6. ASSUME NEW a \in Actions, CancelCallback(a) PROVE Rest
  <2>1. /\ act[a] \in {"warned", "gated", "judged", "batched"}
        /\ act' = [act EXCEPT ![a] = "canceled"]
        /\ UNCHANGED <<round, job, asked, inBatch, jobBatch, trust, late>>
        /\ future' \in [Actions -> Results \cup {"none", "open", "canceled"}]
        /\ \A b \in Actions :
             future'[b] = future[b] \/ (future[b] = "open" /\ future'[b] = "canceled")
        /\ act[a] = "batched" => future'[inBatch[a]] # "open"
    BY <1>6 DEF CancelCallback, run, batcher, TypeOK, Batching
  <2>2. Routing'
    BY <2>1 DEF Routing, TypeOK, Early
  <2>3. Batching'
    <3>1. \A r \in 0 .. MaxRounds : jobBatch'[r] # NoBatch =>
            /\ future'[jobBatch'[r]] \in {"open", "canceled"}
            /\ asked'[jobBatch'[r]] = r
      <4> TAKE r \in 0 .. MaxRounds
      <4> HAVE jobBatch'[r] # NoBatch
      <4>1. jobBatch[r] \in Actions /\ jobBatch'[r] = jobBatch[r]
        BY <2>1 DEF TypeOK
      <4> QED
        BY <2>1, <4>1 DEF Batching
    <3>2. \A c \in Actions : act'[c] = act[c] \/ c = a
      BY <2>1 DEF TypeOK
    <3>3. act'[a] = "canceled"
      BY <2>1 DEF TypeOK
    <3>4. \A c \in Actions : future'[c] # "none" => act'[c] \notin Early
      BY <2>1, <3>2, <3>3 DEF Batching, Early
    <3>5. \A c \in Actions : act'[c] = "batched" => inBatch'[c] # NoBatch
      BY <2>1, <3>2, <3>3 DEF Batching
    <3>6. ASSUME NEW c \in Actions, inBatch'[c] # NoBatch
          PROVE  /\ future'[inBatch'[c]] # "none"
                 /\ future'[inBatch'[c]] = "open" =>
                      act'[c] = "batched" /\ jobBatch'[asked'[c]] = inBatch'[c]
      <4>1. inBatch[c] \in Actions /\ inBatch'[c] = inBatch[c]
        BY <2>1, <3>6 DEF TypeOK
      <4>2. \/ future'[inBatch[c]] = future[inBatch[c]]
            \/ future'[inBatch[c]] = "canceled"
        BY <2>1, <4>1
      <4>3. c = a => act[a] = "batched"
        BY <2>1, <4>1, NoBatchAssumption DEF Routing, Early
      <4> QED
        BY <2>1, <3>2, <4>1, <4>2, <4>3, NoBatchAssumption DEF Batching
    <3> QED
      BY <2>1, <3>1, <3>4, <3>5, <3>6 DEF Batching
  <2>4. CriticalIsHeld'
    <3> SUFFICES ASSUME NEW c \in Actions, act'[c] = "allowed",
                        ReasonOf[c] \in Critical
                 PROVE  OperatorSaidYes(c)' \/ FoundByTrust(c)'
      BY DEF CriticalIsHeld
    <3>1. act[c] = "allowed"
      BY <2>1 DEF TypeOK
    <3>2. inBatch[c] # NoBatch /\ future[inBatch[c]] \in Yes \cup {ByTrust}
      BY <3>1 DEF CriticalIsHeld, OperatorSaidYes, FoundByTrust
    <3>3. future'[inBatch[c]] = future[inBatch[c]]
      BY <2>1, <3>2 DEF TypeOK, Yes, ByTrust
    <3> QED
      BY <2>1, <3>2, <3>3 DEF OperatorSaidYes, FoundByTrust
  <2>5. WaitingCanBeAnswered'
    BY <2>1 DEF WaitingCanBeAnswered, Batching, HasRouter, TypeOK
  <2> QED
    BY <2>2, <2>3, <2>4, <2>5
<1>7. ASSUME NEW b \in Actions, WindowCloses(b) PROVE Rest
  BY <1>7 DEF WindowCloses, call, run, Routing, Batching, CriticalIsHeld,
              OperatorSaidYes, FoundByTrust, WaitingCanBeAnswered, HasRouter
<1>8. ASSUME NEW b \in Actions, ResolveBatch(b) PROVE Rest
  <2>1. PICK resolution \in Resolutions : Settle(b, resolution)
    BY <1>8 DEF ResolveBatch
  <2>2. /\ b = jobBatch[round] /\ b # NoBatch /\ job # "off"
        /\ jobBatch' = [jobBatch EXCEPT ![round] = NoBatch]
        /\ UNCHANGED <<call, round>>
        /\ trust' \cap Critical = {}
    BY <1>8, NoBatchAssumption DEF ResolveBatch, Forget, Routing, run
  <2>3. resolution \in Results \cup {"canceled"}
    BY DEF Results
  <2> QED
    BY <2>1, <2>2, <2>3, DoneStep DEF Settle
<1>9. ASSUME TrustJob PROVE Rest
  <2>1. trust' \cap Critical = {}
    BY <1>9 DEF TrustJob, Routing
  <2>2. CASE jobBatch[round] # NoBatch
    <3>1. /\ Settle(jobBatch[round], ByTrust) /\ job # "off"
          /\ jobBatch' = [jobBatch EXCEPT ![round] = NoBatch]
          /\ UNCHANGED <<call, round>>
      BY <1>9, <2>2 DEF TrustJob, Forget, run
    <3>2. ByTrust \in Results \cup {"canceled"}
      BY DEF Results
    <3> QED
      BY <2>1, <2>2, <3>1, <3>2, DoneStep DEF Settle
  <2>3. CASE jobBatch[round] = NoBatch
    BY <1>9, <2>1, <2>3 DEF TrustJob, call, run, batcher, Routing, Batching,
       CriticalIsHeld, OperatorSaidYes, FoundByTrust, WaitingCanBeAnswered,
       HasRouter
  <2> QED
    BY <2>2, <2>3
<1>10. ASSUME Begin PROVE Rest
  <2>1. /\ UNCHANGED <<act, asked, inBatch, jobBatch, future, trust, late>>
        /\ job = "off" /\ round' = round + 1 /\ round \in Nat
    BY <1>10, BoundAssumption DEF Begin, call, batcher, TypeOK
  <2>2. \A a \in Actions : asked[a] \in Nat /\ asked[a] <= round
    BY BoundAssumption DEF Batching, TypeOK
  <2>3. Routing' /\ CriticalIsHeld'
    BY <2>1 DEF Routing, CriticalIsHeld, OperatorSaidYes, FoundByTrust
  <2>4. Batching'
    BY <2>1, <2>2 DEF Batching
  <2>5. \A a \in Actions : ~HasRouter(a) /\ ~HasRouter(a)'
    BY <2>1, <2>2 DEF HasRouter
  <2>6. WaitingCanBeAnswered'
    BY <2>1, <2>5 DEF WaitingCanBeAnswered
  <2> QED
    BY <2>3, <2>4, <2>6
<1>11. ASSUME End PROVE Rest
  BY <1>11 DEF End, call, batcher, Routing, Batching, CriticalIsHeld,
     OperatorSaidYes, FoundByTrust, WaitingCanBeAnswered, HasRouter
<1>12. ASSUME CleanUp PROVE Rest
  <2>1. /\ future' = IF jobBatch[round] # NoBatch /\ future[jobBatch[round]] = "open"
                     THEN [future EXCEPT ![jobBatch[round]] = "canceled"] ELSE future
        /\ jobBatch' = [jobBatch EXCEPT ![round] = NoBatch]
        /\ UNCHANGED <<call, round>>
        /\ job # "off"
        /\ trust' \cap Critical = {}
    BY <1>12 DEF CleanUp, Forget, Routing
  <2> QED
    BY <2>1, DoneStep
<1>13. ASSUME UNCHANGED vars PROVE Rest
  BY <1>13 DEF vars, Routing, Batching, CriticalIsHeld, OperatorSaidYes,
     FoundByTrust, WaitingCanBeAnswered, HasRouter
<1> QED
  BY <1>1, <1>2, <1>3, <1>4, <1>5, <1>6, <1>7, <1>8, <1>9, <1>10, <1>11,
     <1>12, <1>13 DEF Next, Callback

\* The invariant holds in every state.
LEMMA Invariance == Spec => []IInv
  BY InitIInv, InvStep, PTL DEF Spec

\* A call with a security-critical reason goes ahead only by the operator's
\* yes to its batch or by a trust grant that found it waiting.
THEOREM CriticalHeld == Spec => []CriticalIsHeld
<1>1. IInv => CriticalIsHeld
  BY DEF IInv
<1> QED
  BY <1>1, Invariance, PTL

\* Whoever waits while its session is there waits for the batch that can be
\* answered; who waits after the cleanup came to the dropped batcher later.
THEOREM WaitersAnswerable == Spec => []WaitingCanBeAnswered
<1>1. IInv => WaitingCanBeAnswered
  BY DEF IInv
<1> QED
  BY <1>1, Invariance, PTL

-----------------------------------------------------------------------------
(* The action property and the contract.                                   *)

\* The batch a call joins has no answer yet.
THEOREM JoinsUnanswered == Spec => NoStaleAnswer
<1>1. ASSUME IInv, [Next]_vars, NEW a \in Actions,
             act[a] # "batched", act'[a] = "batched"
      PROVE  future'[inBatch'[a]] \notin Results
  <2>1. Submit(a) /\ act[a] \in {"gated", "judged"}
    <3>1. ASSUME NEW c \in Actions, Ask(c) PROVE FALSE
      <4>1. Enforced(ReasonOf[c]) \in {"allowed", "warned", "gated"}
        BY DEF Enforced
      <4> QED
        BY <1>1, <3>1, <4>1 DEF Ask, IInv, TypeOK
    <3>2. ASSUME NEW c \in Actions, Warned(c) PROVE FALSE
      BY <1>1, <3>2 DEF Warned, IInv, TypeOK
    <3>3. ASSUME NEW c \in Actions, Gated(c) \/ MonitorSays(c)
          PROVE  Submit(a) /\ act[a] \in {"gated", "judged"}
      <4>1. CASE Submit(c)
        <5>1. act' = [act EXCEPT ![c] = "batched"]
          BY <1>1, <4>1, SubmitType DEF IInv
        <5>2. a = c
          BY <1>1, <5>1 DEF IInv, TypeOK
        <5> QED
          BY <3>3, <4>1, <5>2 DEF Gated, MonitorSays
      <4>2. CASE \E state \in {"allowed", "denied", "judged"} :
                    act' = [act EXCEPT ![c] = state]
        BY <1>1, <4>2 DEF IInv, TypeOK
      <4> QED
        BY <3>3, <4>1, <4>2 DEF Gated, MonitorSays
    <3>4. ASSUME NEW c \in Actions, Hear(c) PROVE FALSE
      <4>1. act[c] = "batched" /\ act' = [act EXCEPT ![c] = act'[c]]
        BY <1>1, <3>4 DEF Hear, IInv, TypeOK
      <4> QED
        BY <1>1, <4>1 DEF IInv, TypeOK
    <3>5. ASSUME NEW c \in Actions, CancelCallback(c) PROVE FALSE
      BY <1>1, <3>5 DEF CancelCallback, IInv, TypeOK
    <3>6. ASSUME act' = act PROVE FALSE
      BY <1>1, <3>6
    <3> QED
      BY <1>1, <3>1, <3>2, <3>3, <3>4, <3>5, <3>6
      DEF Next, Callback, WindowCloses, ResolveBatch, TrustJob, Begin, End,
          CleanUp, vars, call
  <2>2. PICK b \in Actions :
             /\ b = IF jobBatch[asked[a]] # NoBatch THEN jobBatch[asked[a]] ELSE a
             /\ inBatch' = [inBatch EXCEPT ![a] = b]
             /\ future' = [future EXCEPT ![b] = IF @ = "none" THEN "open" ELSE @]
    BY <1>1, <2>1, SubmitJoins DEF IInv
  <2>3. future[b] \in {"none", "open", "canceled"}
    BY <1>1, <2>1, <2>2 DEF IInv, TypeOK, Batching, Early
  <2>4. future'[inBatch'[a]] \in {"open", "canceled"}
    BY <1>1, <2>2, <2>3 DEF IInv, TypeOK
  <2> QED
    BY <2>4 DEF Results, Resolutions, ByTrust
<1>2. IInv /\ [Next]_vars =>
        [\A a \in Actions : act[a] # "batched" /\ act'[a] = "batched" =>
            future'[inBatch'[a]] \notin Results]_vars
  BY <1>1
<1> QED
  BY <1>2, Invariance, PTL DEF NoStaleAnswer, Spec

\* A step that answers no call and changes the state of none is no step of
\* the contract.
LEMMA SameStatus ==
    ASSUME act' = act
    PROVE  Status' = Status
  BY DEF Status

\* What a call that changes state on its own does to the contract's view.
LEMMA StatusOfOne ==
    ASSUME TypeOK, NEW a \in Actions, act' = [act EXCEPT ![a] = act'[a]]
    PROVE  Status' = [Status EXCEPT ![a] = Status'[a]]
  BY DEF Status, TypeOK

\* A future that is opened or let go says nothing yet.
LEMMA SameAnswers ==
    ASSUME inBatch' = inBatch,
           \A b \in Actions : future'[b] = future[b]
              \/ (future[b] \in {"none", "open", "canceled"}
                  /\ future'[b] \in {"none", "open", "canceled"}),
           TypeOK
    PROVE  Answered' = Answered
<1>1. \A b \in Actions : (future'[b] \in Yes <=> future[b] \in Yes)
         /\ (future'[b] = ByTrust <=> future[b] = ByTrust)
         /\ (future'[b] = "rejected" <=> future[b] = "rejected")
  BY DEF Yes, ByTrust
<1>2. ASSUME NEW a \in Actions PROVE Answered'[a] = Answered[a]
  <2>1. CASE inBatch[a] = NoBatch
    BY <2>1 DEF Answered
  <2>2. CASE inBatch[a] # NoBatch
    <3>1. inBatch[a] \in Actions
      BY <2>2 DEF TypeOK
    <3> QED
      BY <1>1, <2>2, <3>1 DEF Answered
  <2> QED
    BY <2>1, <2>2
<1> QED
  BY <1>2 DEF Answered

\* At first nothing is asked and nothing answered.
LEMMA ContractInit == Init => Contract!Init
  BY DEF Init, Contract!Init, Status, Answered

\* Coming to a batcher changes nothing the contract sees.
LEMMA SubmitHidden ==
    ASSUME IInv, NEW a \in Actions, act[a] \in {"gated", "judged"}, Submit(a)
    PROVE  Status' = Status /\ Answered' = Answered
<1> USE DEF IInv
<1>1. PICK b \in Actions :
             /\ b = IF jobBatch[asked[a]] # NoBatch THEN jobBatch[asked[a]] ELSE a
             /\ act' = [act EXCEPT ![a] = "batched"]
             /\ inBatch' = [inBatch EXCEPT ![a] = b]
             /\ future' = [future EXCEPT ![b] = IF @ = "none" THEN "open" ELSE @]
  BY SubmitJoins
<1>2. Status' = Status
  <2>1. Status' = [Status EXCEPT ![a] = Status'[a]]
    BY <1>1, StatusOfOne DEF TypeOK
  <2>2. Status[a] = "open" /\ Status'[a] = "open"
    BY <1>1 DEF Status, TypeOK
  <2> QED
    BY <2>1, <2>2 DEF Status
<1>3. Answered' = Answered
  <2>1. /\ future[b] \in {"none", "open", "canceled"}
        /\ future'[b] \in {"open", "canceled"}
        /\ inBatch[a] = NoBatch /\ inBatch'[a] = b
        /\ \A c \in Actions : c # b => future'[c] = future[c]
    BY <1>1 DEF TypeOK, Batching, Routing, Early
  <2>2. Answered[a] = "none" /\ Answered'[a] = "none"
    BY <2>1 DEF Answered, Yes, ByTrust
  <2>3. ASSUME NEW c \in Actions, c # a PROVE Answered'[c] = Answered[c]
    <3>1. inBatch'[c] = inBatch[c]
      BY <1>1, <2>3 DEF TypeOK
    <3>2. CASE inBatch[c] = NoBatch
      BY <3>1, <3>2 DEF Answered
    <3>3. CASE inBatch[c] = b
      BY <2>1, <3>1, <3>3 DEF Answered, Yes, ByTrust
    <3>4. CASE inBatch[c] # b /\ inBatch[c] # NoBatch
      <4>1. future'[inBatch'[c]] = future[inBatch[c]]
        BY <2>1, <3>1, <3>4 DEF TypeOK
      <4> QED
        BY <3>1, <4>1 DEF Answered
    <3> QED
      BY <3>2, <3>3, <3>4
  <2> QED
    BY <2>2, <2>3 DEF Answered
<1> QED
  BY <1>2, <1>3

\* What the contract is told when a batch is given a result.
Said(resolution) ==
    IF resolution \in Yes THEN "yes"
    ELSE IF resolution = ByTrust THEN "trusted" ELSE "no"

\* Answering a batch answers its calls, which are open, together.
LEMMA AnswerIsContracts ==
    ASSUME IInv, NEW b \in Actions, b = jobBatch[round],
           NEW resolution \in Results, Settle(b, resolution), UNCHANGED call
    PROVE  \E S \in SUBSET Actions :
             Contract!Answered(S, Said(resolution))
<1> USE DEF IInv
<1> DEFINE S == IF future[b] = "open" THEN Members(b) ELSE {}
           said == Said(resolution)
<1>1. Status' = Status /\ UNCHANGED <<act, inBatch>>
  BY SameStatus DEF call
<1>2. b # NoBatch /\ future[b] \in {"open", "canceled"}
  BY NoBatchAssumption DEF TypeOK, Batching
<1>3. \A c \in Actions : c # b => future'[c] = future[c]
  BY DEF Settle, TypeOK
<1>4. ASSUME NEW a \in S PROVE Status[a] = "open" /\ Answered[a] = "none"
  <2>1. a \in Actions /\ inBatch[a] = b /\ future[b] = "open"
    BY <1>4 DEF Members
  <2>2. act[a] = "batched"
    BY <1>2, <2>1 DEF Batching
  <2> QED
    BY <1>2, <2>1, <2>2 DEF Status, Answered, Yes, ByTrust
<1>5. ASSUME NEW a \in Actions
      PROVE  Answered'[a] = IF a \in S THEN said ELSE Answered[a]
  <2>1. CASE a \in S
    <3>1. inBatch'[a] = b /\ future'[b] = resolution
      BY <1>1, <1>2, <2>1 DEF Members, Settle, TypeOK
    <3>2. resolution \notin Yes /\ resolution # ByTrust => resolution = "rejected"
      BY DEF Results, Resolutions, Yes
    <3>3. Answered'[a] = CASE resolution \in Yes -> "yes"
                           [] resolution = ByTrust -> "trusted"
                           [] resolution = "rejected" -> "no"
                           [] OTHER -> "none"
      BY <1>2, <3>1 DEF Answered
    <3>4. Answered'[a] = Said(resolution)
      BY <3>2, <3>3 DEF Said, Yes, ByTrust
    <3> QED
      BY <2>1, <3>4
  <2>2. CASE a \notin S
    <3>1. CASE inBatch[a] = NoBatch
      BY <1>1, <2>2, <3>1 DEF Answered
    <3>2. CASE inBatch[a] # NoBatch
      <4>1. inBatch[a] \in Actions
        BY <3>2 DEF TypeOK
      <4>2. future'[inBatch[a]] = future[inBatch[a]]
        BY <1>3, <2>2, <4>1 DEF Members, Settle
      <4> QED
        BY <1>1, <2>2, <4>2 DEF Answered
    <3> QED
      BY <3>1, <3>2
  <2> QED
    BY <2>1, <2>2
<1>6. Answered' = [a \in Actions |-> IF a \in S THEN said ELSE Answered[a]]
  BY <1>5 DEF Answered
<1>7. S \in SUBSET Actions
  BY DEF Members
<1> HIDE DEF S, said
<1>8. Contract!Answered(S, said)
  BY <1>1, <1>4, <1>6, <1>7 DEF Contract!Answered
<1> QED
  BY <1>7, <1>8 DEF said

\* Every step is a step of the contract, or changes nothing it sees.
LEMMA ContractStep == IInv /\ [Next]_vars =>
                        [Contract!Next]_<<Status, Answered, trust>>
<1> SUFFICES ASSUME IInv, [Next]_vars
             PROVE  Contract!Next \/ UNCHANGED <<Status, Answered, trust>>
  OBVIOUS
<1> USE DEF IInv
<1>1. ASSUME NEW a \in Actions, Ask(a) PROVE Contract!Next
  <2>1. /\ act[a] = "idle" /\ act' = [act EXCEPT ![a] = act'[a]]
        /\ act'[a] = Enforced(ReasonOf[a])
        /\ UNCHANGED <<inBatch, future, trust>>
    BY <1>1 DEF Ask, TypeOK
  <2>2. Status' = [Status EXCEPT ![a] = Status'[a]] /\ Status[a] = "new"
    BY <2>1, StatusOfOne DEF Status
  <2>3. Answered' = Answered
    BY <2>1, SameAnswers
  <2>4. CASE act'[a] = "allowed"
    <3>1. Status'[a] = "go"
      BY <2>4 DEF Status
    <3>2. Contract!NeedsNoOperator(ReasonOf[a])
      BY <2>1, <2>4 DEF Enforced, Contract!NeedsNoOperator, Contract!Advisory
    <3> QED
      BY <2>1, <2>2, <2>3, <3>1, <3>2 DEF Contract!Next, Contract!LetGoAtOnce
  <2>5. CASE act'[a] \in {"warned", "gated"}
    <3>1. Status'[a] = "open"
      BY <2>5 DEF Status
    <3> QED
      BY <2>1, <2>2, <2>3, <3>1 DEF Contract!Next, Contract!Open
  <2> QED
    BY <2>1, <2>4, <2>5 DEF Enforced
<1>2. ASSUME NEW a \in Actions, Warned(a) PROVE Contract!Next
  <2>1. /\ act[a] = "warned" /\ act' = [act EXCEPT ![a] = act'[a]]
        /\ act'[a] = "allowed"
        /\ UNCHANGED <<inBatch, future, trust>>
    BY <1>2 DEF Warned, TypeOK
  <2>2. Status' = [Status EXCEPT ![a] = "go"] /\ Status[a] = "open"
    BY <2>1, StatusOfOne DEF Status
  <2>3. Answered' = Answered
    BY <2>1, SameAnswers
  <2>4. Contract!NeedsNoOperator(ReasonOf[a])
    BY <2>1 DEF Routing, Contract!NeedsNoOperator, Contract!Advisory
  <2>5. trust' = trust \cup {} /\ {} \in SUBSET ({ReasonOf[a]} \ Critical)
    BY <2>1
  <2> QED
    BY <2>2, <2>3, <2>4, <2>5 DEF Contract!Next, Contract!LetGo
<1>3. ASSUME NEW a \in Actions, Gated(a)
      PROVE  UNCHANGED <<Status, Answered, trust>>
  <2>1. CASE Submit(a)
    BY <1>3, <2>1, SubmitHidden DEF Gated
  <2>2. CASE /\ act' = [act EXCEPT ![a] = "judged"]
             /\ UNCHANGED <<inBatch, batcher, future, shown, late>>
    <3>1. Status' = [Status EXCEPT ![a] = Status'[a]]
      BY <2>2, StatusOfOne DEF TypeOK
    <3>2. Status'[a] = "open" /\ Status[a] = "open"
      BY <1>3, <2>2 DEF Status, Gated, TypeOK
    <3>3. Status' = Status
      BY <3>1, <3>2 DEF Status
    <3> QED
      BY <1>3, <2>2, <3>3, SameAnswers DEF Gated
  <2> QED
    BY <1>3, <2>1, <2>2 DEF Gated
<1>4. ASSUME NEW a \in Actions, MonitorSays(a)
      PROVE  Contract!Next \/ UNCHANGED <<Status, Answered, trust>>
  <2>1. CASE Submit(a)
    BY <1>4, <2>1, SubmitHidden DEF MonitorSays
  <2>2. CASE /\ \E verdict \in {"allowed", "denied"} :
                  act' = [act EXCEPT ![a] = verdict]
             /\ UNCHANGED <<inBatch, batcher, future, shown, late>>
    <3>1. Status' = [Status EXCEPT ![a] = Status'[a]] /\ Status[a] = "open"
      BY <1>4, <2>2, StatusOfOne DEF MonitorSays, Status, TypeOK
    <3>2. Answered' = Answered /\ trust' = trust
      BY <1>4, <2>2, SameAnswers DEF MonitorSays
    <3>3. CASE act'[a] = "allowed"
      <4>1. Status'[a] = "go"
        BY <3>3 DEF Status
      <4>2. Contract!NeedsNoOperator(ReasonOf[a])
        BY <1>4 DEF MonitorSays, Routing, Contract!NeedsNoOperator
      <4>3. trust' = trust \cup {} /\ {} \in SUBSET ({ReasonOf[a]} \ Critical)
        BY <3>2
      <4> QED
        BY <3>1, <3>2, <4>1, <4>2, <4>3 DEF Contract!Next, Contract!LetGo
    <3>4. CASE act'[a] = "denied"
      <4>1. Status'[a] = "no"
        BY <3>4 DEF Status
      <4> QED
        BY <3>1, <3>2, <4>1 DEF Contract!Next, Contract!Refuse
    <3> QED
      BY <2>2, <3>3, <3>4 DEF TypeOK
  <2> QED
    BY <1>4, <2>1, <2>2 DEF MonitorSays
<1>5. ASSUME NEW a \in Actions, Hear(a) PROVE Contract!Next
  <2>1. /\ act[a] = "batched"
        /\ act' = [act EXCEPT ![a] = act'[a]]
        /\ act'[a] = "allowed" => future[inBatch[a]] \in Yes \cup {ByTrust}
        /\ act'[a] \in Decided
        /\ act'[a] # "allowed" => trust' = trust
        /\ trust' = trust \/ trust' = trust \cup ({ReasonOf[a]} \ Critical)
        /\ UNCHANGED <<inBatch, future>>
    <3> DEFINE said == future[inBatch[a]]
    <3>1. /\ act[a] = "batched"
          /\ act' = [act EXCEPT ![a] =
                       CASE said \in Yes \cup {ByTrust} -> "allowed"
                         [] said = "canceled" -> "canceled"
                         [] OTHER -> "denied"]
          /\ trust' = IF said \in {"approved", ByTrust} THEN WaiveReason(a)
                                                       ELSE trust
          /\ UNCHANGED <<inBatch, future>>
      BY <1>5 DEF Hear
    <3> HIDE DEF said
    <3>2. act'[a] = CASE said \in Yes \cup {ByTrust} -> "allowed"
                      [] said = "canceled" -> "canceled"
                      [] OTHER -> "denied"
      BY <3>1 DEF TypeOK
    <3>3. CASE said \in Yes \cup {ByTrust}
      <4>1. act'[a] = "allowed"
        BY <3>2, <3>3 DEF Yes, ByTrust
      <4> QED
        BY <3>1, <3>3, <4>1 DEF said, Decided, WaiveReason
    <3>4. CASE said \notin Yes \cup {ByTrust}
      <4>1. act'[a] \in {"canceled", "denied"} /\ trust' = trust
        BY <3>1, <3>2, <3>4 DEF Yes
      <4> QED
        BY <3>1, <4>1 DEF Decided
    <3> QED
      BY <3>3, <3>4
  <2>2. Status' = [Status EXCEPT ![a] = Status'[a]] /\ Status[a] = "open"
    BY <2>1, StatusOfOne DEF Status
  <2>3. Answered' = Answered
    BY <2>1, SameAnswers
  <2>4. CASE act'[a] = "allowed"
    <3>1. Status'[a] = "go"
      BY <2>4 DEF Status
    <3>2. inBatch[a] # NoBatch /\ future[inBatch[a]] \in Yes \cup {ByTrust}
      BY <2>1, <2>4 DEF Batching
    <3>4. Answered[a] \in {"yes", "trusted"}
      BY <3>2 DEF Answered, Yes, ByTrust
    <3>3. \E R \in SUBSET ({ReasonOf[a]} \ Critical) : trust' = trust \cup R
      <4>1. CASE trust' = trust
        <5>1. trust' = trust \cup {} /\ {} \in SUBSET ({ReasonOf[a]} \ Critical)
          BY <4>1
        <5> QED
          BY <5>1
      <4>2. CASE trust' = trust \cup ({ReasonOf[a]} \ Critical)
        BY <4>2, Zenon
      <4> QED
        BY <2>1, <4>1, <4>2
    <3> QED
      BY <2>2, <2>3, <3>1, <3>3, <3>4 DEF Contract!Next, Contract!LetGo
  <2>5. CASE act'[a] \in {"denied", "canceled"}
    <3>1. Status'[a] = "no"
      BY <2>5 DEF Status
    <3> QED
      BY <2>1, <2>2, <2>3, <2>5, <3>1 DEF Contract!Next, Contract!Refuse
  <2> QED
    BY <2>1, <2>4, <2>5 DEF Decided
<1>6. ASSUME NEW a \in Actions, CancelCallback(a) PROVE Contract!Next
  <2>1. /\ act[a] \in {"warned", "gated", "judged", "batched"}
        /\ act' = [act EXCEPT ![a] = act'[a]]
        /\ act'[a] = "canceled"
        /\ UNCHANGED <<inBatch, trust>>
        /\ \A b \in Actions :
             future'[b] = future[b] \/ (future[b] = "open" /\ future'[b] = "canceled")
    BY <1>6 DEF CancelCallback, batcher, TypeOK
  <2>2. Status' = [Status EXCEPT ![a] = "no"] /\ Status[a] = "open"
    BY <2>1, StatusOfOne DEF Status
  <2>3. Answered' = Answered
    BY <2>1, SameAnswers
  <2> QED
    BY <2>1, <2>2, <2>3 DEF Contract!Next, Contract!Refuse
<1>7. ASSUME NEW b \in Actions, WindowCloses(b)
      PROVE  UNCHANGED <<Status, Answered, trust>>
  BY <1>7, SameStatus, SameAnswers DEF WindowCloses, call
<1>8. ASSUME NEW b \in Actions, ResolveBatch(b) PROVE Contract!Next
  <2>1. PICK resolution \in Resolutions : Settle(b, resolution)
    BY <1>8 DEF ResolveBatch
  <2>2. b = jobBatch[round] /\ UNCHANGED <<call, trust>> /\ resolution \in Results
    BY <1>8 DEF ResolveBatch, Results
  <2>3. PICK S \in SUBSET Actions :
            Contract!Answered(S, Said(resolution))
    BY <2>1, <2>2, AnswerIsContracts
  <2>4. Said(resolution) \in {"yes", "no"}
    BY DEF Said, Resolutions, ByTrust
  <2>5. Contract!Answer(S)
    BY <2>2, <2>3, <2>4 DEF Contract!Answer
  <2> QED
    BY <2>5 DEF Contract!Next
<1>9. ASSUME TrustJob PROVE Contract!Next
  <2>1. trust' = trust \cup (Reasons \ Critical) /\ UNCHANGED call
    BY <1>9 DEF TrustJob
  <2>2. CASE jobBatch[round] # NoBatch
    <3>1. /\ Settle(jobBatch[round], ByTrust) /\ ByTrust \in Results
          /\ ByTrust \notin Yes /\ jobBatch[round] \in Actions
      BY <1>9, <2>2 DEF TrustJob, Results, Yes, ByTrust, TypeOK
    <3>2. PICK S \in SUBSET Actions :
            Contract!Answered(S, Said(ByTrust))
      BY <2>1, <3>1, AnswerIsContracts
    <3>3. Said(ByTrust) = "trusted"
      BY <3>1 DEF Said
    <3>4. Contract!Trust(S)
      BY <2>1, <3>2, <3>3 DEF Contract!Trust
    <3> QED
      BY <3>4 DEF Contract!Next
  <2>3. CASE jobBatch[round] = NoBatch
    <3>1. UNCHANGED <<Status, Answered>>
      BY <1>9, <2>3, SameStatus, SameAnswers DEF TrustJob, call
    <3>2. Answered = [a \in Actions |-> IF a \in {} THEN "trusted" ELSE Answered[a]]
      BY DEF Answered
    <3>3. Contract!Trust({})
      BY <2>1, <3>1, <3>2 DEF Contract!Trust, Contract!Answered
    <3> QED
      BY <3>3 DEF Contract!Next
  <2> QED
    BY <2>2, <2>3
<1>10. ASSUME Begin \/ End PROVE UNCHANGED <<Status, Answered, trust>>
  BY <1>10, SameStatus, SameAnswers DEF Begin, End, call
<1>11. ASSUME CleanUp PROVE UNCHANGED <<Status, Answered, trust>>
  <2>1. \A b \in Actions :
          future'[b] = future[b] \/ (future[b] = "open" /\ future'[b] = "canceled")
    BY <1>11 DEF CleanUp, TypeOK
  <2> QED
    BY <1>11, <2>1, SameStatus, SameAnswers DEF CleanUp, call
<1>12. ASSUME UNCHANGED vars PROVE UNCHANGED <<Status, Answered, trust>>
  BY <1>12, SameStatus, SameAnswers DEF vars
<1> QED
  BY <1>1, <1>2, <1>3, <1>4, <1>5, <1>6, <1>7, <1>8, <1>9, <1>10, <1>11,
     <1>12 DEF Next, Callback

\* The router, the batcher, the monitor and the grants do nothing the
\* contract does not allow.
THEOREM PolicyImplements == Spec => ImplementsContract
<1>1. IInv /\ [Next]_vars => [Contract!Next]_<<Status, Answered, trust>>
  BY ContractStep
<1> QED
  BY <1>1, ContractInit, Invariance, PTL
  DEF ImplementsContract, Contract!Spec, Spec

=============================================================================
