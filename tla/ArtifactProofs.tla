---------------------------- MODULE ArtifactProofs ----------------------------
(***************************************************************************)
(* Proofs about Artifacts, for any number of sessions and restarts and for   *)
(* any faults.                                                              *)
(***************************************************************************)
EXTENDS Artifacts, TLAPS

\* The numbers of sessions a collector holds are in the order it read them in,
\* and the row only goes on from there.
InOrder(c) ==
    /\ at[c] # "idle" /\ at[c] # "queued" => took[c] <= count
    /\ at[c] \in {"writing", "storing"} =>
           label[c] \in Sessions /\ took[c] <= label[c] /\ label[c] <= count

\* What is about to be reported is in the log.
Reported(c) ==
    /\ at[c] = "writing" => shot[c] # "none"
    /\ at[c] = "storing" => log[label[c]] # "none"

\* What was reported is in the log.
Logged ==
    /\ collected <= count
    /\ status = "completed" /\ collected = count => log[count] # "none"

LogInv ==
    /\ TypeOK /\ Logged
    /\ \A c \in Collectors : InOrder(c) /\ Reported(c)
    /\ boot = "orphans" => row = "running" /\ count < MaxSessions /\ ~agent

\* At first nothing is claimed and nothing logged.
LEMMA InitLog == Init => LogInv
<1> SUFFICES ASSUME Init
             PROVE  LogInv
    OBVIOUS
<1>1. 1 \in Sessions /\ 0 \in 0 .. MaxSessions /\ 0 \in 0 .. MaxRestarts
    BY BoundAssumption DEF Sessions
<1>2. TypeOK
    BY <1>1 DEF Init, TypeOK, Shots
<1>3. \A c \in Collectors : at[c] = "idle"
    BY DEF Init
<1> QED BY <1>1, <1>2, <1>3 DEF Init, LogInv, Logged, InOrder, Reported

\* Every step of a collector.
LEMMA CollectStep ==
    ASSUME LogInv, NEW c \in Collectors, Collect(c)
    PROVE  LogInv'
<1> USE BoundAssumption
        DEF LogInv, TypeOK, Logged, InOrder, Reported, Collectors, Sessions, Shots, Go,
            claim, work
<1>1. CASE Claim(c)
    BY <1>1 DEF Claim
<1>2. CASE Read(c)
    BY <1>2 DEF Read
<1>3. CASE Write(c)
    <2>1. shot[c] # "none" /\ label[c] \in Sessions
        BY <1>3 DEF Write
    <2> QED BY <1>3, <2>1 DEF Write
<1>4. CASE Finish(c)
    BY <1>4 DEF Finish, Outcome
<1>5. CASE Fail(c)
    BY <1>5 DEF Fail, Outcome, Inside
<1> QED BY <1>1, <1>2, <1>3, <1>4, <1>5 DEF Collect

\* Every other step.
LEMMA OtherStep ==
    ASSUME LogInv, SessionEnds \/ Resume \/ Cancel \/ Restart \/ Recover
    PROVE  LogInv'
<1> USE BoundAssumption
        DEF LogInv, TypeOK, Logged, InOrder, Reported, Collectors, Sessions, Shots, Go,
            claim, work, Over
<1>1. CASE SessionEnds
    BY <1>1 DEF SessionEnds
<1>2. CASE Resume
    BY <1>2 DEF Resume
<1>3. CASE Cancel
    BY <1>3 DEF Cancel
<1>4. CASE Restart
    <2>1. \A c \in Collectors : at'[c] = "idle"
        BY <1>4 DEF Restart
    <2>2. restarts' \in 0 .. MaxRestarts
        BY <1>4 DEF Restart
    <2>3. /\ boot' \in {"orphans", "candidates"}
          /\ boot' = "orphans" => row' = "running" /\ count' < MaxSessions /\ ~agent'
        BY <1>4 DEF Restart
    <2>4. at' \in [Collectors -> {"idle", "queued", "reading", "writing", "storing"}]
        BY <1>4 DEF Restart
    <2> QED BY <1>4, <2>1, <2>2, <2>3, <2>4 DEF Restart
<1>5. CASE RecoverOrphan
    BY <1>5 DEF RecoverOrphan
<1>6. CASE ListCandidates
    BY <1>6 DEF ListCandidates
<1> QED BY <1>1, <1>2, <1>3, <1>4, <1>5, <1>6 DEF Recover

\* Whatever overlaps a collection, a job whose last session is reported as
\* collected has a transcript of that session.
THEOREM ReportsAreBacked == Spec => []CompletedIsLogged
<1>1. LogInv /\ [Next]_vars => LogInv'
    <2> SUFFICES ASSUME LogInv, [Next]_vars
                 PROVE  LogInv'
        OBVIOUS
    <2>1. CASE UNCHANGED vars
        BY <2>1 DEF vars, claim, work, LogInv, TypeOK, Logged, InOrder, Reported
    <2> QED BY <2>1, CollectStep, OtherStep DEF Next
<1>2. LogInv => CompletedIsLogged
    BY DEF LogInv, TypeOK, Logged, CompletedIsLogged, Sessions
<1> QED BY InitLog, <1>1, <1>2, PTL DEF Spec
=============================================================================
