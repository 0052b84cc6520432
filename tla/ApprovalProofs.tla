--------------------------- MODULE ApprovalProofs ---------------------------
(***************************************************************************)
(* What holds of Approvals for any number of requests, jobs and restarts.  *)
(* The refinement rests on one fact, FuturesFollowRows: a future that is   *)
(* done holds what the row holds, and a row that is answered stays so.     *)
(***************************************************************************)
EXTENDS Approvals, SequenceTheorems, TLAPS

\* A future never holds a decision its row does not.
FuturesFollowRows ==
    \A a \in Approvals : future[a] \in Decisions => row[a] = future[a]

\* A resolve() past its commit finds the row answered.
CommittedIsAnswered ==
    \A call \in answering : row[call.approval] \in Decisions

\* A callback that asked has a row, and waits on a future.
AskersHaveRows ==
    \A a \in Approvals : /\ asker[a] # "idle" => row[a] # "none"
                         /\ asker[a] = "waiting" => future[a] # "none"

\* A session that is on a request is on one that exists.
SessionsOnRequests ==
    \A j \in Jobs : session[j].pc \in {"entering", "waiting"}
                        => session[j].on \in Approvals

ApprovalInv ==
    /\ TypeOK
    /\ FuturesFollowRows
    /\ CommittedIsAnswered
    /\ AskersHaveRows
    /\ SessionsOnRequests

USE DEF Decisions

-----------------------------------------------------------------------------
(* The initial states, and the parts of a step that several actions share. *)

LEMMA InitInv == Init => ApprovalInv
<1> SUFFICES ASSUME Init PROVE ApprovalInv OBVIOUS
<1> USE JobOfAssumption DEF Init, NoSession
<1>1. \A j \in Jobs : <<>> \in Seq(Approvals) OBVIOUS
<1>2. TypeOK BY <1>1 DEF TypeOK, Live
<1>3. FuturesFollowRows /\ CommittedIsAnswered /\ AskersHaveRows
  BY DEF FuturesFollowRows, CommittedIsAnswered, AskersHaveRows
<1>4. SessionsOnRequests BY DEF SessionsOnRequests
<1> QED BY <1>2, <1>3, <1>4 DEF ApprovalInv

\* A commit answers a pending row, for good.
LEMMA CommitFacts ==
    ASSUME ApprovalInv, NEW a \in Approvals, NEW decision \in Decisions,
           NEW by \in {"operator", "trust"}, Commit(a, decision, by),
           UNCHANGED <<service, asker, loops, leftovers, startup>>
    PROVE  /\ row' \in [Approvals -> Decisions \cup {"none", "pending"}]
           /\ answering' \subseteq
                  [approval : Approvals, by : {"operator", "trust"}]
           /\ FuturesFollowRows' /\ CommittedIsAnswered' /\ AskersHaveRows'
<1> USE DEF ApprovalInv, TypeOK, Commit, service
<1>1. row' \in [Approvals -> Decisions \cup {"none", "pending"}] OBVIOUS
<1>2. answering' \subseteq [approval : Approvals, by : {"operator", "trust"}]
  OBVIOUS
<1>3. FuturesFollowRows' BY DEF FuturesFollowRows
<1>4. CommittedIsAnswered'
  <2> SUFFICES ASSUME NEW call \in answering'
               PROVE  row'[call.approval] \in Decisions
    BY DEF CommittedIsAnswered
  <2>1. call.approval \in Approvals BY <1>2
  <2>2. CASE call.approval = a BY <2>2
  <2>3. CASE call.approval # a
    <3>1. call \in answering BY <2>3
    <3> QED BY <2>1, <2>3, <3>1 DEF CommittedIsAnswered
  <2> QED BY <2>2, <2>3
<1>5. AskersHaveRows' BY DEF AskersHaveRows
<1> QED BY <1>1, <1>2, <1>3, <1>4, <1>5

\* The session loop's steps leave rows, requests and tasks alone.
LEMMA StepFacts ==
    ASSUME ApprovalInv, NEW j \in Jobs,
           NEW pc \in Live \cup {"ending", "off"},
           NEW on \in Approvals \cup {NoApproval},
           Step(j, pc, on),
           pc \in {"entering", "waiting"} => on \in Approvals
    PROVE  /\ session' \in [Jobs -> [pc : Live \cup {"ending", "off"},
                                     on : Approvals \cup {NoApproval}]]
           /\ SessionsOnRequests'
<1> USE DEF ApprovalInv, TypeOK, Step
<1>1. [pc |-> pc, on |-> on] \in [pc : Live \cup {"ending", "off"},
                                  on : Approvals \cup {NoApproval}]
  OBVIOUS
<1>2. session' \in [Jobs -> [pc : Live \cup {"ending", "off"},
                             on : Approvals \cup {NoApproval}]]
  BY <1>1
<1>3. SessionsOnRequests' BY DEF SessionsOnRequests
<1> QED BY <1>2, <1>3

\* Done futures and rows that do not change keep the facts about both.
LEMMA RowsAndTasksKept ==
    ASSUME ApprovalInv, UNCHANGED <<row, tasks>>
    PROVE  CommittedIsAnswered'
BY DEF ApprovalInv, CommittedIsAnswered, tasks

-----------------------------------------------------------------------------
(* One lemma per kind of actor: each of its actions keeps the invariant.   *)

LEMMA CallbackStep ==
    ASSUME ApprovalInv, NEW a \in Approvals, Callback(a)
    PROVE  ApprovalInv'
<1> USE JobOfAssumption DEF ApprovalInv, TypeOK, service, loops, ends, tasks, startup
<1>1. CASE Ask(a)
  <2> USE <1>1 DEF Ask
  <2>1. TypeOK' OBVIOUS
  <2>2. FuturesFollowRows' BY DEF FuturesFollowRows
  <2>3. CommittedIsAnswered'
    <3> SUFFICES ASSUME NEW call \in answering
                 PROVE  row'[call.approval] \in Decisions
      BY DEF CommittedIsAnswered
    <3>1. row[call.approval] \in Decisions /\ call.approval \in Approvals
      BY DEF CommittedIsAnswered
    <3> QED BY <3>1
  <2>4. AskersHaveRows' BY DEF AskersHaveRows
  <2>5. SessionsOnRequests' BY DEF SessionsOnRequests
  <2> QED BY <2>1, <2>2, <2>3, <2>4, <2>5
<1>2. CASE Register(a)
  <2> USE <1>2 DEF Register
  <2>1. TypeOK'
    <3>1. Append(events[JobOf[a]], a) \in Seq(Approvals)
      BY AppendProperties
    <3>2. events' \in [Jobs -> Seq(Approvals)] BY <3>1
    <3> QED BY <3>2
  <2>2. FuturesFollowRows' BY DEF FuturesFollowRows
  <2>3. CommittedIsAnswered' BY RowsAndTasksKept
  <2>4. AskersHaveRows' BY DEF AskersHaveRows
  <2>5. SessionsOnRequests' BY DEF SessionsOnRequests
  <2> QED BY <2>1, <2>2, <2>3, <2>4, <2>5
<1>3. CASE AskerHears(a)
  <2> USE <1>3 DEF AskerHears
  <2>1. future[a] \in Decisions \cup {"canceled"} BY DEF AskersHaveRows
  <2>2. TypeOK' BY <2>1
  <2>3. FuturesFollowRows' BY DEF FuturesFollowRows
  <2>4. CommittedIsAnswered' BY RowsAndTasksKept
  <2>5. AskersHaveRows' BY <2>1 DEF AskersHaveRows
  <2>6. SessionsOnRequests' BY DEF SessionsOnRequests
  <2> QED BY <2>2, <2>3, <2>4, <2>5, <2>6
<1> QED BY <1>1, <1>2, <1>3 DEF Callback

LEMMA AnsweringStep ==
    ASSUME ApprovalInv, Answering
    PROVE  ApprovalInv'
<1> USE DEF ApprovalInv, TypeOK, service, loops, ends, tasks, startup
<1>1. ASSUME NEW a \in Approvals, Resolve(a)
      PROVE  ApprovalInv'
  <2> USE <1>1 DEF Resolve
  <2>1. PICK decision \in Decisions : Commit(a, decision, "operator")
    OBVIOUS
  <2>2. /\ row' \in [Approvals -> Decisions \cup {"none", "pending"}]
        /\ answering' \subseteq
               [approval : Approvals, by : {"operator", "trust"}]
        /\ FuturesFollowRows' /\ CommittedIsAnswered' /\ AskersHaveRows'
    BY <2>1, CommitFacts
  <2>3. TypeOK' BY <2>2
  <2>4. SessionsOnRequests' BY DEF SessionsOnRequests
  <2> QED BY <2>2, <2>3, <2>4
<1>2. ASSUME NEW call \in answering, FinishResolve(call)
      PROVE  ApprovalInv'
  <2> USE <1>2 DEF FinishResolve
  <2>1. call.approval \in Approvals /\ row[call.approval] \in Decisions
    BY DEF CommittedIsAnswered
  <2>2. TypeOK' BY <2>1
  <2>3. FuturesFollowRows' BY <2>1 DEF FuturesFollowRows
  <2>4. CommittedIsAnswered' BY DEF CommittedIsAnswered
  <2>5. AskersHaveRows' BY <2>1 DEF AskersHaveRows
  <2>6. SessionsOnRequests' BY DEF SessionsOnRequests
  <2> QED BY <2>2, <2>3, <2>4, <2>5, <2>6
<1>3. ASSUME NEW j \in Jobs, Trust(j)
      PROVE  ApprovalInv'
  <2> USE <1>3 DEF Trust
  <2>1. TypeOK' BY DEF RequestsOf
  <2>2. FuturesFollowRows' BY DEF FuturesFollowRows
  <2>3. CommittedIsAnswered' BY DEF CommittedIsAnswered
  <2>4. AskersHaveRows' BY DEF AskersHaveRows
  <2>5. SessionsOnRequests' BY DEF SessionsOnRequests
  <2> QED BY <2>1, <2>2, <2>3, <2>4, <2>5
<1>4. ASSUME NEW j \in Jobs, NEW a \in Approvals, TrustNext(j, a)
      PROVE  ApprovalInv'
  <2> USE <1>4 DEF TrustNext
  <2>1. trusting' \in [Jobs -> SUBSET Approvals] OBVIOUS
  <2>2. SessionsOnRequests' BY DEF SessionsOnRequests
  <2>3. CASE Commit(a, "approved", "trust")
    <3>1. /\ row' \in [Approvals -> Decisions \cup {"none", "pending"}]
          /\ answering' \subseteq
                 [approval : Approvals, by : {"operator", "trust"}]
          /\ FuturesFollowRows' /\ CommittedIsAnswered' /\ AskersHaveRows'
      BY <2>3, CommitFacts
    <3>2. TypeOK' BY <2>1, <3>1
    <3> QED BY <2>2, <3>1, <3>2
  <2>4. CASE UNCHANGED <<row, answering>>
    <3>1. TypeOK' BY <2>1, <2>4
    <3>2. FuturesFollowRows' BY <2>4 DEF FuturesFollowRows
    <3>3. CommittedIsAnswered' BY <2>4 DEF CommittedIsAnswered
    <3>4. AskersHaveRows' BY <2>4 DEF AskersHaveRows
    <3> QED BY <2>2, <3>1, <3>2, <3>3, <3>4
  <2> QED BY <2>3, <2>4
<1> QED BY <1>1, <1>2, <1>3, <1>4 DEF Answering

LEMMA LoopStep ==
    ASSUME ApprovalInv, NEW j \in Jobs, Loop(j)
    PROVE  ApprovalInv'
<1> USE DEF ApprovalInv, TypeOK, service, loops, ends, tasks, startup
<1>1. ASSUME StartSession(j) \/ EndTurn(j)
      PROVE  ApprovalInv'
  <2> USE <1>1 DEF StartSession, EndTurn
  <2>1. /\ session' \in [Jobs -> [pc : Live \cup {"ending", "off"},
                                  on : Approvals \cup {NoApproval}]]
        /\ SessionsOnRequests'
    BY StepFacts DEF Live
  <2>2. TypeOK' BY <2>1
  <2>3. FuturesFollowRows' BY DEF FuturesFollowRows
  <2>4. CommittedIsAnswered' BY RowsAndTasksKept
  <2>5. AskersHaveRows' BY DEF AskersHaveRows
  <2> QED BY <2>1, <2>2, <2>3, <2>4, <2>5
<1>2. CASE TakeEvent(j)
  <2> USE <1>2 DEF TakeEvent
  <2>1. Head(events[j]) \in Approvals /\ Tail(events[j]) \in Seq(Approvals)
    BY HeadTailProperties
  <2>2. /\ session' \in [Jobs -> [pc : Live \cup {"ending", "off"},
                                  on : Approvals \cup {NoApproval}]]
        /\ SessionsOnRequests'
    BY <2>1, StepFacts DEF Live
  <2>3. TypeOK' BY <2>1, <2>2
  <2>4. FuturesFollowRows' BY DEF FuturesFollowRows
  <2>5. CommittedIsAnswered' BY RowsAndTasksKept
  <2>6. AskersHaveRows' BY DEF AskersHaveRows
  <2> QED BY <2>2, <2>3, <2>4, <2>5, <2>6
<1>3. CASE BeginWait(j) \/ Hear(j)
  <2> USE <1>3 DEF BeginWait, Hear
  <2>1. session[j].pc \in {"entering", "waiting"} =>
            session[j].on \in Approvals
    BY DEF SessionsOnRequests
  <2>2. /\ session' \in [Jobs -> [pc : Live \cup {"ending", "off"},
                                  on : Approvals \cup {NoApproval}]]
        /\ SessionsOnRequests'
    BY <2>1, StepFacts DEF Live
  <2>3. TypeOK' BY <2>2
  <2>4. FuturesFollowRows' BY DEF FuturesFollowRows
  <2>5. CommittedIsAnswered' BY RowsAndTasksKept
  <2>6. AskersHaveRows' BY DEF AskersHaveRows
  <2> QED BY <2>2, <2>3, <2>4, <2>5, <2>6
<1>4. CASE Cancel(j)
  <2> USE <1>4 DEF Cancel
  <2>1. /\ session' \in [Jobs -> [pc : Live \cup {"ending", "off"},
                                  on : Approvals \cup {NoApproval}]]
        /\ SessionsOnRequests'
    BY StepFacts DEF Live
  <2>2. TypeOK' BY <2>1
  <2>3. FuturesFollowRows' BY DEF FuturesFollowRows
  <2>4. CommittedIsAnswered' BY RowsAndTasksKept
  <2>5. AskersHaveRows' BY DEF AskersHaveRows
  <2> QED BY <2>1, <2>2, <2>3, <2>4, <2>5
<1>5. CASE Leave(j)
  <2> USE <1>5 DEF Leave
  <2>1. /\ session' \in [Jobs -> [pc : Live \cup {"ending", "off"},
                                  on : Approvals \cup {NoApproval}]]
        /\ SessionsOnRequests'
    BY StepFacts DEF Live
  <2>2. events' \in [Jobs -> Seq(Approvals)]
    <3>1. <<>> \in Seq(Approvals) OBVIOUS
    <3> QED BY <3>1
  <2>3. /\ tails' \in [Jobs -> Nat]
        /\ orphaned' \subseteq Approvals
    BY DEF RequestsOf
  <2>4. UNCHANGED <<row, service, asker, outcome, tasks, startup>>
    OBVIOUS
  <2> HIDE DEF Leave
  <2>5. TypeOK' BY <2>1, <2>2, <2>3, <2>4
  <2>6. FuturesFollowRows' BY <2>4 DEF FuturesFollowRows
  <2>7. CommittedIsAnswered' BY <2>4, RowsAndTasksKept
  <2>8. AskersHaveRows' BY <2>4 DEF AskersHaveRows
  <2> QED BY <2>1, <2>5, <2>6, <2>7, <2>8
<1>7. CASE Cleanup(j)
  <2> DEFINE gone == {a \in RequestsOf(j) : a \in tracked /\ future[a] = "open"}
  <2>1. gone \in SUBSET Approvals BY DEF RequestsOf
  <2> HIDE DEF gone
  <2>2. /\ tails[j] > 0
        /\ tails' = [tails EXCEPT ![j] = @ - 1]
        /\ tracked' = tracked \ gone
        /\ explicitIds' = explicitIds \ gone
        /\ future' = [a \in Approvals |-> IF a \in gone THEN "canceled"
                                                        ELSE future[a]]
        /\ leftovers' = [leftovers EXCEPT ![j] = @ \cup ({gone} \ {{}})]
        /\ UNCHANGED <<row, asker, events, session, outcome, orphaned,
                       answering, trusting, startup>>
    BY <1>7 DEF Cleanup, gone
  <2>3. leftovers' \in [Jobs -> SUBSET SUBSET Approvals]
    <3>1. leftovers[j] \cup ({gone} \ {{}}) \in SUBSET SUBSET Approvals
      BY <2>1
    <3> QED BY <2>2, <3>1
  <2>4. tails' \in [Jobs -> Nat]
    <3>1. tails[j] - 1 \in Nat BY <2>2
    <3> QED BY <2>2, <3>1
  <2>5. TypeOK' BY <2>2, <2>3, <2>4
  <2>6. FuturesFollowRows' BY <2>2 DEF FuturesFollowRows
  <2>7. CommittedIsAnswered' BY <2>2 DEF CommittedIsAnswered
  <2>8. AskersHaveRows' BY <2>2 DEF AskersHaveRows
  <2>9. SessionsOnRequests' BY <2>2 DEF SessionsOnRequests
  <2> QED BY <2>5, <2>6, <2>7, <2>8, <2>9
<1>6. ASSUME NEW gone \in leftovers[j], RejectLeftovers(j, gone)
      PROVE  ApprovalInv'
  <2> USE <1>6 DEF RejectLeftovers
  <2>1. TypeOK' OBVIOUS
  <2>2. FuturesFollowRows' BY DEF FuturesFollowRows
  <2>3. CommittedIsAnswered'
    <3> SUFFICES ASSUME NEW call \in answering
                 PROVE  row'[call.approval] \in Decisions
      BY DEF CommittedIsAnswered
    <3>1. row[call.approval] \in Decisions /\ call.approval \in Approvals
      BY DEF CommittedIsAnswered
    <3> QED BY <3>1
  <2>4. AskersHaveRows' BY DEF AskersHaveRows
  <2>5. SessionsOnRequests' BY DEF SessionsOnRequests
  <2> QED BY <2>1, <2>2, <2>3, <2>4, <2>5
<1> QED BY <1>1, <1>2, <1>3, <1>4, <1>5, <1>6, <1>7 DEF Loop

LEMMA BootingStep ==
    ASSUME ApprovalInv, Booting
    PROVE  ApprovalInv'
<1> USE BoundAssumption
    DEF ApprovalInv, TypeOK, service, loops, ends, tasks, startup, NoSession
<1>1. CASE Restart
  <2> USE <1>1 DEF Restart
  <2>1. \A j \in Jobs : <<>> \in Seq(Approvals) OBVIOUS
  <2>2. TypeOK' BY <2>1
  <2>3. FuturesFollowRows' BY DEF FuturesFollowRows
  <2>4. CommittedIsAnswered' BY DEF CommittedIsAnswered
  <2>5. AskersHaveRows' BY DEF AskersHaveRows
  <2>6. SessionsOnRequests' BY DEF SessionsOnRequests
  <2> QED BY <2>2, <2>3, <2>4, <2>5, <2>6
<1>2. CASE ListPending \/ RecoverPending
  <2> USE <1>2 DEF ListPending, RecoverPending
  <2>1. TypeOK' OBVIOUS
  <2>2. FuturesFollowRows' BY DEF FuturesFollowRows
  <2>3. CommittedIsAnswered' BY RowsAndTasksKept
  <2>4. AskersHaveRows' BY DEF AskersHaveRows
  <2>5. SessionsOnRequests' BY DEF SessionsOnRequests
  <2> QED BY <2>1, <2>2, <2>3, <2>4, <2>5
<1> QED BY <1>1, <1>2 DEF Booting

LEMMA InvNext == ApprovalInv /\ [Next]_vars => ApprovalInv'
<1> SUFFICES ASSUME ApprovalInv, [Next]_vars PROVE ApprovalInv' OBVIOUS
<1>1. CASE Next
  BY <1>1, CallbackStep, LoopStep, AnsweringStep, BootingStep DEF Next
<1>2. CASE UNCHANGED vars
  BY <1>2 DEF vars, ApprovalInv, TypeOK, FuturesFollowRows,
              CommittedIsAnswered, AskersHaveRows, SessionsOnRequests
<1> QED BY <1>1, <1>2

LEMMA Invariance == Spec => []ApprovalInv
BY InitInv, InvNext, PTL DEF Spec

\* Requests, futures, sessions and tasks keep their types.
THEOREM ApprovalTypes == Spec => []TypeOK
<1>1. ApprovalInv => TypeOK BY DEF ApprovalInv
<1> QED BY <1>1, Invariance, PTL

-----------------------------------------------------------------------------
(* The promises.                                                           *)

\* A paused session goes on only past a request whose row says approved:
\* _handle_approval_request hears the future, and futures follow rows.
THEOREM PausedSessionsGoOnApproved == Spec => GoesOnApproved
<1>1. ASSUME ApprovalInv, [Next]_vars, NEW j \in Jobs,
             session[j].pc = "waiting", session'[j].pc = "reading",
             restarts' = restarts
      PROVE  row[session[j].on] = "approved"
  <2> USE <1>1 DEF ApprovalInv, TypeOK
  <2>1. session[j].on \in Approvals BY DEF SessionsOnRequests
  <2>2. Hear(j) /\ future[session[j].on] = "approved"
    <3>1. ASSUME UNCHANGED session PROVE FALSE BY <3>1
    <3>2. ASSUME NEW a \in Approvals, Callback(a) PROVE FALSE
      BY <3>1, <3>2 DEF Callback, Ask, Register, AskerHears, loops
    <3>3. ASSUME Answering PROVE FALSE
      BY <3>1, <3>3 DEF Answering, Resolve, FinishResolve, Trust, TrustNext,
                        loops
    <3>4. ASSUME Booting PROVE FALSE
      BY <3>1, <3>4, BoundAssumption
      DEF Booting, Restart, ListPending, RecoverPending, loops
    <3>5. PICK k \in Jobs : Loop(k)
      BY <3>1, <3>2, <3>3, <3>4 DEF Next, vars
    <3>6. k = j
      BY <3>5 DEF Loop, StartSession, TakeEvent, BeginWait, Hear, EndTurn,
                  Cancel, Leave, Cleanup, RejectLeftovers, Step, loops
    <3> QED
      BY <3>5, <3>6 DEF Loop, StartSession, TakeEvent, BeginWait, Hear,
                        EndTurn, Cancel, Leave, Cleanup, RejectLeftovers, Step, loops
  <2> QED BY <2>1, <2>2 DEF FuturesFollowRows
<1>2. ApprovalInv /\ [Next]_vars =>
        [\A j \in Jobs :
          session[j].pc = "waiting" /\ session'[j].pc = "reading"
          /\ restarts' = restarts
              => row[session[j].on] = "approved"]_vars
  BY <1>1
<1> QED BY <1>2, Invariance, PTL DEF Spec, GoesOnApproved

-----------------------------------------------------------------------------
(* The service implements its contract.                                    *)

\* What the contract calls told.
Told == [a \in Approvals |->
            IF asker[a] \in {"saved", "waiting"} THEN "asking" ELSE asker[a]]

LEMMA ContractStutter ==
    ASSUME UNCHANGED <<row, asker>>
    PROVE  UNCHANGED Contract!promise
BY DEF Contract!promise

LEMMA ContractInitial == Init => Contract!ContractInit
BY DEF Init, Contract!ContractInit

\* A commit is the contract's answer to one request.
LEMMA CommitAnswers ==
    ASSUME ApprovalInv, NEW a \in Approvals, NEW decision \in Decisions,
           NEW by, Commit(a, decision, by), UNCHANGED asker
    PROVE  Contract!ContractNext
<1> USE DEF ApprovalInv, TypeOK, Commit
<1>1. row' = [b \in Approvals |-> IF b \in {a} THEN decision ELSE row[b]]
  OBVIOUS
<1>2. Contract!Answer({a}, decision) BY <1>1 DEF Contract!Answer
<1> QED BY <1>2 DEF Contract!ContractNext, Contract!Answers

LEMMA CallbackContract ==
    ASSUME ApprovalInv, NEW a \in Approvals, Callback(a)
    PROVE  [Contract!ContractNext]_Contract!promise
<1> USE DEF ApprovalInv, TypeOK
<1>1. CASE Ask(a)
  <2>1. asker[a] = "idle" BY <1>1 DEF Ask, AskersHaveRows
  <2>2. Told' = [Told EXCEPT ![a] = "asking"] BY <1>1 DEF Ask, Told
  <2>3. Contract!Submit(a) BY <1>1, <2>1, <2>2 DEF Ask, Told, Contract!Submit
  <2> QED BY <2>3 DEF Contract!ContractNext
<1>2. CASE Register(a)
  <2>1. Told' = Told BY <1>2 DEF Register, Told
  <2> QED BY <1>2, <2>1 DEF Register, Told, Contract!promise
<1>3. CASE AskerHears(a)
  <2> USE <1>3 DEF AskerHears
  <2>1. future[a] \in Decisions \cup {"canceled"} BY DEF AskersHaveRows
  <2>2. Told' = [Told EXCEPT ![a] = future[a]] BY <2>1 DEF Told
  <2>3. CASE future[a] \in Decisions
    <3>1. row[a] = future[a] BY <2>3 DEF FuturesFollowRows
    <3>2. Contract!Tell(a)
      BY <2>2, <2>3, <3>1 DEF Told, Contract!Tell, Contract!Answers
    <3> QED BY <3>2 DEF Contract!ContractNext
  <2>4. CASE future[a] = "canceled"
    <3>1. Told' = [b \in Approvals |-> IF b \in {a} THEN "canceled" ELSE Told[b]]
      BY <2>2, <2>4 DEF Told
    <3>2. Contract!LetGo({a}) BY <3>1 DEF Told, Contract!LetGo
    <3> QED BY <3>2 DEF Contract!ContractNext
  <2> QED BY <2>1, <2>3, <2>4
<1> QED BY <1>1, <1>2, <1>3 DEF Callback

LEMMA AnsweringContract ==
    ASSUME ApprovalInv, Answering
    PROVE  [Contract!ContractNext]_Contract!promise
<1>1. ASSUME NEW a \in Approvals, Resolve(a)
      PROVE  Contract!ContractNext
  BY <1>1, CommitAnswers DEF Resolve
<1>2. ASSUME NEW call \in answering, FinishResolve(call)
      PROVE  UNCHANGED Contract!promise
  BY <1>2, ContractStutter DEF FinishResolve
<1>3. ASSUME NEW j \in Jobs, Trust(j)
      PROVE  UNCHANGED Contract!promise
  BY <1>3, ContractStutter DEF Trust
<1>4. ASSUME NEW j \in Jobs, NEW a \in Approvals, TrustNext(j, a)
      PROVE  [Contract!ContractNext]_Contract!promise
  <2>1. CASE Commit(a, "approved", "trust")
    BY <1>4, <2>1, CommitAnswers DEF TrustNext
  <2>2. CASE UNCHANGED <<row, answering>>
    BY <1>4, <2>2, ContractStutter DEF TrustNext
  <2> QED BY <1>4, <2>1, <2>2 DEF TrustNext
<1> QED BY <1>1, <1>2, <1>3, <1>4 DEF Answering

LEMMA LoopContract ==
    ASSUME ApprovalInv, NEW j \in Jobs, Loop(j)
    PROVE  [Contract!ContractNext]_Contract!promise
<1>1. ASSUME NEW gone \in leftovers[j], RejectLeftovers(j, gone)
      PROVE  Contract!ContractNext
  <2>1. PICK some \in SUBSET Approvals :
            some = {a \in gone : row[a] = "pending"}
    BY <1>1 DEF ApprovalInv, TypeOK
  <2>2. row' = [a \in Approvals |-> IF a \in some THEN "rejected" ELSE row[a]]
    BY <1>1, <2>1 DEF RejectLeftovers
  <2>3. Contract!Answer(some, "rejected")
    BY <1>1, <2>1, <2>2 DEF RejectLeftovers, Contract!Answer
  <2> QED BY <2>3 DEF Contract!ContractNext, Contract!Answers
<1>2. ASSUME ~\E gone \in leftovers[j] : RejectLeftovers(j, gone)
      PROVE  UNCHANGED Contract!promise
  BY <1>2, ContractStutter
  DEF Loop, StartSession, TakeEvent, BeginWait, Hear, EndTurn, Cancel, Leave,
      Cleanup
<1> QED BY <1>1, <1>2

LEMMA BootingContract ==
    ASSUME ApprovalInv, Booting
    PROVE  [Contract!ContractNext]_Contract!promise
<1>1. CASE Restart
  <2>1. PICK gone \in SUBSET Approvals :
            gone = {a \in Approvals : asker[a] \in {"saved", "waiting"}}
    OBVIOUS
  <2>2. Told' = [a \in Approvals |-> IF a \in gone THEN "canceled" ELSE Told[a]]
    BY <1>1, <2>1 DEF Restart, Told, ApprovalInv, TypeOK
  <2>3. Contract!LetGo(gone)
    BY <1>1, <2>1, <2>2 DEF Restart, Told, Contract!LetGo
  <2> QED BY <2>3 DEF Contract!ContractNext
<1>2. CASE ListPending \/ RecoverPending
  BY <1>2, ContractStutter DEF ListPending, RecoverPending
<1> QED BY <1>1, <1>2 DEF Booting

\* Whatever operators, trust grants, cleanups and restarts do: a request is
\* answered at most once, by the compare-and-swap on its row, and its
\* callback hears that answer or is let go.
THEOREM ServiceKeepsContract == Spec => ImplementsContract
<1>1. ApprovalInv /\ [Next]_vars => [Contract!ContractNext]_Contract!promise
  <2> SUFFICES ASSUME ApprovalInv, [Next]_vars
               PROVE  [Contract!ContractNext]_Contract!promise
    OBVIOUS
  <2>1. CASE Next
    BY <2>1, CallbackContract, LoopContract, AnsweringContract,
       BootingContract DEF Next
  <2>2. CASE UNCHANGED vars BY <2>2, ContractStutter DEF vars
  <2> QED BY <2>1, <2>2
<1> QED
  BY <1>1, ContractInitial, Invariance, PTL
  DEF Spec, ImplementsContract, Contract!ContractSpec

-----------------------------------------------------------------------------
(* Trust.                                                                  *)

\* While the backend is not restarted, every tracked explicit request is
\* known as one, and no trust grant has taken one up.
ExplicitKept ==
    /\ restarts = 0
    /\ boot = "done"
    /\ tracked \cap Explicit \subseteq explicitIds
    /\ \A j \in Jobs : trusting[j] \cap Explicit = {}
    /\ TrustSparesExplicit

LEMMA ExplicitStep ==
    ASSUME MaxRestarts = 0, TypeOK, ExplicitKept, [Next]_vars
    PROVE  ExplicitKept'
<1> USE DEF TypeOK, ExplicitKept, TrustSparesExplicit, service, loops, tasks,
            startup
<1>1. ASSUME NEW a \in Approvals, Callback(a) PROVE ExplicitKept'
  BY <1>1 DEF Callback, Ask, Register, AskerHears
<1>2. ASSUME NEW a \in Approvals, Resolve(a) PROVE ExplicitKept'
  <2>1. \A call \in answering' : call.by = "trust" => call \in answering
    BY <1>2 DEF Resolve, Commit
  <2> QED BY <1>2, <2>1 DEF Resolve
<1>3. ASSUME NEW call \in answering, FinishResolve(call) PROVE ExplicitKept'
  BY <1>3 DEF FinishResolve
<1>4. ASSUME NEW j \in Jobs, Trust(j) PROVE ExplicitKept'
  BY <1>4 DEF Trust
<1>5. ASSUME NEW j \in Jobs, NEW a \in Approvals, TrustNext(j, a)
      PROVE  ExplicitKept'
  <2>1. \A call \in answering' : call.approval = a \/ call \in answering
    BY <1>5 DEF TrustNext, Commit
  <2>2. a \notin Explicit BY <1>5 DEF TrustNext
  <2>3. \A k \in Jobs : trusting'[k] \subseteq trusting[k]
    BY <1>5 DEF TrustNext
  <2> QED BY <1>5, <2>1, <2>2, <2>3 DEF TrustNext
<1>6. ASSUME NEW j \in Jobs, Loop(j) PROVE ExplicitKept'
  BY <1>6 DEF Loop, StartSession, TakeEvent, BeginWait, Hear, EndTurn, Cancel,
              Leave, Cleanup, RejectLeftovers
<1>7. ASSUME Booting PROVE FALSE
  BY <1>7 DEF Booting, Restart, ListPending, RecoverPending
<1>8. CASE UNCHANGED vars BY <1>8 DEF vars
<1> QED BY <1>1, <1>2, <1>3, <1>4, <1>5, <1>6, <1>7, <1>8 DEF Next, Answering

\* In one life of the backend a trust grant never answers a request that
\* asks for an explicit answer.  The hypothesis is needed: the explicit ids are
\* not restored by recover_pending_approvals.
THEOREM TrustSparesExplicitInOneLife ==
    ASSUME MaxRestarts = 0
    PROVE  Spec => []TrustSparesExplicit
<1>1. Init => ExplicitKept
  BY DEF Init, ExplicitKept, TrustSparesExplicit
<1>2. TypeOK /\ ExplicitKept /\ [Next]_vars => ExplicitKept'
  BY ExplicitStep
<1>3. ExplicitKept => TrustSparesExplicit BY DEF ExplicitKept
<1> QED BY <1>1, <1>2, <1>3, ApprovalTypes, PTL DEF Spec

=============================================================================
