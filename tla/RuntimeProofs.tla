---------------------------- MODULE RuntimeProofs ----------------------------
(***************************************************************************)
(* Proofs about Runtime, for every set of jobs, every capacity and number  *)
(* of requests.  For every choice of events: types, the capacity of _tasks, *)
(* the entries of _tasks, and that no start replaces a task.               *)
(* Under named conditions on CancelWhen, ResumeWhen and Env: rows change   *)
(* by the table; one coroutine at a time works on a job until the first    *)
(* restart, and so agents stay within capacity, rows in running have an    *)
(* owner, rows in waiting_for_approval somebody who waits, finished jobs   *)
(* run again as new sessions, and a shutdown cancels nothing.              *)
(***************************************************************************)
EXTENDS Runtime, FiniteSetTheorems, TLAPS

-----------------------------------------------------------------------------
(* Types.                                                                  *)

\* A holder of the lock, and a call under way, name what they act for.
StarterNames ==
    /\ lock.step # "none" => lock.job \in Jobs
    /\ lock.kind = "call" => lock.who \in Procs
    /\ lock.kind = "dequeue" => lock.who \in Slots
    /\ \A p \in Procs : call[p].pc # "idle" => call[p].job \in Jobs

TypeInv == TypeOK /\ StarterNames

RowState == JobState \cup {Unborn}
Pc == Registrable \cup Leaving \cup {"none"}

\* _fail_job and the cancel handlers leave a state of the table in the row.
LEMMA RowWrites ==
    ASSUME NEW state \in RowState
    PROVE  FailJob(state) \in RowState /\ CanceledRow(state) \in RowState
BY DEF FailJob, TransitionOr, CanceledRow, RowState, JobState

\* Moving one coroutine along keeps all of them coroutines.
LEMMA MoveType ==
    ASSUME TypeOK, NEW s \in Slots, NEW pc \in Pc, Move(s, pc)
    PROVE  coro' \in [Slots -> Coroutine]
<1>1. coro[s] \in Coroutine
    BY DEF TypeOK
<1>2. [coro[s] EXCEPT !.pc = pc] \in Coroutine
    BY <1>1 DEF Coroutine, Pc
<1>3. QED
    BY <1>2 DEF TypeOK, Move

\* So does letting one return to its caller.
LEMMA ReturnedType ==
    ASSUME TypeOK, NEW s \in Slots, NEW registered
    PROVE  Returned(s, registered) \in [Slots -> Coroutine]
<1>1. coro[s] \in Coroutine /\ NoCoroutine \in Coroutine
    BY DEF TypeOK, NoCoroutine, Coroutine, NoJob
<1>2. [coro[s] EXCEPT !.pc = "settling", !.last = TRUE] \in Coroutine
    BY <1>1 DEF Coroutine, Registrable
<1>3. QED
    BY <1>1, <1>2 DEF TypeOK, Returned

\* The values that stand for nothing under way.
LEMMA IdleTypes ==
    IdleCall \in CallRecord /\ Free \in LockRecord /\ NoCoroutine \in Coroutine
BY DEF IdleCall, CallRecord, Free, LockRecord, NoCoroutine, Coroutine, NoJob

LEMMA EscapedType ==
    ASSUME TypeOK, NEW s \in Slots, Escaped(s)
    PROVE  coro' \in [Slots -> Coroutine]
<1>1. coro[s] \in Coroutine /\ NoCoroutine \in Coroutine
    BY DEF TypeOK, NoCoroutine, Coroutine, NoJob
<1>2. [coro[s] EXCEPT !.pc = "settling", !.last = TRUE] \in Coroutine
    BY <1>1 DEF Coroutine, Registrable
<1>3. QED
    BY <1>1, <1>2 DEF TypeOK, Escaped

LEMMA AfterStartType ==
    ASSUME TypeInv, NEW registered
    PROVE  AfterStart(registered) \in [Slots -> Coroutine]
BY ReturnedType DEF AfterStart, TypeInv, TypeOK, StarterNames

\* So does task.cancel(): it moves a coroutine to one of these places.
Landings == {"ended", "netting", "canceling", "artifacts"}

LEMMA CancelledLands ==
    ASSUME NEW c, NEW swallowed \in BOOLEAN
    PROVE  \E pc \in Landings \cup {c.pc} :
              /\ Cancelled(c, swallowed) = [c EXCEPT !.pc = pc]
              /\ pc # c.pc => c.pc \in Registrable
<1>1. CASE c.pc \notin {"created", "entering", "executing", "awaiting",
                       "merging", "settling", "artifacts"}
    BY <1>1 DEF Cancelled
<1>2. CASE c.pc \in {"created", "entering"}
    BY <1>2 DEF Cancelled, Landings, Registrable
<1>3. CASE c.pc \in {"executing", "awaiting", "merging"}
    BY <1>3 DEF Cancelled, Landings, Registrable
<1>4. CASE c.pc = "settling"
    BY <1>4 DEF Cancelled, Landings, Registrable
<1>5. CASE c.pc = "artifacts"
    BY <1>5 DEF Cancelled, Landings, Registrable
<1>6. QED
    BY <1>1, <1>2, <1>3, <1>4, <1>5

LEMMA CancelledType ==
    ASSUME NEW c \in Coroutine, NEW swallowed \in BOOLEAN
    PROVE  Cancelled(c, swallowed) \in Coroutine
<1>1. PICK pc \in Landings \cup {c.pc} :
        Cancelled(c, swallowed) = [c EXCEPT !.pc = pc]
    BY CancelledLands
<1>2. pc \in Pc
    BY DEF Coroutine, Pc, Landings, Registrable
<1>3. QED
    BY <1>1, <1>2 DEF Coroutine, Pc

\* The holder's return leaves the lock, the set-ups and the calls well typed.
LEMMA ReleaseLockType ==
    ASSUME TypeInv, ReleaseLock
    PROVE  /\ lock' \in LockRecord /\ lock' = Free
           /\ setup' \in [Jobs -> SetupPc]
           /\ call' \in [Procs -> CallRecord]
           /\ \A p \in Procs : call'[p] = call[p] \/ call'[p] = IdleCall
BY DEF TypeInv, TypeOK, ReleaseLock, Free, IdleCall, LockRecord, CallRecord,
       SetupPc, NoJob

LEMMA TypeNext == TypeInv /\ [Next]_vars => TypeInv'
<1> SUFFICES ASSUME TypeInv, [Next]_vars PROVE TypeInv'
    OBVIOUS
<1>1. ASSUME NEW j \in Jobs, CreateJob(j) PROVE TypeInv'
    BY <1>1 DEF CreateJob, NewRow, Born, TypeInv, TypeOK, StarterNames, rows,
       starters, sessions, boot, CallRecord, LockRecord, SetupPc, JobState,
       TERMINAL_STATES, Unborn, NoJob, Procs
<1>2. ASSUME NEW j \in Jobs, BeginSetup(j) PROVE TypeInv'
    BY <1>2 DEF BeginSetup, FailJob, TransitionOr, TypeInv, TypeOK,
       StarterNames, rows, starters, sessions, boot, CallRecord, LockRecord,
       SetupPc, JobState, TERMINAL_STATES, Unborn, NoJob, Procs
<1>3. ASSUME NEW j \in Jobs, FinishSetup(j) PROVE TypeInv'
    BY <1>3 DEF FinishSetup, TypeInv, TypeOK, StarterNames, rows, starters,
       sessions, boot, CallRecord, LockRecord, SetupPc, JobState,
       TERMINAL_STATES, Unborn, NoJob, Procs
<1>4. ASSUME NEW j \in Jobs, SetupFails(j) PROVE TypeInv'
    BY <1>4 DEF SetupFails, FailJob, TransitionOr, TypeInv, TypeOK,
       StarterNames, rows, starters, sessions, boot, CallRecord, LockRecord,
       SetupPc, JobState, TERMINAL_STATES, Unborn, NoJob, Procs
<1>5. ASSUME NEW j \in Jobs, SetupEnters(j) PROVE TypeInv'
    BY <1>5 DEF SetupEnters, Admits, Holding, Enqueue, TypeInv, TypeOK,
       StarterNames, rows, starters, sessions, boot, CallRecord, LockRecord,
       SetupPc, JobState, TERMINAL_STATES, Unborn, NoJob, Procs
<1>6. ASSUME NEW j \in Jobs, Cancel(j) PROVE TypeInv'
  <2>1. coro' \in [Slots -> Coroutine]
      BY <1>6, CancelledType DEF Cancel, TypeInv, TypeOK
  <2>2. QED
      BY <1>6, <2>1 DEF Cancel, TypeInv, TypeOK, StarterNames, rows, starters,
         boot, JobState, TERMINAL_STATES
<1>7. ASSUME NEW j \in Jobs, ResolveJob(j) PROVE TypeInv'
    BY <1>7 DEF ResolveJob, TypeInv, TypeOK, StarterNames, rows, starters,
       sessions, boot, CallRecord, LockRecord, SetupPc, JobState,
       TERMINAL_STATES, Unborn, NoJob, Procs
<1>8. ASSUME NEW p \in Requests, NEW j \in Jobs, ResumeJob(p, j) PROVE TypeInv'
    BY <1>8 DEF ResumeJob, BeginCall, TypeInv, TypeOK, StarterNames, rows,
       starters, sessions, boot, CallRecord, LockRecord, SetupPc, JobState,
       TERMINAL_STATES, Unborn, NoJob, Procs
<1>9. ASSUME NEW p \in Requests, NEW j \in Jobs, SendMessage(p, j) PROVE TypeInv'
    BY <1>9 DEF SendMessage, BeginCall, TypeInv, TypeOK, StarterNames, rows,
       starters, sessions, boot, CallRecord, LockRecord, SetupPc, JobState,
       TERMINAL_STATES, Unborn, NoJob, Procs
<1>10. ASSUME NEW p \in Requests, NEW j \in Jobs, RerunJob(p, j) PROVE TypeInv'
    BY <1>10 DEF RerunJob, NewRow, TypeInv, TypeOK, StarterNames, rows,
       starters, sessions, boot, CallRecord, LockRecord, SetupPc, JobState,
       TERMINAL_STATES, Unborn, NoJob, Procs
<1>11. ASSUME NEW p \in Procs, ResetRow(p) PROVE TypeInv'
    BY <1>11 DEF ResetRow, TypeInv, TypeOK, StarterNames, rows, starters,
       sessions, boot, CallRecord, LockRecord, SetupPc, JobState,
       TERMINAL_STATES, Unborn, NoJob, Procs
<1>12. ASSUME NEW p \in Procs, BuildFails(p) PROVE TypeInv'
    BY <1>12 DEF BuildFails, IdleCall, TypeInv, TypeOK, StarterNames, rows,
       starters, sessions, boot, CallRecord, LockRecord, SetupPc, JobState,
       TERMINAL_STATES, Unborn, NoJob, Procs
<1>13. ASSUME NEW p \in Procs, CallEnters(p) PROVE TypeInv'
    BY <1>13 DEF CallEnters, Admits, Holding, Enqueue, LoadedState, IdleCall,
       TypeInv, TypeOK, StarterNames, rows, starters, sessions, boot,
       CallRecord, LockRecord, SetupPc, JobState, TERMINAL_STATES, Unborn,
       NoJob, Procs
<1>14. CASE ClaimWins
    BY <1>14 DEF ClaimWins, TypeInv, TypeOK, StarterNames, rows, starters,
       sessions, boot, CallRecord, LockRecord, SetupPc, JobState,
       TERMINAL_STATES, Unborn, NoJob, Procs
<1>15. CASE ClaimLost
    BY <1>15, ReleaseLockType, AfterStartType DEF ClaimLost, TypeInv, TypeOK,
       StarterNames, rows, boot, Free, IdleCall
<1>16. CASE PreflightDone
    BY <1>16 DEF PreflightDone, TypeInv, TypeOK, StarterNames, rows, starters,
       sessions, boot, CallRecord, LockRecord, SetupPc, JobState,
       TERMINAL_STATES, Unborn, NoJob, Procs
<1>17. CASE PreflightCanceled
    BY <1>17, ReleaseLockType, AfterStartType DEF PreflightCanceled, TypeInv,
       TypeOK, StarterNames, rows, boot, Free, IdleCall
<1>18. CASE Launch
  <2>1. PICK s \in FreeSlots : Launch!(s)
      BY <1>18 DEF Launch
  <2>2. s \in Slots
      BY DEF FreeSlots
  <2>3. [job |-> lock.job, pc |-> "created", last |-> FALSE] \in Coroutine
      BY DEF TypeInv, TypeOK, LockRecord, Coroutine, Registrable
  <2>4. coro' \in [Slots -> Coroutine]
      BY <2>1, <2>2, <2>3, AfterStartType
  <2>5. tasks' \in [Jobs -> Slots \cup {NoSlot}]
      BY <2>1, <2>2 DEF TypeInv, TypeOK
  <2>6. ReleaseLock /\ UNCHANGED <<rows, agents, pending, boot>>
      BY <2>1
  <2>7. QED
      BY <2>4, <2>5, <2>6, ReleaseLockType DEF TypeInv, TypeOK, StarterNames,
         rows, boot, Free, IdleCall
<1>19. CASE StartRaises
  <2>1. Restores => call[lock.who] \in CallRecord
      BY DEF Restores, TypeInv, TypeOK, StarterNames
  <2>2. Restores => call[lock.who].prev \in RowState /\ call[lock.who].count \in Nat
      BY <2>1 DEF CallRecord, RowState
  <2>3. lock.loaded \in RowState /\ FailJob(lock.loaded) \in RowState
      BY RowWrites DEF TypeInv, TypeOK, LockRecord, RowState
  <2>4. db' \in [Jobs -> RowState] /\ count' \in [Jobs -> Nat]
      BY <1>19, <2>2, <2>3 DEF StartRaises, TypeInv, TypeOK, RowState
  <2>5. QED
      BY <1>19, <2>4, ReleaseLockType, AfterStartType DEF StartRaises,
         TypeInv, TypeOK, StarterNames, RowState, Free, IdleCall
<1>20. ASSUME NEW s \in Slots, Complete(s) PROVE TypeInv'
  <2>1. coro' \in [Slots -> Coroutine]
      BY <1>20, MoveType DEF Complete, TypeInv, Pc, Registrable
  <2>2. db' \in [Jobs -> RowState]
      BY <1>20, RowWrites DEF Complete, TypeInv, TypeOK, RowState, JobState,
         rows
  <2>3. QED
      BY <1>20, <2>1, <2>2 DEF Complete, TypeInv, TypeOK, StarterNames,
         RowState, rows, starters, boot
<1>21. ASSUME NEW s \in Slots, MergeDone(s) PROVE TypeInv'
  <2>1. coro' \in [Slots -> Coroutine]
      BY <1>21, MoveType DEF MergeDone, TypeInv, Pc, Registrable
  <2>2. db' \in [Jobs -> RowState]
      BY <1>21, RowWrites DEF MergeDone, TypeInv, TypeOK, RowState, JobState,
         rows
  <2>3. QED
      BY <1>21, <2>1, <2>2 DEF MergeDone, TypeInv, TypeOK, StarterNames,
         RowState, rows, starters, boot
<1>22. ASSUME NEW s \in Slots, FailSession(s) PROVE TypeInv'
  <2>1. coro' \in [Slots -> Coroutine]
      BY <1>22, MoveType DEF FailSession, TypeInv, Pc, Registrable
  <2>2. db' \in [Jobs -> RowState]
      BY <1>22, RowWrites DEF FailSession, TypeInv, TypeOK, RowState,
         JobState, rows
  <2>3. QED
      BY <1>22, <2>1, <2>2 DEF FailSession, TypeInv, TypeOK, StarterNames,
         RowState, rows, starters, boot
<1>23. ASSUME NEW s \in Slots, RequestApproval(s) PROVE TypeInv'
  <2>1. coro' \in [Slots -> Coroutine]
      BY <1>23, MoveType DEF RequestApproval, TypeInv, Pc, Registrable
  <2>2. db' \in [Jobs -> RowState]
      BY <1>23, RowWrites DEF RequestApproval, TypeInv, TypeOK, RowState,
         JobState, rows
  <2>3. QED
      BY <1>23, <2>1, <2>2 DEF RequestApproval, TypeInv, TypeOK, StarterNames,
         RowState, rows, starters, boot
<1>24. ASSUME NEW s \in Slots, ApprovalGranted(s) PROVE TypeInv'
  <2>1. coro' \in [Slots -> Coroutine]
      BY <1>24, MoveType DEF ApprovalGranted, TypeInv, Pc, Registrable
  <2>2. db' \in [Jobs -> RowState]
      BY <1>24, RowWrites DEF ApprovalGranted, TypeInv, TypeOK, RowState,
         JobState, rows
  <2>3. QED
      BY <1>24, <2>1, <2>2 DEF ApprovalGranted, TypeInv, TypeOK, StarterNames,
         RowState, rows, starters, boot
<1>25. ASSUME NEW s \in Slots, ApprovalRejected(s) PROVE TypeInv'
  <2>1. coro' \in [Slots -> Coroutine]
      BY <1>25, MoveType DEF ApprovalRejected, TypeInv, Pc, Registrable
  <2>2. db' \in [Jobs -> RowState]
      BY <1>25, RowWrites DEF ApprovalRejected, TypeInv, TypeOK, RowState,
         JobState, rows
  <2>3. QED
      BY <1>25, <2>1, <2>2 DEF ApprovalRejected, TypeInv, TypeOK,
         StarterNames, RowState, rows, starters, boot
<1>26. ASSUME NEW s \in Slots, HandleCanceled(s) PROVE TypeInv'
  <2>1. coro' \in [Slots -> Coroutine]
      BY <1>26, MoveType DEF HandleCanceled, TypeInv, Pc, Registrable
  <2>2. db' \in [Jobs -> RowState]
      BY <1>26, RowWrites DEF HandleCanceled, TypeInv, TypeOK, RowState,
         JobState, rows
  <2>3. QED
      BY <1>26, <2>1, <2>2 DEF HandleCanceled, TypeInv, TypeOK, StarterNames,
         RowState, rows, starters, boot
<1>27. ASSUME NEW s \in Slots, AbortDone(s) PROVE TypeInv'
  <2>1. coro' \in [Slots -> Coroutine]
      BY <1>27, MoveType DEF AbortDone, TypeInv, Pc, Registrable
  <2>2. db' \in [Jobs -> RowState]
      BY <1>27, RowWrites DEF AbortDone, TypeInv, TypeOK, RowState, JobState,
         rows
  <2>3. QED
      BY <1>27, <2>1, <2>2 DEF AbortDone, TypeInv, TypeOK, StarterNames,
         RowState, rows, starters, boot
<1>28. ASSUME NEW s \in Slots, CancelSafetyNet(s) PROVE TypeInv'
  <2>1. coro' \in [Slots -> Coroutine]
      BY <1>28, EscapedType DEF CancelSafetyNet, TypeInv
  <2>2. db' \in [Jobs -> RowState]
      BY <1>28, RowWrites DEF CancelSafetyNet, TypeInv, TypeOK, RowState
  <2>3. QED
      BY <1>28, <2>1, <2>2 DEF CancelSafetyNet, TypeInv, TypeOK, StarterNames,
         RowState, starters, boot
<1>29. ASSUME NEW s \in Slots, EnsureTerminal(s) PROVE TypeInv'
  <2>1. coro' \in [Slots -> Coroutine]
      BY <1>29, MoveType DEF EnsureTerminal, TypeInv, Pc, Registrable
  <2>2. db' \in [Jobs -> RowState]
      BY <1>29, RowWrites DEF EnsureTerminal, TypeInv, TypeOK, RowState,
         JobState, rows
  <2>3. QED
      BY <1>29, <2>1, <2>2 DEF EnsureTerminal, TypeInv, TypeOK, StarterNames,
         RowState, rows, starters, boot
<1>30. ASSUME NEW s \in Slots, DropJobState(s) PROVE TypeInv'
  <2>1. coro' \in [Slots -> Coroutine]
      BY <1>30, MoveType DEF DropJobState, TypeInv, Pc, Leaving
  <2>2. QED
      BY <1>30, <2>1 DEF DropJobState, TypeInv, TypeOK, StarterNames, rows,
         starters, boot, NoSlot
<1>31. ASSUME NEW s \in Slots, CleanupApprovals(s) PROVE TypeInv'
  <2>1. \A t \in Slots : [coro[t] EXCEPT !.pc = "dequeuing"] \in Coroutine
      BY DEF TypeInv, TypeOK, Coroutine, Leaving
  <2>2. \A t \in Slots : [coro[t] EXCEPT !.pc = "canceling"] \in Coroutine
      BY DEF TypeInv, TypeOK, Coroutine, Registrable
  <2>3. coro' \in [Slots -> Coroutine]
      BY <1>31, <2>1, <2>2 DEF CleanupApprovals, TypeInv, TypeOK
  <2>4. QED
      BY <1>31, <2>3 DEF CleanupApprovals, TypeInv, TypeOK, StarterNames,
         rows, starters, boot
<1>32. ASSUME NEW s \in Slots, DequeueNothing(s) PROVE TypeInv'
  <2>1. coro' \in [Slots -> Coroutine]
      BY <1>32, ReturnedType DEF DequeueNothing, TypeInv
  <2>2. QED
      BY <1>32, <2>1 DEF DequeueNothing, TypeInv, TypeOK, StarterNames, rows,
         starters, boot
<1>33. ASSUME NEW s \in Slots, DequeueStart(s) PROVE TypeInv'
  <2>1. coro' \in [Slots -> Coroutine]
      BY <1>33, MoveType DEF DequeueStart, TypeInv, Pc, Leaving
  <2>2. QED
      BY <1>33, <2>1 DEF DequeueStart, TypeInv, TypeOK, StarterNames, rows,
         boot, Holding, LockRecord
<1>34. CASE Shutdown
  <2>1. coro' \in [Slots -> Coroutine]
      BY <1>34, CancelledType DEF Shutdown, TypeInv, TypeOK
  <2>2. QED
      BY <1>34, <2>1 DEF Shutdown, TypeInv, TypeOK, StarterNames, rows,
         starters, boot, JobState, TERMINAL_STATES
<1>35. CASE Restart
  <2>1. /\ call' \in [Procs -> CallRecord] /\ lock' \in LockRecord
        /\ coro' \in [Slots -> Coroutine]
      BY <1>35, IdleTypes DEF Restart
  <2>2. setup' \in [Jobs -> SetupPc]
      BY <1>35 DEF Restart, SetupPc
  <2>3. db' \in [Jobs -> RowState] /\ orphans' \subseteq Jobs
      BY <1>35 DEF Restart, TypeInv, TypeOK, RowState, JobState,
         TERMINAL_STATES
  <2>4. /\ tasks' \in [Jobs -> Slots \cup {NoSlot}] /\ restarts' \in Nat
        /\ agents' \subseteq Jobs /\ pending' \subseteq Jobs /\ requeue' \subseteq Jobs
        /\ count' \in [Jobs -> Nat]
      BY <1>35 DEF Restart, TypeInv, TypeOK
  <2>5. stopping' \in BOOLEAN
      BY <1>35 DEF Restart
  <2>6. StarterNames'
      BY <1>35 DEF Restart, StarterNames, Free, IdleCall
  <2>7. QED
      BY <2>1, <2>2, <2>3, <2>4, <2>5, <2>6 DEF TypeInv, TypeOK, RowState
<1>36. CASE TurnedAway
    BY <1>36 DEF TurnedAway, IdleCall, TypeInv, TypeOK, StarterNames, rows,
       starters, sessions, boot, CallRecord, LockRecord, SetupPc, JobState,
       TERMINAL_STATES, Unborn, NoJob, Procs
<1>37. ASSUME NEW j \in Jobs, RecoverNext(j) PROVE TypeInv'
    BY <1>37 DEF RecoverNext, BeginCall, TypeInv, TypeOK, StarterNames, rows,
       starters, sessions, boot, CallRecord, LockRecord, SetupPc, JobState,
       TERMINAL_STATES, Unborn, NoJob, Procs
<1>38. ASSUME NEW j \in Jobs, RequeueNext(j) PROVE TypeInv'
    BY <1>38 DEF RequeueNext, TypeInv, TypeOK, StarterNames, rows, starters,
       sessions, boot, CallRecord, LockRecord, SetupPc, JobState,
       TERMINAL_STATES, Unborn, NoJob, Procs
<1>39. CASE UNCHANGED vars
    BY <1>39 DEF vars, TypeInv, TypeOK, StarterNames
<1>40. ASSUME NEW s \in Slots, BeginTask(s) \/ EnterSession(s) PROVE TypeInv'
  <2>1. coro' \in [Slots -> Coroutine]
      BY <1>40, MoveType DEF BeginTask, EnterSession, TypeInv, Pc, Registrable
  <2>2. QED
      BY <1>40, <2>1 DEF BeginTask, EnterSession, TypeInv, TypeOK,
         StarterNames, rows, starters, boot
<1>41. ASSUME NEW s \in Slots, EnterFails(s) PROVE TypeInv'
  <2>1. coro' \in [Slots -> Coroutine]
      BY <1>41, EscapedType DEF EnterFails, TypeInv
  <2>2. QED
      BY <1>41, <2>1 DEF EnterFails, TypeInv, TypeOK, StarterNames, rows,
         starters, boot
<1>42. QED
    BY <1>1, <1>2, <1>3, <1>4, <1>5, <1>6, <1>7, <1>8, <1>9, <1>10, <1>11,
       <1>12, <1>13, <1>14, <1>15, <1>16, <1>17, <1>18, <1>19, <1>20, <1>21,
       <1>22, <1>23, <1>24, <1>25, <1>26, <1>27, <1>28, <1>29, <1>30, <1>31,
       <1>32, <1>33, <1>34, <1>35, <1>36, <1>37, <1>38, <1>39, <1>40, <1>41 DEF Next, Setup,
       Operator, Request, Calling, Starting, Session, Cleanup, Booting

LEMMA InitTypes == Init => TypeInv
<1> SUFFICES ASSUME Init PROVE TypeInv
    OBVIOUS
<1>1. stopping \in BOOLEAN
    BY DEF Init
<1>2. StarterNames
    BY DEF Init, StarterNames, Free, IdleCall
<1>3. QED
    BY <1>1, <1>2, IdleTypes DEF Init, TypeInv, TypeOK, SetupPc

\* Every variable keeps its type: no row holds a state the table does not
\* know, whichever of the unconditional writes of set-up, resets, failed
\* starts and startup came last.
THEOREM TypeCorrect == Spec => []TypeOK
<1>1. TypeInv => TypeOK
    BY DEF TypeInv
<1>2. QED
    BY <1>1, InitTypes, TypeNext, PTL DEF Spec

-----------------------------------------------------------------------------
(* The capacity of _tasks and what its entries name.                       *)

\* The start its holder carries out had capacity, and a job that was not in
\* _tasks, when it took _dequeue_lock.  Nobody else adds to _tasks meanwhile,
\* so both still hold.
StartHasRoom ==
    lock.step # "none" => HasCapacity /\ tasks[lock.job] = NoSlot

\* A coroutine that starts the next job while it dequeues does nothing else.
DequeuerStarts ==
    lock.kind = "dequeue" => coro[lock.who].pc = "starting"

RuntimeInv ==
    /\ TypeInv
    /\ StartHasRoom
    /\ DequeuerStarts
    /\ CapacityRespected
    /\ RegistryNamesItsJob

\* Dropping entries of _tasks never takes more room.
LEMMA FewerTasks ==
    ASSUME NEW S \in SUBSET Jobs, NEW T \in SUBSET S
    PROVE  /\ IsFiniteSet(S) /\ Cardinality(S) \in Nat
           /\ Cardinality(T) \in Nat /\ Cardinality(T) <= Cardinality(S)
<1>1. IsFiniteSet(S)
    BY JobsAssumption, FS_Subset
<1>2. QED
    BY <1>1, FS_Subset, FS_CardinalityType

LEMMA RegisteredType == Registered \in SUBSET Jobs
BY DEF Registered

\* Steps that leave the lock, _tasks and the coroutines alone.
LEMMA FrameStep ==
    ASSUME RuntimeInv, TypeInv', UNCHANGED <<lock, tasks, coro>>
    PROVE  RuntimeInv'
BY DEF RuntimeInv, StartHasRoom, DequeuerStarts, CapacityRespected,
       RegistryNamesItsJob, HasCapacity, Registered

\* Steps of the holder of the lock that keep it.
LEMMA HolderStep ==
    ASSUME RuntimeInv, TypeInv', UNCHANGED <<tasks, coro>>, lock.step # "none",
           lock'.job = lock.job, lock'.kind = lock.kind, lock'.who = lock.who
    PROVE  RuntimeInv'
BY DEF RuntimeInv, StartHasRoom, DequeuerStarts, CapacityRespected,
       RegistryNamesItsJob, HasCapacity, Registered

\* Taking the lock for a start that set-up or a call asked for.
LEMMA EnterStep ==
    ASSUME RuntimeInv, TypeInv', UNCHANGED <<tasks, coro>>,
           NEW kind \in {"setup", "call"}, NEW who, NEW j \in Jobs, NEW loaded,
           lock = Free,
           lock' = IF Admits(j) THEN Holding(kind, who, j, loaded) ELSE lock
    PROVE  RuntimeInv'
<1>1. StartHasRoom'
    BY DEF StartHasRoom, Admits, Holding, Free, HasCapacity, Registered
<1>2. DequeuerStarts'
    BY DEF DequeuerStarts, Holding, Free
<1>3. QED
    BY <1>1, <1>2 DEF RuntimeInv, CapacityRespected, RegistryNamesItsJob,
       Registered

\* Steps of one session coroutine that stays one that may be in _tasks.
LEMMA SessionStep ==
    ASSUME RuntimeInv, TypeInv', UNCHANGED <<lock, tasks>>,
           NEW s \in Slots, NEW pc \in Registrable,
           coro[s].pc \in Registrable, Move(s, pc)
    PROVE  RuntimeInv'
<1>1. /\ coro'[s].pc = pc /\ coro'[s].job = coro[s].job
      /\ \A t \in Slots \ {s} : coro'[t] = coro[t]
    BY DEF Move, RuntimeInv, TypeInv, TypeOK, Coroutine
<1>2. DequeuerStarts'
    BY <1>1 DEF DequeuerStarts, RuntimeInv, TypeInv, StarterNames, Registrable
<1>3. RegistryNamesItsJob'
    BY <1>1 DEF RegistryNamesItsJob, RuntimeInv, Registered, TypeInv, TypeOK
<1>4. QED
    BY <1>2, <1>3 DEF RuntimeInv, StartHasRoom, HasCapacity, CapacityRespected,
       Registered

\* What returning to the caller does: the coroutine that was dequeuing is
\* none that _tasks names, and the others stay as they are.
LEMMA ReturnedFacts ==
    ASSUME RuntimeInv, NEW s \in Slots, NEW registered
    PROVE  \A t \in Slots \ {s} : Returned(s, registered)[t] = coro[t]
BY DEF Returned, RuntimeInv, TypeInv, TypeOK

\* A coroutine past the step that drops the job is not in _tasks.
LEMMA LeavingUnnamed ==
    ASSUME RuntimeInv, NEW s \in Slots, coro[s].pc \in Leaving
    PROVE  \A j \in Registered : tasks[j] # s
BY DEF RuntimeInv, RegistryNamesItsJob, Registrable, Leaving

\* The coroutines after the holder of the lock returned: those in _tasks are
\* as they were.
LEMMA AfterStartFacts ==
    ASSUME RuntimeInv, NEW registered
    PROVE  \A j \in Registered :
              AfterStart(registered)[tasks[j]] = coro[tasks[j]]
<1> SUFFICES ASSUME NEW j \in Registered
             PROVE  AfterStart(registered)[tasks[j]] = coro[tasks[j]]
    OBVIOUS
<1>1. tasks[j] \in Slots
    BY DEF Registered, RuntimeInv, TypeInv, TypeOK
<1>2. CASE lock.kind # "dequeue"
    BY <1>2 DEF AfterStart
<1>3. CASE lock.kind = "dequeue"
  <2>1. lock.who \in Slots /\ coro[lock.who].pc \in Leaving
      BY <1>3 DEF RuntimeInv, TypeInv, StarterNames, DequeuerStarts, Leaving
  <2>2. tasks[j] # lock.who
      BY <2>1, LeavingUnnamed
  <2>3. QED
      BY <1>1, <1>3, <2>1, <2>2, ReturnedFacts DEF AfterStart
<1>4. QED
    BY <1>2, <1>3

\* Giving the lock back without a start.
LEMMA ReleaseStep ==
    ASSUME RuntimeInv, TypeInv', UNCHANGED tasks, lock' = Free,
           coro' = AfterStart(tasks)
    PROVE  RuntimeInv'
<1>1. StartHasRoom' /\ DequeuerStarts'
    BY DEF StartHasRoom, DequeuerStarts, Free
<1>2. RegistryNamesItsJob'
    BY AfterStartFacts DEF RegistryNamesItsJob, RuntimeInv, Registered
<1>3. QED
    BY <1>1, <1>2 DEF RuntimeInv, CapacityRespected, Registered

\* The one step that adds to _tasks.
LEMMA LaunchStep ==
    ASSUME RuntimeInv, TypeInv', Launch
    PROVE  RuntimeInv'
<1>1. PICK s \in FreeSlots : Launch!(s)
    BY DEF Launch
<1> DEFINE registered == [tasks EXCEPT ![lock.job] = s]
<1>2. /\ s \in Slots /\ coro[s].pc = "none" /\ s # NoSlot
      /\ lock.job \in Jobs /\ lock.step # "none"
    BY <1>1, SlotsAssumption DEF FreeSlots, RuntimeInv, TypeInv, StarterNames, NoSlot
<1>3. /\ tasks' = registered /\ lock' = Free
      /\ coro' = [AfterStart(registered) EXCEPT ![s] =
                   [job |-> lock.job, pc |-> "created", last |-> FALSE]]
    BY <1>1, ReleaseLockType DEF RuntimeInv
<1>4. Registered' = Registered \cup {lock.job}
    BY <1>2, <1>3 DEF Registered, RuntimeInv, TypeInv, TypeOK
<1>5. CapacityRespected'
  <2>1. HasCapacity
      BY <1>2 DEF RuntimeInv, StartHasRoom
  <2>2. IsFiniteSet(Registered) /\ Cardinality(Registered) \in Nat
      BY FewerTasks, RegisteredType
  <2>3. Cardinality(Registered \cup {lock.job}) <= Cardinality(Registered) + 1
      BY <2>2, FS_AddElement
  <2>4. Cardinality(Registered \cup {lock.job}) \in Nat
      BY <2>2, FS_AddElement, FS_CardinalityType
  <2>5. QED
      BY <1>4, <2>1, <2>2, <2>3, <2>4, CapacityAssumption
         DEF HasCapacity, CapacityRespected
<1>6. RegistryNamesItsJob'
  <2>1. coro'[s] = [job |-> lock.job, pc |-> "created", last |-> FALSE]
      BY <1>2, <1>3, AfterStartType DEF RuntimeInv
  <2>2. \A j \in Registered : tasks[j] # s
      BY <1>2 DEF RuntimeInv, RegistryNamesItsJob, Registrable
  <2>3. \A j \in Registered : coro'[tasks[j]] = coro[tasks[j]]
      BY <1>3, <2>2, AfterStartFacts, AfterStartType
         DEF RuntimeInv, Registered, TypeInv, TypeOK
  <2>4. \A j \in Registered \ {lock.job} : tasks'[j] = tasks[j]
      BY <1>3 DEF RuntimeInv, TypeInv, TypeOK, Registered
  <2>5. tasks'[lock.job] = s
      BY <1>2, <1>3 DEF RuntimeInv, TypeInv, TypeOK
  <2>6. QED
      BY <1>4, <2>1, <2>3, <2>4, <2>5
         DEF RegistryNamesItsJob, RuntimeInv, Registrable
<1>7. StartHasRoom' /\ DequeuerStarts'
    BY <1>3 DEF StartHasRoom, DequeuerStarts, Free
<1>8. QED
    BY <1>5, <1>6, <1>7 DEF RuntimeInv

\* The cleanup drops the entry of its job, whichever coroutine it names.
LEMMA DropStep ==
    ASSUME RuntimeInv, TypeInv', NEW s \in Slots, DropJobState(s)
    PROVE  RuntimeInv'
<1>1. /\ coro'[s].pc = "postflight" /\ coro'[s].job = coro[s].job
      /\ \A t \in Slots \ {s} : coro'[t] = coro[t]
    BY DEF DropJobState, Move, RuntimeInv, TypeInv, TypeOK, Coroutine
<1>2. Registered' = Registered \ {coro[s].job}
    BY DEF DropJobState, Registered, RuntimeInv, TypeInv, TypeOK
<1>3. Cardinality(Registered') <= Cardinality(Registered)
    BY <1>2, FewerTasks, RegisteredType
<1>4. Cardinality(Registered') \in Nat /\ Cardinality(Registered) \in Nat
    BY <1>2, FewerTasks, RegisteredType
<1>5. \A j \in Registered' : j \in Registered /\ tasks'[j] = tasks[j]
    BY <1>2 DEF DropJobState, Registered, RuntimeInv, TypeInv, TypeOK
<1>6. CapacityRespected'
    BY <1>3, <1>4, CapacityAssumption DEF RuntimeInv, CapacityRespected
<1>7. RegistryNamesItsJob'
  <2>1. \A j \in Registered' : tasks[j] \in Slots \ {s}
      BY <1>2 DEF RuntimeInv, RegistryNamesItsJob, Registered, TypeInv, TypeOK
  <2>2. QED
      BY <1>1, <1>5, <2>1 DEF RuntimeInv, RegistryNamesItsJob
<1>8. StartHasRoom'
  <2>1. UNCHANGED lock
      BY DEF DropJobState, starters
  <2>2. tasks[lock.job] = NoSlot => tasks'[lock.job] = NoSlot
      BY DEF DropJobState, RuntimeInv, TypeInv, TypeOK
  <2>3. QED
      BY <1>3, <1>4, <2>1, <2>2, CapacityAssumption
         DEF RuntimeInv, StartHasRoom, HasCapacity
<1>9. DequeuerStarts'
    BY <1>1 DEF DropJobState, starters, RuntimeInv, TypeInv, StarterNames,
       DequeuerStarts
<1>10. QED
    BY <1>6, <1>7, <1>8, <1>9 DEF RuntimeInv

\* task.cancel() does not move a coroutine past the drop of its job, nor the
\* one that starts the next job.
LEMMA CancelledFacts ==
    ASSUME NEW c \in Coroutine, NEW swallowed \in BOOLEAN
    PROVE  /\ Cancelled(c, swallowed).job = c.job
           /\ c.pc \in Registrable => Cancelled(c, swallowed).pc \in Registrable
           /\ c.pc = "starting" => Cancelled(c, swallowed).pc = "starting"
<1>1. PICK pc \in Landings \cup {c.pc} :
        /\ Cancelled(c, swallowed) = [c EXCEPT !.pc = pc]
        /\ pc # c.pc => c.pc \in Registrable
    BY CancelledLands
<1>2. Cancelled(c, swallowed).job = c.job /\ Cancelled(c, swallowed).pc = pc
    BY <1>1 DEF Coroutine
<1>3. QED
    BY <1>1, <1>2 DEF Landings, Registrable

\* Canceling any of the coroutines, by the operator or by a shutdown.
LEMMA CancelStep ==
    ASSUME RuntimeInv, TypeInv', UNCHANGED <<lock, tasks>>,
           NEW swallowed \in BOOLEAN,
           \A s \in Slots : coro'[s] \in {coro[s], Cancelled(coro[s], swallowed)}
    PROVE  RuntimeInv'
<1>1. \A s \in Slots :
        /\ coro'[s].job = coro[s].job
        /\ coro[s].pc \in Registrable => coro'[s].pc \in Registrable
        /\ coro[s].pc = "starting" => coro'[s].pc = "starting"
    BY CancelledFacts DEF RuntimeInv, TypeInv, TypeOK
<1>2. DequeuerStarts'
    BY <1>1 DEF DequeuerStarts, RuntimeInv, TypeInv, StarterNames
<1>3. RegistryNamesItsJob'
    BY <1>1 DEF RegistryNamesItsJob, RuntimeInv, Registered, TypeInv, TypeOK
<1>4. QED
    BY <1>2, <1>3 DEF RuntimeInv, StartHasRoom, HasCapacity, CapacityRespected,
       Registered

\* Steps of one coroutine that _tasks does not name and that is not starting
\* the next job.
LEMMA UnnamedStep ==
    ASSUME RuntimeInv, TypeInv', UNCHANGED <<lock, tasks>>, NEW s \in Slots,
           \A t \in Slots \ {s} : coro'[t] = coro[t],
           \A j \in Registered : tasks[j] # s, coro[s].pc # "starting"
    PROVE  RuntimeInv'
<1>1. DequeuerStarts'
    BY DEF DequeuerStarts, RuntimeInv, TypeInv, StarterNames
<1>2. RegistryNamesItsJob'
    BY DEF RegistryNamesItsJob, RuntimeInv, Registered, TypeInv, TypeOK
<1>3. QED
    BY <1>1, <1>2 DEF RuntimeInv, StartHasRoom, HasCapacity, CapacityRespected,
       Registered

\* What escapes _run_job is followed by a cleanup unless its job is not in
\* _tasks.
LEMMA EscapedStep ==
    ASSUME RuntimeInv, TypeInv', UNCHANGED <<lock, tasks>>, NEW s \in Slots,
           coro[s].pc \in {"entering", "netting"}, Escaped(s)
    PROVE  RuntimeInv'
<1>1. \A t \in Slots \ {s} : coro'[t] = coro[t]
    BY DEF Escaped, RuntimeInv, TypeInv, TypeOK
<1>2. CASE tasks[coro[s].job] = NoSlot
  <2>1. \A j \in Registered : tasks[j] # s
      BY <1>2 DEF RuntimeInv, RegistryNamesItsJob, Registered
  <2>2. QED
      BY <1>1, <2>1, UnnamedStep
<1>3. CASE tasks[coro[s].job] # NoSlot
  <2>1. coro'[s] = [coro[s] EXCEPT !.pc = "settling", !.last = TRUE]
      BY <1>3 DEF Escaped, RuntimeInv, TypeInv, TypeOK
  <2>2. coro'[s].pc \in Registrable /\ coro'[s].job = coro[s].job
      BY <2>1 DEF RuntimeInv, TypeInv, TypeOK, Coroutine, Registrable
  <2>3. DequeuerStarts'
      BY <1>1 DEF DequeuerStarts, RuntimeInv, TypeInv, StarterNames
  <2>4. RegistryNamesItsJob'
      BY <1>1, <2>2
         DEF RegistryNamesItsJob, RuntimeInv, Registered, TypeInv, TypeOK
  <2>5. QED
      BY <1>1, <2>3, <2>4 DEF RuntimeInv, StartHasRoom, HasCapacity,
         CapacityRespected, Registered
<1>4. QED
    BY <1>2, <1>3

\* Approvals are cleaned up by a coroutine that is not in _tasks; those it
\* wakes with CancelledError may be.
LEMMA ApprovalsStep ==
    ASSUME RuntimeInv, TypeInv', NEW s \in Slots, CleanupApprovals(s)
    PROVE  RuntimeInv'
<1>1. UNCHANGED <<lock, tasks>> /\ coro[s].pc \in Leaving
    BY DEF CleanupApprovals, starters, Leaving
<1>2. \A t \in Slots \ {s} :
        \/ coro'[t] = coro[t]
        \/ /\ coro[t].pc = "awaiting"
           /\ coro'[t] = [coro[t] EXCEPT !.pc = "canceling"]
    BY DEF CleanupApprovals, CoroutinesOf
<1>3. \A t \in Slots \ {s} :
        /\ coro'[t].job = coro[t].job
        /\ coro[t].pc \in Registrable => coro'[t].pc \in Registrable
        /\ coro[t].pc = "starting" => coro'[t].pc = "starting"
    BY <1>2 DEF RuntimeInv, TypeInv, TypeOK, Coroutine, Registrable
<1>4. \A j \in Registered : tasks[j] # s
    BY <1>1, LeavingUnnamed
<1>5. DequeuerStarts'
    BY <1>1, <1>3 DEF CleanupApprovals, DequeuerStarts, RuntimeInv, TypeInv,
       StarterNames
<1>6. RegistryNamesItsJob'
    BY <1>1, <1>3, <1>4
       DEF RegistryNamesItsJob, RuntimeInv, Registered, TypeInv, TypeOK
<1>7. QED
    BY <1>1, <1>5, <1>6 DEF RuntimeInv, StartHasRoom, HasCapacity,
       CapacityRespected, Registered

LEMMA DequeueNothingStep ==
    ASSUME RuntimeInv, TypeInv', NEW s \in Slots, DequeueNothing(s)
    PROVE  RuntimeInv'
<1>1. /\ UNCHANGED <<lock, tasks>> /\ coro[s].pc \in Leaving
      /\ coro[s].pc # "starting" /\ coro' = Returned(s, tasks)
    BY DEF DequeueNothing, starters, Leaving
<1>2. QED
    BY <1>1, LeavingUnnamed, ReturnedFacts, UnnamedStep

LEMMA DequeueStartStep ==
    ASSUME RuntimeInv, TypeInv', NEW s \in Slots, DequeueStart(s)
    PROVE  RuntimeInv'
<1>1. PICK j \in Jobs \ Registered : lock' = Holding("dequeue", s, j, db[j])
    BY DEF DequeueStart
<1>2. /\ UNCHANGED tasks /\ HasCapacity /\ coro[s].pc \in Leaving
      /\ Move(s, "starting")
    BY DEF DequeueStart, Leaving
<1>3. /\ coro'[s].pc = "starting"
      /\ \A t \in Slots \ {s} : coro'[t] = coro[t]
    BY <1>2 DEF Move, RuntimeInv, TypeInv, TypeOK, Coroutine
<1>4. StartHasRoom'
    BY <1>1, <1>2 DEF StartHasRoom, Holding, HasCapacity, Registered
<1>5. DequeuerStarts'
    BY <1>1, <1>3 DEF DequeuerStarts, Holding
<1>6. RegistryNamesItsJob'
  <2>1. \A k \in Registered : tasks[k] # s
      BY <1>2, LeavingUnnamed
  <2>2. QED
      BY <1>2, <1>3, <2>1
         DEF RegistryNamesItsJob, RuntimeInv, Registered, TypeInv, TypeOK
<1>7. QED
    BY <1>2, <1>4, <1>5, <1>6 DEF RuntimeInv, CapacityRespected, Registered

LEMMA RestartStep ==
    ASSUME RuntimeInv, TypeInv', Restart
    PROVE  RuntimeInv'
<1>1. Registered' = {} /\ lock' = Free
    BY DEF Restart, Registered
<1>2. CapacityRespected' /\ RegistryNamesItsJob'
    BY <1>1, FS_EmptySet, CapacityAssumption
       DEF CapacityRespected, RegistryNamesItsJob
<1>3. StartHasRoom' /\ DequeuerStarts'
    BY <1>1 DEF StartHasRoom, DequeuerStarts, Free
<1>4. QED
    BY <1>2, <1>3 DEF RuntimeInv

LEMMA SafetyInit == Init => RuntimeInv
<1> SUFFICES ASSUME Init PROVE RuntimeInv
    OBVIOUS
<1>1. TypeInv
    BY InitTypes
<1>2. StartHasRoom /\ DequeuerStarts
    BY DEF Init, StartHasRoom, DequeuerStarts, Free
<1>3. Registered = {}
    BY DEF Init, Registered
<1>4. CapacityRespected
    BY <1>3, FS_EmptySet, CapacityAssumption DEF CapacityRespected
<1>5. RegistryNamesItsJob
    BY <1>3 DEF RegistryNamesItsJob
<1>6. QED
    BY <1>1, <1>2, <1>4, <1>5 DEF RuntimeInv

LEMMA SafetyNext == RuntimeInv /\ [Next]_vars => RuntimeInv'
<1> SUFFICES ASSUME RuntimeInv, [Next]_vars PROVE RuntimeInv'
    OBVIOUS
<1>1. TypeInv'
    BY TypeNext DEF RuntimeInv
<1>2. ASSUME NEW j \in Jobs, Setup(j) PROVE RuntimeInv'
  <2>1. CASE CreateJob(j) \/ BeginSetup(j) \/ FinishSetup(j) \/ SetupFails(j)
      BY <2>1, <1>1, FrameStep
         DEF CreateJob, BeginSetup, FinishSetup, SetupFails, sessions
  <2>2. CASE SetupEnters(j)
      BY <2>2, <1>1, EnterStep DEF SetupEnters, sessions
  <2>3. QED
      BY <1>2, <2>1, <2>2 DEF Setup
<1>3. ASSUME NEW j \in Jobs, ResolveJob(j) PROVE RuntimeInv'
    BY <1>1, <1>3, FrameStep DEF ResolveJob, starters, sessions
<1>4. ASSUME NEW j \in Jobs, Cancel(j) PROVE RuntimeInv'
  <2>1. PICK swallowed \in BOOLEAN :
          coro' = [s \in Slots |-> IF tasks[j] = s
                                  THEN Cancelled(coro[s], swallowed)
                                  ELSE coro[s]]
      BY <1>4 DEF Cancel
  <2>2. QED
      BY <1>1, <1>4, <2>1, CancelStep DEF Cancel, starters
<1>5. ASSUME NEW p \in Requests, Request(p) PROVE RuntimeInv'
    BY <1>1, <1>5, FrameStep
       DEF Request, ResumeJob, SendMessage, RerunJob, sessions
<1>6. ASSUME NEW p \in Procs, Calling(p) PROVE RuntimeInv'
  <2>1. CASE ResetRow(p) \/ BuildFails(p)
      BY <2>1, <1>1, FrameStep DEF ResetRow, BuildFails, sessions
  <2>2. CASE CallEnters(p)
    <3>1. call[p].job \in Jobs
        BY <2>2 DEF CallEnters, RuntimeInv, TypeInv, StarterNames
    <3>2. QED
        BY <2>2, <3>1, <1>1, EnterStep DEF CallEnters, sessions
  <2>3. QED
      BY <1>6, <2>1, <2>2 DEF Calling
<1>7. CASE Starting
  <2>1. CASE ClaimWins \/ PreflightDone
    <3>1. /\ UNCHANGED <<tasks, coro>> /\ lock.step # "none"
          /\ lock'.job = lock.job /\ lock'.kind = lock.kind
          /\ lock'.who = lock.who
        BY <2>1 DEF ClaimWins, PreflightDone, sessions, RuntimeInv, TypeInv,
           TypeOK, LockRecord
    <3>2. QED
        BY <3>1, <1>1, HolderStep
  <2>2. CASE ClaimLost \/ PreflightCanceled \/ StartRaises
    <3>1. /\ UNCHANGED tasks /\ lock' = Free
          /\ coro' = AfterStart(tasks)
        BY <2>2 DEF ClaimLost, PreflightCanceled, StartRaises, ReleaseLock
    <3>2. QED
        BY <3>1, <1>1, ReleaseStep
  <2>3. CASE Launch
      BY <2>3, <1>1, LaunchStep
  <2>4. QED
      BY <1>7, <2>1, <2>2, <2>3 DEF Starting
<1>8. ASSUME NEW s \in Slots, Session(s) PROVE RuntimeInv'
  <2>1. CASE EnterFails(s)
      BY <2>1, <1>1, EscapedStep DEF EnterFails, starters
  <2>2. CASE ~EnterFails(s)
    <3>1. /\ UNCHANGED <<lock, tasks>> /\ coro[s].pc \in Registrable
          /\ \E pc \in Registrable : Move(s, pc)
        BY <1>8, <2>2
           DEF Session, BeginTask, EnterSession, Complete, MergeDone,
               FailSession, RequestApproval, ApprovalGranted,
               ApprovalRejected, Registrable, starters
    <3>2. QED
        BY <3>1, <1>1, SessionStep
  <2>3. QED
      BY <2>1, <2>2
<1>9. ASSUME NEW s \in Slots, Cleanup(s) PROVE RuntimeInv'
  <2>1. CASE HandleCanceled(s) \/ AbortDone(s) \/ EnsureTerminal(s)
    <3>1. /\ UNCHANGED <<lock, tasks>> /\ coro[s].pc \in Registrable
          /\ \E pc \in Registrable : Move(s, pc)
        BY <2>1 DEF HandleCanceled, AbortDone, EnsureTerminal, Registrable,
           starters
    <3>2. QED
        BY <3>1, <1>1, SessionStep
  <2>2. CASE CancelSafetyNet(s)
      BY <2>2, <1>1, EscapedStep DEF CancelSafetyNet, starters
  <2>3. CASE DropJobState(s)
      BY <2>3, <1>1, DropStep
  <2>4. CASE CleanupApprovals(s)
      BY <2>4, <1>1, ApprovalsStep
  <2>5. CASE DequeueNothing(s)
      BY <2>5, <1>1, DequeueNothingStep
  <2>6. CASE DequeueStart(s)
      BY <2>6, <1>1, DequeueStartStep
  <2>7. QED
      BY <1>9, <2>1, <2>2, <2>3, <2>4, <2>5, <2>6 DEF Cleanup
<1>10. CASE Shutdown
  <2>1. PICK swallowed \in BOOLEAN :
          coro' = [s \in Slots |-> IF \E j \in Jobs : tasks[j] = s
                                  THEN Cancelled(coro[s], swallowed)
                                  ELSE coro[s]]
      BY <1>10 DEF Shutdown
  <2>2. QED
      BY <1>1, <1>10, <2>1, CancelStep DEF Shutdown, starters
<1>11. CASE Restart
    BY <1>1, <1>11, RestartStep
<1>12. CASE TurnedAway \/ \E j \in Jobs : RecoverNext(j) \/ RequeueNext(j)
    BY <1>1, <1>12, FrameStep
       DEF TurnedAway, RecoverNext, RequeueNext, sessions
<1>13. CASE UNCHANGED vars
    BY <1>1, <1>13, FrameStep DEF vars
<1>14. QED
    BY <1>2, <1>3, <1>4, <1>5, <1>6, <1>7, <1>8, <1>9, <1>10, <1>11, <1>12, <1>13
       DEF Next, Operator, Booting

\* However set-up, requests, recovery, retries of dequeued starts, cancels and
\* cleanups interleave, _tasks never holds more than max_concurrent_jobs.
THEOREM CapacityHolds == Spec => []CapacityRespected
<1>1. RuntimeInv => CapacityRespected
    BY DEF RuntimeInv
<1>2. QED
    BY <1>1, SafetyInit, SafetyNext, PTL DEF Spec

\* An entry of _tasks names a coroutine of its job that has not yet dropped
\* the job, even though entries are dropped by job id by earlier sessions.
THEOREM RegistryHolds == Spec => []RegistryNamesItsJob
<1>1. RuntimeInv => RegistryNamesItsJob
    BY DEF RuntimeInv
<1>2. QED
    BY <1>1, SafetyInit, SafetyNext, PTL DEF Spec

\* No start takes the place of a task that is still in _tasks: an entry only
\* changes by being dropped.
THEOREM NoTaskReplaced == Spec => LaunchReplacesNoTask
<1> DEFINE OnlyDrops == \A j \in Jobs : tasks[j] # NoSlot /\ tasks'[j] # tasks[j]
                                       => tasks'[j] = NoSlot
<1>1. RuntimeInv /\ [Next]_vars => OnlyDrops
  <2> SUFFICES ASSUME RuntimeInv, [Next]_vars PROVE OnlyDrops
      OBVIOUS
  <2>1. CASE Launch
    <3>1. /\ lock.job \in Jobs /\ tasks[lock.job] = NoSlot
          /\ \A j \in Jobs \ {lock.job} : tasks'[j] = tasks[j]
        BY <2>1 DEF Launch, RuntimeInv, StartHasRoom, TypeInv, TypeOK, StarterNames
    <3>2. QED
        BY <3>1
  <2>2. CASE \E s \in Slots : DropJobState(s)
      BY <2>2 DEF DropJobState, RuntimeInv, TypeInv, TypeOK
  <2>3. CASE Restart
      BY <2>3 DEF Restart
  <2>4. CASE UNCHANGED tasks
      BY <2>4
  <2>5. CASE \E j \in Jobs : Setup(j) \/ Operator(j)
      BY <2>4, <2>5 DEF Setup, Operator, CreateJob, BeginSetup, FinishSetup,
         SetupFails, SetupEnters, Cancel, ResolveJob, sessions
  <2>6. CASE \/ \E p \in Requests : Request(p)
             \/ \E p \in Procs : Calling(p)
      BY <2>4, <2>6 DEF Request, Calling, ResumeJob, SendMessage, RerunJob,
         ResetRow, BuildFails, CallEnters, sessions
  <2>7. CASE Starting
      BY <2>1, <2>4, <2>7 DEF Starting, ClaimWins, ClaimLost, PreflightDone,
         PreflightCanceled, StartRaises, sessions
  <2>8. CASE \E s \in Slots : Session(s)
      BY <2>4, <2>8 DEF Session, BeginTask, EnterSession, EnterFails, Complete,
         MergeDone, FailSession, RequestApproval, ApprovalGranted,
         ApprovalRejected
  <2>9. CASE \E s \in Slots : Cleanup(s)
      BY <2>2, <2>4, <2>9 DEF Cleanup, HandleCanceled, AbortDone,
         CancelSafetyNet, EnsureTerminal, CleanupApprovals, DequeueNothing,
         DequeueStart
  <2>10. CASE Booting
      BY <2>3, <2>4, <2>10 DEF Booting, Shutdown, TurnedAway, RecoverNext,
         RequeueNext, sessions
  <2>11. CASE UNCHANGED vars
      BY <2>4, <2>11 DEF vars
  <2>12. QED
      BY <2>5, <2>6, <2>7, <2>8, <2>9, <2>10, <2>11 DEF Next
<1>2. RuntimeInv /\ [Next]_vars => [OnlyDrops]_vars
    BY <1>1
<1>3. QED
    BY <1>2, SafetyInit, SafetyNext, PTL DEF Spec, LaunchReplacesNoTask

-----------------------------------------------------------------------------
(* The table, whoever writes the row.  Two things are left out by name: an  *)
(* operator who cancels a job while its worktree is created, whose row      *)
(* create_worktree then makes queued again, and starts that raise and put   *)
(* an old state back.                                                       *)

TableKept == "startError" \notin Env /\ "setup" \notin CancelWhen

\* The row set-up works on is in preparing, and nobody but set-up works on a
\* row that is.
PreparingIsSetup ==
    /\ \A j \in Jobs : setup[j] \in {"spawned", "creating"}
                            => db[j] = "preparing"
    /\ \A p \in Procs : call[p].pc = "building"
                            => db[call[p].job] \notin {Unborn, "preparing"}
    /\ lock.step \in {"preflight", "launch"}
            => db[lock.job] \notin {Unborn, "preparing"}
    /\ \A s \in Slots : coro[s].pc # "none" =>
            coro[s].job \in Jobs /\ db[coro[s].job] \notin {Unborn, "preparing"}

\* A row that is written by the table, or is left alone.
Lawful(j) ==
    Born(j) /\ db'[j] # db[j] => CanTransition(db[j], db'[j])

\* Once a row has left preparing it is never there again.
LeftBehind(j) ==
    db[j] \notin {Unborn, "preparing"} => db'[j] \notin {Unborn, "preparing"}

\* The writes of a session, its cancel handlers and its cleanup.
LEMMA FailJobLawful ==
    ASSUME NEW state \in RowState, FailJob(state) # state
    PROVE  CanTransition(state, FailJob(state)) /\ FailJob(state) = "failed"
BY DEF FailJob, TransitionOr

LEMMA CanceledRowLawful ==
    ASSUME NEW state \in JobState, CanceledRow(state) # state
    PROVE  /\ CanTransition(state, CanceledRow(state))
           /\ CanceledRow(state) = "canceled"
BY DEF CanceledRow, CanTransition, ValidTransitions, JobState, TERMINAL_STATES

\* No transition of the table leads to preparing.
LEMMA NeverBack ==
    ASSUME NEW from, NEW to, CanTransition(from, to)
    PROVE  to \notin {Unborn, "preparing"} /\ from # Unborn
BY DEF CanTransition, ValidTransitions, Unborn, TERMINAL_STATES

\* The coroutines go on, or end, and none is added.
SameCoroutines ==
    \A s \in Slots : \/ coro'[s].pc = "none"
                     \/ coro[s].pc # "none" /\ coro'[s].job = coro[s].job

LEMMA MoveKeeps ==
    ASSUME TypeOK, NEW s \in Slots, NEW pc, Move(s, pc), coro[s].pc # "none"
    PROVE  SameCoroutines
<1>1. coro'[s].job = coro[s].job /\ \A t \in Slots \ {s} : coro'[t] = coro[t]
    BY DEF Move, TypeOK, Coroutine
<1>2. QED
    BY <1>1 DEF SameCoroutines

LEMMA ReturnedKeeps ==
    ASSUME TypeOK, NEW s \in Slots, NEW registered, coro[s].pc # "none",
           coro' = Returned(s, registered)
    PROVE  SameCoroutines
<1>1. \A t \in Slots \ {s} : coro'[t] = coro[t]
    BY DEF Returned, TypeOK
<1>2. coro'[s].pc = "none" \/ coro'[s].job = coro[s].job
    BY DEF Returned, TypeOK, Coroutine, NoCoroutine
<1>3. QED
    BY <1>1, <1>2 DEF SameCoroutines

LEMMA EscapedKeeps ==
    ASSUME TypeOK, NEW s \in Slots, Escaped(s), coro[s].pc # "none"
    PROVE  SameCoroutines
<1>1. \A t \in Slots \ {s} : coro'[t] = coro[t]
    BY DEF Escaped, TypeOK
<1>2. coro'[s].pc = "none" \/ coro'[s].job = coro[s].job
    BY DEF Escaped, TypeOK, Coroutine, NoCoroutine
<1>3. QED
    BY <1>1, <1>2 DEF SameCoroutines

LEMMA AfterStartKeeps ==
    ASSUME RuntimeInv, NEW registered, coro' = AfterStart(registered)
    PROVE  SameCoroutines
<1>1. CASE lock.kind = "dequeue"
  <2>1. lock.who \in Slots /\ coro[lock.who].pc # "none"
      BY <1>1 DEF RuntimeInv, TypeInv, StarterNames, DequeuerStarts
  <2>2. QED
      BY <1>1, <2>1, ReturnedKeeps DEF AfterStart, RuntimeInv, TypeInv
<1>2. CASE lock.kind # "dequeue"
    BY <1>2 DEF AfterStart, SameCoroutines
<1>3. QED
    BY <1>1, <1>2

LEMMA CancelKeeps ==
    ASSUME TypeOK, NEW swallowed \in BOOLEAN,
           \A s \in Slots : coro'[s] \in {coro[s], Cancelled(coro[s], swallowed)}
    PROVE  SameCoroutines
<1> SUFFICES ASSUME NEW s \in Slots, coro'[s].pc # "none"
             PROVE  coro[s].pc # "none" /\ coro'[s].job = coro[s].job
    BY DEF SameCoroutines
<1>1. coro[s] \in Coroutine
    BY DEF TypeOK
<1>2. PICK pc \in Landings \cup {coro[s].pc} :
        /\ Cancelled(coro[s], swallowed) = [coro[s] EXCEPT !.pc = pc]
        /\ pc # coro[s].pc => coro[s].pc \in Registrable
    BY CancelledLands
<1>3. QED
    BY <1>1, <1>2 DEF Coroutine, Registrable

\* Steps that write at most rows, by the table, and move coroutines.
LEMMA TableStep ==
    ASSUME RuntimeInv, TypeInv', PreparingIsSetup, UNCHANGED starters, SameCoroutines,
           \A j \in Jobs : db'[j] = db[j] \/ CanTransition(db[j], db'[j]),
           \A j \in Jobs : db'[j] # db[j] => setup[j] \notin {"spawned", "creating"}
    PROVE  PreparingIsSetup' /\ \A j \in Jobs : Lawful(j)
<1>1. \A j \in Jobs : LeftBehind(j)
    BY NeverBack DEF LeftBehind
<1>2. \A j \in Jobs : setup'[j] \in {"spawned", "creating"}
                            => db'[j] = "preparing"
    BY DEF PreparingIsSetup, starters
<1>3. \A p \in Procs : call'[p].pc = "building"
                            => db'[call'[p].job] \notin {Unborn, "preparing"}
    BY <1>1 DEF PreparingIsSetup, starters, RuntimeInv, TypeInv, StarterNames,
       LeftBehind
<1>4. lock'.step \in {"preflight", "launch"}
            => db'[lock'.job] \notin {Unborn, "preparing"}
    BY <1>1 DEF PreparingIsSetup, starters, RuntimeInv, TypeInv, StarterNames,
       LeftBehind
<1>5. \A s \in Slots : coro'[s].pc # "none" =>
            coro'[s].job \in Jobs /\ db'[coro'[s].job] \notin {Unborn, "preparing"}
    BY <1>1 DEF PreparingIsSetup, SameCoroutines, LeftBehind
<1>6. QED
    BY <1>2, <1>3, <1>4, <1>5 DEF PreparingIsSetup, Lawful

\* Steps that leave the rows alone and end work that was under way.
LEMMA TableEnds ==
    ASSUME RuntimeInv, TypeInv', PreparingIsSetup, UNCHANGED db, SameCoroutines,
           \A j \in Jobs : setup'[j] \in {"spawned", "creating"}
                                => setup[j] \in {"spawned", "creating"},
           \A p \in Procs : call'[p].pc = "building" => call'[p] = call[p],
           lock'.step \in {"preflight", "launch"} =>
                lock.step \in {"preflight", "launch"} /\ lock'.job = lock.job
    PROVE  PreparingIsSetup' /\ \A j \in Jobs : Lawful(j)
BY DEF PreparingIsSetup, SameCoroutines, Lawful

\* The writes of a session to the row of its job.
LEMMA SessionWrites ==
    ASSUME RuntimeInv, PreparingIsSetup, NEW s \in Slots, coro[s].pc # "none",
           NEW state, db' = [db EXCEPT ![coro[s].job] = state],
           state # db[coro[s].job] => CanTransition(db[coro[s].job], state)
    PROVE  /\ \A j \in Jobs : db'[j] = db[j] \/ CanTransition(db[j], db'[j])
           /\ \A j \in Jobs : db'[j] # db[j]
                                => setup[j] \notin {"spawned", "creating"}
BY DEF RuntimeInv, TypeInv, TypeOK, PreparingIsSetup

LEMMA SessionTable ==
    ASSUME RuntimeInv, TypeInv', PreparingIsSetup, NEW s \in Slots,
           Session(s)
    PROVE  PreparingIsSetup' /\ \A j \in Jobs : Lawful(j)
<1> DEFINE j == coro[s].job
<1>1. coro[s].pc # "none" /\ UNCHANGED starters
    BY DEF Session, BeginTask, EnterSession, EnterFails, Complete, MergeDone,
       FailSession, RequestApproval, ApprovalGranted, ApprovalRejected
<1>2. j \in Jobs /\ db[j] \in RowState
    BY <1>1 DEF PreparingIsSetup, RuntimeInv, TypeInv, TypeOK, RowState
<1>3. SameCoroutines
  <2>1. CASE EnterFails(s)
      BY <2>1, <1>1, EscapedKeeps DEF EnterFails, RuntimeInv, TypeInv
  <2>2. CASE ~EnterFails(s)
    <3>1. \E pc \in Pc : Move(s, pc)
        BY <2>2 DEF Session, BeginTask, EnterSession, Complete, MergeDone,
           FailSession, RequestApproval, ApprovalGranted, ApprovalRejected,
           Pc, Registrable
    <3>2. QED
        BY <3>1, <1>1, MoveKeeps DEF RuntimeInv, TypeInv
  <2>3. QED
      BY <2>1, <2>2
<1>4. CASE UNCHANGED db
    BY <1>1, <1>3, <1>4, TableStep
<1>5. CASE \E state \in {FailJob(db[j]), "review", "completed",
                         "waiting_for_approval", "running"} :
              /\ db' = [db EXCEPT ![j] = state]
              /\ state # FailJob(db[j]) => CanTransition(db[j], state)
  <2>1. PICK state : /\ db' = [db EXCEPT ![j] = state]
                     /\ state # FailJob(db[j]) => CanTransition(db[j], state)
      BY <1>5
  <2>2. state # db[j] => CanTransition(db[j], state)
      BY <2>1, <1>2, FailJobLawful
  <2>3. QED
      BY <1>1, <1>3, <2>1, <2>2, SessionWrites, TableStep
<1>6. db \in [Jobs -> RowState]
    BY DEF RuntimeInv, TypeInv, TypeOK, RowState
<1>7. CASE Complete(s)
    BY <1>5, <1>7, <1>2, <1>6 DEF Complete
<1>8. CASE MergeDone(s)
    BY <1>4, <1>5, <1>8, <1>2, <1>6 DEF MergeDone
<1>9. CASE FailSession(s)
    BY <1>5, <1>9, <1>2, <1>6 DEF FailSession
<1>10. CASE RequestApproval(s)
    BY <1>5, <1>10, <1>2, <1>6 DEF RequestApproval
<1>11. CASE ApprovalGranted(s)
    BY <1>5, <1>11, <1>2, <1>6 DEF ApprovalGranted
<1>12. CASE ApprovalRejected(s)
    BY <1>5, <1>12, <1>2, <1>6 DEF ApprovalRejected
<1>13. QED
    BY <1>4, <1>7, <1>8, <1>9, <1>10, <1>11, <1>12
       DEF Session, BeginTask, EnterSession, EnterFails, rows

LEMMA CleanupTable ==
    ASSUME RuntimeInv, TypeInv', PreparingIsSetup, NEW s \in Slots,
           Cleanup(s)
    PROVE  PreparingIsSetup' /\ \A j \in Jobs : Lawful(j)
<1> DEFINE j == coro[s].job
<1>1. coro[s].pc # "none"
    BY DEF Cleanup, HandleCanceled, AbortDone, CancelSafetyNet, EnsureTerminal,
       DropJobState, CleanupApprovals, DequeueNothing, DequeueStart
<1>2. j \in Jobs /\ db[j] \in JobState
    BY <1>1 DEF PreparingIsSetup, RuntimeInv, TypeInv, TypeOK
<1>3. TypeOK
    BY DEF RuntimeInv, TypeInv
<1>4. ASSUME UNCHANGED starters, SameCoroutines,
             \/ UNCHANGED db
             \/ db' = [db EXCEPT ![j] = CanceledRow(db[j])]
             \/ db[j] \in InFlightStates /\ db' = [db EXCEPT ![j] = "failed"]
      PROVE  PreparingIsSetup' /\ \A k \in Jobs : Lawful(k)
  <2>1. CASE UNCHANGED db
      BY <1>4, <2>1, TableStep
  <2>2. CASE db' = [db EXCEPT ![j] = CanceledRow(db[j])]
    <3>1. CanceledRow(db[j]) # db[j] => CanTransition(db[j], CanceledRow(db[j]))
        BY <1>2, CanceledRowLawful
    <3>2. QED
        BY <1>1, <1>4, <2>2, <3>1, SessionWrites, TableStep
  <2>3. CASE db[j] \in InFlightStates /\ db' = [db EXCEPT ![j] = "failed"]
    <3>1. CanTransition(db[j], "failed")
        BY <2>3 DEF InFlightStates, CanTransition, ValidTransitions
    <3>2. QED
        BY <1>1, <1>4, <2>3, <3>1, SessionWrites, TableStep
  <2>4. QED
      BY <1>4, <2>1, <2>2, <2>3
<1>5. CASE HandleCanceled(s)
  <2>1. SameCoroutines
      BY <1>1, <1>3, <1>5, MoveKeeps DEF HandleCanceled
  <2>2. QED
      BY <1>4, <1>5, <2>1 DEF HandleCanceled, rows
<1>6. CASE AbortDone(s)
  <2>1. SameCoroutines
      BY <1>1, <1>3, <1>6, MoveKeeps DEF AbortDone
  <2>2. QED
      BY <1>4, <1>6, <2>1 DEF AbortDone
<1>7. CASE CancelSafetyNet(s)
  <2>1. SameCoroutines
      BY <1>1, <1>3, <1>7, EscapedKeeps DEF CancelSafetyNet
  <2>2. UNCHANGED db \/ db' = [db EXCEPT ![j] = CanceledRow(db[j])]
      BY <1>3, <1>7 DEF CancelSafetyNet, TypeOK
  <2>3. QED
      BY <1>4, <1>7, <2>1, <2>2 DEF CancelSafetyNet
<1>8. CASE EnsureTerminal(s)
  <2>1. SameCoroutines
      BY <1>1, <1>3, <1>8, MoveKeeps DEF EnsureTerminal
  <2>2. \/ UNCHANGED db
        \/ db[j] \in InFlightStates /\ db' = [db EXCEPT ![j] = "failed"]
      BY <1>3, <1>8 DEF EnsureTerminal, TypeOK
  <2>3. QED
      BY <1>4, <1>8, <2>1, <2>2 DEF EnsureTerminal
<1>9. CASE DropJobState(s)
  <2>1. SameCoroutines
      BY <1>1, <1>3, <1>9, MoveKeeps DEF DropJobState
  <2>2. QED
      BY <1>4, <1>9, <2>1 DEF DropJobState, rows
<1>10. CASE CleanupApprovals(s)
  <2>1. \A t \in Slots : coro[t] \in Coroutine
      BY <1>3 DEF TypeOK
  <2>2. SameCoroutines
      BY <1>1, <1>10, <2>1
         DEF CleanupApprovals, SameCoroutines, CoroutinesOf, Coroutine
  <2>3. QED
      BY <1>4, <1>10, <2>2 DEF CleanupApprovals, rows
<1>11. CASE DequeueNothing(s)
  <2>1. SameCoroutines
      BY <1>1, <1>3, <1>11, ReturnedKeeps DEF DequeueNothing
  <2>2. QED
      BY <1>4, <1>11, <2>1 DEF DequeueNothing, rows
<1>12. CASE DequeueStart(s)
  <2>1. SameCoroutines
      BY <1>1, <1>3, <1>12, MoveKeeps DEF DequeueStart
  <2>2. UNCHANGED <<db, setup, call>> /\ lock'.step = "claim"
      BY <1>12 DEF DequeueStart, rows, Holding
  <2>3. QED
      BY <2>1, <2>2, TableEnds
<1>13. QED
    BY <1>5, <1>6, <1>7, <1>8, <1>9, <1>10, <1>11, <1>12 DEF Cleanup

\* A new row, in preparing.
LEMMA NewRowTable ==
    ASSUME RuntimeInv, PreparingIsSetup, NEW j \in Jobs, NewRow(j)
    PROVE  /\ db'[j] = "preparing" /\ \A k \in Jobs \ {j} : db'[k] = db[k]
           /\ \A k \in Jobs : Lawful(k)
           /\ \A k \in Jobs : LeftBehind(k)
BY DEF NewRow, Born, Lawful, LeftBehind, RuntimeInv, TypeInv, TypeOK

LEMMA SetupTable ==
    ASSUME TableKept, RuntimeInv, TypeInv', PreparingIsSetup,
           NEW j \in Jobs, Setup(j)
    PROVE  PreparingIsSetup' /\ \A k \in Jobs : Lawful(k)
<1>1. TypeOK
    BY DEF RuntimeInv, TypeInv
<1>2. CASE CreateJob(j)
    BY <1>1, <1>2, NewRowTable DEF CreateJob, PreparingIsSetup, LeftBehind,
       sessions, TypeOK, RuntimeInv, TypeInv, StarterNames
<1>3. CASE BeginSetup(j)
    BY <1>1, <1>3 DEF BeginSetup, PreparingIsSetup, sessions, TypeOK, Lawful
<1>4. ASSUME setup[j] = "creating", UNCHANGED <<call, lock, sessions>>,
             NEW state \in {"queued", "failed"},
             db' = [db EXCEPT ![j] = state],
             NEW pc \in {"arriving", "idle"}, setup' = [setup EXCEPT ![j] = pc]
      PROVE  PreparingIsSetup' /\ \A k \in Jobs : Lawful(k)
  <2>1. db[j] = "preparing"
      BY <1>4 DEF PreparingIsSetup
  <2>2. \A k \in Jobs : Lawful(k) /\ LeftBehind(k)
      BY <1>1, <1>4, <2>1
         DEF Lawful, LeftBehind, CanTransition, ValidTransitions, TypeOK, Unborn
  <2>3. /\ db'[j] \notin {Unborn, "preparing"}
        /\ \A k \in Jobs \ {j} : db'[k] = db[k]
      BY <1>1, <1>4 DEF TypeOK, Unborn
  <2>4. QED
      BY <1>1, <1>4, <2>2, <2>3 DEF PreparingIsSetup, LeftBehind, sessions,
         TypeOK, RuntimeInv, TypeInv, StarterNames
<1>5. CASE FinishSetup(j)
    BY <1>4, <1>5 DEF FinishSetup
<1>6. CASE SetupFails(j)
  <2>1. FailJob(db[j]) = "failed"
      BY <1>6 DEF SetupFails, PreparingIsSetup, FailJob, TransitionOr,
         CanTransition, ValidTransitions
  <2>2. QED
      BY <1>4, <1>6, <2>1 DEF SetupFails
<1>7. CASE SetupEnters(j)
  <2>1. SameCoroutines
      BY <1>7 DEF SetupEnters, sessions, SameCoroutines
  <2>2. \A k \in Jobs : setup'[k] \in {"spawned", "creating"}
                             => setup[k] \in {"spawned", "creating"}
      BY <1>1, <1>7 DEF SetupEnters, TypeOK
  <2>3. lock'.step \notin {"preflight", "launch"}
      BY <1>7 DEF SetupEnters, Holding, Free
  <2>4. QED
      BY <1>7, <2>1, <2>2, <2>3, TableEnds DEF SetupEnters, rows
<1>8. QED
    BY <1>2, <1>3, <1>5, <1>6, <1>7 DEF Setup

LEMMA OperatorTable ==
    ASSUME TableKept, RuntimeInv, TypeInv', PreparingIsSetup,
           NEW j \in Jobs, Operator(j)
    PROVE  PreparingIsSetup' /\ \A k \in Jobs : Lawful(k)
<1>1. TypeOK
    BY DEF RuntimeInv, TypeInv
<1>2. CASE Cancel(j)
  <2>1. PICK swallowed \in BOOLEAN :
          coro' = [s \in Slots |-> IF tasks[j] = s
                                  THEN Cancelled(coro[s], swallowed)
                                  ELSE coro[s]]
      BY <1>2 DEF Cancel
  <2>2. SameCoroutines
      BY <1>1, <2>1, CancelKeeps
  <2>3. setup[j] \notin {"spawned", "creating"}
      BY <1>2 DEF Cancel, Situations, TableKept
  <2>4. \A k \in Jobs : db'[k] = db[k] \/ CanTransition(db[k], db'[k])
      BY <1>1, <1>2 DEF Cancel, TypeOK
  <2>5. \A k \in Jobs : db'[k] # db[k] => setup[k] \notin {"spawned", "creating"}
      BY <1>1, <1>2, <2>3 DEF Cancel, TypeOK
  <2>6. QED
      BY <1>2, <2>2, <2>4, <2>5, TableStep DEF Cancel
<1>3. CASE ResolveJob(j)
  <2>1. SameCoroutines
      BY <1>3 DEF ResolveJob, sessions, SameCoroutines
  <2>2. CanTransition(db[j], "completed") /\ setup[j] \notin {"spawned", "creating"}
      BY <1>3 DEF ResolveJob, CanTransition, ValidTransitions, PreparingIsSetup
  <2>3. \A k \in Jobs : db'[k] = db[k] \/ CanTransition(db[k], db'[k])
      BY <1>1, <1>3, <2>2 DEF ResolveJob, TypeOK
  <2>4. \A k \in Jobs : db'[k] # db[k] => setup[k] \notin {"spawned", "creating"}
      BY <1>1, <1>3, <2>2 DEF ResolveJob, TypeOK
  <2>5. QED
      BY <1>3, <2>1, <2>3, <2>4, TableStep DEF ResolveJob
<1>4. QED
    BY <1>2, <1>3 DEF Operator

LEMMA RequestTable ==
    ASSUME RuntimeInv, TypeInv', PreparingIsSetup, NEW p \in Requests, Request(p)
    PROVE  PreparingIsSetup' /\ \A k \in Jobs : Lawful(k)
<1>1. TypeOK /\ p \in Procs
    BY DEF RuntimeInv, TypeInv, Procs
<1>2. ASSUME NEW j \in Jobs, NEW op, BeginCall(p, op, j),
             db[j] \in ResumableStates \cup InFlightStates,
             UNCHANGED <<rows, setup, lock, sessions>>
      PROVE  PreparingIsSetup' /\ \A k \in Jobs : Lawful(k)
  <2>1. db[j] \notin {Unborn, "preparing"}
      BY <1>2 DEF ResumableStates, InFlightStates, TERMINAL_STATES, Unborn
  <2>2. \A q \in Procs : call'[q].pc = "building" =>
            call'[q] = call[q] \/ call'[q].job = j
      BY <1>1, <1>2 DEF BeginCall, TypeOK
  <2>3. \A q \in Procs : call'[q].pc = "building" =>
            db'[call'[q].job] \notin {Unborn, "preparing"}
      BY <1>2, <2>1, <2>2 DEF PreparingIsSetup, rows
  <2>4. QED
      BY <1>2, <2>3 DEF PreparingIsSetup, rows, sessions, Lawful
<1>3. ASSUME NEW j \in Jobs, ResumeJob(p, j)
      PROVE  PreparingIsSetup' /\ \A k \in Jobs : Lawful(k)
    BY <1>2, <1>3 DEF ResumeJob
<1>4. ASSUME NEW j \in Jobs, SendMessage(p, j)
      PROVE  PreparingIsSetup' /\ \A k \in Jobs : Lawful(k)
    BY <1>2, <1>4 DEF SendMessage
<1>5. ASSUME NEW j \in Jobs, RerunJob(p, j)
      PROVE  PreparingIsSetup' /\ \A k \in Jobs : Lawful(k)
  <2>1. \A q \in Procs : call'[q].pc = "building" => call'[q] = call[q]
      BY <1>1, <1>5 DEF RerunJob, TypeOK
  <2>2. QED
      BY <1>1, <1>5, <2>1, NewRowTable DEF RerunJob, PreparingIsSetup,
         LeftBehind, sessions, TypeOK, RuntimeInv, TypeInv, StarterNames
<1>6. QED
    BY <1>3, <1>4, <1>5 DEF Request

LEMMA CallingTable ==
    ASSUME TableKept, RuntimeInv, TypeInv', PreparingIsSetup,
           NEW p \in Procs, Calling(p)
    PROVE  PreparingIsSetup' /\ \A k \in Jobs : Lawful(k)
<1>1. TypeOK
    BY DEF RuntimeInv, TypeInv
<1>2. CASE ResetRow(p)
  <2> DEFINE j == call[p].job
  <2>1. j \in Jobs /\ db[j] \in JobState \ {"preparing"}
      BY <1>1, <1>2 DEF ResetRow, PreparingIsSetup, RuntimeInv, TypeInv,
         StarterNames, TypeOK
  <2>2. db[j] # "running" => CanTransition(db[j], "running")
      BY <2>1 DEF CanTransition, ValidTransitions, JobState, TERMINAL_STATES
  <2>3. /\ db'[j] = "running" /\ \A k \in Jobs \ {j} : db'[k] = db[k]
        /\ UNCHANGED <<setup, lock, coro>>
      BY <1>1, <1>2, <2>1 DEF ResetRow, sessions, TypeOK
  <2>4. \A k \in Jobs : Lawful(k) /\ LeftBehind(k)
      BY <2>2, <2>3 DEF Lawful, LeftBehind, Unborn
  <2>5. \A q \in Procs : call'[q].pc = "building" => call'[q] = call[q]
      BY <1>1, <1>2 DEF ResetRow, TypeOK, CallRecord
  <2>6. QED
      BY <2>1, <2>3, <2>4, <2>5 DEF PreparingIsSetup, LeftBehind, RuntimeInv,
         TypeInv, StarterNames
<1>3. CASE CallEnters(p)
  <2>1. SameCoroutines
      BY <1>3 DEF CallEnters, sessions, SameCoroutines
  <2>2. \A q \in Procs : call'[q].pc = "building" => call'[q] = call[q]
      BY <1>1, <1>3 DEF CallEnters, TypeOK, CallRecord, IdleCall
  <2>3. lock'.step \notin {"preflight", "launch"}
      BY <1>3 DEF CallEnters, Holding, Free
  <2>4. QED
      BY <1>3, <2>1, <2>2, <2>3, TableEnds DEF CallEnters, rows
<1>4. QED
    BY <1>2, <1>3 DEF Calling, BuildFails, TableKept

LEMMA StartingTable ==
    ASSUME TableKept, RuntimeInv, TypeInv', PreparingIsSetup, Starting
    PROVE  PreparingIsSetup' /\ \A k \in Jobs : Lawful(k)
<1>1. TypeOK /\ lock.job \in Jobs
    BY DEF RuntimeInv, TypeInv, StarterNames, Starting, ClaimWins, ClaimLost,
       PreflightDone, PreflightCanceled, Launch, StartRaises
<1>2. CASE ClaimWins
  <2>1. lock'.job = lock.job
      BY <1>1, <1>2 DEF ClaimWins, TypeOK, LockRecord
  <2>2. /\ db'[lock.job] = "running"
        /\ \A k \in Jobs \ {lock.job} : db'[k] = db[k]
      BY <1>1, <1>2 DEF ClaimWins, TypeOK
  <2>3. /\ db[lock.job] \notin {Unborn, "preparing"}
        /\ db[lock.job] # "running" => CanTransition(db[lock.job], "running")
      BY <1>2 DEF ClaimWins, ClaimableStates, ResumableStates, Unborn,
         CanTransition, ValidTransitions, TERMINAL_STATES
  <2>4. \A k \in Jobs : Lawful(k) /\ LeftBehind(k)
      BY <2>2, <2>3 DEF Lawful, LeftBehind, Unborn
  <2>5. QED
      BY <1>2, <2>1, <2>2, <2>3, <2>4 DEF ClaimWins, PreparingIsSetup,
         LeftBehind, Unborn, RuntimeInv, TypeInv, StarterNames
<1>3. ASSUME UNCHANGED db, SameCoroutines, ReleaseLock
      PROVE  PreparingIsSetup' /\ \A k \in Jobs : Lawful(k)
  <2>1. \A k \in Jobs : setup'[k] \in {"spawned", "creating"}
                             => setup[k] \in {"spawned", "creating"}
      BY <1>1, <1>3 DEF ReleaseLock, TypeOK
  <2>2. \A q \in Procs : call'[q].pc = "building" => call'[q] = call[q]
      BY <1>3, ReleaseLockType DEF RuntimeInv, IdleCall
  <2>3. lock'.step = "none"
      BY <1>3 DEF ReleaseLock, Free
  <2>4. QED
      BY <1>3, <2>1, <2>2, <2>3, TableEnds
<1>4. CASE ClaimLost \/ PreflightCanceled
  <2>1. coro' = AfterStart(tasks)
      BY <1>4 DEF ClaimLost, PreflightCanceled
  <2>2. QED
      BY <1>3, <1>4, <2>1, AfterStartKeeps
         DEF ClaimLost, PreflightCanceled, rows
<1>5. CASE PreflightDone
  <2>1. SameCoroutines /\ UNCHANGED <<db, setup, call>>
      BY <1>5 DEF PreflightDone, sessions, SameCoroutines, rows
  <2>2. lock'.job = lock.job /\ lock.step = "preflight"
      BY <1>1, <1>5 DEF PreflightDone, TypeOK, LockRecord
  <2>3. QED
      BY <2>1, <2>2, TableEnds
<1>6. CASE Launch
  <2>1. PICK s \in FreeSlots : Launch!(s)
      BY <1>6 DEF Launch
  <2> DEFINE registered == [tasks EXCEPT ![lock.job] = s]
  <2>2. AfterStart(registered) \in [Slots -> Coroutine] /\ s \in Slots
      BY AfterStartType DEF RuntimeInv, FreeSlots
  <2>3. /\ coro'[s].job = lock.job
        /\ \A t \in Slots \ {s} : coro'[t] = AfterStart(registered)[t]
      BY <2>1, <2>2
  <2>4. \A t \in Slots \ {s} :
            \/ coro'[t].pc = "none"
            \/ coro[t].pc # "none" /\ coro'[t].job = coro[t].job
    <3>1. CASE lock.kind = "dequeue"
      <4>1. lock.who \in Slots /\ coro[lock.who].pc # "none"
          BY <3>1 DEF RuntimeInv, TypeInv, StarterNames, DequeuerStarts
      <4>2. \A t \in Slots \ {lock.who} : AfterStart(registered)[t] = coro[t]
          BY <3>1, <1>1 DEF AfterStart, Returned, TypeOK
      <4>3. \/ AfterStart(registered)[lock.who].pc = "none"
            \/ AfterStart(registered)[lock.who].job = coro[lock.who].job
          BY <3>1, <4>1, <1>1
             DEF AfterStart, Returned, TypeOK, NoCoroutine, Coroutine
      <4>4. QED
          BY <2>3, <4>1, <4>2, <4>3
    <3>2. CASE lock.kind # "dequeue"
        BY <2>3, <3>2 DEF AfterStart
    <3>3. QED
        BY <3>1, <3>2
  <2>5. db[lock.job] \notin {Unborn, "preparing"}
      BY <2>1 DEF PreparingIsSetup
  <2>6. UNCHANGED db /\ ReleaseLock
      BY <2>1 DEF rows
  <2>7. \A t \in Slots : coro'[t].pc # "none" =>
            coro'[t].job \in Jobs /\ db'[coro'[t].job] \notin {Unborn, "preparing"}
      BY <1>1, <2>3, <2>4, <2>5, <2>6 DEF PreparingIsSetup
  <2>8. \A k \in Jobs : setup'[k] \in {"spawned", "creating"}
                             => setup[k] \in {"spawned", "creating"}
      BY <1>1, <2>6 DEF ReleaseLock, TypeOK
  <2>9. \A q \in Procs : call'[q].pc = "building" => call'[q] = call[q]
      BY <2>6, ReleaseLockType DEF RuntimeInv, IdleCall
  <2>10. lock'.step = "none"
      BY <2>6 DEF ReleaseLock, Free
  <2>11. QED
      BY <2>6, <2>7, <2>8, <2>9, <2>10 DEF PreparingIsSetup, Lawful
<1>7. QED
    BY <1>2, <1>4, <1>5, <1>6 DEF Starting, StartRaises, TableKept

LEMMA BootingTable ==
    ASSUME RuntimeInv, TypeInv', PreparingIsSetup, Booting
    PROVE  PreparingIsSetup' /\ \A k \in Jobs : Lawful(k)
<1>1. TypeOK
    BY DEF RuntimeInv, TypeInv
<1>2. CASE Shutdown
  <2>1. PICK swallowed \in BOOLEAN :
          coro' = [s \in Slots |-> IF \E j \in Jobs : tasks[j] = s
                                  THEN Cancelled(coro[s], swallowed)
                                  ELSE coro[s]]
      BY <1>2 DEF Shutdown
  <2>2. SameCoroutines
      BY <1>1, <2>1, CancelKeeps
  <2>3. QED
      BY <1>2, <2>2, TableStep DEF Shutdown, rows
<1>3. CASE Restart
  <2>1. /\ \A q \in Procs : call'[q].pc = "idle"
        /\ lock'.step = "none" /\ \A s \in Slots : coro'[s].pc = "none"
      BY <1>3 DEF Restart, IdleCall, Free, NoCoroutine
  <2>2. \A k \in Jobs : \/ db'[k] = db[k]
                        \/ db[k] \in InFlightStates /\ db'[k] = "failed"
      BY <1>3 DEF Restart
  <2>3. \A k \in Jobs : setup'[k] \in {"spawned", "creating"}
                             => db[k] = "preparing"
      BY <1>3 DEF Restart
  <2>4. \A k \in Jobs : Lawful(k)
      BY <2>2 DEF Lawful, InFlightStates, CanTransition, ValidTransitions
  <2>5. QED
      BY <2>1, <2>2, <2>3, <2>4 DEF PreparingIsSetup, InFlightStates
<1>4. CASE TurnedAway
  <2>1. SameCoroutines /\ UNCHANGED <<db, lock>>
      BY <1>4 DEF TurnedAway, sessions, SameCoroutines, rows
  <2>2. \A k \in Jobs : setup'[k] \in {"spawned", "creating"}
                             => setup[k] \in {"spawned", "creating"}
      BY <1>1, <1>4 DEF TurnedAway, TypeOK
  <2>3. \A q \in Procs : call'[q].pc = "building" => call'[q] = call[q]
      BY <1>1, <1>4 DEF TurnedAway, TypeOK, IdleCall
  <2>4. QED
      BY <2>1, <2>2, <2>3, TableEnds
<1>5. ASSUME NEW j \in Jobs, RecoverNext(j)
      PROVE  PreparingIsSetup' /\ \A k \in Jobs : Lawful(k)
  <2>1. UNCHANGED <<setup, lock, tasks, coro>> /\ Recovery \in Procs
      BY <1>5 DEF RecoverNext, sessions, Procs
  <2>2. \A k \in Jobs : Lawful(k) /\ LeftBehind(k)
      BY <1>1, <1>5 DEF RecoverNext, Lawful, LeftBehind, Unborn, CanTransition,
         ValidTransitions, TypeOK
  <2>3. \A k \in Jobs : db'[k] # db[k] => db[k] = "waiting_for_approval"
      BY <1>1, <1>5 DEF RecoverNext, TypeOK
  <2>4. \A q \in Procs : call'[q].pc = "building" =>
            \/ call'[q] = call[q]
            \/ call'[q].job = j /\ db[j] \in InFlightStates
      BY <1>1, <1>5 DEF RecoverNext, BeginCall, TypeOK
  <2>5. \A q \in Procs : call'[q].pc = "building" =>
            db'[call'[q].job] \notin {Unborn, "preparing"}
      BY <2>2, <2>4 DEF LeftBehind, PreparingIsSetup, InFlightStates, Unborn,
         RuntimeInv, TypeInv, StarterNames
  <2>6. QED
      BY <2>1, <2>2, <2>3, <2>5 DEF PreparingIsSetup, LeftBehind, RuntimeInv,
         TypeInv, StarterNames
<1>6. ASSUME NEW j \in Jobs, RequeueNext(j)
      PROVE  PreparingIsSetup' /\ \A k \in Jobs : Lawful(k)
  <2>1. SameCoroutines /\ UNCHANGED <<db, setup, lock>>
      BY <1>6 DEF RequeueNext, sessions, SameCoroutines, rows
  <2>2. \A q \in Procs : call'[q].pc = "building" => call'[q] = call[q]
      BY <1>1, <1>6 DEF RequeueNext, TypeOK
  <2>3. QED
      BY <2>1, <2>2, TableEnds
<1>7. QED
    BY <1>2, <1>3, <1>4, <1>5, <1>6 DEF Booting

LEMMA TableNext ==
    ASSUME TableKept, RuntimeInv, PreparingIsSetup, [Next]_vars
    PROVE  PreparingIsSetup' /\ \A j \in Jobs : Lawful(j)
<1>1. TypeInv'
    BY TypeNext DEF RuntimeInv
<1>2. CASE UNCHANGED vars
    BY <1>2 DEF vars, PreparingIsSetup, Lawful
<1>3. CASE Next
    BY <1>1, <1>3, SetupTable, OperatorTable, RequestTable, CallingTable,
       StartingTable, SessionTable, CleanupTable, BootingTable DEF Next
<1>4. QED
    BY <1>2, <1>3

\* As long as nobody cancels a job during its set-up and no start raises,
\* every change of a row goes by the table: also the unconditional writes of
\* set-up, claims, resets, recovery and cleanup, in whatever order resumes,
\* messages, reruns, cancels, shutdowns and crashes come.
THEOREM TableFollowed ==
    ASSUME TableKept
    PROVE  Spec => TransitionsFollowTable
<1> DEFINE TableInv == RuntimeInv /\ PreparingIsSetup
           Follows == \A j \in Jobs : Born(j) /\ db'[j] # db[j]
                                        => CanTransition(db[j], db'[j])
<1>1. Init => TableInv
    BY SafetyInit DEF Init, PreparingIsSetup, IdleCall, Free, NoCoroutine
<1>2. TableInv /\ [Next]_vars => TableInv' /\ Follows
  <2> SUFFICES ASSUME TableInv, [Next]_vars PROVE TableInv' /\ Follows
      OBVIOUS
  <2>1. RuntimeInv'
      BY SafetyNext
  <2>2. QED
      BY <2>1, TableNext DEF Lawful
<1>3. TableInv /\ [Next]_vars => [Follows]_vars
    BY <1>2
<1>4. QED
    BY <1>1, <1>2, <1>3, PTL DEF Spec, TransitionsFollowTable

-----------------------------------------------------------------------------
(* One coroutine at a time.  A patient operator resumes a job only when     *)
(* nothing is under way for it, and callers reach the lock before a session *)
(* of their job is over.  Then, until the first restart, whoever works on a *)
(* job works on it alone; only set-up and a dequeuing session may both come *)
(* to start it, and the second one finds it in _tasks.                      *)

PatientOperator == ResumeWhen = {} /\ "lateArrival" \notin Env

\* No coroutine of the job is there, not even one on its way out.
Absent(j) == \A s \in Slots : coro[s].pc # "none" => coro[s].job # j

\* The states of a job that never had a session.
Early == {Unborn, "preparing", "queued"}

\* Where the holder of the lock and its caller are.
LockAgrees ==
    /\ lock.step = "none" => lock = Free
    /\ lock.step # "none" => lock.kind # "free" /\ lock.loaded # Unborn
    /\ lock.kind = "call" => /\ call[lock.who].pc = "starting"
                             /\ call[lock.who].job = lock.job
    /\ lock.kind = "setup" => setup[lock.job] = "starting"
    /\ \A p \in Procs : call[p].pc = "starting"
                            => lock.kind = "call" /\ lock.who = p
    /\ \A j \in Jobs : setup[j] = "starting"
                            => lock.kind = "setup" /\ lock.job = j

NothingRecovered ==
    orphans = {} /\ requeue = {} /\ call[Recovery].pc = "idle"

\* A job has one coroutine, which is in _tasks until it drops the job.
OneCoroutine ==
    \A s \in Slots : coro[s].pc # "none" =>
        /\ coro[s].job \in Jobs
        /\ db[coro[s].job] \notin Early
        /\ coro[s].pc \in Registrable => tasks[coro[s].job] = s
        /\ \A t \in Slots \ {s} : coro[t].pc # "none"
                                        => coro[t].job # coro[s].job

HolderAlone ==
    lock.step # "none" =>
        /\ Absent(lock.job)
        /\ lock.job \notin pending
        /\ db[lock.job] # Unborn
        /\ lock.step # "claim" => db[lock.job] \notin Early

\* A request that is about to start a job is all there is of the job.
CallerIsAlone(p) ==
    LET j == call[p].job
    IN  /\ call[p].op # "requeue"
        /\ Absent(j)
        /\ j \notin pending
        /\ setup[j] = "idle"
        /\ db[j] \notin {Unborn, "queued"}
        /\ \A q \in Procs \ {p} : call[q].pc # "idle" => call[q].job # j
        /\ lock.job = j => lock.kind = "call" /\ lock.who = p

CallersAlone == \A p \in Procs : call[p].pc # "idle" => CallerIsAlone(p)

PendingAlone ==
    \A j \in pending : Absent(j) /\ setup[j] = "idle" /\ db[j] # Unborn

\* A job that is set up has no session; one that waits for the lock may have
\* been started by a dequeuing session, and cannot have left _tasks.
SetupFirst ==
    \A j \in Jobs :
        /\ setup[j] \in {"spawned", "creating"} =>
              /\ Absent(j) /\ lock.job # j
              /\ db[j] \in {"preparing", "canceled"}
        /\ setup[j] = "arriving" =>
              /\ \A s \in Slots : coro[s].job = j => coro[s].pc \notin Leaving
              /\ db[j] # Unborn

FirstLife ==
    /\ LockAgrees
    /\ NothingRecovered
    /\ OneCoroutine
    /\ HolderAlone
    /\ CallersAlone
    /\ PendingAlone
    /\ SetupFirst

\* A coroutine of a job that dropped it is the only one, so the job is not in
\* _tasks.
LEMMA LeavingAlone ==
    ASSUME RuntimeInv, FirstLife, NEW s \in Slots, coro[s].pc \in Leaving
    PROVE  tasks[coro[s].job] = NoSlot
<1> SUFFICES ASSUME tasks[coro[s].job] # NoSlot PROVE FALSE
    OBVIOUS
<1>1. coro[s].pc # "none" /\ coro[s].pc \notin Registrable
    BY DEF Leaving, Registrable
<1>2. coro[s].job \in Registered
    BY <1>1 DEF FirstLife, OneCoroutine, Registered
<1> DEFINE t == tasks[coro[s].job]
<1>3. /\ t \in Slots /\ coro[t].job = coro[s].job
      /\ coro[t].pc \in Registrable
    BY <1>2 DEF RuntimeInv, RegistryNamesItsJob, Registered, TypeInv, TypeOK
<1>4. t # s /\ coro[t].pc # "none"
    BY <1>1, <1>3 DEF Registrable
<1>5. QED
    BY <1>1, <1>3, <1>4 DEF FirstLife, OneCoroutine

\* A job that is not in _tasks has at most a coroutine on its way out.
LEMMA UnregisteredLeaving ==
    ASSUME RuntimeInv, FirstLife, NEW j \in Jobs, tasks[j] = NoSlot,
           NEW s \in Slots, coro[s].pc # "none", coro[s].job = j
    PROVE  coro[s].pc \in Leaving
<1>1. s # NoSlot
    BY SlotsAssumption DEF NoSlot
<1>2. coro[s].pc \notin Registrable
    BY <1>1 DEF FirstLife, OneCoroutine
<1>3. QED
    BY <1>2 DEF RuntimeInv, TypeInv, TypeOK, Coroutine

\* A job without a row is nobody's.
LEMMA UnbornAlone ==
    ASSUME RuntimeInv, FirstLife, NEW j \in Jobs, db[j] = Unborn
    PROVE  /\ Absent(j) /\ setup[j] = "idle" /\ j \notin pending
           /\ lock.job # j /\ \A p \in Procs : call[p].pc # "idle"
                                                    => call[p].job # j
<1>1. Absent(j)
    BY DEF Absent, FirstLife, OneCoroutine, Early
<1>2. j # NoJob
    BY JobsAssumption DEF NoJob
<1>3. lock.job # j
    BY <1>2 DEF FirstLife, HolderAlone, LockAgrees, Free
<1>4. setup[j] = "idle"
    BY <1>3 DEF FirstLife, SetupFirst, LockAgrees, RuntimeInv, TypeInv, TypeOK,
       SetupPc, Unborn
<1>5. QED
    BY <1>1, <1>3, <1>4 DEF FirstLife, PendingAlone, CallersAlone, CallerIsAlone

\* Coroutines that go on where they belong, or end.
TameCoroutines ==
    \A s \in Slots :
        \/ coro'[s].pc = "none"
        \/ /\ coro[s].pc # "none" /\ coro'[s].job = coro[s].job
           /\ coro'[s].pc \in Registrable => coro[s].pc \in Registrable
           /\ coro'[s].pc \in Leaving => coro[s].pc \in Leaving

LEMMA TameAbsent ==
    ASSUME TameCoroutines, NEW j, Absent(j)
    PROVE  Absent(j)'
BY DEF TameCoroutines, Absent

\* What any step may write to the row of a job whose set-up is over, and a
\* cancel to every row.
TameRow(j) ==
    \/ db'[j] = db[j]
    \/ db'[j] = "canceled" /\ db[j] # Unborn
    \/ /\ db'[j] \notin Early /\ db[j] \notin Early
       /\ setup[j] \notin {"spawned", "creating"}

LEMMA TameOneCoroutine ==
    ASSUME FirstLife, TameCoroutines,
           \A j \in Jobs : db[j] \notin Early => db'[j] \notin Early,
           \A j \in Jobs : ~Absent(j) => tasks'[j] = tasks[j]
    PROVE  OneCoroutine'
<1> SUFFICES ASSUME NEW s \in Slots, coro'[s].pc # "none"
             PROVE  /\ coro'[s].job \in Jobs
                    /\ db'[coro'[s].job] \notin Early
                    /\ coro'[s].pc \in Registrable => tasks'[coro'[s].job] = s
                    /\ \A t \in Slots \ {s} : coro'[t].pc # "none"
                                        => coro'[t].job # coro'[s].job
    BY DEF OneCoroutine, Early
<1>1. /\ coro[s].pc # "none" /\ coro'[s].job = coro[s].job
      /\ coro'[s].pc \in Registrable => coro[s].pc \in Registrable
    BY DEF TameCoroutines
<1>2. /\ coro[s].job \in Jobs /\ db[coro[s].job] \notin Early
      /\ coro[s].pc \in Registrable => tasks[coro[s].job] = s
      /\ \A t \in Slots \ {s} : coro[t].pc # "none" => coro[t].job # coro[s].job
    BY <1>1 DEF FirstLife, OneCoroutine
<1>3. ~Absent(coro[s].job)
    BY <1>1 DEF Absent
<1>4. \A t \in Slots \ {s} : coro'[t].pc # "none" => coro'[t].job # coro'[s].job
    BY <1>1, <1>2 DEF TameCoroutines
<1>5. QED
    BY <1>1, <1>2, <1>3, <1>4

LEMMA QuietStep ==
    ASSUME RuntimeInv, TypeInv', FirstLife,
           UNCHANGED <<starters, tasks, orphans, requeue>>,
           pending' \subseteq pending, TameCoroutines,
           \A j \in Jobs : TameRow(j)
    PROVE  FirstLife'
<1>1. LockAgrees' /\ NothingRecovered'
    BY DEF FirstLife, LockAgrees, NothingRecovered, starters
<1>2. \A j \in Jobs : /\ db[j] \notin Early => db'[j] \notin Early
                      /\ db[j] # Unborn => db'[j] # Unborn
                      /\ db[j] \notin {Unborn, "queued"}
                            => db'[j] \notin {Unborn, "queued"}
                      /\ db[j] \in {"preparing", "canceled"} /\ setup[j] \in {"spawned", "creating"}
                            => db'[j] \in {"preparing", "canceled"}
    BY DEF TameRow, Early, Unborn
<1>3. OneCoroutine'
    BY <1>2, TameOneCoroutine
<1>4. HolderAlone'
    BY <1>2, TameAbsent
       DEF FirstLife, HolderAlone, starters, RuntimeInv, TypeInv, StarterNames
<1>5. CallersAlone'
  <2> SUFFICES ASSUME NEW p \in Procs, call'[p].pc # "idle"
               PROVE  CallerIsAlone(p)'
      BY DEF CallersAlone
  <2>1. CallerIsAlone(p) /\ UNCHANGED <<call, setup, lock>>
      BY DEF FirstLife, CallersAlone, starters
  <2>2. call[p].job \in Jobs
      BY <2>1 DEF RuntimeInv, TypeInv, StarterNames
  <2>3. Absent(call[p].job)'
      BY <2>1, TameAbsent DEF CallerIsAlone
  <2>4. db'[call[p].job] \notin {Unborn, "queued"}
      BY <1>2, <2>1, <2>2 DEF CallerIsAlone
  <2>5. QED
      BY <2>1, <2>3, <2>4 DEF CallerIsAlone
<1>6. PendingAlone'
    BY <1>2, TameAbsent
       DEF FirstLife, PendingAlone, starters, RuntimeInv, TypeInv, TypeOK
<1>7. SetupFirst'
  <2> SUFFICES ASSUME NEW j \in Jobs
               PROVE  /\ setup'[j] \in {"spawned", "creating"} =>
                            /\ Absent(j)' /\ lock'.job # j
                            /\ db'[j] \in {"preparing", "canceled"}
                      /\ setup'[j] = "arriving" =>
                            /\ \A s \in Slots : coro'[s].job = j
                                        => coro'[s].pc \notin Leaving
                            /\ db'[j] # Unborn
      BY DEF SetupFirst
  <2>1. UNCHANGED <<setup, lock>>
      BY DEF starters
  <2>2. \A s \in Slots : coro'[s].job = j /\ coro'[s].pc \in Leaving =>
            coro[s].job = j /\ coro[s].pc \in Leaving
      BY DEF TameCoroutines, Leaving
  <2>3. QED
      BY <1>2, <2>1, <2>2, TameAbsent DEF FirstLife, SetupFirst
<1>8. QED
    BY <1>1, <1>3, <1>4, <1>5, <1>6, <1>7 DEF FirstLife

\* The holder returns to its caller: both are done with the job.
LEMMA ReleaseFacts ==
    ASSUME RuntimeInv, FirstLife, ReleaseLock, lock.step # "none"
    PROVE  /\ lock' = Free /\ LockAgrees'
           /\ \A j \in Jobs : \/ setup'[j] = setup[j]
                              \/ setup[j] = "starting" /\ setup'[j] = "idle"
           /\ \A p \in Procs : call'[p].pc # "idle" =>
                 call'[p] = call[p] /\ call[p].job # lock.job
           /\ call'[Recovery].pc = "idle"
<1>1. lock.job \in Jobs /\ TypeOK /\ Recovery \in Procs
    BY DEF RuntimeInv, TypeInv, StarterNames, Procs
<1>2. lock' = Free
    BY DEF ReleaseLock
<1>3. \A p \in Procs : call'[p].pc # "idle" =>
          /\ call'[p] = call[p] /\ ~(lock.kind = "call" /\ lock.who = p)
  <2> SUFFICES ASSUME NEW p \in Procs, call'[p].pc # "idle"
               PROVE  /\ call'[p] = call[p]
                      /\ ~(lock.kind = "call" /\ lock.who = p)
      OBVIOUS
  <2>1. CASE lock.kind = "call"
    <3>1. call' = [call EXCEPT ![lock.who] = IdleCall]
        BY <2>1 DEF ReleaseLock
    <3>2. p # lock.who
        BY <1>1, <3>1 DEF IdleCall, TypeOK
    <3>3. QED
        BY <1>1, <3>1, <3>2 DEF TypeOK
  <2>2. CASE lock.kind # "call"
      BY <2>2 DEF ReleaseLock
  <2>3. QED
      BY <2>1, <2>2
<1>4. \A p \in Procs : call'[p].pc # "idle" =>
          call'[p] = call[p] /\ call[p].job # lock.job
    BY <1>3 DEF FirstLife, CallersAlone, CallerIsAlone
<1>5. \A j \in Jobs : /\ \/ setup'[j] = setup[j]
                         \/ setup[j] = "starting" /\ setup'[j] = "idle"
                      /\ setup'[j] # "starting"
    BY <1>1 DEF ReleaseLock, FirstLife, LockAgrees, TypeOK
<1>6. \A p \in Procs : call'[p].pc # "starting"
    BY <1>3 DEF FirstLife, LockAgrees
<1>7. LockAgrees'
    BY <1>2, <1>5, <1>6 DEF LockAgrees, Free
<1>8. call'[Recovery].pc = "idle"
    BY <1>1, <1>3 DEF FirstLife, NothingRecovered
<1>9. QED
    BY <1>2, <1>4, <1>5, <1>7, <1>8

LEMMA ReleaseQuiet ==
    ASSUME RuntimeInv, TypeInv', FirstLife, ReleaseLock, lock.step # "none",
           UNCHANGED <<tasks, pending, orphans, requeue>>, TameCoroutines,
           \A j \in Jobs \ {lock.job} : db'[j] = db[j],
           setup[lock.job] = "arriving" => db'[lock.job] # Unborn
    PROVE  FirstLife'
<1>1. lock.job \in Jobs /\ Absent(lock.job) /\ lock.job \notin pending
    BY DEF RuntimeInv, TypeInv, StarterNames, FirstLife, HolderAlone
<1>2. /\ lock' = Free /\ LockAgrees'
      /\ \A j \in Jobs : \/ setup'[j] = setup[j]
                         \/ setup[j] = "starting" /\ setup'[j] = "idle"
      /\ \A p \in Procs : call'[p].pc # "idle" =>
            call'[p] = call[p] /\ call[p].job # lock.job
      /\ call'[Recovery].pc = "idle"
    BY ReleaseFacts
<1>3. NothingRecovered'
    BY <1>2 DEF FirstLife, NothingRecovered
<1>4. OneCoroutine'
  <2>1. \A s \in Slots : coro[s].pc # "none" => coro[s].job # lock.job
      BY <1>1 DEF Absent
  <2> SUFFICES ASSUME NEW s \in Slots, coro'[s].pc # "none"
               PROVE  /\ coro'[s].job \in Jobs
                      /\ db'[coro'[s].job] \notin Early
                      /\ coro'[s].pc \in Registrable => tasks'[coro'[s].job] = s
                      /\ \A t \in Slots \ {s} : coro'[t].pc # "none"
                                          => coro'[t].job # coro'[s].job
      BY DEF OneCoroutine, Early
  <2>2. /\ coro[s].pc # "none" /\ coro'[s].job = coro[s].job
        /\ coro'[s].pc \in Registrable => coro[s].pc \in Registrable
      BY DEF TameCoroutines
  <2>3. /\ coro[s].job \in Jobs \ {lock.job} /\ db[coro[s].job] \notin Early
        /\ coro[s].pc \in Registrable => tasks[coro[s].job] = s
        /\ \A t \in Slots \ {s} : coro[t].pc # "none" => coro[t].job # coro[s].job
      BY <2>1, <2>2 DEF FirstLife, OneCoroutine
  <2>4. \A t \in Slots \ {s} : coro'[t].pc # "none" => coro'[t].job # coro'[s].job
      BY <2>2, <2>3 DEF TameCoroutines
  <2>5. QED
      BY <2>2, <2>3, <2>4
<1>5. HolderAlone'
    BY <1>2 DEF HolderAlone, Free
<1>6. CallersAlone'
  <2> SUFFICES ASSUME NEW p \in Procs, call'[p].pc # "idle"
               PROVE  CallerIsAlone(p)'
      BY DEF CallersAlone
  <2>1. /\ call'[p] = call[p] /\ call[p].job # lock.job
        /\ CallerIsAlone(p) /\ call[p].job \in Jobs
      BY <1>2 DEF FirstLife, CallersAlone, RuntimeInv, TypeInv, StarterNames
  <2>2. Absent(call[p].job)'
      BY <2>1, TameAbsent DEF CallerIsAlone
  <2>3. setup'[call[p].job] = "idle" /\ db'[call[p].job] = db[call[p].job]
      BY <1>2, <2>1 DEF CallerIsAlone
  <2>4. \A q \in Procs \ {p} : call'[q].pc # "idle" => call'[q].job # call[p].job
      BY <1>2, <2>1 DEF CallerIsAlone
  <2>5. call[p].job # NoJob
      BY <2>1, JobsAssumption DEF NoJob
  <2>6. QED
      BY <1>2, <2>1, <2>2, <2>3, <2>4, <2>5 DEF CallerIsAlone, Free
<1>7. PendingAlone'
    BY <1>1, <1>2, TameAbsent
       DEF FirstLife, PendingAlone, RuntimeInv, TypeInv, TypeOK
<1>8. SetupFirst'
  <2> SUFFICES ASSUME NEW j \in Jobs
               PROVE  /\ setup'[j] \in {"spawned", "creating"} =>
                            /\ Absent(j)' /\ lock'.job # j
                            /\ db'[j] \in {"preparing", "canceled"}
                      /\ setup'[j] = "arriving" =>
                            /\ \A s \in Slots : coro'[s].job = j
                                        => coro'[s].pc \notin Leaving
                            /\ db'[j] # Unborn
      BY DEF SetupFirst
  <2>1. j # lock'.job
      BY <1>2, JobsAssumption DEF Free, NoJob
  <2>2. \A s \in Slots : coro'[s].job = j /\ coro'[s].pc \in Leaving =>
            coro[s].job = j /\ coro[s].pc \in Leaving
      BY DEF TameCoroutines, Leaving
  <2>3. QED
      BY <1>2, <2>1, <2>2, TameAbsent DEF FirstLife, SetupFirst
<1>9. QED
    BY <1>2, <1>3, <1>4, <1>5, <1>6, <1>7, <1>8 DEF FirstLife

\* A caller gives up before it has the lock.
LEMMA ForgetStep ==
    ASSUME RuntimeInv, TypeInv', FirstLife,
           UNCHANGED <<db, lock, tasks, coro, pending, orphans, requeue>>,
           \A j \in Jobs : \/ setup'[j] = setup[j]
                           \/ setup[j] = "arriving" /\ setup'[j] = "idle",
           \A p \in Procs :
                \/ call'[p] = call[p]
                \/ call[p].pc # "starting" /\ call'[p] = IdleCall
    PROVE  FirstLife'
<1>1. LockAgrees'
  <2>1. lock.kind = "call" => lock.who \in Procs /\ lock.step # "none"
      BY DEF FirstLife, LockAgrees, Free, RuntimeInv, TypeInv, StarterNames
  <2>2. lock.kind = "setup" => lock.job \in Jobs
      BY DEF FirstLife, LockAgrees, Free, RuntimeInv, TypeInv, StarterNames
  <2>3. \A p \in Procs : call'[p].pc = "starting" => call'[p] = call[p]
      BY DEF IdleCall
  <2>4. QED
      BY <2>1, <2>2, <2>3 DEF FirstLife, LockAgrees
<1>2. NothingRecovered'
  <2>1. Recovery \in Procs
      BY DEF Procs
  <2>2. QED
      BY <2>1 DEF FirstLife, NothingRecovered, IdleCall
<1>3. OneCoroutine' /\ HolderAlone'
    BY DEF FirstLife, OneCoroutine, HolderAlone, Absent
<1>4. CallersAlone'
  <2> SUFFICES ASSUME NEW p \in Procs, call'[p].pc # "idle"
               PROVE  CallerIsAlone(p)'
      BY DEF CallersAlone
  <2>1. call'[p] = call[p] /\ CallerIsAlone(p) /\ call[p].job \in Jobs
      BY DEF IdleCall, FirstLife, CallersAlone, RuntimeInv, TypeInv, StarterNames
  <2>2. \A q \in Procs \ {p} : call'[q].pc # "idle" => call'[q].job # call[p].job
      BY <2>1 DEF CallerIsAlone, IdleCall
  <2>3. setup'[call[p].job] = "idle"
      BY <2>1 DEF CallerIsAlone
  <2>4. QED
      BY <2>1, <2>2, <2>3 DEF CallerIsAlone, Absent
<1>5. PendingAlone'
    BY DEF FirstLife, PendingAlone, Absent, RuntimeInv, TypeInv, TypeOK
<1>6. SetupFirst'
    BY DEF FirstLife, SetupFirst, Absent
<1>7. QED
    BY <1>1, <1>2, <1>3, <1>4, <1>5, <1>6 DEF FirstLife

LEMMA MoveTame ==
    ASSUME TypeOK, NEW s \in Slots, NEW pc, Move(s, pc),
           \/ coro[s].pc \in Registrable /\ pc \in Registrable
           \/ coro[s].pc \in Leaving /\ pc \in Leaving
    PROVE  TameCoroutines
<1>1. /\ coro'[s].job = coro[s].job /\ coro'[s].pc = pc
      /\ \A t \in Slots \ {s} : coro'[t] = coro[t]
    BY DEF Move, TypeOK, Coroutine
<1>2. Registrable \cap Leaving = {} /\ "none" \notin Registrable \cup Leaving
    BY DEF Registrable, Leaving
<1>3. QED
    BY <1>1, <1>2 DEF TameCoroutines

\* A coroutine that dequeued is over: its job is not in _tasks.
LEMMA ReturnedTame ==
    ASSUME RuntimeInv, FirstLife, NEW s \in Slots, coro[s].pc \in Leaving,
           NEW registered, registered[coro[s].job] = tasks[coro[s].job]
    PROVE  Returned(s, registered) = [coro EXCEPT ![s] = NoCoroutine]
BY LeavingAlone DEF Returned

LEMMA AfterStartTame ==
    ASSUME RuntimeInv, FirstLife, coro' = AfterStart(tasks)
    PROVE  TameCoroutines
<1>1. CASE lock.kind = "dequeue"
  <2>1. lock.who \in Slots /\ coro[lock.who].pc \in Leaving
      BY <1>1 DEF RuntimeInv, TypeInv, StarterNames, DequeuerStarts, Leaving
  <2>2. coro' = [coro EXCEPT ![lock.who] = NoCoroutine]
      BY <1>1, <2>1, ReturnedTame DEF AfterStart
  <2>3. QED
      BY <2>1, <2>2 DEF TameCoroutines, NoCoroutine, RuntimeInv, TypeInv, TypeOK
<1>2. CASE lock.kind # "dequeue"
    BY <1>2 DEF AfterStart, TameCoroutines
<1>3. QED
    BY <1>1, <1>2

\* What escapes _run_job goes on to the cleanup: its job is in _tasks.
LEMMA EscapedTame ==
    ASSUME RuntimeInv, FirstLife, NEW s \in Slots, Escaped(s),
           coro[s].pc \in {"entering", "netting"}
    PROVE  /\ TameCoroutines
           /\ coro'[s] = [coro[s] EXCEPT !.pc = "settling", !.last = TRUE]
<1>1. coro[s].pc \in Registrable /\ coro[s].pc # "none"
    BY DEF Registrable
<1>2. tasks[coro[s].job] = s /\ s # NoSlot
    BY <1>1, SlotsAssumption DEF FirstLife, OneCoroutine, NoSlot
<1>3. /\ coro'[s] = [coro[s] EXCEPT !.pc = "settling", !.last = TRUE]
      /\ \A t \in Slots \ {s} : coro'[t] = coro[t]
    BY <1>2 DEF Escaped, RuntimeInv, TypeInv, TypeOK
<1>4. coro'[s].job = coro[s].job /\ coro'[s].pc = "settling"
    BY <1>3 DEF RuntimeInv, TypeInv, TypeOK, Coroutine
<1>5. QED
    BY <1>1, <1>3, <1>4 DEF TameCoroutines, Leaving

LEMMA CancelTame ==
    ASSUME TypeOK, NEW swallowed \in BOOLEAN,
           \A s \in Slots : coro'[s] \in {coro[s], Cancelled(coro[s], swallowed)}
    PROVE  TameCoroutines
<1> SUFFICES ASSUME NEW s \in Slots, coro'[s].pc # "none"
             PROVE  /\ coro[s].pc # "none" /\ coro'[s].job = coro[s].job
                    /\ coro'[s].pc \in Registrable => coro[s].pc \in Registrable
                    /\ coro'[s].pc \in Leaving => coro[s].pc \in Leaving
    BY DEF TameCoroutines
<1>1. coro[s] \in Coroutine
    BY DEF TypeOK
<1>2. PICK pc \in Landings \cup {coro[s].pc} :
        /\ Cancelled(coro[s], swallowed) = [coro[s] EXCEPT !.pc = pc]
        /\ pc # coro[s].pc => coro[s].pc \in Registrable
    BY CancelledLands
<1>3. /\ coro'[s].job = coro[s].job
      /\ coro'[s].pc = coro[s].pc \/ coro'[s].pc = pc
    BY <1>1, <1>2 DEF Coroutine
<1>4. QED
    BY <1>1, <1>2, <1>3 DEF Landings, Registrable, Leaving

\* The rows a session, its cancel handlers and its cleanup write are tame.
LEMMA OwnRowTame ==
    ASSUME RuntimeInv, FirstLife, NEW s \in Slots, coro[s].pc # "none",
           NEW state, state \notin Early, db' = [db EXCEPT ![coro[s].job] = state]
    PROVE  \A j \in Jobs : TameRow(j)
<1>1. /\ coro[s].job \in Jobs /\ db[coro[s].job] \notin Early
      /\ setup[coro[s].job] \notin {"spawned", "creating"}
    BY DEF FirstLife, OneCoroutine, SetupFirst, Absent
<1>2. QED
    BY <1>1 DEF TameRow, RuntimeInv, TypeInv, TypeOK

\* A session's job has a row that _fail_job and the cancel handlers leave so.
LEMMA LateRows ==
    ASSUME NEW state, state \notin Early
    PROVE  FailJob(state) \notin Early /\ CanceledRow(state) \notin Early
BY DEF FailJob, TransitionOr, CanceledRow, Early, Unborn

LEMMA SessionAlone ==
    ASSUME RuntimeInv, TypeInv', FirstLife, NEW s \in Slots, Session(s)
    PROVE  FirstLife'
<1> DEFINE j == coro[s].job
<1>1. /\ coro[s].pc # "none" /\ UNCHANGED <<starters, tasks, pending, orphans, requeue>>
    BY DEF Session, BeginTask, EnterSession, EnterFails, Complete, MergeDone,
       FailSession, RequestApproval, ApprovalGranted, ApprovalRejected, boot
<1>2. db[j] \notin Early
    BY <1>1 DEF FirstLife, OneCoroutine
<1>3. TameCoroutines
  <2>1. CASE EnterFails(s)
      BY <2>1, EscapedTame DEF EnterFails
  <2>2. CASE ~EnterFails(s)
    <3>1. coro[s].pc \in Registrable /\ \E pc \in Registrable : Move(s, pc)
        BY <2>2 DEF Session, BeginTask, EnterSession, Complete, MergeDone,
           FailSession, RequestApproval, ApprovalGranted, ApprovalRejected,
           Registrable
    <3>2. QED
        BY <3>1, MoveTame DEF RuntimeInv, TypeInv
  <2>3. QED
      BY <2>1, <2>2
<1>4. \/ UNCHANGED db
      \/ \E state \in {FailJob(db[j]), "review", "completed",
                       "waiting_for_approval", "running"} :
              db' = [db EXCEPT ![j] = state]
  <2>1. j \in Jobs /\ db \in [Jobs -> RowState]
      BY <1>1 DEF FirstLife, OneCoroutine, RuntimeInv, TypeInv, TypeOK, RowState
  <2>2. QED
      BY <2>1 DEF Session, BeginTask, EnterSession, EnterFails, Complete,
         MergeDone, FailSession, RequestApproval, ApprovalGranted,
         ApprovalRejected, rows
<1>5. \A k \in Jobs : TameRow(k)
  <2>1. CASE UNCHANGED db
      BY <2>1 DEF TameRow
  <2>2. CASE ~UNCHANGED db
    <3>1. PICK state \in {FailJob(db[j]), "review", "completed",
                          "waiting_for_approval", "running"} :
              db' = [db EXCEPT ![j] = state]
        BY <1>4, <2>2
    <3>2. state \notin Early
        BY <1>2, LateRows DEF Early, Unborn
    <3>3. QED
        BY <1>1, <3>1, <3>2, OwnRowTame
  <2>3. QED
      BY <2>1, <2>2
<1>6. QED
    BY <1>1, <1>3, <1>5, QuietStep

\* The cleanup drops the job; nobody is on the way to the lock for it.
LEMMA DropAlone ==
    ASSUME PatientOperator, RuntimeInv, TypeInv', FirstLife,
           NEW s \in Slots, DropJobState(s)
    PROVE  FirstLife'
<1> DEFINE j == coro[s].job
<1>1. /\ UNCHANGED <<rows, starters, orphans, requeue>>
      /\ coro[s].pc = "artifacts" /\ setup[j] # "arriving"
      /\ pending' \subseteq pending
    BY DEF DropJobState, PatientOperator, Arriving, boot
<1>2. /\ coro'[s].pc = "postflight" /\ coro'[s].job = j
      /\ \A t \in Slots \ {s} : coro'[t] = coro[t]
    BY DEF DropJobState, Move, RuntimeInv, TypeInv, TypeOK, Coroutine
<1>3. \A k \in Jobs \ {j} : tasks'[k] = tasks[k]
    BY DEF DropJobState, RuntimeInv, TypeInv, TypeOK
<1>4. \A k : Absent(k) => Absent(k)'
    BY <1>1, <1>2 DEF Absent
<1>5. LockAgrees' /\ NothingRecovered'
    BY <1>1 DEF FirstLife, LockAgrees, NothingRecovered, starters
<1>6. OneCoroutine'
  <2>1. \A t \in Slots : /\ coro'[t].job = coro[t].job
                         /\ coro'[t].pc # "none" => coro[t].pc # "none"
      BY <1>1, <1>2
  <2>2. coro'[s].pc \notin Registrable
      BY <1>2 DEF Registrable
  <2>3. \A t \in Slots \ {s} : coro[t].pc # "none" => coro[t].job # j
      BY <1>1 DEF FirstLife, OneCoroutine
  <2>4. \A t \in Slots : coro'[t].pc # "none" /\ coro'[t].pc \in Registrable
                            => tasks'[coro'[t].job] = t
      BY <1>2, <1>3, <2>2, <2>3 DEF FirstLife, OneCoroutine
  <2>5. \A t \in Slots : coro'[t].pc # "none" =>
            coro'[t].job \in Jobs /\ db'[coro'[t].job] \notin Early
      BY <1>1, <2>1 DEF FirstLife, OneCoroutine, rows
  <2>6. \A t \in Slots : coro'[t].pc # "none" =>
            \A u \in Slots \ {t} : coro'[u].pc # "none" => coro'[u].job # coro'[t].job
      BY <2>1 DEF FirstLife, OneCoroutine
  <2>7. QED
      BY <2>4, <2>5, <2>6 DEF OneCoroutine, Early
<1>7. HolderAlone'
    BY <1>1, <1>4 DEF FirstLife, HolderAlone, starters, rows
<1>8. CallersAlone'
    BY <1>1, <1>4 DEF FirstLife, CallersAlone, CallerIsAlone, starters, rows
<1>9. PendingAlone'
    BY <1>1, <1>4 DEF FirstLife, PendingAlone, starters, rows
<1>10. SetupFirst'
  <2>1. \A k \in Jobs : setup[k] = "arriving" =>
            \A t \in Slots : coro'[t].job = k => coro'[t].pc \notin Leaving
      BY <1>1, <1>2 DEF FirstLife, SetupFirst
  <2>2. UNCHANGED <<setup, lock, db>>
      BY <1>1 DEF starters, rows
  <2>3. QED
      BY <1>4, <2>1, <2>2 DEF FirstLife, SetupFirst
<1>11. QED
    BY <1>5, <1>6, <1>7, <1>8, <1>9, <1>10 DEF FirstLife

\* A cleanup takes the lock for a job that waits, and that is nobody else's.
LEMMA DequeueAlone ==
    ASSUME RuntimeInv, TypeInv', FirstLife, NEW s \in Slots, DequeueStart(s)
    PROVE  FirstLife'
<1>1. PICK j \in Jobs \ Registered :
          /\ \/ j \in pending
             \/ pending = {} /\ NextQueued(j)
          /\ pending' = pending \ {j}
          /\ lock' = Holding("dequeue", s, j, db[j])
    BY DEF DequeueStart
<1>2. /\ UNCHANGED <<db, setup, call, tasks, orphans, requeue>> /\ lock = Free
      /\ coro[s].pc \in Leaving /\ Move(s, "starting")
    BY DEF DequeueStart, rows, boot, Leaving
<1>3. TameCoroutines
    BY <1>2, MoveTame DEF RuntimeInv, TypeInv, Leaving
<1>4. db[j] = "queued" \/ j \in pending
    BY <1>1 DEF NextQueued
<1>5. /\ Absent(j) /\ db[j] # Unborn /\ setup[j] \notin {"spawned", "creating"}
      /\ \A p \in Procs : call[p].pc # "idle" => call[p].job # j
  <2>1. CASE j \in pending
      BY <2>1 DEF FirstLife, PendingAlone, CallersAlone, CallerIsAlone
  <2>2. CASE db[j] = "queued"
      BY <2>2 DEF FirstLife, OneCoroutine, Early, Absent, SetupFirst,
         CallersAlone, CallerIsAlone, Unborn
  <2>3. QED
      BY <1>4, <2>1, <2>2
<1>6. /\ lock'.step = "claim" /\ lock'.kind = "dequeue" /\ lock'.job = j
      /\ lock'.loaded = db[j]
    BY <1>1 DEF Holding
<1>7. LockAgrees'
    BY <1>2, <1>5, <1>6 DEF FirstLife, LockAgrees, Free
<1>8. NothingRecovered'
    BY <1>2 DEF FirstLife, NothingRecovered
<1>9. OneCoroutine'
    BY <1>2, <1>3, TameOneCoroutine
<1>10. HolderAlone'
    BY <1>1, <1>2, <1>3, <1>5, <1>6, TameAbsent DEF HolderAlone
<1>11. CallersAlone'
  <2> SUFFICES ASSUME NEW p \in Procs, call'[p].pc # "idle"
               PROVE  CallerIsAlone(p)'
      BY DEF CallersAlone
  <2>1. CallerIsAlone(p) /\ call[p].job # j
      BY <1>2, <1>5 DEF FirstLife, CallersAlone
  <2>2. QED
      BY <1>1, <1>2, <1>3, <1>6, <2>1, TameAbsent DEF CallerIsAlone
<1>12. PendingAlone'
    BY <1>1, <1>2, <1>3, TameAbsent DEF FirstLife, PendingAlone
<1>13. SetupFirst'
  <2>1. \A k : \A t \in Slots : coro'[t].job = k /\ coro'[t].pc \in Leaving =>
            coro[t].job = k /\ coro[t].pc \in Leaving
      BY <1>3 DEF TameCoroutines, Leaving
  <2>2. QED
      BY <1>2, <1>3, <1>5, <1>6, <2>1, TameAbsent DEF FirstLife, SetupFirst
<1>14. QED
    BY <1>7, <1>8, <1>9, <1>10, <1>11, <1>12, <1>13 DEF FirstLife

LEMMA CleanupAlone ==
    ASSUME PatientOperator, RuntimeInv, TypeInv', FirstLife,
           NEW s \in Slots, Cleanup(s)
    PROVE  FirstLife'
<1> DEFINE j == coro[s].job
<1>1. coro[s].pc # "none"
    BY DEF Cleanup, HandleCanceled, AbortDone, CancelSafetyNet, EnsureTerminal,
       DropJobState, CleanupApprovals, DequeueNothing, DequeueStart
<1>2. /\ j \in Jobs /\ db[j] \notin Early /\ TypeOK
    BY <1>1 DEF FirstLife, OneCoroutine, RuntimeInv, TypeInv
<1>3. ASSUME UNCHANGED <<starters, tasks, pending, boot>>, TameCoroutines,
             \/ UNCHANGED db
             \/ db' = [db EXCEPT ![j] = CanceledRow(db[j])]
             \/ db' = [db EXCEPT ![j] = "failed"]
      PROVE  FirstLife'
  <2>1. \A k \in Jobs : TameRow(k)
    <3>1. CanceledRow(db[j]) \notin Early /\ "failed" \notin Early
        BY <1>2, LateRows DEF Early, Unborn
    <3>2. CASE UNCHANGED db
        BY <3>2 DEF TameRow
    <3>3. QED
        BY <1>1, <1>3, <3>1, <3>2, OwnRowTame
  <2>2. QED
      BY <1>3, <2>1, QuietStep DEF boot
<1>4. CASE HandleCanceled(s)
  <2>1. TameCoroutines
      BY <1>2, <1>4, MoveTame DEF HandleCanceled, Registrable
  <2>2. QED
      BY <1>3, <1>4, <2>1 DEF HandleCanceled, rows
<1>5. CASE AbortDone(s)
  <2>1. TameCoroutines
      BY <1>2, <1>5, MoveTame DEF AbortDone, Registrable
  <2>2. QED
      BY <1>3, <1>5, <2>1 DEF AbortDone
<1>6. CASE CancelSafetyNet(s)
  <2>1. TameCoroutines
      BY <1>6, EscapedTame DEF CancelSafetyNet
  <2>2. UNCHANGED db \/ db' = [db EXCEPT ![j] = CanceledRow(db[j])]
      BY <1>2, <1>6 DEF CancelSafetyNet, TypeOK
  <2>3. QED
      BY <1>3, <1>6, <2>1, <2>2 DEF CancelSafetyNet
<1>7. CASE EnsureTerminal(s)
  <2>1. TameCoroutines
      BY <1>2, <1>7, MoveTame DEF EnsureTerminal, Registrable
  <2>2. UNCHANGED db \/ db' = [db EXCEPT ![j] = "failed"]
      BY <1>2, <1>7 DEF EnsureTerminal, TypeOK
  <2>3. QED
      BY <1>3, <1>7, <2>1, <2>2 DEF EnsureTerminal
<1>8. CASE CleanupApprovals(s)
  <2>1. \A t \in Slots : coro[t] \in Coroutine
      BY <1>2 DEF TypeOK
  <2>2. TameCoroutines
      BY <1>1, <1>8, <2>1
         DEF CleanupApprovals, TameCoroutines, CoroutinesOf, Coroutine,
             Registrable, Leaving
  <2>3. QED
      BY <1>3, <1>8, <2>2 DEF CleanupApprovals, rows
<1>9. CASE DequeueNothing(s)
  <2>1. coro[s].pc \in Leaving
      BY <1>9 DEF DequeueNothing, Leaving
  <2>2. coro' = [coro EXCEPT ![s] = NoCoroutine]
      BY <1>9, <2>1, ReturnedTame DEF DequeueNothing
  <2>3. TameCoroutines
      BY <1>2, <2>2 DEF TameCoroutines, NoCoroutine, TypeOK
  <2>4. pending' \subseteq pending /\ \A k \in Jobs : TameRow(k)
      BY <1>9 DEF DequeueNothing, TameRow, rows
  <2>5. QED
      BY <1>9, <2>3, <2>4, QuietStep DEF DequeueNothing, boot
<1>10. QED
    BY <1>4, <1>5, <1>6, <1>7, <1>8, <1>9, DropAlone, DequeueAlone DEF Cleanup

\* The operator cancels or resolves a job.
LEMMA OperatorAlone ==
    ASSUME RuntimeInv, TypeInv', FirstLife, NEW j \in Jobs, Operator(j)
    PROVE  FirstLife'
<1>1. TypeOK
    BY DEF RuntimeInv, TypeInv
<1>2. CASE Cancel(j)
  <2>1. PICK swallowed \in BOOLEAN :
          coro' = [s \in Slots |-> IF tasks[j] = s
                                  THEN Cancelled(coro[s], swallowed)
                                  ELSE coro[s]]
      BY <1>2 DEF Cancel
  <2>2. TameCoroutines
      BY <1>1, <2>1, CancelTame
  <2>3. db[j] # Unborn
      BY <1>2, NeverBack DEF Cancel
  <2>4. \A k \in Jobs : TameRow(k)
      BY <1>1, <1>2, <2>3 DEF Cancel, TameRow, TypeOK
  <2>5. QED
      BY <1>2, <2>2, <2>4, QuietStep DEF Cancel, boot
<1>3. CASE ResolveJob(j)
  <2>1. TameCoroutines
      BY <1>3 DEF ResolveJob, sessions, TameCoroutines
  <2>2. setup[j] \notin {"spawned", "creating"}
      BY <1>3 DEF ResolveJob, FirstLife, SetupFirst
  <2>3. \A k \in Jobs : TameRow(k)
      BY <1>1, <1>3, <2>2 DEF ResolveJob, TameRow, TypeOK, Early, Unborn
  <2>4. QED
      BY <1>3, <2>1, <2>3, QuietStep DEF ResolveJob, boot, sessions
<1>4. QED
    BY <1>2, <1>3 DEF Operator

\* A job without a situation is nobody's.
LEMMA NoSituation ==
    ASSUME RuntimeInv, FirstLife, NEW j \in Jobs, Situations(j) \subseteq {}
    PROVE  /\ Absent(j) /\ setup[j] = "idle" /\ j \notin pending
           /\ lock.job # j /\ \A p \in Procs : call[p].pc # "idle"
                                                    => call[p].job # j
<1>1. /\ setup[j] \notin {"spawned", "creating", "arriving"} /\ j \notin pending
      /\ \A p \in Procs : call[p].pc # "idle" => call[p].job # j
    BY DEF Situations
<1>2. lock.job = j => lock.step \notin {"claim", "preflight", "launch"}
    BY DEF Situations
<1>3. lock.job # j
    BY <1>2, JobsAssumption DEF FirstLife, LockAgrees, Free, NoJob, RuntimeInv,
       TypeInv, TypeOK, LockRecord
<1>4. setup[j] = "idle"
    BY <1>1, <1>3 DEF FirstLife, LockAgrees, RuntimeInv, TypeInv, TypeOK, SetupPc
<1>5. /\ CoroutinesOf(j, {"created"}) = {}
      /\ CoroutinesOf(j, Registrable \ {"created"}) = {}
      /\ CoroutinesOf(j, Leaving) = {}
    BY DEF Situations
<1>6. Absent(j)
    BY <1>5 DEF Absent, CoroutinesOf, RuntimeInv, TypeInv, TypeOK, Coroutine
<1>7. QED
    BY <1>1, <1>3, <1>4, <1>6

\* A call that starts on a job that is nobody's.
LEMMA CallBegins ==
    ASSUME RuntimeInv, TypeInv', FirstLife, NEW p \in Requests, NEW j \in Jobs,
           Absent(j), setup[j] = "idle", j \notin pending, lock.job # j,
           \A q \in Procs : call[q].pc # "idle" => call[q].job # j,
           NEW c, call' = [call EXCEPT ![p] = c], call[p].pc = "idle",
           c.pc \in {"building", "arriving"}, c.job = j, c.op # "requeue",
           db'[j] \notin {Unborn, "queued"}, \A k \in Jobs \ {j} : db'[k] = db[k],
           UNCHANGED <<setup, lock, tasks, coro, pending, orphans, requeue>>
    PROVE  FirstLife'
<1>1. /\ p \in Procs /\ p # Recovery /\ call'[p] = c
      /\ \A q \in Procs \ {p} : call'[q] = call[q]
    BY ProcsAssumption DEF Procs, RuntimeInv, TypeInv, TypeOK
<1>2. \A k : Absent(k) => Absent(k)'
    BY DEF Absent
<1>3. LockAgrees'
  <2>1. lock.kind = "call" => lock.who \in Procs \ {p}
      BY DEF FirstLife, LockAgrees, RuntimeInv, TypeInv, StarterNames
  <2>2. QED
      BY <1>1, <2>1 DEF FirstLife, LockAgrees
<1>4. NothingRecovered'
    BY <1>1 DEF FirstLife, NothingRecovered, Procs
<1>5. OneCoroutine'
    BY DEF FirstLife, OneCoroutine, Absent
<1>6. HolderAlone'
  <2>1. lock.step # "none" => lock.job \in Jobs \ {j}
      BY DEF RuntimeInv, TypeInv, StarterNames
  <2>2. QED
      BY <1>2, <2>1 DEF FirstLife, HolderAlone
<1>7. CallersAlone'
  <2> SUFFICES ASSUME NEW q \in Procs, call'[q].pc # "idle"
               PROVE  CallerIsAlone(q)'
      BY DEF CallersAlone
  <2>1. CASE q = p
      BY <1>1, <1>2, <2>1 DEF CallerIsAlone
  <2>2. CASE q # p
    <3>1. CallerIsAlone(q) /\ call'[q] = call[q] /\ call[q].job \in Jobs \ {j}
        BY <1>1, <2>2 DEF FirstLife, CallersAlone, RuntimeInv, TypeInv,
           StarterNames
    <3>2. QED
        BY <1>1, <1>2, <2>2, <3>1 DEF CallerIsAlone
  <2>3. QED
      BY <2>1, <2>2
<1>8. PendingAlone'
    BY <1>2 DEF FirstLife, PendingAlone, RuntimeInv, TypeInv, TypeOK
<1>9. SetupFirst'
    BY <1>2 DEF FirstLife, SetupFirst
<1>10. QED
    BY <1>3, <1>4, <1>5, <1>6, <1>7, <1>8, <1>9 DEF FirstLife

LEMMA RequestAlone ==
    ASSUME PatientOperator, RuntimeInv, TypeInv', FirstLife,
           NEW p \in Requests, Request(p)
    PROVE  FirstLife'
<1>1. ASSUME NEW j \in Jobs, NEW op \in {"resume", "recover"}, CanResume(j),
             BeginCall(p, op, j), call[p].pc = "idle",
             db[j] \in ResumableStates \cup InFlightStates,
             UNCHANGED <<rows, setup, lock, pending, sessions, boot>>
      PROVE  FirstLife'
  <2> DEFINE c == [pc |-> "building", op |-> op, job |-> j,
                   prev |-> db[j], count |-> count[j]]
  <2>1. call' = [call EXCEPT ![p] = c]
      BY <1>1 DEF BeginCall
  <2>2. c.pc = "building" /\ c.job = j /\ c.op # "requeue"
      BY <1>1
  <2>3. db'[j] \notin {Unborn, "queued"} /\ \A k \in Jobs : db'[k] = db[k]
      BY <1>1 DEF rows, ResumableStates, InFlightStates, TERMINAL_STATES, Unborn
  <2>4. Situations(j) \subseteq {}
      BY <1>1 DEF CanResume, PatientOperator
  <2> HIDE DEF c
  <2>5. UNCHANGED <<setup, lock, tasks, coro, pending, orphans, requeue>>
      BY <1>1 DEF sessions, boot
  <2>6. /\ Absent(j) /\ setup[j] = "idle" /\ j \notin pending
        /\ lock.job # j /\ \A q \in Procs : call[q].pc # "idle"
                                                 => call[q].job # j
      BY <2>4, NoSituation
  <2>7. QED
      BY <1>1, <2>1, <2>2, <2>3, <2>5, <2>6, CallBegins
<1>2. ASSUME NEW j \in Jobs, ResumeJob(p, j) PROVE FirstLife'
    BY <1>1, <1>2 DEF ResumeJob
<1>3. ASSUME NEW j \in Jobs, SendMessage(p, j) PROVE FirstLife'
    BY <1>1, <1>3 DEF SendMessage
<1>4. ASSUME NEW j \in Jobs, RerunJob(p, j) PROVE FirstLife'
  <2> DEFINE c == [pc |-> "arriving", op |-> "rerun", job |-> j,
                   prev |-> Unborn, count |-> 1]
  <2>1. call' = [call EXCEPT ![p] = c] /\ call[p].pc = "idle"
      BY <1>4 DEF RerunJob
  <2>2. c.pc = "arriving" /\ c.job = j /\ c.op # "requeue"
      OBVIOUS
  <2>3. db[j] = Unborn
      BY <1>4 DEF RerunJob, NewRow, Born
  <2>4. db'[j] \notin {Unborn, "queued"} /\ \A k \in Jobs \ {j} : db'[k] = db[k]
      BY <1>4 DEF RerunJob, NewRow, RuntimeInv, TypeInv, TypeOK, Unborn
  <2>5. UNCHANGED <<setup, lock, tasks, coro, pending, orphans, requeue>>
      BY <1>4 DEF RerunJob, sessions, boot
  <2> HIDE DEF c
  <2>6. QED
      BY <2>1, <2>2, <2>3, <2>4, <2>5, UnbornAlone, CallBegins
<1>5. QED
    BY <1>2, <1>3, <1>4 DEF Request

\* Set-up before it asks for the lock: the job is nobody else's.
LEMMA SetupMoves ==
    ASSUME RuntimeInv, TypeInv', FirstLife, NEW j \in Jobs,
           Absent(j), j \notin pending, lock.job # j, setup[j] # "starting",
           \A q \in Procs : call[q].pc # "idle" => call[q].job # j,
           NEW pc, setup' = [setup EXCEPT ![j] = pc],
           \/ pc = "idle"
           \/ pc = "arriving" /\ db'[j] # Unborn
           \/ pc \in {"spawned", "creating"} /\ db'[j] \in {"preparing", "canceled"},
           \A k \in Jobs \ {j} : db'[k] = db[k],
           UNCHANGED <<call, lock, tasks, coro, pending, orphans, requeue>>
    PROVE  FirstLife'
<1>1. setup'[j] = pc /\ \A k \in Jobs \ {j} : setup'[k] = setup[k]
    BY DEF RuntimeInv, TypeInv, TypeOK
<1>2. \A k : Absent(k) => Absent(k)'
    BY DEF Absent
<1>3. LockAgrees'
  <2>1. lock.kind = "setup" => lock.job \in Jobs \ {j}
      BY DEF FirstLife, LockAgrees, Free, RuntimeInv, TypeInv, StarterNames
  <2>2. QED
      BY <1>1, <2>1 DEF FirstLife, LockAgrees
<1>4. NothingRecovered'
    BY DEF FirstLife, NothingRecovered
<1>5. OneCoroutine'
    BY DEF FirstLife, OneCoroutine, Absent
<1>6. HolderAlone'
  <2>1. lock.step # "none" => lock.job \in Jobs \ {j}
      BY DEF RuntimeInv, TypeInv, StarterNames
  <2>2. QED
      BY <1>2, <2>1 DEF FirstLife, HolderAlone
<1>7. CallersAlone'
  <2> SUFFICES ASSUME NEW q \in Procs, call'[q].pc # "idle"
               PROVE  CallerIsAlone(q)'
      BY DEF CallersAlone
  <2>1. CallerIsAlone(q) /\ call[q].job \in Jobs \ {j}
      BY DEF FirstLife, CallersAlone, RuntimeInv, TypeInv, StarterNames
  <2>2. QED
      BY <1>1, <1>2, <2>1 DEF CallerIsAlone
<1>8. PendingAlone'
    BY <1>1, <1>2 DEF FirstLife, PendingAlone, RuntimeInv, TypeInv, TypeOK
<1>9. SetupFirst'
  <2>1. \A s \in Slots : coro[s].job = j => coro[s].pc \notin Leaving
      BY DEF Absent, Leaving
  <2>2. QED
      BY <1>1, <1>2, <2>1 DEF FirstLife, SetupFirst
<1>10. QED
    BY <1>3, <1>4, <1>5, <1>6, <1>7, <1>8, <1>9 DEF FirstLife

\* A caller comes to the lock, and is turned away or holds it.
LEMMA AdmitAlone ==
    ASSUME RuntimeInv, FirstLife, lock = Free, NEW j \in Jobs,
           Absent(j), db[j] # Unborn, j \notin pending,
           NEW kind \in {"setup", "call"}, NEW who, NEW loaded,
           loaded # Unborn, lock' = Holding(kind, who, j, loaded),
           UNCHANGED <<db, tasks, coro, pending, orphans, requeue>>,
           \/ /\ kind = "setup" /\ setup' = [setup EXCEPT ![j] = "starting"]
              /\ UNCHANGED call /\ setup[j] = "arriving"
           \/ /\ kind = "call" /\ who \in Procs /\ call[who].job = j
              /\ call[who].pc = "arriving" /\ who # Recovery
              /\ call' = [call EXCEPT ![who] = [@ EXCEPT !.pc = "starting"]]
              /\ UNCHANGED setup
    PROVE  FirstLife'
<1>1. /\ lock'.step = "claim" /\ lock'.kind = kind /\ lock'.who = who
      /\ lock'.job = j /\ lock'.loaded = loaded
    BY DEF Holding
<1>2. \A k : Absent(k) => Absent(k)'
    BY DEF Absent
<1>3. \A k \in Jobs : setup[k] # "starting"
    BY DEF FirstLife, LockAgrees, Free
<1>4. \A q \in Procs : call[q].pc # "starting"
    BY DEF FirstLife, LockAgrees, Free
<1>5. OneCoroutine' /\ HolderAlone'
    BY <1>1, <1>2 DEF FirstLife, OneCoroutine, HolderAlone, Absent
<1>6. CASE kind = "setup"
  <2>1. /\ setup[j] = "arriving" /\ UNCHANGED call /\ setup'[j] = "starting"
        /\ \A k \in Jobs \ {j} : setup'[k] = setup[k]
      BY <1>6 DEF RuntimeInv, TypeInv, TypeOK
  <2>2. LockAgrees' /\ NothingRecovered'
      BY <1>1, <1>3, <1>4, <1>6, <2>1
         DEF FirstLife, LockAgrees, NothingRecovered
  <2>3. CallersAlone'
    <3> SUFFICES ASSUME NEW q \in Procs, call'[q].pc # "idle"
                 PROVE  CallerIsAlone(q)'
        BY DEF CallersAlone
    <3>1. CallerIsAlone(q) /\ call[q].job \in Jobs
        BY <2>1 DEF FirstLife, CallersAlone, RuntimeInv, TypeInv, StarterNames
    <3>2. call[q].job # j
        BY <2>1, <3>1 DEF CallerIsAlone
    <3>3. QED
        BY <1>1, <1>2, <2>1, <3>1, <3>2 DEF CallerIsAlone
  <2>4. PendingAlone'
      BY <1>2, <2>1 DEF FirstLife, PendingAlone, RuntimeInv, TypeInv, TypeOK
  <2>5. SetupFirst'
      BY <1>1, <1>2, <2>1 DEF FirstLife, SetupFirst
  <2>6. QED
      BY <1>5, <2>2, <2>3, <2>4, <2>5 DEF FirstLife
<1>7. CASE kind = "call"
  <2>1. /\ who \in Procs /\ call[who].job = j /\ call[who].pc = "arriving"
        /\ call'[who] = [call[who] EXCEPT !.pc = "starting"]
        /\ \A q \in Procs \ {who} : call'[q] = call[q]
        /\ UNCHANGED setup /\ who # Recovery
      BY <1>7 DEF RuntimeInv, TypeInv, TypeOK
  <2>2. call[who] \in CallRecord /\ CallerIsAlone(who)
      BY <2>1 DEF RuntimeInv, TypeInv, TypeOK, FirstLife, CallersAlone
  <2>3. /\ call'[who].pc = "starting" /\ call'[who].job = j
        /\ call'[who].op = call[who].op
      BY <2>1, <2>2 DEF CallRecord
  <2>4. LockAgrees' /\ NothingRecovered'
      BY <1>1, <1>3, <1>4, <1>7, <2>1, <2>3
         DEF FirstLife, LockAgrees, NothingRecovered, Procs
  <2>5. CallersAlone'
    <3> SUFFICES ASSUME NEW q \in Procs, call'[q].pc # "idle"
                 PROVE  CallerIsAlone(q)'
        BY DEF CallersAlone
    <3>1. CASE q = who
      <4>1. \A r \in Procs \ {who} : call'[r].pc # "idle" => call'[r].job # j
          BY <2>1, <2>2 DEF CallerIsAlone
      <4>2. /\ call[who].op # "requeue" /\ Absent(j) /\ j \notin pending
            /\ setup[j] = "idle" /\ db[j] \notin {Unborn, "queued"}
          BY <2>1, <2>2 DEF CallerIsAlone
      <4>3. QED
          BY <1>1, <1>2, <1>7, <2>1, <2>3, <3>1, <4>1, <4>2 DEF CallerIsAlone
    <3>2. CASE q # who
      <4>1. call'[q] = call[q] /\ CallerIsAlone(q) /\ call[q].job # j
          BY <2>1, <2>2, <3>2 DEF FirstLife, CallersAlone, CallerIsAlone
      <4>2. QED
          BY <1>1, <1>2, <2>1, <2>3, <3>2, <4>1 DEF CallerIsAlone
    <3>3. QED
        BY <3>1, <3>2
  <2>6. PendingAlone'
      BY <1>2, <2>1 DEF FirstLife, PendingAlone
  <2>7. SetupFirst'
      BY <1>1, <1>2, <2>1, <2>2 DEF FirstLife, SetupFirst, CallerIsAlone
  <2>8. QED
      BY <1>5, <2>4, <2>5, <2>6, <2>7 DEF FirstLife
<1>8. QED
    BY <1>6, <1>7

LEMMA SetupAlone ==
    ASSUME RuntimeInv, TypeInv', FirstLife, NEW j \in Jobs, Setup(j)
    PROVE  FirstLife'
<1>1. TypeOK
    BY DEF RuntimeInv, TypeInv
<1>2. CASE CreateJob(j)
  <2>1. db[j] = Unborn /\ db'[j] = "preparing" /\ \A k \in Jobs \ {j} : db'[k] = db[k]
      BY <1>1, <1>2 DEF CreateJob, NewRow, Born, TypeOK
  <2>2. QED
      BY <1>2, <2>1, UnbornAlone, SetupMoves DEF CreateJob, sessions, boot
<1>3. CASE setup[j] \in {"spawned", "creating"}
  <2>1. /\ Absent(j) /\ lock.job # j /\ setup[j] # "starting"
        /\ db[j] \in {"preparing", "canceled"}
      BY <1>3 DEF FirstLife, SetupFirst
  <2>2. /\ j \notin pending
        /\ \A q \in Procs : call[q].pc # "idle" => call[q].job # j
      BY <1>3 DEF FirstLife, PendingAlone, CallersAlone, CallerIsAlone
  <2>3. CASE BeginSetup(j)
    <3>1. /\ \A k \in Jobs \ {j} : db'[k] = db[k]
          /\ UNCHANGED <<call, lock, tasks, coro, pending, orphans, requeue>>
          /\ \/ setup' = [setup EXCEPT ![j] = "idle"]
             \/ setup' = [setup EXCEPT ![j] = "creating"] /\ db'[j] = "preparing"
        BY <1>1, <2>3 DEF BeginSetup, TypeOK, sessions, boot
    <3>2. QED
        BY <2>1, <2>2, <3>1, SetupMoves
  <2>4. CASE FinishSetup(j)
    <3>1. /\ \A k \in Jobs \ {j} : db'[k] = db[k]
          /\ UNCHANGED <<call, lock, tasks, coro, pending, orphans, requeue>>
          /\ setup' = [setup EXCEPT ![j] = "arriving"] /\ db'[j] # Unborn
        BY <1>1, <2>4 DEF FinishSetup, TypeOK, sessions, boot, Unborn
    <3>2. QED
        BY <2>1, <2>2, <3>1, SetupMoves
  <2>5. CASE SetupFails(j)
    <3>1. /\ \A k \in Jobs \ {j} : db'[k] = db[k]
          /\ UNCHANGED <<call, lock, tasks, coro, pending, orphans, requeue>>
          /\ setup' = [setup EXCEPT ![j] = "idle"]
        BY <1>1, <2>5 DEF SetupFails, TypeOK, sessions, boot
    <3>2. QED
        BY <2>1, <2>2, <3>1, SetupMoves
  <2>6. QED
      BY <1>2, <1>3, <2>3, <2>4, <2>5 DEF Setup, SetupEnters
<1>4. CASE SetupEnters(j)
  <2>1. /\ setup[j] = "arriving" /\ lock = Free
        /\ UNCHANGED <<db, tasks, coro, call, orphans, requeue>>
        /\ UNCHANGED pending
      BY <1>4 DEF SetupEnters, Enqueue, rows, sessions, boot
  <2>2. CASE Admits(j)
    <3>1. tasks[j] = NoSlot
        BY <2>2 DEF Admits, Registered
    <3>2. Absent(j)
        BY <2>1, <3>1, UnregisteredLeaving DEF Absent, FirstLife, SetupFirst
    <3>3. j \notin pending /\ db[j] # Unborn
        BY <2>1 DEF FirstLife, PendingAlone, SetupFirst
    <3>4. /\ lock' = Holding("setup", NoProc, j, "queued")
          /\ setup' = [setup EXCEPT ![j] = "starting"]
        BY <1>4, <2>2 DEF SetupEnters
    <3>5. QED
        BY <2>1, <3>2, <3>3, <3>4, AdmitAlone DEF Unborn
  <2>3. CASE ~Admits(j)
    <3>1. UNCHANGED lock /\ setup' = [setup EXCEPT ![j] = "idle"]
        BY <1>4, <2>3 DEF SetupEnters
    <3>2. \A k \in Jobs : \/ setup'[k] = setup[k]
                          \/ setup[k] = "arriving" /\ setup'[k] = "idle"
        BY <1>1, <2>1, <3>1 DEF TypeOK
    <3>3. QED
        BY <2>1, <3>1, <3>2, ForgetStep
  <2>4. QED
      BY <2>2, <2>3
<1>5. QED
    BY <1>2, <1>3, <1>4
       DEF Setup, BeginSetup, FinishSetup, SetupFails

LEMMA CallingAlone ==
    ASSUME RuntimeInv, TypeInv', FirstLife, NEW p \in Procs, Calling(p)
    PROVE  FirstLife'
<1> DEFINE j == call[p].job
<1>1. call[p].pc # "idle" /\ TypeOK
    BY DEF Calling, ResetRow, BuildFails, CallEnters, RuntimeInv, TypeInv
<1>2. /\ call[p].op # "requeue" /\ Absent(j) /\ j \notin pending
      /\ setup[j] = "idle" /\ db[j] \notin {Unborn, "queued"}
      /\ \A q \in Procs \ {p} : call[q].pc # "idle" => call[q].job # j
      /\ lock.job = j => lock.kind = "call" /\ lock.who = p
    BY <1>1 DEF FirstLife, CallersAlone, CallerIsAlone
<1>3. j \in Jobs /\ p # Recovery /\ call[p] \in CallRecord
    BY <1>1 DEF RuntimeInv, TypeInv, TypeOK, StarterNames, FirstLife,
       NothingRecovered
<1>4. \A k : UNCHANGED coro => (Absent(k) => Absent(k)')
    BY DEF Absent
<1>5. CASE ResetRow(p)
  <2>1. /\ call[p].pc = "building" /\ UNCHANGED <<setup, lock, tasks, coro,
                                          pending, orphans, requeue>>
        /\ db'[j] = "running" /\ \A k \in Jobs \ {j} : db'[k] = db[k]
        /\ call'[p] = [call[p] EXCEPT !.pc = "arriving"]
        /\ \A q \in Procs \ {p} : call'[q] = call[q]
      BY <1>1, <1>3, <1>5 DEF ResetRow, TypeOK, sessions, boot
  <2>2. /\ call'[p].pc = "arriving" /\ call'[p].job = j
        /\ call'[p].op = call[p].op
      BY <1>3, <2>1 DEF CallRecord
  <2>3. lock.job # j
      BY <1>2, <2>1 DEF FirstLife, LockAgrees
  <2>4. LockAgrees'
    <3>1. lock.kind = "call" => lock.who # p
        BY <2>1 DEF FirstLife, LockAgrees
    <3>2. lock.kind = "call" => lock.who \in Procs
        BY DEF RuntimeInv, TypeInv, StarterNames
    <3>3. QED
        BY <2>1, <2>2, <3>1, <3>2 DEF FirstLife, LockAgrees
  <2>5. NothingRecovered' /\ OneCoroutine'
    <3>1. \A s \in Slots : coro[s].pc # "none" => coro[s].job # j
        BY <1>2 DEF Absent
    <3>2. QED
        BY <1>3, <2>1, <3>1
           DEF FirstLife, NothingRecovered, OneCoroutine, Procs
  <2>6. HolderAlone'
    <3>1. lock.step # "none" => lock.job \in Jobs \ {j}
        BY <2>3 DEF RuntimeInv, TypeInv, StarterNames
    <3>2. QED
        BY <1>4, <2>1, <3>1 DEF FirstLife, HolderAlone
  <2>7. CallersAlone'
    <3> SUFFICES ASSUME NEW q \in Procs, call'[q].pc # "idle"
                 PROVE  CallerIsAlone(q)'
        BY DEF CallersAlone
    <3>1. CASE q = p
      <4>1. \A r \in Procs \ {p} : call'[r].pc # "idle" => call'[r].job # j
          BY <1>2, <2>1
      <4>2. QED
          BY <1>2, <1>4, <2>1, <2>2, <3>1, <4>1 DEF CallerIsAlone, Unborn
    <3>2. CASE q # p
      <4>1. /\ CallerIsAlone(q) /\ call'[q] = call[q]
            /\ call[q].job \in Jobs \ {j}
          BY <1>2, <2>1, <3>2 DEF FirstLife, CallersAlone, RuntimeInv, TypeInv,
             StarterNames
      <4>2. QED
          BY <1>4, <2>1, <2>2, <3>2, <4>1 DEF CallerIsAlone
    <3>3. QED
        BY <3>1, <3>2
  <2>8. PendingAlone'
      BY <1>2, <1>4, <2>1 DEF FirstLife, PendingAlone, RuntimeInv, TypeInv, TypeOK
  <2>9. SetupFirst'
      BY <1>2, <1>4, <2>1 DEF FirstLife, SetupFirst
  <2>10. QED
      BY <2>4, <2>5, <2>6, <2>7, <2>8, <2>9 DEF FirstLife
<1>6. CASE BuildFails(p)
  <2>1. \A q \in Procs : \/ call'[q] = call[q]
                         \/ call[q].pc # "starting" /\ call'[q] = IdleCall
      BY <1>1, <1>6 DEF BuildFails, TypeOK
  <2>2. QED
      BY <1>6, <2>1, ForgetStep DEF BuildFails, rows, sessions, boot
<1>7. CASE CallEnters(p)
  <2>1. /\ call[p].pc = "arriving" /\ lock = Free
        /\ UNCHANGED <<db, setup, tasks, coro, orphans, requeue>>
      BY <1>7 DEF CallEnters, rows, sessions, boot
  <2>2. CASE Admits(j)
    <3>1. /\ UNCHANGED pending
          /\ lock' = Holding("call", p, j, LoadedState(call[p].op))
          /\ call' = [call EXCEPT ![p] = [@ EXCEPT !.pc = "starting"]]
        BY <1>7, <2>2 DEF CallEnters, Enqueue, Admits
    <3>2. LoadedState(call[p].op) # Unborn
        BY DEF LoadedState, Unborn
    <3>3. QED
        BY <1>2, <1>3, <2>1, <3>1, <3>2, AdmitAlone
  <2>3. CASE ~Admits(j)
    <3>1. /\ UNCHANGED lock /\ pending' \subseteq pending \cup {j}
          /\ call'[p] = IdleCall /\ \A q \in Procs \ {p} : call'[q] = call[q]
        BY <1>1, <1>7, <2>3 DEF CallEnters, Enqueue, TypeOK
    <3>2. LockAgrees' /\ NothingRecovered' /\ OneCoroutine' /\ HolderAlone'
        BY <2>1, <3>1 DEF FirstLife, LockAgrees, NothingRecovered, OneCoroutine,
           HolderAlone, Absent, Free, IdleCall, Procs
    <3>3. CallersAlone'
      <4> SUFFICES ASSUME NEW q \in Procs, call'[q].pc # "idle"
                   PROVE  CallerIsAlone(q)'
          BY DEF CallersAlone
      <4>1. /\ q # p /\ CallerIsAlone(q) /\ call'[q] = call[q]
            /\ call[q].job # j
          BY <1>2, <3>1 DEF FirstLife, CallersAlone, IdleCall
      <4>2. \A r \in Procs \ {q} : call'[r].pc # "idle" => call'[r].job # call[q].job
          BY <3>1, <4>1 DEF CallerIsAlone, IdleCall
      <4>3. QED
          BY <1>4, <2>1, <3>1, <4>1, <4>2 DEF CallerIsAlone
    <3>4. PendingAlone'
        BY <1>2, <1>4, <2>1, <3>1 DEF FirstLife, PendingAlone
    <3>5. SetupFirst'
        BY <1>4, <2>1, <3>1 DEF FirstLife, SetupFirst
    <3>6. QED
        BY <3>2, <3>3, <3>4, <3>5 DEF FirstLife
  <2>4. QED
      BY <2>2, <2>3
<1>8. QED
    BY <1>5, <1>6, <1>7 DEF Calling

\* The holder of the lock goes on with its start.
LEMMA HolderMoves ==
    ASSUME RuntimeInv, TypeInv', FirstLife, lock.step # "none",
           NEW step \in {"preflight", "launch"},
           lock' = [lock EXCEPT !.step = step],
           db'[lock.job] \notin Early, \A j \in Jobs \ {lock.job} : db'[j] = db[j],
           UNCHANGED <<setup, call, tasks, coro, pending, orphans, requeue>>
    PROVE  FirstLife'
<1>1. /\ lock'.step = step /\ lock'.kind = lock.kind /\ lock'.who = lock.who
      /\ lock'.job = lock.job /\ lock'.loaded = lock.loaded
    BY DEF RuntimeInv, TypeInv, TypeOK, LockRecord
<1>2. \A k : Absent(k) => Absent(k)'
    BY DEF Absent
<1>3. lock.job \in Jobs /\ Absent(lock.job)
    BY DEF RuntimeInv, TypeInv, StarterNames, FirstLife, HolderAlone
<1>4. LockAgrees' /\ NothingRecovered'
    BY <1>1 DEF FirstLife, LockAgrees, NothingRecovered
<1>5. OneCoroutine'
    BY <1>3 DEF FirstLife, OneCoroutine, Absent
<1>6. HolderAlone'
    BY <1>1, <1>2 DEF FirstLife, HolderAlone, Early
<1>7. CallersAlone'
  <2> SUFFICES ASSUME NEW p \in Procs, call'[p].pc # "idle"
               PROVE  CallerIsAlone(p)'
      BY DEF CallersAlone
  <2>1. CallerIsAlone(p) /\ call[p].job \in Jobs
      BY DEF FirstLife, CallersAlone, RuntimeInv, TypeInv, StarterNames
  <2>2. QED
      BY <1>1, <1>2, <2>1 DEF CallerIsAlone, Early
<1>8. PendingAlone'
    BY <1>2 DEF FirstLife, PendingAlone, HolderAlone, RuntimeInv, TypeInv, TypeOK
<1>9. SetupFirst'
    BY <1>1, <1>2 DEF FirstLife, SetupFirst, Early
<1>10. QED
    BY <1>4, <1>5, <1>6, <1>7, <1>8, <1>9 DEF FirstLife

\* The task is created: the job's only coroutine.
LEMMA LaunchAlone ==
    ASSUME RuntimeInv, TypeInv', FirstLife, Launch
    PROVE  FirstLife'
<1> DEFINE j == lock.job
<1>1. PICK s \in FreeSlots :
        /\ tasks' = [tasks EXCEPT ![j] = s]
        /\ coro' = [AfterStart([tasks EXCEPT ![j] = s]) EXCEPT ![s] =
                      [job |-> j, pc |-> "created", last |-> FALSE]]
    BY DEF Launch
<1>2. /\ UNCHANGED <<db, pending, orphans, requeue>> /\ ReleaseLock
      /\ lock.step = "launch" /\ TypeOK
    BY DEF Launch, rows, boot, RuntimeInv, TypeInv
<1>3. /\ j \in Jobs /\ Absent(j) /\ j \notin pending /\ db[j] \notin Early
    BY <1>2 DEF RuntimeInv, TypeInv, StarterNames, FirstLife, HolderAlone
<1>4. s \in Slots /\ coro[s].pc = "none"
    BY DEF FreeSlots
<1>5. /\ coro'[s].job = j /\ coro'[s].pc = "created"
      /\ \A t \in Slots \ {s} : coro'[t] = coro[t] \/ coro'[t].pc = "none"
  <2> DEFINE registered == [tasks EXCEPT ![j] = s]
             c == [job |-> j, pc |-> "created", last |-> FALSE]
  <2>1. CASE lock.kind = "dequeue"
    <3>1. /\ lock.who \in Slots /\ coro[lock.who].pc \in Leaving
          /\ coro[lock.who].pc # "none"
        BY <2>1 DEF RuntimeInv, TypeInv, StarterNames, DequeuerStarts, Leaving
    <3>2. coro[lock.who].job # j /\ coro[lock.who].job \in Jobs
        BY <1>3, <3>1 DEF Absent, FirstLife, OneCoroutine
    <3>3. registered[coro[lock.who].job] = tasks[coro[lock.who].job]
        BY <1>2, <3>2 DEF TypeOK
    <3> HIDE DEF registered, c
    <3>4. AfterStart(registered) = [coro EXCEPT ![lock.who] = NoCoroutine]
        BY <2>1, <3>1, <3>3, ReturnedTame DEF AfterStart
    <3>5. coro' = [[coro EXCEPT ![lock.who] = NoCoroutine] EXCEPT ![s] = c]
        BY <1>1, <3>4 DEF registered, c
    <3>6. /\ coro'[s] = c
          /\ \A t \in Slots \ {s} : coro'[t] = coro[t] \/ coro'[t] = NoCoroutine
        BY <1>2, <1>4, <3>5 DEF TypeOK
    <3>7. QED
        BY <3>6 DEF c, NoCoroutine
  <2>2. CASE lock.kind # "dequeue"
    <3>1. coro' = [coro EXCEPT ![s] = c]
        BY <1>1, <2>2 DEF AfterStart
    <3>2. QED
        BY <1>2, <1>4, <3>1 DEF TypeOK
  <2>3. QED
      BY <2>1, <2>2
<1>6. \A t \in Slots \ {s} : coro'[t].pc # "none" =>
          coro'[t] = coro[t] /\ coro[t].job # j
    BY <1>3, <1>5 DEF Absent
<1>7. \A k : k # j /\ Absent(k) => Absent(k)'
    BY <1>5, <1>6 DEF Absent
<1>8. /\ lock' = Free /\ LockAgrees'
      /\ \A k \in Jobs : \/ setup'[k] = setup[k]
                         \/ setup[k] = "starting" /\ setup'[k] = "idle"
      /\ \A p \in Procs : call'[p].pc # "idle" =>
            call'[p] = call[p] /\ call[p].job # lock.job
      /\ call'[Recovery].pc = "idle"
    BY <1>2, ReleaseFacts
<1>9. NothingRecovered'
    BY <1>2, <1>8 DEF FirstLife, NothingRecovered
<1>10. OneCoroutine'
  <2>1. tasks'[j] = s /\ \A k \in Jobs \ {j} : tasks'[k] = tasks[k]
      BY <1>1, <1>2, <1>3 DEF TypeOK
  <2> SUFFICES ASSUME NEW t \in Slots, coro'[t].pc # "none"
               PROVE  /\ coro'[t].job \in Jobs
                      /\ db'[coro'[t].job] \notin Early
                      /\ coro'[t].pc \in Registrable => tasks'[coro'[t].job] = t
                      /\ \A u \in Slots \ {t} : coro'[u].pc # "none"
                                          => coro'[u].job # coro'[t].job
      BY DEF OneCoroutine, Early
  <2>2. CASE t = s
      BY <1>2, <1>3, <1>5, <1>6, <2>1, <2>2
  <2>3. CASE t # s
    <3>1. coro'[t] = coro[t] /\ coro[t].job # j
        BY <1>6, <2>3
    <3>2. /\ coro[t].job \in Jobs /\ db[coro[t].job] \notin Early
          /\ coro[t].pc \in Registrable => tasks[coro[t].job] = t
          /\ \A u \in Slots \ {t} : coro[u].pc # "none" => coro[u].job # coro[t].job
        BY <3>1 DEF FirstLife, OneCoroutine
    <3>3. QED
        BY <1>2, <1>5, <1>6, <2>1, <2>3, <3>1, <3>2
  <2>4. QED
      BY <2>2, <2>3
<1>11. HolderAlone'
    BY <1>8 DEF HolderAlone, Free
<1>12. CallersAlone'
  <2> SUFFICES ASSUME NEW p \in Procs, call'[p].pc # "idle"
               PROVE  CallerIsAlone(p)'
      BY DEF CallersAlone
  <2>1. /\ call'[p] = call[p] /\ call[p].job # j
        /\ CallerIsAlone(p) /\ call[p].job \in Jobs
      BY <1>8 DEF FirstLife, CallersAlone, RuntimeInv, TypeInv, StarterNames
  <2>2. Absent(call[p].job)'
      BY <1>7, <2>1 DEF CallerIsAlone
  <2>3. setup'[call[p].job] = "idle"
      BY <1>8, <2>1 DEF CallerIsAlone
  <2>4. \A q \in Procs \ {p} : call'[q].pc # "idle" => call'[q].job # call[p].job
      BY <1>8, <2>1 DEF CallerIsAlone
  <2>5. call[p].job # NoJob
      BY <2>1, JobsAssumption DEF NoJob
  <2>6. QED
      BY <1>2, <1>8, <2>1, <2>2, <2>3, <2>4, <2>5 DEF CallerIsAlone, Free
<1>13. PendingAlone'
    BY <1>2, <1>3, <1>7, <1>8
       DEF FirstLife, PendingAlone, RuntimeInv, TypeInv, TypeOK
<1>14. SetupFirst'
  <2>1. \A k \in Jobs : k # lock'.job
      BY <1>8, JobsAssumption DEF Free, NoJob
  <2>2. \A t \in Slots : coro'[t].pc \in Leaving => coro'[t] = coro[t]
      BY <1>5, <1>6 DEF Leaving
  <2>3. QED
      BY <1>2, <1>7, <1>8, <2>1, <2>2 DEF FirstLife, SetupFirst
<1>15. QED
    BY <1>8, <1>9, <1>10, <1>11, <1>12, <1>13, <1>14 DEF FirstLife

LEMMA StartingAlone ==
    ASSUME RuntimeInv, TypeInv', FirstLife, Starting
    PROVE  FirstLife'
<1>1. TypeOK /\ (lock.step # "none" => lock.job \in Jobs)
    BY DEF RuntimeInv, TypeInv, StarterNames
<1>2. CASE ClaimWins
  <2>1. /\ db'[lock.job] = "running" /\ \A k \in Jobs \ {lock.job} : db'[k] = db[k]
        /\ UNCHANGED <<setup, call, tasks, coro, pending, orphans, requeue>>
        /\ lock.step # "none" /\ lock' = [lock EXCEPT !.step = "preflight"]
      BY <1>1, <1>2 DEF ClaimWins, TypeOK, boot
  <2>2. QED
      BY <2>1, HolderMoves DEF Early, Unborn
<1>3. CASE PreflightDone
  <2>1. /\ UNCHANGED <<db, setup, call, tasks, coro, pending, orphans, requeue>>
        /\ lock.step = "preflight" /\ lock' = [lock EXCEPT !.step = "launch"]
      BY <1>3 DEF PreflightDone, rows, boot, sessions
  <2>2. db[lock.job] \notin Early
      BY <2>1 DEF FirstLife, HolderAlone
  <2>3. QED
      BY <2>1, <2>2, HolderMoves
<1>4. CASE ClaimLost \/ PreflightCanceled
  <2>1. /\ UNCHANGED <<db, tasks, pending, orphans, requeue>> /\ ReleaseLock
        /\ lock.step # "none" /\ coro' = AfterStart(tasks)
      BY <1>4 DEF ClaimLost, PreflightCanceled, rows, boot
  <2>2. db[lock.job] # Unborn
      BY <2>1 DEF FirstLife, HolderAlone
  <2>3. QED
      BY <2>1, <2>2, AfterStartTame, ReleaseQuiet
<1>5. CASE StartRaises
  <2>1. /\ UNCHANGED <<tasks, pending, orphans>> /\ ReleaseLock
        /\ lock.step # "none" /\ coro' = AfterStart(tasks)
        /\ \A k \in Jobs \ {lock.job} : db'[k] = db[k]
      BY <1>1, <1>5 DEF StartRaises, TypeOK
  <2>2. UNCHANGED requeue
      BY <1>5 DEF StartRaises, FirstLife, NothingRecovered
  <2>3. setup[lock.job] = "arriving" => db'[lock.job] # Unborn
    <3> SUFFICES ASSUME setup[lock.job] = "arriving"
                 PROVE  db'[lock.job] # Unborn
        OBVIOUS
    <3>1. lock.kind # "call"
      <4> SUFFICES ASSUME lock.kind = "call" PROVE FALSE
          OBVIOUS
      <4>1. lock.who \in Procs /\ call[lock.who].pc # "idle" /\ call[lock.who].job = lock.job
          BY DEF FirstLife, LockAgrees, RuntimeInv, TypeInv, StarterNames
      <4>2. QED
          BY <4>1 DEF FirstLife, CallersAlone, CallerIsAlone
    <3>2. lock.kind # "setup"
        BY DEF FirstLife, LockAgrees
    <3>3. db'[lock.job] = lock.loaded
        BY <1>1, <1>5, <2>1, <3>1, <3>2 DEF StartRaises, Restores, TypeOK
    <3>4. QED
        BY <2>1, <3>3 DEF FirstLife, LockAgrees
  <2>4. QED
      BY <2>1, <2>2, <2>3, AfterStartTame, ReleaseQuiet
<1>6. QED
    BY <1>2, <1>3, <1>4, <1>5, LaunchAlone DEF Starting

\* Shutdown, and what follows it until the backend is started again.
LEMMA BootingAlone ==
    ASSUME RuntimeInv, TypeInv', FirstLife, Booting, restarts = 0, restarts' = 0
    PROVE  FirstLife'
<1>1. CASE Shutdown
  <2>1. PICK swallowed \in BOOLEAN :
          coro' = [s \in Slots |-> IF \E j \in Jobs : tasks[j] = s
                                  THEN Cancelled(coro[s], swallowed)
                                  ELSE coro[s]]
      BY <1>1 DEF Shutdown
  <2>2. TameCoroutines
      BY <2>1, CancelTame DEF RuntimeInv, TypeInv
  <2>3. \A k \in Jobs : TameRow(k)
      BY <1>1 DEF Shutdown, rows, TameRow
  <2>4. QED
      BY <1>1, <2>2, <2>3, QuietStep DEF Shutdown
<1>2. CASE Restart
  <2>1. restarts' = restarts + 1
      BY <1>2 DEF Restart
  <2>2. QED
      BY <2>1
<1>3. CASE TurnedAway
  <2>1. /\ UNCHANGED <<db, lock, tasks, coro, pending, orphans, requeue>> /\ TypeOK
      BY <1>3 DEF TurnedAway, rows, sessions, boot, RuntimeInv, TypeInv
  <2>2. /\ \A j \in Jobs : \/ setup'[j] = setup[j]
                           \/ setup[j] = "arriving" /\ setup'[j] = "idle"
        /\ \A p \in Procs : \/ call'[p] = call[p]
                            \/ call[p].pc # "starting" /\ call'[p] = IdleCall
    <3>1. CASE UNCHANGED call
        BY <1>3, <2>1, <3>1 DEF TurnedAway, TypeOK
    <3>2. CASE UNCHANGED setup /\ ~UNCHANGED call
        BY <1>3, <2>1, <3>2 DEF TurnedAway, TypeOK
    <3>3. QED
        BY <1>3, <3>1, <3>2 DEF TurnedAway
  <2>3. QED
      BY <2>1, <2>2, ForgetStep
<1>4. CASE \E j \in Jobs : RecoverNext(j) \/ RequeueNext(j)
    BY <1>4 DEF RecoverNext, RequeueNext, FirstLife, NothingRecovered
<1>5. QED
    BY <1>1, <1>2, <1>3, <1>4 DEF Booting

\* Only a shutdown and a restart change what life of the backend it is.
LEMMA LifeGoesOn ==
    ASSUME [Next]_vars, ~Shutdown, ~Restart
    PROVE  UNCHANGED <<stopping, restarts>>
<1>1. CASE \E j \in Jobs : Setup(j) \/ Operator(j)
    BY <1>1 DEF Setup, Operator, CreateJob, BeginSetup, FinishSetup,
       SetupFails, SetupEnters, Cancel, ResolveJob, boot
<1>2. CASE \/ \E p \in Requests : Request(p)
           \/ \E p \in Procs : Calling(p)
    BY <1>2 DEF Request, Calling, ResumeJob, SendMessage, RerunJob,
       ResetRow, BuildFails, CallEnters, boot
<1>3. CASE Starting
    BY <1>3 DEF Starting, ClaimWins, ClaimLost, PreflightDone,
       PreflightCanceled, Launch, StartRaises, boot
<1>4. CASE \E s \in Slots : Session(s)
    BY <1>4 DEF Session, BeginTask, EnterSession, EnterFails, Complete,
       MergeDone, FailSession, RequestApproval, ApprovalGranted,
       ApprovalRejected, boot
<1>5. CASE \E s \in Slots : Cleanup(s)
    BY <1>5 DEF Cleanup, HandleCanceled, AbortDone, CancelSafetyNet,
       EnsureTerminal, DropJobState, CleanupApprovals, DequeueNothing,
       DequeueStart, boot
<1>6. CASE Booting
    BY <1>6 DEF Booting, TurnedAway, RecoverNext, RequeueNext, boot
<1>7. CASE UNCHANGED vars
    BY <1>7 DEF vars
<1>8. QED
    BY <1>1, <1>2, <1>3, <1>4, <1>5, <1>6, <1>7 DEF Next

\* Restarts are only counted up.
LEMMA RestartsCount ==
    ASSUME RuntimeInv, [Next]_vars, restarts' = 0
    PROVE  restarts = 0 /\ ~Restart
<1>1. restarts \in Nat
    BY DEF RuntimeInv, TypeInv, TypeOK
<1>2. ~Restart
    BY <1>1 DEF Restart
<1>3. UNCHANGED restarts
    BY <1>2, LifeGoesOn DEF Shutdown
<1>4. QED
    BY <1>2, <1>3

LEMMA FirstLifeInit == Init => FirstLife
<1> SUFFICES ASSUME Init PROVE FirstLife
    OBVIOUS
<1>1. /\ \A j \in Jobs : setup[j] = "idle" /\ db[j] = Unborn
      /\ \A p \in Procs : call[p] = IdleCall
      /\ \A s \in Slots : coro[s] = NoCoroutine
      /\ lock = Free /\ pending = {} /\ orphans = {} /\ requeue = {}
    BY DEF Init
<1>2. LockAgrees
    BY <1>1 DEF LockAgrees, IdleCall, Free
<1>3. NothingRecovered /\ OneCoroutine
    BY <1>1 DEF NothingRecovered, OneCoroutine, IdleCall, NoCoroutine, Procs
<1>4. HolderAlone /\ CallersAlone /\ PendingAlone /\ SetupFirst
    BY <1>1 DEF HolderAlone, CallersAlone, PendingAlone, SetupFirst, Free, IdleCall
<1>5. QED
    BY <1>2, <1>3, <1>4 DEF FirstLife

LEMMA FirstLifeNext ==
    ASSUME PatientOperator, RuntimeInv, restarts = 0 => FirstLife, [Next]_vars
    PROVE  restarts' = 0 => FirstLife'
<1> SUFFICES ASSUME restarts' = 0 PROVE FirstLife'
    OBVIOUS
<1>1. restarts = 0 /\ FirstLife
    BY RestartsCount
<1>2. TypeInv'
    BY SafetyNext DEF RuntimeInv
<1>3. CASE UNCHANGED vars
    BY <1>1, <1>3 DEF vars, FirstLife, LockAgrees, NothingRecovered, OneCoroutine,
       HolderAlone, CallersAlone, CallerIsAlone, PendingAlone, SetupFirst, Absent
<1>4. QED
    BY <1>1, <1>2, <1>3, SetupAlone, OperatorAlone, RequestAlone, CallingAlone,
       StartingAlone, SessionAlone, CleanupAlone, BootingAlone DEF Next

\* With a patient operator, whoever works on a job works on it alone until
\* the first restart.
THEOREM AloneUntilRestart ==
    ASSUME PatientOperator
    PROVE  Spec => [](RuntimeInv /\ (restarts = 0 => FirstLife))
<1> DEFINE PatientInv == RuntimeInv /\ (restarts = 0 => FirstLife)
<1>1. Init => PatientInv
    BY SafetyInit, FirstLifeInit
<1>2. PatientInv /\ [Next]_vars => PatientInv'
    BY SafetyNext, FirstLifeNext
<1>3. QED
    BY <1>1, <1>2, PTL DEF Spec

\* The agents at work are the coroutines _tasks names for their jobs.
LEMMA AgentsAreCounted ==
    ASSUME RuntimeInv, FirstLife
    PROVE  AgentsWithinCapacity
<1> DEFINE jobOf == [s \in AgentsAtWork |-> coro[s].job]
<1>1. \A s \in AgentsAtWork :
          /\ coro[s].pc # "none" /\ coro[s].job \in Registered
    <2>1. \A s \in AgentsAtWork : s \in Slots /\ coro[s].pc \in Registrable
                                    /\ coro[s].pc # "none"
        BY DEF AgentsAtWork, Registrable
    <2>2. \A s \in Slots : s # NoSlot
        BY SlotsAssumption DEF NoSlot
    <2>3. QED
        BY <2>1, <2>2 DEF FirstLife, OneCoroutine, Registered
<1>2. \A s, t \in AgentsAtWork : coro[s].job = coro[t].job => s = t
    BY <1>1 DEF FirstLife, OneCoroutine, AgentsAtWork
<1>3. jobOf \in Injection(AgentsAtWork, Registered)
    BY <1>1, <1>2 DEF Injection, IsInjective
<1>4. IsFiniteSet(Registered) /\ Cardinality(Registered) \in Nat
    BY RegisteredType, FewerTasks
<1>5. IsFiniteSet(AgentsAtWork) /\ Cardinality(AgentsAtWork) <= Cardinality(Registered)
    BY <1>3, <1>4, FS_Injection
<1>6. Cardinality(AgentsAtWork) \in Nat
    BY <1>5, FS_CardinalityType
<1>7. QED
    BY <1>4, <1>5, <1>6, CapacityAssumption
       DEF RuntimeInv, CapacityRespected, AgentsWithinCapacity

\* No more agents are at work than max_concurrent_jobs: with an operator who
\* waits, an agent at work is one that _tasks counts, whatever cancels,
\* messages, failed starts and shutdowns come before the first restart.
THEOREM AgentsAreWithinCapacity ==
    ASSUME PatientOperator
    PROVE  Spec => [](restarts = 0 => AgentsWithinCapacity)
<1>1. RuntimeInv /\ (restarts = 0 => FirstLife)
        => (restarts = 0 => AgentsWithinCapacity)
    BY AgentsAreCounted
<1>2. QED
    BY <1>1, AloneUntilRestart, PTL

-----------------------------------------------------------------------------
(* Nobody waits for an answer that nobody will see.                        *)

\* The points at which a session waits for an answer, or is on its way to the
\* write that ends the wait.
Waits == {"awaiting", "canceling", "aborting", "netting", "settling"}

Attended ==
    \A j \in Jobs : db[j] = "waiting_for_approval" => CoroutinesOf(j, Waits) # {}

\* No start puts a row back to waiting_for_approval: none was that way when the
\* snapshot was taken.
NoWaitingSnapshot ==
    /\ \A p \in Procs : call[p].prev # "waiting_for_approval"
    /\ lock.loaded # "waiting_for_approval"

WaitInv == Attended /\ NoWaitingSnapshot

LEMMA AttendedKept ==
    ASSUME Attended,
           \A j \in Jobs : db'[j] = "waiting_for_approval"
                                => db[j] = "waiting_for_approval",
           \A s \in Slots : coro[s].pc \in Waits =>
                \/ coro'[s].pc \in Waits /\ coro'[s].job = coro[s].job
                \/ db'[coro[s].job] # "waiting_for_approval"
    PROVE  Attended'
<1> SUFFICES ASSUME NEW j \in Jobs, db'[j] = "waiting_for_approval"
             PROVE  CoroutinesOf(j, Waits)' # {}
    BY DEF Attended
<1>1. PICK s \in Slots : coro[s].job = j /\ coro[s].pc \in Waits
    BY DEF Attended, CoroutinesOf
<1>2. QED
    BY <1>1 DEF CoroutinesOf

\* _fail_job and the cancel handlers put no row into waiting_for_approval.
LEMMA RowsNotWaiting ==
    ASSUME NEW state, state # "waiting_for_approval"
    PROVE  FailJob(state) # "waiting_for_approval"
BY DEF FailJob, TransitionOr

LEMMA SessionAttended ==
    ASSUME RuntimeInv, FirstLife, WaitInv, NEW s \in Slots, Session(s)
    PROVE  WaitInv'
<1> DEFINE j == coro[s].job
<1>1. TypeOK /\ coro[s].pc # "none" /\ UNCHANGED starters
    BY DEF Session, BeginTask, EnterSession, EnterFails, Complete, MergeDone,
       FailSession, RequestApproval, ApprovalGranted, ApprovalRejected,
       RuntimeInv, TypeInv
<1>2. j \in Jobs
    BY <1>1 DEF FirstLife, OneCoroutine
<1>3. NoWaitingSnapshot'
    BY <1>1 DEF WaitInv, NoWaitingSnapshot, starters
<1>4. ASSUME NEW pc, Move(s, pc)
      PROVE  /\ coro'[s].pc = pc /\ coro'[s].job = j
             /\ \A t \in Slots \ {s} : coro'[t] = coro[t]
    BY <1>1, <1>4 DEF Move, TypeOK, Coroutine
<1>5. CASE EnterFails(s)
  <2>1. \A t \in Slots : coro[t].pc \in Waits => coro'[t] = coro[t]
      BY <1>1, <1>5 DEF EnterFails, Escaped, TypeOK, Waits
  <2>2. QED
      BY <1>3, <1>5, <2>1, AttendedKept DEF EnterFails, rows, WaitInv
<1>6. CASE BeginTask(s) \/ EnterSession(s) \/ Complete(s) \/ MergeDone(s)
             \/ FailSession(s)
  <2>1. \A t \in Slots : coro[t].pc \in Waits => coro'[t] = coro[t]
    <3>1. coro[s].pc \notin Waits /\ \E pc : Move(s, pc)
        BY <1>6 DEF BeginTask, EnterSession, Complete, MergeDone, FailSession,
           Waits
    <3>2. QED
        BY <1>4, <3>1
  <2>2. \A k \in Jobs : db'[k] = "waiting_for_approval"
                            => db[k] = "waiting_for_approval"
      BY <1>1, <1>2, <1>6, RowsNotWaiting DEF BeginTask, EnterSession, Complete,
         MergeDone, FailSession, rows, TypeOK
  <2>3. QED
      BY <1>3, <2>1, <2>2, AttendedKept DEF WaitInv
<1>7. CASE RequestApproval(s)
  <2>1. CASE CanTransition(db[j], "waiting_for_approval")
    <3>1. /\ coro'[s].pc = "awaiting" /\ coro'[s].job = j
          /\ \A t \in Slots \ {s} : coro'[t] = coro[t]
          /\ \A k \in Jobs \ {j} : db'[k] = db[k]
        BY <1>1, <1>2, <1>4, <1>7, <2>1 DEF RequestApproval, TypeOK
    <3>2. coro[s].pc \notin Waits
        BY <1>7 DEF RequestApproval, Waits
    <3>3. Attended'
      <4> SUFFICES ASSUME NEW k \in Jobs, db'[k] = "waiting_for_approval"
                   PROVE  CoroutinesOf(k, Waits)' # {}
          BY DEF Attended
      <4>1. CASE k = j
          BY <3>1, <4>1 DEF CoroutinesOf, Waits
      <4>2. CASE k # j
        <5>1. PICK t \in Slots : coro[t].job = k /\ coro[t].pc \in Waits
            BY <3>1, <4>2 DEF WaitInv, Attended, CoroutinesOf
        <5>2. QED
            BY <3>1, <3>2, <5>1 DEF CoroutinesOf
      <4>3. QED
          BY <4>1, <4>2
    <3>4. QED
        BY <1>3, <3>3 DEF WaitInv
  <2>2. CASE ~CanTransition(db[j], "waiting_for_approval")
    <3>1. /\ coro'[s].pc = "settling" /\ coro'[s].job = j
          /\ \A t \in Slots \ {s} : coro'[t] = coro[t]
        BY <1>4, <1>7, <2>2 DEF RequestApproval
    <3>2. \A k \in Jobs : db'[k] = "waiting_for_approval"
                            => db[k] = "waiting_for_approval"
        BY <1>1, <1>2, <1>7, <2>2, RowsNotWaiting DEF RequestApproval, TypeOK
    <3>3. QED
        BY <1>3, <3>1, <3>2, AttendedKept DEF WaitInv, Waits
  <2>3. QED
      BY <2>1, <2>2
<1>8. CASE ApprovalGranted(s) \/ ApprovalRejected(s)
  <2>1. \A k \in Jobs : db'[k] = "waiting_for_approval"
                            => db[k] = "waiting_for_approval"
      BY <1>1, <1>2, <1>8, RowsNotWaiting
         DEF ApprovalGranted, ApprovalRejected, TypeOK
  <2>2. \/ coro'[s].pc = "settling" /\ coro'[s].job = j
        \/ db'[j] # "waiting_for_approval"
      BY <1>1, <1>2, <1>4, <1>8 DEF ApprovalGranted, ApprovalRejected, TypeOK
  <2>3. \A t \in Slots \ {s} : coro'[t] = coro[t]
      BY <1>4, <1>8 DEF ApprovalGranted, ApprovalRejected
  <2>4. QED
      BY <1>3, <2>1, <2>2, <2>3, AttendedKept DEF WaitInv, Waits
<1>9. QED
    BY <1>5, <1>6, <1>7, <1>8 DEF Session

LEMMA CleanupAttended ==
    ASSUME RuntimeInv, FirstLife, WaitInv, ~stopping, NEW s \in Slots, Cleanup(s)
    PROVE  WaitInv'
<1> DEFINE j == coro[s].job
<1>1. TypeOK /\ coro[s].pc # "none"
    BY DEF Cleanup, HandleCanceled, AbortDone, CancelSafetyNet, EnsureTerminal,
       DropJobState, CleanupApprovals, DequeueNothing, DequeueStart,
       RuntimeInv, TypeInv
<1>2. j \in Jobs
    BY <1>1 DEF FirstLife, OneCoroutine
<1>3. ASSUME NEW pc, Move(s, pc)
      PROVE  /\ coro'[s].pc = pc /\ coro'[s].job = j
             /\ \A t \in Slots \ {s} : coro'[t] = coro[t]
    BY <1>1, <1>3 DEF Move, TypeOK, Coroutine
<1>4. CASE HandleCanceled(s) \/ AbortDone(s) \/ EnsureTerminal(s)
  <2>1. \A k \in Jobs : db'[k] = "waiting_for_approval"
                            => db[k] = "waiting_for_approval"
      BY <1>1, <1>2, <1>4 DEF HandleCanceled, AbortDone, EnsureTerminal, rows,
         TypeOK, CanceledRow
  <2>2. \/ coro'[s].pc \in Waits /\ coro'[s].job = j
        \/ db'[j] # "waiting_for_approval"
      BY <1>1, <1>2, <1>3, <1>4 DEF HandleCanceled, AbortDone, EnsureTerminal,
         TypeOK, Waits, InFlightStates
  <2>3. \A t \in Slots \ {s} : coro'[t] = coro[t]
      BY <1>3, <1>4 DEF HandleCanceled, AbortDone, EnsureTerminal
  <2>4. NoWaitingSnapshot'
      BY <1>4 DEF WaitInv, NoWaitingSnapshot, starters, HandleCanceled,
         AbortDone, EnsureTerminal
  <2>5. QED
      BY <2>1, <2>2, <2>3, <2>4, AttendedKept DEF WaitInv
<1>5. CASE CancelSafetyNet(s)
  <2>1. /\ \A k \in Jobs : db'[k] = "waiting_for_approval"
                            => db[k] = "waiting_for_approval"
        /\ db'[j] # "waiting_for_approval"
      BY <1>1, <1>2, <1>5 DEF CancelSafetyNet, TypeOK, CanceledRow,
         TERMINAL_STATES
  <2>2. \A t \in Slots \ {s} : coro'[t] = coro[t]
      BY <1>1, <1>5 DEF CancelSafetyNet, Escaped, TypeOK
  <2>3. NoWaitingSnapshot'
      BY <1>5 DEF WaitInv, NoWaitingSnapshot, starters, CancelSafetyNet
  <2>4. QED
      BY <2>1, <2>2, <2>3, AttendedKept DEF WaitInv
<1>6. CASE DropJobState(s)
  <2>1. coro[s].pc \notin Waits /\ \A t \in Slots \ {s} : coro'[t] = coro[t]
      BY <1>3, <1>6 DEF DropJobState, Waits
  <2>2. UNCHANGED db /\ NoWaitingSnapshot'
      BY <1>6 DEF WaitInv, NoWaitingSnapshot, starters, rows, DropJobState
  <2>3. QED
      BY <2>1, <2>2, AttendedKept DEF WaitInv
<1>7. CASE CleanupApprovals(s)
  <2>1. \A t \in Slots : coro[t].pc \in Waits =>
            coro'[t].pc \in Waits /\ coro'[t].job = coro[t].job
    <3> SUFFICES ASSUME NEW t \in Slots, coro[t].pc \in Waits
                 PROVE  coro'[t].pc \in Waits /\ coro'[t].job = coro[t].job
        OBVIOUS
    <3>1. t # s
        BY <1>7 DEF CleanupApprovals, Waits
    <3>2. coro'[t] \in {[coro[t] EXCEPT !.pc = "canceling"], coro[t]}
        BY <1>7, <3>1 DEF CleanupApprovals
    <3>3. coro[t] \in Coroutine
        BY <1>1 DEF TypeOK
    <3>4. QED
        BY <3>2, <3>3 DEF Coroutine, Waits
  <2>2. UNCHANGED db /\ NoWaitingSnapshot'
      BY <1>7 DEF WaitInv, NoWaitingSnapshot, starters, rows, CleanupApprovals
  <2>3. QED
      BY <2>1, <2>2, AttendedKept DEF WaitInv
<1>8. CASE DequeueNothing(s)
  <2>1. coro[s].pc \notin Waits /\ \A t \in Slots \ {s} : coro'[t] = coro[t]
      BY <1>1, <1>8 DEF DequeueNothing, Returned, Waits, TypeOK
  <2>2. UNCHANGED db /\ NoWaitingSnapshot'
      BY <1>8 DEF WaitInv, NoWaitingSnapshot, starters, rows, DequeueNothing
  <2>3. QED
      BY <2>1, <2>2, AttendedKept DEF WaitInv
<1>9. CASE DequeueStart(s)
  <2>1. coro[s].pc \notin Waits /\ \A t \in Slots \ {s} : coro'[t] = coro[t]
      BY <1>3, <1>9 DEF DequeueStart, Waits
  <2>2. PICK k \in Jobs \ Registered :
          /\ k \in pending \/ NextQueued(k)
          /\ lock' = Holding("dequeue", s, k, db[k])
      BY <1>9 DEF DequeueStart
  <2>3. db[k] # "waiting_for_approval"
    <3>1. CASE k \in pending
        BY <3>1 DEF FirstLife, PendingAlone, WaitInv, Attended, Absent,
           CoroutinesOf, Waits
    <3>2. CASE NextQueued(k)
        BY <3>2 DEF NextQueued
    <3>3. QED
        BY <2>2, <3>1, <3>2
  <2>4. UNCHANGED <<db, call>> /\ lock'.loaded = db[k]
      BY <1>9, <2>2 DEF DequeueStart, rows, Holding
  <2>5. QED
      BY <2>1, <2>3, <2>4, AttendedKept DEF WaitInv, NoWaitingSnapshot
<1>10. QED
    BY <1>4, <1>5, <1>6, <1>7, <1>8, <1>9 DEF Cleanup

LEMMA OperatorAttended ==
    ASSUME RuntimeInv, WaitInv, NEW j \in Jobs, Operator(j)
    PROVE  WaitInv'
<1>1. TypeOK /\ UNCHANGED starters
    BY DEF Operator, Cancel, ResolveJob, RuntimeInv, TypeInv
<1>2. NoWaitingSnapshot'
    BY <1>1 DEF WaitInv, NoWaitingSnapshot, starters
<1>3. CASE Cancel(j)
  <2>1. db'[j] = "canceled" /\ \A k \in Jobs \ {j} : db'[k] = db[k]
      BY <1>1, <1>3 DEF Cancel, TypeOK
  <2>2. \A s \in Slots : coro'[s] = coro[s] \/ tasks[j] = s
      BY <1>3 DEF Cancel
  <2>3. \A s \in Slots : tasks[j] = s => coro[s].job = j
      BY SlotsAssumption DEF RuntimeInv, RegistryNamesItsJob, Registered, NoSlot
  <2>4. QED
      BY <1>2, <2>1, <2>2, <2>3, AttendedKept DEF WaitInv
<1>4. CASE ResolveJob(j)
  <2>1. UNCHANGED coro /\ \A k \in Jobs : db'[k] = "waiting_for_approval"
                                            => db[k] = "waiting_for_approval"
      BY <1>1, <1>4 DEF ResolveJob, sessions, TypeOK
  <2>2. QED
      BY <1>2, <2>1, AttendedKept DEF WaitInv
<1>5. QED
    BY <1>3, <1>4 DEF Operator

LEMMA SetupAttended ==
    ASSUME RuntimeInv, WaitInv, NEW j \in Jobs, Setup(j)
    PROVE  WaitInv'
<1>1. TypeOK /\ UNCHANGED <<call, coro>>
    BY DEF Setup, CreateJob, BeginSetup, FinishSetup, SetupFails, SetupEnters,
       sessions, RuntimeInv, TypeInv
<1>2. \A k \in Jobs : db'[k] = "waiting_for_approval"
                            => db[k] = "waiting_for_approval"
    BY <1>1, RowsNotWaiting DEF Setup, CreateJob, NewRow, BeginSetup,
       FinishSetup, SetupFails, SetupEnters, rows, TypeOK
<1>3. lock' = lock \/ lock' = Holding("setup", NoProc, j, "queued")
    BY DEF Setup, CreateJob, BeginSetup, FinishSetup, SetupFails, SetupEnters
<1>4. NoWaitingSnapshot'
    BY <1>1, <1>3 DEF WaitInv, NoWaitingSnapshot, Holding
<1>5. QED
    BY <1>1, <1>2, <1>4, AttendedKept DEF WaitInv

\* A message recovers a job that waits only when its session is gone: there is
\* no such job.
LEMMA RequestAttended ==
    ASSUME PatientOperator, RuntimeInv, FirstLife, WaitInv,
           NEW p \in Requests, Request(p)
    PROVE  WaitInv'
<1>1. PICK j \in Jobs : ResumeJob(p, j) \/ SendMessage(p, j) \/ RerunJob(p, j)
    BY DEF Request
<1>2. TypeOK /\ UNCHANGED <<lock, coro>> /\ p \in Procs
    BY <1>1 DEF ResumeJob, SendMessage, RerunJob, sessions, RuntimeInv, TypeInv,
       Procs
<1>3. \A k \in Jobs : db'[k] = "waiting_for_approval"
                            => db[k] = "waiting_for_approval"
    BY <1>1, <1>2 DEF ResumeJob, SendMessage, RerunJob, NewRow, rows, TypeOK
<1>4. call'[p].prev # "waiting_for_approval"
  <2>1. CASE RerunJob(p, j)
      BY <1>2, <2>1 DEF RerunJob, TypeOK, Unborn
  <2>2. CASE ResumeJob(p, j) \/ SendMessage(p, j)
    <3>1. Absent(j)
        BY <2>2, NoSituation DEF ResumeJob, SendMessage, CanResume,
           PatientOperator
    <3>2. db[j] # "waiting_for_approval"
        BY <3>1 DEF WaitInv, Attended, Absent, CoroutinesOf, Waits
    <3>3. call'[p].prev = db[j]
        BY <1>2, <2>2 DEF ResumeJob, SendMessage, BeginCall, TypeOK
    <3>4. QED
        BY <3>2, <3>3
  <2>3. QED
      BY <1>1, <2>1, <2>2
<1>5. \A q \in Procs \ {p} : call'[q] = call[q]
    BY <1>1, <1>2 DEF ResumeJob, SendMessage, RerunJob, BeginCall, TypeOK
<1>6. NoWaitingSnapshot'
    BY <1>2, <1>4, <1>5 DEF WaitInv, NoWaitingSnapshot
<1>7. QED
    BY <1>2, <1>3, <1>6, AttendedKept DEF WaitInv

LEMMA CallingAttended ==
    ASSUME RuntimeInv, WaitInv, NEW p \in Procs, Calling(p)
    PROVE  WaitInv'
<1>1. TypeOK /\ UNCHANGED coro /\ call[p] \in CallRecord
    BY DEF Calling, ResetRow, BuildFails, CallEnters, sessions, RuntimeInv,
       TypeInv, TypeOK
<1>2. \A k \in Jobs : db'[k] = "waiting_for_approval"
                            => db[k] = "waiting_for_approval"
    BY <1>1 DEF Calling, ResetRow, BuildFails, CallEnters, rows, TypeOK
<1>3. /\ \A q \in Procs \ {p} : call'[q] = call[q]
      /\ \/ call'[p] = [call[p] EXCEPT !.pc = "arriving"]
         \/ call'[p] = [call[p] EXCEPT !.pc = "starting"]
         \/ call'[p] = IdleCall
    BY <1>1 DEF Calling, ResetRow, BuildFails, CallEnters, TypeOK
<1>4. call'[p].prev = call[p].prev \/ call'[p].prev = Unborn
    BY <1>1, <1>3 DEF CallRecord, IdleCall
<1>5. \/ lock' = lock
      \/ lock' = Holding("call", p, call[p].job, LoadedState(call[p].op))
    BY DEF Calling, ResetRow, BuildFails, CallEnters
<1>6. LoadedState(call[p].op) # "waiting_for_approval"
    BY DEF LoadedState
<1>7. NoWaitingSnapshot'
    BY <1>3, <1>4, <1>5, <1>6 DEF WaitInv, NoWaitingSnapshot, Holding, Unborn
<1>8. QED
    BY <1>1, <1>2, <1>7, AttendedKept DEF WaitInv

LEMMA StartingAttended ==
    ASSUME RuntimeInv, FirstLife, WaitInv, Starting
    PROVE  WaitInv'
<1>1. TypeOK /\ lock.step # "none" /\ lock.job \in Jobs
    BY DEF Starting, ClaimWins, ClaimLost, PreflightDone, PreflightCanceled,
       Launch, StartRaises, RuntimeInv, TypeInv, StarterNames
<1>2. \A k \in Jobs : db'[k] = "waiting_for_approval"
                            => db[k] = "waiting_for_approval"
  <2>1. FailJob(lock.loaded) # "waiting_for_approval"
      BY RowsNotWaiting DEF WaitInv, NoWaitingSnapshot
  <2>2. Restores => call[lock.who].prev # "waiting_for_approval"
      BY DEF Restores, WaitInv, NoWaitingSnapshot, RuntimeInv, TypeInv,
         StarterNames
  <2>3. QED
      BY <1>1, <2>1, <2>2 DEF WaitInv, NoWaitingSnapshot, Starting, ClaimWins,
         ClaimLost, PreflightDone, PreflightCanceled, Launch, StartRaises, rows,
         TypeOK
<1>3. \A s \in Slots : coro[s].pc \in Waits => coro'[s] = coro[s]
  <2>1. ASSUME NEW registered
        PROVE  \A s \in Slots : coro[s].pc \in Waits
                    => AfterStart(registered)[s] = coro[s]
    <3>1. lock.kind = "dequeue" => coro[lock.who].pc \notin Waits
        BY DEF RuntimeInv, DequeuerStarts, Waits
    <3>2. QED
        BY <1>1, <3>1 DEF AfterStart, Returned, TypeOK
  <2>2. ASSUME NEW registered
        PROVE  DOMAIN AfterStart(registered) = Slots
      BY <1>1 DEF AfterStart, Returned, TypeOK
  <2>3. CASE Launch
    <3>1. PICK s \in FreeSlots :
            coro' = [AfterStart([tasks EXCEPT ![lock.job] = s]) EXCEPT ![s] =
                      [job |-> lock.job, pc |-> "created", last |-> FALSE]]
        BY <2>3 DEF Launch
    <3>2. coro[s].pc \notin Waits
        BY DEF FreeSlots, Waits
    <3>3. \A t \in Slots \ {s} :
            coro'[t] = AfterStart([tasks EXCEPT ![lock.job] = s])[t]
        BY <2>2, <3>1
    <3>4. QED
        BY <2>1, <3>2, <3>3
  <2>4. CASE ~Launch
      BY <2>1, <2>4 DEF Starting, ClaimWins, ClaimLost, PreflightDone,
         PreflightCanceled, StartRaises, sessions
  <2>5. QED
      BY <2>3, <2>4
<1>4. NoWaitingSnapshot'
  <2>1. lock'.loaded # "waiting_for_approval"
    <3>1. lock' = Free \/ lock' = [lock EXCEPT !.step = "preflight"]
                       \/ lock' = [lock EXCEPT !.step = "launch"]
        BY DEF Starting, ClaimWins, ClaimLost, PreflightDone, PreflightCanceled,
           Launch, StartRaises, ReleaseLock
    <3>2. lock'.loaded = lock.loaded \/ lock'.loaded = Unborn
        BY <1>1, <3>1 DEF TypeOK, LockRecord, Free
    <3>3. QED
        BY <3>2 DEF WaitInv, NoWaitingSnapshot, Unborn
  <2>2. \A p \in Procs : call'[p] \in {call[p], IdleCall}
      BY <1>1 DEF Starting, ClaimWins, ClaimLost, PreflightDone,
         PreflightCanceled, Launch, StartRaises, ReleaseLock, TypeOK
  <2>3. QED
      BY <2>1, <2>2 DEF WaitInv, NoWaitingSnapshot, IdleCall, Unborn
<1>5. QED
    BY <1>2, <1>3, <1>4, AttendedKept DEF WaitInv

\* The first life of the backend, before its shutdown begins.
FirstDays == restarts = 0 /\ ~stopping

LEMMA FirstDaysBack ==
    ASSUME RuntimeInv, [Next]_vars, FirstDays'
    PROVE  FirstDays /\ restarts' = 0
<1>1. restarts = 0 /\ restarts' = 0 /\ ~Restart
    BY RestartsCount DEF FirstDays
<1>2. ~Shutdown
    BY DEF FirstDays, Shutdown
<1>3. QED
    BY <1>1, <1>2, LifeGoesOn DEF FirstDays

\* What boots, shuts down or is turned away by a shutdown does nothing there.
LEMMA FirstDaysBooting ==
    ASSUME RuntimeInv, FirstLife, Booting, FirstDays, FirstDays'
    PROVE  FALSE
<1>1. restarts' # restarts + 1 /\ ~stopping'
    BY DEF FirstDays
<1>2. ~(\E j \in Jobs : RecoverNext(j) \/ RequeueNext(j))
    BY DEF RecoverNext, RequeueNext, FirstLife, NothingRecovered
<1>3. QED
    BY <1>1, <1>2 DEF Booting, Shutdown, Restart, TurnedAway, FirstDays

LEMMA AttendedNext ==
    ASSUME PatientOperator, RuntimeInv, restarts = 0 => FirstLife,
           FirstDays => WaitInv, [Next]_vars
    PROVE  FirstDays' => WaitInv'
<1> SUFFICES ASSUME FirstDays' PROVE WaitInv'
    OBVIOUS
<1>1. FirstDays /\ FirstLife /\ WaitInv
    BY FirstDaysBack DEF FirstDays
<1>2. CASE UNCHANGED vars
    BY <1>1, <1>2 DEF vars, WaitInv, Attended, NoWaitingSnapshot, CoroutinesOf
<1>3. QED
    BY <1>1, <1>2, SessionAttended, CleanupAttended, OperatorAttended,
       SetupAttended, RequestAttended, CallingAttended, StartingAttended,
       FirstDaysBooting DEF Next, FirstDays

\* A row in waiting_for_approval has a session that waits, or one on its way
\* to the write that ends the wait: with an operator who waits, until the
\* first restart, also when starts fail and put old rows back.
THEOREM WaitingIsAttended ==
    ASSUME PatientOperator
    PROVE  Spec => [](restarts = 0 => WaitingHasWaiter)
<1> DEFINE PatientInv == RuntimeInv /\ (restarts = 0 => FirstLife)
           Inv == PatientInv /\ (FirstDays => WaitInv)
<1>1. Init => Inv
  <2> SUFFICES ASSUME Init PROVE WaitInv
      BY SafetyInit, FirstLifeInit
  <2>1. QED
      BY DEF Init, WaitInv, Attended, NoWaitingSnapshot, Unborn, IdleCall, Free
<1>2. Inv /\ [Next]_vars => Inv'
    BY SafetyNext, FirstLifeNext, AttendedNext
<1>3. Inv => (restarts = 0 => WaitingHasWaiter)
    BY DEF FirstDays, WaitInv, Attended, WaitingHasWaiter, Waits
<1>4. QED
    BY <1>1, <1>2, <1>3, PTL DEF Spec

-----------------------------------------------------------------------------
(* No row is left in running by a job nobody works on.  A start that raises  *)
(* puts an old state back and is left out by name.                          *)

\* From the new task to the write that ends the session.
Working == {"created", "entering", "executing", "merging"} \cup Waits

\* A caller, a start or a session has the job, or it waits in _pending_starts.
WorkedOn(j) ==
    \/ CoroutinesOf(j, Working) # {}
    \/ lock.job = j
    \/ j \in pending
    \/ \E p \in Procs : call[p].job = j /\ call[p].pc # "idle"

RunInv == \A j \in Jobs : db[j] = "running" => WorkedOn(j)

\* A step that only moves coroutines and writes rows leaves the owners, but
\* for the sessions that end.
LEMMA WorkKept ==
    ASSUME RunInv,
           \A j \in Jobs : db'[j] = "running" => db[j] = "running" \/ WorkedOn(j),
           \A s \in Slots : coro[s].pc \in Working =>
                \/ coro'[s].pc \in Working /\ coro'[s].job = coro[s].job
                \/ db'[coro[s].job] # "running",
           lock' = lock \/ lock.job = NoJob \/ db'[lock.job] # "running",
           \A j \in pending : j \in pending' \/ lock'.job = j \/ db'[j] # "running",
           \A p \in Procs : \/ call[p].pc = "idle"
                            \/ call'[p].pc # "idle" /\ call'[p].job = call[p].job
                            \/ call[p].job \in pending'
                            \/ db'[call[p].job] # "running"
    PROVE  RunInv'
<1> SUFFICES ASSUME NEW j \in Jobs, db'[j] = "running"
             PROVE  WorkedOn(j)'
    BY DEF RunInv
<1>1. WorkedOn(j) /\ j # NoJob
    BY JobsAssumption DEF RunInv, NoJob
<1>2. CASE CoroutinesOf(j, Working) # {}
  <2>1. PICK s \in Slots : coro[s].job = j /\ coro[s].pc \in Working
      BY <1>2 DEF CoroutinesOf
  <2>2. QED
      BY <2>1 DEF WorkedOn, CoroutinesOf
<1>3. CASE lock.job = j
    BY <1>1, <1>3 DEF WorkedOn
<1>4. CASE j \in pending
    BY <1>4 DEF WorkedOn
<1>5. CASE \E p \in Procs : call[p].job = j /\ call[p].pc # "idle"
    BY <1>5 DEF WorkedOn
<1>6. QED
    BY <1>1, <1>2, <1>3, <1>4, <1>5 DEF WorkedOn

LEMMA SessionWorks ==
    ASSUME RuntimeInv, FirstLife, RunInv, NEW s \in Slots, Session(s)
    PROVE  RunInv'
<1> DEFINE j == coro[s].job
<1>1. TypeOK /\ UNCHANGED <<lock, call, pending>>
    BY DEF Session, BeginTask, EnterSession, EnterFails, Complete, MergeDone,
       FailSession, RequestApproval, ApprovalGranted, ApprovalRejected, starters,
       RuntimeInv, TypeInv
<1>2. coro[s].pc \in Working
    BY DEF Session, BeginTask, EnterSession, EnterFails, Complete, MergeDone,
       FailSession, RequestApproval, ApprovalGranted, ApprovalRejected,
       Working, Waits
<1>3. /\ j \in Jobs /\ WorkedOn(j)
    BY <1>2 DEF FirstLife, OneCoroutine, Working, Waits, WorkedOn, CoroutinesOf
<1>4. \A k \in Jobs \ {j} : db'[k] = db[k]
    BY <1>1, <1>3 DEF Session, BeginTask, EnterSession, EnterFails, Complete,
       MergeDone, FailSession, RequestApproval, ApprovalGranted,
       ApprovalRejected, rows, TypeOK
<1>5. /\ coro'[s].pc \in Working /\ coro'[s].job = j
      /\ \A t \in Slots \ {s} : coro'[t] = coro[t]
  <2>1. CASE EnterFails(s)
    <3>1. coro'[s] = [coro[s] EXCEPT !.pc = "settling", !.last = TRUE]
        BY <2>1, EscapedTame DEF EnterFails
    <3>2. coro'[s].pc = "settling" /\ coro'[s].job = j
        BY <1>1, <3>1 DEF TypeOK, Coroutine
    <3>3. \A t \in Slots \ {s} : coro'[t] = coro[t]
        BY <1>1, <2>1 DEF EnterFails, Escaped, TypeOK
    <3>4. QED
        BY <3>2, <3>3 DEF Working, Waits
  <2>2. CASE ~EnterFails(s)
    <3>1. PICK pc \in Working : Move(s, pc)
        BY <2>2 DEF Session, BeginTask, EnterSession, Complete, MergeDone,
           FailSession, RequestApproval, ApprovalGranted, ApprovalRejected,
           Working, Waits
    <3>2. QED
        BY <1>1, <3>1 DEF Move, TypeOK, Coroutine
  <2>3. QED
      BY <2>1, <2>2
<1>6. QED
    BY <1>1, <1>3, <1>4, <1>5, WorkKept

LEMMA CleanupWorks ==
    ASSUME RuntimeInv, FirstLife, RunInv, ~stopping, NEW s \in Slots, Cleanup(s)
    PROVE  RunInv'
<1> DEFINE j == coro[s].job
<1>1. /\ TypeOK /\ coro[s].pc # "none" /\ UNCHANGED call
    BY DEF Cleanup, HandleCanceled, AbortDone, CancelSafetyNet, EnsureTerminal,
       DropJobState, CleanupApprovals, DequeueNothing, DequeueStart, starters,
       RuntimeInv, TypeInv
<1>2. j \in Jobs
    BY <1>1 DEF FirstLife, OneCoroutine
<1>3. ASSUME NEW pc, Move(s, pc)
      PROVE  /\ coro'[s].pc = pc /\ coro'[s].job = j
             /\ \A t \in Slots \ {s} : coro'[t] = coro[t]
    BY <1>1, <1>3 DEF Move, TypeOK, Coroutine
<1>4. CASE HandleCanceled(s) \/ AbortDone(s) \/ EnsureTerminal(s)
  <2>1. /\ \A k \in Jobs : db'[k] = "running" => db[k] = "running"
        /\ UNCHANGED <<lock, pending>>
      BY <1>1, <1>2, <1>4 DEF HandleCanceled, AbortDone, EnsureTerminal, rows,
         starters, TypeOK, CanceledRow
  <2>2. \/ coro'[s].pc \in Working /\ coro'[s].job = j
        \/ db'[j] # "running"
      BY <1>1, <1>2, <1>3, <1>4 DEF HandleCanceled, AbortDone, EnsureTerminal,
         TypeOK, Working, Waits, InFlightStates
  <2>3. \A t \in Slots \ {s} : coro'[t] = coro[t]
      BY <1>3, <1>4 DEF HandleCanceled, AbortDone, EnsureTerminal
  <2>4. QED
      BY <1>1, <2>1, <2>2, <2>3, WorkKept
<1>5. CASE CancelSafetyNet(s)
  <2>1. /\ \A k \in Jobs : db'[k] = "running" => db[k] = "running"
        /\ db'[j] # "running" /\ UNCHANGED <<lock, pending>>
      BY <1>1, <1>2, <1>5 DEF CancelSafetyNet, TypeOK, CanceledRow, starters,
         TERMINAL_STATES
  <2>2. \A t \in Slots \ {s} : coro'[t] = coro[t]
      BY <1>1, <1>5 DEF CancelSafetyNet, Escaped, TypeOK
  <2>3. QED
      BY <1>1, <2>1, <2>2, WorkKept
<1>6. CASE DropJobState(s)
  <2>1. /\ coro[s].pc \notin Working /\ \A t \in Slots \ {s} : coro'[t] = coro[t]
        /\ UNCHANGED <<db, lock>>
      BY <1>3, <1>6 DEF DropJobState, Working, Waits, rows, starters
  <2>2. j \notin pending /\ pending' = pending \ {j}
      BY <1>1, <1>6 DEF DropJobState, FirstLife, PendingAlone, Absent
  <2>3. QED
      BY <1>1, <2>1, <2>2, WorkKept
<1>7. CASE CleanupApprovals(s)
  <2>1. \A t \in Slots : coro[t].pc \in Working =>
            coro'[t].pc \in Working /\ coro'[t].job = coro[t].job
    <3> SUFFICES ASSUME NEW t \in Slots, coro[t].pc \in Working
                 PROVE  coro'[t].pc \in Working /\ coro'[t].job = coro[t].job
        OBVIOUS
    <3>1. t # s
        BY <1>7 DEF CleanupApprovals, Working, Waits
    <3>2. coro'[t] \in {[coro[t] EXCEPT !.pc = "canceling"], coro[t]}
        BY <1>7, <3>1 DEF CleanupApprovals
    <3>3. coro[t] \in Coroutine
        BY <1>1 DEF TypeOK
    <3>4. QED
        BY <3>2, <3>3 DEF Coroutine, Working, Waits
  <2>2. UNCHANGED <<db, lock, pending>>
      BY <1>7 DEF starters, rows, CleanupApprovals
  <2>3. QED
      BY <1>1, <2>1, <2>2, WorkKept
<1>8. CASE DequeueNothing(s)
  <2>1. /\ coro[s].pc \notin Working /\ \A t \in Slots \ {s} : coro'[t] = coro[t]
        /\ UNCHANGED <<db, lock>>
      BY <1>1, <1>8 DEF DequeueNothing, Returned, Working, Waits, TypeOK, rows,
         starters
  <2>2. pending \cap Registered = {}
    <3> SUFFICES ASSUME NEW k \in pending \cap Registered PROVE FALSE
        OBVIOUS
    <3>1. /\ tasks[k] \in Slots /\ coro[tasks[k]].job = k
          /\ coro[tasks[k]].pc \in Registrable
        BY <1>1 DEF RuntimeInv, RegistryNamesItsJob, Registered, TypeOK
    <3>2. QED
        BY <3>1 DEF FirstLife, PendingAlone, Absent, Registrable
  <2>3. pending' = pending
      BY <1>8, <2>2 DEF DequeueNothing
  <2>4. QED
      BY <1>1, <2>1, <2>3, WorkKept
<1>9. CASE DequeueStart(s)
  <2>1. coro[s].pc \notin Working /\ \A t \in Slots \ {s} : coro'[t] = coro[t]
      BY <1>3, <1>9 DEF DequeueStart, Working, Waits
  <2>2. PICK k \in Jobs \ Registered :
          /\ pending' = pending \ {k}
          /\ lock' = Holding("dequeue", s, k, db[k])
      BY <1>9 DEF DequeueStart
  <2>3. UNCHANGED db /\ lock.job = NoJob /\ lock'.job = k
      BY <1>9, <2>2 DEF DequeueStart, rows, Holding, Free
  <2>4. QED
      BY <1>1, <2>1, <2>2, <2>3, WorkKept
<1>10. QED
    BY <1>4, <1>5, <1>6, <1>7, <1>8, <1>9 DEF Cleanup

LEMMA OperatorWorks ==
    ASSUME RuntimeInv, RunInv, NEW j \in Jobs, Operator(j)
    PROVE  RunInv'
<1>1. TypeOK /\ UNCHANGED <<lock, call, pending>>
    BY DEF Operator, Cancel, ResolveJob, starters, RuntimeInv, TypeInv
<1>2. CASE Cancel(j)
  <2>1. db'[j] = "canceled" /\ \A k \in Jobs \ {j} : db'[k] = db[k]
      BY <1>1, <1>2 DEF Cancel, TypeOK
  <2>2. \A s \in Slots : coro'[s] = coro[s] \/ tasks[j] = s
      BY <1>2 DEF Cancel
  <2>3. \A s \in Slots : tasks[j] = s => coro[s].job = j
      BY SlotsAssumption DEF RuntimeInv, RegistryNamesItsJob, Registered, NoSlot
  <2>4. QED
      BY <1>1, <2>1, <2>2, <2>3, WorkKept
<1>3. CASE ResolveJob(j)
  <2>1. UNCHANGED coro /\ \A k \in Jobs : db'[k] = "running" => db[k] = "running"
      BY <1>1, <1>3 DEF ResolveJob, sessions, TypeOK
  <2>2. QED
      BY <1>1, <2>1, WorkKept
<1>4. QED
    BY <1>2, <1>3 DEF Operator

LEMMA SetupWorks ==
    ASSUME RuntimeInv, RunInv, NEW j \in Jobs, Setup(j)
    PROVE  RunInv'
<1>1. TypeOK /\ UNCHANGED <<call, coro>>
    BY DEF Setup, CreateJob, BeginSetup, FinishSetup, SetupFails, SetupEnters,
       sessions, RuntimeInv, TypeInv
<1>2. \A k \in Jobs : db'[k] = "running" => db[k] = "running"
    BY <1>1 DEF Setup, CreateJob, NewRow, BeginSetup,
       FinishSetup, SetupFails, SetupEnters, rows, TypeOK, FailJob, TransitionOr
<1>3. UNCHANGED pending
    BY DEF Setup, CreateJob, BeginSetup, FinishSetup, SetupFails, SetupEnters,
       Enqueue
<1>4. lock' = lock \/ lock.job = NoJob
    BY DEF Setup, CreateJob, BeginSetup, FinishSetup, SetupFails, SetupEnters,
       Free
<1>5. QED
    BY <1>1, <1>2, <1>3, <1>4, WorkKept

LEMMA RequestWorks ==
    ASSUME RuntimeInv, RunInv, NEW p \in Requests, Request(p)
    PROVE  RunInv'
<1>1. PICK j \in Jobs : ResumeJob(p, j) \/ SendMessage(p, j) \/ RerunJob(p, j)
    BY DEF Request
<1>2. TypeOK /\ UNCHANGED <<lock, coro, pending>> /\ p \in Procs
    BY <1>1 DEF ResumeJob, SendMessage, RerunJob, sessions, RuntimeInv, TypeInv,
       Procs
<1>3. \A k \in Jobs : db'[k] = "running" => db[k] = "running"
    BY <1>1, <1>2 DEF ResumeJob, SendMessage, RerunJob, NewRow, rows, TypeOK
<1>4. call[p].pc = "idle" /\ \A q \in Procs \ {p} : call'[q] = call[q]
    BY <1>1, <1>2 DEF ResumeJob, SendMessage, RerunJob, BeginCall, TypeOK
<1>5. QED
    BY <1>2, <1>3, <1>4, WorkKept

\* A caller that finds no capacity leaves its job in _pending_starts; one that
\* finds the job in _tasks would not, and does not exist.
LEMMA CallingWorks ==
    ASSUME "startError" \notin Env, RuntimeInv, FirstLife, RunInv,
           NEW p \in Procs, Calling(p)
    PROVE  RunInv'
<1> DEFINE j == call[p].job
<1>1. TypeOK /\ UNCHANGED coro /\ call[p] \in CallRecord /\ call[p].pc # "idle"
    BY DEF Calling, ResetRow, BuildFails, CallEnters, sessions, RuntimeInv,
       TypeInv, TypeOK
<1>2. j \in Jobs /\ CallerIsAlone(p) /\ WorkedOn(j)
    BY <1>1 DEF FirstLife, CallersAlone, RuntimeInv, TypeInv, StarterNames,
       WorkedOn
<1>3. CASE ResetRow(p)
  <2>1. /\ call'[p] = [call[p] EXCEPT !.pc = "arriving"]
        /\ \A q \in Procs \ {p} : call'[q] = call[q]
        /\ \A k \in Jobs \ {j} : db'[k] = db[k]
        /\ UNCHANGED <<lock, pending>>
      BY <1>1, <1>2, <1>3 DEF ResetRow, TypeOK
  <2>2. call'[p].pc = "arriving" /\ call'[p].job = j
      BY <1>1, <2>1 DEF CallRecord
  <2>3. QED
      BY <1>1, <1>2, <2>1, <2>2, WorkKept
<1>4. CASE CallEnters(p)
  <2>1. /\ lock.job = NoJob /\ UNCHANGED db
        /\ \A q \in Procs \ {p} : call'[q] = call[q]
      BY <1>1, <1>4 DEF CallEnters, rows, Free, TypeOK
  <2>2. CASE Admits(j)
    <3>1. /\ call'[p] = [call[p] EXCEPT !.pc = "starting"] /\ UNCHANGED pending
        BY <1>1, <1>4, <2>2 DEF CallEnters, Enqueue, Admits, TypeOK
    <3>2. call'[p].pc = "starting" /\ call'[p].job = j
        BY <1>1, <3>1 DEF CallRecord
    <3>3. QED
        BY <1>1, <2>1, <3>1, <3>2, WorkKept
  <2>3. CASE ~Admits(j)
    <3>1. j \notin Registered
      <4> SUFFICES ASSUME j \in Registered PROVE FALSE
          OBVIOUS
      <4>1. /\ tasks[j] \in Slots /\ coro[tasks[j]].job = j
            /\ coro[tasks[j]].pc \in Registrable
          BY <1>1 DEF RuntimeInv, RegistryNamesItsJob, Registered, TypeOK
      <4>2. QED
          BY <1>2, <4>1 DEF CallerIsAlone, Absent, Registrable
    <3>2. ~HasCapacity
        BY <2>3, <3>1 DEF Admits
    <3>3. LoadedState(call[p].op) # "queued"
        BY <1>2 DEF CallerIsAlone, LoadedState
    <3>4. pending' = pending \cup {j}
        BY <1>4, <3>2, <3>3 DEF CallEnters, Enqueue
    <3>5. QED
        BY <1>1, <2>1, <3>4, WorkKept
  <2>4. QED
      BY <2>2, <2>3
<1>5. QED
    BY <1>3, <1>4 DEF Calling, BuildFails

LEMMA StartingWorks ==
    ASSUME "startError" \notin Env, RuntimeInv, FirstLife, RunInv, Starting
    PROVE  RunInv'
<1>1. TypeOK /\ lock.step # "none" /\ lock.job \in Jobs /\ lock.job # NoJob
    BY JobsAssumption DEF Starting, ClaimWins, ClaimLost, PreflightDone,
       PreflightCanceled, Launch, StartRaises, RuntimeInv, TypeInv, StarterNames,
       NoJob
<1>2. WorkedOn(lock.job) /\ UNCHANGED pending
    BY DEF WorkedOn, Starting, ClaimWins, ClaimLost, PreflightDone,
       PreflightCanceled, Launch, StartRaises
<1>3. \A s \in Slots : \A registered : coro[s].pc \in Working
            => AfterStart(registered)[s] = coro[s]
  <2>1. lock.kind = "dequeue" => coro[lock.who].pc \notin Working
      BY DEF RuntimeInv, DequeuerStarts, Working, Waits
  <2>2. QED
      BY <1>1, <2>1 DEF AfterStart, Returned, TypeOK
<1>4. CASE ClaimWins \/ PreflightDone
  <2>1. /\ UNCHANGED <<call, coro>> /\ \A k \in Jobs \ {lock.job} : db'[k] = db[k]
        /\ lock' \in {[lock EXCEPT !.step = "preflight"],
                      [lock EXCEPT !.step = "launch"]}
      BY <1>1, <1>4 DEF ClaimWins, PreflightDone, rows, sessions, TypeOK
  <2>2. lock'.job = lock.job
      BY <1>1, <2>1 DEF TypeOK, LockRecord
  <2> SUFFICES ASSUME NEW k \in Jobs, db'[k] = "running"
               PROVE  WorkedOn(k)'
      BY DEF RunInv
  <2>3. WorkedOn(k)
      BY <1>2, <2>1 DEF RunInv
  <2>4. QED
      BY <1>2, <2>1, <2>2, <2>3 DEF WorkedOn, CoroutinesOf
<1>5. CASE ClaimLost \/ PreflightCanceled
  <2>1. /\ UNCHANGED db /\ coro' = AfterStart(tasks) /\ ReleaseLock
        /\ db'[lock.job] # "running"
      BY <1>5 DEF ClaimLost, PreflightCanceled, rows, ClaimableStates,
         TERMINAL_STATES
  <2>2. \A p \in Procs : call'[p] = call[p] \/ call[p].job = lock.job
      BY <1>1, <2>1 DEF ReleaseLock, FirstLife, LockAgrees, TypeOK
  <2>3. QED
      BY <1>2, <1>3, <2>1, <2>2, WorkKept
<1>6. CASE Launch
  <2>1. PICK s \in FreeSlots :
          coro' = [AfterStart([tasks EXCEPT ![lock.job] = s]) EXCEPT ![s] =
                    [job |-> lock.job, pc |-> "created", last |-> FALSE]]
      BY <1>6 DEF Launch
  <2>2. /\ s \in Slots /\ coro[s].pc \notin Working
        /\ DOMAIN AfterStart([tasks EXCEPT ![lock.job] = s]) = Slots
      BY <1>1 DEF FreeSlots, Working, Waits, AfterStart, Returned, TypeOK
  <2>3. /\ coro'[s].job = lock.job /\ coro'[s].pc = "created"
        /\ \A t \in Slots : coro[t].pc \in Working => coro'[t] = coro[t]
      BY <1>3, <2>1, <2>2
  <2>4. UNCHANGED db /\ ReleaseLock
      BY <1>6 DEF Launch, rows
  <2>5. \A p \in Procs : call'[p] = call[p] \/ call[p].job = lock.job
      BY <1>1, <2>4 DEF ReleaseLock, FirstLife, LockAgrees, TypeOK
  <2> SUFFICES ASSUME NEW k \in Jobs, db'[k] = "running"
               PROVE  WorkedOn(k)'
      BY DEF RunInv
  <2>6. CASE k = lock.job
      BY <2>2, <2>3, <2>6 DEF WorkedOn, CoroutinesOf, Working
  <2>7. CASE k # lock.job
    <3>1. WorkedOn(k)
        BY <2>4 DEF RunInv
    <3>2. QED
        BY <1>2, <2>3, <2>5, <2>7, <3>1 DEF WorkedOn, CoroutinesOf
  <2>8. QED
      BY <2>6, <2>7
<1>7. QED
    BY <1>4, <1>5, <1>6 DEF Starting, StartRaises

LEMMA WorkNext ==
    ASSUME PatientOperator, "startError" \notin Env, RuntimeInv,
           restarts = 0 => FirstLife, FirstDays => RunInv, [Next]_vars
    PROVE  FirstDays' => RunInv'
<1> SUFFICES ASSUME FirstDays' PROVE RunInv'
    OBVIOUS
<1>1. FirstDays /\ FirstLife /\ RunInv
    BY FirstDaysBack DEF FirstDays
<1>2. CASE UNCHANGED vars
    BY <1>1, <1>2 DEF vars, RunInv, WorkedOn, CoroutinesOf
<1>3. QED
    BY <1>1, <1>2, SessionWorks, CleanupWorks, OperatorWorks,
       SetupWorks, RequestWorks, CallingWorks, StartingWorks,
       FirstDaysBooting DEF Next, FirstDays

\* A row in running is backed by a session, by a start under way or waiting
\* for capacity, or by the request that wrote it: with an operator who waits
\* and starts that do not raise, until the first restart.
THEOREM RunningIsOwned ==
    ASSUME PatientOperator, "startError" \notin Env
    PROVE  Spec => [](restarts = 0 => RunningHasOwner)
<1> DEFINE PatientInv == RuntimeInv /\ (restarts = 0 => FirstLife)
           Inv == PatientInv /\ (FirstDays => RunInv)
<1>1. Init => Inv
  <2> SUFFICES ASSUME Init PROVE RunInv
      BY SafetyInit, FirstLifeInit
  <2>1. QED
      BY DEF Init, RunInv, Unborn
<1>2. Inv /\ [Next]_vars => Inv'
    BY SafetyNext, FirstLifeNext, WorkNext
<1>3. Inv => (restarts = 0 => RunningHasOwner)
  <2> SUFFICES ASSUME Inv, FirstDays, NEW j \in Jobs, db[j] = "running"
               PROVE  Owned(j)
      BY DEF RunningHasOwner, FirstDays
  <2>1. WorkedOn(j)
      BY DEF RunInv
  <2>2. \A s \in Slots : coro[s].pc \in Working => coro[s].pc \in Registrable
      BY DEF Working, Waits, Registrable
  <2>3. QED
      BY <2>1, <2>2 DEF WorkedOn, Owned, CoroutinesOf
<1>4. QED
    BY <1>1, <1>2, <1>3, PTL DEF Spec

-----------------------------------------------------------------------------
(* A job that ended by itself runs again only as a new session, whatever    *)
(* the operator cancels and whatever starts raise.  A canceled row is no    *)
(* such job: the start it was canceled behind brings it back.               *)

Concluded == ResumableStates \ {"canceled"}

\* Whoever is going to claim a job's row was not finished when he set out, and
\* nobody finished it behind his back; an agent waits only while the row says so.
AwaitingSaysSo ==
    \A s \in Slots : coro[s].pc = "awaiting"
        => db[coro[s].job] = "waiting_for_approval"

ClaimsUnfinished ==
    /\ lock.step # "none" => /\ db[lock.job] \notin Concluded
                             /\ lock.loaded \notin Concluded
    /\ lock.kind = "setup" => lock.loaded = "queued"
    /\ \A p \in Procs : call[p].pc = "arriving"
            => db[call[p].job] \notin Concluded
    /\ \A j \in pending : db[j] \notin Concluded
    /\ \A j \in Jobs : setup[j] = "arriving" /\ Absent(j)
            => db[j] \notin Concluded

CountsAgree ==
    \A p \in Procs : call[p].pc = "building"
        => count[call[p].job] = call[p].count

RevivalInv == AwaitingSaysSo /\ ClaimsUnfinished /\ CountsAgree

Renewed ==
    \A j \in Jobs : db[j] \in Concluded /\ db'[j] = "running"
                        => count'[j] > count[j]

\* A coroutine ends only when its session is over.
GoesOn ==
    \A s \in Slots : coro[s].pc # "none" =>
        \/ coro[s].pc \in Leaving
        \/ coro'[s].pc # "none" /\ coro'[s].job = coro[s].job

LEMMA StaysAbsent ==
    ASSUME FirstLife, GoesOn, NEW j \in Jobs, setup[j] = "arriving", Absent(j)'
    PROVE  Absent(j)
<1> SUFFICES ASSUME NEW s \in Slots, coro[s].pc # "none", coro[s].job = j
             PROVE  FALSE
    BY DEF Absent
<1>1. coro[s].pc \notin Leaving
    BY DEF FirstLife, SetupFirst
<1>2. QED
    BY <1>1 DEF GoesOn, Absent

\* A step that writes one row, and finishes no job that somebody starts.
LEMMA OneRowWritten ==
    ASSUME RuntimeInv, FirstLife, RevivalInv, GoesOn, NEW j \in Jobs,
           \A k \in Jobs \ {j} : db'[k] = db[k],
           UNCHANGED <<count, setup, call, lock>>, pending' \subseteq pending,
           AwaitingSaysSo',
           db'[j] \in Concluded =>
               /\ lock.step # "none" => lock.job # j
               /\ \A p \in Procs : call[p].pc = "arriving" => call[p].job # j
               /\ j \notin pending'
               /\ setup[j] = "arriving" => ~Absent(j)
    PROVE  RevivalInv'
<1>1. lock.step # "none" => lock.job \in Jobs
    BY DEF RuntimeInv, TypeInv, StarterNames
<1>2. \A p \in Procs : call[p].pc = "arriving" => call[p].job \in Jobs
    BY DEF RuntimeInv, TypeInv, StarterNames
<1>3. pending' \subseteq Jobs
    BY DEF RuntimeInv, TypeInv, TypeOK
<1>4. \A k \in Jobs : setup'[k] = "arriving" /\ Absent(k)' =>
          /\ setup[k] = "arriving" /\ Absent(k)
    BY StaysAbsent
<1>5. ClaimsUnfinished'
    BY <1>1, <1>2, <1>3, <1>4 DEF RevivalInv, ClaimsUnfinished
<1>6. CountsAgree'
    BY DEF RevivalInv, CountsAgree
<1>7. QED
    BY <1>5, <1>6 DEF RevivalInv

\* The row of a session is nobody else's.
LEMMA OwnRowWritten ==
    ASSUME RuntimeInv, FirstLife, RevivalInv, GoesOn, TameCoroutines,
           NEW s \in Slots, coro[s].pc # "none",
           \A k \in Jobs \ {coro[s].job} : db'[k] = db[k],
           UNCHANGED <<count, starters>>, pending' \subseteq pending,
           coro'[s].pc = "awaiting" => db'[coro[s].job] = "waiting_for_approval",
           \A t \in Slots \ {s} : coro'[t].pc = "awaiting"
                                    => coro[t].pc = "awaiting"
    PROVE  RevivalInv'
<1> DEFINE j == coro[s].job
<1>1. /\ j \in Jobs /\ ~Absent(j)
      /\ \A t \in Slots \ {s} : coro[t].pc # "none" =>
            coro[t].job \in Jobs \ {j}
    BY DEF FirstLife, OneCoroutine, Absent
<1>2. AwaitingSaysSo'
  <2> SUFFICES ASSUME NEW t \in Slots, coro'[t].pc = "awaiting"
               PROVE  db'[coro'[t].job] = "waiting_for_approval"
      BY DEF AwaitingSaysSo
  <2>1. coro'[t].job = coro[t].job /\ coro[t].pc # "none"
      BY DEF TameCoroutines
  <2>2. QED
      BY <1>1, <2>1 DEF RevivalInv, AwaitingSaysSo
<1>3. UNCHANGED <<setup, call, lock>>
    BY DEF starters
<1>4. /\ lock.step # "none" => lock.job # j
      /\ \A p \in Procs : call[p].pc = "arriving" => call[p].job # j
      /\ j \notin pending'
    BY <1>1 DEF FirstLife, HolderAlone, CallersAlone, CallerIsAlone, PendingAlone
<1>5. QED
    BY <1>1, <1>2, <1>3, <1>4, OneRowWritten

LEMMA SessionRenews ==
    ASSUME RuntimeInv, FirstLife, RevivalInv, NEW s \in Slots, Session(s)
    PROVE  RevivalInv' /\ Renewed
<1> DEFINE j == coro[s].job
<1>1. /\ TypeOK /\ coro[s].pc # "none"
      /\ UNCHANGED <<count, starters, pending>>
    BY DEF Session, BeginTask, EnterSession, EnterFails, Complete, MergeDone,
       FailSession, RequestApproval, ApprovalGranted, ApprovalRejected, rows,
       RuntimeInv, TypeInv
<1>2. j \in Jobs
    BY <1>1 DEF FirstLife, OneCoroutine
<1>3. \A k \in Jobs \ {j} : db'[k] = db[k]
    BY <1>1, <1>2 DEF Session, BeginTask, EnterSession, EnterFails, Complete,
       MergeDone, FailSession, RequestApproval, ApprovalGranted,
       ApprovalRejected, rows, TypeOK
<1>4. db'[j] = "running" => db[j] \in {"running", "waiting_for_approval"}
    BY <1>1, <1>2 DEF Session, BeginTask, EnterSession, EnterFails, Complete,
       MergeDone, FailSession, RequestApproval, ApprovalGranted,
       ApprovalRejected, rows, TypeOK, FailJob, TransitionOr, RevivalInv,
       AwaitingSaysSo
<1>5. Renewed
    BY <1>3, <1>4 DEF Renewed, Concluded, ResumableStates, TERMINAL_STATES
<1>6. CASE EnterFails(s)
  <2>1. TameCoroutines /\ coro'[s] = [coro[s] EXCEPT !.pc = "settling", !.last = TRUE]
      BY <1>6, EscapedTame DEF EnterFails
  <2>2. coro'[s].pc = "settling" /\ coro'[s].job = j
      BY <1>1, <2>1 DEF TypeOK, Coroutine
  <2>3. \A t \in Slots \ {s} : coro'[t] = coro[t]
      BY <1>1, <1>6 DEF EnterFails, Escaped, TypeOK
  <2>4. GoesOn
      BY <2>2, <2>3 DEF GoesOn
  <2>5. QED
      BY <1>1, <1>3, <1>5, <2>1, <2>2, <2>3, <2>4, OwnRowWritten
<1>7. CASE ~EnterFails(s)
  <2>1. PICK pc \in Registrable :
          /\ Move(s, pc) /\ coro[s].pc \in Registrable
          /\ pc = "awaiting" => db'[j] = "waiting_for_approval"
      BY <1>1, <1>2, <1>7 DEF Session, BeginTask, EnterSession, Complete,
         MergeDone, FailSession, RequestApproval, ApprovalGranted,
         ApprovalRejected, Registrable, TypeOK
  <2>2. TameCoroutines
      BY <1>1, <2>1, MoveTame
  <2>3. /\ coro'[s].pc = pc /\ coro'[s].job = j
        /\ \A t \in Slots \ {s} : coro'[t] = coro[t]
      BY <1>1, <2>1 DEF Move, TypeOK, Coroutine
  <2>4. GoesOn
      BY <2>1, <2>3 DEF GoesOn, Registrable
  <2>5. QED
      BY <1>1, <1>3, <1>5, <2>1, <2>2, <2>3, <2>4, OwnRowWritten
<1>8. QED
    BY <1>6, <1>7

LEMMA CleanupRenews ==
    ASSUME RuntimeInv, FirstLife, RevivalInv, NEW s \in Slots, Cleanup(s)
    PROVE  RevivalInv' /\ Renewed
<1> DEFINE j == coro[s].job
<1>1. TypeOK /\ coro[s].pc # "none" /\ UNCHANGED count
    BY DEF Cleanup, HandleCanceled, AbortDone, CancelSafetyNet, EnsureTerminal,
       DropJobState, CleanupApprovals, DequeueNothing, DequeueStart, rows,
       RuntimeInv, TypeInv
<1>2. j \in Jobs
    BY <1>1 DEF FirstLife, OneCoroutine
<1>3. \A k \in Jobs : /\ k # j => db'[k] = db[k]
                      /\ db'[k] = "running" => db[k] = "running"
    BY <1>1, <1>2 DEF Cleanup, HandleCanceled, AbortDone, CancelSafetyNet,
       EnsureTerminal, DropJobState, CleanupApprovals, DequeueNothing,
       DequeueStart, rows, TypeOK, CanceledRow
<1>4. Renewed
    BY <1>3 DEF Renewed, Concluded, ResumableStates, TERMINAL_STATES
<1>5. CASE CancelSafetyNet(s)
  <2>1. TameCoroutines /\ coro'[s] = [coro[s] EXCEPT !.pc = "settling", !.last = TRUE]
      BY <1>5, EscapedTame DEF CancelSafetyNet
  <2>2. coro'[s].pc = "settling" /\ coro'[s].job = j
      BY <1>1, <2>1 DEF TypeOK, Coroutine
  <2>3. \A t \in Slots \ {s} : coro'[t] = coro[t]
      BY <1>1, <1>5 DEF CancelSafetyNet, Escaped, TypeOK
  <2>4. GoesOn
      BY <2>2, <2>3 DEF GoesOn
  <2>5. UNCHANGED <<count, starters, pending>>
      BY <1>5 DEF CancelSafetyNet
  <2>6. QED
      BY <1>1, <1>3, <1>4, <2>1, <2>2, <2>3, <2>4, <2>5, OwnRowWritten
<1>6. CASE HandleCanceled(s) \/ AbortDone(s) \/ EnsureTerminal(s)
  <2>1. PICK pc \in Registrable \ {"awaiting"} :
          Move(s, pc) /\ coro[s].pc \in Registrable
      BY <1>6 DEF HandleCanceled, AbortDone, EnsureTerminal, Registrable
  <2>2. TameCoroutines
      BY <1>1, <2>1, MoveTame
  <2>3. /\ coro'[s].pc = pc /\ coro'[s].job = j
        /\ \A t \in Slots \ {s} : coro'[t] = coro[t]
      BY <1>1, <2>1 DEF Move, TypeOK, Coroutine
  <2>4. GoesOn
      BY <2>1, <2>3 DEF GoesOn, Registrable
  <2>5. UNCHANGED <<count, starters, pending>>
      BY <1>1, <1>6 DEF HandleCanceled, AbortDone, EnsureTerminal
  <2>6. QED
      BY <1>1, <1>3, <1>4, <2>1, <2>2, <2>3, <2>4, <2>5, OwnRowWritten
<1>7. CASE DropJobState(s)
  <2>1. /\ coro'[s].pc = "postflight" /\ coro'[s].job = j
        /\ \A t \in Slots \ {s} : coro'[t] = coro[t]
      BY <1>1, <1>7 DEF DropJobState, Move, TypeOK, Coroutine
  <2>2. /\ GoesOn /\ UNCHANGED <<db, setup, call, lock>> /\ coro[s].pc = "artifacts"
        /\ pending' \subseteq pending
      BY <1>7, <2>1 DEF DropJobState, GoesOn, rows, starters
  <2>3. ~Absent(j)
      BY <1>1 DEF Absent
  <2>4. AwaitingSaysSo'
      BY <2>1, <2>2 DEF RevivalInv, AwaitingSaysSo
  <2>5. /\ lock.step # "none" => lock.job # j
        /\ \A p \in Procs : call[p].pc = "arriving" => call[p].job # j
        /\ j \notin pending'
      BY <2>2, <2>3
         DEF FirstLife, HolderAlone, CallersAlone, CallerIsAlone, PendingAlone
  <2>6. QED
      BY <1>1, <1>2, <1>4, <2>2, <2>3, <2>4, <2>5, OneRowWritten
<1>8. CASE CleanupApprovals(s)
  <2>1. \A t \in Slots : /\ coro'[t].job = coro[t].job
                         /\ coro[t].pc # "none" => coro'[t].pc # "none"
                         /\ coro'[t].pc = "awaiting" => coro[t].pc = "awaiting"
                         /\ coro'[t].pc # "none" => coro[t].pc # "none"
                         /\ coro'[t].pc \in Registrable => coro[t].pc \in Registrable
                         /\ coro'[t].pc \in Leaving => coro[t].pc \in Leaving
    <3> SUFFICES ASSUME NEW t \in Slots
                 PROVE  /\ coro'[t].job = coro[t].job
                        /\ coro[t].pc # "none" => coro'[t].pc # "none"
                        /\ coro'[t].pc = "awaiting" => coro[t].pc = "awaiting"
                        /\ coro'[t].pc # "none" => coro[t].pc # "none"
                        /\ coro'[t].pc \in Registrable => coro[t].pc \in Registrable
                        /\ coro'[t].pc \in Leaving => coro[t].pc \in Leaving
        OBVIOUS
    <3>1. coro[t] \in Coroutine /\ coro[s].pc = "postflight"
        BY <1>1, <1>8 DEF TypeOK, CleanupApprovals
    <3>2. \/ t = s /\ coro'[t] = [coro[t] EXCEPT !.pc = "dequeuing"]
          \/ coro[t].pc = "awaiting" /\ coro'[t] = [coro[t] EXCEPT !.pc = "canceling"]
          \/ coro'[t] = coro[t]
        BY <1>8 DEF CleanupApprovals, CoroutinesOf
    <3>3. QED
        BY <3>1, <3>2 DEF Coroutine, Registrable, Leaving
  <2>2. TameCoroutines /\ GoesOn
      BY <2>1 DEF TameCoroutines, GoesOn
  <2>3. UNCHANGED <<count, starters, pending>>
      BY <1>1, <1>8 DEF CleanupApprovals
  <2>4. coro'[s].pc # "awaiting"
      BY <1>8, <2>1 DEF CleanupApprovals
  <2>5. QED
      BY <1>1, <1>3, <1>4, <2>1, <2>2, <2>3, <2>4, OwnRowWritten
<1>9. CASE DequeueNothing(s)
  <2>1. coro[s].pc \in Leaving
      BY <1>9 DEF DequeueNothing, Leaving
  <2>2. coro' = [coro EXCEPT ![s] = NoCoroutine]
      BY <1>9, <2>1, ReturnedTame DEF DequeueNothing
  <2>3. TameCoroutines /\ GoesOn /\ coro'[s].pc # "awaiting"
      BY <1>1, <2>1, <2>2 DEF TameCoroutines, GoesOn, NoCoroutine, TypeOK
  <2>4. pending' \subseteq pending /\ UNCHANGED <<count, starters>>
      BY <1>1, <1>9 DEF DequeueNothing
  <2>5. \A t \in Slots \ {s} : coro'[t] = coro[t]
      BY <1>1, <2>2 DEF TypeOK
  <2>6. QED
      BY <1>1, <1>3, <1>4, <2>3, <2>4, <2>5, OwnRowWritten
<1>10. CASE DequeueStart(s)
  <2>1. /\ coro'[s].pc = "starting" /\ coro'[s].job = j
        /\ \A t \in Slots \ {s} : coro'[t] = coro[t]
      BY <1>1, <1>10 DEF DequeueStart, Move, TypeOK, Coroutine
  <2>2. PICK k \in Jobs \ Registered :
          /\ k \in pending \/ NextQueued(k)
          /\ pending' = pending \ {k}
          /\ lock' = Holding("dequeue", s, k, db[k])
      BY <1>10 DEF DequeueStart
  <2>3. /\ UNCHANGED <<db, setup, call, count>>
        /\ lock'.job = k /\ lock'.loaded = db[k] /\ lock'.kind = "dequeue"
      BY <1>10, <2>2 DEF DequeueStart, rows, Holding
  <2>4. db[k] \notin Concluded
      BY <2>2 DEF RevivalInv, ClaimsUnfinished, NextQueued, Concluded,
         ResumableStates, TERMINAL_STATES
  <2>5. GoesOn
      BY <2>1 DEF GoesOn
  <2>6. AwaitingSaysSo' /\ CountsAgree'
      BY <2>1, <2>3 DEF RevivalInv, AwaitingSaysSo, CountsAgree
  <2>7. ClaimsUnfinished'
      BY <2>2, <2>3, <2>4, <2>5, StaysAbsent DEF RevivalInv, ClaimsUnfinished
  <2>8. QED
      BY <1>4, <2>6, <2>7 DEF RevivalInv
<1>11. QED
    BY <1>5, <1>6, <1>7, <1>8, <1>9, <1>10 DEF Cleanup

\* A cancel concludes nothing, and nobody is about to start a job in review.
LEMMA OperatorRenews ==
    ASSUME RuntimeInv, FirstLife, RevivalInv, NEW j \in Jobs, Operator(j)
    PROVE  RevivalInv' /\ Renewed
<1>1. TypeOK /\ UNCHANGED <<count, starters, pending>>
    BY DEF Operator, Cancel, ResolveJob, RuntimeInv, TypeInv
<1>2. /\ \A k \in Jobs \ {j} : db'[k] = db[k]
      /\ db'[j] # "running"
    BY <1>1 DEF Operator, Cancel, ResolveJob, TypeOK
<1>3. Renewed
    BY <1>2 DEF Renewed, Concluded, ResumableStates, TERMINAL_STATES
<1>4. UNCHANGED <<setup, call, lock>>
    BY <1>1 DEF starters
<1>5. CASE Cancel(j)
  <2>1. db'[j] = "canceled"
      BY <1>1, <1>5 DEF Cancel, TypeOK
  <2>2. db'[j] \notin Concluded
      BY <2>1 DEF Concluded
  <2>3. PICK swallowed \in BOOLEAN :
          coro' = [s \in Slots |-> IF tasks[j] = s
                                  THEN Cancelled(coro[s], swallowed)
                                  ELSE coro[s]]
      BY <1>5 DEF Cancel
  <2>4. \A s \in Slots : /\ coro'[s].job = coro[s].job
                         /\ coro[s].pc # "none" => coro'[s].pc # "none"
                         /\ tasks[j] = s => coro'[s].pc # "awaiting"
    <3> SUFFICES ASSUME NEW s \in Slots
                 PROVE  /\ coro'[s].job = coro[s].job
                        /\ coro[s].pc # "none" => coro'[s].pc # "none"
                        /\ tasks[j] = s => coro'[s].pc # "awaiting"
        OBVIOUS
    <3>1. coro[s] \in Coroutine /\ coro'[s] \in {coro[s], Cancelled(coro[s], swallowed)}
        BY <1>1, <2>3 DEF TypeOK
    <3>2. /\ Cancelled(coro[s], swallowed).job = coro[s].job
          /\ Cancelled(coro[s], swallowed).pc # "awaiting"
          /\ coro[s].pc # "none" => Cancelled(coro[s], swallowed).pc # "none"
        BY <3>1 DEF Cancelled, Coroutine
    <3>3. tasks[j] = s => coro'[s] = Cancelled(coro[s], swallowed)
        BY <2>3
    <3>4. QED
        BY <3>1, <3>2, <3>3
  <2>5. GoesOn
      BY <2>4 DEF GoesOn
  <2>6. AwaitingSaysSo'
    <3> SUFFICES ASSUME NEW s \in Slots, coro'[s].pc = "awaiting"
                 PROVE  db'[coro'[s].job] = "waiting_for_approval"
        BY DEF AwaitingSaysSo
    <3>1. coro'[s] = coro[s] /\ tasks[j] # s
        BY <2>3, <2>4
    <3>2. coro[s].job \in Jobs \ {j}
        BY <3>1 DEF FirstLife, OneCoroutine, Registrable
    <3>3. QED
        BY <1>2, <3>1, <3>2 DEF RevivalInv, AwaitingSaysSo
  <2>7. QED
      BY <1>1, <1>2, <1>3, <1>4, <2>2, <2>5, <2>6, OneRowWritten
<1>6. CASE ResolveJob(j)
  <2>1. db[j] = "review" /\ UNCHANGED coro
      BY <1>6 DEF ResolveJob, sessions
  <2>2. "review" \in Concluded
      BY DEF Concluded, ResumableStates
  <2>3. GoesOn
      BY <2>1 DEF GoesOn
  <2>4. AwaitingSaysSo'
    <3> SUFFICES ASSUME NEW s \in Slots, coro[s].pc = "awaiting"
                 PROVE  db'[coro[s].job] = "waiting_for_approval"
        BY <2>1 DEF AwaitingSaysSo
    <3>1. coro[s].job \in Jobs \ {j}
        BY <2>1 DEF RevivalInv, AwaitingSaysSo, FirstLife, OneCoroutine
    <3>2. QED
        BY <1>2, <3>1 DEF RevivalInv, AwaitingSaysSo
  <2>5. /\ lock.step # "none" => lock.job # j
        /\ \A p \in Procs : call[p].pc = "arriving" => call[p].job # j
        /\ j \notin pending'
        /\ setup[j] = "arriving" => ~Absent(j)
      BY <1>1, <2>1, <2>2 DEF RevivalInv, ClaimsUnfinished
  <2>6. QED
      BY <1>1, <1>2, <1>3, <1>4, <2>3, <2>4, <2>5, OneRowWritten
<1>7. QED
    BY <1>5, <1>6 DEF Operator

LEMMA SetupRenews ==
    ASSUME RuntimeInv, FirstLife, RevivalInv, NEW j \in Jobs, Setup(j)
    PROVE  RevivalInv' /\ Renewed
<1>1. TypeOK /\ UNCHANGED <<call, coro>>
    BY DEF Setup, CreateJob, BeginSetup, FinishSetup, SetupFails, SetupEnters,
       sessions, RuntimeInv, TypeInv
<1>2. \A k \in Jobs : Absent(k)' <=> Absent(k)
    BY <1>1 DEF Absent
<1>3. \A k \in Jobs : k # j => db'[k] = db[k] /\ count'[k] = count[k]
    BY <1>1 DEF Setup, CreateJob, NewRow, BeginSetup, FinishSetup, SetupFails,
       SetupEnters, rows, TypeOK
<1>4. db'[j] = "running" => db[j] = "running"
    BY <1>1 DEF Setup, CreateJob, NewRow, BeginSetup, FinishSetup, SetupFails,
       SetupEnters, rows, TypeOK, FailJob, TransitionOr
<1>5. Renewed
    BY <1>3, <1>4 DEF Renewed, Concluded, ResumableStates, TERMINAL_STATES
<1>6. CASE ~SetupEnters(j)
  <2>1. UNCHANGED <<lock, pending>>
      BY <1>6 DEF Setup, CreateJob, BeginSetup, FinishSetup, SetupFails
  <2>2. /\ Absent(j) /\ lock.job # j /\ j \notin pending
        /\ \A p \in Procs : call[p].pc # "idle" => call[p].job # j
    <3>1. CASE db[j] = Unborn
        BY <3>1, UnbornAlone
    <3>2. CASE db[j] # Unborn
      <4>1. setup[j] \in {"spawned", "creating"}
          BY <1>6, <3>2 DEF Setup, CreateJob, NewRow, Born, BeginSetup,
             FinishSetup, SetupFails
      <4>2. QED
          BY <4>1 DEF FirstLife, SetupFirst, PendingAlone, CallersAlone,
             CallerIsAlone
    <3>3. QED
        BY <3>1, <3>2
  <2>3. /\ \A k \in Jobs \ {j} : setup'[k] = setup[k]
        /\ setup'[j] = "arriving" => db'[j] = "queued"
      BY <1>1, <1>6 DEF Setup, CreateJob, BeginSetup, FinishSetup, SetupFails,
         TypeOK
  <2>4. AwaitingSaysSo'
    <3>1. \A s \in Slots : coro[s].pc = "awaiting" => coro[s].job \in Jobs \ {j}
        BY <2>2 DEF Absent, FirstLife, OneCoroutine
    <3>2. QED
        BY <1>1, <1>3, <3>1 DEF RevivalInv, AwaitingSaysSo
  <2>5. \A p \in Procs : call[p].pc # "idle" => call[p].job \in Jobs \ {j}
      BY <2>2 DEF RuntimeInv, TypeInv, StarterNames
  <2>6. CountsAgree'
      BY <1>1, <1>3, <2>5 DEF RevivalInv, CountsAgree
  <2>7. ClaimsUnfinished'
    <3>1. lock.step # "none" => lock.job \in Jobs \ {j}
        BY <2>2 DEF RuntimeInv, TypeInv, StarterNames
    <3>2. pending \subseteq Jobs \ {j}
        BY <1>1, <2>2 DEF TypeOK
    <3>3. "queued" \notin Concluded
        BY DEF Concluded, ResumableStates, TERMINAL_STATES
    <3>4. QED
        BY <1>1, <1>2, <1>3, <2>1, <2>3, <2>5, <3>1, <3>2, <3>3
           DEF RevivalInv, ClaimsUnfinished
  <2>8. QED
      BY <1>5, <2>4, <2>6, <2>7 DEF RevivalInv
<1>7. CASE SetupEnters(j)
  <2>1. /\ UNCHANGED <<db, count, pending>> /\ setup[j] = "arriving"
        /\ \A k \in Jobs : setup'[k] = "arriving" => setup[k] = "arriving"
      BY <1>1, <1>7 DEF SetupEnters, Enqueue, rows, TypeOK
  <2>2. /\ lock'.step # "none" => /\ db[lock'.job] \notin Concluded
                                  /\ lock'.loaded \notin Concluded
        /\ lock'.kind = "setup" => lock'.loaded = "queued"
    <3>1. CASE Admits(j)
      <4>1. tasks[j] = NoSlot
          BY <3>1 DEF Admits, Registered
      <4>2. Absent(j)
          BY <2>1, <4>1, UnregisteredLeaving DEF Absent, FirstLife, SetupFirst
      <4>3. lock'.job = j /\ lock'.loaded = "queued"
          BY <1>7, <3>1 DEF SetupEnters, Holding
      <4>4. QED
          BY <2>1, <4>2, <4>3
             DEF RevivalInv, ClaimsUnfinished, Concluded, ResumableStates,
                 TERMINAL_STATES
    <3>2. CASE ~Admits(j)
      <4>1. lock' = Free
          BY <1>7, <3>2 DEF SetupEnters
      <4>2. QED
          BY <4>1 DEF Free
    <3>3. QED
        BY <3>1, <3>2
  <2>3. QED
      BY <1>1, <1>2, <1>5, <2>1, <2>2
         DEF RevivalInv, AwaitingSaysSo, ClaimsUnfinished, CountsAgree
<1>8. QED
    BY <1>6, <1>7

LEMMA RequestRenews ==
    ASSUME RuntimeInv, FirstLife, RevivalInv, NEW p \in Requests, Request(p)
    PROVE  RevivalInv' /\ Renewed
<1>1. PICK j \in Jobs : ResumeJob(p, j) \/ SendMessage(p, j) \/ RerunJob(p, j)
    BY DEF Request
<1>2. /\ TypeOK /\ p \in Procs
      /\ UNCHANGED <<setup, lock, coro, pending>>
    BY <1>1 DEF ResumeJob, SendMessage, RerunJob, sessions, RuntimeInv, TypeInv,
       Procs
<1>3. \A k \in Jobs : Absent(k)' <=> Absent(k)
    BY <1>2 DEF Absent
<1>4. \A q \in Procs \ {p} : call'[q] = call[q]
    BY <1>1, <1>2 DEF ResumeJob, SendMessage, RerunJob, BeginCall, TypeOK
<1>5. CASE ResumeJob(p, j) \/ SendMessage(p, j)
  <2>1. /\ UNCHANGED <<db, count>>
        /\ call'[p].pc = "building" /\ call'[p].job = j
        /\ call'[p].count = count[j]
      BY <1>2, <1>5 DEF ResumeJob, SendMessage, BeginCall, rows, TypeOK
  <2>2. QED
      BY <1>2, <1>3, <1>4, <2>1
         DEF RevivalInv, AwaitingSaysSo, ClaimsUnfinished, CountsAgree, Renewed,
             Concluded, ResumableStates, TERMINAL_STATES
<1>6. CASE RerunJob(p, j)
  <2>1. /\ db[j] = Unborn /\ db'[j] = "preparing"
        /\ call'[p].pc = "arriving" /\ call'[p].job = j
        /\ \A k \in Jobs \ {j} : db'[k] = db[k] /\ count'[k] = count[k]
      BY <1>2, <1>6 DEF RerunJob, NewRow, Born, TypeOK
  <2>2. /\ Absent(j) /\ j \notin pending /\ lock.job # j
        /\ \A q \in Procs : call[q].pc # "idle" => call[q].job # j
      BY <2>1, UnbornAlone
  <2>3. "preparing" \notin Concluded
      BY DEF Concluded, ResumableStates, TERMINAL_STATES
  <2>4. Renewed
      BY <2>1 DEF Renewed, Concluded, ResumableStates, TERMINAL_STATES
  <2>5. AwaitingSaysSo'
    <3>1. \A s \in Slots : coro[s].pc = "awaiting" => coro[s].job \in Jobs \ {j}
        BY <2>2 DEF Absent, FirstLife, OneCoroutine
    <3>2. QED
        BY <1>2, <2>1, <3>1 DEF RevivalInv, AwaitingSaysSo
  <2>6. \A q \in Procs : call[q].pc # "idle" => call[q].job \in Jobs \ {j}
      BY <2>2 DEF RuntimeInv, TypeInv, StarterNames
  <2>7. CountsAgree'
      BY <1>4, <2>1, <2>6 DEF RevivalInv, CountsAgree
  <2>8. ClaimsUnfinished'
    <3>1. lock.step # "none" => lock.job \in Jobs \ {j}
        BY <2>2 DEF RuntimeInv, TypeInv, StarterNames
    <3>2. pending \subseteq Jobs \ {j}
        BY <1>2, <2>2 DEF TypeOK
    <3>3. \A q \in Procs : call'[q].pc = "arriving"
            => db'[call'[q].job] \notin Concluded
        BY <1>4, <2>1, <2>3, <2>6 DEF RevivalInv, ClaimsUnfinished
    <3>4. QED
        BY <1>2, <1>3, <2>1, <2>3, <3>1, <3>2, <3>3
           DEF RevivalInv, ClaimsUnfinished
  <2>9. QED
      BY <2>4, <2>5, <2>7, <2>8 DEF RevivalInv
<1>7. QED
    BY <1>1, <1>5, <1>6

\* The reset counts the session, from a snapshot that is still true.
LEMMA CallingRenews ==
    ASSUME RuntimeInv, FirstLife, RevivalInv, NEW p \in Procs, Calling(p)
    PROVE  RevivalInv' /\ Renewed
<1> DEFINE j == call[p].job
<1>1. /\ TypeOK /\ call[p] \in CallRecord /\ call[p].pc # "idle"
      /\ UNCHANGED <<setup, coro>>
    BY DEF Calling, ResetRow, BuildFails, CallEnters, sessions, RuntimeInv,
       TypeInv, TypeOK
<1>2. \A k \in Jobs : Absent(k)' <=> Absent(k)
    BY <1>1 DEF Absent
<1>3. /\ j \in Jobs /\ Absent(j) /\ j \notin pending /\ setup[j] = "idle"
      /\ \A q \in Procs \ {p} : call[q].pc # "idle" => call[q].job \in Jobs \ {j}
      /\ lock.job = j => lock.kind = "call" /\ lock.who = p
    BY <1>1 DEF FirstLife, CallersAlone, CallerIsAlone, RuntimeInv, TypeInv,
       StarterNames
<1>4. \A q \in Procs \ {p} : call'[q] = call[q]
    BY <1>1 DEF Calling, ResetRow, BuildFails, CallEnters, TypeOK
<1>5. "running" \notin Concluded
    BY DEF Concluded, ResumableStates, TERMINAL_STATES
<1>6. CASE ResetRow(p)
  <2>1. /\ call[p].pc = "building" /\ UNCHANGED <<lock, pending>>
        /\ db'[j] = "running" /\ count'[j] = call[p].count + 1
        /\ \A k \in Jobs \ {j} : db'[k] = db[k] /\ count'[k] = count[k]
        /\ call'[p] = [call[p] EXCEPT !.pc = "arriving"]
      BY <1>1, <1>3, <1>6 DEF ResetRow, TypeOK
  <2>2. call'[p].pc = "arriving" /\ call'[p].job = j
      BY <1>1, <2>1 DEF CallRecord
  <2>3. count'[j] > count[j]
    <3>1. count[j] = call[p].count /\ count[j] \in Nat
        BY <1>1, <1>3, <2>1 DEF RevivalInv, CountsAgree, TypeOK
    <3>2. QED
        BY <2>1, <3>1
  <2>4. Renewed
      BY <1>5, <2>1, <2>3 DEF Renewed
  <2>5. lock.job # j
      BY <1>3, <2>1 DEF FirstLife, LockAgrees
  <2>6. AwaitingSaysSo'
    <3>1. \A s \in Slots : coro[s].pc = "awaiting" => coro[s].job \in Jobs \ {j}
        BY <1>3 DEF Absent, FirstLife, OneCoroutine
    <3>2. QED
        BY <1>1, <2>1, <3>1 DEF RevivalInv, AwaitingSaysSo
  <2>7. CountsAgree'
    <3>1. \A q \in Procs : call'[q].pc = "building" => q # p
        BY <2>2
    <3>2. QED
        BY <1>3, <1>4, <2>1, <3>1 DEF RevivalInv, CountsAgree
  <2>8. ClaimsUnfinished'
    <3>1. lock.step # "none" => lock.job \in Jobs \ {j}
        BY <2>5 DEF RuntimeInv, TypeInv, StarterNames
    <3>2. pending \subseteq Jobs \ {j}
        BY <1>1, <1>3 DEF TypeOK
    <3>3. \A q \in Procs : call'[q].pc = "arriving"
            => db'[call'[q].job] \notin Concluded
      <4> SUFFICES ASSUME NEW q \in Procs, call'[q].pc = "arriving"
                   PROVE  db'[call'[q].job] \notin Concluded
          OBVIOUS
      <4>1. CASE q = p
          BY <1>5, <2>1, <2>2, <4>1
      <4>2. CASE q # p
        <5>1. call'[q] = call[q] /\ call[q].job \in Jobs \ {j}
            BY <1>3, <1>4, <4>2
        <5>2. db[call[q].job] \notin Concluded
            BY <5>1 DEF RevivalInv, ClaimsUnfinished
        <5>3. QED
            BY <2>1, <5>1, <5>2
      <4>3. QED
          BY <4>1, <4>2
    <3>4. QED
        BY <1>1, <1>2, <1>5, <2>1, <3>1, <3>2, <3>3
           DEF RevivalInv, ClaimsUnfinished
  <2>9. QED
      BY <2>4, <2>6, <2>7, <2>8 DEF RevivalInv
<1>7. CASE BuildFails(p)
  <2>1. UNCHANGED <<db, count, lock, pending>> /\ call'[p] = IdleCall
      BY <1>1, <1>7 DEF BuildFails, rows, TypeOK
  <2>2. QED
      BY <1>1, <1>2, <1>4, <1>5, <2>1
         DEF RevivalInv, AwaitingSaysSo, ClaimsUnfinished, CountsAgree, Renewed,
             IdleCall
<1>8. CASE CallEnters(p)
  <2>1. /\ call[p].pc = "arriving" /\ UNCHANGED <<db, count>>
        /\ pending' \subseteq pending \cup {j}
        /\ \/ lock' = Holding("call", p, j, LoadedState(call[p].op))
           \/ lock' = Free
        /\ \/ call'[p] = [call[p] EXCEPT !.pc = "starting"]
           \/ call'[p] = IdleCall
      BY <1>1, <1>8 DEF CallEnters, Enqueue, rows, TypeOK
  <2>2. call'[p].pc \in {"starting", "idle"}
      BY <1>1, <2>1 DEF CallRecord, IdleCall
  <2>3. db[j] \notin Concluded
      BY <2>1 DEF RevivalInv, ClaimsUnfinished
  <2>4. /\ lock'.step # "none" => lock'.job = j /\ lock'.loaded \notin Concluded
        /\ lock'.kind # "setup"
      BY <2>1 DEF Holding, Free, LoadedState, Concluded, ResumableStates,
         TERMINAL_STATES
  <2>5. AwaitingSaysSo' /\ CountsAgree' /\ Renewed
      BY <1>1, <1>4, <1>5, <2>1, <2>2
         DEF RevivalInv, AwaitingSaysSo, CountsAgree, Renewed
  <2>6. ClaimsUnfinished'
      BY <1>1, <1>2, <1>4, <2>1, <2>2, <2>3, <2>4
         DEF RevivalInv, ClaimsUnfinished
  <2>7. QED
      BY <2>5, <2>6 DEF RevivalInv
<1>9. QED
    BY <1>6, <1>7, <1>8 DEF Calling

LEMMA StartingRenews ==
    ASSUME RuntimeInv, FirstLife, RevivalInv, Starting, ~StartRaises
    PROVE  RevivalInv' /\ Renewed
<1>1. /\ TypeOK /\ lock.step # "none" /\ lock.job \in Jobs
      /\ UNCHANGED <<count, pending>>
    BY DEF Starting, ClaimWins, ClaimLost, PreflightDone, PreflightCanceled,
       Launch, StartRaises, RuntimeInv, TypeInv, StarterNames, rows
<1>2. "running" \notin Concluded
    BY DEF Concluded, ResumableStates, TERMINAL_STATES
<1>3. CASE ClaimWins \/ PreflightDone
  <2>1. /\ UNCHANGED <<call, setup, coro>>
        /\ lock' \in {[lock EXCEPT !.step = "preflight"],
                      [lock EXCEPT !.step = "launch"]}
        /\ \A k \in Jobs \ {lock.job} : db'[k] = db[k]
        /\ \/ db'[lock.job] = db[lock.job]
           \/ db[lock.job] \notin Concluded /\ db'[lock.job] = "running"
      BY <1>1, <1>3 DEF ClaimWins, PreflightDone, rows, sessions, TypeOK,
         RevivalInv, ClaimsUnfinished
  <2>2. /\ lock'.job = lock.job /\ lock'.loaded = lock.loaded
        /\ lock'.kind = lock.kind /\ \A k \in Jobs : Absent(k)' <=> Absent(k)
      BY <1>1, <2>1 DEF TypeOK, LockRecord, Absent
  <2>3. Renewed
      BY <1>2, <2>1 DEF Renewed
  <2>4. AwaitingSaysSo'
    <3>1. \A s \in Slots : coro[s].pc = "awaiting"
            => coro[s].job \in Jobs \ {lock.job}
        BY <1>1 DEF FirstLife, HolderAlone, Absent, OneCoroutine
    <3>2. QED
        BY <2>1, <3>1 DEF RevivalInv, AwaitingSaysSo
  <2>5. CountsAgree'
      BY <1>1, <2>1 DEF RevivalInv, CountsAgree
  <2>6. \A k \in Jobs : db[k] \notin Concluded => db'[k] \notin Concluded
      BY <1>2, <2>1
  <2>7. \A q \in Procs : call[q].pc = "arriving" => call[q].job \in Jobs
      BY DEF RuntimeInv, TypeInv, StarterNames
  <2>8. ClaimsUnfinished'
      BY <1>1, <2>1, <2>2, <2>6, <2>7 DEF RevivalInv, ClaimsUnfinished, TypeOK
  <2>9. QED
      BY <2>3, <2>4, <2>5, <2>8 DEF RevivalInv
<1>4. CASE ClaimLost \/ PreflightCanceled \/ Launch
  <2>1. UNCHANGED db /\ ReleaseLock
      BY <1>4 DEF ClaimLost, PreflightCanceled, Launch, rows
  <2>2. /\ \A k \in Jobs : setup'[k] = "arriving" => setup[k] = "arriving"
        /\ \A q \in Procs : call'[q] = call[q] \/ call'[q] = IdleCall
        /\ lock' = Free
      BY <1>1, <2>1 DEF ReleaseLock, TypeOK
  <2>3. \A s \in Slots : \/ coro'[s] = coro[s]
                         \/ /\ coro[s].pc \in Leaving \cup {"none"}
                            /\ coro'[s].pc # "awaiting"
    <3>1. ASSUME NEW registered
          PROVE  /\ DOMAIN AfterStart(registered) = Slots
                 /\ \A s \in Slots :
                       \/ AfterStart(registered)[s] = coro[s]
                       \/ /\ coro[s].pc \in Leaving
                          /\ AfterStart(registered)[s].pc # "awaiting"
      <4>1. CASE lock.kind = "dequeue"
        <5>1. lock.who \in Slots /\ coro[lock.who].pc \in Leaving
            BY <4>1 DEF RuntimeInv, TypeInv, StarterNames, DequeuerStarts, Leaving
        <5>2. coro[lock.who] \in Coroutine
            BY <1>1, <5>1 DEF TypeOK
        <5>3. QED
            BY <1>1, <4>1, <5>1, <5>2
               DEF AfterStart, Returned, TypeOK, Coroutine, NoCoroutine
      <4>2. CASE lock.kind # "dequeue"
          BY <1>1, <4>2 DEF AfterStart, TypeOK
      <4>3. QED
          BY <4>1, <4>2
    <3>2. CASE Launch
      <4>1. PICK s \in FreeSlots :
              coro' = [AfterStart([tasks EXCEPT ![lock.job] = s]) EXCEPT ![s] =
                        [job |-> lock.job, pc |-> "created", last |-> FALSE]]
          BY <3>2 DEF Launch
      <4> DEFINE after == AfterStart([tasks EXCEPT ![lock.job] = s])
      <4>2. /\ DOMAIN after = Slots
            /\ \A t \in Slots : \/ after[t] = coro[t]
                                \/ /\ coro[t].pc \in Leaving
                                   /\ after[t].pc # "awaiting"
          BY <3>1
      <4>3. coro' = [after EXCEPT ![s] =
                        [job |-> lock.job, pc |-> "created", last |-> FALSE]]
          BY <4>1
      <4> HIDE DEF after
      <4>4. coro[s].pc = "none" /\ s \in Slots
          BY DEF FreeSlots
      <4>5. coro'[s].pc = "created" /\ \A t \in Slots \ {s} : coro'[t] = after[t]
          BY <4>2, <4>3, <4>4
      <4>6. QED
          BY <4>2, <4>4, <4>5
    <3>3. CASE ~Launch
        BY <1>4, <3>1, <3>3 DEF ClaimLost, PreflightCanceled
    <3>4. QED
        BY <3>2, <3>3
  <2>4. GoesOn
      BY <2>3 DEF GoesOn
  <2>5. AwaitingSaysSo' /\ CountsAgree' /\ Renewed
      BY <1>1, <1>2, <2>1, <2>2, <2>3
         DEF RevivalInv, AwaitingSaysSo, CountsAgree, Renewed, IdleCall
  <2>6. ClaimsUnfinished'
      BY <1>1, <2>1, <2>2, <2>4, StaysAbsent
         DEF RevivalInv, ClaimsUnfinished, IdleCall, Free
  <2>7. QED
      BY <2>5, <2>6 DEF RevivalInv
<1>5. QED
    BY <1>3, <1>4 DEF Starting

\* A start that raises puts back what its caller found: a row that was to be
\* started, or the one a request has reset.
LEMMA RaisingRenews ==
    ASSUME RuntimeInv, FirstLife, RevivalInv, StartRaises
    PROVE  RevivalInv' /\ Renewed
<1> DEFINE j == lock.job
<1>1. /\ TypeOK /\ j \in Jobs /\ UNCHANGED pending /\ ReleaseLock
      /\ lock.step # "none" /\ coro' = AfterStart(tasks)
    BY DEF StartRaises, RuntimeInv, TypeInv, StarterNames
<1>2. /\ \A k \in Jobs : setup'[k] = "arriving" => setup[k] = "arriving"
      /\ \A q \in Procs : call'[q] = call[q] \/ call'[q] = IdleCall
      /\ lock' = Free
    BY <1>1 DEF ReleaseLock, TypeOK
<1>3. \A k \in Jobs \ {j} : db'[k] = db[k] /\ count'[k] = count[k]
    BY <1>1 DEF StartRaises, TypeOK
<1>4. Absent(j) /\ j \notin pending /\ db[j] \notin Concluded
    BY <1>1 DEF FirstLife, HolderAlone, RevivalInv, ClaimsUnfinished
<1>5. \A s \in Slots : \/ coro'[s] = coro[s]
                       \/ /\ coro[s].pc \in Leaving
                          /\ coro'[s].pc # "awaiting"
  <2>1. CASE lock.kind = "dequeue"
    <3>1. lock.who \in Slots /\ coro[lock.who].pc \in Leaving
        BY <2>1 DEF RuntimeInv, TypeInv, StarterNames, DequeuerStarts, Leaving
    <3>2. coro[lock.who] \in Coroutine
        BY <1>1, <3>1 DEF TypeOK
    <3>3. QED
        BY <1>1, <2>1, <3>1, <3>2
           DEF AfterStart, Returned, TypeOK, Coroutine, NoCoroutine
  <2>2. CASE lock.kind # "dequeue"
      BY <1>1, <2>2 DEF AfterStart, TypeOK
  <2>3. QED
      BY <2>1, <2>2
<1>6. GoesOn
    BY <1>5 DEF GoesOn
<1>7. AwaitingSaysSo'
  <2>1. \A s \in Slots : coro[s].pc = "awaiting" => coro[s].job \in Jobs \ {j}
      BY <1>4 DEF Absent, FirstLife, OneCoroutine
  <2>2. QED
      BY <1>3, <1>5, <2>1 DEF RevivalInv, AwaitingSaysSo
<1>8. Renewed
    BY <1>3, <1>4 DEF Renewed, Concluded, ResumableStates, TERMINAL_STATES
<1>9. CASE Restores
  <2>1. /\ lock.kind = "call" /\ lock.who \in Procs
        /\ call[lock.who].pc = "starting" /\ call[lock.who].job = j
      BY <1>1, <1>9 DEF Restores, FirstLife, LockAgrees, RuntimeInv, TypeInv,
         StarterNames
  <2>2. setup[j] = "idle"
      BY <2>1 DEF FirstLife, CallersAlone, CallerIsAlone
  <2>3. \A q \in Procs : call'[q].pc # "idle" =>
            call'[q] = call[q] /\ call[q].job \in Jobs \ {j}
    <3> SUFFICES ASSUME NEW q \in Procs, call'[q].pc # "idle"
                 PROVE  call'[q] = call[q] /\ call[q].job \in Jobs \ {j}
        OBVIOUS
    <3>1. q # lock.who
        BY <1>1, <2>1 DEF ReleaseLock, IdleCall, TypeOK
    <3>2. call'[q] = call[q] /\ call[q].pc # "idle"
        BY <1>2 DEF IdleCall
    <3>3. call[q].job # j
        BY <2>1, <3>1, <3>2 DEF FirstLife, CallersAlone, CallerIsAlone
    <3>4. call[q].job \in Jobs
        BY <3>2 DEF RuntimeInv, TypeInv, StarterNames
    <3>5. QED
        BY <3>2, <3>3, <3>4
  <2>4. CountsAgree'
      BY <1>3, <2>3 DEF RevivalInv, CountsAgree
  <2>5. ClaimsUnfinished'
    <3>1. \A q \in Procs : call'[q].pc = "arriving"
            => db'[call'[q].job] \notin Concluded
        BY <1>3, <2>3 DEF RevivalInv, ClaimsUnfinished
    <3>2. \A k \in pending' : db'[k] \notin Concluded
        BY <1>1, <1>3, <1>4 DEF RevivalInv, ClaimsUnfinished, TypeOK
    <3>3. \A k \in Jobs : setup'[k] = "arriving" /\ Absent(k)'
            => db'[k] \notin Concluded
      <4> SUFFICES ASSUME NEW k \in Jobs, setup'[k] = "arriving", Absent(k)'
                   PROVE  db'[k] \notin Concluded
          OBVIOUS
      <4>1. setup[k] = "arriving" /\ Absent(k) /\ k # j
          BY <1>2, <1>6, <2>2, StaysAbsent
      <4>2. QED
          BY <1>3, <4>1 DEF RevivalInv, ClaimsUnfinished
    <3>4. QED
        BY <1>2, <3>1, <3>2, <3>3 DEF ClaimsUnfinished, Free
  <2>6. QED
      BY <1>7, <1>8, <2>4, <2>5 DEF RevivalInv
<1>10. CASE ~Restores
  <2>1. count' = count
      BY <1>10 DEF StartRaises
  <2>2. db'[j] \notin Concluded
    <3>1. db'[j] = IF lock.kind = "setup" THEN FailJob(lock.loaded) ELSE lock.loaded
        BY <1>1, <1>10 DEF StartRaises, TypeOK
    <3>2. FailJob("queued") = "queued"
        BY DEF FailJob, TransitionOr, CanTransition, ValidTransitions,
           TERMINAL_STATES
    <3>3. "queued" \notin Concluded
        BY DEF Concluded, ResumableStates, TERMINAL_STATES
    <3>4. QED
        BY <1>1, <3>1, <3>2, <3>3 DEF RevivalInv, ClaimsUnfinished
  <2>3. CountsAgree'
      BY <1>2, <2>1 DEF RevivalInv, CountsAgree, IdleCall
  <2>4. \A k \in Jobs : db[k] \notin Concluded => db'[k] \notin Concluded
      BY <1>3, <2>2
  <2>5. \A q \in Procs : call[q].pc = "arriving" => call[q].job \in Jobs
      BY DEF RuntimeInv, TypeInv, StarterNames
  <2>6. ClaimsUnfinished'
    <3>1. \A q \in Procs : call'[q].pc = "arriving"
            => db'[call'[q].job] \notin Concluded
        BY <1>2, <2>4, <2>5 DEF RevivalInv, ClaimsUnfinished, IdleCall
    <3>2. \A k \in pending' : db'[k] \notin Concluded
        BY <1>1, <2>4 DEF RevivalInv, ClaimsUnfinished, TypeOK
    <3>3. \A k \in Jobs : setup'[k] = "arriving" /\ Absent(k)'
            => db'[k] \notin Concluded
        BY <1>2, <1>6, <2>4, StaysAbsent DEF RevivalInv, ClaimsUnfinished
    <3>4. QED
        BY <1>2, <3>1, <3>2, <3>3 DEF ClaimsUnfinished, Free
  <2>7. QED
      BY <1>7, <1>8, <2>3, <2>6 DEF RevivalInv
<1>11. QED
    BY <1>9, <1>10

LEMMA RenewedNext ==
    ASSUME RuntimeInv, restarts = 0 => FirstLife, FirstDays => RevivalInv,
           [Next]_vars
    PROVE  FirstDays' => RevivalInv' /\ Renewed
<1> SUFFICES ASSUME FirstDays' PROVE RevivalInv' /\ Renewed
    OBVIOUS
<1>1. FirstDays /\ FirstLife /\ RevivalInv
    BY FirstDaysBack DEF FirstDays
<1>2. CASE UNCHANGED vars
    BY <1>1, <1>2 DEF vars, RevivalInv, AwaitingSaysSo, ClaimsUnfinished,
       CountsAgree, Absent, Renewed, Concluded, ResumableStates, TERMINAL_STATES
<1>3. QED
    BY <1>1, <1>2, SessionRenews, CleanupRenews, OperatorRenews, SetupRenews,
       RequestRenews, CallingRenews, StartingRenews, RaisingRenews,
       FirstDaysBooting DEF Next

\* A row in review, completed or failed runs again only under a higher session
\* number, until the backend shuts down or dies: neither a claim, nor a granted
\* approval, nor the rollback of a start that raised brings it back, and no
\* reset forgets to count.  The operator may cancel whenever he likes, and
\* resumes a job only when nothing is under way for it.
THEOREM ConcludedIsReset ==
    ASSUME PatientOperator
    PROVE  Spec => [][restarts' = 0 /\ ~stopping' =>
                        \A j \in Jobs :
                            db[j] \in Concluded /\ db'[j] = "running"
                                => count'[j] > count[j]]_vars
<1> DEFINE Inv == /\ RuntimeInv
                  /\ restarts = 0 => FirstLife
                  /\ FirstDays => RevivalInv
           Counted == restarts' = 0 /\ ~stopping' =>
                \A j \in Jobs : db[j] \in Concluded /\ db'[j] = "running"
                                => count'[j] > count[j]
<1>1. Init => Inv
  <2> SUFFICES ASSUME Init PROVE RevivalInv
      BY SafetyInit, FirstLifeInit
  <2>1. QED
      BY DEF Init, RevivalInv, AwaitingSaysSo, ClaimsUnfinished,
         CountsAgree, IdleCall, Free, NoCoroutine
<1>2. Inv /\ [Next]_vars => Inv' /\ Counted
  <2> SUFFICES ASSUME Inv, [Next]_vars PROVE Inv' /\ Counted
      OBVIOUS
  <2>1. FirstDays' => RevivalInv' /\ Renewed
      BY RenewedNext
  <2>2. RuntimeInv' /\ (restarts' = 0 => FirstLife')
      BY SafetyNext, FirstLifeNext
  <2>3. QED
      BY <2>1, <2>2 DEF Renewed, FirstDays
<1>3. Inv /\ [Next]_vars => [Counted]_vars
    BY <1>2
<1>4. QED
    BY <1>1, <1>2, <1>3, PTL DEF Spec

-----------------------------------------------------------------------------
(* What a shutdown sends is not taken for an operator's cancel.  Starts that *)
(* raise, which may put a canceled row back, are left out by name, and the  *)
(* lives after the first restart.                                           *)

FirstShutdown == PatientOperator /\ "startError" \notin Env /\ MaxRestarts <= 1

\* A session handles a cancel that is not the shutdown's only when the
\* operator has written the row.
CancelIsWritten ==
    \A s \in Slots :
        /\ coro[s].pc = "aborting" => db[coro[s].job] = "canceled"
        /\ coro[s].pc = "canceling" /\ ~stopping => db[coro[s].job] = "canceled"

\* A shutdown begins while a restart is left.
RestartIsLeft == stopping => restarts < MaxRestarts

LEMMA CancelKept ==
    ASSUME CancelIsWritten, stopping => stopping',
           \A s \in Slots : coro'[s].pc \in {"canceling", "aborting"} =>
                \/ /\ coro'[s].pc = coro[s].pc /\ coro'[s].job = coro[s].job
                   /\ db'[coro[s].job] = db[coro[s].job]
                \/ db'[coro'[s].job] = "canceled"
                \/ coro'[s].pc = "canceling" /\ stopping'
    PROVE  CancelIsWritten'
BY DEF CancelIsWritten

\* A step that adds no session on its way out, and leaves the rows of those
\* there are.
LEMMA OthersCancelKept ==
    ASSUME FirstLife, CancelIsWritten, UNCHANGED stopping, NEW j \in Jobs,
           \A k \in Jobs \ {j} : db'[k] = db[k],
           \A s \in Slots : coro'[s].pc \in {"canceling", "aborting"} =>
                coro'[s] = coro[s] /\ coro[s].job # j
    PROVE  CancelIsWritten'
<1>1. \A s \in Slots : coro'[s].pc \in {"canceling", "aborting"} =>
          coro'[s] = coro[s] /\ coro[s].job \in Jobs \ {j}
    BY DEF FirstLife, OneCoroutine
<1>2. QED
    BY <1>1, CancelKept

LEMMA SessionCancels ==
    ASSUME RuntimeInv, FirstLife, CancelIsWritten, NEW s \in Slots, Session(s)
    PROVE  CancelIsWritten'
<1> DEFINE j == coro[s].job
<1>1. TypeOK /\ coro[s].pc # "none" /\ UNCHANGED stopping
    BY DEF Session, BeginTask, EnterSession, EnterFails, Complete, MergeDone,
       FailSession, RequestApproval, ApprovalGranted, ApprovalRejected, boot,
       RuntimeInv, TypeInv
<1>2. /\ j \in Jobs
      /\ \A t \in Slots \ {s} : coro[t].pc # "none" => coro[t].job # j
    BY <1>1 DEF FirstLife, OneCoroutine
<1>3. \A k \in Jobs \ {j} : db'[k] = db[k]
    BY <1>1, <1>2 DEF Session, BeginTask, EnterSession, EnterFails, Complete,
       MergeDone, FailSession, RequestApproval, ApprovalGranted,
       ApprovalRejected, rows, TypeOK
<1>4. /\ coro'[s].pc \notin {"canceling", "aborting"}
      /\ \A t \in Slots \ {s} : coro'[t] = coro[t]
  <2>1. CASE EnterFails(s)
    <3>1. coro'[s] = [coro[s] EXCEPT !.pc = "settling", !.last = TRUE]
        BY <2>1, EscapedTame DEF EnterFails
    <3>2. coro'[s].pc = "settling"
        BY <1>1, <3>1 DEF TypeOK, Coroutine
    <3>3. QED
        BY <1>1, <2>1, <3>2 DEF EnterFails, Escaped, TypeOK
  <2>2. CASE ~EnterFails(s)
    <3>1. PICK pc : Move(s, pc) /\ pc \notin {"canceling", "aborting"}
        BY <2>2 DEF Session, BeginTask, EnterSession, Complete, MergeDone,
           FailSession, RequestApproval, ApprovalGranted, ApprovalRejected
    <3>2. QED
        BY <1>1, <3>1 DEF Move, TypeOK, Coroutine
  <2>3. QED
      BY <2>1, <2>2
<1>5. QED
    BY <1>1, <1>2, <1>3, <1>4, OthersCancelKept

LEMMA CleanupCancels ==
    ASSUME RuntimeInv, FirstLife, CancelIsWritten, NEW s \in Slots, Cleanup(s)
    PROVE  CancelIsWritten'
<1> DEFINE j == coro[s].job
<1>1. TypeOK /\ coro[s].pc # "none" /\ UNCHANGED stopping
    BY DEF Cleanup, HandleCanceled, AbortDone, CancelSafetyNet, EnsureTerminal,
       DropJobState, CleanupApprovals, DequeueNothing, DequeueStart, boot,
       RuntimeInv, TypeInv
<1>2. /\ j \in Jobs
      /\ \A t \in Slots \ {s} : coro[t].pc # "none" => coro[t].job # j
    BY <1>1 DEF FirstLife, OneCoroutine
<1>3. \A k \in Jobs \ {j} : db'[k] = db[k]
    BY <1>1, <1>2 DEF Cleanup, HandleCanceled, AbortDone, CancelSafetyNet,
       EnsureTerminal, DropJobState, CleanupApprovals, DequeueNothing,
       DequeueStart, rows, TypeOK
<1>4. CASE HandleCanceled(s)
  <2>1. /\ coro'[s].pc = (IF stopping THEN "settling" ELSE "aborting")
        /\ coro'[s].job = j /\ \A t \in Slots \ {s} : coro'[t] = coro[t]
        /\ UNCHANGED db
      BY <1>1, <1>4 DEF HandleCanceled, Move, TypeOK, Coroutine, rows
  <2>2. ~stopping => db[j] = "canceled"
      BY <1>4 DEF HandleCanceled, CancelIsWritten
  <2>3. QED
      BY <1>1, <2>1, <2>2, CancelKept
<1>5. CASE ~HandleCanceled(s)
  <2>1. /\ coro'[s].pc \notin {"canceling", "aborting"}
        /\ \A t \in Slots \ {s} : coro'[t] = coro[t]
    <3>1. CASE CleanupApprovals(s)
      <4>1. \A t \in Slots \ {s} : t \notin CoroutinesOf(j, {"awaiting"})
          BY <1>2 DEF CoroutinesOf
      <4>2. coro'[s] = [coro[s] EXCEPT !.pc = "dequeuing"]
          BY <3>1 DEF CleanupApprovals
      <4>3. coro'[s].pc = "dequeuing"
          BY <1>1, <4>2 DEF TypeOK, Coroutine
      <4>4. QED
          BY <3>1, <4>1, <4>3 DEF CleanupApprovals
    <3>2. CASE CancelSafetyNet(s)
      <4>1. coro'[s] = [coro[s] EXCEPT !.pc = "settling", !.last = TRUE]
          BY <3>2, EscapedTame DEF CancelSafetyNet
      <4>2. coro'[s].pc = "settling"
          BY <1>1, <4>1 DEF TypeOK, Coroutine
      <4>3. QED
          BY <1>1, <3>2, <4>2 DEF CancelSafetyNet, Escaped, TypeOK
    <3>3. CASE DequeueNothing(s)
      <4>1. coro[s].pc \in Leaving
          BY <3>3 DEF DequeueNothing, Leaving
      <4>2. coro' = [coro EXCEPT ![s] = NoCoroutine]
          BY <3>3, <4>1, ReturnedTame DEF DequeueNothing
      <4>3. QED
          BY <1>1, <4>2 DEF TypeOK, NoCoroutine
    <3>4. CASE AbortDone(s) \/ EnsureTerminal(s) \/ DropJobState(s)
                 \/ DequeueStart(s)
      <4>1. PICK pc : Move(s, pc) /\ pc \notin {"canceling", "aborting"}
          BY <3>4 DEF AbortDone, EnsureTerminal, DropJobState, DequeueStart
      <4>2. QED
          BY <1>1, <4>1 DEF Move, TypeOK, Coroutine
    <3>5. QED
        BY <1>5, <3>1, <3>2, <3>3, <3>4 DEF Cleanup
  <2>2. QED
      BY <1>1, <1>2, <1>3, <2>1, OthersCancelKept
<1>6. QED
    BY <1>4, <1>5

LEMMA OperatorCancels ==
    ASSUME RuntimeInv, FirstLife, CancelIsWritten, NEW j \in Jobs, Operator(j)
    PROVE  CancelIsWritten'
<1>1. TypeOK /\ UNCHANGED stopping /\ ~stopping
    BY DEF Operator, Cancel, ResolveJob, boot, RuntimeInv, TypeInv
<1>2. \A k \in Jobs \ {j} : db'[k] = db[k]
    BY <1>1 DEF Operator, Cancel, ResolveJob, TypeOK
<1>3. CASE Cancel(j)
  <2>1. db'[j] = "canceled"
      BY <1>1, <1>3 DEF Cancel, TypeOK
  <2>2. PICK swallowed \in BOOLEAN :
          coro' = [s \in Slots |-> IF tasks[j] = s
                                  THEN Cancelled(coro[s], swallowed)
                                  ELSE coro[s]]
      BY <1>3 DEF Cancel
  <2>3. \A s \in Slots : tasks[j] = s => coro[s].job = j
      BY SlotsAssumption DEF RuntimeInv, RegistryNamesItsJob, Registered, NoSlot
  <2>4. \A s \in Slots : Cancelled(coro[s], swallowed).job = coro[s].job
      BY <1>1 DEF Cancelled, TypeOK, Coroutine
  <2>5. \A s \in Slots : \/ coro'[s] = coro[s] \/ coro'[s].job = j
      BY <2>2, <2>3, <2>4
  <2>6. \A s \in Slots : coro[s].pc # "none" => coro[s].job \in Jobs
      BY DEF FirstLife, OneCoroutine
  <2>7. \A s \in Slots : coro'[s].pc \in {"canceling", "aborting"} =>
            \/ coro'[s] = coro[s] /\ db'[coro[s].job] = db[coro[s].job]
            \/ db'[coro'[s].job] = "canceled"
      BY <1>2, <2>1, <2>5, <2>6
  <2>8. QED
      BY <1>1, <2>7, CancelKept
<1>4. CASE ResolveJob(j)
  <2>1. db[j] = "review" /\ UNCHANGED coro
      BY <1>4 DEF ResolveJob, sessions
  <2>2. \A s \in Slots : coro[s].pc \in {"canceling", "aborting"}
            => coro[s].job # j
      BY <1>1, <2>1 DEF CancelIsWritten
  <2>3. QED
      BY <1>1, <1>2, <2>1, <2>2, OthersCancelKept
<1>5. QED
    BY <1>3, <1>4 DEF Operator

\* Whoever is not a session writes rows of jobs that have none.
LEMMA StarterCancels ==
    ASSUME "startError" \notin Env, RuntimeInv, FirstLife, CancelIsWritten,
           \/ \E j \in Jobs : Setup(j)
           \/ \E p \in Requests : Request(p)
           \/ \E p \in Procs : Calling(p)
           \/ Starting
    PROVE  CancelIsWritten'
<1>1. TypeOK /\ UNCHANGED stopping
    BY DEF Setup, CreateJob, BeginSetup, FinishSetup, SetupFails, SetupEnters,
       Request, ResumeJob, SendMessage, RerunJob,
       Calling, ResetRow, BuildFails, CallEnters,
       Starting, ClaimWins, ClaimLost, PreflightDone, PreflightCanceled,
       Launch, StartRaises, boot, RuntimeInv, TypeInv
<1>2. ASSUME NEW j \in Jobs, Absent(j), \A k \in Jobs \ {j} : db'[k] = db[k],
             \A s \in Slots : coro'[s].pc \in {"canceling", "aborting"}
                                    => coro'[s] = coro[s]
      PROVE  CancelIsWritten'
  <2>1. \A s \in Slots : coro'[s].pc \in {"canceling", "aborting"} =>
            coro'[s] = coro[s] /\ coro[s].job # j
      BY <1>2 DEF Absent
  <2>2. QED
      BY <1>1, <1>2, <2>1, OthersCancelKept
<1>3. ASSUME UNCHANGED <<db, coro>> PROVE CancelIsWritten'
    BY <1>1, <1>3, CancelKept
<1>4. ASSUME NEW j \in Jobs, Setup(j) PROVE CancelIsWritten'
  <2>1. UNCHANGED coro /\ \A k \in Jobs \ {j} : db'[k] = db[k]
      BY <1>1, <1>4 DEF Setup, CreateJob, NewRow, BeginSetup, FinishSetup,
         SetupFails, SetupEnters, sessions, rows, TypeOK
  <2>2. CASE SetupEnters(j)
      BY <1>3, <2>1, <2>2 DEF SetupEnters, rows
  <2>3. CASE ~SetupEnters(j)
    <3>1. db[j] = Unborn \/ setup[j] \in {"spawned", "creating"}
        BY <1>4, <2>3 DEF Setup, CreateJob, NewRow, Born, BeginSetup,
           FinishSetup, SetupFails
    <3>2. Absent(j)
        BY <3>1, UnbornAlone DEF FirstLife, SetupFirst
    <3>3. QED
        BY <1>2, <2>1, <3>2
  <2>4. QED
      BY <2>2, <2>3
<1>5. ASSUME NEW p \in Requests, Request(p) PROVE CancelIsWritten'
  <2>1. PICK j \in Jobs : ResumeJob(p, j) \/ SendMessage(p, j) \/ RerunJob(p, j)
      BY <1>5 DEF Request
  <2>2. CASE RerunJob(p, j)
    <3>1. /\ UNCHANGED coro /\ db[j] = Unborn
          /\ \A k \in Jobs \ {j} : db'[k] = db[k]
        BY <1>1, <2>2 DEF RerunJob, NewRow, Born, sessions, TypeOK
    <3>2. QED
        BY <1>2, <3>1, UnbornAlone
  <2>3. CASE ResumeJob(p, j) \/ SendMessage(p, j)
      BY <1>3, <2>3 DEF ResumeJob, SendMessage, sessions, rows
  <2>4. QED
      BY <2>1, <2>2, <2>3
<1>6. ASSUME NEW p \in Procs, Calling(p) PROVE CancelIsWritten'
  <2>1. CASE ResetRow(p)
    <3>1. call[p].job \in Jobs /\ Absent(call[p].job)
        BY <2>1 DEF ResetRow, FirstLife, CallersAlone, CallerIsAlone, RuntimeInv,
           TypeInv, StarterNames
    <3>2. UNCHANGED coro /\ \A k \in Jobs \ {call[p].job} : db'[k] = db[k]
        BY <1>1, <2>1, <3>1 DEF ResetRow, sessions, TypeOK
    <3>3. QED
        BY <1>2, <3>1, <3>2
  <2>2. CASE BuildFails(p) \/ CallEnters(p)
      BY <1>3, <2>2 DEF BuildFails, CallEnters, sessions, rows
  <2>3. QED
      BY <1>6, <2>1, <2>2 DEF Calling
<1>7. ASSUME Starting PROVE CancelIsWritten'
  <2>1. lock.job \in Jobs /\ Absent(lock.job)
      BY <1>7 DEF Starting, ClaimWins, ClaimLost, PreflightDone,
         PreflightCanceled, Launch, StartRaises, RuntimeInv, TypeInv,
         StarterNames, FirstLife, HolderAlone
  <2>2. \A k \in Jobs \ {lock.job} : db'[k] = db[k]
      BY <1>1, <1>7, <2>1 DEF Starting, ClaimWins, ClaimLost, PreflightDone,
         PreflightCanceled, Launch, StartRaises, rows, TypeOK
  <2>3. ASSUME NEW registered
        PROVE  /\ DOMAIN AfterStart(registered) = Slots
               /\ \A s \in Slots :
                     \/ AfterStart(registered)[s] = coro[s]
                     \/ AfterStart(registered)[s].pc \in {"settling", "none"}
      BY <1>1 DEF AfterStart, Returned, TypeOK, Coroutine, NoCoroutine
  <2>4. \A s \in Slots : coro'[s].pc \in {"canceling", "aborting"}
                            => coro'[s] = coro[s]
    <3>1. CASE Launch
      <4>1. PICK s \in FreeSlots :
              coro' = [AfterStart([tasks EXCEPT ![lock.job] = s]) EXCEPT ![s] =
                        [job |-> lock.job, pc |-> "created", last |-> FALSE]]
          BY <3>1 DEF Launch
      <4> DEFINE after == AfterStart([tasks EXCEPT ![lock.job] = s])
      <4>2. /\ DOMAIN after = Slots
            /\ \A t \in Slots : \/ after[t] = coro[t]
                                \/ after[t].pc \in {"settling", "none"}
          BY <2>3
      <4>3. coro' = [after EXCEPT ![s] =
                        [job |-> lock.job, pc |-> "created", last |-> FALSE]]
          BY <4>1
      <4> HIDE DEF after
      <4>4. /\ coro'[s].pc = "created"
            /\ \A t \in Slots \ {s} : coro'[t] = after[t]
          BY <4>2, <4>3 DEF FreeSlots
      <4>5. QED
          BY <4>2, <4>4
    <3>2. CASE ~Launch
        BY <1>7, <2>3, <3>2 DEF Starting, ClaimWins, ClaimLost, PreflightDone,
           PreflightCanceled, StartRaises, sessions
    <3>3. QED
        BY <3>1, <3>2
  <2>5. QED
      BY <1>2, <2>1, <2>2, <2>4
<1>8. QED
    BY <1>4, <1>5, <1>6, <1>7

LEMMA BootingCancels ==
    ASSUME RuntimeInv, FirstLife, CancelIsWritten, Booting, ~Restart
    PROVE  CancelIsWritten'
<1>1. CASE Shutdown
  <2>1. TypeOK /\ UNCHANGED db /\ stopping'
      BY <1>1 DEF Shutdown, rows, RuntimeInv, TypeInv
  <2>2. PICK swallowed \in BOOLEAN :
          coro' = [s \in Slots |-> IF \E j \in Jobs : tasks[j] = s
                                  THEN Cancelled(coro[s], swallowed)
                                  ELSE coro[s]]
      BY <1>1 DEF Shutdown
  <2>3. \A s \in Slots :
          /\ Cancelled(coro[s], swallowed).job = coro[s].job
          /\ Cancelled(coro[s], swallowed).pc = "aborting" => coro[s].pc = "aborting"
      BY <2>1 DEF Cancelled, TypeOK, Coroutine
  <2>4. \A s \in Slots : coro'[s].pc = "aborting" =>
            coro'[s].pc = coro[s].pc /\ coro'[s].job = coro[s].job
      BY <2>2, <2>3
  <2>5. QED
      BY <2>1, <2>4, CancelKept
<1>2. CASE TurnedAway
    BY <1>2, CancelKept DEF TurnedAway, rows, sessions, boot
<1>3. QED
    BY <1>1, <1>2 DEF Booting, RecoverNext, RequeueNext, FirstLife,
       NothingRecovered

LEMMA CancelNext ==
    ASSUME "startError" \notin Env, RuntimeInv, FirstLife, CancelIsWritten,
           [Next]_vars, restarts' = 0
    PROVE  CancelIsWritten'
<1>1. ~Restart
    BY RestartsCount
<1>2. CASE UNCHANGED vars
    BY <1>2 DEF vars, CancelIsWritten
<1>3. QED
    BY <1>1, <1>2, SessionCancels, CleanupCancels, OperatorCancels,
       StarterCancels, BootingCancels DEF Next

\* No step of a backend that is shutting down writes canceled anew.
LEMMA StoppingWrites ==
    ASSUME "startError" \notin Env, RuntimeInv, FirstLife, CancelIsWritten,
           stopping, [Next]_vars, NEW j \in Jobs, db'[j] = "canceled"
    PROVE  db[j] = "canceled"
<1>1. TypeOK
    BY DEF RuntimeInv, TypeInv
<1>2. CASE \E k \in Jobs : Setup(k) \/ Operator(k)
    BY <1>1, <1>2 DEF Setup, CreateJob, NewRow, BeginSetup, FinishSetup,
       SetupFails, SetupEnters, Operator, Cancel, ResolveJob, rows, TypeOK,
       FailJob, TransitionOr
<1>3. CASE \/ \E p \in Requests : Request(p)
           \/ \E p \in Procs : Calling(p)
    BY <1>1, <1>3 DEF Request, ResumeJob, SendMessage, RerunJob, NewRow,
       Calling, ResetRow, BuildFails, CallEnters, rows, TypeOK
<1>4. CASE Starting
    BY <1>1, <1>4 DEF Starting, ClaimWins, ClaimLost, PreflightDone,
       PreflightCanceled, Launch, StartRaises, rows, TypeOK
<1>5. CASE \E s \in Slots : Session(s)
    BY <1>1, <1>5 DEF Session, BeginTask, EnterSession, EnterFails, Complete,
       MergeDone, FailSession, RequestApproval, ApprovalGranted,
       ApprovalRejected, rows, TypeOK, FailJob, TransitionOr
<1>6. CASE \E s \in Slots : Cleanup(s)
  <2>1. PICK s \in Slots : Cleanup(s)
      BY <1>6
  <2>2. CASE AbortDone(s)
    <3>1. db[coro[s].job] = "canceled"
        BY <2>2 DEF AbortDone, CancelIsWritten
    <3>2. QED
        BY <1>1, <2>2, <3>1 DEF AbortDone, TypeOK
  <2>3. CASE ~AbortDone(s)
      BY <1>1, <2>1, <2>3 DEF Cleanup, HandleCanceled, CancelSafetyNet,
         EnsureTerminal, DropJobState, CleanupApprovals, DequeueNothing,
         DequeueStart, rows, TypeOK
  <2>4. QED
      BY <2>2, <2>3
<1>7. CASE Booting
    BY <1>1, <1>7 DEF Booting, Shutdown, Restart, TurnedAway, RecoverNext,
       RequeueNext, rows, TypeOK
<1>8. CASE UNCHANGED vars
    BY <1>8 DEF vars
<1>9. QED
    BY <1>2, <1>3, <1>4, <1>5, <1>6, <1>7, <1>8 DEF Next

LEMMA LeftNext ==
    ASSUME RuntimeInv, RestartIsLeft, [Next]_vars
    PROVE  RestartIsLeft'
<1>1. CASE Shutdown
    BY <1>1 DEF Shutdown, RestartIsLeft
<1>2. CASE Restart
    BY <1>2 DEF Restart, RestartIsLeft
<1>3. QED
    BY <1>1, <1>2, LifeGoesOn DEF RestartIsLeft

\* A shutdown cancels nothing: the CancelledError it sends to every task in
\* _tasks ends sessions without the row being called canceled, whatever the
\* sessions were doing, and only cancels the operator had written remain.
THEOREM ShutdownKeepsJobs ==
    ASSUME FirstShutdown
    PROVE  Spec => ShutdownCancelsNothing
<1> DEFINE PatientInv == RuntimeInv /\ (restarts = 0 => FirstLife)
           Inv == PatientInv /\ RestartIsLeft /\ (restarts = 0 => CancelIsWritten)
           NoneCanceled == \A j \in Jobs :
                stopping /\ db'[j] = "canceled" => db[j] = "canceled"
<1>1. Init => Inv
  <2> SUFFICES ASSUME Init PROVE RestartIsLeft /\ CancelIsWritten
      BY SafetyInit, FirstLifeInit
  <2>1. QED
      BY DEF Init, RestartIsLeft, CancelIsWritten, NoCoroutine
<1>2. Inv /\ [Next]_vars => Inv'
  <2> SUFFICES ASSUME Inv, [Next]_vars PROVE Inv'
      OBVIOUS
  <2>1. PatientInv' /\ RestartIsLeft'
      BY SafetyNext, FirstLifeNext, LeftNext DEF FirstShutdown
  <2>2. restarts' = 0 => CancelIsWritten'
      BY RestartsCount, CancelNext DEF FirstShutdown
  <2>3. QED
      BY <2>1, <2>2
<1>3. Inv /\ [Next]_vars => NoneCanceled
  <2> SUFFICES ASSUME Inv, [Next]_vars, stopping PROVE NoneCanceled
      OBVIOUS
  <2>1. restarts = 0
      BY BoundsAssumption
         DEF RestartIsLeft, FirstShutdown, RuntimeInv, TypeInv, TypeOK
  <2>2. QED
      BY <2>1, StoppingWrites DEF FirstShutdown
<1>4. Inv /\ [Next]_vars => [NoneCanceled]_vars
    BY <1>3
<1>5. QED
    BY <1>1, <1>2, <1>4, PTL DEF Spec, ShutdownCancelsNothing
=============================================================================
