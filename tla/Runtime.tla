------------------------------- MODULE Runtime -------------------------------
(***************************************************************************)
(* The job runtime of CodePlane: RuntimeService                            *)
(* (backend/services/runtime/service.py, resume.py) with the parts of      *)
(* JobService and JobRepository it drives.  All of it runs on one asyncio   *)
(* loop, so an action is the code between two awaits at which another      *)
(* coroutine may run and change what the first one reads or writes next.   *)
(*                                                                         *)
(* Three kinds of coroutine share the state of a job:                      *)
(*   - setup_and_start, one background task per new job        (setup)     *)
(*   - requests that resume a job, and recover_on_startup      (call)      *)
(*   - _run_job_guarded, one per session of a job              (coro)      *)
(* The dictionary _tasks names the coroutine of a job, but a coroutine     *)
(* leaves _tasks before it ends, and every one of the three may start a    *)
(* job, under _dequeue_lock                                    (lock).     *)
(***************************************************************************)
EXTENDS Naturals, FiniteSets, JobStates

CONSTANTS
    Jobs,           \* job numbers, in the order of creation
    MaxConcurrent,  \* config.runtime.max_concurrent_jobs
    Slots,          \* bound: names for the session coroutines alive at once
    Requests,       \* concurrent requests that resume a job
    Recovery,       \* the recover_on_startup coroutine
    NoProc,         \* no request
    MaxSessions,    \* bound: sessions of one job
    MaxRestarts,    \* bound: restarts of the backend
    Env,            \* what operators, faults and repositories may do
    CancelWhen,     \* situations of a job the operator cancels it in
    ResumeWhen      \* situations of a job the operator resumes it in

Procs == Requests \cup {Recovery}

Events ==
    {"lateArrival", "approval", "resolve", "rerun", "message", "conflictMerge", "sessionError",
     "setupError", "startError", "crash", "shutdown", "lostWorktree",
     "planApproval"}

SituationNames ==
    {"setup", "starting", "pending", "preflight", "created", "task", "tail"}

ASSUME JobsAssumption == Jobs \subseteq Nat \ {0} /\ IsFiniteSet(Jobs)
ASSUME CapacityAssumption == MaxConcurrent \in Nat \ {0}
ASSUME SlotsAssumption == Slots \subseteq Nat \ {0} /\ Slots # {}
ASSUME ProcsAssumption ==
    /\ Recovery \notin Requests
    /\ NoProc \notin Procs
    /\ Slots \cap (Procs \cup {NoProc}) = {}
ASSUME BoundsAssumption == MaxSessions \in Nat /\ MaxRestarts \in Nat
ASSUME EnvAssumption ==
    Env \subseteq Events /\ CancelWhen \subseteq SituationNames
                         /\ ResumeWhen \subseteq SituationNames

VARIABLES
    db,         \* the state column of the jobs table
    count,      \* the session_count column
    setup,      \* where each setup_and_start task is
    call,       \* where each request and the recovery are
    lock,       \* _dequeue_lock: the start its holder is carrying out
    tasks,      \* _tasks: the session coroutine registered for each job
    coro,       \* the session coroutines (_run_job_guarded)
    agents,     \* the keys of _agent_sessions
    pending,    \* the keys of _pending_starts
    orphans,    \* in-flight jobs recover_on_startup has yet to recover
    requeue,    \* queued jobs recover_on_startup has yet to start
    stopping,   \* _shutting_down
    restarts    \* restarts so far

vars == <<db, count, setup, call, lock, tasks, coro, agents, pending,
          orphans, requeue, stopping, restarts>>

rows == <<db, count>>
starters == <<setup, call, lock>>
sessions == <<tasks, coro, agents>>
boot == <<orphans, requeue, stopping, restarts>>

NoJob == 0
NoSlot == 0

IdleCall == [pc |-> "idle", op |-> "none", job |-> NoJob,
             prev |-> Unborn, count |-> 0]

Free == [kind |-> "free", who |-> NoProc, job |-> NoJob,
         loaded |-> Unborn, step |-> "none"]

NoCoroutine == [job |-> NoJob, pc |-> "none", last |-> FALSE]

SetupPc == {"idle", "spawned", "creating", "arriving", "starting"}

CallRecord ==
    [pc : {"idle", "building", "arriving", "starting"},
     op : {"none", "resume", "recover", "requeue", "rerun"},
     job : Jobs \cup {NoJob}, prev : JobState \cup {Unborn}, count : Nat]

LockRecord ==
    [kind : {"free", "setup", "call", "dequeue"},
     who : Procs \cup Slots \cup {NoProc},
     job : Jobs \cup {NoJob}, loaded : JobState \cup {Unborn},
     step : {"none", "claim", "preflight", "launch"}]

\* The body of a session, the ways it is canceled, and its cleanup up to the
\* step that takes it out of _tasks.  "created": the task has not run yet;
\* "entering": _run_job before its try; "ended": over, yet still in _tasks.
Registrable == {"created", "entering", "executing", "awaiting", "merging",
                "canceling", "aborting", "netting", "settling", "artifacts",
                "ended"}

\* After that step: postflight, approvals, and starting the next job.
Leaving == {"postflight", "dequeuing", "starting"}

\* last: the cleanup under way is _run_job_guarded's own, not _run_job's.
Coroutine ==
    [job : Jobs \cup {NoJob}, pc : Registrable \cup Leaving \cup {"none"},
     last : BOOLEAN]

TypeOK ==
    /\ db \in [Jobs -> JobState \cup {Unborn}]
    /\ count \in [Jobs -> Nat]
    /\ setup \in [Jobs -> SetupPc]
    /\ call \in [Procs -> CallRecord]
    /\ lock \in LockRecord
    /\ tasks \in [Jobs -> Slots \cup {NoSlot}]
    /\ coro \in [Slots -> Coroutine]
    /\ agents \subseteq Jobs
    /\ pending \subseteq Jobs
    /\ orphans \subseteq Jobs
    /\ requeue \subseteq Jobs
    /\ stopping \in BOOLEAN
    /\ restarts \in Nat

Init ==
    /\ db = [j \in Jobs |-> Unborn]
    /\ count = [j \in Jobs |-> 0]
    /\ setup = [j \in Jobs |-> "idle"]
    /\ call = [p \in Procs |-> IdleCall]
    /\ lock = Free
    /\ tasks = [j \in Jobs |-> NoSlot]
    /\ coro = [s \in Slots |-> NoCoroutine]
    /\ agents = {}
    /\ pending = {}
    /\ orphans = {}
    /\ requeue = {}
    /\ stopping = FALSE
    /\ restarts = 0

\* The keys of _tasks.
Registered == {j \in Jobs : tasks[j] # NoSlot}

\* Mutant: one too many.
HasCapacityOffByOne == Cardinality(Registered) <= MaxConcurrent

\* running_count < max_concurrent
HasCapacity == Cardinality(Registered) < MaxConcurrent

\* Mutant: failed is written whatever the row holds.
FailJobAlways(state) == "failed"

\* What _fail_job leaves in the row: it swallows the refusal of a transition
\* the table does not have.
FailJob(state) == TransitionOr(state, "failed")

\* The coroutines of a job, alive or ended, that are at one of some points.
CoroutinesOf(j, pcs) == {s \in Slots : coro[s].job = j /\ coro[s].pc \in pcs}

\* Where a job is when an operator acts on it: what narrows the operator in
\* the runs that check what the code promises an operator who waits.
Situations(j) ==
       (IF setup[j] \in {"spawned", "creating"} THEN {"setup"} ELSE {})
  \cup (IF \/ setup[j] = "arriving"
           \/ lock.job = j /\ lock.step = "claim"
           \/ j \in requeue \cup orphans
           \/ \E p \in Procs : call[p].job = j /\ call[p].pc # "idle"
        THEN {"starting"} ELSE {})
  \cup (IF j \in pending THEN {"pending"} ELSE {})
  \cup (IF lock.job = j /\ lock.step \in {"preflight", "launch"}
        THEN {"preflight"} ELSE {})
  \cup (IF CoroutinesOf(j, {"created"}) # {} THEN {"created"} ELSE {})
  \cup (IF CoroutinesOf(j, Registrable \ {"created"}) # {} THEN {"task"} ELSE {})
  \cup (IF CoroutinesOf(j, Leaving) # {} THEN {"tail"} ELSE {})

-----------------------------------------------------------------------------
(* Creating a job and preparing its workspace.                             *)

Born(j) == db[j] # Unborn

\* The row of a new job: create_job persists it in preparing.
NewRow(j) ==
    /\ ~stopping
    /\ ~Born(j)
    /\ \A k \in Jobs : k < j => Born(k)
    /\ db' = [db EXCEPT ![j] = "preparing"]
    /\ count' = [count EXCEPT ![j] = 1]

\* POST /jobs: the row is committed and setup_and_start runs behind it.
CreateJob(j) ==
    /\ NewRow(j)
    /\ setup' = [setup EXCEPT ![j] = "spawned"]
    /\ UNCHANGED <<call, lock, pending, sessions, boot>>

\* setup_workspace reads the row; any state but preparing is a
\* StateConflictError, which setup_and_start answers with _fail_job.
BeginSetup(j) ==
    /\ setup[j] = "spawned"
    /\ IF db[j] = "preparing"
       THEN setup' = [setup EXCEPT ![j] = "creating"] /\ UNCHANGED db
       ELSE /\ setup' = [setup EXCEPT ![j] = "idle"]
            /\ db' = [db EXCEPT ![j] = FailJob(db[j])]
    /\ UNCHANGED <<count, call, lock, pending, sessions, boot>>

\* create_worktree returned: the row becomes queued, whatever it holds by
\* now (the transition validated is the constant preparing -> queued).
FinishSetup(j) ==
    /\ setup[j] = "creating"
    /\ setup' = [setup EXCEPT ![j] = "arriving"]
    /\ db' = [db EXCEPT ![j] = "queued"]
    /\ UNCHANGED <<count, call, lock, pending, sessions, boot>>

\* create_worktree raised: a GitError writes failed, again unconditionally;
\* any other error reaches setup_and_start and _fail_job.
SetupFails(j) ==
    /\ "setupError" \in Env
    /\ setup[j] = "creating"
    /\ setup' = [setup EXCEPT ![j] = "idle"]
    /\ \E state \in {"failed", FailJob(db[j])} :
           db' = [db EXCEPT ![j] = state]
    /\ UNCHANGED <<count, call, lock, pending, sessions, boot>>

-----------------------------------------------------------------------------
(* start_or_enqueue and _start_job.  A caller first activates the sidecars  *)
(* of the job ("arriving"); that has no bound, so callers reach            *)
(* _dequeue_lock in any order.                                             *)

\* The state of the Job object a call passes to start_or_enqueue.
LoadedState(op) ==
    CASE op = "requeue" -> "queued"
      [] op = "rerun" -> "preparing"
      [] OTHER -> "running"

Holding(kind, who, j, loaded) ==
    [kind |-> kind, who |-> who, job |-> j, loaded |-> loaded, step |-> "claim"]

\* Mutant: no in-memory guard.
AdmitsAgain(j) == HasCapacity

\* Under the lock: capacity left and the job not in _tasks.
Admits(j) == HasCapacity /\ j \notin Registered

\* Mutant: a resumed job is left to the list of queued rows.
EnqueueNothing(j, loaded) == pending' = pending

\* At capacity a job that is not queued in the database waits in memory.
Enqueue(j, loaded) ==
    pending' = IF ~HasCapacity /\ loaded # "queued"
               THEN pending \cup {j} ELSE pending

\* start_or_enqueue called by setup_and_start.
SetupEnters(j) ==
    /\ setup[j] = "arriving"
    /\ lock = Free
    /\ lock' = IF Admits(j) THEN Holding("setup", NoProc, j, "queued") ELSE lock
    /\ setup' = [setup EXCEPT ![j] = IF Admits(j) THEN "starting" ELSE "idle"]
    /\ Enqueue(j, "queued")
    /\ UNCHANGED <<rows, call, sessions, boot>>

\* start_or_enqueue called by a request or by the recovery.
CallEnters(p) ==
    LET j == call[p].job
        loaded == LoadedState(call[p].op)
    IN  /\ call[p].pc = "arriving"
        /\ lock = Free
        /\ lock' = IF Admits(j) THEN Holding("call", p, j, loaded) ELSE lock
        /\ call' = [call EXCEPT ![p] =
                      IF Admits(j) THEN [@ EXCEPT !.pc = "starting"]
                                   ELSE IdleCall]
        /\ Enqueue(j, loaded)
        /\ UNCHANGED <<rows, setup, sessions, boot>>

\* _shutting_down is read before the lock is waited for, so a caller may
\* be turned away or get through.
TurnedAway ==
    /\ stopping
    /\ \/ \E j \in Jobs : /\ setup[j] = "arriving"
                          /\ setup' = [setup EXCEPT ![j] = "idle"]
                          /\ UNCHANGED call
       \/ \E p \in Procs : /\ call[p].pc = "arriving"
                           /\ call' = [call EXCEPT ![p] = IdleCall]
                           /\ UNCHANGED setup
    /\ UNCHANGED <<rows, lock, pending, sessions, boot>>

\* The coroutines once s has run its cleanup to the end, under the _tasks given:
\* _run_job_guarded, whose inner cleanup is over, looks into _tasks again and
\* cleans up once more when the job is (back) in it.
Returned(s, registered) ==
    [coro EXCEPT ![s] = IF ~coro[s].last /\ registered[coro[s].job] # NoSlot
                        THEN [@ EXCEPT !.pc = "settling", !.last = TRUE]
                        ELSE NoCoroutine]

\* The holder of the lock returns to its caller, which is done.
ReleaseLock ==
    /\ lock' = Free
    /\ setup' = IF lock.kind = "setup"
                THEN [setup EXCEPT ![lock.job] = "idle"] ELSE setup
    /\ call' = IF lock.kind = "call"
               THEN [call EXCEPT ![lock.who] = IdleCall] ELSE call

\* The same, with what becomes of the coroutine that was dequeuing.
AfterStart(registered) ==
    IF lock.kind = "dequeue" THEN Returned(lock.who, registered) ELSE coro

\* claim_for_start: the compare-and-swap on the row.
ClaimWins ==
    /\ lock.step = "claim"
    /\ db[lock.job] \in ClaimableStates
    /\ db' = [db EXCEPT ![lock.job] = "running"]
    /\ lock' = [lock EXCEPT !.step = "preflight"]
    /\ agents' = agents \cup {lock.job}
    /\ UNCHANGED <<count, setup, call, tasks, coro, pending, boot>>

ClaimLost ==
    /\ lock.step = "claim"
    /\ db[lock.job] \notin ClaimableStates
    /\ ReleaseLock
    /\ coro' = AfterStart(tasks)
    /\ UNCHANGED <<rows, tasks, agents, pending, boot>>

\* Policy set-up and the preflight curator ran; the row is read again.
PreflightDone ==
    /\ lock.step = "preflight"
    /\ db[lock.job] \notin TERMINAL_STATES
    /\ lock' = [lock EXCEPT !.step = "launch"]
    /\ UNCHANGED <<rows, setup, call, sessions, pending, boot>>

PreflightCanceled ==
    /\ lock.step = "preflight"
    /\ db[lock.job] \in TERMINAL_STATES
    /\ ReleaseLock
    /\ agents' = agents \ {lock.job}
    /\ coro' = AfterStart(tasks)
    /\ UNCHANGED <<rows, tasks, pending, boot>>

FreeSlots == {s \in Slots : coro[s].pc = "none"}

\* The progress event is out: the task is created and enters _tasks.  A name
\* is taken for it, always the same one, as names mean nothing.
Launch ==
    \E s \in FreeSlots :
        LET registered == [tasks EXCEPT ![lock.job] = s]
        IN  /\ lock.step = "launch"
            /\ \A t \in FreeSlots : s <= t
            /\ tasks' = registered
            /\ coro' = [AfterStart(registered) EXCEPT ![s] =
                          [job |-> lock.job, pc |-> "created", last |-> FALSE]]
            /\ ReleaseLock
            /\ UNCHANGED <<rows, agents, pending, boot>>

\* Whether a failed start restores the row from the caller's snapshot.
Restores == /\ lock.kind = "call"
            /\ call[lock.who].op \in {"resume", "recover"}

\* An exception between the claim and the task: _start_job puts back the
\* state it was given and raises.  A request and the recovery restore their
\* snapshot, set-up asks _fail_job, the recovery's loop over queued jobs
\* ends, and _dequeue_next swallows it.
StartRaises ==
    /\ "startError" \in Env
    /\ lock.step \in {"preflight", "launch"}
    /\ db' = [db EXCEPT ![lock.job] =
                CASE Restores -> call[lock.who].prev
                  [] lock.kind = "setup" -> FailJob(lock.loaded)
                  [] OTHER -> lock.loaded]
    /\ count' = IF Restores
                THEN [count EXCEPT ![lock.job] = call[lock.who].count]
                ELSE count
    /\ requeue' = IF lock.kind = "call" /\ call[lock.who].op = "requeue"
                  THEN {} ELSE requeue
    /\ ReleaseLock
    /\ agents' = agents \ {lock.job}
    /\ coro' = AfterStart(tasks)
    /\ UNCHANGED <<tasks, pending, orphans, stopping, restarts>>

-----------------------------------------------------------------------------
(* Requests that resume a job, and REST reruns.                            *)

CanResume(j) ==
    /\ ~stopping
    /\ count[j] < MaxSessions
    /\ Situations(j) \subseteq ResumeWhen

BeginCall(p, op, j) ==
    call' = [call EXCEPT ![p] =
              [pc |-> "building", op |-> op, job |-> j,
               prev |-> db[j], count |-> count[j]]]

\* resume_job up to its first await: read the row, check it, keep a snapshot.
ResumeJob(p, j) ==
    /\ call[p].pc = "idle"
    /\ CanResume(j)
    /\ db[j] \in ResumableStates
    /\ BeginCall(p, "resume", j)
    /\ UNCHANGED <<rows, setup, lock, pending, sessions, boot>>

\* send_message on a job without an agent session: resume_orphaned resumes a
\* finished job and recovers one the database calls in flight.
SendMessage(p, j) ==
    /\ "message" \in Env
    /\ call[p].pc = "idle"
    /\ CanResume(j)
    /\ j \notin agents
    /\ \/ db[j] \in ResumableStates /\ BeginCall(p, "resume", j)
       \/ db[j] \in InFlightStates /\ BeginCall(p, "recover", j)
    /\ UNCHANGED <<rows, setup, lock, pending, sessions, boot>>

\* Mutant: the session number is not counted up.
ResetRowUncounted(p) ==
    LET j == call[p].job
    IN  /\ call[p].pc = "building"
        /\ db' = [db EXCEPT ![j] = "running"]
        /\ count' = [count EXCEPT ![j] = call[p].count]
        /\ call' = [call EXCEPT ![p].pc = "arriving"]
        /\ UNCHANGED <<setup, lock, pending, sessions, boot>>

\* reset_for_resume and reset_for_recovery, after the worktree is there and
\* the hand-off prompt is written: unconditional, from the snapshot's count.
ResetRow(p) ==
    LET j == call[p].job
    IN  /\ call[p].pc = "building"
        /\ db' = [db EXCEPT ![j] = "running"]
        /\ count' = [count EXCEPT ![j] = call[p].count + 1]
        /\ call' = [call EXCEPT ![p].pc = "arriving"]
        /\ UNCHANGED <<setup, lock, pending, sessions, boot>>

\* The worktree cannot be restored or the prompt cannot be built: nothing
\* has been written yet.
BuildFails(p) ==
    /\ "startError" \in Env
    /\ call[p].pc = "building"
    /\ call' = [call EXCEPT ![p] = IdleCall]
    /\ UNCHANGED <<rows, setup, lock, pending, sessions, boot>>

\* POST /jobs/{id}/rerun and /continue: the new row is in preparing and goes
\* to start_or_enqueue without setup_and_start.
RerunJob(p, j) ==
    /\ "rerun" \in Env
    /\ call[p].pc = "idle"
    /\ \E k \in Jobs : Born(k)
    /\ NewRow(j)
    /\ call' = [call EXCEPT ![p] =
                  [pc |-> "arriving", op |-> "rerun", job |-> j,
                   prev |-> Unborn, count |-> 1]]
    /\ UNCHANGED <<setup, lock, pending, sessions, boot>>

-----------------------------------------------------------------------------
(* A session: _run_job.                                                    *)

Move(s, pc) == coro' = [coro EXCEPT ![s].pc = pc]

\* The event loop runs the new task for the first time.
BeginTask(s) ==
    /\ coro[s].pc = "created"
    /\ Move(s, "entering")
    /\ UNCHANGED <<rows, starters, tasks, agents, pending, boot>>

\* Telemetry, the worktree and the index are set up: _run_job enters its try.
EnterSession(s) ==
    /\ coro[s].pc = "entering"
    /\ Move(s, "executing")
    /\ UNCHANGED <<rows, starters, tasks, agents, pending, boot>>

\* What escapes _run_job leaves the cleanup to _run_job_guarded, which does it
\* if the job is still in _tasks.
Escaped(s) ==
    coro' = [coro EXCEPT ![s] = IF tasks[@.job] # NoSlot
                                THEN [@ EXCEPT !.pc = "settling", !.last = TRUE]
                                ELSE NoCoroutine]

\* An error before that try.
EnterFails(s) ==
    /\ "sessionError" \in Env
    /\ coro[s].pc = "entering"
    /\ Escaped(s)
    /\ UNCHANGED <<rows, starters, tasks, agents, pending, boot>>

\* The agent ended its turn, or was downgraded to another model: review.  A
\* resumed job whose merge had conflicted goes on to merge.  A refused
\* transition is an exception, which _run_job answers with _fail_job.
Complete(s) ==
    LET j == coro[s].job
        reviewed == CanTransition(db[j], "review")
    IN  /\ coro[s].pc = "executing"
        /\ db' = [db EXCEPT ![j] = IF reviewed THEN "review" ELSE FailJob(@)]
        /\ \/ Move(s, "settling")
           \/ "conflictMerge" \in Env /\ count[j] > 1 /\ reviewed
                                       /\ Move(s, "merging")
        /\ UNCHANGED <<count, starters, tasks, agents, pending, boot>>

\* execute_resolve(merge): completed when it merged or opened a pull request,
\* review as before when it conflicted.
MergeDone(s) ==
    LET j == coro[s].job
    IN  /\ coro[s].pc = "merging"
        /\ \/ UNCHANGED db
           \/ db' = [db EXCEPT ![j] = IF CanTransition(@, "completed")
                                      THEN "completed" ELSE FailJob(@)]
        /\ Move(s, "settling")
        /\ UNCHANGED <<count, starters, tasks, agents, pending, boot>>

\* The agent reported an error, or the session raised.
FailSession(s) ==
    /\ "sessionError" \in Env
    /\ coro[s].pc = "executing"
    /\ db' = [db EXCEPT ![coro[s].job] = FailJob(@)]
    /\ Move(s, "settling")
    /\ UNCHANGED <<count, starters, tasks, agents, pending, boot>>

\* _handle_approval_request up to wait_for_resolution.
RequestApproval(s) ==
    LET j == coro[s].job
        allowed == CanTransition(db[j], "waiting_for_approval")
    IN  /\ "approval" \in Env
        /\ coro[s].pc = "executing"
        /\ db' = [db EXCEPT ![j] = IF allowed THEN "waiting_for_approval"
                                              ELSE FailJob(@)]
        /\ Move(s, IF allowed THEN "awaiting" ELSE "settling")
        /\ UNCHANGED <<count, starters, tasks, agents, pending, boot>>

\* Mutant: the agent goes on and the row is forgotten.
ApprovalGrantedSilently(s) ==
    /\ coro[s].pc = "awaiting"
    /\ Move(s, "executing")
    /\ UNCHANGED <<rows, starters, tasks, agents, pending, boot>>

ApprovalGranted(s) ==
    LET j == coro[s].job
        allowed == CanTransition(db[j], "running")
    IN  /\ coro[s].pc = "awaiting"
        /\ db' = [db EXCEPT ![j] = IF allowed THEN "running" ELSE FailJob(@)]
        /\ Move(s, IF allowed THEN "executing" ELSE "settling")
        /\ UNCHANGED <<count, starters, tasks, agents, pending, boot>>

\* The row stays in waiting_for_approval until _fail_job.
ApprovalRejected(s) ==
    /\ coro[s].pc = "awaiting"
    /\ db' = [db EXCEPT ![coro[s].job] = FailJob(@)]
    /\ Move(s, "settling")
    /\ UNCHANGED <<count, starters, tasks, agents, pending, boot>>

-----------------------------------------------------------------------------
(* Canceling a session and cleaning up behind it.                          *)

\* What task.cancel() does to a coroutine.  A task that has not run yet never
\* does: asyncio throws into it before its first line.  CancelledError before
\* the try of _run_job, and in its finally, escapes to _cancel_safety_net; one
\* that hits the wrapper's own cleanup ends the task before it leaves _tasks.
\* _ensure_terminal_state may swallow it, and the cleanup goes on unwritten;
\* a second one is swallowed where the first is handled.
Cancelled(c, swallowed) ==
    [c EXCEPT !.pc =
        CASE c.pc = "created" -> "ended"
          [] c.pc = "entering" -> "netting"
          [] c.pc \in {"executing", "awaiting", "merging"} -> "canceling"
          [] c.pc = "settling" /\ swallowed -> "artifacts"
          [] c.pc = "settling" /\ ~swallowed /\ ~c.last -> "netting"
          [] c.pc = "artifacts" /\ ~c.last -> "netting"
          [] c.pc = "artifacts" /\ c.last -> "ended"
          [] OTHER -> c.pc]

CanceledRow(state) == IF state \in TERMINAL_STATES THEN state ELSE "canceled"

\* Mutant: a shutdown is handled like a cancel.
HandleCanceledAlways(s) ==
    /\ coro[s].pc = "canceling"
    /\ Move(s, "aborting")
    /\ UNCHANGED <<rows, starters, tasks, agents, pending, boot>>

\* CancelledError reaches _run_job: a shutdown leaves the row to recovery,
\* anything else is taken for the operator's cancel.
HandleCanceled(s) ==
    /\ coro[s].pc = "canceling"
    /\ Move(s, IF stopping THEN "settling" ELSE "aborting")
    /\ UNCHANGED <<rows, starters, tasks, agents, pending, boot>>

\* _handle_job_canceled finalized the diff and aborted the agent: the row.
\* The cancel of a shutdown that starts meanwhile interrupts the write.
AbortDone(s) ==
    LET j == coro[s].job
    IN  /\ coro[s].pc = "aborting"
        /\ \/ db' = [db EXCEPT ![j] = CanceledRow(@)]
           \/ stopping /\ UNCHANGED db
        /\ Move(s, "settling")
        /\ UNCHANGED <<count, starters, tasks, agents, pending, boot>>

\* _run_job_guarded after CancelledError escaped _run_job: the safety net,
\* then the cleanup.
CancelSafetyNet(s) ==
    LET j == coro[s].job
    IN  /\ coro[s].pc = "netting"
        /\ db' = [db EXCEPT ![j] = IF stopping THEN @ ELSE CanceledRow(@)]
        /\ Escaped(s)
        /\ UNCHANGED <<count, starters, tasks, agents, pending, boot>>

\* _cleanup_job_state, first await: _ensure_terminal_state.
EnsureTerminal(s) ==
    LET j == coro[s].job
    IN  /\ coro[s].pc = "settling"
        /\ db' = [db EXCEPT ![j] =
                    IF ~stopping /\ @ \in InFlightStates THEN "failed" ELSE @]
        /\ Move(s, "artifacts")
        /\ UNCHANGED <<count, starters, tasks, agents, pending, boot>>

\* How long a caller takes to reach the lock has no bound in the code.  The
\* runs without lateArrival take it to be shorter than a session: a caller
\* that waits for sidecars of a job is there before the job leaves _tasks.
Arriving(j) == \/ setup[j] = "arriving"
               \/ \E p \in Procs : call[p].job = j /\ call[p].pc = "arriving"

\* Mutant: the job stays in _tasks.
DropJobStateKeepingTask(s) ==
    LET j == coro[s].job
    IN  /\ coro[s].pc = "artifacts"
        /\ "lateArrival" \in Env \/ ~Arriving(j)
        /\ agents' = agents \ {j}
        /\ pending' = pending \ {j}
        /\ Move(s, "postflight")
        /\ UNCHANGED <<rows, starters, tasks, boot>>

\* The artifacts are finalized: every trace of the job in memory is dropped,
\* by job id, up to the postflight of the sidecars.
DropJobState(s) ==
    LET j == coro[s].job
    IN  /\ coro[s].pc = "artifacts"
        /\ "lateArrival" \in Env \/ ~Arriving(j)
        /\ tasks' = [tasks EXCEPT ![j] = NoSlot]
        /\ agents' = agents \ {j}
        /\ pending' = pending \ {j}
        /\ Move(s, "postflight")
        /\ UNCHANGED <<rows, starters, boot>>

\* ApprovalService.cleanup_job cancels the futures of the job's approvals:
\* whoever awaits one, a later session too, sees CancelledError.
CleanupApprovals(s) ==
    /\ coro[s].pc = "postflight"
    /\ coro' = [t \in Slots |->
                  CASE t = s -> [coro[t] EXCEPT !.pc = "dequeuing"]
                    [] t # s /\ t \in CoroutinesOf(coro[s].job, {"awaiting"})
                         -> [coro[t] EXCEPT !.pc = "canceling"]
                    [] OTHER -> coro[t]]
    /\ UNCHANGED <<rows, starters, tasks, agents, pending, boot>>

-----------------------------------------------------------------------------
(* _dequeue_next: at the end of a session, start one waiting job.          *)

\* list_jobs(state=queued, limit=1): the newest queued job.
NextQueued(j) ==
    /\ db[j] = "queued"
    /\ \A k \in Jobs : db[k] = "queued" => k <= j

\* A shutdown, which is tested before the lock, no capacity, or nothing to
\* start; a pending start of a registered job is dropped.
DequeueNothing(s) ==
    /\ coro[s].pc = "dequeuing"
    /\ \/ stopping /\ UNCHANGED pending
       \/ lock = Free /\ ~HasCapacity /\ UNCHANGED pending
       \/ /\ lock = Free /\ HasCapacity
          /\ \E j \in pending \cap Registered : pending' = pending \ {j}
       \/ /\ lock = Free /\ HasCapacity
          /\ pending = {}
          /\ \A j \in Jobs : NextQueued(j) => j \in Registered
          /\ UNCHANGED pending
    /\ coro' = Returned(s, tasks)
    /\ UNCHANGED <<rows, starters, tasks, agents, boot>>

\* A pending start before any queued job.  The order of insertion is left
\* out: any pending start may be the next one.
DequeueStart(s) ==
    /\ coro[s].pc = "dequeuing"
    /\ lock = Free
    /\ HasCapacity
    /\ \E j \in Jobs \ Registered :
          /\ \/ j \in pending
             \/ pending = {} /\ NextQueued(j)
          /\ pending' = pending \ {j}
          /\ lock' = Holding("dequeue", s, j, db[j])
    /\ Move(s, "starting")
    /\ UNCHANGED <<rows, setup, call, tasks, agents, boot>>

-----------------------------------------------------------------------------
(* The operator on a job that exists.                                      *)

\* POST /jobs/{id}/cancel: the row through cancel_job, then the task.
Cancel(j) ==
    /\ ~stopping
    /\ CanTransition(db[j], "canceled")
    /\ Situations(j) \subseteq CancelWhen
    /\ db' = [db EXCEPT ![j] = "canceled"]
    /\ \E swallowed \in BOOLEAN :
          coro' = [s \in Slots |-> IF tasks[j] = s
                                  THEN Cancelled(coro[s], swallowed)
                                  ELSE coro[s]]
    /\ UNCHANGED <<count, starters, tasks, agents, pending, boot>>

\* The operator resolves or completes a job under review.
ResolveJob(j) ==
    /\ "resolve" \in Env
    /\ ~stopping
    /\ db[j] = "review"
    /\ db' = [db EXCEPT ![j] = "completed"]
    /\ UNCHANGED <<count, starters, sessions, pending, boot>>

-----------------------------------------------------------------------------
(* Shutdown, restart and recover_on_startup.                               *)

\* RuntimeService.shutdown: every registered task is canceled.
Shutdown ==
    /\ "shutdown" \in Env
    /\ ~stopping
    /\ restarts < MaxRestarts
    /\ stopping' = TRUE
    /\ \E swallowed \in BOOLEAN :
          coro' = [s \in Slots |-> IF \E j \in Jobs : tasks[j] = s
                                  THEN Cancelled(coro[s], swallowed)
                                  ELSE coro[s]]
    /\ UNCHANGED <<rows, starters, tasks, agents, pending,
                   orphans, requeue, restarts>>

\* Mutant: the set-up of a preparing job is not run again.
RestartWithoutSetup ==
    /\ restarts < MaxRestarts
    /\ stopping \/ "crash" \in Env
    /\ UNCHANGED rows
    /\ orphans' = {j \in Jobs : db[j] \in InFlightStates}
    /\ requeue' = {j \in Jobs : db[j] = "queued"}
    /\ setup' = [j \in Jobs |-> "idle"]
    /\ call' = [p \in Procs |-> IdleCall]
    /\ lock' = Free
    /\ tasks' = [j \in Jobs |-> NoSlot]
    /\ coro' = [s \in Slots |-> NoCoroutine]
    /\ agents' = {}
    /\ pending' = {}
    /\ stopping' = FALSE
    /\ restarts' = restarts + 1

\* The process is gone, whatever it was doing, and starts again: memory is
\* lost, recover_on_startup lists the rows, starts the set-up of preparing
\* jobs anew and fails in-flight jobs without a worktree.
Restart ==
    /\ restarts < MaxRestarts
    /\ stopping \/ "crash" \in Env
    /\ \E lost \in SUBSET {j \in Jobs : db[j] \in InFlightStates} :
          /\ lost = {} \/ "lostWorktree" \in Env
          /\ db' = [j \in Jobs |-> IF j \in lost THEN "failed" ELSE db[j]]
          /\ orphans' = {j \in Jobs : db[j] \in InFlightStates} \ lost
    /\ requeue' = {j \in Jobs : db[j] = "queued"}
    /\ setup' = [j \in Jobs |-> IF db[j] = "preparing" THEN "spawned"
                                                      ELSE "idle"]
    /\ call' = [p \in Procs |-> IdleCall]
    /\ lock' = Free
    /\ tasks' = [j \in Jobs |-> NoSlot]
    /\ coro' = [s \in Slots |-> NoCoroutine]
    /\ agents' = {}
    /\ pending' = {}
    /\ stopping' = FALSE
    /\ restarts' = restarts + 1
    /\ UNCHANGED count

\* recover_on_startup, one in-flight job after the other.  One that is no
\* longer in flight is refused; a plan that awaited approval is failed.
RecoverNext(j) ==
    /\ call[Recovery].pc = "idle"
    /\ j \in orphans
    /\ orphans' = orphans \ {j}
    /\ \/ db[j] \notin InFlightStates /\ UNCHANGED <<db, call>>
       \/ db[j] \in InFlightStates /\ BeginCall(Recovery, "recover", j)
                                   /\ UNCHANGED db
       \/ /\ "planApproval" \in Env
          /\ db[j] = "waiting_for_approval"
          /\ db' = [db EXCEPT ![j] = "failed"]
          /\ UNCHANGED call
    /\ UNCHANGED <<count, setup, lock, sessions, pending,
                   requeue, stopping, restarts>>

\* Then the queued jobs it listed before the first recovery, as listed.
RequeueNext(j) ==
    /\ orphans = {}
    /\ call[Recovery].pc = "idle"
    /\ j \in requeue
    /\ requeue' = requeue \ {j}
    /\ call' = [call EXCEPT ![Recovery] =
                  [pc |-> "arriving", op |-> "requeue", job |-> j,
                   prev |-> Unborn, count |-> 0]]
    /\ UNCHANGED <<rows, setup, lock, sessions, pending,
                   orphans, stopping, restarts>>

-----------------------------------------------------------------------------
Setup(j) ==
    \/ CreateJob(j) \/ BeginSetup(j) \/ FinishSetup(j) \/ SetupFails(j)
    \/ SetupEnters(j)

Request(p) ==
    \/ \E j \in Jobs : ResumeJob(p, j) \/ SendMessage(p, j) \/ RerunJob(p, j)

Calling(p) == ResetRow(p) \/ BuildFails(p) \/ CallEnters(p)

Starting ==
    \/ ClaimWins \/ ClaimLost \/ PreflightDone \/ PreflightCanceled
    \/ Launch \/ StartRaises

Session(s) ==
    \/ BeginTask(s) \/ EnterSession(s) \/ EnterFails(s)
    \/ Complete(s) \/ MergeDone(s) \/ FailSession(s)
    \/ RequestApproval(s) \/ ApprovalGranted(s) \/ ApprovalRejected(s)

Cleanup(s) ==
    \/ HandleCanceled(s) \/ AbortDone(s) \/ CancelSafetyNet(s)
    \/ EnsureTerminal(s) \/ DropJobState(s) \/ CleanupApprovals(s)
    \/ DequeueNothing(s) \/ DequeueStart(s)

Operator(j) == Cancel(j) \/ ResolveJob(j)

Booting ==
    \/ Shutdown \/ Restart \/ TurnedAway
    \/ \E j \in Jobs : RecoverNext(j) \/ RequeueNext(j)

Next ==
    \/ \E j \in Jobs : Setup(j) \/ Operator(j)
    \/ \E p \in Requests : Request(p)
    \/ \E p \in Procs : Calling(p)
    \/ Starting
    \/ \E s \in Slots : Session(s) \/ Cleanup(s)
    \/ Booting

Spec == Init /\ [][Next]_vars

\* The event loop runs every coroutine that can go on; git, the database and
\* the sidecars answer.  asyncio.Lock is first come, first served, and starts
\* are bounded, so the lock is free for every waiter in the end.  A backend
\* that shuts down is started again.
SystemFairness ==
    /\ \A j \in Jobs :
        /\ WF_vars(BeginSetup(j)) /\ WF_vars(FinishSetup(j) \/ SetupFails(j))
        /\ WF_vars(SetupEnters(j))
        /\ WF_vars(RecoverNext(j)) /\ WF_vars(RequeueNext(j))
    /\ \A p \in Procs : WF_vars(ResetRow(p)) /\ WF_vars(CallEnters(p))
    /\ WF_vars(ClaimWins \/ ClaimLost)
    /\ WF_vars(PreflightDone \/ PreflightCanceled)
    /\ WF_vars(Launch)
    /\ \A s \in Slots :
        /\ WF_vars(BeginTask(s)) /\ WF_vars(EnterSession(s) \/ EnterFails(s))
        /\ WF_vars(MergeDone(s)) /\ WF_vars(Cleanup(s))
    /\ WF_vars(stopping /\ Restart)

\* Agents end their turns, however often they ask before (the stall check
\* stops one that hangs), and approvals are answered.
AgentFairness ==
    \A s \in Slots : /\ SF_vars(Complete(s) \/ FailSession(s))
                     /\ WF_vars(ApprovalGranted(s) \/ ApprovalRejected(s))

FairSpec == Spec /\ SystemFairness /\ AgentFairness

-----------------------------------------------------------------------------
(* What the runtime promises.                                              *)

\* _tasks holds at most max_concurrent_jobs entries, whichever of set-up,
\* requests, recovery and dequeuing adds them.
CapacityRespected == Cardinality(Registered) <= MaxConcurrent

\* The coroutines in which an agent is at work.
AgentsAtWork == {s \in Slots : coro[s].pc \in {"executing", "awaiting"}}

\* No more agents are at work than max_concurrent_jobs: an agent at work is
\* one the runtime counts.
AgentsWithinCapacity == Cardinality(AgentsAtWork) <= MaxConcurrent

\* _tasks never names a coroutine that already let go of the job: entries are
\* dropped by job id, by coroutines that may not be the ones entered.
RegistryNamesItsJob ==
    \A j \in Registered :
        coro[tasks[j]].job = j /\ coro[tasks[j]].pc \in Registrable

\* Someone will still act on the job.
Owned(j) ==
    \/ CoroutinesOf(j, Registrable) # {}
    \/ lock.job = j
    \/ j \in pending \cup orphans
    \/ setup[j] # "idle"
    \/ \E p \in Procs : call[p].job = j /\ call[p].pc # "idle"

\* A row in running is backed by a session, by a start under way or waiting
\* for capacity, or by a recovery that has yet to come to it.
RunningHasOwner ==
    \A j \in Jobs : ~stopping /\ db[j] = "running" => Owned(j)

\* A row in waiting_for_approval has a session that waits, or one on its way
\* out that will write a terminal state, or a recovery to come.
WaitingHasWaiter ==
    \A j \in Jobs : ~stopping /\ db[j] = "waiting_for_approval" =>
        \/ CoroutinesOf(j, {"awaiting", "canceling", "aborting",
                            "netting", "settling"}) # {}
        \/ j \in orphans
        \/ \E p \in Procs : call[p].job = j /\ call[p].op = "recover"

\* A start never takes the place of a task that is still in _tasks.
LaunchReplacesNoTask ==
    [][\A j \in Jobs : tasks[j] # NoSlot /\ tasks'[j] # tasks[j]
                        => tasks'[j] = NoSlot]_vars

\* Every change of a state goes by the table, the unconditional writes of
\* set-up, claims, resets and startup included.
TransitionsFollowTable ==
    [][\A j \in Jobs :
          Born(j) /\ db'[j] # db[j] => CanTransition(db[j], db'[j])]_vars

\* A finished job runs again only as a new session.
RevivalIsAReset ==
    [][\A j \in Jobs : db[j] \in ResumableStates /\ db'[j] = "running"
                        => count'[j] > count[j]]_vars

\* A shutdown keeps jobs for the next start: the CancelledError it sends to
\* every task is not taken for an operator's cancel.
ShutdownCancelsNothing ==
    [][\A j \in Jobs :
          stopping /\ db'[j] = "canceled" => db[j] = "canceled"]_vars

\* A job that was accepted comes to rest: at the operator's review, or in a
\* terminal state.
EveryJobSettles == \A j \in Jobs : Born(j) ~> db[j] \in ResumableStates

\* A queued job is started, or canceled, when capacity opens.
QueuedJobsStart == \A j \in Jobs : db[j] = "queued" ~> db[j] # "queued"

\* A session coroutine gives its place in _tasks back.
TasksAreReturned == \A j \in Jobs : j \in Registered ~> j \notin Registered
=============================================================================
