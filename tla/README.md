# CodePlane in TLA+

CodePlane runs coding agents as jobs: each job gets a git worktree, an agent
session under an SDK, an operator who answers its permission requests, and a
merge, pull request or discard at the end. The backend is one Python process
on one asyncio loop over a SQLite database. Nothing on that loop runs in
parallel, but every `await` lets another coroutine change what the first one
has read, and the process may be shut down or die at any of them. Around it, a
watchdog thread keeps a tunnel connector alive, and signal handlers and timers
bring it down. This directory models the parts in which that matters.

## Inventory

| Component | State | Operations | What makes it correct | Here |
|---|---|---|---|---|
| Job state machine (`models/domain.py`) | the state column | `validate_state_transition` | states change by the table | `JobStates` |
| Job runtime (`services/runtime/service.py`, `resume.py`) | `_tasks`, `_agent_sessions`, `_pending_starts`, `_dequeue_lock`, `_shutting_down` | set-up, start or enqueue, the session, cancel, cleanup, dequeue, resume, rerun, shutdown, recovery | capacity; every in-flight row has an owner; every job comes to rest | `Runtime` |
| JobService and JobRepository | the jobs table | create, set-up, compare-and-swap claim, resets, restore, resolve | a claim is won once; a finished job runs again only as a new session | `Runtime`, `Merge`, `Artifacts` |
| Approvals (`services/job/approval_service.py`) | the approvals table, futures, explicit flags | create, resolve, wait, trust, cleanup, recover | one answer per request, heard by whoever asked | `Approvals` |
| Action policy (`services/action_policy/`) | batches, shared futures, waivers | evaluate, judge, submit, answer, trust, clean up | a call goes ahead only for a reason the policy gives; critical ones only when answered | `Policy` |
| Merge service and git (`services/merge_service/`, `services/git/`) | refs, worktrees, the operator's directory, merge columns, `_repo_locks` | merge, pull request, discard, cleanup | no commit is dropped; the row never says more than git | `Merge` |
| Artifact finalization (`services/artifacts/`) | collection columns, the session log | claim, collect, recover | each session is collected, under its own number | `Artifacts` |
| Event stream (`services/events/`, `lifespan.py`, `useSSE.ts`) | the events table, connection queues, the client's cursor | store, broadcast, overflow, replay, snapshot | a client misses nothing without noticing and shows what the rows say | `Stream` |
| Sidecars (`services/sidecar/`, gates in the runtime) | slots, queue, `fired_once`, gates, the pause flag | activate, event, tick, fire, drain, deactivate, gate, pause | one pipeline at a time; queued work is done once; a gate stands until lifted | `Sidecars` |
| Tunnel and the end of `cpl up` (`services/sharing/tunnel_service.py`, `cli.py`) | the connector, the watchdog's tally, the closed flag and its lock | check, restart, close, signals, force exit | one connector; none left behind; a signal ends the process | `Tunnel` |
| Adapters | the event queue, permission callbacks | ask, enqueue, abort | a callback does not wait for ever | in `Approvals`, `Policy` |
| Plan mode | the mode column, the plan gate | plan, approve, implement, re-plan | nothing is implemented without approval | no |
| Trail, steps, story, completers, chat, coderecon | their own rows and caches | best-effort work beside a job | none of the runtime's decisions depends on them | no |
| Projects, recipes, trackers, settings, credentials, terminal, telemetry, MCP, frontend pages | rows and processes | create/read/update/delete, front ends | outside the job's control flow | no |

How they interact. The REST API commits a row and starts `setup_and_start` as
a background task. That task, a resuming request and the recovery call
`start_or_enqueue`; it and `_dequeue_next` start jobs under one lock. A started
job is a task (`_run_job_guarded` around `_run_job`) in `_tasks`. Its adapter's
permission callback asks the policy router, which may let a call go, have the
monitor judge it, or put it into the job's batch; or it creates an approval
request, which the session loop hears of through the event queue. Sidecars
react to the job's events and may pause its tools. The cleanup of a session
drops the job's traces by job id, gives up its approvals and batches, collects
its artifacts, closes its sidecars and starts the next job. A resolve request
merges the branch under a lock per repository and writes the row afterwards.
Everything is published as events, stored and broadcast to the browser. At
startup, `recover_on_startup` runs behind an API that already serves.

The hard behaviours: requests, cleanups and starts of the *same* job that
interleave (everything in memory is keyed by job id, not by session); a claim
and its task several awaits apart; two waiters on one future; answers committed
a step before they are heard; git, platform and row written one after the
other; queues replaced while they are worked on; replays overtaken by live
events; a close raced by a restart; recovery from rows alone. `PROJECT.json`
lists them as hazards, line by line, with the properties aimed at each.

## Modules

`JobStates` is the transition table and the sets of states the code tests.

**`Runtime`** is the job runtime. An action is the code between two awaits at
which another coroutine matters. Three kinds of coroutine share a job:

| TLA+ | code |
|---|---|
| `db`, `count` | the columns `state`, `session_count` |
| `setup[j]` | where `setup_and_start` of job j is |
| `call[p]` | where a resuming request, or the recovery, is, with the snapshot of the row it keeps |
| `lock` | `_dequeue_lock`, with the start its holder carries out: claim, preflight, launch |
| `tasks`, `agents`, `pending` | the keys of `_tasks` (and which coroutine each names), `_agent_sessions`, `_pending_starts` |
| `coro[s]` | a session coroutine, from before its first step to the end of its cleanup |
| `orphans`, `requeue`, `stopping` | the lists of `recover_on_startup`, `_shutting_down` |

A session coroutine goes through `created` (the task has not run), `entering`
(`_run_job` before its `try`), `executing`, `awaiting` an approval, `merging`,
then `canceling`/`aborting` (the `CancelledError` branch) or `netting` (the
wrapper's safety net), `settling` (`_ensure_terminal_state`), `artifacts`,
`postflight`, `dequeuing`, `starting` (it starts another job). It leaves
`_tasks` when it enters `postflight`. `ended` is a task that is over and yet
in `_tasks`. `last` tells the wrapper's own cleanup from the inner one.

**`Approvals`** is the approval service with its two kinds of waiter and its
recovery: `row` and `future` of each request, what the service `tracked`, the
`asker` (permission callback), `events` (the adapter's queue) and the
`session` loop. `answering` holds resolves between commit and future,
`trusting` the ids a trust grant has yet to resolve, `leftovers` the ids
whose rows a cleanup's task has yet to reject. A session ends in two steps, as
in the code: `Leave` is the line that frees `_tasks` (`service.py:1358`), after
which the job may be resumed, and `Cleanup` is `cleanup_job` after the
postflight (`service.py:1402`), by job id; `tails` counts the cleanups between
the two, `orphaned` the requests whose session has gone. `ApprovalContract` is what it
promises: a request is answered at most once, and its asker hears that answer
or is let go. `Approvals` implements it (`ImplementsContract`).

**`Policy`** is the action policy of one job, over the starts of that job:

| TLA+ | code |
|---|---|
| `act[a]`, `asked[a]` | how far the permission callback of a tool call is: savepoint (`warned`, `gated`), monitor (`judged`), batch, decision; and the start it belongs to |
| `jobBatch[r]`, `timer`, `shown` | the registries of the batcher of start r (`_batches`, `_job_batches`, `_pending_futures`), `Batch._timer`, the last `batch_approval_requested` event |
| `future[b]`, `inBatch[a]` | `Batch._future` with its result (`ByTrust` for the answer `trust_job_policy` gives); a batch is named by the call that opened it |
| `trust` | the waived reason codes in the governance store, which survive restarts of the job |
| `job`, `round` | live, aborting until its cleanup, off; the number of starts |
| `late` | history: the calls that came to a batcher after its job's cleanup had dropped it |

`PolicyContract` says for which reasons a call may go ahead: an advisory
verdict, a waived reason, the monitor's word on an escalation, the operator's
yes, or, told apart from it, a trust grant that finds the call waiting; a
security-critical reason is never waived and never the monitor's. `Policy` implements it with `status`, `answer`, `waived` derived
from `act`, `future` and `trust`.

**`Merge`** is the resolution of jobs that share a repository. Branches are
sets of commits. `op[p]` is where a process, a resolve request or a job itself
(its agent's pull request, its session's merge after a conflict), is:
`snapshot`, then the steps under `_repo_locks` (`advancing` the ref, or
`saving` the directory, `mixing` in it, `recording` the columns, `tidying` the
worktree, `restoring` the directory), or `opening` and `noting` a pull request, then `storing` the
resolution. `state`, `resolution`, `mergeStatus`, `prUrl`, `session` are the
row; `branch`, `edits`, `trees` the job's ref and worktree; `base`, `main` the
base branch and the operator's directory (on the base branch, on another one,
or midway in a merge) with its uncommitted edits (there, stashed or lost);
`pushed`, `opened` the platform. `made`, `missed` (the sessions whose work a
failed commit left out), `disturbed`, `crashed`, `troubled` (git failed in the
main directory, or was interrupted in it) are history.

**`Stream`** is the way of an event: `pub[e]` (its change written to the row,
stored, broadcast, dead-lettered, or silent, when its publisher was canceled or
nobody publishes the change), `log` the events table in the order of ids, the
connection (`conn`, `closed`, `queue`, and the `batch` its replay has read),
and the client with its `cursor` (`lastEventIdRef`), what it has `got` and the
`view` it shows. `MAX_REPLAY_EVENTS` and the queue size are constants; the age
limit is `aged`, the ids that have left the window.

**`Sidecars`** is the dispatcher of one job and the gates. A call is one entry
into the dispatcher (event, tick, manual fire): `call[c]` holds the triggers
it is still to try, the one it executes, and, when it drains, the list it goes
over. `inFlight`, `depth`, `fired`, `queued` are the fields of `_JobState`;
`gates` is `_active_gates`, `paused` the flag of the agent's SDK session, which
ends with it (`EndTurn`). `job` goes from preflight to closed, by way of any
number of SDK sessions (`working`) and of the follow-up turns and pauses
between them (`ready`), which no pause reaches. `lapped`, `again`, `raced` note the overlaps the
properties exempt.

**`Tunnel`** is the managed connector: `proc`, `failures`, `checks`, `stop` of
`TunnelWatchdog` with `dog`, the step of its thread; `closed`, `lock` of
`TunnelHandle` with `closer[k]`, how far each of the calls of `close` is: the
`finally` of the main thread, the handlers of a second and a third signal, the
force-exit timer, atexit. `alive` and `cut` are the connector processes and
what the relay still forwards to.

**`Artifacts`** is the collection of one job over its sessions: the row
(`row`, `count`, `status`, `collected`), the session `log`, and the two
callers of `finalize`, the cleanup and the recovery (`at`, with the session
each claimed, `took`, and the one it reads the transcript for, `label`).

`MCApprovals`, `MCPolicy`, `MCMerge`, `MCStream` and `MCSidecars` give these
modules their instances. The modules named `...Proofs` hold the theorems.

Operators named in a comment that begins with "Mutant:" are deliberate faults:
each replaces one definition, and the property it is paired with in
`PROJECT.json` must then fail. No specification uses them.

## Abstractions and bounds

Kept: every state change, guard, early return and error path between the
awaits of the operations modelled. Left out, by name:

- Data: prompts, diffs, titles, costs. Names of jobs are their order of
  creation, because `_dequeue_next` takes the newest queued job.
- `Runtime`: `_pending_starts` is a set: any pending start may be the next
  one. `POST /cancel` is one step: the commit of the row and `runtime.cancel`
  follow each other in the request with only event publication in between. The
  callers' way to the lock (sidecar activation) has no bound; runs without
  `lateArrival` in `Env` take it to be shorter than a session of the same job.
  Plan mode, the resume fallback and externally run sessions are left out; a
  stalled agent is one whose session fails. `Restart` reads the rows and fails
  those with a lost worktree in one step, although the API may create or cancel
  between the two (`service.py:2627-2688`). `StartRaises` is the restore, the
  release of the lock and the caller's rollback in one step
  (`service.py:779-783`, `resume.py:188-196`, `402-418`).
- `Approvals`: no answer falls between the commit of a request and its
  registration; a cleanup finds saved requests of the session it ends
  registered, as artifacts come first; one trust call per job at a time. The
  wrapper's second cleanup (`service.py:816-820`) is in `Runtime` only.
- `Policy`: the rules are a map from calls to reasons and from reasons to
  verdicts; the preset does not change while a job runs; waivers do not
  expire; the cost ceiling is left out. `approved_ids` of a partial approval
  is not a variable, as `router.py:148` never looks at it.
- `Merge`: managed jobs, the default settings (worktree removed, branch
  deleted, push). Git's merge applies, conflicts or fails; the abort of a
  failed merge may fail, and so may every commit, stash, checkout and stash pop.
  The git commands between two of the steps above (checkout, merge, abort and
  the probe for conflicts are `Mix`) are one step when nothing goes wrong; an
  interruption finds any of them done or not (`CutShort`), but a git process
  that outlives its caller is taken to be over when the cancel is handled (a
  checkout it makes fail then is one that is "not restored"). The
  platform refuses a second pull request of a branch. Database errors of
  `_update_merge_status`, the confidence gate and the agent-driven merge are
  left out, `try_merge_back` has no caller.
- `Stream`: the dashboard's connection; frames without a replayable id
  (streamed text, system messages) are left out. `WriteRow` numbers the events
  of a job in the order its row is written; from there they are stored and
  broadcast in any order. A page load and the connection behind it are one
  step. The client applies a frame when it comes; `useSSE.ts:176-216` puts it
  off by a turn and may fetch the job first. Snapshots show every job; the code
  leaves archived ones out (`sse_manager.py:308`).
- `Sidecars`: one activation of one managed job; language model calls end with
  or without output; timers may tick at any time; the queue is as long as
  there are triggers. Each SDK session has an id of its own
  (`claude_adapter/_adapter.py:533`), so its pause ends with it; a Copilot
  session that is resumed under its old id, and a flag put on an id that is over
  already, are left out.
- `Tunnel`: the managed connector; a process that is killed is gone
  (`_terminate_and_reap` may give up with a warning, `tunnel_service.py:239-243`);
  a wait may end at any moment, and the polling of `_wait_for_recovery` is one
  step.
- `Artifacts`: one job, as jobs share nothing and the lock is per job. The
  reads behind one transcript are one step. A cancel comes from `review`
  only; restored resumes and imported sessions are left out. Writing the result
  does not fail (a `_finish` that raises, `finalization_service.py:65-70`, would
  leave the row collecting for the recovery).

Bounds. `Runtime`: `MaxSessions` two (a job and its resumption), `MaxRestarts`
one (a second restart starts from rows the first one can leave too), `Slots`
three (the running coroutine, the tail of its predecessor and one more), two
jobs (one more than capacity; three where queued jobs compete), one request
next to set-up, cleanup and recovery. `CancelWhen` and `ResumeWhen` list the
situations of a job (`Situations`) in which the operator cancels or resumes
it. `Approvals`: one job with two requests, as jobs share nothing but the
service's maps, which are searched by job; one cleanup may be under way when
the next session starts (`MaxTails`), so up to two overlap. `Policy`: three
calls, so that one joins while another is looked at, and a critical and a
routine one share a batch; `MaxRounds` two. `Merge`: two jobs for one base
branch, two requests, so that resolutions overlap across and within jobs;
everything is asked for the first job, which may be resumed once
(`MaxSessions`), and only a merge for the second, whose part is to move the
base branch (`Choices`); `MaxFaults` one error, crash or overlap: a cancel of a
session that merges is one, so that it is interrupted at every step under the
lock. `Stream`: four events of two jobs, three of them changes of one row,
against a replay of two and a queue of three, so that replay and queue both
overflow; two faults. `Sidecars`: two sidecars with two triggers each, one of
every concurrency and condition, three calls. `Tunnel`: three connectors
(numbers are used again), two checks per relay probe, two attempts, two changes
of the world, two signals.
`Artifacts`: three sessions and two restarts. `Env` turns faults and
operations on everywhere.

Why the operator of `Runtime` is narrowed. The code does not keep its promises
for an operator who resumes a job before its last session has been cleaned up,
or cancels one that waits in memory (see below). The passing runs check the
same properties in every *other* situation, and `runtime_any_order`, which
narrows nothing, checks the properties that survive all of them. In `Merge`
the jobs that something overlapped are told apart by `disturbed`: for them the
properties about the row are not claimed; `missed` is the work that git has
refused to commit, `troubled` says that the main directory was left as git left
it. In `Stream`, `overtaken` marks the runs in
which live frames came before a replay, `cut` those in which a snapshot was
followed by a replay that had to leave events out, and `blind` is the last
event stored before a connection without a cursor; `InWrittenOrder` says that no
publisher of a job's state outran another one. `Policy` has `late`, `Sidecars`
`lapped`, `Artifacts` `tangled`. What happens in the excluded cases is in the
table below.
`CHECK_DEADLOCK FALSE` everywhere: the systems are at rest once all work is
done and the bounds are used up.

## Runs

| Run | Question | Size |
|---|---|---|
| `runtime_operator` | An operator cancels, messages, resolves and resumes while two jobs share one place, with approvals and session errors: are rows owned, agents within capacity, transitions by the table? | 13 thousand states |
| `runtime_restart` | A shutdown or crash anywhere, lost worktrees, conflict merges: do set-up, recovery and dequeuing keep capacity together, is a shutdown never a cancel, does every job settle and every place come back? | 20 thousand, with liveness |
| `runtime_any_order` | Every interleaving of cancel, resume, message, rerun and failing starts for two places: does `_tasks` name the right coroutine, and is none replaced? | 1.4 million |
| `approvals` | Answers, trust, cancel, cleanups that overlap the next session of the job, restart: is the contract implemented, does a paused session go on only for an approval on record, and is every callback and every session loop woken? | 353 thousand, with liveness |
| `policy` | Calls that share batches while the operator answers, trusts, and the job is aborted and started again: does the gate keep its contract, are critical calls held, can everybody whom a batcher still knows be answered, and is every call decided that came in time? | 66 thousand, with liveness |
| `merge` | Two jobs, two requests, resumes, cancels that interrupt git, archiving, git errors and a crash: is nothing dropped from the base branch, no committed work lost, no row ahead of git, and the operator's directory brought back unless git failed or was interrupted in it? | 990 thousand |
| `stream` | Overflowing queues, broken connections, late and lost writes, publishers that outrun each other or are canceled: does the cursor never pass what the client is owed, is its view the rows', and does every broadcast state event arrive? | 1.4 million, with liveness |
| `sidecars` | Three entries into the dispatcher with an operator and the stall detector beside: one pipeline per sidecar, queued work done once, no pause without a reason, no gate lifted by another sidecar? | 188 thousand |
| `tunnel` | Restarts against five ways to close: one connector, none left, a dropped one replaced, a process that ends? | 71 thousand, with liveness |
| `artifacts` | Three sessions, two crashes, cancels and resumes: is what is reported in the log, and is every session that ends collected? | 38 thousand, with liveness |

Two runs that TLC must refute, each a statement of the documentation:

| Run | What the code does instead |
|---|---|
| `runtime_starvation` | a start that ends after preflight dequeues nothing; jobs behind it stay queued with capacity free |
| `stream_missed` | a connection is registered before its replay is read: a live frame takes the cursor past the missed events, and when the connection breaks again they are never sent |

### What the code does otherwise

Further places where the code does not do what a line of the repository says.
Each was found with these modules; a configuration with the constants given
reproduces it, with `Env` empty and no cancel or resume where the row does not
give them, two sessions, no restart, and the rest as in the run of the module
(`runtime_operator` for `Runtime`).

| Property | Constants | What happens | Against |
|---|---|---|---|
| `Runtime!AgentsWithinCapacity` | `ResumeWhen = {"tail"}` | the wrapper's second cleanup (`service.py:816`) takes a resumed session out of `_tasks` while its agent works | `SPEC.md:1085` |
| `Runtime!RevivalIsAReset`, `Runtime!AgentsWithinCapacity` | `Env` of the run and `"crash"`, one restart | `recover_on_startup` requeues from the list it read at its start: a job that a dequeuing session has started, and finished, since then is claimed again as the same session (`service.py:2703-2704`) | `SPEC.md:1930`, `SPEC.md:1085` |
| `Runtime!RevivalIsAReset` | `CancelWhen = {"pending"}` | a pending start survives the cancel of its job and runs it later (`job_repo.py:433`) | `SPEC.md:1930` |
| `Runtime!RunningHasOwner` | `ResumeWhen = {"task"}` | a resume before the last task has left `_tasks` leaves a running row without a session (`service.py:682`) | `service.py:1408-1410` |
| `Runtime!EveryJobSettles` | `"rerun"` in `Env`, `FairSpec` | reruns and follow-ups stay in `preparing` until a restart (`resume.py:543`) | `resume.py:489` |
| `Runtime!TasksAreReturned` | `CancelWhen = {"created"}`, `FairSpec` | a task canceled before its first step never cleans up and keeps its place (`service.py:784`) | `service.py:802-803` |
| `Approvals!ApprovedJobsGoOn` | (as said) | a request approved before the session loop waits for it fails the job (`approval_service.py:137`) | `SPEC.md:1923` |
| `Approvals!TrustSparesExplicit` | `Env = {"trust", "crash"}`, one restart | after a restart a trust grant answers explicit requests (`approval_service.py:228`) | `approval_service.py:64-65` |
| `Policy!WaitingCanBeAnswered` and `Policy!AsksAreDecided` without `late` | `Env = {"abort"}` | a call on its way from a savepoint or from the monitor when its session is cleaned up opens a batch in the batcher that was dropped, and waits for an answer nobody can give (`batcher.py:81-112`) | |
| `Policy!TrustSparesCritical` | `Env = {"trust"}` | trusting a session answers its pending batch with yes, its security-critical calls included (`service.py:2284-2288`) | the comment at `service.py:2279-2281` |
| `Approvals!OnlyTheEndLetsGo` | (as said), `Spec` | `cleanup_job` runs after `_tasks` was freed, and by job id: it cancels the futures that the resumed session of the job waits for, which then ends as canceled (`service.py:1358`, `1402`, `approval_service.py:164-176`) | `SPEC.md:1923` |
| `Merge!OperatorEditsSurvive` | `Home = "base"`; or `Env = {"gitError", "resume"}` | with the base branch checked out, by the operator or because an earlier merge failed to bring the directory back, a merge resets it first (`_service.py:170-171`) | `docs/architecture.md:81` |
| `Merge!NothingMissed` | `Env = {"gitError", "resume"}`; or `Env = {"gitError"}`, `MaxFaults = 2` | a commit that fails (a hook, a lock of the index) is logged and survived (`_service.py:663-671`, `752-760`, `tracker.py:303-313`); the merge goes on with what was committed, or a pull request is opened without committing at all, and the worktree with the rest is removed with `--force` (`_service.py:441-443`, `git_service.py:478-488`) | the comments at `_service.py:661` and `750` |
| `Merge!MainIsBack` without `~troubled` | `Env = {"gitError"}`; or `Env = {"resume", "cancel", "overlap"}` | a checkout or stash pop that fails on the way out is survived (`_service.py:203-211`), and a cancel is not a `GitError` (239): a merge it interrupts is not aborted, and what was stashed may stay in the stash | the docstring at `_service.py:185` |
| `Stream!ViewIsCurrent` without `~cut` | as in `stream` | a gap that is too large is answered with a snapshot and then the *oldest* events of the gap: the client's view goes back to them, and its cursor is before the ones that were left out (`sse_manager.py:293`) | `sse_manager.py:279-280` |
| `Stream!ViewIsCurrent` without `InWrittenOrder` | as in `stream`, `Env = {}` | a session commits `review` and publishes it some awaits later (`service.py:1072-1080`, `1132`); a cancel, resolve or archive request may write the row and publish in between: the client is left with the older state | |
| `Stream!ViewIsCurrent` for a silent last change, `Stream!NoSilentGap` with `InTime` dropped | as in `stream`, `Env = {"cancel"}` | a publisher canceled between the table and the broadcast (`service.py:2137`), and a cancel of a job that has no task, which publishes nothing (`job_service.py:575-589`, `api/jobs.py:311-327`): a client that stays connected never hears of the change, and its cursor passes a stored one with the next event | |
| `Stream!ViewIsCurrent` without `blind` | as in `stream`, `Env = {}` | a client that loaded its page and lost the connection before any identifier came reconnects without one, gets no replay, and never hears what happened in between (`events.py:38-50`) | `sse_manager.py:116-117` |
| `Sidecars!GatesStand` | `Env = {"stall"}` | a session that does nothing because a gate pauses it is taken for a stalled one; the detector's message lifts the pause while the gate stands (`service.py:1924-1964`, `2098-2126`, `2185`) | `internal-docs/design/sidecar-session-spec.md:261` |
| `Sidecars!GateBlocksAgent` | one call (`Calls = {c1}`) | a gate raised before the agent has a session pauses nothing (`service.py:2371-2375`) | `internal-docs/design/sidecar-session-spec.md:261` |
| `Tunnel!SignalExits` | `MaxSignals = 3`, `FairSpec` | a third signal enters `close` on the main thread, which holds the lock in the second one's handler: both, and the timer, wait for ever | `tunnel_service.py:331` |
| `Tunnel!ClosedIsReaped` without its last conjunct | `Env = {"interrupt"}` | Ctrl-C during the final close leaves the handle closed and the connector running | `docs/reference/cli.md:56` |
| `Artifacts!CompletedIsWhole` | `Env = {"crash"}`, two sessions, one restart | the collector reads the row again after its claim; after a resume it logs an early transcript under the next session's number, whose own collection then finds it captured (`summarization_service.py:218`) | `finalization_service.py:27` |
| `Artifacts!EndedIsCollected` without `tangled` | `Env = {"cancel"}`, `FairSpec` | a cancel from review that interrupts a collection leaves it `collecting`; later calls are refused until a restart | `finalization_service.py:27` |

Seen while modelling and not stated as a property: an action that joins a
batch the operator is looking at is decided with it, unseen (`batcher.py:97`);
a partial approval lets every action of the batch proceed (`router.py:148`); a
crash between the ref and the columns leaves a merged job in review; a crash
before the last commit of a session, a pull request (which removes the worktree
with what is not committed), a second crash before its row is written and then
a merge record "merged" for a session whose work is in no branch (`MaxFaults` two);
a cancel
during a merge leaves a canceled row whose work is merged; a resume clears
`pr_url`; after a pull request of the agent, later work is not pushed; a drain
that replaces the sidecar queue under another one loses items or runs them
twice (`dispatcher.py:952`); an approval by one sidecar lifts the operator's
pause (`service.py:2344`), and a message lifts the pause but keeps the gates;
follow-up turns (verification, self-review, `verify.py:44-58`) and the session
that replaces another one (`service.py:2849`, `2982`) run without the pause of a
gate that still stands.

## Fairness

`Runtime`: `SystemFairness` is weak fairness of each coroutine that can go on:
the event loop is a fair queue, and git, SQLite and sidecars answer. The lock
is taken first come, first served and starts are bounded, so waiters get it. A
backend that shuts down is started again. `AgentFairness` says that an agent
ends its turn however often it asks first (strong fairness of `Complete` or
`FailSession`; `_heartbeat_loop` interrupts one that hangs) and that pending
approvals are answered. Nothing is assumed of cancels, resumes, errors or
crashes. `Approvals`: the service, the callbacks and the session loops that hear
an answer or end are fair, not the operator and not the agent. `Policy`: the callbacks, with the monitor, and the cleanup of an
aborted job go on, and the operator answers each open batch. `Stream`: somebody who has
the write lock stores and broadcasts, dead letters are retried, and the replay and
the client that receives and reconnects go on; nothing is assumed of a single
publisher, and connections break a bounded number of times. `Tunnel`: the
watchdog, the timer and every call of `close` that is not waiting; *not* that
the server returns and not that a signal comes. `Artifacts`: the collectors
and the recovery; a session need not end. `Merge` and `Sidecars` state no
liveness.

## Proofs

The theorems hold for arbitrary finite sets of jobs, calls, requests, events
and sidecars, any capacity, sessions, restarts and attempts, under the named
assumptions on the constants, which TLC evaluates in every run. They hold for
any choice of `Env`, `CancelWhen` and `ResumeWhen` too, unless a theorem of
`RuntimeProofs` names a condition on them; those conditions are what its `ASSUME`
says, and each excludes something the code does not cope with.

### Runtime

`RuntimeInv` is inductive whatever happens:

- `TypeOK`, and `StarterNames`: who holds the lock is of the kind it says;
- `StartHasRoom`: while a start is under way there is room in `_tasks` and its
  job is not there. It is what carries the test under the lock over the claim
  and the preflight to the launch; nobody else adds to `_tasks` meanwhile;
- `DequeuerStarts`: a start from a cleanup belongs to a coroutine that is in
  `starting`, so the launch does not touch a registered one;
- `CapacityRespected` and `RegistryNamesItsJob` themselves.

From it follow `TypeCorrect`, `CapacityHolds`, `RegistryHolds` and, as an
action property, `NoTaskReplaced`.

`TableFollowed` adds `PreparingIsSetup` (a row in `preparing` belongs to its
set-up) and gives `TransitionsFollowTable` under `TableKept`: nobody cancels a
job during its set-up (`create_worktree` makes it queued again) and no start
raises (which puts an old state back). TLC refutes it with either.

The other results rest on `FirstLife`, which is inductive until the first
restart under `PatientOperator`: a job is resumed only when nothing is under
way for it (`ResumeWhen` empty), and callers reach the lock before a session of
their job is over (no `lateArrival`). It says that a job has one coroutine,
which is in `_tasks` until it drops the job (`OneCoroutine`); that whoever holds
the lock, calls, waits in `_pending_starts` or sets a job up is alone with it
(`HolderAlone`, `CallersAlone`, `PendingAlone`, `SetupFirst`), but that set-up
and a dequeuing session may both come to start a queued job; and that lock and
caller agree (`LockAgrees`). `AloneUntilRestart` states it. From it:

| Theorem | Adds | Beyond `PatientOperator` | TLC refutes the property |
|---|---|---|---|
| `AgentsAreWithinCapacity` | an injection of agents at work into `_tasks` | nothing | with `lateArrival`; with `ResumeWhen` any of preflight, created, task, tail |
| `WaitingIsAttended` | `NoWaitingSnapshot`: no failed start puts `waiting_for_approval` back | nothing | with failing starts, late arrivals and all resumes together |
| `RunningIsOwned` | `WorkedOn`: who has a job whose row is running | starts do not raise | with failing starts; with `ResumeWhen` preflight, created or task |
| `ConcludedIsReset` | who is about to claim a row knows it unfinished or canceled, and a reset counts from the row it read (`RevivalInv`) | nothing, while the backend is not stopping; of the finished states it leaves `canceled` out | for `canceled`, that is `RevivalIsAReset`, with a cancel of a pending start |
| `ShutdownKeepsJobs` | `CancelIsWritten`: a session handles a cancel of its own life only when the row says so | starts do not raise; at most one restart with `startError` and a request (the row that is put back is a canceled one); with a second restart (through the stale list of `recover_on_startup`); with `lateArrival` and resumes |

The first three say "until the first restart" because recovery works from
lists that may be stale (see the table above); `ShutdownKeepsJobs` covers the
shutdown itself and the life after it, in which there can be no second one.

### Approvals and policy

`ApprovalProofs` proves `ApprovalInv`: types; a future that is done says what
the row says (`FuturesFollowRows`); an answer on its way was committed; askers
have rows; sessions are on requests that exist. It gives
`PausedSessionsGoOnApproved` and `ServiceKeepsContract` (every step is a step
or a stutter of `ApprovalContract`), for any number of sessions of a job that
overlap the cleanups of earlier ones. `TrustSparesExplicitInOneLife` proves that without a
restart trust spares explicit requests.

`PolicyProofs` proves `IInv`: types; `Routing`, that what the monitor judges
and what is waived is never critical; `Batching`, that the batch a batcher knows
was opened in its round and has no answer yet, that an open batch is known, and
that its members wait for it; and the two properties `CriticalIsHeld` and
`WaitingCanBeAnswered`, which are inductive together with them. From it follow
`CriticalHeld`, `WaitersAnswerable`,
`JoinsUnanswered` (a batch that can be joined is one the batcher knows) and
`PolicyImplements`: every step is a step or a stutter of `PolicyContract`.

### Merge

`MergeProofs` works in five layers. `TypeInv` is the types, with what a
process that is at work refers to. `LockInv` says that whoever is at a step
under the lock holds it and the other way round, and that a merge that is about
to advance the ref has seen all of the base branch (`Advancing`; it is why the
ref update drops nothing). It gives `LockHolds` and `BaseGrows`. `DirInv` says,
as long as git has not failed in the main directory and has not been
interrupted in it, where the directory is at every step and that what brings it
back (`from`, `stashed`) is remembered (`Away`); it gives `MainReturns`, over
every interruption outside of git's own commands. `AloneInv` says that a job
nobody disturbed has
at most one process on it, and that the row fits where that process is; it
gives `CompletedResolved`. `WorkInv` is an account of the work of every
session that git has not refused to commit (`Owed`, that is `made` without
`missed`): for each step of a resolution, what is still in the worktree, what is
committed (`Clean`), what has been pushed and what the base branch has
(`PushedFirst`, `Kept`, `Committed`, `Merging`, `Told`), so that the step which
deletes a worktree or a branch is never at the last copy. It gives `WorkKept`
and `MergedInBase`. The latter allows for work a crash has lost before the
merge: without that disjunct TLC refutes it with two crashes. Without `missed`
TLC refutes both.

### Stream

`StreamProofs` proves five invariants, each upon those before it. `TypeInv`
ties the events table to how far each event has come (`LogInv`: the stored and
not yet broadcast event is the last), and frames and batch to the table.
`QueueInv` is the order of identified frames, behind a snapshot no older than
the cursor. `GapInv` says where an event is that the client still lacks:
after its cursor, in the queue, in what the replay has read, or not yet
broadcast. `WriterInv` says that the changes of a job are written in order and that
its row is the last one written; `ViewInv`, for a job whose changes are in the table in their
order, says who knows of the last change: the view, a frame
in the queue, the snapshot's rows, or nobody who has been told. They give
`StreamTypes`, `InOrderFrames`, `NoGap` and `CurrentView`.

### Sidecars, tunnel, artifacts

`SidecarProofs` proves `GateInv` (`GatesDoNotInterfere`, `PausesHaveReasons`):
tools are paused only while the agent works, by a gate that is recorded or by
the operator, and a gate whose pause stands is recorded. `Slots` says that a sidecar without a parallel trigger is in flight
exactly while one call executes it (`OneRunAtATime`). `QueueInv` follows what
was accepted: it is in the queue or has run, what a drain has passed has run,
and no trigger a call may still bring is queued (`Fresh`); it gives
`QueuedOnce` and `QueueIsFlushed`. `SidecarTypes` is the type invariant; that a
set of triggers can be put in an order at all is proved by a minimal
counterexample, which stands in for an induction on its size.

`TunnelProofs` proves `TunnelInv`: whatever runs is the connector
the watchdog's step says (the one just spawned, none, or the published one),
and a handle that is closed has stopped the watchdog; it gives
`OneConnectorHolds` and `CloseReaps`. `ArtifactProofs` proves `LogInv`: a
collector's session numbers are in the order it read them in, and what it is
about to report, or has reported, is in the log (`ReportsAreBacked`). The
invariant has to relate `took`, `label` and `count`, because the session a
collector claims and the one it logs may differ.

### Only model-checked

Liveness under fairness, which the prover does not reach (`EveryJobSettles`,
`TasksAreReturned`, `CallbacksAreWoken`, `SessionsAreWoken`, `AsksAreDecided`, `EventsArrive`,
`DroppedIsReplaced`, `SignalExits`, `EndedIsCollected`); the runtime's
properties after a restart, and for the operators the conditions above exclude
but whom `runtime_operator` and `runtime_any_order` let act.

## Not modelled

- Plan mode: a planning session and an implementation inside one `_run_job`.
  `Runtime` has the failure of a plan that awaited approval at a restart.
- Stall detection (but for its message to the agent, in `Sidecars`), resume
  fallback and externally run sessions: they add sources of the events the
  modules already take as given.
- Trail, steps, story, projection of events, telemetry, analytics: they turn
  events into rows and text for display and decide nothing.
- Completers, chat, coderecon, the SDK adapters: calls of language models,
  indexers and vendor streams, which are environment here.
- Projects, recipes, trackers, settings, credentials, share links, terminals,
  the remaining routes, commands and tools, and the pages of the frontend:
  create, read, update and delete of rows, formatting, process plumbing. They
  make up most of the repository's lines; each is sequential, and a unit test
  reaches what could be wrong.

## Plan

1. `PlanMode`: planning session, gate, implementation inside one `_run_job`,
   with cancel and restart; then plan approval as part of `Runtime`.
2. The composition of `Runtime` and `Artifacts`: the refused start of a resume
   during cleanup is taken as given in `Artifacts` and shown in `Runtime`.
3. `Stream` for connections scoped to a job, and ingestion of external
   sessions behind it.
4. Proofs: the runtime's invariants over restarts, that is, `FirstLife`
   with the lists of `recover_on_startup` in the place of `NothingRecovered`,
   for the properties that survive the stale list named above.
