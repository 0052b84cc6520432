--------------------------------- MODULE Merge ---------------------------------
(***************************************************************************)
(* How the work of jobs that share a repository reaches its base branch:   *)
(* MergeService (backend/services/merge_service/_service.py), the resolve  *)
(* protocol of JobService around it, the merge a session runs after its    *)
(* agent has reworked a conflict, the pull request an agent asks for while *)
(* it runs, and what cancels, resumes, archives and crashes do to a        *)
(* resolution that is under way.                                           *)
(*                                                                         *)
(* The content of a branch is a set of commits.  The merge columns of the  *)
(* row, the worktree, the refs and the platform are all written by         *)
(* separate steps of a resolution, with an await between any two.          *)
(***************************************************************************)
EXTENDS Naturals, JobStates

CONSTANTS
    Jobs,           \* managed jobs of one repository
    Requests,       \* POST /jobs/{id}/resolve requests
    NoJob,          \* the job of a request that is over
    NoOne,          \* the holder of a lock that is free
    Home,           \* the branch the operator has checked out
    Env,            \* what happens besides work and resolutions
    Choices,        \* bound: what may be asked for each job
    MaxSessions,    \* bound: sessions of each job
    MaxFaults       \* bound: git errors, crashes and overlaps

ASSUME NoJobAssumption == NoJob \notin Jobs
ASSUME ProcessAssumption ==
    /\ Requests \cap Jobs = {}
    /\ NoOne \notin Requests \cup Jobs
ASSUME BoundAssumption ==
    MaxSessions \in [Jobs -> Nat] /\ MaxFaults \in Nat
ASSUME HomeAssumption == Home \in {"base", "other"}
ASSUME EnvAssumption ==
    Env \subseteq {"resume", "cancel", "archive", "overlap", "gitError",
                   "crash"}

\* A job resolves its own work too: its agent asks for a pull request, its
\* session merges after a conflict.
Processes == Requests \cup Jobs

\* A commit of one session of a job, or the copy a cherry-pick makes of it.
Commit == [job : Jobs, session : Nat, picked : BOOLEAN]

VARIABLES
    state,          \* the row of each job: its state,
    resolution,     \* resolution,
    mergeStatus,    \* merge_status,
    prUrl,          \* whether pr_url is set,
    session,        \* and session_count
    rework,         \* post_conflict_merge_requested of the session
    base,           \* the commits of the base branch
    branch,         \* the commits of each job's branch,
    branches,       \* and the jobs whose branch exists
    edits,          \* what is not committed in each job's worktree,
    trees,          \* and the jobs whose worktree exists
    pushed,         \* the commits of each job's branch at origin,
    opened,         \* and the jobs with an open pull request
    main,           \* the main working directory, "midway" in a merge on base
    lock,           \* the repository's entry of _repo_locks
    op,             \* where each process is in a resolution
    resuming,       \* jobs between the two halves of resume_job
    made,           \* the sessions whose work nobody has thrown away (history)
    missed,         \* those that a failed commit has left out (history)
    disturbed,      \* jobs with a resolution that something overlapped (history)
    crashed,        \* the process has died (history)
    troubled,       \* git failed, or was interrupted, in main (history)
    faults          \* what has gone wrong so far

row == <<state, resolution, mergeStatus, prUrl, session, rework>>
local == <<branch, branches, edits, trees>>
platform == <<pushed, opened>>
achieved == <<made, missed>>
history == <<achieved, disturbed, crashed, troubled, faults>>
vars == <<row, base, local, platform, main, lock, op, resuming, history>>

FinalResolutions == {"merged", "pr_created", "discarded"}
Resolution == FinalResolutions \cup {"none", "unresolved", "conflict"}
MergeStatus == {"none", "not_merged", "conflict", "merged", "pr_created"}
Actions == {"merge", "smart_merge", "create_pr", "discard"}

ASSUME ChoicesAssumption ==
    Choices \in [Jobs -> SUBSET (Actions \cup {"agent_pr"})]

\* The steps taken while the lock is held.
Locked == {"advancing", "saving", "mixing", "recording", "tidying", "restoring"}

\* ff: by a fast-forward; from and stashed are what _preserved_worktree keeps.
Idle == [pc |-> "idle", job |-> NoJob, action |-> "none", sha |-> {},
         outcome |-> "none", ff |-> FALSE, from |-> "none", stashed |-> FALSE]

Begin(j, action) == [Idle EXCEPT !.pc = "snapshot", !.job = j, !.action = action]

OpType == [pc : Locked \cup {"idle", "snapshot", "closing", "locking",
                             "opening", "noting", "storing"},
           job : Jobs \cup {NoJob},
           action : Actions \cup {"none", "agent_pr"},
           sha : SUBSET Commit,
           outcome : Resolution,
           ff : BOOLEAN,
           from : {"base", "other", "none"},
           stashed : BOOLEAN]

Directory == [at : {"base", "other", "midway"},
              edits : {"there", "stashed", "lost"}]

TypeOK ==
    /\ state \in [Jobs -> JobState]
    /\ resolution \in [Jobs -> Resolution]
    /\ mergeStatus \in [Jobs -> MergeStatus]
    /\ prUrl \in [Jobs -> BOOLEAN]
    /\ session \in [Jobs -> Nat]
    /\ rework \in [Jobs -> BOOLEAN]
    /\ base \subseteq Commit
    /\ branch \in [Jobs -> SUBSET Commit]
    /\ branches \subseteq Jobs
    /\ edits \in [Jobs -> SUBSET Commit]
    /\ trees \subseteq Jobs
    /\ pushed \in [Jobs -> SUBSET Commit]
    /\ opened \subseteq Jobs
    /\ main \in Directory
    /\ lock \in Processes \cup {NoOne}
    /\ op \in [Processes -> OpType]
    /\ resuming \subseteq Jobs
    /\ made \in [Jobs -> SUBSET Nat]
    /\ missed \in [Jobs -> SUBSET Nat]
    /\ disturbed \subseteq Jobs
    /\ crashed \in BOOLEAN
    /\ troubled \in BOOLEAN
    /\ faults \in Nat

\* The operator has changes in the main directory that are not committed.
Init ==
    /\ state = [j \in Jobs |-> "running"]
    /\ resolution = [j \in Jobs |-> "none"]
    /\ mergeStatus = [j \in Jobs |-> "none"]
    /\ prUrl = [j \in Jobs |-> FALSE]
    /\ session = [j \in Jobs |-> 1]
    /\ rework = [j \in Jobs |-> FALSE]
    /\ base = {}
    /\ branch = [j \in Jobs |-> {}]
    /\ branches = Jobs
    /\ edits = [j \in Jobs |-> {}]
    /\ trees = Jobs
    /\ pushed = [j \in Jobs |-> {}]
    /\ opened = {}
    /\ main = [at |-> Home, edits |-> "there"]
    /\ lock = NoOne
    /\ op = [p \in Processes |-> Idle]
    /\ resuming = {}
    /\ made = [j \in Jobs |-> {}]
    /\ missed = [j \in Jobs |-> {}]
    /\ disturbed = {}
    /\ crashed = FALSE
    /\ troubled = FALSE
    /\ faults = 0
-----------------------------------------------------------------------------
(* What overlaps.                                                          *)

Put(p, o) == op' = [op EXCEPT ![p] = o]

Move(p, pc) == Put(p, [op[p] EXCEPT !.pc = pc])

MoveWith(p, pc, outcome) ==
    Put(p, [op[p] EXCEPT !.pc = pc, !.outcome = outcome])

End(p) == Put(p, Idle)

\* What a session that has left its work behind has to close.
Closing(j) == [Begin(j, "none") EXCEPT !.pc = "closing"]

\* A resolution of the job, or a resume of it, is under way.
Busy(j) == j \in resuming \/ \E p \in Processes : op[p].job = j

Fault(kind) ==
    /\ kind \in Env
    /\ faults < MaxFaults
    /\ faults' = faults + 1

\* What the operator does to a job that is busy disturbs its resolution.
Overlaps(j) ==
    /\ IF Busy(j)
       THEN Fault("overlap") /\ disturbed' = disturbed \cup {j}
       ELSE UNCHANGED <<faults, disturbed>>
    /\ UNCHANGED crashed

-----------------------------------------------------------------------------
(* A session.                                                              *)

\* What a session leaves behind.
Work(j, n) == [job |-> j, session |-> n, picked |-> FALSE]

\* The agent edits files.  One that reworks a conflict is told to merge the base
\* branch, and may not.
AgentWorks(j) ==
    LET work == Work(j, session[j])
    IN  /\ state[j] = "running"
        /\ j \in trees \cap branches
        /\ session[j] \notin made[j]
        /\ \E merged \in {{}} \cup (IF rework[j] THEN {base} ELSE {}) :
              edits' = [edits EXCEPT ![j] = @ \cup {work} \cup merged]
        /\ made' = [made EXCEPT ![j] = @ \cup {session[j]}]
        /\ UNCHANGED <<row, base, branch, branches, trees, platform, main,
                       lock, op, resuming, missed, disturbed, crashed,
                       troubled, faults>>

\* codeplane_pr, which goes through the MCP server: a pull request that the
\* row knows is the answer, any other is asked of the platform.
AgentAsksForPr(j) ==
    /\ "agent_pr" \in Choices[j]
    /\ state[j] = "running"
    /\ op[j] = Idle
    /\ ~prUrl[j]
    /\ Put(j, [Begin(j, "agent_pr") EXCEPT !.pc = "opening"])
    /\ UNCHANGED <<row, base, local, platform, main, lock, resuming, history>>

\* _handle_successful_completion: the row goes to review before anything else.
\* After a conflict that the agent has reworked the session merges itself.
FinishSession(j) ==
    /\ state[j] = "running"
    /\ op[j] = Idle
    /\ session[j] \in made[j]
    /\ state' = [state EXCEPT ![j] = "review"]
    /\ resolution' = [resolution EXCEPT ![j] = IF rework[j] THEN @ ELSE "unresolved"]
    /\ Put(j, IF rework[j] THEN Begin(j, "merge") ELSE Closing(j))
    /\ UNCHANGED <<mergeStatus, prUrl, session, rework, base, local, platform,
                   main, lock, resuming, history>>

\* The sessions that a worktree holds work of.
Uncommitted(j) == {c.session : c \in {d \in edits[j] : d.job = j}}

\* What auto_commit moves from a worktree to its branch.  Its failure is logged
\* and survived: the work stays in the worktree, and may go with it.
Commits(j) ==
    /\ IF j \in trees \cap branches
       THEN \/ /\ branch' = [branch EXCEPT ![j] = @ \cup edits[j]]
               /\ edits' = [edits EXCEPT ![j] = {}]
               /\ UNCHANGED <<missed, faults>>
            \/ /\ Uncommitted(j) # {}
               /\ Fault("gitError")
               /\ missed' = [missed EXCEPT ![j] = @ \cup Uncommitted(j)]
               /\ UNCHANGED <<branch, edits>>
       ELSE UNCHANGED <<branch, edits, missed, faults>>
    /\ UNCHANGED <<made, disturbed, crashed, troubled>>

\* on_job_terminal of the step tracker commits what the last step has left.
CloseLastStep(j) ==
    /\ op[j].pc = "closing"
    /\ Commits(j)
    /\ End(j)
    /\ UNCHANGED <<row, base, branches, trees, platform, main, lock, resuming>>

-----------------------------------------------------------------------------
(* Resolving.                                                              *)

\* validate_for_resolution, and resolve_job up to its diff snapshot.
Resolve(r, j, action) ==
    /\ op[r] = Idle
    /\ state[j] = "review"
    /\ resolution[j] \notin FinalResolutions
    /\ action \in Choices[j]
    /\ Overlaps(j)
    /\ Put(r, Begin(j, action))
    /\ UNCHANGED <<row, base, local, platform, main, lock, resuming, achieved,
                   troubled>>

Gone(j) ==
    /\ trees' = trees \ {j}
    /\ branches' = branches \ {j}
    /\ branch' = [branch EXCEPT ![j] = {}]
    /\ edits' = [edits EXCEPT ![j] = {}]

\* _discard.
Discard(p) ==
    LET j == op[p].job
    IN  /\ op[p].pc = "snapshot"
        /\ op[p].action = "discard"
        /\ Gone(j)
        /\ made' = [made EXCEPT ![j] = {}]
        /\ MoveWith(p, "storing", "discarded")
        /\ UNCHANGED <<row, base, platform, main, lock, resuming, missed,
                       disturbed, crashed, troubled, faults>>

\* Mutant: the branch goes with the worktree.
RemoveTreeAndBranch(j) == Gone(j)

\* _cleanup_worktree_only, whatever the worktree holds.
RemoveTree(j) ==
    /\ trees' = trees \ {j}
    /\ edits' = [edits EXCEPT ![j] = {}]
    /\ UNCHANGED <<branch, branches>>

\* _get_existing_pr_url: a pull request that the row knows is the answer, and
\* the worktree goes.
AskPr(p) ==
    LET j == op[p].job
    IN  /\ op[p].pc = "snapshot"
        /\ op[p].action = "create_pr"
        /\ \/ ~prUrl[j] /\ Move(p, "opening") /\ UNCHANGED local
           \/ /\ prUrl[j]
              /\ RemoveTree(j)
              /\ MoveWith(p, "storing", "pr_created")
        /\ UNCHANGED <<row, base, platform, main, lock, resuming, history>>

Push(j) ==
    pushed' = IF j \in branches THEN [pushed EXCEPT ![j] = branch[j]] ELSE pushed

\* The platform opens a pull request for a branch it has, one at a time.
Answer(p, opens) ==
    /\ opened' = IF opens THEN opened \cup {op[p].job} ELSE opened
    /\ MoveWith(p, "noting", IF opens THEN "pr_created" ELSE "unresolved")

\* The push, whose failure is survived, and create_pr of the platform.
OpenPr(p) ==
    LET j == op[p].job
        Opens(head) == head # {} /\ j \notin opened
    IN  /\ op[p].pc = "opening"
        /\ \/ Push(j) /\ Answer(p, Opens(pushed'[j])) /\ UNCHANGED faults
           \/ /\ Fault("gitError")
              /\ \/ UNCHANGED pushed /\ Answer(p, Opens(pushed[j]))
                 \/ Push(j) /\ Answer(p, FALSE)
        /\ UNCHANGED <<row, base, local, main, lock, resuming, achieved,
                       disturbed, crashed, troubled>>

\* _update_merge_status after the platform has answered, and the operator's
\* tidying up.
NotePr(p) ==
    LET j == op[p].job
        ok == op[p].outcome = "pr_created"
    IN  /\ op[p].pc = "noting"
        /\ mergeStatus' = [mergeStatus EXCEPT
                             ![j] = IF ok THEN "pr_created" ELSE "not_merged"]
        /\ prUrl' = [prUrl EXCEPT ![j] = @ \/ ok]
        /\ IF op[p].action = "agent_pr" THEN End(p) ELSE Move(p, "storing")
        /\ IF ok /\ op[p].action = "create_pr" THEN RemoveTree(j)
                                               ELSE UNCHANGED local
        /\ UNCHANGED <<state, resolution, session, rework, base, platform, main,
                       lock, resuming, history>>

\* Mutant: what the agent did not commit is not committed before a merge.
MergeAsCommitted(p) ==
    /\ op[p].pc = "snapshot"
    /\ op[p].action \in {"merge", "smart_merge"}
    /\ Move(p, "locking")
    /\ UNCHANGED <<row, base, local, platform, main, lock, resuming, history>>

\* _operator_merge and _operator_smart_merge up to the lock.
AutoCommit(p) ==
    /\ op[p].pc = "snapshot"
    /\ op[p].action \in {"merge", "smart_merge"}
    /\ Commits(op[p].job)
    /\ Move(p, "locking")
    /\ UNCHANGED <<row, base, branches, trees, platform, main, lock, resuming>>

\* _try_ff_via_ref under the lock: is the base an ancestor of the branch, and
\* what is the branch's tip?  When it is not, or git fails, the merge takes a
\* checkout; a cherry-pick always does.
Enter(p) ==
    LET j == op[p].job
        merges == op[p].action = "merge"
        ahead == j \in branches /\ base \subseteq branch[j]
    IN  /\ lock' = p
        /\ \/ /\ merges /\ ahead
              /\ Put(p, [op[p] EXCEPT !.pc = "advancing", !.sha = branch[j],
                                      !.ff = TRUE])
              /\ UNCHANGED faults
           \/ /\ IF merges /\ ahead THEN Fault("gitError") ELSE UNCHANGED faults
              /\ Move(p, "saving")
        /\ UNCHANGED <<row, base, local, platform, main, resuming, achieved,
                       disturbed, crashed, troubled>>

\* Mutant: merges of one repository do not exclude each other.
TakeLockAtWill(p) == op[p].pc = "locking" /\ Enter(p)

TakeLock(p) == op[p].pc = "locking" /\ lock = NoOne /\ Enter(p)

\* reset --hard, when the main directory is on the base branch.
Reset(dir) ==
    IF dir.at = "other" THEN dir
    ELSE [at |-> "base", edits |-> IF dir.edits = "there" THEN "lost" ELSE dir.edits]

\* update_ref and the reset.  When git fails after the ref has moved, the merge
\* takes a checkout as well.
AdvanceBase(p) ==
    /\ op[p].pc = "advancing"
    /\ base' = op[p].sha
    /\ \/ /\ main' = Reset(main)
          /\ Put(p, [op[p] EXCEPT !.pc = "recording", !.outcome = "merged", !.sha = {}])
          /\ UNCHANGED faults
       \/ /\ Fault("gitError")
          /\ Put(p, [op[p] EXCEPT !.pc = "saving", !.ff = FALSE, !.sha = {}])
          /\ UNCHANGED main
    /\ UNCHANGED <<row, local, platform, lock, resuming, achieved, disturbed,
                   crashed, troubled>>

Stashes(dir) == dir.edits = "there" /\ dir.at # "midway"

Stash(dir) == IF Stashes(dir) THEN [dir EXCEPT !.edits = "stashed"] ELSE dir

\* _preserved_worktree on the way in: the current branch is remembered and the
\* changes are stashed.  Either may fail, and the merge goes on.
Save(p) ==
    LET Saved(from, stashed) ==
            Put(p, [op[p] EXCEPT !.pc = "mixing", !.from = from, !.stashed = stashed])
        current == IF main.at = "midway" THEN "base" ELSE main.at
    IN  /\ op[p].pc = "saving"
        /\ \/ /\ Saved(current, Stashes(main))
              /\ main' = Stash(main)
              /\ UNCHANGED <<troubled, faults>>
           \/ /\ Fault("gitError")
              /\ \/ /\ Saved("none", Stashes(main))
                    /\ main' = Stash(main)
                    /\ troubled' = TRUE
                 \/ Saved(current, FALSE) /\ UNCHANGED <<main, troubled>>
        /\ UNCHANGED <<row, base, local, platform, lock, resuming, achieved,
                       disturbed, crashed>>

\* What a merge or a cherry-pick of the branch puts on the base branch.
Mixed(p) ==
    LET j == op[p].job
    IN  IF op[p].action = "merge" THEN branch[j]
        ELSE {[c EXCEPT !.picked = TRUE] : c \in branch[j] \ base}

Applies(p) ==
    op[p].job \in branches /\ (op[p].action = "merge" \/ Mixed(p) # {})

Conflicts(p) == Applies(p) /\ ~(base \subseteq branch[op[p].job])

\* What a merge that stops on its way has put there: a cherry-pick of several
\* commits may have done some.
Partly(p) == IF op[p].action = "merge" THEN {{}} ELSE SUBSET Mixed(p)

\* Inside _preserved_worktree: the checkout of the base branch, the merge or
\* cherry-pick, and when it fails the abort and what tells a conflict from
\* another error.  An abort that fails leaves the directory midway; a merge
\* aborts what an earlier one has left there, a cherry-pick does not.
Mix(p) ==
    LET Mixes(outcome, at) ==
            /\ MoveWith(p, "recording", outcome)
            /\ main' = [main EXCEPT !.at = at]
        free == main.at # "midway"
    IN  /\ op[p].pc = "mixing"
        /\ \/ /\ free /\ Applies(p)
              /\ base' = base \cup Mixed(p)
              /\ Mixes("merged", "base")
              /\ UNCHANGED <<troubled, faults>>
           \/ /\ free /\ Conflicts(p)
              /\ Mixes("conflict", "base")
              /\ UNCHANGED <<base, troubled, faults>>
           \/ /\ free
              /\ IF Applies(p) /\ main.edits # "there" THEN Fault("gitError")
                                                       ELSE UNCHANGED faults
              /\ \/ Mixes("unresolved", "base")
                 \/ Mixes("unresolved", main.at)
              /\ UNCHANGED <<base, troubled>>
           \/ /\ free /\ Applies(p) /\ Fault("gitError")
              /\ \E picked \in Partly(p) : base' = base \cup picked
              /\ Mixes(IF op[p].action = "smart_merge" /\ Conflicts(p)
                       THEN "conflict" ELSE "unresolved", "midway")
              /\ troubled' = TRUE
           \/ /\ ~free
              /\ \/ Mixes("unresolved", "midway")
                 \/ /\ op[p].action = "merge"
                    /\ Mixes(IF Conflicts(p) THEN "conflict" ELSE "unresolved", "base")
              /\ UNCHANGED <<base, troubled, faults>>
        /\ UNCHANGED <<row, local, platform, lock, resuming, achieved, disturbed,
                       crashed>>

\* Mutant: a merge that does not succeed leaves the checkout as it is.
RecordWithoutRestoring(p) ==
    LET j == op[p].job
        result == op[p].outcome
    IN  /\ op[p].pc = "recording"
        /\ mergeStatus' = [mergeStatus EXCEPT
                             ![j] = IF result = "unresolved" THEN "not_merged"
                                                             ELSE result]
        /\ IF result = "merged"
           THEN Move(p, "tidying") /\ UNCHANGED lock
           ELSE Move(p, "storing") /\ lock' = NoOne
        /\ UNCHANGED <<state, resolution, prUrl, session, rework, base, local,
                       platform, main, resuming, history>>

\* _update_merge_status.  A failed cherry-pick does not write.
RecordMerge(p) ==
    LET j == op[p].job
        result == op[p].outcome
        failed == result = "unresolved"
    IN  /\ op[p].pc = "recording"
        /\ mergeStatus' =
             IF failed /\ op[p].action = "smart_merge" THEN mergeStatus
             ELSE [mergeStatus EXCEPT ![j] = IF failed THEN "not_merged" ELSE result]
        /\ Move(p, IF result = "merged" THEN "tidying" ELSE "restoring")
        /\ UNCHANGED <<state, resolution, prUrl, session, rework, base, local,
                       platform, main, lock, resuming, history>>

\* _post_merge_cleanup.  After a fast-forward it is given no worktree, and the
\* branch stays while a worktree has it checked out.  Where there is none, the
\* branch may count as not merged, and stay as well.  A fast-forward has left
\* nothing to restore.
TidyUp(p) ==
    LET j == op[p].job
    IN  /\ op[p].pc = "tidying"
        /\ \/ (op[p].ff => j \notin trees) /\ Gone(j)
           \/ (op[p].ff \/ j \notin trees) /\ UNCHANGED local
        /\ IF op[p].ff THEN Move(p, "storing") /\ lock' = NoOne
                       ELSE Move(p, "restoring") /\ UNCHANGED lock
        /\ UNCHANGED <<row, base, platform, main, resuming, history>>

\* The directory on its old branch, where that is known and a merge is not in
\* the way.
Back(o, dir) ==
    IF o.from = "none" \/ dir.at = "midway" THEN dir ELSE [dir EXCEPT !.at = o.from]

Popped(o, dir) ==
    IF o.stashed /\ dir.edits = "stashed" /\ dir.at # "midway"
    THEN [dir EXCEPT !.edits = "there"] ELSE dir

Restored(o, dir) == Popped(o, Back(o, dir))

\* _preserved_worktree on the way out, with either command's failure survived.
Restore(p) ==
    /\ op[p].pc = "restoring"
    /\ \/ main' = Restored(op[p], main) /\ UNCHANGED <<troubled, faults>>
       \/ /\ Fault("gitError")
          /\ main' \in {Popped(op[p], main), Back(op[p], main)}
          /\ troubled' = TRUE
    /\ Put(p, [op[p] EXCEPT !.pc = "storing", !.from = "none", !.stashed = FALSE])
    /\ lock' = NoOne
    /\ UNCHANGED <<row, base, local, platform, resuming, achieved, disturbed, crashed>>

\* Mutant: the resolution is written and the job stays in review.
StoreResolution(p) ==
    /\ op[p].pc = "storing"
    /\ resolution' = [resolution EXCEPT ![op[p].job] = op[p].outcome]
    /\ End(p)
    /\ UNCHANGED <<state, mergeStatus, prUrl, session, rework, base, local,
                   platform, main, lock, resuming, history>>

\* execute_resolve after the merge service has answered: the resolution is
\* written and, when it is final, the job completed.  A refused transition
\* takes the resolution back; in a session, _fail_job answers it.
Store(p) ==
    LET j == op[p].job
        result == op[p].outcome
        final == result \in FinalResolutions
        stored == final => CanTransition(state[j], "completed")
    IN  /\ op[p].pc = "storing"
        /\ resolution' = IF stored THEN [resolution EXCEPT ![j] = result]
                                   ELSE resolution
        /\ prUrl' = [prUrl EXCEPT ![j] = @ \/ (stored /\ result = "pr_created")]
        /\ state' = [state EXCEPT ![j] =
                        CASE stored /\ final -> "completed"
                          [] ~stored /\ p = j -> TransitionOr(@, "failed")
                          [] OTHER -> @]
        /\ IF p = j THEN Put(p, Closing(j)) ELSE End(p)
        /\ UNCHANGED <<mergeStatus, session, rework, base, local, platform, main,
                       lock, resuming, history>>

-----------------------------------------------------------------------------
(* Cancel, resume, archive, crash.                                         *)

\* What a git command of a merge may have done when it is interrupted: a merge
\* is not aborted then.
CutShort(o, p, dir) ==
    \/ /\ o.pc \notin {"advancing", "saving", "mixing", "restoring"}
       /\ base' = base /\ dir = main
    \/ /\ o.pc = "advancing"
       /\ \/ base' = base /\ dir = main
          \/ base' = o.sha /\ dir \in {main, Reset(main)}
    \/ /\ o.pc = "saving"
       /\ base' = base /\ dir \in {main, Stash(main)}
    \/ /\ o.pc = "mixing"
       /\ \/ base' = base /\ dir = main
          \/ /\ main.at # "midway" /\ Applies(p)
             /\ \/ base' = base \cup Mixed(p) /\ dir = [main EXCEPT !.at = "base"]
                \/ /\ \E picked \in Partly(p) : base' = base \cup picked
                   /\ dir \in {[main EXCEPT !.at = at] : at \in {"base", "midway"}}
    \/ /\ o.pc = "restoring"
       /\ base' = base /\ dir \in {main, Back(o, main), Restored(o, main)}

\* The merge of a canceled session gives the lock back.  Where the body of
\* _preserved_worktree was running the directory is restored, as far as a merge
\* on the base lets it; its first and its last lines are not run again.
Interrupt(j) ==
    /\ lock' = NoOne
    /\ \E dir \in Directory :
          /\ CutShort(op[j], j, dir)
          /\ \/ main' = IF op[j].pc \in {"mixing", "recording", "tidying"}
                        THEN Restored(op[j], dir) ELSE dir
             \/ op[j].pc = "mixing" /\ main' = dir
    /\ troubled' = (troubled \/ op[j].pc \in {"saving", "mixing", "restoring"})

\* cancel_job, and runtime.cancel, which interrupts a session in its merge.
Cancel(j) ==
    LET interrupted == op[j].pc # "idle" /\ op[j].action # "agent_pr"
    IN  /\ "cancel" \in Env
        /\ state[j] \in {"running", "review"}
        /\ Overlaps(j)
        /\ state' = [state EXCEPT ![j] = "canceled"]
        /\ IF interrupted THEN End(j) ELSE UNCHANGED op
        /\ IF interrupted /\ lock = j THEN Interrupt(j)
                                      ELSE UNCHANGED <<base, lock, main, troubled>>
        /\ UNCHANGED <<resolution, mergeStatus, prUrl, session, rework, local,
                       platform, resuming, achieved>>

\* resume_job up to the reset: the worktree is there or is put back from the
\* branch.  Whether the merge had conflicted is remembered from this read.
ResumeJob(j) ==
    /\ "resume" \in Env
    /\ session[j] < MaxSessions[j]
    /\ state[j] \in ResumableStates
    /\ j \notin resuming
    /\ j \in trees \cup branches
    /\ Overlaps(j)
    /\ trees' = trees \cup {j}
    /\ resuming' = resuming \cup {j}
    /\ rework' = [rework EXCEPT ![j] = \/ mergeStatus[j] = "conflict"
                                      \/ resolution[j] = "conflict"]
    /\ UNCHANGED <<state, resolution, mergeStatus, prUrl, session, base, branch,
                   branches, edits, platform, main, lock, op, achieved, troubled>>

\* reset_for_resume.  A session that starts with the merge status conflict
\* will merge when its agent is done.
ResetRow(j) ==
    /\ j \in resuming
    /\ resuming' = resuming \ {j}
    /\ state' = [state EXCEPT ![j] = "running"]
    /\ resolution' = [resolution EXCEPT ![j] = "none"]
    /\ mergeStatus' = [mergeStatus EXCEPT
                         ![j] = IF rework[j] THEN "conflict" ELSE "none"]
    /\ prUrl' = [prUrl EXCEPT ![j] = FALSE]
    /\ session' = [session EXCEPT ![j] = @ + 1]
    /\ UNCHANGED <<rework, base, local, platform, main, lock, op, history>>

\* archive_job: a finished job that has a worktree loses it and its branch.
Archive(j) ==
    /\ "archive" \in Env
    /\ state[j] \in TERMINAL_STATES
    /\ j \in trees
    /\ Overlaps(j)
    /\ Gone(j)
    /\ made' = [made EXCEPT ![j] = {}]
    /\ UNCHANGED <<row, base, platform, main, lock, op, resuming, missed,
                   troubled>>

\* The process dies.  Recovery goes on with the sessions of running jobs; a
\* resolution is forgotten, a git command cut short, and what
\* _preserved_worktree had to restore stays as it is.  While nothing is under
\* way there is nothing to forget.
Crash ==
    /\ \E j \in Jobs : Busy(j)
    /\ Fault("crash")
    /\ crashed' = TRUE
    /\ op' = [p \in Processes |-> Idle]
    /\ lock' = NoOne
    /\ resuming' = {}
    /\ IF lock = NoOne THEN UNCHANGED <<base, main>>
       ELSE \E dir \in Directory : CutShort(op[lock], lock, dir) /\ main' = dir
    /\ UNCHANGED <<row, local, platform, achieved, disturbed, troubled>>
-----------------------------------------------------------------------------
ResolveStep(p) ==
    \/ Discard(p) \/ AskPr(p) \/ OpenPr(p) \/ NotePr(p)
    \/ AutoCommit(p) \/ TakeLock(p) \/ AdvanceBase(p)
    \/ Save(p) \/ Mix(p) \/ RecordMerge(p) \/ TidyUp(p) \/ Restore(p)
    \/ Store(p)

SessionStep(j) ==
    AgentWorks(j) \/ AgentAsksForPr(j) \/ FinishSession(j) \/ CloseLastStep(j)

OperatorStep(j) ==
    \/ \E r \in Requests, action \in Actions : Resolve(r, j, action)
    \/ Cancel(j) \/ ResumeJob(j) \/ ResetRow(j) \/ Archive(j)

Next ==
    \/ \E p \in Processes : ResolveStep(p)
    \/ \E j \in Jobs : SessionStep(j) \/ OperatorStep(j)
    \/ Crash

Spec == Init /\ [][Next]_vars

-----------------------------------------------------------------------------
(* Properties.                                                             *)

\* No merge drops from the base branch what another one has put there: two
\* fast-forwards to the same base do not overwrite each other.
BaseKeepsWork == [][base \subseteq base']_vars

HoldsWork(commits, j, n) == \E c \in commits : c.job = j /\ c.session = n

\* A row that says merged is right about the base branch: git is always ahead
\* of the columns.  What a failed commit left in the worktree is not part of a
\* merge.  A crash can cost work that was not committed, and then a later merge
\* does not have it; what is left of the job is in the base.
MergedIsInBase ==
    \A j \in Jobs \ disturbed :
        "merged" \in {resolution[j], mergeStatus[j]} =>
            \A n \in made[j] \ missed[j] :
                \/ HoldsWork(base, j, n)
                \/ crashed /\ ~HoldsWork(pushed[j] \cup branch[j] \cup edits[j], j, n)

\* What a session has done, and git has not refused to commit, is somewhere
\* until the operator discards it or archives the job: cleaning up after a
\* resolution never takes the last copy.
WorkIsKept ==
    ~crashed =>
        \A j \in Jobs \ disturbed : \A n \in made[j] \ missed[j] :
            HoldsWork(base \cup pushed[j] \cup branch[j] \cup edits[j], j, n)

\* What the code does not give: a commit that fails is logged and survived, and
\* the worktree is removed by force after the merge.
NothingMissed ==
    ~crashed =>
        \A j \in Jobs \ disturbed : \A n \in made[j] :
            HoldsWork(base \cup pushed[j] \cup branch[j] \cup edits[j], j, n)

\* A job is completed when, and only when, it has a final resolution.
CompletedIsResolved ==
    \A j \in Jobs \ disturbed :
        state[j] = "completed" <=> resolution[j] \in FinalResolutions

\* Between merges the operator's directory is on the operator's branch, with
\* nothing left in the stash.  A merge that fails, conflicts or cannot stash or
\* check out puts it back, one that is canceled while it writes its result or
\* removes the worktree too; one that git fails in an abort or on the way out,
\* or that is canceled while git works there, may not.
MainIsBack ==
    lock = NoOne /\ ~crashed /\ ~troubled =>
        main.at = Home /\ main.edits # "stashed"

\* The operator's own changes outlive every merge.  False where the operator
\* has the base branch checked out, or is left there by a merge that was not
\* undone: the next fast-forward resets the directory.
OperatorEditsSurvive == main.edits # "lost"

\* The lock is held by a merge that is under way, and by nobody else: every
\* way out of a merge, an interruption included, gives it back.
LockFollowsMerge ==
    \A p \in Processes : lock = p <=> op[p].pc \in Locked
=============================================================================
