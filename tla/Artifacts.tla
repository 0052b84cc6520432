------------------------------ MODULE Artifacts ------------------------------
(***************************************************************************)
(* The collection of the artifacts of a job, once per session:              *)
(* ArtifactFinalizationService                                              *)
(* (backend/services/artifacts/finalization_service.py) with the claim in    *)
(* the job's row (backend/persistence/job_repo.py) and the session log it    *)
(* writes (backend/services/completers/summarization_service.py).            *)
(*                                                                          *)
(* The cleanup of a session collects, and so does the recovery at startup,   *)
(* next to an operator who cancels and resumes the job.  Jobs share nothing   *)
(* here, so the module has one.                                              *)
(***************************************************************************)
EXTENDS Naturals

CONSTANTS
    Env,            \* what may go wrong
    MaxSessions,    \* bound: sessions of the job
    MaxRestarts     \* bound: restarts of the backend

ASSUME EnvAssumption == Env \subseteq {"cancel", "crash", "failure"}
ASSUME BoundAssumption == MaxSessions \in Nat \ {0} /\ MaxRestarts \in Nat

VARIABLES
    row,            \* the state column, as far as it matters here
    count,          \* session_count
    status,         \* artifact_collection_status
    collected,      \* artifact_collection_session_count
    log,            \* what the session log holds of each session
    agent,          \* an agent works on the session
    at,             \* how far each collector is
    took,           \* the session it claimed
    label,          \* the session it takes the transcript for
    shot,           \* what that transcript is
    boot,           \* recover_on_startup
    restarts,
    tangled         \* a cancel or a resume fell into a collection (history)

claim == <<status, collected>>
work == <<took, label, shot>>
vars == <<row, count, claim, log, agent, at, work, boot, restarts, tangled>>

Sessions == 1 .. MaxSessions

\* The callers of finalize: _cleanup_job_state and recover_eligible.
Collectors == {"cleanup", "recovery"}

\* A transcript may be taken while its session still runs.
Shots == {"none", "early", "whole"}

TypeOK ==
    /\ row \in {"running", "review", "final"}
    /\ count \in Sessions
    /\ status \in {"pending", "collecting", "completed", "failed"}
    /\ collected \in 0 .. MaxSessions
    /\ log \in [Sessions -> Shots]
    /\ agent \in BOOLEAN
    /\ at \in [Collectors -> {"idle", "queued", "reading", "writing", "storing"}]
    /\ took \in [Collectors -> 0 .. MaxSessions]
    /\ label \in [Collectors -> 0 .. MaxSessions]
    /\ shot \in [Collectors -> Shots]
    /\ boot \in {"orphans", "candidates", "serving"}
    /\ restarts \in 0 .. MaxRestarts /\ tangled \in BOOLEAN

Init ==
    /\ row = "running" /\ count = 1 /\ agent = TRUE
    /\ status = "pending" /\ collected = 0
    /\ log = [s \in Sessions |-> "none"]
    /\ at = [c \in Collectors |-> "idle"]
    /\ took = [c \in Collectors |-> 0]
    /\ label = took /\ shot = [c \in Collectors |-> "none"]
    /\ boot = "serving" /\ restarts = 0 /\ tangled = FALSE

Over == row # "running"

\* The session that ended last has not been collected: the rows that
\* list_artifact_collection_candidates finds.
Candidate == Over /\ ~(status = "completed" /\ collected >= count)

\* The collector inside the lock of the job.
Inside == {c \in Collectors : at[c] \in {"reading", "writing", "storing"}}

Go(c, pc) == at' = [at EXCEPT ![c] = pc]
-----------------------------------------------------------------------------
(* The session.                                                            *)

\* The agent stops, for a review or for good, and the cleanup begins.
SessionEnds ==
    /\ agent /\ agent' = FALSE
    /\ row' \in {"review", "final"}
    /\ Go("cleanup", "queued")
    /\ UNCHANGED <<count, claim, log, work, boot, restarts, tangled>>

\* resume_job.  While the task of the last session is cleaning up, the start is
\* refused: the row runs and no agent does.
Resume ==
    /\ Over /\ count < MaxSessions
    /\ row' = "running" /\ count' = count + 1
    /\ agent' = (at["cleanup"] = "idle")
    /\ tangled' = (tangled \/ status = "collecting" \/ \E c \in Collectors : at[c] # "idle")
    /\ UNCHANGED <<claim, log, at, work, boot, restarts>>

\* cancel_job refuses what is final.  The CancelledError ends the cleanup of the
\* session, wherever it is, and the wrapper of the task cleans up once more.
Cancel ==
    /\ "cancel" \in Env
    /\ row = "review" /\ row' = "final"
    /\ IF at["cleanup"] = "idle" THEN UNCHANGED <<at, tangled>>
       ELSE Go("cleanup", "queued") /\ tangled' = TRUE
    /\ UNCHANGED <<count, claim, log, agent, work, boot, restarts>>
-----------------------------------------------------------------------------
(* finalize.                                                               *)

\* Mutant: the recovery leaves a collection that a crash broke off.
FreshOnly(c) == Candidate /\ status # "collecting"

\* claim_artifact_collection; recover_stale is the recovery's.
Claimable(c) == Candidate /\ (status = "collecting" => c = "recovery")

Claim(c) ==
    /\ at[c] = "queued" /\ Inside = {}
    /\ IF Claimable(c)
       THEN /\ status' = "collecting" /\ Go(c, "reading")
            /\ took' = [took EXCEPT ![c] = count]
       ELSE Go(c, "idle") /\ UNCHANGED <<status, took>>
    /\ UNCHANGED <<row, count, collected, log, agent, label, shot, boot, restarts, tangled>>

\* save_snapshot_to_disk reads the row again, and the trail of the session it
\* finds there, unless the log has that session.
Read(c) ==
    /\ at[c] = "reading"
    /\ label' = [label EXCEPT ![c] = count]
    /\ shot' = [shot EXCEPT ![c] = IF Over THEN "whole" ELSE "early"]
    /\ Go(c, IF log[count] = "none" THEN "writing" ELSE "storing")
    /\ UNCHANGED <<row, count, claim, log, agent, took, boot, restarts, tangled>>

\* upsert_session_log.
Write(c) ==
    /\ at[c] = "writing"
    /\ log' = [log EXCEPT ![label[c]] = IF @ = "none" THEN shot[c] ELSE @]
    /\ Go(c, "storing")
    /\ UNCHANGED <<row, count, claim, agent, work, boot, restarts, tangled>>

Outcome(c, result) ==
    /\ status' = result /\ collected' = took[c]
    /\ Go(c, "idle")
    /\ UNCHANGED <<row, count, log, agent, work, boot, restarts, tangled>>

\* Mutant: the result is stored for the session the row has by now.
FinishLatest(c) ==
    /\ at[c] = "storing"
    /\ status' = "completed" /\ collected' = count
    /\ Go(c, "idle")
    /\ UNCHANGED <<row, count, log, agent, work, boot, restarts, tangled>>

\* store_post_completion_artifacts and _finish, for the session claimed.
Finish(c) == at[c] = "storing" /\ Outcome(c, "completed")

Fail(c) == "failure" \in Env /\ c \in Inside /\ Outcome(c, "failed")

Collect(c) == Claim(c) \/ Read(c) \/ Write(c) \/ Finish(c) \/ Fail(c)
-----------------------------------------------------------------------------
(* The process.                                                            *)

\* Everything in memory is lost.
Restart ==
    /\ "crash" \in Env /\ restarts < MaxRestarts
    /\ row = "running" => count < MaxSessions
    /\ restarts' = restarts + 1
    /\ agent' = FALSE
    /\ boot' = IF row = "running" THEN "orphans" ELSE "candidates"
    /\ at' = [c \in Collectors |-> "idle"]
    /\ UNCHANGED <<row, count, claim, log, work, tangled>>

\* A row found in flight gets another session.
RecoverOrphan ==
    /\ boot = "orphans" /\ boot' = "candidates"
    /\ agent' = TRUE /\ count' = count + 1
    /\ UNCHANGED <<row, claim, log, at, work, restarts, tangled>>

\* recover_eligible.
ListCandidates ==
    /\ boot = "candidates" /\ boot' = "serving"
    /\ IF Candidate THEN Go("recovery", "queued") ELSE UNCHANGED at
    /\ UNCHANGED <<row, count, claim, log, agent, work, restarts, tangled>>

Recover == RecoverOrphan \/ ListCandidates

Next ==
    \/ SessionEnds \/ Resume \/ Cancel \/ Restart \/ Recover
    \/ \E c \in Collectors : Collect(c)

\* What is queued on the event loop goes on.
Fairness == WF_vars(Recover) /\ \A c \in Collectors : WF_vars(Collect(c))

Spec == Init /\ [][Next]_vars

FairSpec == Spec /\ Fairness
-----------------------------------------------------------------------------
(* Properties.                                                             *)

\* A job whose collection is said to be complete has a transcript of its last
\* session in the log, whatever overlapped the collection.
CompletedIsLogged ==
    Over /\ status = "completed" /\ collected >= count => log[count] # "none"

\* A session that ends is collected, or found to have failed, also when the
\* backend dies in between.  A cancel or a resume that falls into a collection can
\* leave it collecting: nobody but the recovery takes it over.
EndedIsCollected ==
    Over ~> \/ ~Over \/ tangled
            \/ status \in {"completed", "failed"} /\ collected = count

\* The transcript of a session that is collected is the whole one.
CompletedIsWhole ==
    Over /\ status = "completed" /\ collected >= count => log[count] = "whole"
=============================================================================
