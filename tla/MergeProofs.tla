----------------------------- MODULE MergeProofs -----------------------------
(***************************************************************************)
(* Proofs about Merge, for every set of jobs and requests and any number   *)
(* of sessions and faults: its type invariant, that the repository lock is *)
(* held exactly while a merge runs, that no merge takes work off the base  *)
(* branch, that the main directory comes back, that a job is completed     *)
(* exactly when it is resolved, that the work of a session is never lost   *)
(* and that a row that says merged is right about the base branch.         *)
(***************************************************************************)
EXTENDS Merge, TLAPS

\* A process that is under way has a job, and a merge that is recorded an
\* outcome that _update_merge_status knows.
Working ==
    \A p \in Processes :
        /\ op[p].pc # "idle" <=> op[p].job \in Jobs
        /\ op[p].pc = "recording" =>
             op[p].outcome \in {"merged", "conflict", "unresolved"}

TypeInv == TypeOK /\ Working

\* The records that steps write into op.
LEMMA OpRecords ==
    /\ Idle \in OpType
    /\ Idle.pc = "idle" /\ Idle.job = NoJob /\ Idle.action = "none"
    /\ Idle.outcome = "none" /\ Idle.ff = FALSE /\ Idle.from = "none"
    /\ \A j \in Jobs, a \in Actions \cup {"none", "agent_pr"} :
         /\ Begin(j, a) \in OpType
         /\ Begin(j, a).pc = "snapshot"
         /\ Begin(j, a).job = j
         /\ Begin(j, a).action = a
         /\ Begin(j, a).outcome = "none"
         /\ Begin(j, a).ff = FALSE
         /\ Begin(j, a).from = "none"
    /\ \A j \in Jobs :
         /\ Closing(j) \in OpType
         /\ Closing(j).pc = "closing"
         /\ Closing(j).job = j
         /\ Closing(j).action = "none"
         /\ Closing(j).outcome = "none"
  BY DEF Idle, Begin, Closing, OpType, Resolution, Locked, Actions

\* What a record that is put in place of a process's does to the others.
LEMMA PutFacts ==
    ASSUME TypeInv, NEW p \in Processes, NEW o \in OpType, Put(p, o),
           o.pc # "idle" <=> o.job \in Jobs,
           o.pc = "recording" => o.outcome \in {"merged", "conflict", "unresolved"}
    PROVE  /\ op' \in [Processes -> OpType]
           /\ Working'
           /\ op'[p] = o
           /\ \A q \in Processes : q # p => op'[q] = op[q]
<1> op \in [Processes -> OpType] /\ Working
  BY DEF TypeInv, TypeOK
<1> QED
  BY DEF Put, Working

Places == {"snapshot", "closing", "locking", "opening", "noting", "storing"} \cup Locked

\* A process that is under way goes on with its job.
LEMMA MoveFacts ==
    ASSUME TypeInv, NEW p \in Processes, op[p].pc # "idle", NEW pc \in Places,
           Move(p, pc), pc # "recording"
    PROVE  /\ op' \in [Processes -> OpType]
           /\ Working'
           /\ op'[p] = [op[p] EXCEPT !.pc = pc]
           /\ op'[p].pc = pc
           /\ op'[p].job = op[p].job
           /\ op'[p].action = op[p].action
           /\ op'[p].outcome = op[p].outcome
           /\ op'[p].ff = op[p].ff
           /\ op'[p].from = op[p].from
           /\ op'[p].stashed = op[p].stashed
           /\ op[p].job \in Jobs
           /\ \A q \in Processes : q # p => op'[q] = op[q]
<1> DEFINE o == [op[p] EXCEPT !.pc = pc]
<1>1. op[p] \in OpType /\ op[p].job \in Jobs
  BY DEF TypeInv, TypeOK, Working
<1>2. /\ o \in OpType /\ o.pc = pc /\ o.job = op[p].job
      /\ o.outcome = op[p].outcome /\ o.action = op[p].action
      /\ o.ff = op[p].ff /\ o.from = op[p].from /\ o.stashed = op[p].stashed
  BY <1>1 DEF OpType, Places, Locked
<1>3. Put(p, o) /\ pc # "idle"
  BY DEF Move, Places, Locked
<1> HIDE DEF o
<1>4. /\ op' \in [Processes -> OpType]
      /\ Working'
      /\ op'[p] = o
      /\ \A q \in Processes : q # p => op'[q] = op[q]
  BY <1>1, <1>2, <1>3, PutFacts
<1> QED
  BY <1>1, <1>2, <1>4 DEF o

\* The same, with an outcome.
LEMMA MoveWithFacts ==
    ASSUME TypeInv, NEW p \in Processes, op[p].pc # "idle", NEW pc \in Places,
           NEW outcome \in Resolution, MoveWith(p, pc, outcome),
           pc = "recording" => outcome \in {"merged", "conflict", "unresolved"}
    PROVE  /\ op' \in [Processes -> OpType]
           /\ Working'
           /\ op'[p].pc = pc
           /\ op'[p].job = op[p].job
           /\ op'[p].action = op[p].action
           /\ op'[p].outcome = outcome
           /\ op'[p].ff = op[p].ff
           /\ op'[p].from = op[p].from
           /\ op'[p].stashed = op[p].stashed
           /\ op[p].job \in Jobs
           /\ \A q \in Processes : q # p => op'[q] = op[q]
<1> DEFINE o == [op[p] EXCEPT !.pc = pc, !.outcome = outcome]
<1>1. op[p] \in OpType /\ op[p].job \in Jobs
  BY DEF TypeInv, TypeOK, Working
<1>2. /\ o \in OpType /\ o.pc = pc /\ o.job = op[p].job
      /\ o.outcome = outcome /\ o.action = op[p].action
      /\ o.ff = op[p].ff /\ o.from = op[p].from /\ o.stashed = op[p].stashed
  BY <1>1 DEF OpType, Places, Locked
<1>3. Put(p, o) /\ pc # "idle"
  BY DEF MoveWith, Places, Locked
<1> HIDE DEF o
<1>4. /\ op' \in [Processes -> OpType]
      /\ Working'
      /\ op'[p] = o
      /\ \A q \in Processes : q # p => op'[q] = op[q]
  BY <1>1, <1>2, <1>3, PutFacts
<1> QED
  BY <1>1, <1>2, <1>4

\* A process that is over.
LEMMA EndFacts ==
    ASSUME TypeInv, NEW p \in Processes, End(p)
    PROVE  /\ op' \in [Processes -> OpType]
           /\ Working'
           /\ op'[p] = Idle
           /\ \A q \in Processes : q # p => op'[q] = op[q]
  BY OpRecords, PutFacts, NoJobAssumption DEF End

\* A process that begins, or a session that has its last step to close.
LEMMA BeginFacts ==
    ASSUME TypeInv, NEW p \in Processes, NEW j \in Jobs,
           NEW a \in Actions \cup {"none", "agent_pr"},
           Put(p, Begin(j, a)) \/ Put(p, Closing(j))
    PROVE  /\ op' \in [Processes -> OpType]
           /\ Working'
           /\ op'[p].job = j
           /\ op'[p] \in {Begin(j, a), Closing(j)}
           /\ \A q \in Processes : q # p => op'[q] = op[q]
<1>1. /\ Begin(j, a) \in OpType /\ Begin(j, a).pc = "snapshot" /\ Begin(j, a).job = j
      /\ Closing(j) \in OpType /\ Closing(j).pc = "closing" /\ Closing(j).job = j
  BY OpRecords
<1>2. CASE Put(p, Begin(j, a))
  BY <1>1, <1>2, PutFacts
<1>3. CASE Put(p, Closing(j))
  BY <1>1, <1>3, PutFacts
<1> QED
  BY <1>2, <1>3

\* The lock is taken with or without a fast-forward.
LEMMA EnterFacts ==
    ASSUME TypeInv, NEW p \in Processes, op[p].pc = "locking", Enter(p)
    PROVE  /\ op' \in [Processes -> OpType]
           /\ Working'
           /\ op'[p].pc \in {"advancing", "saving"}
           /\ op'[p].pc = "advancing" =>
                base \subseteq op'[p].sha /\ op'[p].sha = branch[op[p].job]
           /\ op'[p].ff = (IF op'[p].pc = "advancing" THEN TRUE ELSE op[p].ff)
           /\ op'[p].from = op[p].from
           /\ op'[p].job = op[p].job
           /\ op'[p].action = op[p].action
           /\ op'[p].outcome = op[p].outcome
           /\ op[p].job \in Jobs
           /\ \A q \in Processes : q # p => op'[q] = op[q]
<1> DEFINE j == op[p].job
           o == [op[p] EXCEPT !.pc = "advancing", !.sha = branch[j], !.ff = TRUE]
<1>1. op[p] \in OpType /\ j \in Jobs
  BY DEF TypeInv, TypeOK, Working
<1>2. CASE base \subseteq branch[j] /\ Put(p, o)
  <2>1. branch[j] \in SUBSET Commit
    BY <1>1 DEF TypeInv, TypeOK
  <2>2. /\ o \in OpType /\ o.pc = "advancing" /\ o.job = j
        /\ o.action = op[p].action /\ o.sha = branch[j] /\ o.outcome = op[p].outcome
        /\ o.ff = TRUE /\ o.from = op[p].from
    BY <1>1, <2>1 DEF OpType, Locked
  <2> HIDE DEF o
  <2>3. /\ op' \in [Processes -> OpType]
        /\ Working'
        /\ op'[p] = o
        /\ \A q \in Processes : q # p => op'[q] = op[q]
    BY <1>1, <1>2, <2>2, PutFacts
  <2> QED
    BY <1>1, <1>2, <2>2, <2>3
<1>3. CASE Move(p, "saving")
  <2>1. "saving" \in Places /\ op[p].pc # "idle"
    BY DEF Places, Locked
  <2>2. /\ op' \in [Processes -> OpType]
        /\ Working'
        /\ op'[p].pc = "saving"
        /\ op'[p].job = op[p].job
        /\ op'[p].action = op[p].action
        /\ op'[p].outcome = op[p].outcome
        /\ op'[p].ff = op[p].ff /\ op'[p].from = op[p].from
        /\ \A q \in Processes : q # p => op'[q] = op[q]
    BY <1>3, <2>1, MoveFacts
  <2> QED
    BY <1>1, <2>2
<1> QED
  BY <1>2, <1>3 DEF Enter

\* update_ref leaves the merge to be recorded, or to take a checkout as well.
LEMMA AdvanceFacts ==
    ASSUME TypeInv, NEW p \in Processes, AdvanceBase(p)
    PROVE  /\ op' \in [Processes -> OpType]
           /\ Working'
           /\ \/ /\ op'[p].pc = "recording" /\ op'[p].outcome = "merged"
                 /\ op'[p].ff = op[p].ff /\ main' = Reset(main)
              \/ /\ op'[p].pc = "saving" /\ op'[p].outcome = op[p].outcome
                 /\ op'[p].ff = FALSE /\ main' = main
           /\ op'[p].from = op[p].from
           /\ op'[p].job = op[p].job
           /\ op'[p].action = op[p].action
           /\ op[p].job \in Jobs
           /\ op[p].sha \in SUBSET Commit
           /\ \A q \in Processes : q # p => op'[q] = op[q]
<1> DEFINE o == [op[p] EXCEPT !.pc = "recording", !.outcome = "merged", !.sha = {}]
           o2 == [op[p] EXCEPT !.pc = "saving", !.ff = FALSE, !.sha = {}]
<1>1. op[p] \in OpType /\ op[p].job \in Jobs
  BY DEF TypeInv, TypeOK, Working, AdvanceBase
<1>2. /\ o \in OpType /\ o.pc = "recording" /\ o.job = op[p].job
      /\ o.action = op[p].action /\ o.outcome = "merged" /\ o.ff = op[p].ff
      /\ o.from = op[p].from
  BY <1>1 DEF OpType, Locked, Resolution, FinalResolutions
<1>3. /\ o2 \in OpType /\ o2.pc = "saving" /\ o2.job = op[p].job
      /\ o2.action = op[p].action /\ o2.outcome = op[p].outcome /\ o2.ff = FALSE
      /\ o2.from = op[p].from
  BY <1>1 DEF OpType, Locked
<1>4. (Put(p, o) /\ main' = Reset(main)) \/ (Put(p, o2) /\ main' = main)
  BY DEF AdvanceBase
<1> HIDE DEF o, o2
<1>5. CASE Put(p, o) /\ main' = Reset(main)
  <2>1. /\ op' \in [Processes -> OpType]
        /\ Working'
        /\ op'[p] = o
        /\ \A q \in Processes : q # p => op'[q] = op[q]
    BY <1>1, <1>2, <1>5, PutFacts
  <2> QED
    BY <1>1, <1>2, <1>5, <2>1 DEF OpType
<1>6. CASE Put(p, o2) /\ main' = main
  <2>1. /\ op' \in [Processes -> OpType]
        /\ Working'
        /\ op'[p] = o2
        /\ \A q \in Processes : q # p => op'[q] = op[q]
    BY <1>1, <1>3, <1>6, PutFacts
  <2> QED
    BY <1>1, <1>3, <1>6, <2>1 DEF OpType
<1> QED
  BY <1>4, <1>5, <1>6

\* What _preserved_worktree remembers.
SaveKeeps(o, from, stashed) ==
    [o EXCEPT !.pc = "mixing", !.from = from, !.stashed = stashed]

LEMMA SaveFacts ==
    ASSUME TypeInv, NEW p \in Processes, op[p].pc = "saving",
           NEW from \in {"base", "other", "none"}, NEW stashed \in BOOLEAN,
           Put(p, SaveKeeps(op[p], from, stashed))
    PROVE  /\ op' \in [Processes -> OpType]
           /\ Working'
           /\ op'[p].pc = "mixing"
           /\ op'[p].job = op[p].job
           /\ op'[p].action = op[p].action
           /\ op'[p].outcome = op[p].outcome
           /\ op'[p].ff = op[p].ff
           /\ op'[p].from = from
           /\ op'[p].stashed = stashed
           /\ op[p].job \in Jobs
           /\ \A q \in Processes : q # p => op'[q] = op[q]
<1> DEFINE o == SaveKeeps(op[p], from, stashed)
<1>1. op[p] \in OpType /\ op[p].job \in Jobs
  BY DEF TypeInv, TypeOK, Working
<1>2. /\ o \in OpType /\ o.pc = "mixing" /\ o.job = op[p].job
      /\ o.action = op[p].action /\ o.outcome = op[p].outcome /\ o.ff = op[p].ff
      /\ o.from = from /\ o.stashed = stashed
  BY <1>1 DEF OpType, Locked, SaveKeeps
<1> HIDE DEF o
<1>3. /\ op' \in [Processes -> OpType]
      /\ Working'
      /\ op'[p] = o
      /\ \A q \in Processes : q # p => op'[q] = op[q]
  BY <1>1, <1>2, PutFacts DEF o
<1> QED
  BY <1>1, <1>2, <1>3

\* The ways in.
LEMMA SaveCases ==
    ASSUME TypeInv, NEW p \in Processes, Save(p)
    PROVE  \E from \in {"base", "other", "none"}, stashed \in BOOLEAN :
             /\ Put(p, SaveKeeps(op[p], from, stashed))
             /\ \/ stashed = Stashes(main) /\ main' = Stash(main)
                \/ ~stashed /\ main' = main
             /\ \/ from = "none" /\ troubled' = TRUE
                \/ from = (IF main.at = "midway" THEN "base" ELSE main.at)
<1>1. main \in Directory
  BY DEF TypeInv, TypeOK
<1>2. Stashes(main) \in BOOLEAN /\ FALSE \in BOOLEAN
  BY DEF Stashes
<1>3. (IF main.at = "midway" THEN "base" ELSE main.at) \in {"base", "other"}
  BY <1>1 DEF Directory
<1> DEFINE current == IF main.at = "midway" THEN "base" ELSE main.at
           stashes == Stashes(main)
           stash == Stash(main)
<1>4. \/ Put(p, SaveKeeps(op[p], current, stashes)) /\ main' = stash
      \/ Put(p, SaveKeeps(op[p], "none", stashes)) /\ main' = stash /\ troubled' = TRUE
      \/ Put(p, SaveKeeps(op[p], current, FALSE)) /\ main' = main
  BY DEF Save, SaveKeeps
<1>5. current \in {"base", "other"} /\ stashes \in BOOLEAN
  BY <1>2, <1>3
<1> HIDE DEF current, stashes, stash
<1>6. \E from \in {"base", "other", "none"}, stashed \in BOOLEAN :
        /\ Put(p, SaveKeeps(op[p], from, stashed))
        /\ \/ stashed = stashes /\ main' = stash
           \/ ~stashed /\ main' = main
        /\ \/ from = "none" /\ troubled' = TRUE
           \/ from = current
  BY <1>4, <1>5
<1> QED
  BY <1>6 DEF current, stashes, stash

\* The way out forgets it.
LEMMA RestoreFacts ==
    ASSUME TypeInv, NEW p \in Processes, Restore(p)
    PROVE  /\ op' \in [Processes -> OpType]
           /\ Working'
           /\ op'[p].pc = "storing"
           /\ op'[p].job = op[p].job
           /\ op'[p].action = op[p].action
           /\ op'[p].outcome = op[p].outcome
           /\ op[p].job \in Jobs
           /\ op[p].pc = "restoring"
           /\ \A q \in Processes : q # p => op'[q] = op[q]
<1> DEFINE o == [op[p] EXCEPT !.pc = "storing", !.from = "none", !.stashed = FALSE]
<1>1. op[p] \in OpType /\ op[p].job \in Jobs /\ op[p].pc = "restoring"
  BY DEF TypeInv, TypeOK, Working, Restore
<1>2. /\ o \in OpType /\ o.pc = "storing" /\ o.job = op[p].job
      /\ o.action = op[p].action /\ o.outcome = op[p].outcome
  BY <1>1 DEF OpType
<1>3. Put(p, o)
  BY DEF Restore
<1> HIDE DEF o
<1>4. /\ op' \in [Processes -> OpType]
      /\ Working'
      /\ op'[p] = o
      /\ \A q \in Processes : q # p => op'[q] = op[q]
  BY <1>1, <1>2, <1>3, PutFacts
<1> QED
  BY <1>1, <1>2, <1>4

\* The ways a merge in a checkout goes.
MixOutcome(p) ==
    \E outcome \in {"merged", "conflict", "unresolved"},
       at \in {main.at, "base", "midway"} :
        /\ MoveWith(p, "recording", outcome)
        /\ main' = [main EXCEPT !.at = at]
        /\ at = "midway" => main.at = "midway" \/ troubled' = TRUE
        /\ outcome = "merged" => base' = base \cup Mixed(p)
        /\ \E picked \in SUBSET Mixed(p) : base' = base \cup picked

LEMMA MixCases ==
    ASSUME NEW p \in Processes, Mix(p)
    PROVE  MixOutcome(p)
<1> DEFINE Grows == \E picked \in SUBSET Mixed(p) : base' = base \cup picked
<1>1. ASSUME UNCHANGED base PROVE Grows
  <2>1. {} \in SUBSET Mixed(p) /\ base' = base \cup {}
    BY <1>1
  <2> QED
    BY <2>1
<1>2. ASSUME base' = base \cup Mixed(p) PROVE Grows
  BY <1>2
<1>3. ASSUME NEW picked \in Partly(p), base' = base \cup picked PROVE Grows
  <2>1. picked \in SUBSET Mixed(p)
    BY <1>3 DEF Partly
  <2> QED
    BY <1>3, <2>1
<1> HIDE DEF Grows
<1>4. \E outcome \in {"merged", "conflict", "unresolved"},
         at \in {main.at, "base", "midway"} :
        /\ MoveWith(p, "recording", outcome)
        /\ main' = [main EXCEPT !.at = at]
        /\ at = "midway" => main.at = "midway" \/ troubled' = TRUE
        /\ outcome = "merged" => base' = base \cup Mixed(p)
        /\ Grows
  BY <1>1, <1>2, <1>3 DEF Mix
<1> QED
  BY <1>4 DEF Grows, MixOutcome

\* Everything starts idle.
LEMMA InitTypes == Init => TypeInv
<1> SUFFICES ASSUME Init PROVE TypeInv
  OBVIOUS
<1>1. op \in [Processes -> OpType] /\ Working
  BY OpRecords, NoJobAssumption DEF Init, Working
<1>2. main \in Directory
  BY HomeAssumption DEF Init, Directory
<1> QED
  BY <1>1, <1>2
  DEF Init, TypeInv, TypeOK, Resolution, FinalResolutions, MergeStatus, JobState

\* What the operator does to a busy job is counted.
LEMMA OverlapsType ==
    ASSUME TypeOK, NEW j \in Jobs, Overlaps(j)
    PROVE  faults' \in Nat /\ disturbed' \subseteq Jobs /\ crashed' \in BOOLEAN
  BY DEF TypeOK, Overlaps, Fault

\* What git does to the main directory keeps its type.
LEMMA DirectoryTypes ==
    ASSUME NEW dir \in Directory, NEW o \in OpType
    PROVE  /\ Reset(dir) \in Directory
           /\ Stash(dir) \in Directory
           /\ Back(o, dir) \in Directory
           /\ Popped(o, dir) \in Directory
           /\ Restored(o, dir) \in Directory
           /\ \A at \in {"base", "other", "midway"} : [dir EXCEPT !.at = at] \in Directory
<1>1. /\ Reset(dir) \in Directory /\ Stash(dir) \in Directory
      /\ \A at \in {"base", "other", "midway"} : [dir EXCEPT !.at = at] \in Directory
  BY DEF Directory, Reset, Stash
<1>2. \A d \in Directory : Back(o, d) \in Directory /\ Popped(o, d) \in Directory
  BY DEF Directory, Back, Popped, OpType
<1> QED
  BY <1>1, <1>2 DEF Restored

\* A merge puts commits on the base branch.
LEMMA MixedType ==
    ASSUME TypeOK, NEW p \in Processes, op[p].job \in Jobs
    PROVE  Mixed(p) \subseteq Commit
<1>1. branch[op[p].job] \subseteq Commit
  BY DEF TypeOK
<1>2. \A c \in Commit : [c EXCEPT !.picked = TRUE] \in Commit
  BY DEF Commit
<1> QED
  BY <1>1, <1>2 DEF Mixed

\* A git command that is cut short puts no less and no more on the base.
LEMMA CutShortBase ==
    ASSUME NEW p, NEW dir, CutShort(op[p], p, dir)
    PROVE  \/ \E picked \in SUBSET Mixed(p) : base' = base \cup picked
           \/ op[p].pc = "advancing" /\ base' = op[p].sha
<1> DEFINE Grows == \E picked \in SUBSET Mixed(p) : base' = base \cup picked
<1>1. ASSUME base' = base PROVE Grows
  <2>1. {} \in SUBSET Mixed(p) /\ base' = base \cup {}
    BY <1>1
  <2> QED
    BY <2>1
<1>2. ASSUME base' = base \cup Mixed(p) PROVE Grows
  BY <1>2
<1>3. ASSUME NEW picked \in Partly(p), base' = base \cup picked PROVE Grows
  <2>1. picked \in SUBSET Mixed(p)
    BY <1>3 DEF Partly
  <2> QED
    BY <1>3, <2>1
<1> HIDE DEF Grows
<1>4. \/ base' = base \/ base' = base \cup Mixed(p)
      \/ \E picked \in Partly(p) : base' = base \cup picked
      \/ op[p].pc = "advancing" /\ base' = op[p].sha
  BY Zenon DEF CutShort
<1>5. Grows \/ (op[p].pc = "advancing" /\ base' = op[p].sha)
  BY <1>1, <1>2, <1>3, <1>4
<1> QED
  BY <1>5 DEF Grows

\* What goes wrong in git is counted, and noted.
LEMMA TroubleTypes ==
    ASSUME TypeOK, NEW p \in Processes, Save(p) \/ Mix(p) \/ Restore(p)
    PROVE  faults' \in Nat /\ troubled' \in BOOLEAN
<1>1. faults' = faults \/ faults' = faults + 1
  BY Zenon DEF Save, Mix, Restore, Fault
<1>2. troubled' = troubled \/ troubled' = TRUE
  BY Zenon DEF Save, Mix, Restore
<1>3. faults' \in Nat
  BY <1>1 DEF TypeOK
<1>4. troubled' \in BOOLEAN
  BY <1>2, Zenon DEF TypeOK
<1> QED
  BY <1>3, <1>4

LEMMA CutShortType ==
    ASSUME TypeInv, NEW p \in Processes, op[p].job \in Jobs,
           NEW dir, CutShort(op[p], p, dir)
    PROVE  base' \subseteq Commit
<1>1. op[p].sha \subseteq Commit /\ base \subseteq Commit
  BY DEF TypeInv, TypeOK, OpType
<1>2. Mixed(p) \subseteq Commit
  BY MixedType DEF TypeInv
<1> QED
  BY <1>1, <1>2, CutShortBase

\* Losing a branch and its worktree, or the worktree only, or committing.
LEMMA LocalTypes ==
    ASSUME TypeOK, NEW j \in Jobs,
           \/ Gone(j) \/ RemoveTree(j) \/ UNCHANGED local
           \/ Commits(j) /\ UNCHANGED <<trees, branches>>
    PROVE  /\ branch' \in [Jobs -> SUBSET Commit]
           /\ branches' \subseteq Jobs
           /\ edits' \in [Jobs -> SUBSET Commit]
           /\ trees' \subseteq Jobs
  BY DEF TypeOK, Gone, RemoveTree, Commits, local

\* What a commit that fails leaves out are sessions.
LEMMA CommitsTypes ==
    ASSUME TypeOK, NEW j \in Jobs, Commits(j)
    PROVE  /\ missed' \in [Jobs -> SUBSET Nat]
           /\ faults' \in Nat
           /\ UNCHANGED <<made, disturbed, crashed, troubled>>
<1>1. Uncommitted(j) \subseteq Nat
  BY DEF TypeOK, Uncommitted, Commit
<1> QED
  BY <1>1 DEF TypeOK, Commits, Fault

\* Every step keeps the types.
LEMMA TypeNext == TypeInv /\ [Next]_vars => TypeInv'
<1> SUFFICES ASSUME TypeInv, [Next]_vars PROVE TypeInv'
  OBVIOUS
<1>t. TypeOK
  BY DEF TypeInv
<1>l. /\ \A pc \in {"closing", "locking", "opening", "noting", "storing",
                    "saving", "mixing", "tidying", "recording", "restoring",
                    "snapshot"} : pc \in Places
      /\ {"merged", "pr_created", "discarded", "unresolved", "conflict"}
           \subseteq Resolution
  BY DEF Places, Locked, Resolution, FinalResolutions
<1>1. ASSUME NEW p \in Processes, Discard(p) PROVE TypeInv'
  <2>1. op' \in [Processes -> OpType] /\ Working' /\ op[p].job \in Jobs
    BY <1>1, <1>l, MoveWithFacts DEF Discard
  <2>2. TypeOK'
    BY <1>1, <1>t, <2>1, LocalTypes DEF Discard, TypeOK, row, platform
  <2> QED
    BY <2>1, <2>2 DEF TypeInv
<1>2. ASSUME NEW p \in Processes, AskPr(p) PROVE TypeInv'
  <2>1. op' \in [Processes -> OpType] /\ Working' /\ op[p].job \in Jobs
    BY <1>2, <1>l, MoveFacts, MoveWithFacts DEF AskPr
  <2>2. TypeOK'
    BY <1>2, <1>t, <2>1, LocalTypes DEF AskPr, TypeOK, row, platform, history, achieved
  <2> QED
    BY <2>1, <2>2 DEF TypeInv
<1>3. ASSUME NEW p \in Processes, OpenPr(p) PROVE TypeInv'
  <2>1. op' \in [Processes -> OpType] /\ Working' /\ op[p].job \in Jobs
    <3>1. PICK opens : Answer(p, opens)
      BY <1>3 DEF OpenPr
    <3>2. MoveWith(p, "noting", "pr_created") \/ MoveWith(p, "noting", "unresolved")
      BY <3>1 DEF Answer
    <3> QED
      BY <1>3, <1>l, <3>2, MoveWithFacts DEF OpenPr
  <2>2. TypeOK'
    BY <1>3, <1>t, <2>1 DEF OpenPr, Push, Answer, Fault, TypeOK, row, local, achieved
  <2> QED
    BY <2>1, <2>2 DEF TypeInv
<1>4. ASSUME NEW p \in Processes, NotePr(p) PROVE TypeInv'
  <2>1. op' \in [Processes -> OpType] /\ Working' /\ op[p].job \in Jobs
    BY <1>4, <1>l, MoveFacts, EndFacts DEF NotePr, TypeInv, Working
  <2>2. TypeOK'
    BY <1>4, <1>t, <2>1, LocalTypes DEF NotePr, TypeOK, MergeStatus, platform, history, achieved
  <2> QED
    BY <2>1, <2>2 DEF TypeInv
<1>5. ASSUME NEW p \in Processes, AutoCommit(p) PROVE TypeInv'
  <2>1. op' \in [Processes -> OpType] /\ Working' /\ op[p].job \in Jobs
    BY <1>5, <1>l, MoveFacts DEF AutoCommit
  <2>2. TypeOK'
    BY <1>5, <1>t, <2>1, LocalTypes, CommitsTypes DEF AutoCommit, TypeOK, row, platform
  <2> QED
    BY <2>1, <2>2 DEF TypeInv
<1>6. ASSUME NEW p \in Processes, TakeLock(p) PROVE TypeInv'
  <2>1. op' \in [Processes -> OpType] /\ Working'
    BY <1>6, EnterFacts DEF TakeLock
  <2>2. TypeOK'
    BY <1>6, <1>t, <2>1 DEF TakeLock, Enter, Fault, TypeOK, row, local, platform, achieved
  <2> QED
    BY <2>1, <2>2 DEF TypeInv
<1>7. ASSUME NEW p \in Processes, AdvanceBase(p) PROVE TypeInv'
  <2>1. op' \in [Processes -> OpType] /\ Working' /\ op[p].sha \in SUBSET Commit
    BY <1>7, AdvanceFacts
  <2>2. main' \in Directory
    <3>1. main' = Reset(main) \/ main' = main
      BY <1>7 DEF AdvanceBase
    <3>2. main \in Directory
      BY <1>t DEF TypeOK
    <3>3. Reset(main) \in Directory
      BY <3>2, DirectoryTypes, OpRecords
    <3> QED
      BY <3>1, <3>2, <3>3
  <2>3. faults' \in Nat
    BY <1>7, <1>t DEF AdvanceBase, Fault, TypeOK
  <2>4. TypeOK'
    BY <1>7, <1>t, <2>1, <2>2, <2>3
    DEF AdvanceBase, TypeOK, row, local, platform, achieved
  <2> QED
    BY <2>1, <2>4 DEF TypeInv
<1>8. ASSUME NEW p \in Processes, Mix(p) PROVE TypeInv'
  <2>1. PICK outcome \in {"merged", "conflict", "unresolved"},
             at \in {main.at, "base", "midway"},
             picked \in SUBSET Mixed(p) :
          /\ MoveWith(p, "recording", outcome)
          /\ main' = [main EXCEPT !.at = at]
          /\ base' = base \cup picked
    BY <1>8, MixCases DEF MixOutcome
  <2>2. op' \in [Processes -> OpType] /\ Working' /\ op[p].job \in Jobs
    BY <1>8, <1>l, <2>1, MoveWithFacts DEF Mix
  <2>4. base' \subseteq Commit
    BY <1>t, <2>1, <2>2, MixedType DEF TypeOK
  <2>5. main' \in Directory
    <3>1. main \in Directory /\ main.at \in {"base", "other", "midway"}
      BY <1>t DEF TypeOK, Directory
    <3> QED
      BY <2>1, <3>1, DirectoryTypes, OpRecords
  <2>6. faults' \in Nat /\ troubled' \in BOOLEAN
    BY <1>8, <1>t, TroubleTypes
  <2>7. TypeOK'
    BY <1>8, <1>t, <2>2, <2>4, <2>5, <2>6 DEF Mix, TypeOK, row, local, platform, achieved
  <2> QED
    BY <2>2, <2>7 DEF TypeInv
<1>9. ASSUME NEW p \in Processes, RecordMerge(p) PROVE TypeInv'
  <2>1. op' \in [Processes -> OpType] /\ Working' /\ op[p].job \in Jobs
    BY <1>9, <1>l, MoveFacts DEF RecordMerge
  <2>2. op[p].outcome \in {"merged", "conflict", "unresolved"}
    BY <1>9 DEF RecordMerge, TypeInv, Working
  <2>3. mergeStatus' \in [Jobs -> MergeStatus]
    BY <1>9, <1>t, <2>1, <2>2 DEF RecordMerge, TypeOK, MergeStatus
  <2>5. TypeOK'
    BY <1>9, <1>t, <2>1, <2>3 DEF RecordMerge, TypeOK, local, platform, history, achieved
  <2> QED
    BY <2>1, <2>5 DEF TypeInv
<1>10. ASSUME NEW p \in Processes, TidyUp(p) PROVE TypeInv'
  <2>1. op' \in [Processes -> OpType] /\ Working' /\ op[p].job \in Jobs
    BY <1>10, <1>l, MoveFacts DEF TidyUp
  <2>3. TypeOK'
    BY <1>10, <1>t, <2>1, LocalTypes DEF TidyUp, TypeOK, row, platform, history, achieved
  <2> QED
    BY <2>1, <2>3 DEF TypeInv
<1>23. ASSUME NEW p \in Processes, Save(p) PROVE TypeInv'
  <2>1. op' \in [Processes -> OpType] /\ Working'
    <3>1. op[p].pc = "saving"
      BY <1>23 DEF Save
    <3>2. PICK from \in {"base", "other", "none"}, stashed \in BOOLEAN :
            Put(p, SaveKeeps(op[p], from, stashed))
      BY <1>23, SaveCases
    <3> QED
      BY <3>1, <3>2, SaveFacts
  <2>2. main' \in Directory
    <3>1. main' = Stash(main) \/ main' = main
      BY <1>23 DEF Save
    <3>2. main \in Directory
      BY <1>t DEF TypeOK
    <3>3. Stash(main) \in Directory
      BY <3>2, DirectoryTypes, OpRecords
    <3> QED
      BY <3>1, <3>2, <3>3
  <2>3. faults' \in Nat /\ troubled' \in BOOLEAN
    BY <1>23, <1>t, TroubleTypes
  <2>4. TypeOK'
    BY <1>23, <1>t, <2>1, <2>2, <2>3 DEF Save, TypeOK, row, local, platform, achieved
  <2> QED
    BY <2>1, <2>4 DEF TypeInv
<1>24. ASSUME NEW p \in Processes, Restore(p) PROVE TypeInv'
  <2>1. op' \in [Processes -> OpType] /\ Working' /\ op[p] \in OpType
    BY <1>24, <1>t, RestoreFacts DEF TypeOK
  <2>2. main' \in Directory
    <3>1. main' \in {Restored(op[p], main), Popped(op[p], main), Back(op[p], main)}
      BY <1>24 DEF Restore
    <3>2. main \in Directory
      BY <1>t DEF TypeOK
    <3>3. {Restored(op[p], main), Popped(op[p], main), Back(op[p], main)} \subseteq Directory
      BY <2>1, <3>2, DirectoryTypes
    <3> QED
      BY <3>1, <3>3
  <2>3. faults' \in Nat /\ troubled' \in BOOLEAN
    BY <1>24, <1>t, TroubleTypes
  <2>4. TypeOK'
    BY <1>24, <1>t, <2>1, <2>2, <2>3 DEF Restore, TypeOK, row, local, platform, achieved
  <2> QED
    BY <2>1, <2>4 DEF TypeInv
<1>11. ASSUME NEW p \in Processes, Store(p) PROVE TypeInv'
  <2>j. op[p].job \in Jobs /\ op[p].outcome \in Resolution
    BY <1>11 DEF Store, TypeInv, TypeOK, Working, OpType
  <2>1. op' \in [Processes -> OpType] /\ Working'
    BY <1>11, <2>j, OpRecords, PutFacts, EndFacts DEF Store
  <2>2. state' \in [Jobs -> JobState]
    <3>1. \A s \in JobState : TransitionOr(s, "failed") \in JobState
      BY DEF TransitionOr, JobState
    <3>2. \/ state' = [state EXCEPT ![op[p].job] = "completed"]
          \/ state' = [state EXCEPT ![op[p].job] = TransitionOr(@, "failed")]
          \/ state' = [state EXCEPT ![op[p].job] = @]
      BY <1>11, Zenon DEF Store
    <3>3. "completed" \in JobState
      BY DEF JobState
    <3> QED
      BY <1>t, <2>j, <3>1, <3>2, <3>3 DEF TypeOK
  <2>3. resolution' \in [Jobs -> Resolution] /\ prUrl' \in [Jobs -> BOOLEAN]
    BY <1>11, <1>t, <2>j DEF Store, TypeOK
  <2>4. TypeOK'
    BY <1>11, <1>t, <2>1, <2>2, <2>3 DEF Store, TypeOK, local, platform, history, achieved
  <2> QED
    BY <2>1, <2>4 DEF TypeInv
<1>12. ASSUME NEW j \in Jobs, AgentWorks(j) PROVE TypeInv'
  <2>1. Work(j, session[j]) \in Commit
    BY <1>t DEF Work, Commit, TypeOK
  <2>2. edits' \in [Jobs -> SUBSET Commit] /\ made' \in [Jobs -> SUBSET Nat]
    BY <1>12, <1>t, <2>1 DEF AgentWorks, TypeOK
  <2>3. TypeOK' /\ op' = op
    BY <1>12, <1>t, <2>2 DEF AgentWorks, TypeOK, row, platform
  <2> QED
    BY <2>3 DEF TypeInv, Working
<1>13. ASSUME NEW j \in Jobs, AgentAsksForPr(j) PROVE TypeInv'
  <2> DEFINE o == [Begin(j, "agent_pr") EXCEPT !.pc = "opening"]
  <2>1. o \in OpType /\ o.pc = "opening" /\ o.job = j
    BY DEF Begin, Idle, OpType, Resolution
  <2>2. Put(j, o) /\ j \in Processes
    BY <1>13 DEF AgentAsksForPr, Processes
  <2> HIDE DEF o
  <2>3. op' \in [Processes -> OpType] /\ Working'
    BY <2>1, <2>2, PutFacts
  <2>4. TypeOK'
    BY <1>13, <1>t, <2>3 DEF AgentAsksForPr, TypeOK, row, local, platform, history, achieved
  <2> QED
    BY <2>3, <2>4 DEF TypeInv
<1>14. ASSUME NEW j \in Jobs, FinishSession(j) PROVE TypeInv'
  <2>1. Put(j, Begin(j, "merge")) \/ Put(j, Closing(j))
    BY <1>14 DEF FinishSession
  <2>2. op' \in [Processes -> OpType] /\ Working'
    BY <2>1, BeginFacts DEF Processes, Actions
  <2>3. TypeOK'
    BY <1>14, <1>t, <2>2, <1>l DEF FinishSession, TypeOK, local, platform, history, achieved, JobState
  <2> QED
    BY <2>2, <2>3 DEF TypeInv
<1>15. ASSUME NEW j \in Jobs, CloseLastStep(j) PROVE TypeInv'
  <2>1. op' \in [Processes -> OpType] /\ Working'
    BY <1>15, EndFacts DEF CloseLastStep, Processes
  <2>2. TypeOK'
    BY <1>15, <1>t, <2>1, LocalTypes, CommitsTypes DEF CloseLastStep, TypeOK, row, platform
  <2> QED
    BY <2>1, <2>2 DEF TypeInv
<1>16. ASSUME NEW j \in Jobs, NEW r \in Requests, NEW a \in Actions, Resolve(r, j, a)
       PROVE TypeInv'
  <2>1. op' \in [Processes -> OpType] /\ Working'
    BY <1>16, BeginFacts DEF Resolve, Processes
  <2>2. TypeOK'
    BY <1>16, <1>t, <2>1, OverlapsType DEF Resolve, TypeOK, row, local, platform, achieved
  <2> QED
    BY <2>1, <2>2 DEF TypeInv
<1>17. ASSUME NEW j \in Jobs, Cancel(j) PROVE TypeInv'
  <2>1. op' \in [Processes -> OpType] /\ Working'
    BY <1>17, EndFacts DEF Cancel, Processes, TypeInv, TypeOK, Working
  <2>2. main' \in Directory /\ base' \subseteq Commit /\ lock' \in Processes \cup {NoOne}
        /\ troubled' \in BOOLEAN
    <3>1. CASE UNCHANGED <<base, lock, main, troubled>>
      BY <1>t, <3>1 DEF TypeOK
    <3>2. CASE op[j].pc # "idle" /\ Interrupt(j)
      <4>1. PICK dir \in Directory :
              /\ CutShort(op[j], j, dir)
              /\ main' \in {dir, Restored(op[j], dir)}
        BY <3>2 DEF Interrupt
      <4>2. j \in Processes /\ op[j] \in OpType /\ op[j].job \in Jobs
        BY <1>t, <3>2 DEF TypeInv, TypeOK, Working, Processes
      <4>3. main' \in Directory /\ base' \subseteq Commit
        BY <4>1, <4>2, CutShortType, DirectoryTypes
      <4>4. lock' = NoOne /\ troubled' \in BOOLEAN
        BY <1>t, <3>2 DEF Interrupt, TypeOK
      <4> QED
        BY <4>3, <4>4
    <3> QED
      BY <1>17, <3>1, <3>2 DEF Cancel
  <2>4. TypeOK'
    BY <1>17, <1>t, <2>1, <2>2, OverlapsType
    DEF Cancel, TypeOK, local, platform, JobState, achieved
  <2> QED
    BY <2>1, <2>4 DEF TypeInv
<1>18. ASSUME NEW j \in Jobs, ResumeJob(j) PROVE TypeInv'
  BY <1>18, <1>t, OverlapsType
  DEF ResumeJob, TypeInv, TypeOK, Working, platform, achieved
<1>19. ASSUME NEW j \in Jobs, ResetRow(j) PROVE TypeInv'
  BY <1>19, <1>t
  DEF ResetRow, TypeInv, TypeOK, Working, local, platform, history, achieved, JobState,
      Resolution, MergeStatus
<1>20. ASSUME NEW j \in Jobs, Archive(j) PROVE TypeInv'
  BY <1>20, <1>t, OverlapsType, LocalTypes DEF Archive, TypeInv, TypeOK, Working, row, platform
<1>21. ASSUME Crash PROVE TypeInv'
  <2>1. op' = [p \in Processes |-> Idle]
    BY <1>21 DEF Crash
  <2>2. op' \in [Processes -> OpType] /\ Working'
    BY <2>1, OpRecords, NoJobAssumption DEF Working
  <2>3. main' \in Directory /\ base' \subseteq Commit
    <3>1. CASE UNCHANGED <<base, main>>
      BY <1>t, <3>1 DEF TypeOK
    <3>2. CASE lock # NoOne /\ \E dir \in Directory : CutShort(op[lock], lock, dir) /\ main' = dir
      <4>1. PICK dir \in Directory : CutShort(op[lock], lock, dir) /\ main' = dir
        BY <3>2
      <4>2. lock \in Processes
        BY <1>t, <3>2 DEF TypeOK
      <4>3. base' \subseteq Commit
        <5>1. CASE op[lock].job \in Jobs
          BY <4>1, <4>2, <5>1, CutShortType
        <5>2. CASE op[lock].job \notin Jobs
          <6>1. op[lock].pc = "idle"
            BY <4>2, <5>2 DEF TypeInv, Working
          <6> QED
            BY <1>t, <4>1, <6>1 DEF CutShort, TypeOK
        <5> QED
          BY <5>1, <5>2
      <4> QED
        BY <4>1, <4>3
    <3> QED
      BY <1>21, <3>1, <3>2 DEF Crash
  <2>4. TypeOK'
    BY <1>21, <1>t, <2>2, <2>3
    DEF Crash, Fault, TypeOK, row, local, platform, achieved
  <2> QED
    BY <2>2, <2>4 DEF TypeInv
<1>22. CASE UNCHANGED vars
  BY <1>22 DEF vars, TypeInv, TypeOK, Working, row, local, platform, history, achieved
<1> QED
  BY <1>1, <1>2, <1>3, <1>4, <1>5, <1>6, <1>7, <1>8, <1>9, <1>10, <1>11,
     <1>12, <1>13, <1>14, <1>15, <1>16, <1>17, <1>18, <1>19, <1>20, <1>21,
     <1>22, <1>23, <1>24
  DEF Next, ResolveStep, SessionStep, OperatorStep

\* Every variable of Merge keeps its type: no column, ref or step ever holds a
\* value the code does not know.
THEOREM TypeCorrect == Spec => []TypeOK
<1>1. Spec => []TypeInv
  BY InitTypes, TypeNext, PTL DEF Spec
<1>2. TypeInv => TypeOK
  BY DEF TypeInv
<1> QED
  BY <1>1, <1>2, PTL

-----------------------------------------------------------------------------
(* The lock, the base branch and the main directory.                       *)

\* The tip that a fast-forward is about to set holds what the base has: the
\* base does not move while another process has the lock.
Advancing ==
    \A p \in Processes : op[p].pc = "advancing" => base \subseteq op[p].sha

LockInv == LockFollowsMerge /\ Advancing

\* A step before the lock is taken or after it has been given back.
LEMMA OutsideStep ==
    ASSUME LockInv, NEW p \in Processes,
           op[p].pc \notin Locked, op'[p].pc \notin Locked,
           \A q \in Processes : q # p => op'[q] = op[q],
           UNCHANGED <<lock, base>>
    PROVE  LockInv'
  BY DEF LockInv, LockFollowsMerge, Advancing, Locked

\* A step of a merge that keeps the lock.
LEMMA InsideStep ==
    ASSUME LockInv, NEW p \in Processes,
           op[p].pc \in Locked, op'[p].pc \in Locked \ {"advancing"},
           \A q \in Processes : q # p => op'[q] = op[q],
           UNCHANGED lock
    PROVE  LockInv'
<1>1. lock = p /\ p # NoOne
  BY ProcessAssumption DEF LockInv, LockFollowsMerge, Processes
<1>2. \A q \in Processes : q # p => op'[q].pc \notin Locked
  BY <1>1 DEF LockInv, LockFollowsMerge
<1> QED
  BY <1>1, <1>2 DEF LockInv, LockFollowsMerge, Advancing, Locked

\* A merge that gives the lock back.
LEMMA ReleaseStep ==
    ASSUME LockInv, NEW p \in Processes,
           op[p].pc \in Locked, op'[p].pc \notin Locked,
           \A q \in Processes : q # p => op'[q] = op[q],
           lock' = NoOne
    PROVE  LockInv'
<1>1. lock = p
  BY DEF LockInv, LockFollowsMerge
<1>2. \A q \in Processes : op'[q].pc \notin Locked /\ NoOne # q
  BY <1>1, ProcessAssumption DEF LockInv, LockFollowsMerge, Processes
<1> QED
  BY <1>2 DEF LockInv, LockFollowsMerge, Advancing, Locked

\* At first no process is under way.
LEMMA LockInit == Init => LockInv
  BY OpRecords, ProcessAssumption
  DEF Init, LockInv, LockFollowsMerge, Advancing, Locked, Processes

\* Every step keeps the lock with the merge that took it.
LEMMA LockNext == TypeInv /\ LockInv /\ [Next]_vars => LockInv'
<1> SUFFICES ASSUME TypeInv, LockInv, [Next]_vars PROVE LockInv'
  OBVIOUS
<1>l. /\ \A pc \in {"closing", "locking", "opening", "noting", "storing",
                    "saving", "mixing", "tidying", "recording", "restoring",
                    "snapshot"} : pc \in Places
      /\ {"merged", "pr_created", "discarded", "unresolved", "conflict"}
           \subseteq Resolution
      /\ {"idle", "closing", "locking", "opening", "noting", "storing", "snapshot"}
           \cap Locked = {}
      /\ {"saving", "recording", "tidying", "mixing", "restoring"}
           \subseteq Locked \ {"advancing"}
      /\ "advancing" \in Locked
  BY DEF Places, Locked, Resolution, FinalResolutions
<1>1. ASSUME NEW p \in Processes, Discard(p) PROVE LockInv'
  <2>1. /\ op[p].pc = "snapshot" /\ op'[p].pc = "storing"
        /\ \A q \in Processes : q # p => op'[q] = op[q]
    BY <1>1, <1>l, MoveWithFacts DEF Discard
  <2> QED
    BY <1>1, <1>l, <2>1, OutsideStep DEF Discard
<1>2. ASSUME NEW p \in Processes, AskPr(p) PROVE LockInv'
  <2>1. /\ op[p].pc = "snapshot" /\ op'[p].pc \in {"opening", "storing"}
        /\ \A q \in Processes : q # p => op'[q] = op[q]
    <3>1. CASE Move(p, "opening")
      BY <1>2, <1>l, <3>1, MoveFacts DEF AskPr
    <3>2. CASE MoveWith(p, "storing", "pr_created")
      BY <1>2, <1>l, <3>2, MoveWithFacts DEF AskPr
    <3> QED
      BY <1>2, <3>1, <3>2 DEF AskPr
  <2> QED
    BY <1>2, <1>l, <2>1, OutsideStep DEF AskPr, history, achieved
<1>3. ASSUME NEW p \in Processes, OpenPr(p) PROVE LockInv'
  <2>1. MoveWith(p, "noting", "pr_created") \/ MoveWith(p, "noting", "unresolved")
    <3>1. PICK opens : Answer(p, opens)
      BY <1>3 DEF OpenPr
    <3> QED
      BY <3>1 DEF Answer
  <2>2. /\ op[p].pc = "opening" /\ op'[p].pc = "noting"
        /\ \A q \in Processes : q # p => op'[q] = op[q]
    BY <1>3, <1>l, <2>1, MoveWithFacts DEF OpenPr
  <2> QED
    BY <1>3, <1>l, <2>2, OutsideStep DEF OpenPr
<1>4. ASSUME NEW p \in Processes, NotePr(p) PROVE LockInv'
  <2>1. /\ op[p].pc = "noting" /\ op'[p].pc \in {"idle", "storing"}
        /\ \A q \in Processes : q # p => op'[q] = op[q]
    <3>1. CASE Move(p, "storing")
      BY <1>4, <1>l, <3>1, MoveFacts DEF NotePr
    <3>2. CASE End(p)
      BY <1>4, <3>2, EndFacts, OpRecords DEF NotePr
    <3> QED
      BY <1>4, <3>1, <3>2 DEF NotePr
  <2> QED
    BY <1>4, <1>l, <2>1, OutsideStep DEF NotePr, history, achieved
<1>5. ASSUME NEW p \in Processes, AutoCommit(p) PROVE LockInv'
  <2>1. /\ op[p].pc = "snapshot" /\ op'[p].pc = "locking"
        /\ \A q \in Processes : q # p => op'[q] = op[q]
    BY <1>5, <1>l, MoveFacts DEF AutoCommit
  <2> QED
    BY <1>5, <1>l, <2>1, OutsideStep DEF AutoCommit
<1>6. ASSUME NEW p \in Processes, TakeLock(p) PROVE LockInv'
  <2>1. /\ op'[p].pc \in {"advancing", "saving"}
        /\ op'[p].pc = "advancing" => base \subseteq op'[p].sha
        /\ \A q \in Processes : q # p => op'[q] = op[q]
    BY <1>6, EnterFacts DEF TakeLock
  <2>2. lock = NoOne /\ lock' = p /\ p # NoOne /\ base' = base
    BY <1>6, ProcessAssumption DEF TakeLock, Enter, Processes
  <2>3. \A q \in Processes : q # p => op'[q].pc \notin Locked
    BY <2>1, <2>2, ProcessAssumption DEF LockInv, LockFollowsMerge, Processes
  <2> QED
    BY <1>l, <2>1, <2>2, <2>3 DEF LockInv, LockFollowsMerge, Advancing
<1>7. ASSUME NEW p \in Processes, AdvanceBase(p) PROVE LockInv'
  <2>1. /\ op[p].pc = "advancing" /\ op'[p].pc \in {"recording", "saving"}
        /\ \A q \in Processes : q # p => op'[q] = op[q]
    BY <1>7, AdvanceFacts DEF AdvanceBase
  <2> QED
    BY <1>7, <1>l, <2>1, InsideStep DEF AdvanceBase
<1>8. ASSUME NEW p \in Processes, Mix(p) PROVE LockInv'
  <2>1. \/ MoveWith(p, "recording", "merged") \/ MoveWith(p, "recording", "conflict")
        \/ MoveWith(p, "recording", "unresolved")
    BY <1>8 DEF Mix
  <2>2. /\ op[p].pc = "mixing" /\ op'[p].pc = "recording"
        /\ \A q \in Processes : q # p => op'[q] = op[q]
    BY <1>8, <1>l, <2>1, MoveWithFacts DEF Mix
  <2> QED
    BY <1>8, <1>l, <2>2, InsideStep DEF Mix
<1>9. ASSUME NEW p \in Processes, RecordMerge(p) PROVE LockInv'
  <2>1. Move(p, "tidying") \/ Move(p, "restoring")
    BY <1>9 DEF RecordMerge
  <2>2. /\ op[p].pc = "recording" /\ lock' = lock
        /\ op'[p].pc \in {"tidying", "restoring"}
        /\ \A q \in Processes : q # p => op'[q] = op[q]
    BY <1>9, <1>l, <2>1, MoveFacts DEF RecordMerge
  <2> QED
    BY <1>l, <2>2, InsideStep
<1>10. ASSUME NEW p \in Processes, TidyUp(p) PROVE LockInv'
  <2>1. op[p].pc = "tidying"
    BY <1>10 DEF TidyUp
  <2>2. CASE Move(p, "storing") /\ lock' = NoOne
    <3>1. /\ op'[p].pc = "storing"
          /\ \A q \in Processes : q # p => op'[q] = op[q]
      BY <1>l, <2>1, <2>2, MoveFacts
    <3> QED
      BY <1>l, <2>1, <2>2, <3>1, ReleaseStep
  <2>3. CASE Move(p, "restoring") /\ UNCHANGED lock
    <3>1. /\ op'[p].pc = "restoring"
          /\ \A q \in Processes : q # p => op'[q] = op[q]
      BY <1>l, <2>1, <2>3, MoveFacts
    <3> QED
      BY <1>l, <2>1, <2>3, <3>1, InsideStep
  <2> QED
    BY <1>10, <2>2, <2>3 DEF TidyUp
<1>23. ASSUME NEW p \in Processes, Save(p) PROVE LockInv'
  <2>1. op[p].pc = "saving" /\ lock' = lock
    BY <1>23 DEF Save
  <2>2. PICK from \in {"base", "other", "none"}, stashed \in BOOLEAN :
          Put(p, SaveKeeps(op[p], from, stashed))
    BY <1>23, SaveCases
  <2>3. op'[p].pc = "mixing" /\ \A q \in Processes : q # p => op'[q] = op[q]
    BY <2>1, <2>2, SaveFacts
  <2> QED
    BY <1>l, <2>1, <2>3, InsideStep
<1>24. ASSUME NEW p \in Processes, Restore(p) PROVE LockInv'
  <2>1. /\ op[p].pc = "restoring" /\ op'[p].pc = "storing" /\ lock' = NoOne
        /\ \A q \in Processes : q # p => op'[q] = op[q]
    BY <1>24, RestoreFacts DEF Restore
  <2> QED
    BY <1>l, <2>1, ReleaseStep
<1>11. ASSUME NEW p \in Processes, Store(p) PROVE LockInv'
  <2>j. op[p].pc = "storing" /\ op[p].job \in Jobs
    BY <1>11 DEF Store, TypeInv, Working
  <2>1. /\ op'[p].pc \in {"idle", "closing"}
        /\ \A q \in Processes : q # p => op'[q] = op[q]
    BY <1>11, <2>j, OpRecords, PutFacts, EndFacts DEF Store
  <2> QED
    BY <1>11, <1>l, <2>j, <2>1, OutsideStep DEF Store, history, achieved
<1>12. ASSUME NEW j \in Jobs, AgentWorks(j) PROVE LockInv'
  BY <1>12 DEF AgentWorks, LockInv, LockFollowsMerge, Advancing
<1>13. ASSUME NEW j \in Jobs, AgentAsksForPr(j) PROVE LockInv'
  <2> DEFINE o == [Begin(j, "agent_pr") EXCEPT !.pc = "opening"]
  <2>1. o \in OpType /\ o.pc = "opening" /\ o.job = j
    BY DEF Begin, Idle, OpType, Resolution
  <2>2. Put(j, o) /\ j \in Processes /\ op[j].pc = "idle"
    BY <1>13, OpRecords DEF AgentAsksForPr, Processes
  <2> HIDE DEF o
  <2>3. op'[j].pc = "opening" /\ \A q \in Processes : q # j => op'[q] = op[q]
    BY <2>1, <2>2, PutFacts
  <2> QED
    BY <1>13, <1>l, <2>2, <2>3, OutsideStep DEF AgentAsksForPr, history, achieved
<1>14. ASSUME NEW j \in Jobs, FinishSession(j) PROVE LockInv'
  <2>1. Put(j, Begin(j, "merge")) \/ Put(j, Closing(j))
    BY <1>14 DEF FinishSession
  <2>2. /\ j \in Processes /\ op[j].pc = "idle"
        /\ op'[j].pc \in {"snapshot", "closing"}
        /\ \A q \in Processes : q # j => op'[q] = op[q]
    BY <1>14, <2>1, BeginFacts, OpRecords DEF FinishSession, Processes, Actions
  <2> QED
    BY <1>14, <1>l, <2>2, OutsideStep DEF FinishSession, history, achieved
<1>15. ASSUME NEW j \in Jobs, CloseLastStep(j) PROVE LockInv'
  <2>1. /\ j \in Processes /\ op[j].pc = "closing" /\ op'[j].pc = "idle"
        /\ \A q \in Processes : q # j => op'[q] = op[q]
    BY <1>15, EndFacts, OpRecords DEF CloseLastStep, Processes
  <2> QED
    BY <1>15, <1>l, <2>1, OutsideStep DEF CloseLastStep
<1>16. ASSUME NEW j \in Jobs, NEW r \in Requests, NEW a \in Actions, Resolve(r, j, a)
       PROVE LockInv'
  <2>1. /\ r \in Processes /\ op[r].pc = "idle" /\ op'[r].pc \in {"snapshot", "closing"}
        /\ \A q \in Processes : q # r => op'[q] = op[q]
    BY <1>16, BeginFacts, OpRecords DEF Resolve, Processes
  <2>2. UNCHANGED <<lock, base>>
    BY <1>16 DEF Resolve
  <2> QED
    BY <1>l, <2>1, <2>2, OutsideStep
<1>17. ASSUME NEW j \in Jobs, Cancel(j) PROVE LockInv'
  <2>j. j \in Processes
    BY DEF Processes
  <2>1. CASE op' = op /\ UNCHANGED <<base, lock>>
    BY <2>1 DEF LockInv, LockFollowsMerge, Advancing
  <2>2. CASE End(j) /\ lock = j /\ lock' = NoOne
    BY <1>l, <2>j, <2>2, EndFacts, OpRecords, ReleaseStep DEF LockInv, LockFollowsMerge
  <2>3. CASE End(j) /\ lock # j /\ UNCHANGED <<base, lock>>
    BY <1>l, <2>j, <2>3, EndFacts, OpRecords, OutsideStep DEF LockInv, LockFollowsMerge
  <2> QED
    BY <1>17, <2>1, <2>2, <2>3 DEF Cancel, Interrupt
<1>18. ASSUME NEW j \in Jobs, ResumeJob(j) PROVE LockInv'
  BY <1>18 DEF ResumeJob, Overlaps, LockInv, LockFollowsMerge, Advancing
<1>19. ASSUME NEW j \in Jobs, ResetRow(j) PROVE LockInv'
  BY <1>19 DEF ResetRow, LockInv, LockFollowsMerge, Advancing, history, achieved
<1>20. ASSUME NEW j \in Jobs, Archive(j) PROVE LockInv'
  BY <1>20 DEF Archive, Overlaps, LockInv, LockFollowsMerge, Advancing
<1>21. ASSUME Crash PROVE LockInv'
  <2>1. lock' = NoOne /\ op' = [p \in Processes |-> Idle]
    BY <1>21 DEF Crash
  <2> QED
    BY <1>l, <2>1, OpRecords, ProcessAssumption
    DEF LockInv, LockFollowsMerge, Advancing, Processes
<1>22. CASE UNCHANGED vars
  BY <1>22 DEF vars, history, LockInv, LockFollowsMerge, Advancing
<1> QED
  BY <1>1, <1>2, <1>3, <1>4, <1>5, <1>6, <1>7, <1>8, <1>9, <1>10, <1>11,
     <1>12, <1>13, <1>14, <1>15, <1>16, <1>17, <1>18, <1>19, <1>20, <1>21,
     <1>22, <1>23, <1>24
  DEF Next, ResolveStep, SessionStep, OperatorStep

\* Both invariants hold together.
LEMMA LockInvariance == Spec => [](TypeInv /\ LockInv)
  BY InitTypes, TypeNext, LockInit, LockNext, PTL DEF Spec

\* The repository lock is held exactly by a process inside _locked: whichever
\* way a merge ends, the lock is free for the next one.
THEOREM LockHolds == Spec => []LockFollowsMerge
<1>1. LockInv => LockFollowsMerge
  BY DEF LockInv
<1> QED
  BY <1>1, LockInvariance, PTL

\* Only a step under the lock, or its interruption, writes the base branch.
LEMMA BaseStep ==
    ASSUME Next,
           ~ \/ \E p \in Processes : AdvanceBase(p) \/ Mix(p)
             \/ \E j \in Jobs : Cancel(j)
             \/ Crash
    PROVE  base' = base
  BY DEF Next, ResolveStep, SessionStep, OperatorStep, Discard, AskPr, OpenPr,
         NotePr, AutoCommit, TakeLock, Enter, Save, RecordMerge, TidyUp, Restore,
         Store, AgentWorks, AgentAsksForPr, FinishSession, CloseLastStep, Resolve,
         ResumeJob, ResetRow, Archive

\* A git command that is cut short takes nothing off the base branch.
LEMMA CutShortGrows ==
    ASSUME LockInv, NEW p \in Processes, NEW dir, CutShort(op[p], p, dir)
    PROVE  base \subseteq base'
  BY CutShortBase DEF LockInv, Advancing

\* The base branch only grows.
LEMMA BaseUp == TypeInv /\ LockInv /\ [Next]_vars => base \subseteq base'
<1> SUFFICES ASSUME TypeInv, LockInv, Next PROVE base \subseteq base'
  BY DEF vars
<1>1. ASSUME NEW p \in Processes, AdvanceBase(p) PROVE base \subseteq base'
  BY <1>1 DEF AdvanceBase, LockInv, Advancing
<1>2. ASSUME NEW p \in Processes, Mix(p) PROVE base \subseteq base'
  BY <1>2, MixCases DEF MixOutcome
<1>3. ASSUME NEW j \in Jobs, Cancel(j) PROVE base \subseteq base'
  <2>1. CASE base' = base
    BY <2>1
  <2>2. CASE Interrupt(j)
    <3>1. PICK dir \in Directory : CutShort(op[j], j, dir)
      BY <2>2 DEF Interrupt
    <3> QED
      BY <3>1, CutShortGrows DEF Processes
  <2> QED
    BY <1>3, <2>1, <2>2 DEF Cancel
<1>4. CASE Crash
  <2>1. CASE base' = base
    BY <2>1
  <2>2. CASE lock # NoOne /\ \E dir \in Directory : CutShort(op[lock], lock, dir)
    <3>1. lock \in Processes
      BY <2>2 DEF TypeInv, TypeOK
    <3> QED
      BY <2>2, <3>1, CutShortGrows
  <2> QED
    BY <1>4, <2>1, <2>2 DEF Crash
<1> QED
  BY <1>1, <1>2, <1>3, <1>4, BaseStep

\* No merge takes off the base branch what is there: a fast-forward sets a tip
\* that was ahead of the base when it took the lock, and nobody else moves it.
THEOREM BaseGrows == Spec => BaseKeepsWork
<1>1. TypeInv /\ LockInv /\ [Next]_vars => [base \subseteq base']_vars
  BY BaseUp
<1>2. Spec => [][base \subseteq base']_vars
  BY <1>1, LockInvariance, PTL DEF Spec
<1> QED
  BY <1>2 DEF BaseKeepsWork

\* What a merge knows of how it goes: nothing is remembered before the way in,
\* and a fast-forward remembers nothing.
Flags(o) ==
    /\ o.pc \in {"snapshot", "locking", "saving"} => o.ff = FALSE /\ o.from = "none"
    /\ o.pc = "advancing" => o.ff = TRUE /\ o.from = "none"
    /\ o.pc \in {"mixing", "restoring"} => o.ff = FALSE
    /\ o.pc \in {"recording", "tidying"} /\ o.ff = TRUE => o.from = "none"
    /\ o.pc = "recording" /\ o.ff = TRUE => o.outcome = "merged"

Settled(dir) == dir.at = Home /\ dir.edits # "stashed"

\* What is away is remembered by the merge that has the lock.
Keeps(o, dir) ==
    /\ o.pc \in {"advancing", "saving"} => Settled(dir)
    /\ o.pc \in {"mixing", "recording", "tidying", "restoring"} =>
         \/ o.ff = TRUE /\ Settled(dir)
         \/ /\ o.ff = FALSE
            /\ o.from = Home
            /\ dir.at # "midway"
            /\ dir.edits = "stashed" => o.stashed = TRUE

Unharmed == ~crashed /\ ~troubled

FlagInv == \A p \in Processes : Flags(op[p])

Away ==
    Unharmed => /\ lock = NoOne => Settled(main)
                /\ \A p \in Processes : lock = p => Keeps(op[p], main)

DirInv == FlagInv /\ Away

\* What is put away comes back.
LEMMA BackHome ==
    ASSUME NEW o, NEW dir \in Directory, o.from = Home, dir.at # "midway",
           dir.edits = "stashed" => o.stashed = TRUE
    PROVE  Settled(Restored(o, dir))
<1>1. Home # "none" /\ Home # "midway"
  BY HomeAssumption
<1>2. Back(o, dir) = [dir EXCEPT !.at = Home]
  BY <1>1 DEF Back
<1>3. /\ Back(o, dir).at = Home /\ Back(o, dir).edits = dir.edits
      /\ Back(o, dir) \in Directory
  BY <1>2, HomeAssumption DEF Directory
<1> QED
  BY <1>1, <1>3 DEF Restored, Popped, Settled, Directory

\* A directory in place stays in place.
LEMMA StaysHome ==
    ASSUME NEW dir \in Directory, Settled(dir)
    PROVE  /\ Settled(Reset(dir))
           /\ \A o : o.from = "none" => Settled(Restored(o, dir))
<1>1. Settled(Reset(dir))
  BY HomeAssumption DEF Reset, Settled, Directory
<1>2. ASSUME NEW o, o.from = "none" PROVE Settled(Restored(o, dir))
  BY <1>2 DEF Restored, Popped, Back, Settled
<1> QED
  BY <1>1, <1>2

\* A step of a process that has not got the lock.
LEMMA ApartStep ==
    ASSUME LockInv, DirInv, NEW p \in Processes,
           op[p].pc \notin Locked, op'[p].pc \notin Locked, Flags(op'[p]),
           \A q \in Processes : q # p => op'[q] = op[q],
           UNCHANGED <<main, lock>>, Unharmed' => Unharmed
    PROVE  DirInv'
<1>1. lock # p
  BY DEF LockInv, LockFollowsMerge
<1>2. FlagInv'
  BY DEF DirInv, FlagInv
<1>3. Away'
  BY <1>1 DEF DirInv, Away
<1> QED
  BY <1>2, <1>3 DEF DirInv

\* A step of the merge that has the lock.
LEMMA MergeStep ==
    ASSUME LockInv, DirInv, NEW p \in Processes, op[p].pc \in Locked,
           Flags(op'[p]),
           \A q \in Processes : q # p => op'[q] = op[q],
           Unharmed' => Unharmed,
           Unharmed /\ Unharmed' /\ Keeps(op[p], main) =>
             \/ lock' = p /\ Keeps(op'[p], main')
             \/ lock' = NoOne /\ Settled(main')
    PROVE  DirInv'
<1>1. lock = p /\ NoOne \notin Processes
  BY ProcessAssumption DEF LockInv, LockFollowsMerge, Processes
<1>2. FlagInv'
  BY DEF DirInv, FlagInv
<1>3. Away'
  BY <1>1 DEF DirInv, Away
<1> QED
  BY <1>2, <1>3 DEF DirInv

\* A step that leaves the lock, the directory and the processes alone.
LEMMA IdleStep ==
    ASSUME DirInv, UNCHANGED <<main, lock, op>>, Unharmed' => Unharmed
    PROVE  DirInv'
  BY DEF DirInv, FlagInv, Away

LEMMA DirInit == Init => DirInv
<1> SUFFICES ASSUME Init PROVE DirInv
  OBVIOUS
<1>1. FlagInv
  BY OpRecords DEF Init, FlagInv, Flags
<1>2. Settled(main) /\ \A p \in Processes : lock # p
  BY ProcessAssumption DEF Init, Settled, Processes
<1> QED
  BY <1>1, <1>2 DEF DirInv, Away

\* What an interrupted merge leaves of the directory.
LEMMA InterruptHome ==
    ASSUME TypeInv, LockInv, DirInv, NEW j \in Jobs, lock = j, Interrupt(j),
           Unharmed, Unharmed'
    PROVE  Settled(main')
<1>j. j \in Processes
  BY DEF Processes
<1>1. /\ op[j].pc \in {"advancing", "recording", "tidying"}
      /\ Keeps(op[j], main) /\ Flags(op[j]) /\ main \in Directory
      /\ op[j] \in OpType
  BY <1>j DEF Interrupt, Unharmed, LockInv, LockFollowsMerge, Locked, DirInv, Away,
              FlagInv, TypeInv, TypeOK
<1>2. PICK dir \in Directory :
        /\ CutShort(op[j], j, dir)
        /\ main' = IF op[j].pc \in {"recording", "tidying"}
                   THEN Restored(op[j], dir) ELSE dir
  BY <1>1 DEF Interrupt
<1>3. CASE op[j].pc = "advancing"
  <2>1. dir \in {main, Reset(main)} /\ main' = dir
    BY <1>2, <1>3 DEF CutShort
  <2> QED
    BY <1>1, <1>3, <2>1, StaysHome DEF Keeps
<1>4. CASE op[j].pc \in {"recording", "tidying"}
  <2>1. main' = Restored(op[j], main)
    BY <1>2, <1>4 DEF CutShort
  <2>2. CASE op[j].ff = TRUE
    BY <1>1, <1>4, <2>1, <2>2, StaysHome DEF Flags, Keeps
  <2>3. CASE op[j].ff = FALSE
    BY <1>1, <1>4, <2>1, <2>3, BackHome DEF Keeps
  <2> QED
    BY <1>1, <2>2, <2>3 DEF OpType
<1> QED
  BY <1>1, <1>3, <1>4

\* Every step of a merge keeps track of what is away.
LEMMA DirMerge ==
    ASSUME TypeInv, LockInv, DirInv, NEW p \in Processes,
           TakeLock(p) \/ AdvanceBase(p) \/ Save(p) \/ Mix(p) \/ RecordMerge(p)
             \/ TidyUp(p) \/ Restore(p)
    PROVE  DirInv'
<1>f. Flags(op[p]) /\ op[p] \in OpType /\ main \in Directory
  BY DEF DirInv, FlagInv, TypeInv, TypeOK
<1>l. {"saving", "mixing", "tidying", "recording", "restoring", "storing", "locking"}
        \subseteq Places
  BY DEF Places, Locked
<1>1. CASE TakeLock(p)
  <2>1. /\ op[p].pc = "locking" /\ lock = NoOne /\ lock' = p
        /\ UNCHANGED <<main, crashed, troubled>>
    BY <1>1 DEF TakeLock, Enter
  <2>2. /\ op'[p].pc \in {"advancing", "saving"}
        /\ op'[p].pc = "saving" => op'[p].ff = FALSE
        /\ op'[p].pc = "advancing" => op'[p].ff = TRUE
        /\ op'[p].from = "none"
        /\ \A q \in Processes : q # p => op'[q] = op[q]
    <3>1. op[p].ff = FALSE /\ op[p].from = "none"
      BY <1>f, <2>1 DEF Flags
    <3>2. Enter(p)
      BY <1>1 DEF TakeLock
    <3>3. /\ op'[p].pc \in {"advancing", "saving"}
          /\ op'[p].ff = (IF op'[p].pc = "advancing" THEN TRUE ELSE op[p].ff)
          /\ op'[p].from = op[p].from
          /\ \A q \in Processes : q # p => op'[q] = op[q]
      BY <2>1, <3>2, EnterFacts
    <3> QED
      BY <3>1, <3>3
  <2>3. FlagInv'
    BY <2>2 DEF DirInv, FlagInv, Flags
  <2>4. Away'
    BY <2>1, <2>2 DEF DirInv, Away, Unharmed, Keeps
  <2> QED
    BY <2>3, <2>4 DEF DirInv
<1>2. CASE AdvanceBase(p)
  <2>1. /\ op[p].pc = "advancing" /\ UNCHANGED <<lock, crashed, troubled>>
    BY <1>2 DEF AdvanceBase
  <2>2. /\ \/ /\ op'[p].pc = "recording" /\ op'[p].outcome = "merged"
              /\ main' = Reset(main) /\ op'[p].ff = TRUE
           \/ /\ op'[p].pc = "saving" /\ op'[p].ff = FALSE /\ main' = main
        /\ op'[p].from = "none"
        /\ \A q \in Processes : q # p => op'[q] = op[q]
    BY <1>2, <1>f, <2>1, AdvanceFacts DEF Flags
  <2>3. Flags(op'[p])
    BY <2>2 DEF Flags
  <2>4. Keeps(op[p], main) => Keeps(op'[p], main')
    BY <1>f, <2>1, <2>2, StaysHome DEF Keeps
  <2>5. lock = p
    BY <2>1 DEF LockInv, LockFollowsMerge, Locked
  <2> QED
    BY <2>1, <2>2, <2>3, <2>4, <2>5, MergeStep DEF Locked, Unharmed
<1>3. CASE Save(p)
  <2>1. op[p].pc = "saving" /\ UNCHANGED <<lock, crashed>>
    BY <1>3 DEF Save
  <2>2. PICK from \in {"base", "other", "none"}, stashed \in BOOLEAN :
          /\ Put(p, SaveKeeps(op[p], from, stashed))
          /\ \/ stashed = Stashes(main) /\ main' = Stash(main)
             \/ ~stashed /\ main' = main
          /\ \/ from = "none" /\ troubled' = TRUE
             \/ from = (IF main.at = "midway" THEN "base" ELSE main.at)
    BY <1>3, SaveCases
  <2>3. /\ op'[p].pc = "mixing" /\ op'[p].ff = FALSE /\ op'[p].from = from
        /\ op'[p].stashed = stashed
        /\ \A q \in Processes : q # p => op'[q] = op[q]
    BY <1>f, <2>1, <2>2, SaveFacts DEF Flags
  <2>4. Flags(op'[p])
    BY <2>3 DEF Flags
  <2>5. ASSUME Unharmed', Keeps(op[p], main) PROVE Keeps(op'[p], main')
    <3>1. main.at = Home /\ main.at # "midway" /\ main.edits # "stashed"
      BY <2>1, <2>5, HomeAssumption DEF Keeps, Settled
    <3>2. from = Home
      BY <2>2, <2>5, <3>1 DEF Unharmed
    <3>3. main'.at # "midway" /\ (main'.edits = "stashed" => stashed = TRUE)
      BY <1>f, <2>2, <3>1 DEF Stash, Stashes, Directory
    <3> QED
      BY <2>3, <3>2, <3>3 DEF Keeps
  <2>6. lock = p
    BY <2>1 DEF LockInv, LockFollowsMerge, Locked
  <2>7. Unharmed' => Unharmed
    BY <1>3, <2>1 DEF Save, Unharmed
  <2> QED
    BY <2>1, <2>3, <2>4, <2>5, <2>6, <2>7, MergeStep DEF Locked
<1>4. CASE Mix(p)
  <2>1. op[p].pc = "mixing" /\ UNCHANGED <<lock, crashed>>
    BY <1>4 DEF Mix
  <2>2. PICK outcome \in {"merged", "conflict", "unresolved"},
             at \in {main.at, "base", "midway"} :
          /\ MoveWith(p, "recording", outcome)
          /\ main' = [main EXCEPT !.at = at]
          /\ at = "midway" => main.at = "midway" \/ troubled' = TRUE
    BY <1>4, MixCases DEF MixOutcome
  <2>3. outcome \in Resolution
    BY DEF Resolution, FinalResolutions
  <2>4. /\ op'[p].pc = "recording" /\ op'[p].ff = FALSE
        /\ op'[p].from = op[p].from /\ op'[p].stashed = op[p].stashed
        /\ \A q \in Processes : q # p => op'[q] = op[q]
    BY <1>f, <1>l, <2>1, <2>2, <2>3, MoveWithFacts DEF Flags
  <2>5. Flags(op'[p])
    BY <2>4 DEF Flags
  <2>6. ASSUME Unharmed', Keeps(op[p], main) PROVE Keeps(op'[p], main')
    <3>1. /\ op[p].from = Home /\ main.at # "midway"
          /\ main.edits = "stashed" => op[p].stashed = TRUE
      BY <1>f, <2>1, <2>6 DEF Keeps, Flags
    <3>2. main'.at # "midway" /\ main'.edits = main.edits
      BY <1>f, <2>2, <2>6, <3>1 DEF Directory, Unharmed
    <3> QED
      BY <2>4, <3>1, <3>2 DEF Keeps
  <2>7. lock = p
    BY <2>1 DEF LockInv, LockFollowsMerge, Locked
  <2>8. Unharmed' => Unharmed
    <3>1. troubled' = troubled \/ troubled' = TRUE
      BY <1>4, Zenon DEF Mix
    <3> QED
      BY <2>1, <3>1 DEF Unharmed
  <2> QED
    BY <2>1, <2>4, <2>5, <2>6, <2>7, <2>8, MergeStep DEF Locked
<1>5. CASE RecordMerge(p)
  <2>1. op[p].pc = "recording" /\ UNCHANGED <<lock, main, crashed, troubled>>
    BY <1>5 DEF RecordMerge, history
  <2>2. /\ op'[p].pc = (IF op[p].outcome = "merged" THEN "tidying" ELSE "restoring")
        /\ op'[p].ff = op[p].ff
        /\ op'[p].from = op[p].from /\ op'[p].stashed = op[p].stashed
        /\ \A q \in Processes : q # p => op'[q] = op[q]
    <3>1. CASE op[p].outcome = "merged"
      BY <1>5, <1>l, <2>1, <3>1, MoveFacts DEF RecordMerge
    <3>2. CASE op[p].outcome # "merged"
      BY <1>5, <1>l, <2>1, <3>2, MoveFacts DEF RecordMerge
    <3> QED
      BY <3>1, <3>2
  <2>3. Flags(op'[p])
    BY <1>f, <2>1, <2>2 DEF Flags, OpType
  <2>4. Keeps(op[p], main) => Keeps(op'[p], main')
    BY <2>1, <2>2 DEF Keeps
  <2>5. lock = p
    BY <2>1 DEF LockInv, LockFollowsMerge, Locked
  <2> QED
    BY <2>1, <2>2, <2>3, <2>4, <2>5, MergeStep DEF Locked, Unharmed
<1>6. CASE TidyUp(p)
  <2>1. op[p].pc = "tidying" /\ UNCHANGED <<main, crashed, troubled>>
    BY <1>6 DEF TidyUp, history
  <2>2. CASE op[p].ff = TRUE
    <3>1. Move(p, "storing") /\ lock' = NoOne
      BY <1>6, <2>2 DEF TidyUp
    <3>2. op'[p].pc = "storing" /\ \A q \in Processes : q # p => op'[q] = op[q]
      BY <1>l, <2>1, <3>1, MoveFacts
    <3>3. Flags(op'[p])
      BY <3>2 DEF Flags
    <3>4. Keeps(op[p], main) => Settled(main')
      BY <2>1, <2>2 DEF Keeps
    <3> QED
      BY <2>1, <3>1, <3>2, <3>3, <3>4, MergeStep DEF Locked, Unharmed
  <2>3. CASE op[p].ff = FALSE
    <3>1. Move(p, "restoring") /\ UNCHANGED lock
      BY <1>6, <2>3 DEF TidyUp
    <3>2. /\ op'[p].pc = "restoring" /\ op'[p].ff = FALSE
          /\ op'[p].from = op[p].from /\ op'[p].stashed = op[p].stashed
          /\ \A q \in Processes : q # p => op'[q] = op[q]
      BY <1>l, <2>1, <2>3, <3>1, MoveFacts
    <3>3. Flags(op'[p])
      BY <3>2 DEF Flags
    <3>4. Keeps(op[p], main) => Keeps(op'[p], main')
      BY <2>1, <2>3, <3>2 DEF Keeps
    <3>5. lock = p
      BY <2>1 DEF LockInv, LockFollowsMerge, Locked
    <3> QED
      BY <2>1, <3>1, <3>2, <3>3, <3>4, <3>5, MergeStep DEF Locked, Unharmed
  <2> QED
    BY <1>f, <2>2, <2>3 DEF OpType
<1>7. CASE Restore(p)
  <2>1. /\ op[p].pc = "restoring" /\ op'[p].pc = "storing"
        /\ lock' = NoOne /\ crashed' = crashed
        /\ \A q \in Processes : q # p => op'[q] = op[q]
    BY <1>7, RestoreFacts DEF Restore
  <2>2. \/ main' = Restored(op[p], main) /\ troubled' = troubled
        \/ troubled' = TRUE
    BY <1>7, Zenon DEF Restore
  <2>3. Flags(op'[p])
    BY <2>1 DEF Flags
  <2>4. Keeps(op[p], main) => Settled(Restored(op[p], main))
    BY <1>f, <2>1, BackHome DEF Keeps, Flags
  <2>5. Unharmed' => Unharmed /\ main' = Restored(op[p], main)
    BY <2>1, <2>2 DEF Unharmed
  <2> QED
    BY <2>1, <2>3, <2>4, <2>5, MergeStep DEF Locked
<1> QED
  BY <1>1, <1>2, <1>3, <1>4, <1>5, <1>6, <1>7

\* Every step keeps track of what is away.
LEMMA DirNext == TypeInv /\ LockInv /\ DirInv /\ [Next]_vars => DirInv'
<1> SUFFICES ASSUME TypeInv, LockInv, DirInv, [Next]_vars PROVE DirInv'
  OBVIOUS
<1>l. /\ \A pc \in {"closing", "locking", "opening", "noting", "storing",
                    "saving", "mixing", "tidying", "recording", "restoring",
                    "snapshot"} : pc \in Places
      /\ {"merged", "pr_created", "discarded", "unresolved", "conflict"}
           \subseteq Resolution
      /\ {"idle", "closing", "locking", "opening", "noting", "storing", "snapshot"}
           \cap Locked = {}
  BY DEF Places, Locked, Resolution, FinalResolutions
<1>f. \A o : o.pc \in {"idle", "closing", "opening", "noting", "storing"} => Flags(o)
  BY DEF Flags
<1>u. UNCHANGED <<crashed, troubled>> => (Unharmed' => Unharmed)
  BY DEF Unharmed
<1>1. ASSUME NEW p \in Processes, Discard(p) PROVE DirInv'
  <2>1. /\ op[p].pc = "snapshot" /\ op'[p].pc = "storing"
        /\ \A q \in Processes : q # p => op'[q] = op[q]
    BY <1>1, <1>l, MoveWithFacts DEF Discard
  <2>2. UNCHANGED <<main, lock, crashed, troubled>>
    BY <1>1 DEF Discard
  <2> QED
    BY <1>f, <1>l, <1>u, <2>1, <2>2, ApartStep
<1>2. ASSUME NEW p \in Processes, AskPr(p) PROVE DirInv'
  <2>1. /\ op[p].pc = "snapshot" /\ op'[p].pc \in {"opening", "storing"}
        /\ \A q \in Processes : q # p => op'[q] = op[q]
    <3>1. CASE Move(p, "opening")
      BY <1>2, <1>l, <3>1, MoveFacts DEF AskPr
    <3>2. CASE MoveWith(p, "storing", "pr_created")
      BY <1>2, <1>l, <3>2, MoveWithFacts DEF AskPr
    <3> QED
      BY <1>2, <3>1, <3>2 DEF AskPr
  <2>2. UNCHANGED <<main, lock, crashed, troubled>>
    BY <1>2 DEF AskPr, history
  <2> QED
    BY <1>f, <1>l, <1>u, <2>1, <2>2, ApartStep
<1>3. ASSUME NEW p \in Processes, OpenPr(p) PROVE DirInv'
  <2>1. MoveWith(p, "noting", "pr_created") \/ MoveWith(p, "noting", "unresolved")
    <3>1. PICK opens : Answer(p, opens)
      BY <1>3 DEF OpenPr
    <3> QED
      BY <3>1 DEF Answer
  <2>2. /\ op[p].pc = "opening" /\ op'[p].pc = "noting"
        /\ \A q \in Processes : q # p => op'[q] = op[q]
    BY <1>3, <1>l, <2>1, MoveWithFacts DEF OpenPr
  <2>3. UNCHANGED <<main, lock, crashed, troubled>>
    BY <1>3 DEF OpenPr
  <2> QED
    BY <1>f, <1>l, <1>u, <2>2, <2>3, ApartStep
<1>4. ASSUME NEW p \in Processes, NotePr(p) PROVE DirInv'
  <2>1. /\ op[p].pc = "noting" /\ op'[p].pc \in {"idle", "storing"}
        /\ \A q \in Processes : q # p => op'[q] = op[q]
    <3>1. CASE Move(p, "storing")
      BY <1>4, <1>l, <3>1, MoveFacts DEF NotePr
    <3>2. CASE End(p)
      BY <1>4, <3>2, EndFacts, OpRecords DEF NotePr
    <3> QED
      BY <1>4, <3>1, <3>2 DEF NotePr
  <2>2. UNCHANGED <<main, lock, crashed, troubled>>
    BY <1>4 DEF NotePr, history
  <2> QED
    BY <1>f, <1>l, <1>u, <2>1, <2>2, ApartStep
<1>5. ASSUME NEW p \in Processes, AutoCommit(p) PROVE DirInv'
  <2>1. /\ op[p].pc = "snapshot" /\ op'[p].pc = "locking"
        /\ op'[p].ff = op[p].ff /\ op'[p].from = op[p].from
        /\ \A q \in Processes : q # p => op'[q] = op[q]
    BY <1>5, <1>l, MoveFacts DEF AutoCommit
  <2>2. Flags(op'[p])
    BY <2>1 DEF DirInv, FlagInv, Flags
  <2>3. UNCHANGED <<main, lock, crashed, troubled>>
    BY <1>5 DEF AutoCommit, Commits
  <2> QED
    BY <1>l, <1>u, <2>1, <2>2, <2>3, ApartStep
<1>6. ASSUME NEW p \in Processes, Store(p) PROVE DirInv'
  <2>j. op[p].pc = "storing" /\ op[p].job \in Jobs
    BY <1>6 DEF Store, TypeInv, Working
  <2>1. /\ op'[p].pc \in {"idle", "closing"}
        /\ \A q \in Processes : q # p => op'[q] = op[q]
    BY <1>6, <2>j, OpRecords, PutFacts, EndFacts DEF Store
  <2>2. UNCHANGED <<main, lock, crashed, troubled>>
    BY <1>6 DEF Store, history
  <2> QED
    BY <1>f, <1>l, <1>u, <2>j, <2>1, <2>2, ApartStep
<1>7. ASSUME NEW j \in Jobs, AgentWorks(j) PROVE DirInv'
  BY <1>7, <1>u, IdleStep DEF AgentWorks
<1>8. ASSUME NEW j \in Jobs, AgentAsksForPr(j) PROVE DirInv'
  <2> DEFINE o == [Begin(j, "agent_pr") EXCEPT !.pc = "opening"]
  <2>1. o \in OpType /\ o.pc = "opening" /\ o.job = j
    BY DEF Begin, Idle, OpType, Resolution
  <2>2. Put(j, o) /\ j \in Processes /\ op[j].pc = "idle"
    BY <1>8, OpRecords DEF AgentAsksForPr, Processes
  <2> HIDE DEF o
  <2>3. op'[j].pc = "opening" /\ \A q \in Processes : q # j => op'[q] = op[q]
    BY <2>1, <2>2, PutFacts
  <2>4. UNCHANGED <<main, lock, crashed, troubled>>
    BY <1>8 DEF AgentAsksForPr, history
  <2> QED
    BY <1>f, <1>l, <1>u, <2>2, <2>3, <2>4, ApartStep
<1>9. ASSUME NEW j \in Jobs, FinishSession(j) PROVE DirInv'
  <2>1. Put(j, Begin(j, "merge")) \/ Put(j, Closing(j))
    BY <1>9 DEF FinishSession
  <2>2. /\ j \in Processes /\ op[j].pc = "idle"
        /\ op'[j] \in {Begin(j, "merge"), Closing(j)}
        /\ \A q \in Processes : q # j => op'[q] = op[q]
    BY <1>9, <2>1, BeginFacts, OpRecords DEF FinishSession, Processes, Actions
  <2>3. op'[j].pc \in {"snapshot", "closing"} /\ Flags(op'[j])
    BY <1>f, <2>2, OpRecords DEF Flags, Actions
  <2>4. UNCHANGED <<main, lock, crashed, troubled>>
    BY <1>9 DEF FinishSession, history
  <2> QED
    BY <1>l, <1>u, <2>2, <2>3, <2>4, ApartStep
<1>10. ASSUME NEW j \in Jobs, CloseLastStep(j) PROVE DirInv'
  <2>1. /\ j \in Processes /\ op[j].pc = "closing" /\ op'[j].pc = "idle"
        /\ \A q \in Processes : q # j => op'[q] = op[q]
    BY <1>10, EndFacts, OpRecords DEF CloseLastStep, Processes
  <2>2. UNCHANGED <<main, lock, crashed, troubled>>
    BY <1>10 DEF CloseLastStep, Commits
  <2> QED
    BY <1>f, <1>l, <1>u, <2>1, <2>2, ApartStep
<1>11. ASSUME NEW j \in Jobs, NEW r \in Requests, NEW a \in Actions, Resolve(r, j, a)
       PROVE DirInv'
  <2>1. Put(r, Begin(j, a))
    BY <1>11 DEF Resolve
  <2>2. /\ r \in Processes /\ op[r].pc = "idle"
        /\ op'[r] = Begin(j, a)
        /\ \A q \in Processes : q # r => op'[q] = op[q]
    BY <1>11, <2>1, PutFacts, OpRecords DEF Resolve, Processes
  <2>3. op'[r].pc = "snapshot" /\ Flags(op'[r])
    BY <2>2, OpRecords DEF Flags
  <2>4. UNCHANGED <<main, lock, crashed, troubled>>
    BY <1>11 DEF Resolve, Overlaps
  <2> QED
    BY <1>l, <1>u, <2>2, <2>3, <2>4, ApartStep
<1>12. ASSUME NEW j \in Jobs, Cancel(j) PROVE DirInv'
  <2>j. j \in Processes
    BY DEF Processes
  <2>i. End(j) => /\ op'[j].pc = "idle" /\ Flags(op'[j])
                  /\ \A q \in Processes : q # j => op'[q] = op[q]
    BY <1>f, <2>j, EndFacts, OpRecords
  <2>c. crashed' = crashed
    BY <1>12 DEF Cancel, Overlaps
  <2>1. CASE op' = op /\ UNCHANGED <<main, lock, troubled>>
    BY <1>u, <2>c, <2>1, IdleStep
  <2>2. CASE End(j) /\ lock = j /\ Interrupt(j)
    <3>1. lock' = NoOne /\ (Unharmed' => Unharmed)
      BY <2>c, <2>2 DEF Interrupt, Unharmed
    <3>2. op[j].pc \in Locked
      BY <2>j, <2>2 DEF LockInv, LockFollowsMerge
    <3>3. Unharmed /\ Unharmed' => Settled(main')
      BY <2>2, InterruptHome
    <3> QED
      BY <2>j, <2>i, <2>2, <3>1, <3>2, <3>3, MergeStep
  <2>3. CASE End(j) /\ lock # j /\ UNCHANGED <<main, lock, troubled>>
    <3>1. op[j].pc \notin Locked
      BY <2>j, <2>3 DEF LockInv, LockFollowsMerge
    <3> QED
      BY <1>l, <1>u, <2>j, <2>c, <2>i, <2>3, <3>1, ApartStep
  <2> QED
    BY <1>12, <2>1, <2>2, <2>3 DEF Cancel
<1>13. ASSUME NEW j \in Jobs, ResumeJob(j) PROVE DirInv'
  BY <1>13, <1>u, IdleStep DEF ResumeJob, Overlaps
<1>14. ASSUME NEW j \in Jobs, ResetRow(j) PROVE DirInv'
  BY <1>14, <1>u, IdleStep DEF ResetRow, history
<1>15. ASSUME NEW j \in Jobs, Archive(j) PROVE DirInv'
  BY <1>15, <1>u, IdleStep DEF Archive, Overlaps
<1>16. ASSUME Crash PROVE DirInv'
  <2>1. crashed' = TRUE /\ op' = [p \in Processes |-> Idle]
    BY <1>16 DEF Crash
  <2>2. Flags(Idle)
    BY <1>f, OpRecords
  <2> QED
    BY <2>1, <2>2 DEF DirInv, FlagInv, Away, Unharmed
<1>17. CASE UNCHANGED vars
  BY <1>17, <1>u, IdleStep DEF vars, history
<1> QED
  BY <1>1, <1>2, <1>3, <1>4, <1>5, <1>6, <1>7, <1>8, <1>9, <1>10, <1>11,
     <1>12, <1>13, <1>14, <1>15, <1>16, <1>17, DirMerge
  DEF Next, ResolveStep, SessionStep, OperatorStep

\* While git has not failed in the main directory, and no merge was interrupted
\* while git worked there, the operator's branch is checked out between merges
\* and nothing is left in the stash.
THEOREM MainReturns == Spec => []MainIsBack
<1>1. Init => TypeInv /\ LockInv /\ DirInv
  BY InitTypes, LockInit, DirInit
<1>2. TypeInv /\ LockInv /\ DirInv /\ [Next]_vars => (TypeInv /\ LockInv /\ DirInv)'
  BY TypeNext, LockNext, DirNext
<1>3. DirInv => MainIsBack
  BY DEF DirInv, Away, Unharmed, Settled, MainIsBack
<1> QED
  BY <1>1, <1>2, <1>3, PTL DEF Spec

-----------------------------------------------------------------------------
(* A job is completed exactly when it is resolved.                         *)

\* The state of a job whose work is under way in o.
Fits(o, s) ==
    CASE o.action = "agent_pr" -> s = "running" /\ o.pc \in {"opening", "noting"}
      [] o.action # "agent_pr" /\ o.pc = "closing" -> s \in {"review", "completed"}
      [] OTHER -> s = "review"

\* Nothing has overlapped the job's resolutions: at most one process works on
\* it, in the state that process began in, and none while it is resumed.
Alone(j) ==
    /\ j \in resuming => state[j] # "running"
    /\ state[j] = "completed" <=> resolution[j] \in FinalResolutions
    /\ \A p \in Processes : op[p].job = j =>
         /\ j \notin resuming
         /\ \A q \in Processes : op[q].job = j => q = p
         /\ Fits(op[p], state[j])

\* A session works on its own job, and only an agent asks as an agent.
OwnJob ==
    /\ \A j \in Jobs : op[j].job \in {j, NoJob}
    /\ \A r \in Requests : op[r].action # "agent_pr"

AloneInv == OwnJob /\ \A j \in Jobs \ disturbed : Alone(j)

\* A process that goes on with its job, or is over with it, leaves the row.
LEMMA GoesOn ==
    ASSUME TypeInv, AloneInv, NEW p \in Processes,
           \A q \in Processes : q # p => op'[q] = op[q],
           \/ op'[p].job = NoJob /\ op'[p].action = "none"
           \/ /\ op'[p].job = op[p].job
              /\ op'[p].action = op[p].action
              /\ \A s : Fits(op[p], s) => Fits(op'[p], s),
           UNCHANGED <<state, resolution, resuming, disturbed>>
    PROVE  AloneInv'
<1>1. OwnJob'
  BY NoJobAssumption DEF AloneInv, OwnJob, Processes
<1>2. ASSUME NEW j \in Jobs \ disturbed PROVE Alone(j)'
  <2>1. \A q \in Processes : op'[q].job = j => op[q].job = j
    BY NoJobAssumption
  <2>2. ASSUME NEW q \in Processes, op'[q].job = j PROVE Fits(op'[q], state[j])
    <3>1. Fits(op[q], state[j])
      BY <2>1, <2>2 DEF AloneInv, Alone
    <3> QED
      BY <2>2, <3>1, NoJobAssumption
  <2> QED
    BY <2>1, <2>2 DEF AloneInv, Alone
<1> QED
  BY <1>1, <1>2 DEF AloneInv

\* Every step of a resolution but the last goes on in the same state.
LEMMA FitsOn ==
    ASSUME NEW o, NEW o2, NEW s, Fits(o, s),
           o2.action = o.action, o.pc # "closing", o2.pc # "closing",
           o.action = "agent_pr" => o2.pc = "noting" \/ o.pc \notin {"opening", "noting"}
    PROVE  Fits(o2, s)
  BY Zenon DEF Fits

\* A step of a resolution but the last.
LEMMA ResolutionStep ==
    ASSUME TypeInv, AloneInv, NEW p \in Processes,
           \A q \in Processes : q # p => op'[q] = op[q],
           op'[p].job = op[p].job, op'[p].action = op[p].action,
           op[p].pc # "closing", op'[p].pc # "closing",
           op[p].action = "agent_pr" =>
             op'[p].pc = "noting" \/ op[p].pc \notin {"opening", "noting"},
           UNCHANGED <<state, resolution, resuming, disturbed>>
    PROVE  AloneInv'
<1>1. \A s : Fits(op[p], s) => Fits(op'[p], s)
  BY FitsOn
<1> QED
  BY <1>1, GoesOn

\* The last step of a resolution: a job that nothing has overlapped is still
\* in review, and can be completed.
LEMMA StoreStep ==
    ASSUME TypeInv, AloneInv, NEW p \in Processes, Store(p)
    PROVE  AloneInv'
<1> DEFINE j == op[p].job
           result == op[p].outcome
           final == result \in FinalResolutions
<1>1. j \in Jobs /\ op[p].pc = "storing" /\ op[p].job = j
  BY DEF Store, TypeInv, Working
<1>2. /\ \A q \in Processes : q # p => op'[q] = op[q]
      /\ IF p = j THEN op'[p] = Closing(j) ELSE op'[p] = Idle
  BY <1>1, OpRecords, PutFacts, EndFacts DEF Store
<1>3. OwnJob'
  BY <1>1, <1>2, OpRecords, ProcessAssumption DEF AloneInv, OwnJob, Processes
<1>4. ASSUME NEW k \in Jobs \ disturbed PROVE Alone(k)'
  <2>1. CASE k # j
    <3>1. UNCHANGED <<state[k], resolution[k], resuming>>
      <4>1. UNCHANGED <<resolution[k], resuming>>
        BY <2>1 DEF Store
      <4>2. state'[k] = state[k]
        BY <1>1, <2>1, Zenon DEF Store, TypeInv, TypeOK
      <4> QED
        BY <4>1, <4>2
    <3>2. \A q \in Processes : op'[q].job = k => q # p /\ op'[q] = op[q]
      BY <1>1, <1>2, <2>1, OpRecords, NoJobAssumption
    <3> QED
      BY <3>1, <3>2 DEF AloneInv, Alone
  <2>2. CASE k = j
    <3>1. /\ Fits(op[p], state[j]) /\ j \notin resuming
          /\ \A q \in Processes : op[q].job = j => q = p
          /\ Alone(j)
      BY <1>1, <2>2 DEF AloneInv, Alone
    <3>2. state[j] = "review"
      BY <1>1, <3>1, Zenon DEF Fits
    <3>3. CanTransition(state[j], "completed")
      BY <3>2 DEF CanTransition, ValidTransitions
    <3>4. resolution'[j] = result
      BY <1>1, <3>3 DEF Store, TypeInv, TypeOK
    <3>5. state'[j] = IF final THEN "completed" ELSE state[j]
      <4>1. CASE final
        <5>1. state' = [state EXCEPT ![j] = "completed"]
          BY <3>3, <4>1, Zenon DEF Store
        <5> QED
          BY <1>1, <4>1, <5>1 DEF TypeInv, TypeOK
      <4>2. CASE ~final
        <5>1. state' = [state EXCEPT ![j] = @]
          BY <3>3, <4>2, Zenon DEF Store
        <5> QED
          BY <1>1, <4>2, <5>1 DEF TypeInv, TypeOK
      <4> QED
        BY <4>1, <4>2
    <3>6. state'[j] = "completed" <=> resolution'[j] \in FinalResolutions
      BY <3>2, <3>4, <3>5
    <3>7. ASSUME NEW q \in Processes, op'[q].job = j
          PROVE  q = p /\ op'[q] = Closing(j)
      BY <1>1, <1>2, <3>1, <3>7, OpRecords, NoJobAssumption
    <3>8. Fits(Closing(j), state'[j])
      <4>1. Closing(j).action = "none" /\ Closing(j).pc = "closing"
        BY <1>1, OpRecords
      <4>2. state'[j] \in {"review", "completed"}
        BY <3>2, <3>5
      <4> QED
        BY <4>1, <4>2, Zenon DEF Fits
    <3>9. resuming' = resuming
      BY DEF Store
    <3>10. \A q \in Processes : op'[q].job = j =>
             /\ j \notin resuming'
             /\ \A r \in Processes : op'[r].job = j => r = q
             /\ Fits(op'[q], state'[j])
      BY <3>1, <3>7, <3>8, <3>9
    <3> QED
      BY <2>2, <3>1, <3>6, <3>9, <3>10 DEF Alone
  <2> QED
    BY <2>1, <2>2
<1>5. disturbed' = disturbed
  BY DEF Store, history, achieved
<1> QED
  BY <1>3, <1>4, <1>5 DEF AloneInv

\* Nothing works on a job that is not busy.
LEMMA NotBusy ==
    ASSUME TypeInv, NEW j \in Jobs, ~Busy(j)
    PROVE  j \notin resuming /\ \A p \in Processes : op[p].job # j
  BY DEF Busy

\* A process takes up a job on which no other works.
LEMMA TakesUp ==
    ASSUME TypeInv, AloneInv, NEW p \in Processes, NEW j \in Jobs,
           op[p].job = NoJob, op'[p].job = j, p \in Requests \cup {j},
           p \in Requests => op'[p].action # "agent_pr",
           \A q \in Processes : q # p => op'[q] = op[q],
           disturbed \subseteq disturbed', resuming' = resuming,
           \A k \in Jobs : k # j => UNCHANGED <<state[k], resolution[k]>>,
           j \notin disturbed' =>
             /\ \A q \in Processes : op[q].job # j
             /\ j \notin resuming
             /\ state'[j] = "completed" <=> resolution'[j] \in FinalResolutions
             /\ Fits(op'[p], state'[j])
    PROVE  AloneInv'
<1>1. OwnJob'
  BY ProcessAssumption DEF AloneInv, OwnJob, Processes
<1>2. ASSUME NEW k \in Jobs \ disturbed' PROVE Alone(k)'
  <2>1. CASE k # j
    BY <1>2, <2>1, NoJobAssumption DEF AloneInv, Alone
  <2>2. CASE k = j
    BY <1>2, <2>2 DEF Alone
  <2> QED
    BY <2>1, <2>2
<1> QED
  BY <1>1, <1>2 DEF AloneInv

\* At first no process works on a job.
LEMMA AloneInit == Init => AloneInv
  BY OpRecords, NoJobAssumption
  DEF Init, AloneInv, OwnJob, Alone, Processes, FinalResolutions

\* Every step leaves a job that nothing has overlapped to one process.
LEMMA AloneNext == TypeInv /\ AloneInv /\ [Next]_vars => AloneInv'
<1> SUFFICES ASSUME TypeInv, AloneInv, [Next]_vars PROVE AloneInv'
  OBVIOUS
<1>l. /\ \A pc \in {"locking", "opening", "noting", "storing",
                    "saving", "mixing", "tidying", "recording", "restoring",
                    "snapshot"} : pc \in Places
      /\ {"merged", "pr_created", "discarded", "unresolved", "conflict"}
           \subseteq Resolution
  BY DEF Places, Locked, Resolution, FinalResolutions
<1>1. ASSUME NEW p \in Processes, Discard(p) PROVE AloneInv'
  <2>1. /\ op[p].pc = "snapshot" /\ op'[p].pc = "storing"
        /\ op'[p].job = op[p].job /\ op'[p].action = op[p].action
        /\ \A q \in Processes : q # p => op'[q] = op[q]
    BY <1>1, <1>l, MoveWithFacts DEF Discard
  <2> QED
    BY <1>1, <2>1, ResolutionStep DEF Discard, row
<1>2. ASSUME NEW p \in Processes, AskPr(p) PROVE AloneInv'
  <2>1. /\ op[p].pc = "snapshot" /\ op'[p].pc \in {"opening", "storing"}
        /\ op'[p].job = op[p].job /\ op'[p].action = op[p].action
        /\ \A q \in Processes : q # p => op'[q] = op[q]
    <3>1. CASE Move(p, "opening")
      BY <1>2, <1>l, <3>1, MoveFacts DEF AskPr
    <3>2. CASE MoveWith(p, "storing", "pr_created")
      BY <1>2, <1>l, <3>2, MoveWithFacts DEF AskPr
    <3> QED
      BY <1>2, <3>1, <3>2 DEF AskPr
  <2> QED
    BY <1>2, <2>1, ResolutionStep DEF AskPr, row, history, achieved
<1>3. ASSUME NEW p \in Processes, OpenPr(p) PROVE AloneInv'
  <2>1. MoveWith(p, "noting", "pr_created") \/ MoveWith(p, "noting", "unresolved")
    <3>1. PICK opens : Answer(p, opens)
      BY <1>3 DEF OpenPr
    <3> QED
      BY <3>1 DEF Answer
  <2>2. /\ op[p].pc = "opening" /\ op'[p].pc = "noting"
        /\ op'[p].job = op[p].job /\ op'[p].action = op[p].action
        /\ \A q \in Processes : q # p => op'[q] = op[q]
    BY <1>3, <1>l, <2>1, MoveWithFacts DEF OpenPr
  <2> QED
    BY <1>3, <2>2, ResolutionStep DEF OpenPr, row
<1>4. ASSUME NEW p \in Processes, NotePr(p) PROVE AloneInv'
  <2>u. UNCHANGED <<state, resolution, resuming, disturbed>> /\ op[p].pc = "noting"
    BY <1>4 DEF NotePr, history, achieved
  <2>1. CASE op[p].action = "agent_pr"
    <3>1. op'[p] = Idle /\ \A q \in Processes : q # p => op'[q] = op[q]
      BY <1>4, <2>1, EndFacts DEF NotePr
    <3> QED
      BY <2>u, <3>1, OpRecords, GoesOn
  <2>2. CASE op[p].action # "agent_pr"
    <3>1. /\ op'[p].pc = "storing"
          /\ op'[p].job = op[p].job /\ op'[p].action = op[p].action
          /\ \A q \in Processes : q # p => op'[q] = op[q]
      BY <1>4, <1>l, <2>u, <2>2, MoveFacts DEF NotePr
    <3> QED
      BY <2>u, <2>2, <3>1, ResolutionStep
  <2> QED
    BY <2>1, <2>2
<1>5. ASSUME NEW p \in Processes, AutoCommit(p) PROVE AloneInv'
  <2>1. /\ op[p].pc = "snapshot" /\ op'[p].pc = "locking"
        /\ op'[p].job = op[p].job /\ op'[p].action = op[p].action
        /\ \A q \in Processes : q # p => op'[q] = op[q]
    BY <1>5, <1>l, MoveFacts DEF AutoCommit
  <2> QED
    BY <1>5, <2>1, ResolutionStep DEF AutoCommit, Commits, row
<1>6. ASSUME NEW p \in Processes, TakeLock(p) PROVE AloneInv'
  <2>1. /\ op[p].pc = "locking" /\ op'[p].pc \in {"advancing", "saving"}
        /\ op'[p].job = op[p].job /\ op'[p].action = op[p].action
        /\ \A q \in Processes : q # p => op'[q] = op[q]
    BY <1>6, EnterFacts DEF TakeLock
  <2> QED
    BY <1>6, <2>1, ResolutionStep DEF TakeLock, Enter, row
<1>7. ASSUME NEW p \in Processes, AdvanceBase(p) PROVE AloneInv'
  <2>1. /\ op[p].pc = "advancing" /\ op'[p].pc \in {"recording", "saving"}
        /\ op'[p].job = op[p].job /\ op'[p].action = op[p].action
        /\ \A q \in Processes : q # p => op'[q] = op[q]
    BY <1>7, AdvanceFacts DEF AdvanceBase
  <2> QED
    BY <1>7, <2>1, ResolutionStep DEF AdvanceBase, row
<1>8. ASSUME NEW p \in Processes, Mix(p) PROVE AloneInv'
  <2>1. \/ MoveWith(p, "recording", "merged") \/ MoveWith(p, "recording", "conflict")
        \/ MoveWith(p, "recording", "unresolved")
    BY <1>8 DEF Mix
  <2>2. /\ op[p].pc = "mixing" /\ op'[p].pc = "recording"
        /\ op'[p].job = op[p].job /\ op'[p].action = op[p].action
        /\ \A q \in Processes : q # p => op'[q] = op[q]
    BY <1>8, <1>l, <2>1, MoveWithFacts DEF Mix
  <2> QED
    BY <1>8, <2>2, ResolutionStep DEF Mix, row
<1>9. ASSUME NEW p \in Processes, RecordMerge(p) PROVE AloneInv'
  <2>1. Move(p, "tidying") \/ Move(p, "restoring")
    BY <1>9 DEF RecordMerge
  <2>2. /\ op[p].pc = "recording" /\ op'[p].pc \in {"tidying", "restoring"}
        /\ op'[p].job = op[p].job /\ op'[p].action = op[p].action
        /\ \A q \in Processes : q # p => op'[q] = op[q]
    BY <1>9, <1>l, <2>1, MoveFacts DEF RecordMerge
  <2> QED
    BY <1>9, <2>2, ResolutionStep DEF RecordMerge, history, achieved
<1>10. ASSUME NEW p \in Processes, TidyUp(p) PROVE AloneInv'
  <2>1. Move(p, "storing") \/ Move(p, "restoring")
    BY <1>10 DEF TidyUp
  <2>2. /\ op[p].pc = "tidying" /\ op'[p].pc \in {"storing", "restoring"}
        /\ op'[p].job = op[p].job /\ op'[p].action = op[p].action
        /\ \A q \in Processes : q # p => op'[q] = op[q]
    BY <1>10, <1>l, <2>1, MoveFacts DEF TidyUp
  <2> QED
    BY <1>10, <2>2, ResolutionStep DEF TidyUp, row, history, achieved
<1>23. ASSUME NEW p \in Processes, Save(p) PROVE AloneInv'
  <2>1. PICK from \in {"base", "other", "none"}, stashed \in BOOLEAN :
          Put(p, SaveKeeps(op[p], from, stashed))
    BY <1>23, SaveCases
  <2>2. op[p].pc = "saving" /\ UNCHANGED <<state, resolution, resuming, disturbed>>
    BY <1>23 DEF Save, row
  <2>3. /\ op'[p].pc = "mixing"
        /\ op'[p].job = op[p].job /\ op'[p].action = op[p].action
        /\ \A q \in Processes : q # p => op'[q] = op[q]
    BY <2>1, <2>2, SaveFacts
  <2> QED
    BY <2>2, <2>3, ResolutionStep
<1>24. ASSUME NEW p \in Processes, Restore(p) PROVE AloneInv'
  <2>1. UNCHANGED <<state, resolution, resuming, disturbed>>
    BY <1>24 DEF Restore, row
  <2>2. /\ op[p].pc = "restoring" /\ op'[p].pc = "storing"
        /\ op'[p].job = op[p].job /\ op'[p].action = op[p].action
        /\ \A q \in Processes : q # p => op'[q] = op[q]
    BY <1>24, RestoreFacts
  <2> QED
    BY <2>1, <2>2, ResolutionStep
<1>12. ASSUME NEW j \in Jobs, AgentWorks(j) PROVE AloneInv'
  BY <1>12 DEF AgentWorks, AloneInv, OwnJob, Alone, row
<1>13. ASSUME NEW j \in Jobs, AgentAsksForPr(j) PROVE AloneInv'
  <2> DEFINE o == [Begin(j, "agent_pr") EXCEPT !.pc = "opening"]
  <2>1. o \in OpType /\ o.pc = "opening" /\ o.job = j /\ o.action = "agent_pr"
    BY DEF Begin, Idle, OpType, Resolution
  <2>2. Put(j, o) /\ j \in Processes /\ op[j].job = NoJob /\ state[j] = "running"
    BY <1>13, OpRecords DEF AgentAsksForPr, Processes
  <2> HIDE DEF o
  <2>3. op'[j] = o /\ \A q \in Processes : q # j => op'[q] = op[q]
    BY <2>1, <2>2, PutFacts
  <2>4. UNCHANGED <<state, resolution, resuming, disturbed>>
    BY <1>13 DEF AgentAsksForPr, row, history, achieved
  <2>5. Fits(op'[j], state'[j])
    BY <2>1, <2>2, <2>3, <2>4, Zenon DEF Fits
  <2>6. ASSUME j \notin disturbed
        PROVE  /\ \A q \in Processes : op[q].job # j
               /\ j \notin resuming
               /\ state[j] = "completed" <=> resolution[j] \in FinalResolutions
    <3>1. Alone(j)
      BY <2>6 DEF AloneInv
    <3>2. ASSUME NEW q \in Processes, op[q].job = j PROVE FALSE
      <4>1. q # j /\ Fits(op[q], "running")
        BY <2>2, <3>1, <3>2, NoJobAssumption DEF Alone
      <4>2. op[q].action = "agent_pr"
        BY <4>1, Zenon DEF Fits
      <4> QED
        BY <3>2, <4>1, <4>2, NoJobAssumption DEF AloneInv, OwnJob, Processes
    <3> QED
      BY <2>2, <3>1, <3>2 DEF Alone
  <2>7. j \notin Requests
    BY ProcessAssumption
  <2> QED
    BY <2>1, <2>2, <2>3, <2>4, <2>5, <2>6, <2>7, TakesUp
<1>14. ASSUME NEW j \in Jobs, FinishSession(j) PROVE AloneInv'
  <2>1. Put(j, Begin(j, "merge")) \/ Put(j, Closing(j))
    BY <1>14 DEF FinishSession
  <2>2. /\ j \in Processes /\ j \notin Requests /\ op[j].job = NoJob
        /\ op'[j].job = j /\ op'[j] \in {Begin(j, "merge"), Closing(j)}
        /\ \A q \in Processes : q # j => op'[q] = op[q]
    BY <1>14, <2>1, BeginFacts, OpRecords, ProcessAssumption
    DEF FinishSession, Processes, Actions
  <2>3. /\ state[j] = "running" /\ state' = [state EXCEPT ![j] = "review"]
        /\ UNCHANGED <<resuming, disturbed>>
        /\ \/ resolution' = resolution
           \/ resolution' = [resolution EXCEPT ![j] = "unresolved"]
    BY <1>14, Zenon DEF FinishSession, history, achieved, TypeInv, TypeOK
  <2>4. /\ state'[j] = "review" /\ resolution'[j] \in {resolution[j], "unresolved"}
        /\ \A k \in Jobs : k # j => UNCHANGED <<state[k], resolution[k]>>
    BY <2>3 DEF TypeInv, TypeOK
  <2>5. Fits(op'[j], state'[j])
    <3>1. \/ op'[j].action = "merge" /\ op'[j].pc = "snapshot"
          \/ op'[j].action = "none" /\ op'[j].pc = "closing"
      BY <2>2, OpRecords DEF Actions
    <3> QED
      BY <2>4, <3>1, Zenon DEF Fits
  <2>6. ASSUME j \notin disturbed
        PROVE  /\ \A q \in Processes : op[q].job # j
               /\ j \notin resuming
               /\ resolution[j] \notin FinalResolutions
    <3>1. Alone(j)
      BY <2>6 DEF AloneInv
    <3>2. ASSUME NEW q \in Processes, op[q].job = j PROVE FALSE
      <4>1. q # j /\ Fits(op[q], "running")
        BY <2>2, <2>3, <3>1, <3>2, NoJobAssumption DEF Alone
      <4>2. op[q].action = "agent_pr"
        BY <4>1, Zenon DEF Fits
      <4> QED
        BY <3>2, <4>1, <4>2, NoJobAssumption DEF AloneInv, OwnJob, Processes
    <3> QED
      BY <2>3, <3>1, <3>2 DEF Alone
  <2>7. j \notin disturbed' =>
          (state'[j] = "completed" <=> resolution'[j] \in FinalResolutions)
    BY <2>3, <2>4, <2>6 DEF FinalResolutions
  <2> QED
    BY <2>2, <2>3, <2>4, <2>5, <2>6, <2>7, TakesUp
<1>15. ASSUME NEW j \in Jobs, CloseLastStep(j) PROVE AloneInv'
  <2>1. /\ j \in Processes /\ op'[j] = Idle
        /\ \A q \in Processes : q # j => op'[q] = op[q]
    BY <1>15, EndFacts DEF CloseLastStep, Processes
  <2>2. UNCHANGED <<state, resolution, resuming, disturbed>>
    BY <1>15 DEF CloseLastStep, Commits, row
  <2> QED
    BY <2>1, <2>2, OpRecords, GoesOn
<1>16. ASSUME NEW j \in Jobs, NEW r \in Requests, NEW a \in Actions, Resolve(r, j, a)
       PROVE AloneInv'
  <2>1. Put(r, Begin(j, a)) /\ r \in Processes /\ op[r].job = NoJob
    BY <1>16, OpRecords DEF Resolve, Processes
  <2>b. Begin(j, a) \in OpType /\ Begin(j, a).pc = "snapshot" /\ Begin(j, a).job = j
        /\ Begin(j, a).action = a
    BY OpRecords
  <2>2. op'[r] = Begin(j, a) /\ \A q \in Processes : q # r => op'[q] = op[q]
    BY <2>1, <2>b, PutFacts
  <2>3. /\ UNCHANGED <<state, resolution, resuming>>
        /\ state[j] = "review" /\ resolution[j] \notin FinalResolutions
        /\ Busy(j) => j \in disturbed'
        /\ disturbed \subseteq disturbed'
    BY <1>16 DEF Resolve, Overlaps, row
  <2>4. a # "agent_pr"
    BY DEF Actions
  <2>5. Fits(op'[r], state'[j])
    BY <2>b, <2>2, <2>3, <2>4, Zenon DEF Fits
  <2>6. j \notin disturbed' =>
          (\A q \in Processes : op[q].job # j) /\ j \notin resuming
    BY <2>3, NotBusy
  <2> QED
    BY <2>1, <2>b, <2>2, <2>3, <2>4, <2>5, <2>6, TakesUp
<1>17. ASSUME NEW j \in Jobs, Cancel(j) PROVE AloneInv'
  <2>1. /\ state[j] \in {"running", "review"}
        /\ state' = [state EXCEPT ![j] = "canceled"]
        /\ UNCHANGED <<resolution, resuming>>
        /\ Busy(j) => j \in disturbed'
        /\ disturbed \subseteq disturbed'
        /\ op' = op \/ End(j)
    BY <1>17 DEF Cancel, Overlaps
  <2>2. /\ j \in Processes
        /\ \A q \in Processes : q # j => op'[q] = op[q]
        /\ op'[j] \in {op[j], Idle}
    BY <2>1, EndFacts DEF Processes
  <2>3. OwnJob'
    BY <2>2, OpRecords, ProcessAssumption DEF AloneInv, OwnJob, Processes
  <2>4. ASSUME NEW k \in Jobs \ disturbed' PROVE Alone(k)'
    <3>1. Alone(k)
      BY <2>1, <2>4 DEF AloneInv
    <3>2. CASE k # j
      <4>1. UNCHANGED <<state[k], resolution[k], resuming>>
        BY <2>1, <3>2 DEF TypeInv, TypeOK
      <4>2. \A q \in Processes : op'[q].job = k => op'[q] = op[q]
        BY <2>2, OpRecords, NoJobAssumption
      <4> QED
        BY <3>1, <4>1, <4>2 DEF Alone
    <3>3. CASE k = j
      <4>1. j \notin resuming /\ \A q \in Processes : op[q].job # j
        BY <2>1, <2>4, <3>3, NotBusy
      <4>2. \A q \in Processes : op'[q].job # j
        BY <2>2, <4>1, OpRecords, NoJobAssumption
      <4>3. state'[j] = "canceled"
        BY <2>1 DEF TypeInv, TypeOK
      <4> QED
        BY <2>1, <3>1, <3>3, <4>1, <4>2, <4>3 DEF Alone
    <3> QED
      BY <3>2, <3>3
  <2> QED
    BY <2>3, <2>4 DEF AloneInv
<1>18. ASSUME NEW j \in Jobs, ResumeJob(j) PROVE AloneInv'
  <2>1. /\ UNCHANGED <<state, resolution, op>>
        /\ state[j] # "running"
        /\ resuming' = resuming \cup {j}
        /\ Busy(j) => j \in disturbed'
        /\ disturbed \subseteq disturbed'
    BY <1>18 DEF ResumeJob, Overlaps, ResumableStates, TERMINAL_STATES
  <2>2. j \notin disturbed' => \A q \in Processes : op[q].job # j
    BY <2>1, NotBusy
  <2> QED
    BY <2>1, <2>2 DEF AloneInv, OwnJob, Alone
<1>19. ASSUME NEW j \in Jobs, ResetRow(j) PROVE AloneInv'
  <2>1. /\ j \in resuming /\ resuming' = resuming \ {j}
        /\ UNCHANGED <<op, disturbed>>
        /\ state'[j] = "running" /\ resolution'[j] = "none"
        /\ \A k \in Jobs : k # j => UNCHANGED <<state[k], resolution[k]>>
    BY <1>19 DEF ResetRow, TypeInv, TypeOK, history, achieved
  <2>2. OwnJob'
    BY <2>1 DEF AloneInv, OwnJob
  <2>3. ASSUME NEW k \in Jobs \ disturbed PROVE Alone(k)'
    <3>1. Alone(k)
      BY <2>3 DEF AloneInv
    <3> QED
      BY <2>1, <3>1 DEF Alone, FinalResolutions
  <2> QED
    BY <2>1, <2>2, <2>3 DEF AloneInv
<1>20. ASSUME NEW j \in Jobs, Archive(j) PROVE AloneInv'
  BY <1>20 DEF Archive, Overlaps, AloneInv, OwnJob, Alone, row
<1>21. ASSUME Crash PROVE AloneInv'
  BY <1>21, OpRecords, NoJobAssumption
  DEF Crash, AloneInv, OwnJob, Alone, row, Processes
<1>22. CASE UNCHANGED vars
  BY <1>22 DEF vars, AloneInv, OwnJob, Alone, row, history, achieved
<1> QED
  BY <1>1, <1>2, <1>3, <1>4, <1>5, <1>6, <1>7, <1>8, <1>9, <1>10, StoreStep,
     <1>12, <1>13, <1>14, <1>15, <1>16, <1>17, <1>18, <1>19, <1>20, <1>21,
     <1>22, <1>23, <1>24
  DEF Next, ResolveStep, SessionStep, OperatorStep

\* A job whose resolutions nothing has overlapped is completed when, and only
\* when, it was merged, proposed or discarded.
THEOREM CompletedResolved == Spec => []CompletedIsResolved
<1>1. Spec => [](TypeInv /\ AloneInv)
  BY InitTypes, TypeNext, AloneInit, AloneNext, PTL DEF Spec
<1>2. AloneInv => CompletedIsResolved
  BY DEF AloneInv, Alone, CompletedIsResolved
<1> QED
  BY <1>1, <1>2, PTL

-----------------------------------------------------------------------------
(* The work of a session.                                                  *)

\* What is left of the job besides the base branch.
Elsewhere(j) == pushed[j] \cup branch[j] \cup edits[j]

\* The sessions whose work nobody has thrown away and no failed commit left out.
Owed(j) == made[j] \ missed[j]

\* The worktree holds no such work that is not committed.
Clean(j) == \A n \in Owed(j) : ~HoldsWork(edits[j], j, n)

\* The work of the job that is left elsewhere is in S as well.
Covers(S, j) ==
    \A n \in Owed(j) : HoldsWork(Elsewhere(j), j, n) => HoldsWork(S, j, n)

\* What origin has of a job that may go on, or that nobody has thrown away,
\* came from its branch, and is there or in the base.
PushedFirst(j) ==
    \A n \in Nat :
        HoldsWork(pushed[j], j, n) /\ (j \in trees \cup branches \/ n \in Owed(j))
            => HoldsWork(base \cup branch[j], j, n)

\* Until the process dies no work is lost, whatever origin has.
Kept(j) ==
    ~crashed =>
        \A n \in Owed(j) : HoldsWork(base \cup branch[j] \cup edits[j], j, n)

\* Until then a job in review or completed has nothing that is not committed,
\* but what git has refused, unless its session is about to commit it.
Committing(j) ==
    /\ op[j].job = j
    /\ \/ op[j].pc = "closing"
       \/ op[j].pc = "snapshot" /\ op[j].action = "merge"

Committed(j) ==
    ~crashed /\ state[j] \in {"review", "completed"} /\ ~Committing(j)
        => Clean(j)

\* A merge commits before it waits for the lock, takes a tip that has all the
\* work, and has it in the base before it says so.
Honest(o, j) ==
    /\ o.pc \in {"locking", "saving", "advancing", "mixing"} => Clean(j)
    /\ o.pc = "advancing" => Covers(o.sha, j)
    /\ o.pc = "tidying" => o.outcome = "merged"
    /\ o.outcome = "merged" =>
         /\ o.pc \in {"recording", "tidying", "restoring", "storing"}
         /\ Covers(base, j)

Merging(j) == \A p \in Processes : op[p].job = j => Honest(op[p], j)

\* A row that says merged.
Told(j) ==
    "merged" \in {resolution[j], mergeStatus[j]} =>
        state[j] # "running" /\ Covers(base, j)

Safe(j) ==
    PushedFirst(j) /\ Kept(j) /\ Committed(j) /\ Merging(j) /\ Told(j)

\* Edits are in a worktree that has a branch.
EditsHaveTree == \A j \in Jobs : edits[j] # {} => j \in trees \cap branches

WorkInv == EditsHaveTree /\ \A j \in Jobs \ disturbed : Safe(j)

\* What a larger set of commits holds.
LEMMA HoldsMore ==
    ASSUME NEW S, NEW T, S \subseteq T, NEW j, NEW n, HoldsWork(S, j, n)
    PROVE  HoldsWork(T, j, n)
  BY DEF HoldsWork

\* What either of two sets holds.
LEMMA HoldsEither ==
    ASSUME NEW S, NEW T, NEW j, NEW n
    PROVE  HoldsWork(S \cup T, j, n) <=> HoldsWork(S, j, n) \/ HoldsWork(T, j, n)
  BY DEF HoldsWork

\* No commit, no work.
LEMMA HoldsNothing ==
    ASSUME NEW j, NEW n
    PROVE  ~HoldsWork({}, j, n)
  BY DEF HoldsWork

\* A step leaves the work of a job where the invariant wants it, and whatever
\* had all of it still has.
Carries(j) ==
    /\ PushedFirst(j)'
    /\ Kept(j)'
    /\ Clean(j) => Clean(j)'
    /\ \A S, T : S \subseteq T /\ Covers(S, j) => Covers(T, j)'

\* No edits, nothing that is not committed.
LEMMA CleanEmpty ==
    ASSUME NEW j, edits[j] = {}
    PROVE  Clean(j)
  BY HoldsNothing DEF Clean

\* The refs and the worktree of the job stay as they are.
LEMMA CarriesAlong ==
    ASSUME NEW j \in Jobs, PushedFirst(j), Kept(j), base \subseteq base',
           crashed => crashed',
           UNCHANGED <<pushed[j], branch[j], edits[j], made[j], missed[j]>>,
           j \in trees' \cup branches' => j \in trees \cup branches
    PROVE  Carries(j)
<1>1. PushedFirst(j)'
  BY HoldsEither, HoldsMore DEF PushedFirst, Owed
<1>2. Kept(j)'
  <2>1. /\ base \cup branch[j] \cup edits[j] \subseteq base' \cup branch'[j] \cup edits'[j]
        /\ ~crashed' => ~crashed
    OBVIOUS
  <2> QED
    BY <2>1, HoldsMore DEF Kept, Owed
<1>3. \A S, T : S \subseteq T /\ Covers(S, j) => Covers(T, j)'
  BY HoldsMore DEF Covers, Elsewhere, Owed
<1>4. Clean(j) => Clean(j)'
  BY DEF Clean, Owed
<1> QED
  BY <1>1, <1>2, <1>3, <1>4 DEF Carries

\* What was not committed is committed, or left out.
LEMMA CarriesCommits ==
    ASSUME TypeOK, EditsHaveTree, NEW j \in Jobs, PushedFirst(j), Kept(j),
           Commits(j), UNCHANGED <<base, pushed, made, crashed, trees, branches>>
    PROVE  Carries(j) /\ Clean(j)'
<1>1. CASE j \in trees \cap branches /\ branch'[j] = branch[j] \cup edits[j]
             /\ edits'[j] = {} /\ missed' = missed
  <2>2. /\ base' \cup branch'[j] \cup edits'[j] = base \cup branch[j] \cup edits[j]
        /\ Elsewhere(j)' = Elsewhere(j)
        /\ base \cup branch[j] \subseteq base' \cup branch'[j]
        /\ Owed(j)' = Owed(j)
    BY <1>1 DEF Elsewhere, Owed
  <2>3. PushedFirst(j)'
    BY <2>2, HoldsMore DEF PushedFirst
  <2>4. Kept(j)'
    BY <2>2 DEF Kept
  <2>5. \A S, T : S \subseteq T /\ Covers(S, j) => Covers(T, j)'
    BY <2>2, HoldsMore DEF Covers
  <2>6. Clean(j)'
    BY <1>1, HoldsNothing DEF Clean
  <2> QED
    BY <2>3, <2>4, <2>5, <2>6 DEF Carries
<1>2. CASE UNCHANGED <<branch, edits>> /\ missed'[j] = missed[j] \cup Uncommitted(j)
  <2>1. Owed(j)' \subseteq Owed(j) /\ Elsewhere(j)' = Elsewhere(j)
    BY <1>2 DEF Owed, Elsewhere
  <2>2. PushedFirst(j)'
    BY <1>2, <2>1 DEF PushedFirst
  <2>3. Kept(j)'
    BY <1>2, <2>1 DEF Kept
  <2>4. \A S, T : S \subseteq T /\ Covers(S, j) => Covers(T, j)'
    BY <2>1, HoldsMore DEF Covers
  <2>5. Clean(j)'
    BY <1>2 DEF Clean, Owed, Uncommitted, HoldsWork
  <2> QED
    BY <2>2, <2>3, <2>4, <2>5 DEF Carries
<1>3. CASE j \notin trees \cap branches
  <2>1. edits[j] = {} /\ UNCHANGED <<branch, edits, missed>>
    BY <1>3 DEF Commits, EditsHaveTree
  <2>2. Clean(j)'
    BY <2>1, HoldsNothing DEF Clean
  <2> QED
    BY <2>1, <2>2, CarriesAlong
<1> QED
  BY <1>1, <1>2, <1>3 DEF Commits, TypeOK

\* The branch goes with the worktree, when its work is not wanted any more.
LEMMA CarriesThrownAway ==
    ASSUME TypeOK, NEW j \in Jobs, Gone(j), made'[j] = {}
    PROVE  Carries(j) /\ Clean(j)'
<1>1. j \notin trees' \cup branches' /\ edits'[j] = {}
  BY DEF Gone, TypeOK
<1>o. Owed(j)' = {}
  BY DEF Owed
<1>2. PushedFirst(j)'
  BY <1>1, <1>o DEF PushedFirst
<1> QED
  BY <1>1, <1>o, <1>2 DEF Carries, Kept, Covers, Clean

\* The branch goes with the worktree, when the base has its work.
LEMMA CarriesGone ==
    ASSUME TypeOK, NEW j \in Jobs, PushedFirst(j), Kept(j), Gone(j),
           Covers(base, j), UNCHANGED <<base, pushed, made, missed, crashed>>
    PROVE  Carries(j) /\ Clean(j)'
<1>1. /\ j \notin trees' \cup branches'
      /\ branch'[j] = {} /\ edits'[j] = {}
  BY DEF Gone, TypeOK
<1>2. Elsewhere(j)' \subseteq Elsewhere(j) /\ Owed(j)' = Owed(j)
  BY <1>1 DEF Elsewhere, Owed
<1>3. PushedFirst(j)'
  <2> SUFFICES ASSUME NEW n \in Nat, HoldsWork(pushed[j], j, n), n \in Owed(j)
               PROVE  HoldsWork(base' \cup branch'[j], j, n)
    BY <1>1, <1>2 DEF PushedFirst
  <2>1. HoldsWork(Elsewhere(j), j, n)
    BY HoldsMore DEF Elsewhere
  <2>2. HoldsWork(base, j, n)
    BY <2>1 DEF Covers
  <2> QED
    BY <2>2, HoldsMore
<1>4. Kept(j)'
  <2> SUFFICES ASSUME ~crashed, NEW n \in Owed(j) PROVE HoldsWork(base, j, n)
    BY <1>2, HoldsMore DEF Kept
  <2>1. HoldsWork(base \cup branch[j] \cup edits[j], j, n)
    BY DEF Kept
  <2>2. HoldsWork(base, j, n) \/ HoldsWork(branch[j] \cup edits[j], j, n)
    BY <2>1, HoldsEither
  <2>3. branch[j] \cup edits[j] \subseteq Elsewhere(j)
    BY DEF Elsewhere
  <2> QED
    BY <2>2, <2>3, HoldsMore DEF Covers
<1>5. \A S, T : S \subseteq T /\ Covers(S, j) => Covers(T, j)'
  BY <1>2, HoldsMore DEF Covers
<1>6. Clean(j)'
  BY <1>1, HoldsNothing DEF Clean
<1> QED
  BY <1>3, <1>4, <1>5, <1>6 DEF Carries

\* The worktree goes, when it holds nothing that a crash has not already put
\* at risk.
LEMMA CarriesRemoved ==
    ASSUME TypeOK, NEW j \in Jobs, PushedFirst(j), Kept(j), RemoveTree(j),
           crashed \/ Clean(j), UNCHANGED <<base, pushed, made, missed, crashed>>
    PROVE  Carries(j) /\ Clean(j)'
<1>1. /\ edits'[j] = {} /\ UNCHANGED <<branch, branches>>
      /\ j \in trees' \cup branches' => j \in trees \cup branches
  BY DEF RemoveTree, TypeOK
<1>2. Elsewhere(j)' \subseteq Elsewhere(j) /\ Owed(j)' = Owed(j)
  BY <1>1 DEF Elsewhere, Owed
<1>3. PushedFirst(j)'
  BY <1>1, <1>2 DEF PushedFirst
<1>4. Kept(j)'
  <2> SUFFICES ASSUME ~crashed, NEW n \in Owed(j) PROVE HoldsWork(base \cup branch[j], j, n)
    BY <1>1, <1>2, HoldsMore DEF Kept
  <2>1. HoldsWork(base \cup branch[j] \cup edits[j], j, n)
    BY DEF Kept
  <2>2. ~HoldsWork(edits[j], j, n)
    BY DEF Clean
  <2> QED
    BY <2>1, <2>2, HoldsEither
<1>5. \A S, T : S \subseteq T /\ Covers(S, j) => Covers(T, j)'
  BY <1>2, HoldsMore DEF Covers
<1>6. Clean(j)'
  BY <1>1, HoldsNothing DEF Clean
<1> QED
  BY <1>3, <1>4, <1>5, <1>6 DEF Carries

\* The branch is pushed.
LEMMA CarriesPushed ==
    ASSUME TypeOK, NEW j \in Jobs, PushedFirst(j), Kept(j), Push(j),
           UNCHANGED <<base, branch, edits, made, missed, crashed, trees, branches>>
    PROVE  Carries(j)
<1>1. CASE j \in branches
  <2>1. pushed'[j] = branch[j]
    BY <1>1 DEF Push, TypeOK
  <2>2. Elsewhere(j)' \subseteq Elsewhere(j) /\ Owed(j)' = Owed(j)
    BY <2>1 DEF Elsewhere, Owed
  <2>3. PushedFirst(j)'
    BY <2>1, <2>2, HoldsEither DEF PushedFirst
  <2>4. Kept(j)'
    BY <2>2 DEF Kept
  <2>5. \A S, T : S \subseteq T /\ Covers(S, j) => Covers(T, j)'
    BY <2>2, HoldsMore DEF Covers
  <2>6. Clean(j) => Clean(j)'
    BY <2>2 DEF Clean
  <2> QED
    BY <2>3, <2>4, <2>5, <2>6 DEF Carries
<1>2. CASE j \notin branches
  BY <1>2, CarriesAlong DEF Push
<1> QED
  BY <1>1, <1>2

\* A step of another job's resolution.
LEMMA ElseStep ==
    ASSUME NEW j \in Jobs, Safe(j), LockInv,
           base \subseteq base', crashed => crashed',
           UNCHANGED <<pushed[j], branch[j], edits[j], made[j], missed[j],
                       state[j], resolution[j], mergeStatus[j]>>,
           j \in trees' \cup branches' => j \in trees \cup branches,
           \A p \in Processes :
             op[p].job = j \/ op'[p].job = j => op'[p] = op[p]
    PROVE  Safe(j)'
<1>1. Carries(j)
  BY CarriesAlong DEF Safe
<1>2. Committing(j)' = Committing(j)
  BY DEF Committing, Processes
<1>3. Committed(j)'
  BY <1>1, <1>2 DEF Safe, Committed, Carries
<1>4. Merging(j)'
  <2> SUFFICES ASSUME NEW p \in Processes, op'[p].job = j PROVE Honest(op[p], j)'
    BY DEF Merging
  <2>1. op'[p] = op[p] /\ Honest(op[p], j)
    BY DEF Safe, Merging
  <2> QED
    BY <1>1, <2>1 DEF Honest, Carries
<1>5. Told(j)'
  BY <1>1 DEF Safe, Told, Carries
<1> QED
  BY <1>1, <1>3, <1>4, <1>5 DEF Safe, Carries

\* A step that p takes for the job, with no other process at work on it.
LEMMA OwnStep ==
    ASSUME NEW p \in Processes, NEW j \in Jobs, Carries(j),
           \A q \in Processes : q # p => op'[q].job # j,
           Committed(j)', Told(j)',
           op'[p].job = j => Honest(op[p], j)'
    PROVE  Safe(j)'
<1>1. Merging(j)'
  <2> SUFFICES ASSUME NEW q \in Processes, op'[q].job = j PROVE Honest(op[q], j)'
    BY DEF Merging
  <2> QED
    OBVIOUS
<1> QED
  BY <1>1 DEF Safe, Carries

\* While another step of a resolution is under way nothing waits to be
\* committed.
LEMMA AllCommitted ==
    ASSUME NEW p \in Processes, NEW j \in Jobs, Alone(j), Committed(j),
           op[p].job = j,
           \/ p # j
           \/ op[p].pc \notin {"closing", "snapshot"}
           \/ op[p].pc = "snapshot" /\ op[p].action # "merge"
    PROVE  ~crashed /\ state[j] \in {"review", "completed"} => Clean(j)
<1>1. ~Committing(j)
  BY DEF Committing, Alone, Processes
<1> QED
  BY <1>1 DEF Committed

\* A row that is not rewritten says what it said.
LEMMA StillTold ==
    ASSUME NEW j \in Jobs, Told(j), Carries(j), base \subseteq base',
           UNCHANGED <<resolution[j], mergeStatus[j]>>,
           state'[j] = "running" => state[j] = "running"
    PROVE  Told(j)'
  BY DEF Told, Carries

\* What the process p leaves to the other jobs.
LEMMA OthersKeep ==
    ASSUME TypeInv, NEW p \in Processes, NEW j \in Jobs, NEW k \in Jobs, k # j,
           \A q \in Processes : q # p => op'[q] = op[q],
           op[p].job \in {j, NoJob}, op'[p].job \in {j, NoJob}
    PROVE  \A q \in Processes : op[q].job = k \/ op'[q].job = k => op'[q] = op[q]
  BY NoJobAssumption

\* Edits stay in a worktree that has a branch.
LEMMA EditsNext ==
    ASSUME TypeInv, EditsHaveTree, [Next]_vars
    PROVE  EditsHaveTree'
<1>t. TypeOK
  BY DEF TypeInv
<1>1. ASSUME UNCHANGED local PROVE EditsHaveTree'
  BY <1>1 DEF local, EditsHaveTree
<1>2. ASSUME NEW j \in Jobs, Gone(j) PROVE EditsHaveTree'
  BY <1>t, <1>2 DEF Gone, EditsHaveTree, TypeOK
<1>3. ASSUME NEW j \in Jobs, RemoveTree(j) PROVE EditsHaveTree'
  BY <1>t, <1>3 DEF RemoveTree, EditsHaveTree, TypeOK
<1>4. ASSUME NEW j \in Jobs, Commits(j), UNCHANGED <<trees, branches>> PROVE EditsHaveTree'
  BY <1>t, <1>4 DEF Commits, EditsHaveTree, TypeOK
<1>5. ASSUME NEW j \in Jobs, AgentWorks(j) PROVE EditsHaveTree'
  BY <1>t, <1>5 DEF AgentWorks, EditsHaveTree, TypeOK
<1>6. ASSUME NEW j \in Jobs, ResumeJob(j) PROVE EditsHaveTree'
  BY <1>t, <1>6 DEF ResumeJob, EditsHaveTree, TypeOK
<1>j. ASSUME NEW p \in Processes, op[p].pc # "idle" PROVE op[p].job \in Jobs
  BY <1>j DEF TypeInv, Working
<1>7. ASSUME NEW p \in Processes, ResolveStep(p) PROVE EditsHaveTree'
  <2>1. CASE Discard(p)
    BY <1>2, <1>j, <2>1 DEF Discard
  <2>2. CASE AskPr(p)
    BY <1>1, <1>3, <1>j, <2>2 DEF AskPr
  <2>3. CASE NotePr(p)
    BY <1>1, <1>3, <1>j, <2>3 DEF NotePr
  <2>4. CASE AutoCommit(p)
    BY <1>4, <1>j, <2>4 DEF AutoCommit
  <2>5. CASE TidyUp(p)
    BY <1>1, <1>2, <1>j, <2>5 DEF TidyUp
  <2>6. CASE \/ OpenPr(p) \/ TakeLock(p) \/ AdvanceBase(p) \/ Save(p) \/ Mix(p)
             \/ RecordMerge(p) \/ Restore(p) \/ Store(p)
    <3>1. UNCHANGED local
      BY <2>6, Zenon
      DEF OpenPr, TakeLock, Enter, AdvanceBase, Save, Mix, RecordMerge, Restore, Store
    <3> QED
      BY <1>1, <3>1
  <2> QED
    BY <1>7, <2>1, <2>2, <2>3, <2>4, <2>5, <2>6 DEF ResolveStep
<1>8. ASSUME NEW j \in Jobs, SessionStep(j) PROVE EditsHaveTree'
  <2>1. CASE AgentWorks(j)
    BY <1>5, <2>1
  <2>2. CASE CloseLastStep(j)
    BY <1>4, <2>2 DEF CloseLastStep
  <2>3. CASE AgentAsksForPr(j) \/ FinishSession(j)
    BY <1>1, <2>3 DEF AgentAsksForPr, FinishSession
  <2> QED
    BY <1>8, <2>1, <2>2, <2>3 DEF SessionStep
<1>9. ASSUME NEW j \in Jobs, OperatorStep(j) PROVE EditsHaveTree'
  <2>1. CASE ResumeJob(j)
    BY <1>6, <2>1
  <2>2. CASE Archive(j)
    BY <1>2, <2>2 DEF Archive
  <2>3. CASE \E r \in Requests, a \in Actions : Resolve(r, j, a)
    BY <1>1, <2>3 DEF Resolve
  <2>4. CASE Cancel(j) \/ ResetRow(j)
    BY <1>1, <2>4 DEF Cancel, ResetRow
  <2> QED
    BY <1>9, <2>1, <2>2, <2>3, <2>4 DEF OperatorStep
<1>10. CASE Crash
  BY <1>1, <1>10 DEF Crash
<1>11. CASE UNCHANGED vars
  BY <1>1, <1>11 DEF vars
<1> QED
  BY <1>7, <1>8, <1>9, <1>10, <1>11 DEF Next

MergeInv == TypeInv /\ LockInv /\ AloneInv /\ WorkInv

\* What is known of a resolution that nothing has overlapped.
LEMMA AtWork ==
    ASSUME MergeInv, NEW p \in Processes, op[p].pc # "idle",
           op[p].job \notin disturbed
    PROVE  /\ op[p].job \in Jobs
           /\ Alone(op[p].job)
           /\ Safe(op[p].job)
           /\ Honest(op[p], op[p].job)
           /\ op[p].pc \notin {"opening", "noting", "closing"} =>
                state[op[p].job] = "review"
<1> DEFINE j == op[p].job
<1>1. j \in Jobs /\ Alone(j) /\ Safe(j)
  BY DEF MergeInv, TypeInv, Working, AloneInv, WorkInv
<1>2. Honest(op[p], j)
  BY <1>1 DEF Safe, Merging
<1>3. Fits(op[p], state[j])
  BY <1>1 DEF Alone
<1>4. op[p].pc \notin {"opening", "noting", "closing"} => state[j] = "review"
  BY <1>3, Zenon DEF Fits
<1> QED
  BY <1>1, <1>2, <1>4

\* No other process works on the job of p.
LEMMA NoOther ==
    ASSUME NEW p \in Processes, Alone(op[p].job),
           \A q \in Processes : q # p => op'[q] = op[q]
    PROVE  \A q \in Processes : q # p => op'[q].job # op[p].job
  BY DEF Alone

\* Nobody works on a running job whose agent asks for nothing.
LEMMA NobodyElse ==
    ASSUME MergeInv, NEW j \in Jobs \ disturbed, state[j] = "running",
           op[j].job = NoJob
    PROVE  \A q \in Processes : op[q].job # j
<1>1. Alone(j) /\ OwnJob
  BY DEF MergeInv, AloneInv
<1> SUFFICES ASSUME NEW q \in Processes, op[q].job = j PROVE FALSE
  OBVIOUS
<1>2. q # j /\ Fits(op[q], "running")
  BY <1>1, NoJobAssumption DEF Alone
<1>3. op[q].action = "agent_pr"
  BY <1>2, Zenon DEF Fits
<1> QED
  BY <1>1, <1>2, <1>3, NoJobAssumption DEF OwnJob, Processes

\* A step of p that commits, throws away or moves on, and leaves the row.
LEMMA MovesOn ==
    ASSUME MergeInv, NEW p \in Processes, NEW j \in Jobs \ disturbed,
           op[p].pc # "idle", op[p].job = j,
           \A q \in Processes : q # p => op'[q] = op[q],
           Carries(j), base \subseteq base',
           UNCHANGED <<state, resolution, mergeStatus, crashed>>,
           \/ Clean(j)'
           \/ op[p].pc \notin {"closing", "snapshot"}
           \/ op[p].pc = "snapshot" /\ op[p].action # "merge",
           op'[p].job = j => Honest(op[p], j)'
    PROVE  Safe(j)'
<1>1. Alone(j) /\ Safe(j)
  BY AtWork
<1>2. \A q \in Processes : q # p => op'[q].job # j
  BY <1>1, NoOther
<1>3. Committed(j)'
  <2>1. CASE Clean(j)'
    BY <2>1 DEF Committed
  <2>2. CASE ~Clean(j)'
    <3>1. ~crashed /\ state[j] \in {"review", "completed"} => Clean(j)
      BY <1>1, <2>2, AllCommitted DEF Safe
    <3> QED
      BY <2>2, <3>1 DEF Committed, Carries
  <2> QED
    BY <2>1, <2>2
<1>4. Told(j)'
  BY <1>1, StillTold DEF Safe
<1> QED
  BY <1>1, <1>2, <1>3, <1>4, OwnStep

\* What a step for the job j must leave of the job k.
Leaves(k) ==
    /\ UNCHANGED <<pushed[k], branch[k], edits[k], made[k], missed[k],
                   state[k], resolution[k], mergeStatus[k]>>
    /\ k \in trees' \cup branches' => k \in trees \cup branches

\* A step that p takes for the job j is nothing to another one.
LEMMA OtherJob ==
    ASSUME MergeInv, [Next]_vars, NEW p \in Processes, NEW j \in Jobs,
           NEW k \in Jobs \ disturbed, k # j,
           \A q \in Processes : q # p => op'[q] = op[q],
           op[p].job \in {j, NoJob}, op'[p].job \in {j, NoJob},
           crashed' = crashed, Leaves(k)
    PROVE  Safe(k)'
<1>1. Safe(k) /\ LockInv /\ base \subseteq base'
  BY BaseUp DEF MergeInv, WorkInv
<1>2. \A q \in Processes : op[q].job = k \/ op'[q].job = k => op'[q] = op[q]
  BY OthersKeep DEF MergeInv
<1> QED
  BY <1>1, <1>2, ElseStep DEF Leaves

\* Throwing the work of a job away.
LEMMA SafeDiscard ==
    ASSUME MergeInv, [Next]_vars, NEW p \in Processes, Discard(p),
           NEW k \in Jobs \ disturbed
    PROVE  Safe(k)'
<1> DEFINE j == op[p].job
<1>t. TypeOK /\ TypeInv
  BY DEF MergeInv, TypeInv
<1>1. /\ op[p].pc = "snapshot" /\ op'[p].pc = "storing" /\ op'[p].outcome = "discarded"
      /\ op'[p].job = op[p].job /\ op[p].job \in Jobs
      /\ \A q \in Processes : q # p => op'[q] = op[q]
  BY <1>t, MoveWithFacts DEF Discard, Places, Resolution, FinalResolutions
<1>2. /\ Gone(j) /\ made' = [made EXCEPT ![j] = {}]
      /\ UNCHANGED <<state, resolution, mergeStatus, base, pushed, missed, crashed>>
  BY DEF Discard, row, platform
<1>3. CASE k # j
  <2>1. Leaves(k)
    BY <1>t, <1>1, <1>2, <1>3 DEF Gone, Leaves, TypeOK
  <2> QED
    BY <1>1, <1>2, <1>3, <2>1, OtherJob
<1>4. CASE k = j
  <2>1. Carries(k) /\ Clean(k)'
    BY <1>t, <1>1, <1>2, <1>4, CarriesThrownAway DEF TypeOK
  <2>2. Honest(op[p], k)'
    BY <1>1 DEF Honest
  <2> QED
    BY <1>1, <1>2, <1>4, <2>1, <2>2, MovesOn
<1> QED
  BY <1>3, <1>4

\* The operator asks for a pull request that the row knows, or that it does not.
LEMMA SafeAskPr ==
    ASSUME MergeInv, [Next]_vars, NEW p \in Processes, AskPr(p),
           NEW k \in Jobs \ disturbed
    PROVE  Safe(k)'
<1> DEFINE j == op[p].job
<1>t. TypeOK /\ TypeInv
  BY DEF MergeInv, TypeInv
<1>1. /\ op[p].pc = "snapshot" /\ op[p].action = "create_pr"
      /\ UNCHANGED <<state, resolution, mergeStatus, base, pushed, made, missed, crashed>>
  BY DEF AskPr, row, platform, history, achieved
<1>2. /\ op'[p].pc \in {"opening", "storing"}
      /\ op'[p].outcome \in {op[p].outcome, "pr_created"}
      /\ op'[p].job = op[p].job /\ op[p].job \in Jobs
      /\ \A q \in Processes : q # p => op'[q] = op[q]
  <2>1. CASE Move(p, "opening")
    BY <1>t, <1>1, <2>1, MoveFacts DEF Places
  <2>2. CASE MoveWith(p, "storing", "pr_created")
    BY <1>t, <1>1, <2>2, MoveWithFacts DEF Places, Resolution, FinalResolutions
  <2> QED
    BY <2>1, <2>2 DEF AskPr
<1>3. UNCHANGED local \/ RemoveTree(j)
  BY DEF AskPr
<1>4. CASE k # j
  <2>1. Leaves(k)
    BY <1>t, <1>1, <1>2, <1>3, <1>4 DEF RemoveTree, Leaves, TypeOK, local
  <2> QED
    BY <1>1, <1>2, <1>4, <2>1, OtherJob
<1>5. CASE k = j
  <2>1. Alone(k) /\ Safe(k) /\ Honest(op[p], k) /\ state[k] = "review"
    BY <1>1, <1>5, AtWork
  <2>2. crashed \/ Clean(k)
    BY <1>1, <1>5, <2>1, AllCommitted DEF Safe
  <2>3. Carries(k)
    <3>1. CASE UNCHANGED local
      BY <1>1, <2>1, <3>1, CarriesAlong DEF local, Safe
    <3>2. CASE RemoveTree(k)
      BY <1>t, <1>1, <2>1, <2>2, <3>2, CarriesRemoved DEF Safe
    <3> QED
      BY <1>3, <1>5, <3>1, <3>2
  <2>4. Honest(op[p], k)'
    BY <1>1, <1>2, <2>1 DEF Honest
  <2> QED
    BY <1>1, <1>2, <1>5, <2>3, <2>4, MovesOn
<1> QED
  BY <1>4, <1>5

\* The push and the platform's answer.
LEMMA SafeOpenPr ==
    ASSUME MergeInv, [Next]_vars, NEW p \in Processes, OpenPr(p),
           NEW k \in Jobs \ disturbed
    PROVE  Safe(k)'
<1> DEFINE j == op[p].job
<1>t. TypeOK /\ TypeInv
  BY DEF MergeInv, TypeInv
<1>1. /\ op[p].pc = "opening" /\ (Push(j) \/ UNCHANGED pushed)
      /\ UNCHANGED <<state, resolution, mergeStatus, base, branch, branches, edits,
                     trees, made, missed, crashed>>
  BY DEF OpenPr, row, local, achieved
<1>2. /\ op'[p].pc = "noting" /\ op'[p].outcome \in {"pr_created", "unresolved"}
      /\ op'[p].job = op[p].job /\ op[p].job \in Jobs
      /\ \A q \in Processes : q # p => op'[q] = op[q]
  <2>1. MoveWith(p, "noting", "pr_created") \/ MoveWith(p, "noting", "unresolved")
    <3>1. PICK opens : Answer(p, opens)
      BY DEF OpenPr
    <3> QED
      BY <3>1 DEF Answer
  <2> QED
    BY <1>t, <1>1, <2>1, MoveWithFacts DEF Places, Resolution, FinalResolutions
<1>3. CASE k # j
  <2>1. Leaves(k)
    BY <1>t, <1>1, <1>2, <1>3 DEF Push, Leaves, TypeOK
  <2> QED
    BY <1>1, <1>2, <1>3, <2>1, OtherJob
<1>4. CASE k = j
  <2>1. Safe(k)
    BY <1>1, <1>4, AtWork
  <2>2. Carries(k)
    BY <1>t, <1>1, <1>4, <2>1, CarriesPushed, CarriesAlong DEF Safe
  <2>3. Honest(op[p], k)'
    BY <1>2 DEF Honest
  <2> QED
    BY <1>1, <1>2, <1>4, <2>2, <2>3, MovesOn
<1> QED
  BY <1>3, <1>4

\* The answer is noted, and the operator's worktree goes.
LEMMA SafeNotePr ==
    ASSUME MergeInv, [Next]_vars, NEW p \in Processes, NotePr(p),
           NEW k \in Jobs \ disturbed
    PROVE  Safe(k)'
<1> DEFINE j == op[p].job
<1>t. TypeOK /\ TypeInv
  BY DEF MergeInv, TypeInv
<1>1. /\ op[p].pc = "noting"
      /\ UNCHANGED <<state, resolution, base, pushed, made, missed, crashed>>
      /\ \/ mergeStatus' = [mergeStatus EXCEPT ![j] = "pr_created"]
         \/ mergeStatus' = [mergeStatus EXCEPT ![j] = "not_merged"]
      /\ \/ UNCHANGED local
         \/ op[p].action = "create_pr" /\ RemoveTree(j)
  BY DEF NotePr, platform, history, achieved
<1>2. /\ \/ op'[p] = Idle
         \/ op'[p].pc = "storing" /\ op'[p].outcome = op[p].outcome /\ op'[p].job = op[p].job
      /\ op[p].job \in Jobs
      /\ \A q \in Processes : q # p => op'[q] = op[q]
  <2>1. CASE Move(p, "storing")
    BY <1>t, <1>1, <2>1, MoveFacts DEF Places
  <2>2. CASE End(p)
    BY <1>t, <1>1, <2>2, EndFacts DEF TypeInv, Working
  <2> QED
    BY <2>1, <2>2 DEF NotePr
<1>i. op'[p].job \in {j, NoJob} /\ (op'[p].job = j => op'[p].pc = "storing")
  BY <1>2, OpRecords, NoJobAssumption
<1>3. CASE k # j
  <2>1. Leaves(k)
    BY <1>t, <1>1, <1>2, <1>3 DEF RemoveTree, Leaves, TypeOK, local
  <2> QED
    BY <1>1, <1>2, <1>i, <1>3, <2>1, OtherJob
<1>4. CASE k = j
  <2>1. Alone(k) /\ Safe(k) /\ Honest(op[p], k)
    BY <1>1, <1>4, AtWork
  <2>2. ~crashed /\ state[k] \in {"review", "completed"} => Clean(k)
    BY <1>1, <1>4, <2>1, AllCommitted DEF Safe
  <2>3. op[p].action = "create_pr" => state[k] = "review"
    <3>1. Fits(op[p], state[k])
      BY <1>4, <2>1 DEF Alone
    <3> QED
      BY <1>1, <3>1, Zenon DEF Fits
  <2>4. Carries(k)
    <3>1. CASE UNCHANGED local
      BY <1>1, <2>1, <3>1, CarriesAlong DEF local, Safe
    <3>2. CASE op[p].action = "create_pr" /\ RemoveTree(k)
      BY <1>t, <1>1, <2>1, <2>2, <2>3, <3>2, CarriesRemoved DEF Safe
    <3> QED
      BY <1>1, <1>4, <3>1, <3>2
  <2>5. Committed(k)'
    BY <1>1, <2>2, <2>4 DEF Committed, Carries
  <2>6. Told(k)'
    <3>1. mergeStatus'[k] # "merged"
      BY <1>t, <1>1, <1>2, <1>4 DEF TypeOK
    <3> QED
      BY <1>1, <2>1, <2>4, <3>1 DEF Safe, Told, Carries
  <2>7. op'[p].job = k => Honest(op[p], k)'
    BY <1>1, <1>2, <1>i, <1>4, <2>1, OpRecords DEF Honest
  <2>8. \A q \in Processes : q # p => op'[q].job # k
    BY <1>2, <1>4, <2>1, NoOther
  <2> QED
    BY <2>4, <2>5, <2>6, <2>7, <2>8, OwnStep
<1> QED
  BY <1>3, <1>4

\* What is not committed is committed before a merge.
LEMMA SafeAutoCommit ==
    ASSUME MergeInv, [Next]_vars, NEW p \in Processes, AutoCommit(p),
           NEW k \in Jobs \ disturbed
    PROVE  Safe(k)'
<1> DEFINE j == op[p].job
<1>t. TypeOK /\ TypeInv /\ EditsHaveTree
  BY DEF MergeInv, TypeInv, WorkInv
<1>1. /\ op[p].pc = "snapshot" /\ Commits(j)
      /\ UNCHANGED <<state, resolution, mergeStatus, base, pushed, branches, trees,
                     made, crashed>>
  BY DEF AutoCommit, Commits, row, platform
<1>2. /\ op'[p].pc = "locking" /\ op'[p].outcome = op[p].outcome
      /\ op'[p].job = op[p].job /\ op[p].job \in Jobs
      /\ \A q \in Processes : q # p => op'[q] = op[q]
  BY <1>t, <1>1, MoveFacts DEF AutoCommit, Places
<1>3. CASE k # j
  <2>1. Leaves(k)
    BY <1>t, <1>1, <1>2, <1>3 DEF Commits, Leaves, TypeOK
  <2> QED
    BY <1>1, <1>2, <1>3, <2>1, OtherJob
<1>4. CASE k = j
  <2>1. Safe(k) /\ Honest(op[p], k)
    BY <1>1, <1>4, AtWork
  <2>2. Carries(k) /\ Clean(k)'
    BY <1>t, <1>1, <1>4, <2>1, CarriesCommits DEF Safe
  <2>3. Honest(op[p], k)'
    BY <1>1, <1>2, <2>1, <2>2 DEF Honest
  <2> QED
    BY <1>1, <1>2, <1>4, <2>2, <2>3, MovesOn
<1> QED
  BY <1>3, <1>4

\* What a session has left is committed after its last step.
LEMMA SafeClose ==
    ASSUME MergeInv, [Next]_vars, NEW j \in Jobs, CloseLastStep(j),
           NEW k \in Jobs \ disturbed
    PROVE  Safe(k)'
<1>t. TypeOK /\ TypeInv /\ EditsHaveTree
  BY DEF MergeInv, TypeInv, WorkInv
<1>1. /\ op[j].pc = "closing" /\ Commits(j)
      /\ UNCHANGED <<state, resolution, mergeStatus, base, pushed, branches, trees,
                     made, crashed>>
  BY DEF CloseLastStep, Commits, row, platform
<1>2. /\ j \in Processes /\ op[j].job = j /\ op'[j].job = NoJob
      /\ \A q \in Processes : q # j => op'[q] = op[q]
  <2>1. /\ j \in Processes /\ op[j].job \in Jobs /\ op[j].job \in {j, NoJob}
    BY <1>1 DEF MergeInv, TypeInv, Working, AloneInv, OwnJob, Processes
  <2> QED
    BY <1>t, <2>1, EndFacts, OpRecords, NoJobAssumption DEF CloseLastStep
<1>3. CASE k # j
  <2>1. Leaves(k)
    BY <1>t, <1>1, <1>3 DEF Commits, Leaves, TypeOK
  <2> QED
    BY <1>1, <1>2, <1>3, <2>1, OtherJob
<1>4. CASE k = j
  <2>1. Safe(k)
    BY <1>1, <1>2, <1>4, AtWork
  <2>2. Carries(k) /\ Clean(k)'
    BY <1>t, <1>1, <1>4, <2>1, CarriesCommits DEF Safe
  <2> QED
    BY <1>1, <1>2, <1>4, <2>2, MovesOn, NoJobAssumption
<1> QED
  BY <1>3, <1>4

\* The lock is taken, and the tip with it.
LEMMA SafeTakeLock ==
    ASSUME MergeInv, [Next]_vars, NEW p \in Processes, TakeLock(p),
           NEW k \in Jobs \ disturbed
    PROVE  Safe(k)'
<1> DEFINE j == op[p].job
<1>t. TypeOK /\ TypeInv
  BY DEF MergeInv, TypeInv
<1>1. /\ op[p].pc = "locking"
      /\ UNCHANGED <<state, resolution, mergeStatus, base, pushed, local, made, missed, crashed>>
  BY DEF TakeLock, Enter, row, platform, achieved
<1>2. /\ op'[p].pc \in {"advancing", "saving"}
      /\ op'[p].pc = "advancing" => base \subseteq op'[p].sha /\ op'[p].sha = branch[j]
      /\ op'[p].outcome = op[p].outcome
      /\ op'[p].job = op[p].job /\ op[p].job \in Jobs
      /\ \A q \in Processes : q # p => op'[q] = op[q]
  BY <1>t, <1>1, EnterFacts DEF TakeLock
<1>3. CASE k # j
  <2>1. Leaves(k)
    BY <1>1 DEF Leaves, local
  <2> QED
    BY <1>1, <1>2, <1>3, <2>1, OtherJob
<1>4. CASE k = j
  <2>1. Safe(k) /\ Honest(op[p], k)
    BY <1>1, <1>4, AtWork
  <2>2. Carries(k) /\ Clean(k) /\ Clean(k)'
    BY <1>1, <2>1, CarriesAlong DEF local, Safe, Honest, Carries
  <2>3. op'[p].pc = "advancing" => Covers(op'[p].sha, k)
    <3> SUFFICES ASSUME op'[p].pc = "advancing", NEW n \in Owed(k),
                        HoldsWork(Elsewhere(k), k, n)
                 PROVE  HoldsWork(branch[k], k, n)
      BY <1>2, <1>4 DEF Covers
    <3>1. n \in Nat
      BY <1>t DEF TypeOK, Owed
    <3>2. HoldsWork(pushed[k], k, n) \/ HoldsWork(branch[k], k, n)
      <4>1. ~HoldsWork(edits[k], k, n)
        BY <2>2 DEF Clean
      <4>2. HoldsWork(pushed[k] \cup branch[k] \cup edits[k], k, n)
        BY DEF Elsewhere
      <4> QED
        BY <4>1, <4>2, HoldsEither
    <3>3. base \cup branch[k] = branch[k]
      BY <1>2, <1>4
    <3> QED
      BY <2>1, <3>1, <3>2, <3>3 DEF Safe, PushedFirst
  <2>4. op'[p].pc = "advancing" => Covers(op[p].sha, k)'
    BY <2>2, <2>3 DEF Carries
  <2>5. Honest(op[p], k)'
    BY <1>1, <1>2, <2>1, <2>2, <2>4 DEF Honest
  <2> QED
    BY <1>1, <1>2, <1>4, <2>2, <2>5, MovesOn
<1> QED
  BY <1>3, <1>4

\* A fast-forward puts all the work of the job in the base.
LEMMA SafeAdvanceBase ==
    ASSUME MergeInv, [Next]_vars, NEW p \in Processes, AdvanceBase(p),
           NEW k \in Jobs \ disturbed
    PROVE  Safe(k)'
<1> DEFINE j == op[p].job
<1>t. TypeOK /\ TypeInv
  BY DEF MergeInv, TypeInv
<1>1. /\ op[p].pc = "advancing" /\ base' = op[p].sha
      /\ UNCHANGED <<state, resolution, mergeStatus, pushed, local, made, missed, crashed>>
  BY DEF AdvanceBase, row, platform, achieved
<1>2. /\ \/ op'[p].pc = "recording"
         \/ op'[p].pc = "saving" /\ op'[p].outcome = op[p].outcome
      /\ op'[p].job = op[p].job /\ op[p].job \in Jobs
      /\ \A q \in Processes : q # p => op'[q] = op[q]
  BY <1>t, AdvanceFacts
<1>3. CASE k # j
  <2>1. Leaves(k)
    BY <1>1 DEF Leaves, local
  <2> QED
    BY <1>1, <1>2, <1>3, <2>1, OtherJob
<1>4. CASE k = j
  <2>1. Safe(k) /\ Honest(op[p], k) /\ base \subseteq base'
    BY <1>1, <1>4, AtWork, BaseUp DEF MergeInv
  <2>2. Carries(k) /\ Clean(k)'
    BY <1>1, <2>1, CarriesAlong DEF local, Safe, Honest, Carries
  <2>3. Covers(base, k)'
    BY <1>1, <2>1, <2>2 DEF Honest, Carries
  <2>4. Honest(op[p], k)'
    BY <1>1, <1>2, <2>1, <2>2, <2>3 DEF Honest
  <2> QED
    BY <1>1, <1>2, <1>4, <2>1, <2>2, <2>4, MovesOn
<1> QED
  BY <1>3, <1>4

\* The way in, and what it remembers.
LEMMA SafeSave ==
    ASSUME MergeInv, [Next]_vars, NEW p \in Processes, Save(p),
           NEW k \in Jobs \ disturbed
    PROVE  Safe(k)'
<1> DEFINE j == op[p].job
<1>t. TypeOK /\ TypeInv
  BY DEF MergeInv, TypeInv
<1>1. /\ op[p].pc = "saving"
      /\ UNCHANGED <<state, resolution, mergeStatus, base, pushed, local, made, missed, crashed>>
  BY DEF Save, row, platform, achieved
<1>2. PICK from \in {"base", "other", "none"}, stashed \in BOOLEAN :
        Put(p, SaveKeeps(op[p], from, stashed))
  BY <1>t, SaveCases
<1>3. /\ op'[p].pc = "mixing" /\ op'[p].outcome = op[p].outcome
      /\ op'[p].job = op[p].job /\ op[p].job \in Jobs
      /\ \A q \in Processes : q # p => op'[q] = op[q]
  BY <1>t, <1>1, <1>2, SaveFacts
<1>4. CASE k # j
  <2>1. Leaves(k)
    BY <1>1 DEF Leaves, local
  <2> QED
    BY <1>1, <1>3, <1>4, <2>1, OtherJob
<1>5. CASE k = j
  <2>1. Safe(k) /\ Honest(op[p], k)
    BY <1>1, <1>5, AtWork
  <2>2. Carries(k) /\ Clean(k)'
    BY <1>1, <2>1, CarriesAlong DEF local, Safe, Honest, Carries
  <2>3. Honest(op[p], k)'
    BY <1>1, <1>3, <2>1, <2>2 DEF Honest
  <2> QED
    BY <1>1, <1>3, <1>5, <2>2, <2>3, MovesOn
<1> QED
  BY <1>4, <1>5

\* The way out.
LEMMA SafeRestore ==
    ASSUME MergeInv, [Next]_vars, NEW p \in Processes, Restore(p),
           NEW k \in Jobs \ disturbed
    PROVE  Safe(k)'
<1> DEFINE j == op[p].job
<1>t. TypeOK /\ TypeInv
  BY DEF MergeInv, TypeInv
<1>1. /\ op[p].pc = "restoring"
      /\ UNCHANGED <<state, resolution, mergeStatus, base, pushed, local, made, missed, crashed>>
  BY DEF Restore, row, platform, achieved
<1>3. /\ op'[p].pc = "storing" /\ op'[p].outcome = op[p].outcome
      /\ op'[p].job = op[p].job /\ op[p].job \in Jobs
      /\ \A q \in Processes : q # p => op'[q] = op[q]
  BY <1>t, RestoreFacts
<1>4. CASE k # j
  <2>1. Leaves(k)
    BY <1>1 DEF Leaves, local
  <2> QED
    BY <1>1, <1>3, <1>4, <2>1, OtherJob
<1>5. CASE k = j
  <2>1. Safe(k) /\ Honest(op[p], k)
    BY <1>1, <1>5, AtWork
  <2>2. Carries(k)
    BY <1>1, <2>1, CarriesAlong DEF local, Safe
  <2>3. Honest(op[p], k)'
    BY <1>1, <1>3, <2>1, <2>2 DEF Honest, Carries
  <2> QED
    BY <1>1, <1>3, <1>5, <2>2, <2>3, MovesOn
<1> QED
  BY <1>4, <1>5

\* A merge or a cherry-pick that succeeds puts on the base branch what the
\* job's branch holds.
LEMMA MixedHolds ==
    ASSUME TypeOK, NEW p \in Processes, NEW j \in Jobs, op[p].job = j, NEW n,
           HoldsWork(branch[j], j, n)
    PROVE  HoldsWork(base \cup Mixed(p), j, n)
<1>1. PICK c \in branch[j] : c.job = j /\ c.session = n
  BY DEF HoldsWork
<1>2. CASE op[p].action = "merge" \/ c \in base
  BY <1>1, <1>2 DEF Mixed, HoldsWork
<1>3. CASE op[p].action # "merge" /\ c \notin base
  <2>1. [c EXCEPT !.picked = TRUE] \in Mixed(p)
    BY <1>1, <1>3 DEF Mixed
  <2>2. c \in Commit
    BY <1>1 DEF TypeOK
  <2>3. [c EXCEPT !.picked = TRUE].job = j /\ [c EXCEPT !.picked = TRUE].session = n
    BY <1>1, <2>2 DEF Commit
  <2> QED
    BY <2>1, <2>3 DEF HoldsWork
<1> QED
  BY <1>2, <1>3

\* So does a merge in a checkout, or it does not say that it has merged.
LEMMA SafeMix ==
    ASSUME MergeInv, [Next]_vars, NEW p \in Processes, Mix(p),
           NEW k \in Jobs \ disturbed
    PROVE  Safe(k)'
<1> DEFINE j == op[p].job
<1>t. TypeOK /\ TypeInv
  BY DEF MergeInv, TypeInv
<1>1. /\ op[p].pc = "mixing"
      /\ UNCHANGED <<state, resolution, mergeStatus, pushed, local, made, missed, crashed>>
  BY DEF Mix, row, platform, achieved
<1>2. PICK outcome \in {"merged", "conflict", "unresolved"} :
        /\ MoveWith(p, "recording", outcome)
        /\ outcome = "merged" => base' = base \cup Mixed(p)
  BY MixCases DEF MixOutcome
<1>3. /\ op'[p].pc = "recording" /\ op'[p].outcome = outcome
      /\ op'[p].job = op[p].job /\ op[p].job \in Jobs
      /\ \A q \in Processes : q # p => op'[q] = op[q]
  BY <1>t, <1>1, <1>2, MoveWithFacts DEF Places, Locked, Resolution, FinalResolutions
<1>4. CASE k # j
  <2>1. Leaves(k)
    BY <1>1 DEF Leaves, local
  <2> QED
    BY <1>1, <1>3, <1>4, <2>1, OtherJob
<1>5. CASE k = j
  <2>1. Safe(k) /\ Honest(op[p], k) /\ base \subseteq base'
    BY <1>1, <1>5, AtWork, BaseUp DEF MergeInv
  <2>2. Carries(k) /\ Clean(k)
    BY <1>1, <2>1, CarriesAlong DEF local, Safe, Honest
  <2>3. ASSUME outcome = "merged" PROVE Covers(base \cup Mixed(p), k)
    <3> SUFFICES ASSUME NEW n \in Owed(k), HoldsWork(Elsewhere(k), k, n)
                 PROVE  HoldsWork(base \cup Mixed(p), k, n)
      BY DEF Covers
    <3>1. n \in Nat
      BY <1>t DEF TypeOK, Owed
    <3>2. HoldsWork(pushed[k], k, n) \/ HoldsWork(branch[k], k, n)
      BY <2>2, HoldsEither DEF Elsewhere, Clean
    <3>3. HoldsWork(base, k, n) \/ HoldsWork(branch[k], k, n)
      BY <2>1, <3>1, <3>2, HoldsEither DEF Safe, PushedFirst
    <3>4. CASE HoldsWork(base, k, n)
      BY <3>4, HoldsMore
    <3>5. CASE HoldsWork(branch[k], k, n)
      BY <1>t, <1>5, <3>5, MixedHolds
    <3> QED
      BY <3>3, <3>4, <3>5
  <2>4. outcome = "merged" => Covers(base, k)'
    BY <1>2, <2>2, <2>3 DEF Carries
  <2>5. Honest(op[p], k)'
    BY <1>3, <2>4 DEF Honest
  <2> QED
    BY <1>1, <1>3, <1>5, <2>1, <2>2, <2>5, MovesOn
<1> QED
  BY <1>4, <1>5

\* The merge status is written after git is done.
LEMMA SafeRecordMerge ==
    ASSUME MergeInv, [Next]_vars, NEW p \in Processes, RecordMerge(p),
           NEW k \in Jobs \ disturbed
    PROVE  Safe(k)'
<1> DEFINE j == op[p].job
<1>t. TypeOK /\ TypeInv
  BY DEF MergeInv, TypeInv
<1>1. /\ op[p].pc = "recording"
      /\ UNCHANGED <<state, resolution, base, pushed, local, made, missed, crashed>>
      /\ \/ mergeStatus' = mergeStatus
         \/ mergeStatus' = [mergeStatus EXCEPT ![j] = "not_merged"]
         \/ mergeStatus' = [mergeStatus EXCEPT ![j] = op[p].outcome]
  BY DEF RecordMerge, platform, history, achieved
<1>2. /\ \/ op'[p].pc = "restoring"
         \/ op'[p].pc = "tidying" /\ op[p].outcome = "merged"
      /\ op'[p].outcome = op[p].outcome
      /\ op'[p].job = op[p].job /\ op[p].job \in Jobs
      /\ \A q \in Processes : q # p => op'[q] = op[q]
  <2>1. CASE Move(p, "restoring")
    BY <1>t, <1>1, <2>1, MoveFacts DEF Places, Locked
  <2>2. CASE Move(p, "tidying") /\ op[p].outcome = "merged"
    BY <1>t, <1>1, <2>2, MoveFacts DEF Places, Locked
  <2> QED
    BY <2>1, <2>2 DEF RecordMerge
<1>3. CASE k # j
  <2>1. Leaves(k)
    BY <1>t, <1>1, <1>3 DEF Leaves, local, TypeOK
  <2> QED
    BY <1>1, <1>2, <1>3, <2>1, OtherJob
<1>4. CASE k = j
  <2>1. Alone(k) /\ Safe(k) /\ Honest(op[p], k) /\ state[k] = "review"
    BY <1>1, <1>4, AtWork
  <2>2. Carries(k)
    BY <1>1, <2>1, CarriesAlong DEF local, Safe
  <2>3. ~crashed /\ state[k] \in {"review", "completed"} => Clean(k)
    BY <1>1, <1>4, <2>1, AllCommitted DEF Safe
  <2>4. Committed(k)'
    BY <1>1, <2>2, <2>3 DEF Committed, Carries
  <2>5. Told(k)'
    <3>1. mergeStatus'[k] \in {mergeStatus[k], "not_merged", op[p].outcome}
      BY <1>t, <1>1, <1>4 DEF TypeOK
    <3>2. "merged" \in {resolution'[k], mergeStatus'[k]} => Covers(base, k)
      BY <1>1, <2>1, <3>1 DEF Honest, Safe, Told
    <3> QED
      BY <1>1, <2>1, <2>2, <3>2 DEF Told, Carries
  <2>6. Honest(op[p], k)'
    BY <1>1, <1>2, <2>1, <2>2 DEF Honest, Carries
  <2>7. \A q \in Processes : q # p => op'[q].job # k
    BY <1>2, <1>4, <2>1, NoOther
  <2> QED
    BY <2>2, <2>4, <2>5, <2>6, <2>7, OwnStep
<1> QED
  BY <1>3, <1>4

\* What is left behind goes when the base has it.
LEMMA SafeTidyUp ==
    ASSUME MergeInv, [Next]_vars, NEW p \in Processes, TidyUp(p),
           NEW k \in Jobs \ disturbed
    PROVE  Safe(k)'
<1> DEFINE j == op[p].job
<1>t. TypeOK /\ TypeInv
  BY DEF MergeInv, TypeInv
<1>1. /\ op[p].pc = "tidying" /\ (Gone(j) \/ UNCHANGED local)
      /\ UNCHANGED <<state, resolution, mergeStatus, base, pushed, made, missed, crashed>>
  BY DEF TidyUp, row, platform, history, achieved
<1>2. /\ op'[p].pc \in {"storing", "restoring"} /\ op'[p].outcome = op[p].outcome
      /\ op'[p].job = op[p].job /\ op[p].job \in Jobs
      /\ \A q \in Processes : q # p => op'[q] = op[q]
  BY <1>t, <1>1, MoveFacts DEF TidyUp, Places, Locked
<1>3. CASE k # j
  <2>1. Leaves(k)
    BY <1>t, <1>1, <1>3 DEF Leaves, local, Gone, TypeOK
  <2> QED
    BY <1>1, <1>2, <1>3, <2>1, OtherJob
<1>4. CASE k = j
  <2>1. Safe(k) /\ Honest(op[p], k) /\ Covers(base, k)
    BY <1>1, <1>4, AtWork DEF Honest
  <2>2. Carries(k)
    <3>1. CASE Gone(j)
      BY <1>t, <1>1, <1>4, <2>1, <3>1, CarriesGone DEF Safe
    <3>2. CASE UNCHANGED local
      BY <1>1, <2>1, <3>2, CarriesAlong DEF local, Safe
    <3> QED
      BY <1>1, <3>1, <3>2
  <2>3. Honest(op[p], k)'
    BY <1>1, <1>2, <2>1, <2>2 DEF Honest, Carries
  <2> QED
    BY <1>1, <1>2, <1>4, <2>2, <2>3, MovesOn
<1> QED
  BY <1>3, <1>4

\* The resolution is written last.
LEMMA SafeStore ==
    ASSUME MergeInv, [Next]_vars, NEW p \in Processes, Store(p),
           NEW k \in Jobs \ disturbed
    PROVE  Safe(k)'
<1> DEFINE j == op[p].job
<1>t. TypeOK /\ TypeInv
  BY DEF MergeInv, TypeInv
<1>1. /\ op[p].pc = "storing" /\ j \in Jobs
      /\ UNCHANGED <<mergeStatus, base, pushed, local, made, missed, crashed>>
  BY <1>t DEF Store, platform, history, achieved, TypeInv, Working
<1>2. /\ IF p = j THEN op'[p] = Closing(j) ELSE op'[p] = Idle
      /\ \A q \in Processes : q # p => op'[q] = op[q]
  BY <1>t, <1>1, OpRecords, PutFacts, EndFacts DEF Store
<1>i. /\ op'[p].job \in {j, NoJob} /\ op'[p].outcome = "none"
      /\ op'[p].pc \in {"idle", "closing"}
  BY <1>1, <1>2, OpRecords
<1>3. \/ state' = [state EXCEPT ![j] = "completed"]
      \/ state' = [state EXCEPT ![j] = TransitionOr(@, "failed")]
      \/ state' = [state EXCEPT ![j] = @]
  BY Zenon DEF Store
<1>r. resolution' = resolution \/ resolution' = [resolution EXCEPT ![j] = op[p].outcome]
  BY DEF Store
<1>4. CASE k # j
  <2>1. Leaves(k)
    BY <1>t, <1>1, <1>3, <1>r, <1>4 DEF Leaves, local, TypeOK
  <2> QED
    BY <1>1, <1>2, <1>i, <1>4, <2>1, OtherJob
<1>5. CASE k = j
  <2>1. Alone(k) /\ Safe(k) /\ Honest(op[p], k) /\ state[k] = "review"
    BY <1>1, <1>5, AtWork
  <2>2. Carries(k)
    BY <1>1, <2>1, CarriesAlong DEF local, Safe
  <2>3. ~crashed => Clean(k)
    BY <1>1, <1>5, <2>1, AllCommitted DEF Safe
  <2>4. Committed(k)'
    BY <1>1, <2>2, <2>3 DEF Committed, Carries
  <2>5. Told(k)'
    <3>1. state'[k] # "running"
      <4>1. TransitionOr("review", "failed") \in {"review", "failed"}
        BY DEF TransitionOr
      <4> QED
        BY <1>t, <1>3, <1>5, <2>1, <4>1 DEF TypeOK
    <3>2. resolution'[k] \in {resolution[k], op[p].outcome}
      BY <1>t, <1>r, <1>5 DEF TypeOK
    <3>3. "merged" \in {resolution'[k], mergeStatus'[k]} => Covers(base, k)
      BY <1>1, <2>1, <3>2 DEF Honest, Safe, Told
    <3> QED
      BY <1>1, <2>2, <3>1, <3>3 DEF Told, Carries
  <2>6. Honest(op[p], k)'
    BY <1>i DEF Honest
  <2>7. \A q \in Processes : q # p => op'[q].job # k
    BY <1>2, <1>5, <2>1, NoOther
  <2> QED
    BY <2>2, <2>4, <2>5, <2>6, <2>7, OwnStep
<1> QED
  BY <1>4, <1>5

\* An agent works in its own worktree, while nothing else works on its job
\* but what it has asked for.
LEMMA SafeAgentWorks ==
    ASSUME MergeInv, [Next]_vars, NEW j \in Jobs, AgentWorks(j),
           NEW k \in Jobs \ disturbed
    PROVE  Safe(k)'
<1>t. TypeOK /\ TypeInv /\ LockInv
  BY DEF MergeInv, TypeInv
<1>1. /\ state[j] = "running" /\ j \in trees
      /\ UNCHANGED <<row, base, branch, branches, trees, pushed, op, missed, crashed>>
      /\ \E merged \in {{}} \cup (IF rework[j] THEN {base} ELSE {}) :
            edits' = [edits EXCEPT ![j] = @ \cup {Work(j, session[j])} \cup merged]
      /\ made' = [made EXCEPT ![j] = @ \cup {session[j]}]
  BY DEF AgentWorks, platform
<1>2. Safe(k) /\ Alone(k)
  BY DEF MergeInv, WorkInv, AloneInv
<1>3. CASE k # j
  <2>1. UNCHANGED <<edits[k], made[k], missed[k], state[k], resolution[k], mergeStatus[k], base>>
    BY <1>t, <1>1, <1>3 DEF TypeOK, row
  <2> QED
    BY <1>1, <1>2, <1>t, <2>1, ElseStep
<1>4. CASE k = j
  <2>1. /\ edits[k] \subseteq edits'[k] /\ Work(k, session[k]) \in edits'[k]
        /\ Owed(k)' \subseteq Owed(k) \cup {session[k]}
    BY <1>t, <1>1, <1>4 DEF TypeOK, Owed
  <2>2. PushedFirst(k)'
    BY <1>1, <1>2, <1>4 DEF PushedFirst, Safe
  <2>3. Kept(k)'
    <3> SUFFICES ASSUME ~crashed, NEW n \in Owed(k)'
                 PROVE  HoldsWork(base \cup branch[k] \cup edits'[k], k, n)
      BY <1>1 DEF Kept
    <3>1. CASE n \in Owed(k)
      BY <1>2, <2>1, <3>1, HoldsMore DEF Safe, Kept
    <3>2. CASE n = session[k]
      BY <2>1, <3>2 DEF HoldsWork, Work
    <3> QED
      BY <2>1, <3>1, <3>2
  <2>4. /\ state'[k] = "running" /\ "merged" \notin {resolution'[k], mergeStatus'[k]}
    BY <1>1, <1>2, <1>4 DEF row, Safe, Told
  <2>5. Merging(k)'
    <3> SUFFICES ASSUME NEW p \in Processes, op[p].job = k PROVE Honest(op[p], k)'
      BY <1>1 DEF Merging
    <3>1. Honest(op[p], k) /\ Fits(op[p], "running")
      BY <1>1, <1>2, <1>4 DEF Safe, Merging, Alone
    <3>2. op[p].pc \in {"opening", "noting"}
      BY <3>1, Zenon DEF Fits
    <3> QED
      BY <1>1, <3>1, <3>2 DEF Honest
  <2> QED
    BY <2>2, <2>3, <2>4, <2>5 DEF Safe, Committed, Told
<1> QED
  BY <1>3, <1>4

\* A process takes up a job that no other works on, with its work where it is.
LEMMA TakesOn ==
    ASSUME MergeInv, [Next]_vars, NEW p \in Processes, NEW j \in Jobs,
           NEW k \in Jobs \ disturbed,
           op[p].job = NoJob, op'[p].job = j, op'[p].outcome = "none",
           op'[p].pc \in {"opening", "snapshot", "closing"},
           \A q \in Processes : q # p => op'[q] = op[q],
           UNCHANGED <<base, mergeStatus, local, pushed, made, missed, crashed>>,
           \A i \in Jobs : i # j => UNCHANGED <<state[i], resolution[i]>>,
           k = j => /\ \A q \in Processes : op[q].job # k
                    /\ resolution'[k] \in {resolution[k], "unresolved"}
                    /\ state'[k] = "running" => state[k] = "running"
                    /\ state'[k] = state[k] \/ Committing(k)'
    PROVE  Safe(k)'
<1>1. CASE k # j
  <2>1. Leaves(k)
    BY <1>1 DEF Leaves, local
  <2> QED
    BY <1>1, <2>1, OtherJob
<1>2. CASE k = j
  <2>1. Safe(k)
    BY DEF MergeInv, WorkInv
  <2>2. Carries(k)
    BY <2>1, CarriesAlong DEF local, Safe
  <2>3. Committed(k)'
    <3>1. CASE Committing(k)'
      BY <3>1 DEF Committed
    <3>2. CASE state'[k] = state[k]
      <4>1. ~Committing(k)
        BY <1>2 DEF Committing, Processes
      <4> QED
        BY <2>1, <2>2, <3>2, <4>1 DEF Safe, Committed, Carries
    <3> QED
      BY <1>2, <3>1, <3>2
  <2>4. Told(k)'
    <3>1. "merged" \in {resolution'[k], mergeStatus'[k]} =>
            "merged" \in {resolution[k], mergeStatus[k]}
      BY <1>2
    <3> QED
      BY <1>2, <2>1, <2>2, <3>1 DEF Safe, Told, Carries
  <2>5. Honest(op[p], k)'
    BY DEF Honest
  <2>6. \A q \in Processes : q # p => op'[q].job # k
    BY <1>2
  <2> QED
    BY <2>2, <2>3, <2>4, <2>5, <2>6, OwnStep
<1> QED
  BY <1>1, <1>2

\* An agent asks for a pull request.
LEMMA SafeAgentAsks ==
    ASSUME MergeInv, [Next]_vars, NEW j \in Jobs, AgentAsksForPr(j),
           NEW k \in Jobs \ disturbed
    PROVE  Safe(k)'
<1> DEFINE o == [Begin(j, "agent_pr") EXCEPT !.pc = "opening"]
<1>t. TypeInv
  BY DEF MergeInv
<1>1. o \in OpType /\ o.pc = "opening" /\ o.job = j /\ o.outcome = "none"
  BY DEF Begin, Idle, OpType, Resolution
<1>2. /\ Put(j, o) /\ j \in Processes /\ op[j].job = NoJob /\ state[j] = "running"
      /\ UNCHANGED <<state, resolution, mergeStatus, base, local, pushed, made, missed, crashed>>
  BY OpRecords DEF AgentAsksForPr, Processes, row, platform, history, achieved
<1> HIDE DEF o
<1>3. op'[j] = o /\ \A q \in Processes : q # j => op'[q] = op[q]
  BY <1>t, <1>1, <1>2, PutFacts
<1>4. k = j => \A q \in Processes : op[q].job # k
  BY <1>2, NobodyElse
<1> QED
  BY <1>1, <1>2, <1>3, <1>4, TakesOn

\* A session that is over has its work to commit.
LEMMA SafeFinish ==
    ASSUME MergeInv, [Next]_vars, NEW j \in Jobs, FinishSession(j),
           NEW k \in Jobs \ disturbed
    PROVE  Safe(k)'
<1>t. TypeInv /\ TypeOK
  BY DEF MergeInv, TypeInv
<1>1. Put(j, Begin(j, "merge")) \/ Put(j, Closing(j))
  BY DEF FinishSession
<1>2. /\ j \in Processes /\ op[j].job = NoJob
      /\ op'[j].job = j /\ op'[j] \in {Begin(j, "merge"), Closing(j)}
      /\ \A q \in Processes : q # j => op'[q] = op[q]
  BY <1>t, <1>1, BeginFacts, OpRecords DEF FinishSession, Processes, Actions
<1>3. /\ op'[j].outcome = "none"
      /\ \/ op'[j].pc = "snapshot" /\ op'[j].action = "merge"
         \/ op'[j].pc = "closing"
  BY <1>2, OpRecords DEF Actions
<1>4. /\ state[j] = "running" /\ state' = [state EXCEPT ![j] = "review"]
      /\ UNCHANGED <<mergeStatus, base, local, pushed, made, missed, crashed>>
      /\ \/ resolution' = resolution
         \/ resolution' = [resolution EXCEPT ![j] = "unresolved"]
  BY <1>t, Zenon DEF FinishSession, history, achieved, platform, TypeOK
<1>5. /\ state'[j] = "review" /\ resolution'[j] \in {resolution[j], "unresolved"}
      /\ \A i \in Jobs : i # j => UNCHANGED <<state[i], resolution[i]>>
  BY <1>t, <1>4 DEF TypeOK
<1>6. k = j => \A q \in Processes : op[q].job # k
  BY <1>2, <1>4, NobodyElse
<1>7. k = j => Committing(k)'
  BY <1>2, <1>3 DEF Committing
<1>8. op'[j].pc \in {"opening", "snapshot", "closing"}
  BY <1>3
<1>9. k = j => /\ \A q \in Processes : op[q].job # k
               /\ resolution'[k] \in {resolution[k], "unresolved"}
               /\ state'[k] = "running" => state[k] = "running"
               /\ state'[k] = state[k] \/ Committing(k)'
  BY <1>5, <1>6, <1>7
<1> QED
  BY <1>2, <1>3, <1>4, <1>5, <1>8, <1>9, TakesOn

\* The operator asks for a resolution.
LEMMA SafeResolve ==
    ASSUME MergeInv, [Next]_vars, NEW r \in Requests, NEW j \in Jobs,
           NEW a \in Actions, Resolve(r, j, a), NEW k \in Jobs \ disturbed'
    PROVE  Safe(k)'
<1>t. TypeInv
  BY DEF MergeInv
<1>1. /\ r \in Processes /\ op[r].job = NoJob
      /\ Put(r, Begin(j, a))
      /\ UNCHANGED <<state, resolution, mergeStatus, base, local, pushed, made, missed, crashed>>
      /\ Busy(j) => j \in disturbed'
      /\ disturbed \subseteq disturbed'
  BY OpRecords DEF Resolve, Overlaps, Processes, row, platform, achieved
<1>2. /\ Begin(j, a) \in OpType /\ Begin(j, a).pc = "snapshot"
      /\ Begin(j, a).job = j /\ Begin(j, a).outcome = "none"
  BY OpRecords
<1>3. op'[r] = Begin(j, a) /\ \A q \in Processes : q # r => op'[q] = op[q]
  BY <1>t, <1>1, <1>2, PutFacts
<1>4. k = j => \A q \in Processes : op[q].job # k
  BY <1>t, <1>1, NotBusy
<1>5. k \in Jobs \ disturbed
  BY <1>1
<1> QED
  BY <1>1, <1>2, <1>3, <1>4, <1>5, TakesOn

\* A canceled job keeps its work where it is.
LEMMA SafeCancel ==
    ASSUME MergeInv, [Next]_vars, NEW j \in Jobs, Cancel(j),
           NEW k \in Jobs \ disturbed'
    PROVE  Safe(k)'
<1>t. TypeInv /\ TypeOK /\ base \subseteq base'
  BY BaseUp DEF MergeInv, TypeInv
<1>1. /\ state' = [state EXCEPT ![j] = "canceled"]
      /\ UNCHANGED <<resolution, mergeStatus, local, pushed, made, missed, crashed>>
      /\ Busy(j) => j \in disturbed'
      /\ disturbed \subseteq disturbed'
      /\ op' = op \/ End(j)
  BY DEF Cancel, Overlaps, platform, achieved
<1>2. /\ j \in Processes
      /\ \A q \in Processes : q # j => op'[q] = op[q]
      /\ op'[j] \in {op[j], Idle}
      /\ op[j].job \in {j, NoJob} /\ op'[j].job \in {j, NoJob}
  BY <1>t, <1>1, EndFacts, OpRecords DEF Processes, MergeInv, AloneInv, OwnJob
<1>3. k \in Jobs \ disturbed /\ Safe(k)
  BY <1>1 DEF MergeInv, WorkInv
<1>4. CASE k # j
  <2>1. Leaves(k)
    BY <1>t, <1>1, <1>4 DEF Leaves, local, TypeOK
  <2> QED
    BY <1>1, <1>2, <1>3, <1>4, <2>1, OtherJob
<1>5. CASE k = j
  <2>1. \A q \in Processes : op'[q].job # k
    <3>1. \A q \in Processes : op[q].job # k
      BY <1>t, <1>1, <1>5, NotBusy
    <3> QED
      BY <1>2, <3>1, OpRecords, NoJobAssumption
  <2>2. Carries(k)
    BY <1>t, <1>1, <1>3, CarriesAlong DEF local, Safe
  <2>3. state'[k] = "canceled"
    BY <1>t, <1>1, <1>5 DEF TypeOK
  <2>4. Committed(k)' /\ Told(k)'
    BY <1>t, <1>1, <1>3, <2>2, <2>3 DEF Committed, Safe, Told, Carries
  <2> QED
    BY <1>2, <2>1, <2>2, <2>4, OwnStep
<1> QED
  BY <1>4, <1>5

\* A job that is to be resumed gets its worktree back.
LEMMA SafeResume ==
    ASSUME MergeInv, [Next]_vars, NEW j \in Jobs, ResumeJob(j),
           NEW k \in Jobs \ disturbed'
    PROVE  Safe(k)'
<1>1. /\ disturbed \subseteq disturbed' /\ trees' = trees \cup {j}
      /\ j \in trees \cup branches
      /\ UNCHANGED <<state, resolution, mergeStatus, base, branch, branches, edits,
                     pushed, made, missed, op, crashed>>
  BY DEF ResumeJob, Overlaps, platform, achieved
<1>2. Safe(k) /\ LockInv
  BY <1>1 DEF MergeInv, WorkInv
<1> QED
  BY <1>1, <1>2, ElseStep

\* The row of a job that is resumed says nothing of a merge any more.
LEMMA SafeReset ==
    ASSUME MergeInv, [Next]_vars, NEW j \in Jobs, ResetRow(j),
           NEW k \in Jobs \ disturbed
    PROVE  Safe(k)'
<1>t. TypeOK /\ LockInv
  BY DEF MergeInv, TypeInv
<1>1. /\ j \in resuming
      /\ UNCHANGED <<base, local, pushed, made, missed, op, crashed>>
      /\ state'[j] = "running" /\ resolution'[j] = "none"
      /\ mergeStatus'[j] \in {"conflict", "none"}
      /\ \A i \in Jobs : i # j => UNCHANGED <<state[i], resolution[i], mergeStatus[i]>>
  BY <1>t DEF ResetRow, platform, history, achieved, TypeOK
<1>2. Safe(k) /\ Alone(k)
  BY DEF MergeInv, WorkInv, AloneInv
<1>3. CASE k # j
  BY <1>t, <1>1, <1>2, <1>3, ElseStep DEF local
<1>4. CASE k = j
  <2>1. \A q \in Processes : op'[q].job # k
    BY <1>1, <1>2, <1>4 DEF Alone
  <2>2. Carries(k)
    BY <1>1, <1>2, CarriesAlong DEF local, Safe
  <2>3. Committed(k)' /\ Told(k)' /\ Merging(k)'
    BY <1>1, <1>4, <2>1 DEF Committed, Told, Merging
  <2> QED
    BY <2>2, <2>3 DEF Safe, Carries
<1> QED
  BY <1>3, <1>4

\* An archived job's work is thrown away.
LEMMA SafeArchive ==
    ASSUME MergeInv, [Next]_vars, NEW j \in Jobs, Archive(j),
           NEW k \in Jobs \ disturbed'
    PROVE  Safe(k)'
<1>t. TypeOK /\ LockInv /\ TypeInv
  BY DEF MergeInv, TypeInv
<1>1. /\ Gone(j) /\ made' = [made EXCEPT ![j] = {}]
      /\ UNCHANGED <<state, resolution, mergeStatus, base, pushed, missed, op, crashed>>
      /\ Busy(j) => j \in disturbed'
      /\ disturbed \subseteq disturbed'
  BY DEF Archive, Overlaps, row, platform
<1>2. Safe(k)
  BY <1>1 DEF MergeInv, WorkInv
<1>3. CASE k # j
  <2>1. Leaves(k)
    BY <1>t, <1>1, <1>3 DEF Gone, Leaves, TypeOK
  <2> QED
    BY <1>t, <1>1, <1>2, <2>1, ElseStep DEF Leaves
<1>4. CASE k = j
  <2>1. \A q \in Processes : op'[q].job # k
    BY <1>t, <1>1, <1>4, NotBusy
  <2>2. Carries(k) /\ Clean(k)'
    BY <1>t, <1>1, <1>4, CarriesThrownAway DEF TypeOK
  <2>3. Committed(k)' /\ Told(k)' /\ Merging(k)'
    BY <1>1, <1>2, <2>1, <2>2 DEF Committed, Told, Merging, Safe, Carries
  <2> QED
    BY <2>2, <2>3 DEF Safe, Carries
<1> QED
  BY <1>3, <1>4

\* A crash forgets every resolution, and leaves git and the rows.
LEMMA SafeCrash ==
    ASSUME MergeInv, [Next]_vars, Crash, NEW k \in Jobs \ disturbed
    PROVE  Safe(k)'
<1>1. /\ crashed' /\ op' = [p \in Processes |-> Idle]
      /\ UNCHANGED <<row, local, pushed, made, missed>>
  BY DEF Crash, platform, achieved
<1>2. Safe(k) /\ base \subseteq base'
  BY BaseUp DEF MergeInv, WorkInv
<1>3. Carries(k)
  BY <1>1, <1>2, CarriesAlong DEF local, Safe
<1>4. \A q \in Processes : op'[q].job # k
  BY <1>1, OpRecords, NoJobAssumption
<1>5. Committed(k)' /\ Told(k)' /\ Merging(k)'
  BY <1>1, <1>2, <1>3, <1>4 DEF Committed, Told, Merging, Safe, Carries, row
<1> QED
  BY <1>3, <1>5 DEF Safe, Carries

\* At first there is no work.
LEMMA SafeInit == Init => WorkInv
<1> SUFFICES ASSUME Init PROVE WorkInv
  OBVIOUS
<1>1. EditsHaveTree
  BY DEF Init, EditsHaveTree
<1>2. ASSUME NEW j \in Jobs PROVE Safe(j)
  <2>1. PushedFirst(j)
    BY HoldsNothing DEF Init, PushedFirst
  <2>2. Kept(j) /\ Committed(j) /\ Told(j)
    BY HoldsNothing DEF Init, Kept, Committed, Told, Clean, Owed
  <2>3. Merging(j)
    BY OpRecords, NoJobAssumption DEF Init, Merging
  <2> QED
    BY <2>1, <2>2, <2>3 DEF Safe
<1> QED
  BY <1>1, <1>2 DEF WorkInv

\* Every step keeps the work of the jobs that nothing has overlapped.
LEMMA WorkNext == MergeInv /\ [Next]_vars => WorkInv'
<1> SUFFICES ASSUME MergeInv, [Next]_vars PROVE WorkInv'
  OBVIOUS
<1>1. EditsHaveTree'
  BY EditsNext DEF MergeInv, WorkInv
<1> SUFFICES ASSUME NEW k \in Jobs \ disturbed' PROVE Safe(k)'
  BY <1>1 DEF WorkInv
<1>2. ASSUME NEW p \in Processes, ResolveStep(p) PROVE Safe(k)'
  <2>1. disturbed' = disturbed
    BY <1>2 DEF ResolveStep, Discard, AskPr, OpenPr, NotePr, AutoCommit, TakeLock,
                Enter, AdvanceBase, Save, Mix, RecordMerge, TidyUp, Restore, Store,
                Commits, history
  <2> QED
    BY <1>2, <2>1, SafeDiscard, SafeAskPr, SafeOpenPr, SafeNotePr, SafeAutoCommit,
       SafeTakeLock, SafeAdvanceBase, SafeSave, SafeMix, SafeRecordMerge, SafeTidyUp,
       SafeRestore, SafeStore
    DEF ResolveStep
<1>3. ASSUME NEW j \in Jobs, SessionStep(j) PROVE Safe(k)'
  <2>1. disturbed' = disturbed
    BY <1>3 DEF SessionStep, AgentWorks, AgentAsksForPr, FinishSession,
                CloseLastStep, Commits, history
  <2> QED
    BY <1>3, <2>1, SafeAgentWorks, SafeAgentAsks, SafeFinish, SafeClose
    DEF SessionStep
<1>4. ASSUME NEW j \in Jobs, OperatorStep(j) PROVE Safe(k)'
  <2>1. CASE ResetRow(j)
    <3>1. disturbed' = disturbed
      BY <2>1 DEF ResetRow, history, achieved
    <3> QED
      BY <2>1, <3>1, SafeReset
  <2>2. CASE \E r \in Requests, a \in Actions : Resolve(r, j, a)
    BY <2>2, SafeResolve
  <2> QED
    BY <1>4, <2>1, <2>2, SafeCancel, SafeResume, SafeArchive DEF OperatorStep
<1>5. CASE Crash
  <2>1. disturbed' = disturbed
    BY <1>5 DEF Crash
  <2> QED
    BY <1>5, <2>1, SafeCrash
<1>6. CASE UNCHANGED vars
  <2>1. UNCHANGED <<row, base, local, platform, op, history>>
    BY <1>6 DEF vars
  <2>2. Safe(k) /\ LockInv
    BY <2>1 DEF MergeInv, WorkInv, history, achieved
  <2> QED
    BY <2>1, <2>2, ElseStep DEF row, local, platform, history, achieved
<1> QED
  BY <1>2, <1>3, <1>4, <1>5, <1>6 DEF Next

\* The four invariants hold together.
LEMMA MergeInvariance == Spec => []MergeInv
<1>1. Init => MergeInv
  BY InitTypes, LockInit, AloneInit, SafeInit DEF MergeInv
<1>2. MergeInv /\ [Next]_vars => MergeInv'
  BY TypeNext, LockNext, AloneNext, WorkNext DEF MergeInv
<1> QED
  BY <1>1, <1>2, PTL DEF Spec

\* Until the process dies, the work of a job whose resolutions nothing has
\* overlapped is in some branch or worktree until the operator throws it away,
\* however its pull requests, merges and conflicts went.
THEOREM WorkKept == Spec => []WorkIsKept
<1>1. MergeInv => WorkIsKept
  <2> SUFFICES ASSUME MergeInv, ~crashed, NEW j \in Jobs \ disturbed, NEW n \in Owed(j)
               PROVE  HoldsWork(base \cup pushed[j] \cup branch[j] \cup edits[j], j, n)
    BY DEF WorkIsKept, Owed
  <2>1. HoldsWork(base \cup branch[j] \cup edits[j], j, n)
    BY DEF MergeInv, WorkInv, Safe, Kept
  <2> QED
    BY <2>1, HoldsMore
<1> QED
  BY <1>1, MergeInvariance, PTL

\* A row that says merged has the job's work in the base branch, but for what
\* a crash has cost.
THEOREM MergedInBase == Spec => []MergedIsInBase
<1>1. MergeInv => MergedIsInBase
  <2> SUFFICES ASSUME MergeInv, NEW j \in Jobs \ disturbed,
                      "merged" \in {resolution[j], mergeStatus[j]}, NEW n \in Owed(j)
               PROVE  \/ HoldsWork(base, j, n)
                      \/ /\ crashed
                         /\ ~HoldsWork(pushed[j] \cup branch[j] \cup edits[j], j, n)
    BY DEF MergedIsInBase, Owed
  <2>1. Covers(base, j) /\ Kept(j)
    BY DEF MergeInv, WorkInv, Safe, Told
  <2>2. HoldsWork(Elsewhere(j), j, n) => HoldsWork(base, j, n)
    BY <2>1 DEF Covers
  <2>3. ~crashed => HoldsWork(base, j, n) \/ HoldsWork(branch[j] \cup edits[j], j, n)
    BY <2>1, HoldsEither DEF Kept
  <2>4. branch[j] \cup edits[j] \subseteq Elsewhere(j)
    BY DEF Elsewhere
  <2> QED
    BY <2>2, <2>3, <2>4, HoldsMore DEF Elsewhere
<1> QED
  BY <1>1, MergeInvariance, PTL
=============================================================================
