----------------------------- MODULE ApplyEngine -----------------------------
(***************************************************************************)
(* One `apply` run under its lock: staging, the journalled commit of the   *)
(* staged files, recovery, cleanup, and the result it answers.             *)
(*                                                                         *)
(* The run shares the files with editors and other tools (edits, artifact  *)
(* tampering and a displaced lock are environment steps), any call may     *)
(* fail, and the process may die between two calls.  ApplyLock models how  *)
(* the lock is acquired and given back; here it is held, lost or free.     *)
(* Each file stands for the operations on it.                              *)
(***************************************************************************)
EXTENDS Naturals

CONSTANTS
  N,          \* number of files the plan names
  IOFaults,   \* may a call fail?
  Crashes,    \* may the process die?
  MaxEdits    \* bound on environment steps

ASSUME EngineAssumption ==
  /\ N \in Nat
  /\ IOFaults \in BOOLEAN /\ Crashes \in BOOLEAN
  /\ MaxEdits \in Nat

Files == 1..N

VARIABLES
  pc,         \* the next call of the run
  idx,        \* the target it is about
  active,     \* files 1..active change (activeGroups), the others do not
  file,       \* what is at each target path
  stage,      \* what is at each .stage path
  backup,     \* what is at each .backup path
  run,        \* does runs/<runId> exist?
  extra,      \* does it hold manager-phase files?
  disk,       \* runs/<runId>/journal.json
  mem,        \* JournalHandle.value
  jid,        \* JournalHandle.journalIdentity against journal.json
  lock,       \* the apply lock as ownsApplyLock sees it
  attempted,  \* group.replacementAttempted
  err,        \* commitError and commitFailureIndex
  exit,       \* why cleanup runs
  recovery,   \* recovery.status
  manager,    \* were manager commands started, and how they ended
  outcome,    \* the operation results
  phases,     \* the phases pushed so far
  clean,      \* cleanupTemporaryFiles' answer so far
  result,     \* what the caller gets
  edits,      \* environment steps taken
  touched,    \* history: files changed by others
  tampered,   \* history: files whose backup was changed by others
  raced       \* history: files changed after the last look before a rename

fsVars   == <<file, stage, backup>>
jnVars   == <<run, extra, disk, mem, jid>>
ansVars  == <<outcome, phases, clean, result>>
envVars  == <<active, edits, touched, tampered, raced>>
vars == <<pc, idx, fsVars, jnVars, lock, attempted, err, exit, recovery,
          manager, ansVars, envVars>>

\* What is at a target path: the inode and bytes read at preflight, the stage
\* file or the backup file renamed over it, or something else: other bytes, the
\* original bytes in another inode, or nothing that can be read.
External == {"ext", "twin", "gone"}
FileState == {"orig", "new", "restored"} \cup External
\* What is at a temporary path: the artifact, its inode with other bytes,
\* another inode, or nothing.
Artifact == {"ok", "edited", "foreign", "none"}
OriginalBytes == {"orig", "restored", "twin"}

JournalState == {"staged", "committing", "recovering", "recovered", "failed"}
TargetState == {"staged", "replacing", "replaced", "restored",
                "recovery-failed"}
Journal == [state : JournalState \cup {"none"}, target : [Files -> TargetState]]

Conflict == {"SOURCE_CHANGED", "STAGED_SOURCE_CHANGED",
             "BACKUP_SOURCE_CHANGED"}
\* Error reasons nothing depends on are one.
Reason == Conflict \cup {"NONE", "LOCK_LOST", "COMMIT_FAILED", "REFUSED"}
\* A run error, and the target whose check raised it.
CommitError == [reason : Reason, unknown : BOOLEAN, at : 0..N]
ManagerOutcome == [started : BOOLEAN, failed : BOOLEAN, unknown : BOOLEAN,
                   unrecovered : BOOLEAN]
Status == {"none", "applied", "skipped", "conflicted", "reverted", "failed",
           "unknown"}
OutcomeReason == Reason \cup {"APPLIED", "NO_CHANGE", "OBSERVATION_FAILED",
                  "COMMIT_FAILED_REVERTED", "RUN_ABORTED", "RECOVERY_FAILED",
                  "CLEANUP_INCOMPLETE"}
Outcome == [status : Status, reason : OutcomeReason]
PhaseName == {"lock", "stage", "precommit", "commit", "manager", "recovery",
              "inspect", "cleanup"}
PhaseStatus == {"none", "passed", "failed", "unknown", "skipped"}
Recovery == {"not-needed", "completed", "partial", "unknown"}
Exits == {"none", "prepare", "unjournaled", "stage", "precommit", "zero",
          "success", "reverted"}
Result == [status : Status \cup {"noop"}, recovery : Recovery,
           ops : [Files -> Outcome], phases : [PhaseName -> PhaseStatus]]
NoResult == [status |-> "none"]

Ended == {"done", "crashed"}
Labels == {"start", "stage", "create-journal", "persist-staged", "precommit",
           "persist-committing", "check", "persist-replacing", "final-check",
           "replace", "settle-replace", "observe", "recovering", "recover",
           "restore", "settle-restore", "note-failure", "inspect",
           "fin-check", "fin-temp", "fin-journal", "fin-release", "kept",
           "released"} \cup Ended

TypeOK ==
  /\ pc \in Labels
  /\ idx \in 0..(N + 1)
  /\ active \in 0..N
  /\ file \in [Files -> FileState]
  /\ stage \in [Files -> Artifact] /\ backup \in [Files -> Artifact]
  /\ run \in BOOLEAN /\ extra \in BOOLEAN
  /\ disk \in Journal /\ mem \in Journal
  /\ jid \in {"none", "match", "lost"}
  /\ lock \in {"none", "held", "lost", "free"}
  /\ attempted \subseteq Files
  /\ err \in CommitError
  /\ exit \in Exits
  /\ recovery \in Recovery
  /\ manager \in ManagerOutcome
  /\ outcome \in [Files -> Outcome]
  /\ phases \in [PhaseName -> PhaseStatus]
  /\ clean \in BOOLEAN
  /\ result \in Result \cup {NoResult}
  /\ edits \in 0..MaxEdits
  /\ touched \subseteq Files /\ tampered \subseteq Files
  /\ raced \subseteq Files

Empty == [state |-> "none", target |-> [t \in Files |-> "staged"]]

Init ==
  /\ pc = "start" /\ idx = 0
  /\ active \in 0..N
  /\ file = [f \in Files |-> "orig"]
  /\ stage = [t \in Files |-> "none"] /\ backup = [t \in Files |-> "none"]
  /\ run = FALSE /\ extra = FALSE
  /\ disk = Empty /\ mem = Empty /\ jid = "none"
  /\ lock = "none"
  /\ attempted = {}
  /\ err = [reason |-> "NONE", unknown |-> FALSE, at |-> 0]
  /\ exit = "none"
  /\ recovery = "not-needed"
  /\ manager = [started |-> FALSE, failed |-> FALSE, unknown |-> FALSE,
                unrecovered |-> FALSE]
  /\ outcome = [f \in Files |-> [status |-> "none", reason |-> "NONE"]]
  /\ phases = [n \in PhaseName |-> "none"]
  /\ clean = TRUE
  /\ result = NoResult
  /\ edits = 0
  /\ touched = {} /\ tampered = {} /\ raced = {}

----------------------------------------------------------------------------
(* Results *)

Push(name, status) == [phases EXCEPT ![name] = status]
Verdict(unknown) == IF unknown THEN "unknown" ELSE "failed"

\* observeSuccessfulOutcomes: the artifact expected at each path, exactly.
SuccessOutcome(f) ==
  IF file[f] # (IF f <= active THEN "new" ELSE "orig")
  THEN [status |-> "unknown", reason |-> "OBSERVATION_FAILED"]
  ELSE IF f <= active THEN [status |-> "applied", reason |-> "APPLIED"]
                      ELSE [status |-> "skipped", reason |-> "NO_CHANGE"]

\* Mutant: an attempted replacement counts as reverted without a look.
FailedOutcomeAssumed(f) ==
  CASE file[f] = "gone" -> [status |-> "unknown", reason |-> "OBSERVATION_FAILED"]
    [] file[f] # "gone" /\ f \in attempted ->
         [status |-> "reverted", reason |-> "COMMIT_FAILED_REVERTED"]
    [] file[f] # "gone" /\ f \notin attempted ->
         [status |-> "failed", reason |-> "RUN_ABORTED"]

\* observeFailedRun: bytes, mode and value only.
FailedOutcome(f) ==
  CASE file[f] = "gone" -> [status |-> "unknown", reason |-> "OBSERVATION_FAILED"]
    [] file[f] \in OriginalBytes /\ f \in attempted ->
         [status |-> "reverted", reason |-> "COMMIT_FAILED_REVERTED"]
    [] file[f] \in OriginalBytes /\ f \notin attempted ->
         [status |-> "failed", reason |-> "RUN_ABORTED"]
    [] OTHER -> [status |-> "failed", reason |-> "RECOVERY_FAILED"]

All(status, reason) == [f \in Files |-> [status |-> status, reason |-> reason]]

\* createResult's precedence.
StatusOf(rec, ops) ==
  LET has(s) == \E f \in Files : ops[f].status = s IN
  IF rec = "unknown" \/ has("unknown") THEN "unknown"
  ELSE IF has("failed") THEN "failed"
  ELSE IF has("reverted") THEN "reverted"
  ELSE IF has("conflicted") THEN "conflicted"
  ELSE IF has("applied") THEN "applied" ELSE "noop"

\* Mutant: the recovery phase is answered as it was pushed.
AnswerAsPushed(rec, ops, ph) ==
  /\ pc' = "done"
  /\ result' = [status |-> StatusOf(rec, ops), recovery |-> rec, ops |-> ops,
                phases |-> ph]

\* createResult: a recovery phase says what the recovery status says.
Answer(rec, ops, ph) ==
  /\ pc' = "done"
  /\ result' =
       [status |-> StatusOf(rec, ops), recovery |-> rec, ops |-> ops,
        phases |-> IF ph["recovery"] # "none" /\ rec \in {"unknown", "partial"}
                   THEN [ph EXCEPT !["recovery"] = Verdict(rec = "unknown")]
                   ELSE ph]

\* withManagerRecovery
WithManager(rec) ==
  IF rec # "completed" \/ ~manager.failed THEN rec
  ELSE IF manager.unknown THEN "unknown"
  ELSE IF manager.unrecovered THEN "partial" ELSE rec

\* The run turns to cleanup for one of the reasons in Exits.
Exit(kind) == pc' = "fin-check" /\ exit' = kind

----------------------------------------------------------------------------
(* The journal *)

\* persistJournal: the new value replaces journal.json by one rename ...
Persisted(m) ==
  /\ jid # "lost"
  /\ mem' = m /\ disk' = m /\ jid' = "match"

\* ... or it throws: before the rename, or after it and before the identity of
\* the new file is recorded, so that no later ownsJournal succeeds.
NotPersisted(m) ==
  \/ (IOFaults \/ jid = "lost") /\ UNCHANGED <<disk, jid>>
  \/ IOFaults /\ jid # "lost" /\ disk' = m /\ jid' = "lost"

PersistFails(m) == mem' = m /\ NotPersisted(m)

\* Every `try { persistJournal(journal) } catch {}`.
PersistIfPossible(m) == Persisted(m) \/ PersistFails(m)

\* The journal with another state for one target.
Marked(t, state) == [mem EXCEPT !.target[t] = state]

----------------------------------------------------------------------------
(* Starting and staging *)

\* Nothing to change: the result is what is observed, without a lock.
AnswerUnchanged ==
  /\ pc = "start" /\ active = 0
  /\ Answer("not-needed",
            [f \in Files |-> SuccessOutcome(f)],
            [phases EXCEPT !["lock"] = "skipped", !["inspect"] = "passed"])
  /\ UNCHANGED <<idx, fsVars, jnVars, lock, attempted, err, exit, recovery,
                 manager, outcome, phases, clean, envVars>>

\* A preflight or lock refusal (ApplyLock says when).
Refuse ==
  /\ pc = "start" /\ active > 0
  /\ \E unknown \in BOOLEAN :
       Answer(IF unknown THEN "unknown" ELSE "not-needed",
              All(IF unknown THEN "unknown" ELSE "conflicted", "REFUSED"),
              Push("lock", Verdict(unknown)))
  /\ UNCHANGED <<idx, fsVars, jnVars, lock, attempted, err, exit, recovery,
                 manager, outcome, phases, clean, envVars>>

TakeLock ==
  /\ pc = "start" /\ active > 0
  /\ pc' = "stage" /\ idx' = 1
  /\ lock' = "held"
  /\ phases' = Push("lock", "passed")
  /\ UNCHANGED <<fsVars, jnVars, attempted, err, exit, recovery, manager,
                 outcome, clean, result, envVars>>

\* prepareManagerPhases fails before anything is staged: a manager is missing or
\* of another version, or its `--version` changed the repository.
PrepareManagerFails ==
  /\ pc = "stage" /\ idx = 1
  /\ \E unknown, mutated \in BOOLEAN :
       /\ err' = [reason |-> "REFUSED", unknown |-> unknown, at |-> 0]
       /\ manager' = [started |-> FALSE, failed |-> TRUE, unknown |-> unknown,
                      unrecovered |-> mutated]
       /\ phases' = Push("manager", Verdict(unknown))
  /\ Exit("prepare")
  /\ UNCHANGED <<idx, fsVars, jnVars, lock, attempted, recovery, outcome, clean,
                 result, envVars>>

StagingFails(kind) == Exit(kind) /\ phases' = Push("stage", "failed")

\* stageTargets, one target: write and read back the stage file, then the
\* backup.  A failure leaves what was written so far.
StageTarget ==
  /\ pc = "stage"
  /\ \/ /\ stage' = [stage EXCEPT ![idx] = "ok"]
        /\ backup' = [backup EXCEPT ![idx] = "ok"]
        /\ pc' = IF idx < active THEN "stage" ELSE "create-journal"
        /\ idx' = IF idx < active THEN idx + 1 ELSE idx
        /\ UNCHANGED <<exit, phases>>
     \/ /\ IOFaults
        /\ \E s \in {"none", "edited", "ok"}, b \in {"none", "edited", "ok"} :
             /\ b # "none" => s = "ok"
             /\ stage' = [stage EXCEPT ![idx] = s]
             /\ backup' = [backup EXCEPT ![idx] = b]
        /\ StagingFails("unjournaled")
        /\ UNCHANGED idx
  /\ UNCHANGED <<file, jnVars, lock, attempted, err, recovery, manager,
                 outcome, clean, result, envVars>>

CreateJournal ==
  /\ pc = "create-journal"
  /\ \/ /\ pc' = "persist-staged"
        /\ run' = TRUE
        /\ mem' = [state |-> "staged", target |-> [t \in Files |-> "staged"]]
        /\ UNCHANGED <<exit, phases>>
     \/ /\ IOFaults
        /\ StagingFails("unjournaled")
        /\ UNCHANGED <<run, mem>>
  /\ UNCHANGED <<idx, fsVars, extra, disk, jid, lock, attempted, err, recovery,
                 manager, outcome, clean, result, envVars>>

PersistStaged ==
  /\ pc = "persist-staged"
  /\ \/ /\ Persisted(mem)
        /\ pc' = "precommit"
        /\ phases' = Push("stage", "passed")
        /\ UNCHANGED exit
     \/ PersistFails(mem) /\ StagingFails("stage")
  /\ UNCHANGED <<idx, fsVars, run, extra, lock, attempted, err, recovery,
                 manager, outcome, clean, result, envVars>>

\* recheckAllTargets: every named file, and both artifacts of every target.
SourcesHeld == /\ \A f \in Files : file[f] = "orig"
               /\ \A t \in 1..active : stage[t] = "ok" /\ backup[t] = "ok"

\* "REFUSED": the values or the VCS state of a file no longer match the plan.
Precommit ==
  /\ pc = "precommit"
  /\ \/ /\ lock = "held" /\ SourcesHeld
        /\ pc' = "persist-committing"
        /\ phases' = Push("precommit", "passed")
        /\ UNCHANGED <<err, exit>>
     \/ \E reason \in {"LOCK_LOST", "SOURCE_CHANGED", "REFUSED"},
           unknown \in BOOLEAN :
          /\ reason = "LOCK_LOST" <=> lock # "held"
          /\ reason = "SOURCE_CHANGED" <=> lock = "held" /\ ~SourcesHeld
          /\ unknown => reason = "REFUSED"
          /\ err' = [reason |-> reason, unknown |-> unknown, at |-> 0]
          /\ phases' = Push("precommit", Verdict(unknown))
          /\ Exit("precommit")
  /\ UNCHANGED <<idx, fsVars, jnVars, lock, attempted, recovery, manager,
                 outcome, clean, result, envVars>>

----------------------------------------------------------------------------
(* Committing *)

\* Mutant: a conflict needs no recovery.
CommitFailsConflictClean(reason, unknown, at, tried) ==
  /\ err' = [reason |-> reason, unknown |-> unknown, at |-> at]
  /\ phases' = IF phases["commit"] = "none" THEN Push("commit", Verdict(unknown))
               ELSE phases
  /\ \/ (tried = {} \/ reason \in Conflict) /\ Exit("zero")
     \/ tried # {} /\ reason \notin Conflict
        /\ pc' = "recovering" /\ UNCHANGED exit

\* commitError is set: with no replacement attempted the run only cleans up,
\* otherwise it recovers.
CommitFails(reason, unknown, at, tried) ==
  /\ err' = [reason |-> reason, unknown |-> unknown, at |-> at]
  /\ phases' = IF phases["commit"] = "none" THEN Push("commit", Verdict(unknown))
               ELSE phases
  /\ \/ tried = {} /\ Exit("zero")
     \/ tried # {} /\ pc' = "recovering" /\ UNCHANGED exit

PersistCommitting ==
  /\ pc = "persist-committing"
  /\ LET m == [mem EXCEPT !.state = "committing"] IN
     \/ /\ Persisted(m)
        /\ pc' = "check" /\ idx' = 1
        /\ UNCHANGED <<err, exit, phases>>
     \/ /\ PersistFails(m)
        /\ CommitFails("COMMIT_FAILED", FALSE, 0, attempted)
        /\ UNCHANGED idx
  /\ UNCHANGED <<fsVars, run, extra, lock, attempted, recovery, manager,
                 outcome, clean, result, envVars>>

\* What the commit loop would throw on looking at a target, or NONE.
SourceError(t) ==
  IF lock # "held" THEN "LOCK_LOST"
  ELSE IF file[t] = "gone" THEN "COMMIT_FAILED"
  ELSE IF file[t] # "orig" THEN "SOURCE_CHANGED" ELSE "NONE"

FinalError(t) ==
  IF SourceError(t) # "NONE" THEN SourceError(t)
  ELSE IF stage[t] # "ok" THEN "STAGED_SOURCE_CHANGED"
  ELSE IF backup[t] # "ok" THEN "BACKUP_SOURCE_CHANGED" ELSE "NONE"

CheckTarget ==
  /\ pc = "check" /\ idx <= active
  /\ \/ /\ SourceError(idx) = "NONE"
        /\ pc' = "persist-replacing"
        /\ UNCHANGED <<err, exit, phases>>
     \/ /\ SourceError(idx) # "NONE"
        /\ CommitFails(SourceError(idx), lock # "held", idx, attempted)
  /\ UNCHANGED <<idx, fsVars, jnVars, lock, attempted, recovery, manager,
                 outcome, clean, result, envVars>>

\* Mutant: the file is replaced before the journal says so.
PersistReplacingLater ==
  /\ pc = "persist-replacing"
  /\ pc' = "final-check"
  /\ mem' = Marked(idx, "replacing")
  /\ UNCHANGED <<idx, fsVars, run, extra, disk, jid, lock, attempted, err, exit,
                 recovery, manager, ansVars, envVars>>

PersistReplacing ==
  /\ pc = "persist-replacing"
  /\ LET m == Marked(idx, "replacing") IN
     \/ /\ Persisted(m)
        /\ pc' = "final-check"
        /\ UNCHANGED <<err, exit, phases>>
     \/ /\ PersistFails(m)
        /\ CommitFails("COMMIT_FAILED", FALSE, idx, attempted)
  /\ UNCHANGED <<idx, fsVars, run, extra, lock, attempted, recovery, manager,
                 outcome, clean, result, envVars>>

\* Mutant: no look between writing the journal and the rename.
FinalCheckMissing ==
  /\ pc = "final-check"
  /\ pc' = "replace"
  /\ UNCHANGED <<idx, fsVars, jnVars, lock, attempted, err, exit, recovery,
                 manager, ansVars, envVars>>

\* The last look before the rename.
FinalCheck ==
  /\ pc = "final-check"
  /\ raced' = raced \ {idx}
  /\ \/ /\ FinalError(idx) = "NONE"
        /\ pc' = "replace"
        /\ UNCHANGED <<err, exit, phases>>
     \/ /\ FinalError(idx) # "NONE"
        /\ CommitFails(FinalError(idx), lock # "held", idx, attempted)
  /\ UNCHANGED <<idx, fsVars, jnVars, lock, attempted, recovery, manager,
                 outcome, clean, result, active, edits, touched, tampered>>

\* Mutant: the attempt is noted only if the rename throws.
ReplaceUnnoted ==
  /\ pc = "replace"
  /\ \/ /\ stage[idx] # "none"
        /\ file' = [file EXCEPT ![idx] = IF stage[idx] = "ok" THEN "new" ELSE "ext"]
        /\ stage' = [stage EXCEPT ![idx] = "none"]
        /\ pc' = "settle-replace"
        /\ UNCHANGED <<attempted, err, exit, phases>>
     \/ /\ IOFaults \/ stage[idx] = "none"
        /\ attempted' = attempted \cup {idx}
        /\ CommitFails("COMMIT_FAILED", FALSE, idx, attempted')
        /\ UNCHANGED <<file, stage>>
  /\ UNCHANGED <<idx, backup, jnVars, lock, recovery, manager, outcome, clean,
                 result, envVars>>

\* rename(stage, target): whatever the two paths lead to by now.
Replace ==
  /\ pc = "replace"
  /\ attempted' = attempted \cup {idx}
  /\ \/ /\ stage[idx] # "none"
        /\ file' = [file EXCEPT ![idx] = IF stage[idx] = "ok" THEN "new" ELSE "ext"]
        /\ stage' = [stage EXCEPT ![idx] = "none"]
        /\ pc' = "settle-replace"
        /\ UNCHANGED <<err, exit, phases>>
     \/ /\ IOFaults \/ stage[idx] = "none"
        /\ CommitFails("COMMIT_FAILED", FALSE, idx, attempted')
        /\ UNCHANGED <<file, stage>>
  /\ UNCHANGED <<idx, backup, jnVars, lock, recovery, manager, outcome, clean,
                 result, envVars>>

\* fsync of the directory, then the journal.
SettleReplace ==
  /\ pc = "settle-replace"
  /\ \/ /\ Persisted(Marked(idx, "replaced"))
        /\ pc' = "check" /\ idx' = idx + 1
        /\ UNCHANGED <<err, exit, phases>>
     \/ /\ \/ PersistFails(Marked(idx, "replaced"))
           \/ IOFaults /\ UNCHANGED <<mem, disk, jid>>
        /\ CommitFails("COMMIT_FAILED", FALSE, idx, attempted)
        /\ UNCHANGED idx
  /\ UNCHANGED <<fsVars, run, extra, lock, attempted, recovery, manager,
                 outcome, clean, result, envVars>>

\* All files are replaced.  executeManagerPhases, when the plan has any,
\* succeeds, or fails leaving external effects or unrecovered paths and perhaps
\* its own files in the run directory.
RunManager ==
  /\ pc = "check" /\ idx > active
  /\ \/ /\ pc' = "observe"
        /\ \E started \in BOOLEAN : manager' = [manager EXCEPT !.started = started]
        /\ phases' = Push("commit", "passed")
        /\ UNCHANGED <<err, exit, extra>>
     \/ /\ \E started, unknown, unrecovered, left \in BOOLEAN :
             /\ unknown \/ (unrecovered /\ ~started)
             /\ manager' = [started |-> started, failed |-> TRUE,
                            unknown |-> unknown, unrecovered |-> unrecovered]
             /\ extra' = left
             /\ err' = [reason |-> "REFUSED", unknown |-> unknown, at |-> 0]
             /\ phases' = [phases EXCEPT !["commit"] = "passed",
                                         !["manager"] = Verdict(unknown)]
        /\ pc' = "recovering"
        /\ UNCHANGED exit
  /\ UNCHANGED <<idx, fsVars, run, disk, mem, jid, lock, attempted, recovery,
                 outcome, clean, result, envVars>>

\* observeSuccessfulOutcomes decides whether the run succeeded.
Observe ==
  /\ pc = "observe"
  /\ LET ops == [f \in Files |-> SuccessOutcome(f)] IN
     \/ /\ \A f \in Files : ops[f].status # "unknown"
        /\ outcome' = ops
        /\ phases' = Push("inspect", "passed")
        /\ Exit("success")
        /\ UNCHANGED err
     \/ /\ \E f \in Files : ops[f].status = "unknown"
        /\ CommitFails("COMMIT_FAILED", TRUE, 0, attempted)
        /\ UNCHANGED outcome
  /\ UNCHANGED <<idx, fsVars, jnVars, lock, attempted, recovery, manager,
                 clean, result, envVars>>

----------------------------------------------------------------------------
(* Recovering *)

Recovering ==
  /\ pc = "recovering"
  /\ PersistIfPossible([mem EXCEPT !.state = "recovering"])
  /\ pc' = "recover" /\ idx' = 1
  /\ recovery' = "completed"
  /\ UNCHANGED <<fsVars, run, extra, lock, attempted, err, exit, manager,
                 ansVars, envVars>>

\* A throw while a target is recovered: the target is marked, and a file that
\* cannot be read makes the recovery unknown.
RecoverFails(unknown) ==
  /\ pc' = "note-failure"
  /\ mem' = Marked(idx, "recovery-failed")
  /\ recovery' = IF unknown \/ file[idx] = "gone" \/ recovery = "unknown"
                 THEN "unknown" ELSE "partial"

\* Mutant: a target whose recovery failed is tried again.
NoteFailureRetry ==
  /\ pc = "note-failure"
  /\ PersistIfPossible(mem)
  /\ pc' = "recover"
  /\ UNCHANGED <<idx, fsVars, run, extra, lock, attempted, err, exit, recovery,
                 manager, ansVars, envVars>>

NoteFailure ==
  /\ pc = "note-failure"
  /\ PersistIfPossible(mem)
  /\ pc' = "recover" /\ idx' = idx + 1
  /\ UNCHANGED <<fsVars, run, extra, lock, attempted, err, exit, recovery,
                 manager, ansVars, envVars>>

\* The looks at a target before it is restored; one never renamed over, or
\* whose rename did not happen, needs nothing.
RecoverTarget ==
  /\ pc = "recover" /\ idx <= active
  /\ raced' = raced \ {idx}
  /\ \/ /\ idx \notin attempted
        /\ pc' = "recover" /\ idx' = idx + 1
        /\ UNCHANGED <<mem, recovery>>
     \/ /\ idx \in attempted /\ lock # "held"
        /\ RecoverFails(TRUE)
        /\ UNCHANGED idx
     \/ /\ idx \in attempted /\ lock = "held" /\ file[idx] = "orig"
        /\ pc' = "recover" /\ idx' = idx + 1
        /\ mem' = Marked(idx, "restored")
        /\ UNCHANGED recovery
     \/ /\ idx \in attempted /\ lock = "held" /\ file[idx] # "orig"
        /\ file[idx] # "new" \/ backup[idx] # "ok"
        /\ RecoverFails(FALSE)
        /\ UNCHANGED idx
     \/ /\ idx \in attempted /\ lock = "held"
        /\ file[idx] = "new" /\ backup[idx] = "ok"
        /\ pc' = "restore"
        /\ UNCHANGED <<idx, mem, recovery>>
  /\ UNCHANGED <<fsVars, run, extra, disk, jid, lock, attempted, err, exit,
                 manager, ansVars, active, edits, touched, tampered>>

\* rename(backup, target)
Restore ==
  /\ pc = "restore"
  /\ \/ /\ backup[idx] # "none"
        /\ file' = [file EXCEPT ![idx] = IF backup[idx] = "ok" THEN "restored"
                                         ELSE "ext"]
        /\ backup' = [backup EXCEPT ![idx] = "none"]
        /\ pc' = "settle-restore"
        /\ UNCHANGED <<mem, recovery>>
     \/ /\ IOFaults \/ backup[idx] = "none"
        /\ RecoverFails(FALSE)
        /\ UNCHANGED <<file, backup>>
  /\ UNCHANGED <<idx, stage, run, extra, disk, jid, lock, attempted, err, exit,
                 manager, ansVars, envVars>>

\* fsync, read the target back, then the journal.
SettleRestore ==
  /\ pc = "settle-restore"
  /\ \/ /\ file[idx] = "restored"
        /\ Persisted(Marked(idx, "restored"))
        /\ pc' = "recover" /\ idx' = idx + 1
        /\ UNCHANGED recovery
     \/ /\ file[idx] = "restored"
        /\ NotPersisted(Marked(idx, "restored"))
        /\ RecoverFails(FALSE)
        /\ UNCHANGED idx
     \/ /\ IOFaults \/ file[idx] # "restored"
        /\ RecoverFails(FALSE)
        /\ UNCHANGED <<idx, disk, jid>>
  /\ UNCHANGED <<fsVars, run, extra, lock, attempted, err, exit, manager,
                 ansVars, envVars>>

FinishRecovery ==
  /\ pc = "recover" /\ idx > active
  /\ pc' = "inspect"
  /\ LET m == [mem EXCEPT !.state = "recovered"] IN
     \/ recovery = "completed" /\ Persisted(m) /\ UNCHANGED recovery
     \/ recovery = "completed" /\ PersistFails(m) /\ recovery' = "unknown"
     \/ recovery # "completed" /\ UNCHANGED <<mem, disk, jid, recovery>>
  /\ phases' = Push("recovery", CASE recovery' = "completed" -> "passed"
                                  [] recovery' = "partial" -> "failed"
                                  [] recovery' = "unknown" -> "unknown")
  /\ UNCHANGED <<idx, fsVars, run, extra, lock, attempted, err, exit, manager,
                 outcome, clean, result, envVars>>

\* observeFailedRun, with the file whose check stopped the commit reported as
\* a conflict.
InspectedOutcome(f) ==
  IF recovery = "unknown" THEN [status |-> "unknown", reason |-> err.reason]
  ELSE IF /\ f = err.at /\ err.reason \in Conflict /\ f \notin attempted
          /\ FailedOutcome(f).status # "unknown"
       THEN [status |-> "conflicted", reason |-> err.reason]
       ELSE FailedOutcome(f)

\* finalStateKnown, for one outcome.
Settled(o) == \/ o.reason \in {"COMMIT_FAILED_REVERTED", "RUN_ABORTED"}
              \/ o.status = "conflicted" /\ o.reason \in Conflict

\* Mutant: evidence is kept only when the recovery is unknown.
InspectCleansPartial ==
  /\ pc = "inspect"
  /\ LET ops == [f \in Files |-> InspectedOutcome(f)] IN
     \/ /\ recovery # "unknown"
        /\ Exit("reverted")
        /\ outcome' = ops /\ phases' = Push("inspect", "passed")
        /\ UNCHANGED <<mem, disk, jid, result>>
     \/ /\ recovery = "unknown"
        /\ PersistIfPossible([mem EXCEPT !.state = "failed"])
        /\ Answer(recovery, ops, Push("cleanup", "unknown"))
        /\ UNCHANGED <<exit, outcome, phases>>
  /\ UNCHANGED <<idx, fsVars, run, extra, lock, attempted, err, recovery,
                 manager, clean, envVars>>

\* Only a completed recovery with a known final state is cleaned up; any other
\* keeps its evidence.
Inspect ==
  /\ pc = "inspect"
  /\ LET ops == [f \in Files |-> InspectedOutcome(f)]
         unknown == \E f \in Files : ops[f].status = "unknown"
         known == \A f \in Files : Settled(ops[f])
         ph == Push("inspect", IF unknown THEN "unknown" ELSE "passed")
         kept == IF recovery # "completed" THEN recovery
                 ELSE IF unknown THEN "unknown" ELSE "partial" IN
     \/ /\ recovery = "completed" /\ known
        /\ Exit("reverted")
        /\ outcome' = ops /\ phases' = ph
        /\ UNCHANGED <<mem, disk, jid, result>>
     \/ /\ ~(recovery = "completed" /\ known)
        /\ PersistIfPossible([mem EXCEPT !.state = "failed"])
        /\ Answer(WithManager(kept), ops, [ph EXCEPT !["cleanup"] = "unknown"])
        /\ UNCHANGED <<exit, outcome, phases>>
  /\ UNCHANGED <<idx, fsVars, run, extra, lock, attempted, err, recovery,
                 manager, clean, envVars>>

----------------------------------------------------------------------------
(* Cleaning up: finalizeCleanup and, before there is a journal,            *)
(* cleanupBeforeJournal                                                    *)

\* Nothing to remove but staged artifacts, or nothing at all.
Unjournaled == exit \in {"prepare", "unjournaled"}

FinCheck ==
  /\ pc = "fin-check"
  /\ \/ /\ lock = "held" /\ (Unjournaled \/ jid = "match")
        /\ pc' = IF exit = "prepare" THEN "fin-release" ELSE "fin-temp"
        /\ idx' = 1 /\ clean' = TRUE
     \/ /\ ~(lock = "held" /\ (Unjournaled \/ jid = "match"))
        /\ pc' = "kept"
        /\ UNCHANGED <<idx, clean>>
  /\ UNCHANGED <<fsVars, jnVars, lock, attempted, err, exit, recovery, manager,
                 outcome, phases, result, envVars>>

\* removeOwnedArtifact leaves another inode alone.
Removed(a) == IF a = "foreign" THEN "foreign" ELSE "none"

FinTemp ==
  /\ pc = "fin-temp"
  /\ \/ /\ idx <= active
        /\ idx' = idx + 1
        /\ \/ /\ stage' = [stage EXCEPT ![idx] = Removed(@)]
              /\ backup' = [backup EXCEPT ![idx] = Removed(@)]
              /\ clean' = (clean /\ stage[idx] # "foreign"
                                 /\ backup[idx] # "foreign")
           \/ /\ IOFaults
              /\ stage' \in {stage, [stage EXCEPT ![idx] = Removed(@)]}
              /\ backup' \in {backup, [backup EXCEPT ![idx] = Removed(@)]}
              /\ clean' = FALSE
        /\ UNCHANGED pc
     \/ /\ idx > active
        /\ pc' = IF exit = "unjournaled" THEN "fin-release"
                 ELSE IF clean THEN "fin-journal" ELSE "kept"
        /\ UNCHANGED <<idx, stage, backup, clean>>
  /\ UNCHANGED <<file, jnVars, lock, attempted, err, exit, recovery, manager,
                 outcome, phases, result, envVars>>

\* removeJournal: unlink, then rmdir; a run directory with other files stays.
FinJournal ==
  /\ pc = "fin-journal"
  /\ \/ /\ ~extra
        /\ disk' = Empty /\ run' = FALSE
        /\ pc' = "fin-release"
     \/ /\ IOFaults \/ extra
        /\ disk' = disk \/ (~extra /\ disk' = Empty)
        /\ pc' = "kept"
        /\ UNCHANGED run
  /\ UNCHANGED <<idx, fsVars, extra, mem, jid, lock, attempted, err, exit,
                 recovery, manager, ansVars, envVars>>

FinRelease ==
  /\ pc = "fin-release"
  /\ \/ /\ lock = "held"
        /\ lock' = "free"
        /\ pc' = IF clean THEN "released" ELSE "kept"
     \/ /\ IOFaults \/ lock # "held"
        /\ pc' = "kept"
        /\ UNCHANGED lock
  /\ UNCHANGED <<idx, fsVars, jnVars, attempted, err, exit, recovery, manager,
                 ansVars, envVars>>

\* The outcomes of a run that only cleaned up, observed afterwards.
CleanedOutcomes(cleaned) ==
  CASE exit \in {"unjournaled", "stage"} -> [f \in Files |-> FailedOutcome(f)]
    [] exit = "prepare" ->
         All(IF err.unknown \/ ~cleaned THEN "unknown"
             ELSE IF manager.unrecovered THEN "failed" ELSE "conflicted",
             err.reason)
    [] exit \in {"precommit", "zero"} /\ ~cleaned ->
         All("unknown", "CLEANUP_INCOMPLETE")
    [] exit \in {"precommit", "zero"} /\ cleaned /\ err.unknown ->
         All("unknown", err.reason)
    [] exit = "precommit" /\ cleaned /\ ~err.unknown ->
         All("conflicted", err.reason)
    [] exit = "zero" /\ cleaned /\ ~err.unknown ->
         IF err.reason \in Conflict THEN All("conflicted", err.reason)
         ELSE [f \in Files |-> FailedOutcome(f)]
    [] exit \in {"success", "reverted"} ->
         IF cleaned THEN outcome ELSE All("unknown", "CLEANUP_INCOMPLETE")

AnswerCleaned ==
  /\ pc \in {"kept", "released"}
  /\ LET cleaned == pc = "released" IN
     Answer(CASE ~cleaned -> "unknown"
              [] cleaned /\ exit = "reverted" -> WithManager(recovery)
              [] cleaned /\ exit = "prepare" /\ manager.unrecovered ->
                   IF err.unknown THEN "unknown" ELSE "partial"
              [] OTHER -> "not-needed",
            CleanedOutcomes(cleaned),
            Push("cleanup", IF cleaned THEN "passed" ELSE "unknown"))
  /\ UNCHANGED <<idx, fsVars, jnVars, lock, attempted, err, exit, recovery,
                 manager, outcome, phases, clean, envVars>>

----------------------------------------------------------------------------
(* The environment *)

Crash ==
  /\ Crashes /\ pc \notin Ended
  /\ pc' = "crashed"
  /\ UNCHANGED <<idx, fsVars, jnVars, lock, attempted, err, exit, recovery,
                 manager, ansVars, envVars>>

Others == edits < MaxEdits /\ edits' = edits + 1 /\ pc \notin Ended

\* Somebody else changes, replaces or removes a file.
Edit(f) ==
  /\ Others
  /\ \E content \in External : file' = [file EXCEPT ![f] = content]
  /\ touched' = touched \cup {f}
  /\ raced' = IF pc \in {"replace", "restore"} /\ f = idx THEN raced \cup {f}
              ELSE raced
  /\ UNCHANGED <<pc, idx, stage, backup, jnVars, lock, attempted, err, exit,
                 recovery, manager, ansVars, active, tampered>>

\* Somebody else changes, replaces or removes a temporary file.
Tamper(t) ==
  /\ Others
  /\ \/ /\ stage[t] # "none"
        /\ \E a \in Artifact \ {"ok"} : stage' = [stage EXCEPT ![t] = a]
        /\ UNCHANGED <<backup, tampered>>
     \/ /\ backup[t] # "none"
        /\ \E a \in Artifact \ {"ok"} : backup' = [backup EXCEPT ![t] = a]
        /\ tampered' = tampered \cup {t}
        /\ UNCHANGED stage
  /\ UNCHANGED <<pc, idx, file, jnVars, lock, attempted, err, exit, recovery,
                 manager, ansVars, active, touched, raced>>

\* Another process moves the lock aside (ApplyLock's MoveStale) or puts it back.
MoveLock ==
  /\ Others
  /\ \/ lock = "held" /\ lock' = "lost"
     \/ lock = "lost" /\ lock' = "held"
  /\ UNCHANGED <<pc, idx, fsVars, jnVars, attempted, err, exit, recovery,
                 manager, ansVars, active, touched, tampered, raced>>

Begin   == AnswerUnchanged \/ Refuse \/ TakeLock
Prepare == \/ PrepareManagerFails \/ StageTarget \/ CreateJournal
           \/ PersistStaged \/ Precommit
Commit  == \/ PersistCommitting \/ CheckTarget \/ PersistReplacing
           \/ FinalCheck \/ Replace \/ SettleReplace \/ RunManager \/ Observe
Recover == \/ Recovering \/ NoteFailure \/ RecoverTarget \/ Restore
           \/ SettleRestore \/ FinishRecovery \/ Inspect
CleanUp == FinCheck \/ FinTemp \/ FinJournal \/ FinRelease \/ AnswerCleaned

Apply == Begin \/ Prepare \/ Commit \/ Recover \/ CleanUp

Next == \/ Apply \/ Crash
        \/ \E f \in Files : Edit(f) \/ Tamper(f)
        \/ MoveLock

Spec == Init /\ [][Next]_vars

\* The process keeps running unless it dies.
FairSpec == Spec /\ WF_vars(Apply)

----------------------------------------------------------------------------
(* Properties *)

\* engine.ts calls runtime.rename only over a file it looked at after it wrote
\* the journal: an edit is overwritten only if it falls between that last look
\* and the rename.
SeenEditsSurvive ==
  [][\A f \in Files :
       file[f] \in External /\ file'[f] \in {"new", "restored"} => f \in raced]_vars

\* A staged file is at a target path only if the journal on disk names the
\* target as being replaced, and a target the journal calls restored is.
JournalCoversReplacements ==
  \A t \in Files :
    file[t] = "new" /\ exit # "success" =>
      /\ disk.state # "none"
      /\ disk.target[t] \notin {"staged", "restored"}

\* While some target holds its staged bytes and the run has not succeeded, the
\* run directory and the lock stay, so that the next run is blocked: after a
\* crash, a failed recovery, a failed cleanup.
MixedStateIsGuarded ==
  (\E t \in Files : file[t] = "new") /\ exit # "success" =>
    run /\ lock \in {"held", "lost"}

\* Until the run succeeds, the original bytes of a file nobody else touched are
\* at its path or in its backup.
OriginalRecoverable ==
  \A f \in Files :
    f \notin touched \cup tampered /\ exit # "success" =>
      file[f] \in {"orig", "restored"} \/ backup[f] = "ok"

Claimed(f) == result.ops[f].status

\* What the result says of a file nobody else touched is so.
OutcomesHold ==
  result # NoResult =>
    \A f \in Files \ touched :
      /\ Claimed(f) = "applied" => file[f] = "new"
      /\ Claimed(f) = "skipped" => file[f] = "orig"
      /\ Claimed(f) = "reverted" => file[f] \in {"orig", "restored"}
      /\ Claimed(f) = "conflicted" => file[f] = "orig"

\* A status other than failed and unknown is all-or-nothing.
AllOrNothing ==
  result # NoResult =>
    LET mine == (1..active) \ touched IN
    /\ result.status = "applied" => \A t \in mine : file[t] = "new"
    /\ result.status \in {"noop", "conflicted", "reverted"} =>
         \A t \in mine : file[t] # "new"

\* A result that asks for no recovery leaves nothing that blocks or confuses the
\* next run.
CleanMeansClean ==
  result # NoResult /\ result.recovery \in {"not-needed", "completed"} =>
    /\ ~run /\ disk = Empty
    /\ lock \in {"none", "free"}
    /\ \A t \in Files : stage[t] = "none" /\ backup[t] = "none"

\* The answer tells the truth: of every file, of the whole, and of what is left.
ResultIsHonest == OutcomesHold /\ AllOrNothing /\ CleanMeansClean

\* hasValidApplySemantics (contracts/validate.ts): assertApplyResult never
\* throws away the account of a run that changed files.
ContractHolds ==
  result # NoResult =>
    LET ops == result.ops
        ph == result.phases
        conflicted == {f \in Files : Claimed(f) = "conflicted"} IN
    /\ result.status \in {"applied", "noop"} =>
         /\ result.recovery = "not-needed"
         /\ \A n \in PhaseName : ph[n] \notin {"failed", "unknown"}
    /\ result.recovery \in {"partial", "unknown"} =>
         result.status \notin {"applied", "noop", "conflicted"}
    /\ result.recovery = "completed" =>
         /\ \A f \in Files : Claimed(f) \notin {"applied", "skipped", "unknown"}
         /\ ph["recovery"] = "passed"
         /\ conflicted # {} =>
              /\ \E f \in Files : Claimed(f) = "reverted"
              /\ err.reason \in Conflict
              /\ \A f \in conflicted : ops[f].reason = err.reason
              /\ ph["commit"] = "failed" /\ ph["inspect"] = "passed"
              /\ ph["cleanup"] = "passed"
    /\ ph["recovery"] # "none" =>
         /\ result.recovery = "unknown" => ph["recovery"] = "unknown"
         /\ result.recovery = "partial" => ph["recovery"] = "failed"

\* What a run answers: it is true of the files, and the contract accepts it.
ResultIsSound == ResultIsHonest /\ ContractHolds

\* The invariant the proofs rest on, in parts: what each stretch of the run may
\* count on.
Unlocked   == {"start"}
Unstaged   == Unlocked \cup {"stage", "create-journal"}
Unrecorded == Unstaged \cup {"persist-staged"}
Early      == Unrecorded \cup {"precommit", "persist-committing"}
Cleaning   == {"fin-check", "fin-temp", "fin-journal", "fin-release", "kept",
               "released"}
Restoring  == {"recover", "note-failure", "restore", "settle-restore", "inspect"}
OnTarget   == {"stage", "persist-replacing", "final-check", "replace",
               "settle-replace", "note-failure", "restore", "settle-restore"}

NoneNew == \A f \in Files : file[f] # "new"

\* The run works on a target it has; it turns to cleanup once, with a reason.
WellPlaced ==
  /\ pc \in OnTarget => idx \in 1..active
  /\ pc \in {"check", "recover"} => idx \in 1..(active + 1)
  /\ pc \notin Unlocked \cup Ended => active > 0
  /\ pc \notin Ended => (pc \in Cleaning <=> exit # "none")
  /\ pc \in Restoring => recovery # "not-needed"
  /\ pc # "done" => result = NoResult

\* Nothing is replaced before the run owns a directory, the lock and a journal,
\* and none of them goes before cleanup.
JournalFirst ==
  /\ pc \in Early => attempted = {}
  /\ pc \notin Unlocked \cup Cleaning \cup Ended => lock \in {"held", "lost"}
  /\ pc \notin Unstaged \cup Cleaning \cup Ended => run /\ mem.state # "none"
  /\ pc \notin Unrecorded \cup Cleaning \cup Ended => disk.state # "none"
  /\ pc \in {"final-check", "replace"} =>
       disk = mem /\ mem.target[idx] = "replacing"

\* A new file was attempted, both copies of the journal cover it, and cleanup
\* without success starts only when there is none.
NewIsCovered ==
  /\ \A t \in Files :
       file[t] = "new" =>
         /\ t \in attempted
         /\ mem.target[t] \notin {"staged", "restored"}
  /\ exit \notin {"none", "success"} => NoneNew

\* Success is decided on all files, and nothing turns it back.
SuccessIsWhole ==
  exit = "success" =>
    \A f \in Files :
      /\ f <= active => file[f] \in {"new"} \cup External
      /\ outcome[f].status = IF f <= active THEN "applied" ELSE "skipped"

\* A run that turned back calls no file applied.
RevertedAppliesNothing ==
  exit = "reverted" => \A f \in Files : outcome[f].status # "applied"

EngineInvariant ==
  /\ TypeOK /\ WellPlaced /\ JournalFirst /\ NewIsCovered /\ SuccessIsWhole
  /\ RevertedAppliesNothing
  /\ JournalCoversReplacements /\ MixedStateIsGuarded

\* What the disk and the answer show of a run, and that it is an AtomicApply: a
\* journal is there whenever old and new files are mixed, at every moment at
\* which the process may die, and the status fits the files.
Shown(f) ==
  IF file[f] \in External THEN "other"
  ELSE IF file[f] = "new" THEN "new" ELSE IF f <= active THEN "old" ELSE "idle"

Content  == [f \in Files |-> Shown(f)]
Evidence == disk.state # "none"
Told ==
  IF result.status \in {"none", "applied"} THEN result.status
  ELSE IF result.status \in {"failed", "unknown"} THEN "unsettled"
  ELSE "unchanged"

Atomic == INSTANCE AtomicApply
            WITH content <- Content, evidence <- Evidence, verdict <- Told

ImplementsAtomicApply == Atomic!Spec

\* Every run that is not killed answers.
EveryRunEnds == <>(pc \in Ended)

\* docs/output-formats/apply.md: the effects of a manager command that was
\* started cannot be rolled back; reverted files "do not erase the
\* external-effect uncertainty".
EffectsStayUncertain ==
  result # NoResult /\ manager.started => result.recovery # "completed"
=============================================================================
