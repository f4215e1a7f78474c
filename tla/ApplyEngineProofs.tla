-------------------------- MODULE ApplyEngineProofs --------------------------
(***************************************************************************)
(* The inductive invariant of ApplyEngine, one lemma per conjunct, and the *)
(* safety theorems that follow from it, for any number of files, any       *)
(* faults and any number of steps of the environment.  First what is on    *)
(* disk and that the engine implements AtomicApply; then, in two layers,   *)
(* that edits survive, originals stay recoverable and the answer is true   *)
(* and accepted by its contract: what the renames leave of the files, and  *)
(* what is told of them.  Last, that ApplyAccount is sound: which answers  *)
(* the record of a check run takes, event by event, by kinds of answers,   *)
(* and that the engine gives answers of these kinds only.                  *)
(***************************************************************************)
EXTENDS ApplyInvariants, TLAPS, FiniteSetTheorems, SequenceTheorems, WellFoundedInduction

USE EngineAssumption

\* Setting one target's state keeps a journal a journal.
LEMMA MarkedTyping ==
  ASSUME mem \in Journal, NEW t, NEW s \in TargetState
  PROVE  /\ Marked(t, s) \in Journal
         /\ Marked(t, s).state = mem.state
         /\ \A u \in Files :
              Marked(t, s).target[u] = IF u = t THEN s ELSE mem.target[u]
BY DEF Marked, Journal

\* Whether it persists or not, the handle holds the new journal, and the disk
\* the new one or the one before.
LEMMA PersistTyping ==
  ASSUME TypeOK, NEW m \in Journal
  PROVE  /\ Persisted(m) \/ PersistFails(m) =>
              mem' \in Journal /\ mem' = m
         /\ Persisted(m) \/ NotPersisted(m) =>
              /\ disk' \in Journal /\ disk' \in {m, disk}
              /\ jid' \in {"none", "match", "lost"}
BY DEF TypeOK, Persisted, PersistFails, NotPersisted

\* A run error that names a file is a run error.
LEMMA ErrorTyping ==
  ASSUME NEW r \in Reason, NEW at \in 0..N
  PROVE  /\ 0 \in 0..N
         /\ \A u \in BOOLEAN :
              [reason |-> r, unknown |-> u, at |-> at] \in CommitError
         /\ [reason |-> r, unknown |-> FALSE, at |-> at] \in CommitError
         /\ [reason |-> r, unknown |-> TRUE, at |-> at] \in CommitError
BY DEF CommitError

\* What a look at a target raises is an error reason.
LEMMA SourceErrorTyping ==
  ASSUME NEW t
  PROVE  SourceError(t) \in Reason /\ FinalError(t) \in Reason
BY DEF SourceError, FinalError, Reason, Conflict

\* Setting the journal's state keeps it a journal.
LEMMA StateTyping ==
  ASSUME mem \in Journal, NEW s \in JournalState
  PROVE  /\ [mem EXCEPT !.state = s] \in Journal
         /\ [mem EXCEPT !.state = s].state = s
         /\ [mem EXCEPT !.state = s].target = mem.target
BY DEF Journal

\* Wherever the run works on a target, there is such a target.
LEMMA IndexTyping ==
  ASSUME TypeOK, WellPlaced
  PROVE  /\ 0 \in 0..N
         /\ pc \in OnTarget => idx \in Files /\ idx \in 0..N
         /\ pc \in {"check", "recover"} /\ idx <= active =>
              idx \in Files /\ idx \in 0..N
BY DEF TypeOK, WellPlaced, Files

\* createResult answers with a result, whose status follows StatusOf.
LEMMA AnswerTyping ==
  ASSUME NEW rec \in Recovery, NEW ops \in [Files -> Outcome],
         NEW ph \in [PhaseName -> PhaseStatus], Answer(rec, ops, ph)
  PROVE  /\ pc' = "done"
         /\ result' \in Result
         /\ result'.status = StatusOf(rec, ops)
<1>1. StatusOf(rec, ops) \in Status \cup {"noop"}
  BY DEF StatusOf, Status
<1>2. [ph EXCEPT !["recovery"] = Verdict(rec = "unknown")]
        \in [PhaseName -> PhaseStatus]
  BY DEF Verdict, PhaseName, PhaseStatus
<1>3. QED
  BY <1>1, <1>2 DEF Answer, Result

\* What is observed of a file is an outcome.
LEMMA OutcomeTyping ==
  ASSUME TypeOK, NEW f \in Files
  PROVE  /\ SuccessOutcome(f) \in Outcome
         /\ FailedOutcome(f) \in Outcome
         /\ InspectedOutcome(f) \in Outcome
<1>1. SuccessOutcome(f) \in Outcome /\ FailedOutcome(f) \in Outcome
  BY DEF SuccessOutcome, FailedOutcome, Outcome, Status, OutcomeReason
<1>2. InspectedOutcome(f) \in Outcome
  BY <1>1 DEF InspectedOutcome, Outcome, Status, OutcomeReason, TypeOK,
     CommitError
<1>3. QED
  BY <1>1, <1>2

\* A file that still holds its staged bytes is answered as failed or unknown,
\* and keeps the run from being cleaned up.
LEMMA InspectedNew ==
  ASSUME NEW f \in Files, file[f] = "new", f \in attempted
  PROVE  /\ InspectedOutcome(f).status \in {"failed", "unknown"}
         /\ recovery = "completed" => ~Settled(InspectedOutcome(f))
<1>1. FailedOutcome(f) = [status |-> "failed", reason |-> "RECOVERY_FAILED"]
  BY DEF FailedOutcome, OriginalBytes
<1>2. QED
  BY <1>1 DEF InspectedOutcome, Settled

\* What a run that only cleaned up answers of its files are outcomes.
LEMMA CleanedTyping ==
  ASSUME TypeOK, exit \in Exits \ {"none"}, NEW cleaned \in BOOLEAN
  PROVE  CleanedOutcomes(cleaned) \in [Files -> Outcome]
<1>1. err.reason \in Reason
  BY DEF TypeOK, CommitError
<1>2. ASSUME NEW s \in Status, NEW r \in OutcomeReason
      PROVE  All(s, r) \in [Files -> Outcome]
  BY DEF All, Outcome
<1>3. [f \in Files |-> FailedOutcome(f)] \in [Files -> Outcome]
  BY OutcomeTyping
<1>4. Reason \subseteq OutcomeReason
  BY DEF OutcomeReason
<1>5. QED
  BY <1>1, <1>2, <1>3, <1>4
     DEF TypeOK, CleanedOutcomes, Status, OutcomeReason, Exits

\* No step leaves the types of the state.
LEMMA TypingStep ==
  ASSUME TypeOK, WellPlaced
  PROVE  [Next]_vars => TypeOK'
<1> USE DEF fsVars, jnVars, ansVars, envVars, TypeOK, Files
<1>1. ASSUME AnswerUnchanged PROVE TypeOK'
  <2>1. [f \in Files |-> SuccessOutcome(f)] \in [Files -> Outcome]
    BY OutcomeTyping
  <2>2. [phases EXCEPT !["lock"] = "skipped", !["inspect"] = "passed"]
          \in [PhaseName -> PhaseStatus]
    BY DEF PhaseName, PhaseStatus
  <2>3. pc' = "done" /\ result' \in Result
    BY <1>1, <2>1, <2>2, AnswerTyping DEF AnswerUnchanged, Recovery
  <2>4. QED
    BY <1>1, <2>3 DEF AnswerUnchanged, Labels, Ended
<1>2. ASSUME Refuse PROVE TypeOK'
  <2>1. PICK unknown \in BOOLEAN :
          Answer(IF unknown THEN "unknown" ELSE "not-needed",
                 All(IF unknown THEN "unknown" ELSE "conflicted", "REFUSED"),
                 Push("lock", Verdict(unknown)))
    BY <1>2 DEF Refuse
  <2>2. All(IF unknown THEN "unknown" ELSE "conflicted", "REFUSED")
          \in [Files -> Outcome]
    BY DEF All, Outcome, Status, OutcomeReason, Reason
  <2>3. Push("lock", Verdict(unknown)) \in [PhaseName -> PhaseStatus]
    BY DEF Push, Verdict, PhaseName, PhaseStatus
  <2>4. (IF unknown THEN "unknown" ELSE "not-needed") \in Recovery
    BY DEF Recovery
  <2>5. pc' = "done" /\ result' \in Result
    BY <2>1, <2>2, <2>3, <2>4, AnswerTyping
  <2>6. QED
    BY <1>2, <2>5 DEF Refuse, Labels, Ended
<1>3. ASSUME TakeLock PROVE TypeOK'
  BY <1>3
     DEF TakeLock, Push, PhaseName, PhaseStatus, Labels, Ended
<1>4. ASSUME PrepareManagerFails PROVE TypeOK'
  <2>t1. UNCHANGED <<idx, active, file, stage, backup, run, extra, disk, mem,
                   jid, lock, attempted, recovery, outcome, clean, result,
                   edits, touched, tampered, raced>>
    BY <1>4
       DEF PrepareManagerFails
  <2>t2. pc' \in Labels
    BY <1>4
       DEF PrepareManagerFails, Labels, Ended, Exit, Exits
  <2>t3. phases' \in [PhaseName -> PhaseStatus] /\ exit' \in Exits
    BY <1>4
       DEF PrepareManagerFails, Push, Verdict, PhaseName, PhaseStatus, Exit,
           Exits
  <2>t4. err' \in CommitError /\ manager' \in ManagerOutcome
    <3>1. PICK unknown \in BOOLEAN, mutated \in BOOLEAN :
              /\ err' = [reason |-> "REFUSED", unknown |-> unknown, at |-> 0]
              /\ manager' = [started |-> FALSE, failed |-> TRUE,
                             unknown |-> unknown, unrecovered |-> mutated]
      BY <1>4 DEF PrepareManagerFails
    <3>2. "REFUSED" \in Reason /\ 0 \in 0..N
      BY DEF Reason
    <3>3. QED
      BY <3>1, <3>2, ErrorTyping DEF ManagerOutcome
  <2>t5. QED
    BY <2>t1, <2>t2, <2>t3, <2>t4
<1>5. ASSUME StageTarget PROVE TypeOK'
  <2>t1. UNCHANGED <<active, file, run, extra, disk, mem, jid, lock, attempted,
                   err, recovery, manager, outcome, clean, result, edits,
                   touched, tampered, raced>>
    BY <1>5
       DEF StageTarget, StagingFails
  <2>t2. pc' \in Labels /\ idx' \in 0..(N + 1)
    BY <1>5
       DEF StageTarget, StagingFails, WellPlaced, OnTarget, Labels, Ended, Exit,
           Exits
  <2>t3. stage' \in [Files -> Artifact] /\ backup' \in [Files -> Artifact]
    BY <1>5
       DEF StageTarget, StagingFails, Artifact, WellPlaced, OnTarget, Labels,
           Ended
  <2>t4. exit' \in Exits /\ phases' \in [PhaseName -> PhaseStatus]
    BY <1>5
       DEF StageTarget, StagingFails, Exit, Exits, Push, Verdict, PhaseName,
           PhaseStatus
  <2>t5. QED
    BY <2>t1, <2>t2, <2>t3, <2>t4
<1>6. ASSUME CreateJournal PROVE TypeOK'
  <2>t1. UNCHANGED <<idx, active, file, stage, backup, extra, disk, jid, lock,
                   attempted, err, recovery, manager, outcome, clean, result,
                   edits, touched, tampered, raced>>
    BY <1>6
       DEF CreateJournal, StagingFails
  <2>t2. pc' \in Labels
    BY <1>6
       DEF CreateJournal, StagingFails, Labels, Ended, Exit, Exits
  <2>t3. run' \in BOOLEAN
    BY <1>6
       DEF CreateJournal, StagingFails
  <2>t4. mem' \in Journal
    <3>1. [state |-> "staged", target |-> [t \in Files |-> "staged"]] \in Journal
      BY DEF Journal, JournalState, TargetState
    <3>2. QED
      BY <1>6, <3>1 DEF CreateJournal
  <2>t5. exit' \in Exits /\ phases' \in [PhaseName -> PhaseStatus]
    BY <1>6
       DEF CreateJournal, StagingFails, Exit, Exits, Push, Verdict, PhaseName,
           PhaseStatus
  <2>t6. QED
    BY <2>t1, <2>t2, <2>t3, <2>t4, <2>t5
<1>7. ASSUME PersistStaged PROVE TypeOK'
  <2>t1. UNCHANGED <<idx, active, file, stage, backup, run, extra, lock,
                   attempted, err, recovery, manager, outcome, clean, result,
                   edits, touched, tampered, raced>>
    BY <1>7
       DEF PersistStaged, StagingFails
  <2>t2. pc' \in Labels
    BY <1>7
       DEF PersistStaged, StagingFails, Labels, Ended, Exit, Exits
  <2>t3. /\ disk' \in Journal /\ mem' \in Journal
         /\ jid' \in {"none", "match", "lost"}
    BY <1>7, PersistTyping
       DEF PersistStaged, StagingFails, Persisted, PersistFails, NotPersisted
  <2>t4. exit' \in Exits /\ phases' \in [PhaseName -> PhaseStatus]
    BY <1>7
       DEF PersistStaged, StagingFails, Exit, Exits, Push, Verdict, PhaseName,
           PhaseStatus
  <2>t5. QED
    BY <2>t1, <2>t2, <2>t3, <2>t4
<1>8. ASSUME Precommit PROVE TypeOK'
  <2>t1. UNCHANGED <<idx, active, file, stage, backup, run, extra, disk, mem,
                   jid, lock, attempted, recovery, manager, outcome, clean,
                   result, edits, touched, tampered, raced>>
    BY <1>8
       DEF Precommit
  <2>t2. pc' \in Labels
    BY <1>8
       DEF Precommit, Labels, Ended, Exit, Exits
  <2>t3. phases' \in [PhaseName -> PhaseStatus]
    BY <1>8
       DEF Precommit, Push, Verdict, PhaseName, PhaseStatus
  <2>t4. exit' \in Exits
    BY <1>8
       DEF Precommit, Exit, Exits
  <2>t5. err' \in CommitError
    <3>1. CASE err' = err
      BY <3>1
    <3>2. CASE err' # err
      <4>1. PICK reason \in {"LOCK_LOST", "SOURCE_CHANGED", "REFUSED"},
                 unknown \in BOOLEAN :
              err' = [reason |-> reason, unknown |-> unknown, at |-> 0]
        BY <1>8, <3>2 DEF Precommit
      <4>2. QED
        <5>1. reason \in Reason
          BY <4>1 DEF Reason, Conflict
        <5>2. 0 \in 0..N
          OBVIOUS
        <5>3. QED
          BY <4>1, <5>1, <5>2, ErrorTyping
    <3>3. QED
      BY <3>1, <3>2
  <2>t6. QED
    BY <2>t1, <2>t2, <2>t3, <2>t4, <2>t5
<1>9. ASSUME PersistCommitting PROVE TypeOK'
  <2>t1. UNCHANGED <<active, file, stage, backup, run, extra, lock, attempted,
                   recovery, manager, outcome, clean, result, edits, touched,
                   tampered, raced>>
    BY <1>9
       DEF PersistCommitting
  <2>t2. pc' \in Labels
    BY <1>9, ErrorTyping
       DEF PersistCommitting, CommitFails, Exit, Labels, Ended, Reason
  <2>t3. idx' \in 0..(N + 1)
    <3>1. idx' \in {1, idx}
      BY <1>9 DEF PersistCommitting
    <3>2. QED
      BY <3>1
  <2>t4. /\ disk' \in Journal /\ mem' \in Journal
         /\ jid' \in {"none", "match", "lost"}
    BY <1>9, StateTyping, PersistTyping
       DEF PersistCommitting, JournalState, PersistFails
  <2>t5. phases' \in [PhaseName -> PhaseStatus] /\ exit' \in Exits
    BY <1>9
       DEF PersistCommitting, CommitFails, Exit, Exits, Verdict, Push,
           PhaseName, PhaseStatus
  <2>t6. err' \in CommitError
    <3>1. \/ err' = err
          \/ err' = [reason |-> "COMMIT_FAILED", unknown |-> FALSE, at |-> 0]
      BY <1>9 DEF PersistCommitting, CommitFails
    <3>2. [reason |-> "COMMIT_FAILED", unknown |-> FALSE, at |-> 0]
            \in CommitError
      BY <1>9, ErrorTyping, SourceErrorTyping, IndexTyping
         DEF PersistCommitting, OnTarget, Reason
    <3>3. QED
      BY <3>1, <3>2
  <2>t7. QED
    BY <2>t1, <2>t2, <2>t3, <2>t4, <2>t5, <2>t6
<1>10. ASSUME CheckTarget PROVE TypeOK'
  <2>t1. UNCHANGED <<idx, active, file, stage, backup, run, extra, disk, mem,
                   jid, lock, attempted, recovery, manager, outcome, clean,
                   result, edits, touched, tampered, raced>>
    BY <1>10
       DEF CheckTarget
  <2>t2. pc' \in Labels
    BY <1>10, ErrorTyping
       DEF CheckTarget, CommitFails, Exit, WellPlaced, OnTarget, Labels, Ended,
           Reason
  <2>t3. phases' \in [PhaseName -> PhaseStatus] /\ exit' \in Exits
    BY <1>10
       DEF CheckTarget, CommitFails, Exit, Exits, Verdict, Push, PhaseName,
           PhaseStatus
  <2>t4. err' \in CommitError
    <3>1. \/ err' = err
          \/ err' = [reason |-> SourceError(idx),
                     unknown |-> lock # "held", at |-> idx]
      BY <1>10 DEF CheckTarget, CommitFails
    <3>2. [reason |-> SourceError(idx), unknown |-> lock # "held", at |-> idx]
            \in CommitError
      BY <1>10, ErrorTyping, SourceErrorTyping, IndexTyping
         DEF CheckTarget, OnTarget, Reason
    <3>3. QED
      BY <3>1, <3>2
  <2>t5. QED
    BY <2>t1, <2>t2, <2>t3, <2>t4
<1>11. ASSUME PersistReplacing PROVE TypeOK'
  <2>t1. UNCHANGED <<idx, active, file, stage, backup, run, extra, lock,
                   attempted, recovery, manager, outcome, clean, result, edits,
                   touched, tampered, raced>>
    BY <1>11
       DEF PersistReplacing
  <2>t2. pc' \in Labels
    BY <1>11, ErrorTyping
       DEF PersistReplacing, CommitFails, Exit, WellPlaced, OnTarget, Labels,
           Ended, Reason
  <2>t3. /\ disk' \in Journal /\ mem' \in Journal
         /\ jid' \in {"none", "match", "lost"}
    BY <1>11, MarkedTyping, PersistTyping
       DEF PersistReplacing, TargetState, PersistFails
  <2>t4. phases' \in [PhaseName -> PhaseStatus] /\ exit' \in Exits
    BY <1>11
       DEF PersistReplacing, CommitFails, Exit, Exits, Verdict, Push, PhaseName,
           PhaseStatus
  <2>t5. err' \in CommitError
    <3>1. \/ err' = err
          \/ err' = [reason |-> "COMMIT_FAILED", unknown |-> FALSE, at |-> idx]
      BY <1>11 DEF PersistReplacing, CommitFails
    <3>2. [reason |-> "COMMIT_FAILED", unknown |-> FALSE, at |-> idx]
            \in CommitError
      BY <1>11, ErrorTyping, SourceErrorTyping, IndexTyping
         DEF PersistReplacing, OnTarget, Reason
    <3>3. QED
      BY <3>1, <3>2
  <2>t6. QED
    BY <2>t1, <2>t2, <2>t3, <2>t4, <2>t5
<1>12. ASSUME FinalCheck PROVE TypeOK'
  <2>t1. UNCHANGED <<idx, active, file, stage, backup, run, extra, disk, mem,
                   jid, lock, attempted, recovery, manager, outcome, clean,
                   result, edits, touched, tampered>>
    BY <1>12
       DEF FinalCheck
  <2>t2. pc' \in Labels
    BY <1>12, ErrorTyping
       DEF FinalCheck, CommitFails, Exit, WellPlaced, OnTarget, Labels, Ended,
           Reason
  <2>t3. phases' \in [PhaseName -> PhaseStatus] /\ exit' \in Exits
    BY <1>12
       DEF FinalCheck, CommitFails, Exit, Exits, Verdict, Push, PhaseName,
           PhaseStatus
  <2>t4. err' \in CommitError
    <3>1. \/ err' = err
          \/ err' = [reason |-> FinalError(idx),
                     unknown |-> lock # "held", at |-> idx]
      BY <1>12 DEF FinalCheck, CommitFails
    <3>2. [reason |-> FinalError(idx), unknown |-> lock # "held", at |-> idx]
            \in CommitError
      BY <1>12, ErrorTyping, SourceErrorTyping, IndexTyping
         DEF FinalCheck, OnTarget, Reason
    <3>3. QED
      BY <3>1, <3>2
  <2>t5. raced' \subseteq Files
    BY <1>12
       DEF FinalCheck
  <2>t6. QED
    BY <2>t1, <2>t2, <2>t3, <2>t4, <2>t5
<1>13. ASSUME Replace PROVE TypeOK'
  <2>t1. UNCHANGED <<idx, active, backup, run, extra, disk, mem, jid, lock,
                   recovery, manager, outcome, clean, result, edits, touched,
                   tampered, raced>>
    BY <1>13
       DEF Replace
  <2>t2. pc' \in Labels
    BY <1>13, ErrorTyping
       DEF Replace, CommitFails, Exit, WellPlaced, OnTarget, Labels, Ended,
           Reason
  <2>t3. attempted' \subseteq Files
    BY <1>13
       DEF Replace, WellPlaced, OnTarget, Labels, Ended
  <2>t4. file' \in [Files -> FileState]
    BY <1>13
       DEF Replace, FileState, External
  <2>t5. stage' \in [Files -> Artifact]
    BY <1>13
       DEF Replace, Artifact
  <2>t6. phases' \in [PhaseName -> PhaseStatus] /\ exit' \in Exits
    BY <1>13
       DEF Replace, CommitFails, Exit, Exits, Verdict, Push, PhaseName,
           PhaseStatus
  <2>t7. err' \in CommitError
    <3>1. \/ err' = err
          \/ err' = [reason |-> "COMMIT_FAILED", unknown |-> FALSE, at |-> idx]
      BY <1>13 DEF Replace, CommitFails
    <3>2. [reason |-> "COMMIT_FAILED", unknown |-> FALSE, at |-> idx]
            \in CommitError
      BY <1>13, ErrorTyping, SourceErrorTyping, IndexTyping
         DEF Replace, OnTarget, Reason
    <3>3. QED
      BY <3>1, <3>2
  <2>t8. QED
    BY <2>t1, <2>t2, <2>t3, <2>t4, <2>t5, <2>t6, <2>t7
<1>14. ASSUME SettleReplace PROVE TypeOK'
  <2>t1. UNCHANGED <<active, file, stage, backup, run, extra, lock, attempted,
                   recovery, manager, outcome, clean, result, edits, touched,
                   tampered, raced>>
    BY <1>14
       DEF SettleReplace
  <2>t2. pc' \in Labels
    BY <1>14, ErrorTyping
       DEF SettleReplace, CommitFails, Exit, WellPlaced, OnTarget, Labels,
           Ended, Reason
  <2>t3. idx' \in 0..(N + 1)
    <3>1. idx' \in {idx, idx + 1}
      BY <1>14 DEF SettleReplace
    <3>2. QED
      BY <1>14, <3>1 DEF SettleReplace, WellPlaced, OnTarget
  <2>t4. /\ disk' \in Journal /\ mem' \in Journal
         /\ jid' \in {"none", "match", "lost"}
    BY <1>14, MarkedTyping, PersistTyping
       DEF SettleReplace, TargetState, PersistFails
  <2>t5. phases' \in [PhaseName -> PhaseStatus] /\ exit' \in Exits
    BY <1>14
       DEF SettleReplace, CommitFails, Exit, Exits, Verdict, Push, PhaseName,
           PhaseStatus
  <2>t6. err' \in CommitError
    <3>1. \/ err' = err
          \/ err' = [reason |-> "COMMIT_FAILED", unknown |-> FALSE, at |-> idx]
      BY <1>14 DEF SettleReplace, CommitFails
    <3>2. [reason |-> "COMMIT_FAILED", unknown |-> FALSE, at |-> idx]
            \in CommitError
      BY <1>14, ErrorTyping, SourceErrorTyping, IndexTyping
         DEF SettleReplace, OnTarget, Reason
    <3>3. QED
      BY <3>1, <3>2
  <2>t7. QED
    BY <2>t1, <2>t2, <2>t3, <2>t4, <2>t5, <2>t6
<1>15. ASSUME RunManager PROVE TypeOK'
  <2>t1. UNCHANGED <<idx, active, file, stage, backup, run, disk, mem, jid,
                   lock, attempted, exit, recovery, outcome, clean, result,
                   edits, touched, tampered, raced>>
    BY <1>15
       DEF RunManager
  <2>t2. pc' \in Labels
    BY <1>15
       DEF RunManager, Labels, Ended
  <2>t3. phases' \in [PhaseName -> PhaseStatus]
    BY <1>15
       DEF RunManager, Push, Verdict, PhaseName, PhaseStatus
  <2>t4. extra' \in BOOLEAN
    BY <1>15
       DEF RunManager
  <2>t5. err' \in CommitError /\ manager' \in ManagerOutcome
    <3>1. CASE err' = err /\ \E started \in BOOLEAN :
                 manager' = [manager EXCEPT !.started = started]
      BY <3>1 DEF ManagerOutcome
    <3>2. CASE \E started, unknown, unrecovered \in BOOLEAN :
              /\ manager' = [started |-> started, failed |-> TRUE,
                             unknown |-> unknown, unrecovered |-> unrecovered]
              /\ err' = [reason |-> "REFUSED", unknown |-> unknown, at |-> 0]
      <4>1. PICK started \in BOOLEAN, unknown \in BOOLEAN,
                 unrecovered \in BOOLEAN :
              /\ manager' = [started |-> started, failed |-> TRUE,
                             unknown |-> unknown, unrecovered |-> unrecovered]
              /\ err' = [reason |-> "REFUSED", unknown |-> unknown, at |-> 0]
        BY <3>2
      <4>2. QED
        <5>1. "REFUSED" \in Reason
          BY DEF Reason
        <5>2. 0 \in 0..N
          OBVIOUS
        <5>3. QED
          BY <4>1, <5>1, <5>2, ErrorTyping DEF ManagerOutcome
    <3>3. QED
      BY <1>15, <3>1, <3>2 DEF RunManager
  <2>t6. QED
    BY <2>t1, <2>t2, <2>t3, <2>t4, <2>t5
<1>16. ASSUME Observe PROVE TypeOK'
  <2>t1. UNCHANGED <<idx, active, file, stage, backup, run, extra, disk, mem,
                   jid, lock, attempted, recovery, manager, clean, result,
                   edits, touched, tampered, raced>>
    BY <1>16
       DEF Observe
  <2>t2. pc' \in Labels
    BY <1>16
       DEF Observe, CommitFails, Exit, Labels, Ended
  <2>t3. outcome' \in [Files -> Outcome]
    BY <1>16, OutcomeTyping
       DEF Observe
  <2>t4. phases' \in [PhaseName -> PhaseStatus] /\ exit' \in Exits
    BY <1>16
       DEF Observe, CommitFails, Exit, Exits, Verdict, Push, PhaseName,
           PhaseStatus
  <2>t5. err' \in CommitError
    <3>1. err' = err \/ err' = [reason |-> "COMMIT_FAILED", unknown |-> TRUE,
                                at |-> 0]
      BY <1>16 DEF Observe, CommitFails
    <3>2. [reason |-> "COMMIT_FAILED", unknown |-> TRUE, at |-> 0]
            \in CommitError
      <4>1. "COMMIT_FAILED" \in Reason /\ 0 \in 0..N
        BY DEF Reason
      <4>2. QED
        BY <4>1, ErrorTyping
    <3>3. QED
      BY <3>1, <3>2
  <2>t6. QED
    BY <2>t1, <2>t2, <2>t3, <2>t4, <2>t5
<1>17. ASSUME Recovering PROVE TypeOK'
  <2>t1. UNCHANGED <<active, file, stage, backup, run, extra, lock, attempted,
                   err, exit, manager, outcome, phases, clean, result, edits,
                   touched, tampered, raced>>
    BY <1>17
       DEF Recovering
  <2>t2. pc' \in Labels /\ idx' \in 0..(N + 1)
    BY <1>17
       DEF Recovering, Labels, Ended
  <2>t3. /\ disk' \in Journal /\ mem' \in Journal
         /\ jid' \in {"none", "match", "lost"}
    BY <1>17
       DEF Recovering, Journal, JournalState, TargetState, PersistIfPossible,
           Persisted, PersistFails, NotPersisted
  <2>t4. recovery' \in Recovery
    BY <1>17
       DEF Recovering, Recovery
  <2>t5. QED
    BY <2>t1, <2>t2, <2>t3, <2>t4
<1>18. ASSUME NoteFailure PROVE TypeOK'
  <2>t1. UNCHANGED <<active, file, stage, backup, run, extra, lock, attempted,
                   err, exit, recovery, manager, outcome, phases, clean, result,
                   edits, touched, tampered, raced>>
    BY <1>18
       DEF NoteFailure
  <2>t2. pc' \in Labels /\ idx' \in 0..(N + 1)
    BY <1>18
       DEF NoteFailure, WellPlaced, OnTarget, Labels, Ended
  <2>t3. /\ disk' \in Journal /\ mem' \in Journal
         /\ jid' \in {"none", "match", "lost"}
    BY <1>18
       DEF NoteFailure, PersistIfPossible, Persisted, PersistFails, NotPersisted
  <2>t4. QED
    BY <2>t1, <2>t2, <2>t3
<1>19. ASSUME RecoverTarget PROVE TypeOK'
  <2>t1. UNCHANGED <<active, file, stage, backup, run, extra, disk, jid, lock,
                   attempted, err, exit, manager, outcome, phases, clean,
                   result, edits, touched, tampered>>
    BY <1>19
       DEF RecoverTarget, RecoverFails
  <2>t2. pc' \in Labels /\ idx' \in 0..(N + 1)
    BY <1>19
       DEF RecoverTarget, RecoverFails, WellPlaced, OnTarget, Labels, Ended
  <2>t3. mem' \in Journal
    BY <1>19, MarkedTyping
       DEF RecoverTarget, RecoverFails, TargetState
  <2>t4. recovery' \in Recovery
    BY <1>19
       DEF RecoverTarget, RecoverFails, Recovery
  <2>t5. raced' \subseteq Files
    BY <1>19
       DEF RecoverTarget, RecoverFails
  <2>t6. QED
    BY <2>t1, <2>t2, <2>t3, <2>t4, <2>t5
<1>20. ASSUME Restore PROVE TypeOK'
  <2>t1. UNCHANGED <<idx, active, stage, run, extra, disk, jid, lock, attempted,
                   err, exit, manager, outcome, phases, clean, result, edits,
                   touched, tampered, raced>>
    BY <1>20
       DEF Restore, RecoverFails
  <2>t2. pc' \in Labels
    BY <1>20
       DEF Restore, RecoverFails, WellPlaced, OnTarget, Labels, Ended
  <2>t3. file' \in [Files -> FileState]
    BY <1>20
       DEF Restore, RecoverFails, FileState, External
  <2>t4. backup' \in [Files -> Artifact]
    BY <1>20
       DEF Restore, RecoverFails, Artifact
  <2>t5. mem' \in Journal
    BY <1>20, MarkedTyping
       DEF Restore, RecoverFails, TargetState
  <2>t6. recovery' \in Recovery
    BY <1>20
       DEF Restore, RecoverFails, Recovery
  <2>t7. QED
    BY <2>t1, <2>t2, <2>t3, <2>t4, <2>t5, <2>t6
<1>21. ASSUME SettleRestore PROVE TypeOK'
  <2>t1. UNCHANGED <<active, file, stage, backup, run, extra, lock, attempted,
                   err, exit, manager, outcome, phases, clean, result, edits,
                   touched, tampered, raced>>
    BY <1>21
       DEF SettleRestore, RecoverFails
  <2>t2. pc' \in Labels /\ idx' \in 0..(N + 1)
    BY <1>21
       DEF SettleRestore, RecoverFails, WellPlaced, OnTarget, Labels, Ended
  <2>t3. /\ disk' \in Journal /\ mem' \in Journal
         /\ jid' \in {"none", "match", "lost"}
    BY <1>21, MarkedTyping
       DEF SettleRestore, RecoverFails, TargetState, Persisted, NotPersisted
  <2>t4. recovery' \in Recovery
    BY <1>21
       DEF SettleRestore, RecoverFails, Recovery
  <2>t5. QED
    BY <2>t1, <2>t2, <2>t3, <2>t4
<1>22. ASSUME FinishRecovery PROVE TypeOK'
  <2>t1. UNCHANGED <<idx, active, file, stage, backup, run, extra, lock,
                   attempted, err, exit, manager, outcome, clean, result, edits,
                   touched, tampered, raced>>
    BY <1>22
       DEF FinishRecovery
  <2>t2. pc' \in Labels
    BY <1>22
       DEF FinishRecovery, Labels, Ended
  <2>t3. /\ disk' \in Journal /\ mem' \in Journal
         /\ jid' \in {"none", "match", "lost"}
    BY <1>22, StateTyping
       DEF FinishRecovery, JournalState, Persisted, PersistFails, NotPersisted
  <2>t4. recovery' \in Recovery
    BY <1>22
       DEF FinishRecovery, Recovery, Persisted
  <2>t5. phases' \in [PhaseName -> PhaseStatus]
    <3>1. recovery' \in {"completed", "partial", "unknown"}
      BY <1>22 DEF FinishRecovery, Persisted, PersistFails, WellPlaced,
        Restoring,
         Recovery
    <3>2. QED
      BY <1>22, <3>1 DEF FinishRecovery, Push, PhaseName, PhaseStatus
  <2>t6. QED
    BY <2>t1, <2>t2, <2>t3, <2>t4, <2>t5
<1>23. ASSUME Inspect PROVE TypeOK'
  <2>1. [f \in Files |-> InspectedOutcome(f)] \in [Files -> Outcome]
    BY OutcomeTyping
  <2>2. ASSUME NEW s \in PhaseStatus
        PROVE  [Push("inspect", s) EXCEPT !["cleanup"] = "unknown"]
                 \in [PhaseName -> PhaseStatus]
    BY DEF Push, PhaseName, PhaseStatus
  <2>3. result' \in Result \cup {NoResult}
    <3> DEFINE ops == [f \in Files |-> InspectedOutcome(f)]
               unknown == \E f \in Files : ops[f].status = "unknown"
               kept == IF recovery # "completed" THEN recovery
                       ELSE IF unknown THEN "unknown" ELSE "partial"
               ph == Push("inspect", IF unknown THEN "unknown" ELSE "passed")
    <3>1. CASE result' = result
      BY <3>1
    <3>2. CASE Answer(WithManager(kept), ops,
                      [ph EXCEPT !["cleanup"] = "unknown"])
      <4>1. WithManager(kept) \in Recovery
        BY DEF WithManager, Recovery
      <4>2. [ph EXCEPT !["cleanup"] = "unknown"] \in [PhaseName -> PhaseStatus]
        BY <2>2 DEF PhaseStatus
      <4>3. QED
        BY <2>1, <3>2, <4>1, <4>2, AnswerTyping
    <3>3. QED
      BY <1>23, <3>1, <3>2 DEF Inspect
  <2>t1. UNCHANGED <<idx, active, file, stage, backup, run, extra, lock,
                   attempted, err, recovery, manager, clean, edits, touched,
                   tampered, raced>>
    BY <1>23
       DEF Inspect
  <2>t2. pc' \in Labels
    BY <1>23
       DEF Inspect, Labels, Ended, Exit, Exits, Answer
  <2>t3. /\ disk' \in Journal /\ mem' \in Journal
         /\ jid' \in {"none", "match", "lost"}
    BY <1>23
       DEF Inspect, Journal, JournalState, TargetState, PersistIfPossible,
           Persisted, PersistFails, NotPersisted
  <2>t4. exit' \in Exits
    BY <1>23
       DEF Inspect, Exit, Exits
  <2>t5. outcome' \in [Files -> Outcome]
    BY <1>23, OutcomeTyping
       DEF Inspect
  <2>t6. phases' \in [PhaseName -> PhaseStatus]
    BY <1>23
       DEF Inspect, Push, Verdict, PhaseName, PhaseStatus
  <2>t7. result' \in Result \cup {NoResult}
    BY <1>23, <2>3
       DEF Inspect, Answer
  <2>t8. QED
    BY <2>t1, <2>t2, <2>t3, <2>t4, <2>t5, <2>t6, <2>t7
<1>24. ASSUME FinCheck PROVE TypeOK'
  <2>t1. UNCHANGED <<active, file, stage, backup, run, extra, disk, mem, jid,
                   lock, attempted, err, exit, recovery, manager, outcome,
                   phases, result, edits, touched, tampered, raced>>
    BY <1>24
       DEF FinCheck
  <2>t2. pc' \in Labels /\ idx' \in 0..(N + 1)
    BY <1>24
       DEF FinCheck, Labels, Ended
  <2>t3. clean' \in BOOLEAN
    BY <1>24
       DEF FinCheck
  <2>t4. QED
    BY <2>t1, <2>t2, <2>t3
<1>25. ASSUME FinTemp PROVE TypeOK'
  <2>t1. UNCHANGED <<active, file, run, extra, disk, mem, jid, lock, attempted,
                   err, exit, recovery, manager, outcome, phases, result, edits,
                   touched, tampered, raced>>
    BY <1>25
       DEF FinTemp
  <2>t2. pc' \in Labels /\ idx' \in 0..(N + 1)
    BY <1>25
       DEF FinTemp, Labels, Ended
  <2>t3. stage' \in [Files -> Artifact] /\ backup' \in [Files -> Artifact]
    BY <1>25
       DEF FinTemp, Removed, Artifact
  <2>t4. clean' \in BOOLEAN
    BY <1>25
       DEF FinTemp
  <2>t5. QED
    BY <2>t1, <2>t2, <2>t3, <2>t4
<1>26. ASSUME FinJournal PROVE TypeOK'
  <2>t1. UNCHANGED <<idx, active, file, stage, backup, extra, mem, jid, lock,
                   attempted, err, exit, recovery, manager, outcome, phases,
                   clean, result, edits, touched, tampered, raced>>
    BY <1>26
       DEF FinJournal
  <2>t2. pc' \in Labels
    BY <1>26
       DEF FinJournal, Labels, Ended
  <2>t3. run' \in BOOLEAN
    BY <1>26
       DEF FinJournal
  <2>t4. disk' \in Journal
    <3>1. Empty \in Journal
      BY DEF Empty, Journal, TargetState
    <3>2. disk' \in {disk, Empty}
      BY <1>26 DEF FinJournal
    <3>3. QED
      BY <3>1, <3>2
  <2>t5. QED
    BY <2>t1, <2>t2, <2>t3, <2>t4
<1>27. ASSUME FinRelease PROVE TypeOK'
  BY <1>27
     DEF FinRelease, Labels, Ended
<1>28. ASSUME AnswerCleaned PROVE TypeOK'
  <2>1. ASSUME NEW cleaned \in BOOLEAN
        PROVE  CleanedOutcomes(cleaned) \in [Files -> Outcome]
    BY <1>28, CleanedTyping DEF AnswerCleaned, WellPlaced, Cleaning, Ended
  <2>2. ASSUME NEW s \in PhaseStatus
        PROVE  Push("cleanup", s) \in [PhaseName -> PhaseStatus]
    BY DEF Push, PhaseName, PhaseStatus
  <2>3. WithManager(recovery) \in Recovery
    BY DEF WithManager, Recovery
  <2>4. pc' = "done" /\ result' \in Result
    BY <1>28, <2>1, <2>2, <2>3, AnswerTyping
       DEF AnswerCleaned, Recovery, PhaseStatus
  <2>t1. UNCHANGED <<idx, active, file, stage, backup, run, extra, disk, mem,
                   jid, lock, attempted, err, exit, recovery, manager, outcome,
                   phases, clean, edits, touched, tampered, raced>>
    BY <1>28
       DEF AnswerCleaned, Answer
  <2>t2. pc' \in Labels /\ result' \in Result \cup {NoResult}
    BY <1>28, <2>4
       DEF AnswerCleaned, Answer, Labels, Ended
  <2>t3. QED
    BY <2>t1, <2>t2
<1>29. ASSUME Crash PROVE TypeOK'
  BY <1>29
     DEF Crash, Labels, Ended
<1>30. ASSUME NEW f \in Files, Edit(f) PROVE TypeOK'
  BY <1>30
     DEF Edit, Others, External, FileState
<1>31. ASSUME NEW t \in Files, Tamper(t) PROVE TypeOK'
  <2>t1. UNCHANGED <<pc, idx, active, file, run, extra, disk, mem, jid, lock,
                   attempted, err, exit, recovery, manager, outcome, phases,
                   clean, result, touched, raced>>
    BY <1>31
       DEF Tamper, Others
  <2>t2. stage' \in [Files -> Artifact]
    BY <1>31
       DEF Tamper, Others, Artifact
  <2>t3. backup' \in [Files -> Artifact]
    BY <1>31
       DEF Tamper, Others, Artifact
  <2>t4. tampered' \subseteq Files
    BY <1>31
       DEF Tamper, Others
  <2>t5. edits' \in 0..MaxEdits
    BY <1>31
       DEF Tamper, Others
  <2>t6. QED
    BY <2>t1, <2>t2, <2>t3, <2>t4, <2>t5
<1>32. ASSUME MoveLock PROVE TypeOK'
  BY <1>32
     DEF MoveLock, Others
<1>33. ASSUME UNCHANGED vars PROVE TypeOK'
  BY <1>33
     DEF vars
<1>34. QED
  BY <1>1, <1>2, <1>3, <1>4, <1>5, <1>6, <1>7, <1>8, <1>9, <1>10, <1>11, <1>12,
     <1>13, <1>14, <1>15, <1>16, <1>17, <1>18, <1>19, <1>20, <1>21, <1>22,
     <1>23, <1>24, <1>25, <1>26, <1>27, <1>28, <1>29, <1>30, <1>31, <1>32, <1>33
     DEF Next, Apply, Begin, Prepare, Commit, Recover, CleanUp

\* The run works on a target it has, and turns to cleanup once.
LEMMA PlacingStep ==
  ASSUME TypeOK, WellPlaced
  PROVE  [Next]_vars => WellPlaced'
<1> USE DEF fsVars, jnVars, ansVars, envVars, WellPlaced, OnTarget, Ended,
            Cleaning, Unlocked, Restoring
<1>1. ASSUME AnswerUnchanged PROVE WellPlaced'
  BY <1>1
     DEF AnswerUnchanged, Answer
<1>2. ASSUME Refuse PROVE WellPlaced'
  BY <1>2
     DEF Refuse, Answer
<1>3. ASSUME TakeLock PROVE WellPlaced'
  BY <1>3
     DEF TakeLock, TypeOK
<1>4. ASSUME PrepareManagerFails PROVE WellPlaced'
  BY <1>4
     DEF PrepareManagerFails, Exit
<1>5. ASSUME StageTarget PROVE WellPlaced'
  BY <1>5
     DEF StageTarget, StagingFails, Exit, TypeOK
<1>6. ASSUME CreateJournal PROVE WellPlaced'
  BY <1>6
     DEF CreateJournal, StagingFails, Exit, TypeOK
<1>7. ASSUME PersistStaged PROVE WellPlaced'
  BY <1>7
     DEF PersistStaged, StagingFails, Exit, TypeOK
<1>8. ASSUME Precommit PROVE WellPlaced'
  BY <1>8
     DEF Precommit, Exit
<1>9. ASSUME PersistCommitting PROVE WellPlaced'
  <2>1. /\ pc = "persist-committing"
        /\ \/ pc' = "check" /\ idx' = 1 /\ exit' = exit
           \/ pc' = "fin-check" /\ exit' = "zero"
           \/ pc' = "recovering" /\ exit' = exit
        /\ UNCHANGED <<active, result, recovery>>
    BY <1>9 DEF PersistCommitting, CommitFails, Exit
  <2>2. QED
    BY <2>1 DEF TypeOK
<1>10. ASSUME CheckTarget PROVE WellPlaced'
  BY <1>10
     DEF CheckTarget, CommitFails, Exit, TypeOK
<1>11. ASSUME PersistReplacing PROVE WellPlaced'
  BY <1>11
     DEF PersistReplacing, CommitFails, Exit, TypeOK
<1>12. ASSUME FinalCheck PROVE WellPlaced'
  BY <1>12
     DEF FinalCheck, CommitFails, Exit, TypeOK
<1>13. ASSUME Replace PROVE WellPlaced'
  BY <1>13
     DEF Replace, CommitFails, Exit, TypeOK
<1>14. ASSUME SettleReplace PROVE WellPlaced'
  <2>1. /\ pc = "settle-replace"
        /\ \/ pc' = "check" /\ idx' = idx + 1 /\ exit' = exit
           \/ pc' = "fin-check" /\ exit' = "zero"
           \/ pc' = "recovering" /\ exit' = exit
        /\ UNCHANGED <<active, result, recovery>>
    BY <1>14 DEF SettleReplace, CommitFails, Exit
  <2>2. QED
    BY <2>1 DEF TypeOK
<1>15. ASSUME RunManager PROVE WellPlaced'
  BY <1>15
     DEF RunManager, TypeOK
<1>16. ASSUME Observe PROVE WellPlaced'
  BY <1>16
     DEF Observe, CommitFails, Exit, TypeOK
<1>17. ASSUME Recovering PROVE WellPlaced'
  BY <1>17
     DEF Recovering, TypeOK
<1>18. ASSUME NoteFailure PROVE WellPlaced'
  BY <1>18
     DEF NoteFailure, TypeOK
<1>19. ASSUME RecoverTarget PROVE WellPlaced'
  BY <1>19
     DEF RecoverTarget, RecoverFails, TypeOK
<1>20. ASSUME Restore PROVE WellPlaced'
  BY <1>20
     DEF Restore, RecoverFails, TypeOK
<1>21. ASSUME SettleRestore PROVE WellPlaced'
  BY <1>21
     DEF SettleRestore, RecoverFails, TypeOK
<1>22. ASSUME FinishRecovery PROVE WellPlaced'
  BY <1>22
     DEF FinishRecovery, TypeOK
<1>23. ASSUME Inspect PROVE WellPlaced'
  <2>1. /\ pc = "inspect"
        /\ \/ pc' = "fin-check" /\ exit' = "reverted" /\ result' = result
           \/ pc' = "done"
        /\ UNCHANGED <<active, recovery>>
    BY <1>23 DEF Inspect, Answer, Exit
  <2>2. QED
    BY <2>1
<1>24. ASSUME FinCheck PROVE WellPlaced'
  BY <1>24
     DEF FinCheck
<1>25. ASSUME FinTemp PROVE WellPlaced'
  BY <1>25
     DEF FinTemp, TypeOK
<1>26. ASSUME FinJournal PROVE WellPlaced'
  BY <1>26
     DEF FinJournal
<1>27. ASSUME FinRelease PROVE WellPlaced'
  BY <1>27
     DEF FinRelease
<1>28. ASSUME AnswerCleaned PROVE WellPlaced'
  BY <1>28
     DEF AnswerCleaned, Answer
<1>29. ASSUME Crash PROVE WellPlaced'
  BY <1>29
     DEF Crash
<1>30. ASSUME NEW f \in Files, Edit(f) PROVE WellPlaced'
  BY <1>30
     DEF Edit, Others
<1>31. ASSUME NEW t \in Files, Tamper(t) PROVE WellPlaced'
  BY <1>31
     DEF Tamper, Others
<1>32. ASSUME MoveLock PROVE WellPlaced'
  BY <1>32
     DEF MoveLock, Others
<1>33. ASSUME UNCHANGED vars PROVE WellPlaced'
  BY <1>33
     DEF vars
<1>34. QED
  BY <1>1, <1>2, <1>3, <1>4, <1>5, <1>6, <1>7, <1>8, <1>9, <1>10, <1>11, <1>12,
     <1>13, <1>14, <1>15, <1>16, <1>17, <1>18, <1>19, <1>20, <1>21, <1>22,
     <1>23, <1>24, <1>25, <1>26, <1>27, <1>28, <1>29, <1>30, <1>31, <1>32, <1>33
     DEF Next, Apply, Begin, Prepare, Commit, Recover, CleanUp

\* The journal, the run directory and the lock are there before any replacement
\* and until cleanup.
LEMMA JournalFirstStep ==
  ASSUME TypeOK, WellPlaced, JournalFirst
  PROVE  [Next]_vars => JournalFirst'
<1> USE DEF fsVars, jnVars, ansVars, envVars, JournalFirst, Unlocked, Unstaged,
            Unrecorded, Early, Cleaning, Ended
<1>1. ASSUME AnswerUnchanged PROVE JournalFirst'
  BY <1>1
     DEF AnswerUnchanged, Answer
<1>2. ASSUME Refuse PROVE JournalFirst'
  BY <1>2
     DEF Refuse, Answer
<1>3. ASSUME TakeLock PROVE JournalFirst'
  BY <1>3
     DEF TakeLock
<1>4. ASSUME PrepareManagerFails PROVE JournalFirst'
  BY <1>4
     DEF PrepareManagerFails, Exit
<1>5. ASSUME StageTarget PROVE JournalFirst'
  BY <1>5
     DEF StageTarget, StagingFails, Exit
<1>6. ASSUME CreateJournal PROVE JournalFirst'
  BY <1>6
     DEF CreateJournal, StagingFails, Exit
<1>7. ASSUME PersistStaged PROVE JournalFirst'
  BY <1>7
     DEF PersistStaged, StagingFails, Exit, TypeOK, Persisted, PersistFails,
         NotPersisted
<1>8. ASSUME Precommit PROVE JournalFirst'
  BY <1>8
     DEF Precommit, Exit
<1>9. ASSUME PersistCommitting PROVE JournalFirst'
  BY <1>9, StateTyping
     DEF PersistCommitting, CommitFails, Exit, TypeOK, Persisted, PersistFails,
         NotPersisted, JournalState
<1>10. ASSUME CheckTarget PROVE JournalFirst'
  BY <1>10
     DEF CheckTarget, CommitFails, Exit
<1>11. ASSUME PersistReplacing PROVE JournalFirst'
  <2>1. pc = "persist-replacing" /\ idx \in Files /\ mem \in Journal
        /\ "replacing" \in TargetState
    BY <1>11, IndexTyping DEF PersistReplacing, TypeOK, OnTarget, TargetState
  <2>2. /\ mem' = Marked(idx, "replacing")
        /\ disk' \in {disk, mem'}
        /\ \/ pc' = "final-check" /\ disk' = mem' /\ exit' = exit
           \/ pc' = "fin-check" /\ exit' = "zero" /\ attempted = {}
           \/ pc' = "recovering" /\ exit' = exit
        /\ UNCHANGED <<idx, run, lock, attempted, file>>
    BY <1>11 DEF PersistReplacing, CommitFails, Exit, Persisted, PersistFails,
       NotPersisted
  <2>3. QED
    BY <2>1, <2>2, MarkedTyping
<1>12. ASSUME FinalCheck PROVE JournalFirst'
  BY <1>12
     DEF FinalCheck, CommitFails, Exit
<1>13. ASSUME Replace PROVE JournalFirst'
  BY <1>13
     DEF Replace, CommitFails, Exit
<1>14. ASSUME SettleReplace PROVE JournalFirst'
  <2>1. pc = "settle-replace" /\ idx \in Files /\ mem \in Journal
        /\ "replaced" \in TargetState
    BY <1>14, IndexTyping DEF SettleReplace, TypeOK, OnTarget, TargetState
  <2>2. /\ mem' \in {mem, Marked(idx, "replaced")}
        /\ disk' \in {disk, mem'}
        /\ \/ pc' = "check" /\ exit' = exit
           \/ pc' = "fin-check" /\ exit' = "zero" /\ attempted = {}
           \/ pc' = "recovering" /\ exit' = exit
        /\ UNCHANGED <<run, lock, attempted, file>>
    BY <1>14 DEF SettleReplace, CommitFails, Exit, Persisted, PersistFails,
       NotPersisted
  <2>3. QED
    BY <2>1, <2>2, MarkedTyping
<1>15. ASSUME RunManager PROVE JournalFirst'
  BY <1>15
     DEF RunManager
<1>16. ASSUME Observe PROVE JournalFirst'
  BY <1>16
     DEF Observe, CommitFails, Exit
<1>17. ASSUME Recovering PROVE JournalFirst'
  BY <1>17, StateTyping
     DEF Recovering, TypeOK, Persisted, PersistFails, NotPersisted,
         PersistIfPossible, JournalState
<1>18. ASSUME NoteFailure PROVE JournalFirst'
  BY <1>18
     DEF NoteFailure, TypeOK, Persisted, PersistFails, NotPersisted,
         PersistIfPossible
<1>19. ASSUME RecoverTarget PROVE JournalFirst'
  BY <1>19, MarkedTyping
     DEF RecoverTarget, RecoverFails, TypeOK, TargetState
<1>20. ASSUME Restore PROVE JournalFirst'
  BY <1>20, MarkedTyping
     DEF Restore, RecoverFails, TypeOK, TargetState
<1>21. ASSUME SettleRestore PROVE JournalFirst'
  BY <1>21, MarkedTyping
     DEF SettleRestore, RecoverFails, TypeOK, Persisted, PersistFails,
         NotPersisted, TargetState
<1>22. ASSUME FinishRecovery PROVE JournalFirst'
  BY <1>22, StateTyping
     DEF FinishRecovery, TypeOK, Persisted, PersistFails, NotPersisted,
         JournalState
<1>23. ASSUME Inspect PROVE JournalFirst'
  <2>1. pc = "inspect" /\ pc' \in {"fin-check", "done"}
    BY <1>23 DEF Inspect, Answer, Exit
  <2>2. QED
    BY <2>1
<1>24. ASSUME FinCheck PROVE JournalFirst'
  BY <1>24
     DEF FinCheck
<1>25. ASSUME FinTemp PROVE JournalFirst'
  BY <1>25
     DEF FinTemp
<1>26. ASSUME FinJournal PROVE JournalFirst'
  BY <1>26
     DEF FinJournal
<1>27. ASSUME FinRelease PROVE JournalFirst'
  BY <1>27
     DEF FinRelease
<1>28. ASSUME AnswerCleaned PROVE JournalFirst'
  BY <1>28
     DEF AnswerCleaned, Answer
<1>29. ASSUME Crash PROVE JournalFirst'
  BY <1>29
     DEF Crash
<1>30. ASSUME NEW f \in Files, Edit(f) PROVE JournalFirst'
  BY <1>30
     DEF Edit, Others
<1>31. ASSUME NEW t \in Files, Tamper(t) PROVE JournalFirst'
  BY <1>31
     DEF Tamper, Others
<1>32. ASSUME MoveLock PROVE JournalFirst'
  BY <1>32
     DEF MoveLock, Others
<1>33. ASSUME UNCHANGED vars PROVE JournalFirst'
  BY <1>33
     DEF vars
<1>34. QED
  BY <1>1, <1>2, <1>3, <1>4, <1>5, <1>6, <1>7, <1>8, <1>9, <1>10, <1>11, <1>12,
     <1>13, <1>14, <1>15, <1>16, <1>17, <1>18, <1>19, <1>20, <1>21, <1>22,
     <1>23, <1>24, <1>25, <1>26, <1>27, <1>28, <1>29, <1>30, <1>31, <1>32, <1>33
     DEF Next, Apply, Begin, Prepare, Commit, Recover, CleanUp

\* A new file was attempted and is covered by the journal in memory.
LEMMA CoveredStep ==
  ASSUME TypeOK, WellPlaced, JournalFirst, NewIsCovered
  PROVE  [Next]_vars => NewIsCovered'
<1> USE DEF fsVars, jnVars, ansVars, envVars, NewIsCovered, NoneNew, Files
<1>1. ASSUME AnswerUnchanged PROVE NewIsCovered'
  BY <1>1
     DEF AnswerUnchanged, Answer
<1>2. ASSUME Refuse PROVE NewIsCovered'
  BY <1>2
     DEF Refuse, Answer
<1>3. ASSUME TakeLock PROVE NewIsCovered'
  BY <1>3
     DEF TakeLock
<1>4. ASSUME PrepareManagerFails PROVE NewIsCovered'
  BY <1>4
     DEF PrepareManagerFails, Exit, JournalFirst, Unlocked, Unstaged,
         Unrecorded, Early, Cleaning, Ended
<1>5. ASSUME StageTarget PROVE NewIsCovered'
  BY <1>5
     DEF StageTarget, StagingFails, Exit, JournalFirst, Unlocked, Unstaged,
         Unrecorded, Early, Cleaning, Ended
<1>6. ASSUME CreateJournal PROVE NewIsCovered'
  BY <1>6
     DEF CreateJournal, StagingFails, Exit, JournalFirst, Unlocked, Unstaged,
         Unrecorded, Early, Cleaning, Ended
<1>7. ASSUME PersistStaged PROVE NewIsCovered'
  BY <1>7
     DEF PersistStaged, StagingFails, Exit, TypeOK, Persisted, PersistFails,
         NotPersisted, JournalFirst, Unlocked, Unstaged, Unrecorded, Early,
         Cleaning, Ended
<1>8. ASSUME Precommit PROVE NewIsCovered'
  BY <1>8
     DEF Precommit, Exit, JournalFirst, Unlocked, Unstaged, Unrecorded, Early,
         Cleaning, Ended
<1>9. ASSUME PersistCommitting PROVE NewIsCovered'
  BY <1>9, StateTyping
     DEF PersistCommitting, CommitFails, Exit, TypeOK, Persisted, PersistFails,
         NotPersisted, JournalState, JournalFirst, Unlocked, Unstaged,
         Unrecorded, Early, Cleaning, Ended
<1>10. ASSUME CheckTarget PROVE NewIsCovered'
  BY <1>10
     DEF CheckTarget, CommitFails, Exit, TypeOK, WellPlaced, OnTarget, Cleaning,
         Ended
<1>11. ASSUME PersistReplacing PROVE NewIsCovered'
  <2>1. pc = "persist-replacing" /\ idx \in Files /\ mem \in Journal
        /\ "replacing" \in TargetState
    BY <1>11, IndexTyping DEF PersistReplacing, TypeOK, OnTarget, TargetState
  <2>2. /\ mem' = Marked(idx, "replacing")
        /\ disk' \in {disk, mem'}
        /\ \/ pc' = "final-check" /\ disk' = mem' /\ exit' = exit
           \/ pc' = "fin-check" /\ exit' = "zero" /\ attempted = {}
           \/ pc' = "recovering" /\ exit' = exit
        /\ UNCHANGED <<idx, run, lock, attempted, file>>
    BY <1>11 DEF PersistReplacing, CommitFails, Exit, Persisted, PersistFails,
       NotPersisted
  <2>3. QED
    BY <2>1, <2>2, MarkedTyping DEF WellPlaced, Cleaning, Ended
<1>12. ASSUME FinalCheck PROVE NewIsCovered'
  BY <1>12
     DEF FinalCheck, CommitFails, Exit, TypeOK, WellPlaced, OnTarget, Cleaning,
         Ended
<1>13. ASSUME Replace PROVE NewIsCovered'
  BY <1>13
     DEF Replace, CommitFails, Exit, TypeOK, WellPlaced, OnTarget, Cleaning,
         Ended, JournalFirst, Unlocked, Unstaged, Unrecorded, Early
<1>14. ASSUME SettleReplace PROVE NewIsCovered'
  <2>1. pc = "settle-replace" /\ idx \in Files /\ mem \in Journal
        /\ "replaced" \in TargetState
    BY <1>14, IndexTyping DEF SettleReplace, TypeOK, OnTarget, TargetState
  <2>2. /\ mem' \in {mem, Marked(idx, "replaced")}
        /\ disk' \in {disk, mem'}
        /\ \/ pc' = "check" /\ exit' = exit
           \/ pc' = "fin-check" /\ exit' = "zero" /\ attempted = {}
           \/ pc' = "recovering" /\ exit' = exit
        /\ UNCHANGED <<run, lock, attempted, file>>
    BY <1>14 DEF SettleReplace, CommitFails, Exit, Persisted, PersistFails,
       NotPersisted
  <2>3. QED
    BY <2>1, <2>2, MarkedTyping
<1>15. ASSUME RunManager PROVE NewIsCovered'
  BY <1>15
     DEF RunManager
<1>16. ASSUME Observe PROVE NewIsCovered'
  BY <1>16
     DEF Observe, CommitFails, Exit
<1>17. ASSUME Recovering PROVE NewIsCovered'
  BY <1>17, StateTyping
     DEF Recovering, TypeOK, Persisted, PersistFails, NotPersisted,
         PersistIfPossible, JournalState
<1>18. ASSUME NoteFailure PROVE NewIsCovered'
  BY <1>18
     DEF NoteFailure, TypeOK, Persisted, PersistFails, NotPersisted,
         PersistIfPossible
<1>19. ASSUME RecoverTarget PROVE NewIsCovered'
  BY <1>19, MarkedTyping
     DEF RecoverTarget, RecoverFails, TypeOK, TargetState, WellPlaced, OnTarget,
         Cleaning, Ended
<1>20. ASSUME Restore PROVE NewIsCovered'
  BY <1>20, MarkedTyping
     DEF Restore, RecoverFails, TypeOK, TargetState, WellPlaced, OnTarget,
         Cleaning, Ended
<1>21. ASSUME SettleRestore PROVE NewIsCovered'
  <2>1. pc = "settle-restore" /\ idx \in Files /\ mem \in Journal
        /\ {"restored", "recovery-failed"} \subseteq TargetState
    BY <1>21, IndexTyping DEF SettleRestore, TypeOK, OnTarget, TargetState
  <2>2. /\ \/ mem' = Marked(idx, "restored") /\ file[idx] = "restored"
           \/ mem' = Marked(idx, "recovery-failed")
        /\ UNCHANGED <<attempted, file, exit>>
    BY <1>21 DEF SettleRestore, RecoverFails, Persisted
  <2>3. QED
    BY <2>1, <2>2, MarkedTyping
<1>22. ASSUME FinishRecovery PROVE NewIsCovered'
  BY <1>22, StateTyping
     DEF FinishRecovery, TypeOK, Persisted, PersistFails, NotPersisted,
         JournalState
<1>23. ASSUME Inspect PROVE NewIsCovered'
  <2>1. mem'.target = mem.target
    BY <1>23, StateTyping
       DEF Inspect, TypeOK, JournalState, PersistIfPossible, Persisted,
         PersistFails
  <2>2. /\ UNCHANGED <<attempted, file>>
        /\ \/ exit' = exit
           \/ recovery = "completed" /\ \A f \in Files : Settled(InspectedOutcome(f))
    BY <1>23 DEF Inspect, Exit
  <2>3. QED
    BY <2>1, <2>2, InspectedNew
<1>24. ASSUME FinCheck PROVE NewIsCovered'
  BY <1>24
     DEF FinCheck
<1>25. ASSUME FinTemp PROVE NewIsCovered'
  BY <1>25
     DEF FinTemp
<1>26. ASSUME FinJournal PROVE NewIsCovered'
  BY <1>26
     DEF FinJournal
<1>27. ASSUME FinRelease PROVE NewIsCovered'
  BY <1>27
     DEF FinRelease
<1>28. ASSUME AnswerCleaned PROVE NewIsCovered'
  BY <1>28
     DEF AnswerCleaned, Answer
<1>29. ASSUME Crash PROVE NewIsCovered'
  BY <1>29
     DEF Crash
<1>30. ASSUME NEW f \in Files, Edit(f) PROVE NewIsCovered'
  BY <1>30
     DEF Edit, Others, External, TypeOK
<1>31. ASSUME NEW t \in Files, Tamper(t) PROVE NewIsCovered'
  BY <1>31
     DEF Tamper, Others
<1>32. ASSUME MoveLock PROVE NewIsCovered'
  BY <1>32
     DEF MoveLock, Others
<1>33. ASSUME UNCHANGED vars PROVE NewIsCovered'
  BY <1>33
     DEF vars
<1>34. QED
  BY <1>1, <1>2, <1>3, <1>4, <1>5, <1>6, <1>7, <1>8, <1>9, <1>10, <1>11, <1>12,
     <1>13, <1>14, <1>15, <1>16, <1>17, <1>18, <1>19, <1>20, <1>21, <1>22,
     <1>23, <1>24, <1>25, <1>26, <1>27, <1>28, <1>29, <1>30, <1>31, <1>32, <1>33
     DEF Next, Apply, Begin, Prepare, Commit, Recover, CleanUp

\* Success is decided on all files, and a reverted run applied nothing.
LEMMA SuccessStep ==
  ASSUME TypeOK, WellPlaced, SuccessIsWhole, RevertedAppliesNothing
  PROVE  [Next]_vars => (SuccessIsWhole /\ RevertedAppliesNothing)'
<1> USE DEF fsVars, jnVars, ansVars, envVars, SuccessIsWhole,
            RevertedAppliesNothing
<1>1. ASSUME AnswerUnchanged PROVE (SuccessIsWhole /\ RevertedAppliesNothing)'
  BY <1>1
     DEF AnswerUnchanged, Answer, WellPlaced, Cleaning, Ended
<1>2. ASSUME Refuse PROVE (SuccessIsWhole /\ RevertedAppliesNothing)'
  BY <1>2
     DEF Refuse, Answer, WellPlaced, Cleaning, Ended
<1>3. ASSUME TakeLock PROVE (SuccessIsWhole /\ RevertedAppliesNothing)'
  BY <1>3
     DEF TakeLock, WellPlaced, Cleaning, Ended
<1>4. ASSUME PrepareManagerFails
      PROVE  (SuccessIsWhole /\ RevertedAppliesNothing)'
  BY <1>4
     DEF PrepareManagerFails, Exit, WellPlaced, Cleaning, Ended
<1>5. ASSUME StageTarget PROVE (SuccessIsWhole /\ RevertedAppliesNothing)'
  BY <1>5
     DEF StageTarget, StagingFails, Exit, WellPlaced, Cleaning, Ended
<1>6. ASSUME CreateJournal PROVE (SuccessIsWhole /\ RevertedAppliesNothing)'
  BY <1>6
     DEF CreateJournal, StagingFails, Exit, WellPlaced, Cleaning, Ended
<1>7. ASSUME PersistStaged PROVE (SuccessIsWhole /\ RevertedAppliesNothing)'
  BY <1>7
     DEF PersistStaged, StagingFails, Exit, WellPlaced, Cleaning, Ended
<1>8. ASSUME Precommit PROVE (SuccessIsWhole /\ RevertedAppliesNothing)'
  BY <1>8
     DEF Precommit, Exit, WellPlaced, Cleaning, Ended
<1>9. ASSUME PersistCommitting PROVE (SuccessIsWhole /\ RevertedAppliesNothing)'
  BY <1>9
     DEF PersistCommitting, CommitFails, Exit, WellPlaced, Cleaning, Ended
<1>10. ASSUME CheckTarget PROVE (SuccessIsWhole /\ RevertedAppliesNothing)'
  BY <1>10
     DEF CheckTarget, CommitFails, Exit, WellPlaced, Cleaning, Ended
<1>11. ASSUME PersistReplacing PROVE (SuccessIsWhole /\ RevertedAppliesNothing)'
  BY <1>11
     DEF PersistReplacing, CommitFails, Exit, WellPlaced, Cleaning, Ended
<1>12. ASSUME FinalCheck PROVE (SuccessIsWhole /\ RevertedAppliesNothing)'
  BY <1>12
     DEF FinalCheck, CommitFails, Exit, WellPlaced, Cleaning, Ended
<1>13. ASSUME Replace PROVE (SuccessIsWhole /\ RevertedAppliesNothing)'
  BY <1>13
     DEF Replace, CommitFails, Exit, WellPlaced, Cleaning, Ended
<1>14. ASSUME SettleReplace PROVE (SuccessIsWhole /\ RevertedAppliesNothing)'
  BY <1>14
     DEF SettleReplace, CommitFails, Exit, WellPlaced, Cleaning, Ended
<1>15. ASSUME RunManager PROVE (SuccessIsWhole /\ RevertedAppliesNothing)'
  BY <1>15
     DEF RunManager, WellPlaced, Cleaning, Ended
<1>16. ASSUME Observe PROVE (SuccessIsWhole /\ RevertedAppliesNothing)'
  <2>1. /\ exit = "none"
        /\ UNCHANGED <<file, active>>
        /\ \/ /\ outcome' = [f \in Files |-> SuccessOutcome(f)]
              /\ \A f \in Files : SuccessOutcome(f).status # "unknown"
              /\ exit' = "success"
           \/ exit' \in {"none", "zero"}
    BY <1>16 DEF Observe, CommitFails, Exit, WellPlaced, Cleaning, Ended
  <2>2. ASSUME NEW f \in Files, SuccessOutcome(f).status # "unknown"
        PROVE  /\ f <= active => file[f] = "new"
               /\ SuccessOutcome(f).status =
                    IF f <= active THEN "applied" ELSE "skipped"
    BY <2>2 DEF SuccessOutcome
  <2>3. QED
    BY <2>1, <2>2
<1>17. ASSUME Recovering PROVE (SuccessIsWhole /\ RevertedAppliesNothing)'
  BY <1>17
     DEF Recovering, WellPlaced, Cleaning, Ended
<1>18. ASSUME NoteFailure PROVE (SuccessIsWhole /\ RevertedAppliesNothing)'
  BY <1>18
     DEF NoteFailure, WellPlaced, Cleaning, Ended
<1>19. ASSUME RecoverTarget PROVE (SuccessIsWhole /\ RevertedAppliesNothing)'
  BY <1>19
     DEF RecoverTarget, RecoverFails, WellPlaced, Cleaning, Ended
<1>20. ASSUME Restore PROVE (SuccessIsWhole /\ RevertedAppliesNothing)'
  BY <1>20
     DEF Restore, RecoverFails, WellPlaced, Cleaning, Ended
<1>21. ASSUME SettleRestore PROVE (SuccessIsWhole /\ RevertedAppliesNothing)'
  BY <1>21
     DEF SettleRestore, RecoverFails, WellPlaced, Cleaning, Ended
<1>22. ASSUME FinishRecovery PROVE (SuccessIsWhole /\ RevertedAppliesNothing)'
  BY <1>22
     DEF FinishRecovery, WellPlaced, Cleaning, Ended
<1>23. ASSUME Inspect PROVE (SuccessIsWhole /\ RevertedAppliesNothing)'
  <2>1. /\ exit = "none"
        /\ \/ exit' = "reverted" /\ outcome' = [f \in Files |-> InspectedOutcome(f)]
           \/ exit' = "none"
    BY <1>23 DEF Inspect, Exit, WellPlaced, Cleaning, Ended
  <2>2. ASSUME NEW f \in Files
        PROVE  InspectedOutcome(f).status # "applied"
    <3>1. FailedOutcome(f).status # "applied"
      BY DEF FailedOutcome
    <3>2. QED
      BY <3>1 DEF InspectedOutcome
  <2>3. QED
    BY <2>1, <2>2
<1>24. ASSUME FinCheck PROVE (SuccessIsWhole /\ RevertedAppliesNothing)'
  BY <1>24
     DEF FinCheck, WellPlaced, Cleaning, Ended
<1>25. ASSUME FinTemp PROVE (SuccessIsWhole /\ RevertedAppliesNothing)'
  BY <1>25
     DEF FinTemp, WellPlaced, Cleaning, Ended
<1>26. ASSUME FinJournal PROVE (SuccessIsWhole /\ RevertedAppliesNothing)'
  BY <1>26
     DEF FinJournal, WellPlaced, Cleaning, Ended
<1>27. ASSUME FinRelease PROVE (SuccessIsWhole /\ RevertedAppliesNothing)'
  BY <1>27
     DEF FinRelease, WellPlaced, Cleaning, Ended
<1>28. ASSUME AnswerCleaned PROVE (SuccessIsWhole /\ RevertedAppliesNothing)'
  BY <1>28
     DEF AnswerCleaned, Answer, WellPlaced, Cleaning, Ended
<1>29. ASSUME Crash PROVE (SuccessIsWhole /\ RevertedAppliesNothing)'
  BY <1>29
     DEF Crash, WellPlaced, Cleaning, Ended
<1>30. ASSUME NEW f \in Files, Edit(f)
       PROVE  (SuccessIsWhole /\ RevertedAppliesNothing)'
  BY <1>30
     DEF Edit, Others, WellPlaced, Cleaning, Ended, TypeOK
<1>31. ASSUME NEW t \in Files, Tamper(t)
       PROVE  (SuccessIsWhole /\ RevertedAppliesNothing)'
  BY <1>31
     DEF Tamper, Others, WellPlaced, Cleaning, Ended
<1>32. ASSUME MoveLock PROVE (SuccessIsWhole /\ RevertedAppliesNothing)'
  BY <1>32
     DEF MoveLock, Others, WellPlaced, Cleaning, Ended
<1>33. ASSUME UNCHANGED vars PROVE (SuccessIsWhole /\ RevertedAppliesNothing)'
  BY <1>33
     DEF vars
<1>34. QED
  BY <1>1, <1>2, <1>3, <1>4, <1>5, <1>6, <1>7, <1>8, <1>9, <1>10, <1>11, <1>12,
     <1>13, <1>14, <1>15, <1>16, <1>17, <1>18, <1>19, <1>20, <1>21, <1>22,
     <1>23, <1>24, <1>25, <1>26, <1>27, <1>28, <1>29, <1>30, <1>31, <1>32, <1>33
     DEF Next, Apply, Begin, Prepare, Commit, Recover, CleanUp

\* The journal on disk covers every new file.
LEMMA CoversStep ==
  ASSUME TypeOK, WellPlaced, JournalFirst, NewIsCovered,
         JournalCoversReplacements, NewIsCovered'
  PROVE  [Next]_vars => JournalCoversReplacements'
<1> USE DEF fsVars, jnVars, ansVars, envVars, JournalCoversReplacements,
            NewIsCovered, NoneNew
<1>1. ASSUME AnswerUnchanged PROVE JournalCoversReplacements'
  BY <1>1
     DEF AnswerUnchanged, Answer, WellPlaced, Cleaning, Ended
<1>2. ASSUME Refuse PROVE JournalCoversReplacements'
  BY <1>2
     DEF Refuse, Answer, WellPlaced, Cleaning, Ended
<1>3. ASSUME TakeLock PROVE JournalCoversReplacements'
  BY <1>3
     DEF TakeLock, WellPlaced, Cleaning, Ended
<1>4. ASSUME PrepareManagerFails PROVE JournalCoversReplacements'
  BY <1>4
     DEF PrepareManagerFails, Exit, WellPlaced, Cleaning, Ended
<1>5. ASSUME StageTarget PROVE JournalCoversReplacements'
  BY <1>5
     DEF StageTarget, StagingFails, Exit, WellPlaced, Cleaning, Ended
<1>6. ASSUME CreateJournal PROVE JournalCoversReplacements'
  BY <1>6
     DEF CreateJournal, StagingFails, Exit, WellPlaced, Cleaning, Ended,
         JournalFirst, Unlocked, Unstaged, Unrecorded, Early
<1>7. ASSUME PersistStaged PROVE JournalCoversReplacements'
  BY <1>7
     DEF PersistStaged, StagingFails, Exit, TypeOK, Persisted, PersistFails,
         NotPersisted, WellPlaced, Cleaning, Ended, JournalFirst, Unlocked,
         Unstaged, Unrecorded, Early
<1>8. ASSUME Precommit PROVE JournalCoversReplacements'
  BY <1>8
     DEF Precommit, Exit, WellPlaced, Cleaning, Ended
<1>9. ASSUME PersistCommitting PROVE JournalCoversReplacements'
  BY <1>9, StateTyping
     DEF PersistCommitting, CommitFails, Exit, TypeOK, Persisted, PersistFails,
         NotPersisted, JournalState, WellPlaced, Cleaning, Ended, JournalFirst,
         Unlocked, Unstaged, Unrecorded, Early
<1>10. ASSUME CheckTarget PROVE JournalCoversReplacements'
  BY <1>10
     DEF CheckTarget, CommitFails, Exit, WellPlaced, Cleaning, Ended
<1>11. ASSUME PersistReplacing PROVE JournalCoversReplacements'
  <2>1. pc = "persist-replacing" /\ idx \in Files /\ mem \in Journal
        /\ "replacing" \in TargetState
    BY <1>11, IndexTyping DEF PersistReplacing, TypeOK, OnTarget, TargetState
  <2>2. /\ mem' = Marked(idx, "replacing")
        /\ disk' \in {disk, mem'}
        /\ \/ pc' = "final-check" /\ disk' = mem' /\ exit' = exit
           \/ pc' = "fin-check" /\ exit' = "zero" /\ attempted = {}
           \/ pc' = "recovering" /\ exit' = exit
        /\ UNCHANGED <<idx, run, lock, attempted, file>>
    BY <1>11 DEF PersistReplacing, CommitFails, Exit, Persisted, PersistFails,
       NotPersisted
  <2>3. QED
    BY <2>1, <2>2, MarkedTyping
       DEF WellPlaced, JournalFirst, Unlocked, Unstaged, Unrecorded, Early,
         Cleaning, Ended
<1>12. ASSUME FinalCheck PROVE JournalCoversReplacements'
  BY <1>12
     DEF FinalCheck, CommitFails, Exit, WellPlaced, Cleaning, Ended
<1>13. ASSUME Replace PROVE JournalCoversReplacements'
  BY <1>13
     DEF Replace, CommitFails, Exit, WellPlaced, Cleaning, Ended, JournalFirst,
         Unlocked, Unstaged, Unrecorded, Early
<1>14. ASSUME SettleReplace PROVE JournalCoversReplacements'
  <2>1. pc = "settle-replace" /\ idx \in Files /\ mem \in Journal
        /\ "replaced" \in TargetState
    BY <1>14, IndexTyping DEF SettleReplace, TypeOK, OnTarget, TargetState
  <2>2. /\ mem' \in {mem, Marked(idx, "replaced")}
        /\ disk' \in {disk, mem'}
        /\ \/ pc' = "check" /\ exit' = exit
           \/ pc' = "fin-check" /\ exit' = "zero" /\ attempted = {}
           \/ pc' = "recovering" /\ exit' = exit
        /\ UNCHANGED <<run, lock, attempted, file>>
    BY <1>14 DEF SettleReplace, CommitFails, Exit, Persisted, PersistFails,
       NotPersisted
  <2>3. QED
    BY <2>1, <2>2, MarkedTyping
       DEF WellPlaced, JournalFirst, Unlocked, Unstaged, Unrecorded, Early,
         Cleaning, Ended
<1>15. ASSUME RunManager PROVE JournalCoversReplacements'
  BY <1>15
     DEF RunManager, WellPlaced, Cleaning, Ended
<1>16. ASSUME Observe PROVE JournalCoversReplacements'
  BY <1>16
     DEF Observe, CommitFails, Exit, WellPlaced, Cleaning, Ended
<1>17. ASSUME Recovering PROVE JournalCoversReplacements'
  BY <1>17, StateTyping
     DEF Recovering, TypeOK, Persisted, PersistFails, NotPersisted,
         PersistIfPossible, JournalState, WellPlaced, Cleaning, Ended,
         JournalFirst, Unlocked, Unstaged, Unrecorded, Early
<1>18. ASSUME NoteFailure PROVE JournalCoversReplacements'
  BY <1>18
     DEF NoteFailure, TypeOK, Persisted, PersistFails, NotPersisted,
         PersistIfPossible, WellPlaced, Cleaning, Ended, JournalFirst, Unlocked,
         Unstaged, Unrecorded, Early
<1>19. ASSUME RecoverTarget PROVE JournalCoversReplacements'
  BY <1>19, MarkedTyping
     DEF RecoverTarget, RecoverFails, TypeOK, TargetState, WellPlaced, Cleaning,
         Ended
<1>20. ASSUME Restore PROVE JournalCoversReplacements'
  BY <1>20, MarkedTyping
     DEF Restore, RecoverFails, TypeOK, TargetState, WellPlaced, Cleaning, Ended
<1>21. ASSUME SettleRestore PROVE JournalCoversReplacements'
  BY <1>21, MarkedTyping
     DEF SettleRestore, RecoverFails, TypeOK, Persisted, PersistFails,
         NotPersisted, TargetState, WellPlaced, Cleaning, Ended, JournalFirst,
         Unlocked, Unstaged, Unrecorded, Early
<1>22. ASSUME FinishRecovery PROVE JournalCoversReplacements'
  BY <1>22, StateTyping
     DEF FinishRecovery, TypeOK, Persisted, PersistFails, NotPersisted,
         JournalState, WellPlaced, Cleaning, Ended, JournalFirst, Unlocked,
         Unstaged, Unrecorded, Early
<1>23. ASSUME Inspect PROVE JournalCoversReplacements'
  <2>1. /\ pc = "inspect"
        /\ mem' \in {mem, [mem EXCEPT !.state = "failed"]}
        /\ disk' \in {disk, mem'}
        /\ exit' = exit \/ exit' = "reverted"
        /\ UNCHANGED file
    BY <1>23 DEF Inspect, Exit, PersistIfPossible, Persisted, PersistFails,
      NotPersisted
  <2>2. /\ mem'.target = mem.target
        /\ mem'.state # "none"
        /\ exit # "success"
    BY <2>1, StateTyping
       DEF TypeOK, JournalState, JournalFirst, WellPlaced, Unlocked, Unstaged,
         Unrecorded, Early, Cleaning, Ended
  <2>3. QED
    BY <2>1, <2>2
<1>24. ASSUME FinCheck PROVE JournalCoversReplacements'
  BY <1>24
     DEF FinCheck, WellPlaced, Cleaning, Ended
<1>25. ASSUME FinTemp PROVE JournalCoversReplacements'
  BY <1>25
     DEF FinTemp, WellPlaced, Cleaning, Ended
<1>26. ASSUME FinJournal PROVE JournalCoversReplacements'
  BY <1>26
     DEF FinJournal, WellPlaced, Cleaning, Ended
<1>27. ASSUME FinRelease PROVE JournalCoversReplacements'
  BY <1>27
     DEF FinRelease, WellPlaced, Cleaning, Ended
<1>28. ASSUME AnswerCleaned PROVE JournalCoversReplacements'
  BY <1>28
     DEF AnswerCleaned, Answer, WellPlaced, Cleaning, Ended
<1>29. ASSUME Crash PROVE JournalCoversReplacements'
  BY <1>29
     DEF Crash, WellPlaced, Cleaning, Ended
<1>30. ASSUME NEW f \in Files, Edit(f) PROVE JournalCoversReplacements'
  BY <1>30
     DEF Edit, Others, WellPlaced, Cleaning, Ended, External, TypeOK
<1>31. ASSUME NEW t \in Files, Tamper(t) PROVE JournalCoversReplacements'
  BY <1>31
     DEF Tamper, Others, WellPlaced, Cleaning, Ended
<1>32. ASSUME MoveLock PROVE JournalCoversReplacements'
  BY <1>32
     DEF MoveLock, Others, WellPlaced, Cleaning, Ended
<1>33. ASSUME UNCHANGED vars PROVE JournalCoversReplacements'
  BY <1>33
     DEF vars
<1>34. QED
  BY <1>1, <1>2, <1>3, <1>4, <1>5, <1>6, <1>7, <1>8, <1>9, <1>10, <1>11, <1>12,
     <1>13, <1>14, <1>15, <1>16, <1>17, <1>18, <1>19, <1>20, <1>21, <1>22,
     <1>23, <1>24, <1>25, <1>26, <1>27, <1>28, <1>29, <1>30, <1>31, <1>32, <1>33
     DEF Next, Apply, Begin, Prepare, Commit, Recover, CleanUp

\* While a file is new and the run has not succeeded, directory and lock stay.
LEMMA GuardStep ==
  ASSUME TypeOK, WellPlaced, JournalFirst, NewIsCovered, MixedStateIsGuarded
  PROVE  [Next]_vars => MixedStateIsGuarded'
<1> USE DEF fsVars, jnVars, ansVars, envVars, MixedStateIsGuarded, NewIsCovered,
            NoneNew
<1>1. ASSUME AnswerUnchanged PROVE MixedStateIsGuarded'
  BY <1>1
     DEF AnswerUnchanged, Answer, WellPlaced, Cleaning, Ended
<1>2. ASSUME Refuse PROVE MixedStateIsGuarded'
  BY <1>2
     DEF Refuse, Answer, WellPlaced, Cleaning, Ended
<1>3. ASSUME TakeLock PROVE MixedStateIsGuarded'
  BY <1>3
     DEF TakeLock, WellPlaced, Cleaning, Ended, JournalFirst, Unlocked,
         Unstaged, Unrecorded, Early
<1>4. ASSUME PrepareManagerFails PROVE MixedStateIsGuarded'
  BY <1>4
     DEF PrepareManagerFails, Exit, WellPlaced, Cleaning, Ended
<1>5. ASSUME StageTarget PROVE MixedStateIsGuarded'
  BY <1>5
     DEF StageTarget, StagingFails, Exit, WellPlaced, Cleaning, Ended
<1>6. ASSUME CreateJournal PROVE MixedStateIsGuarded'
  BY <1>6
     DEF CreateJournal, StagingFails, Exit, WellPlaced, Cleaning, Ended,
         JournalFirst, Unlocked, Unstaged, Unrecorded, Early
<1>7. ASSUME PersistStaged PROVE MixedStateIsGuarded'
  BY <1>7
     DEF PersistStaged, StagingFails, Exit, WellPlaced, Cleaning, Ended
<1>8. ASSUME Precommit PROVE MixedStateIsGuarded'
  BY <1>8
     DEF Precommit, Exit, WellPlaced, Cleaning, Ended
<1>9. ASSUME PersistCommitting PROVE MixedStateIsGuarded'
  BY <1>9
     DEF PersistCommitting, CommitFails, Exit, WellPlaced, Cleaning, Ended
<1>10. ASSUME CheckTarget PROVE MixedStateIsGuarded'
  BY <1>10
     DEF CheckTarget, CommitFails, Exit, WellPlaced, Cleaning, Ended
<1>11. ASSUME PersistReplacing PROVE MixedStateIsGuarded'
  BY <1>11
     DEF PersistReplacing, CommitFails, Exit, WellPlaced, Cleaning, Ended
<1>12. ASSUME FinalCheck PROVE MixedStateIsGuarded'
  BY <1>12
     DEF FinalCheck, CommitFails, Exit, WellPlaced, Cleaning, Ended
<1>13. ASSUME Replace PROVE MixedStateIsGuarded'
  BY <1>13
     DEF Replace, CommitFails, Exit, WellPlaced, Cleaning, Ended, JournalFirst,
         Unlocked, Unstaged, Unrecorded, Early, TypeOK
<1>14. ASSUME SettleReplace PROVE MixedStateIsGuarded'
  BY <1>14
     DEF SettleReplace, CommitFails, Exit, WellPlaced, Cleaning, Ended
<1>15. ASSUME RunManager PROVE MixedStateIsGuarded'
  BY <1>15
     DEF RunManager, WellPlaced, Cleaning, Ended
<1>16. ASSUME Observe PROVE MixedStateIsGuarded'
  BY <1>16
     DEF Observe, CommitFails, Exit, WellPlaced, Cleaning, Ended
<1>17. ASSUME Recovering PROVE MixedStateIsGuarded'
  BY <1>17
     DEF Recovering, WellPlaced, Cleaning, Ended
<1>18. ASSUME NoteFailure PROVE MixedStateIsGuarded'
  BY <1>18
     DEF NoteFailure, WellPlaced, Cleaning, Ended
<1>19. ASSUME RecoverTarget PROVE MixedStateIsGuarded'
  BY <1>19
     DEF RecoverTarget, RecoverFails, WellPlaced, Cleaning, Ended
<1>20. ASSUME Restore PROVE MixedStateIsGuarded'
  BY <1>20
     DEF Restore, RecoverFails, WellPlaced, Cleaning, Ended, TypeOK
<1>21. ASSUME SettleRestore PROVE MixedStateIsGuarded'
  BY <1>21
     DEF SettleRestore, RecoverFails, WellPlaced, Cleaning, Ended
<1>22. ASSUME FinishRecovery PROVE MixedStateIsGuarded'
  BY <1>22
     DEF FinishRecovery, WellPlaced, Cleaning, Ended
<1>23. ASSUME Inspect PROVE MixedStateIsGuarded'
  BY <1>23
     DEF Inspect, Exit, Answer, WellPlaced, Cleaning, Ended
<1>24. ASSUME FinCheck PROVE MixedStateIsGuarded'
  BY <1>24
     DEF FinCheck, WellPlaced, Cleaning, Ended
<1>25. ASSUME FinTemp PROVE MixedStateIsGuarded'
  BY <1>25
     DEF FinTemp, WellPlaced, Cleaning, Ended
<1>26. ASSUME FinJournal PROVE MixedStateIsGuarded'
  BY <1>26
     DEF FinJournal, WellPlaced, Cleaning, Ended
<1>27. ASSUME FinRelease PROVE MixedStateIsGuarded'
  BY <1>27
     DEF FinRelease, WellPlaced, Cleaning, Ended
<1>28. ASSUME AnswerCleaned PROVE MixedStateIsGuarded'
  BY <1>28
     DEF AnswerCleaned, Answer, WellPlaced, Cleaning, Ended
<1>29. ASSUME Crash PROVE MixedStateIsGuarded'
  BY <1>29
     DEF Crash, WellPlaced, Cleaning, Ended
<1>30. ASSUME NEW f \in Files, Edit(f) PROVE MixedStateIsGuarded'
  BY <1>30
     DEF Edit, Others, WellPlaced, Cleaning, Ended, External, TypeOK
<1>31. ASSUME NEW t \in Files, Tamper(t) PROVE MixedStateIsGuarded'
  BY <1>31
     DEF Tamper, Others, WellPlaced, Cleaning, Ended
<1>32. ASSUME MoveLock PROVE MixedStateIsGuarded'
  BY <1>32
     DEF MoveLock, Others, WellPlaced, Cleaning, Ended
<1>33. ASSUME UNCHANGED vars PROVE MixedStateIsGuarded'
  BY <1>33
     DEF vars
<1>34. QED
  BY <1>1, <1>2, <1>3, <1>4, <1>5, <1>6, <1>7, <1>8, <1>9, <1>10, <1>11, <1>12,
     <1>13, <1>14, <1>15, <1>16, <1>17, <1>18, <1>19, <1>20, <1>21, <1>22,
     <1>23, <1>24, <1>25, <1>26, <1>27, <1>28, <1>29, <1>30, <1>31, <1>32, <1>33
     DEF Next, Apply, Begin, Prepare, Commit, Recover, CleanUp

\* The invariant holds at the start.
LEMMA InitInvariant == Init => EngineInvariant
<1> SUFFICES ASSUME Init PROVE EngineInvariant
  OBVIOUS
<1>1. Empty \in Journal
  BY DEF Empty, Journal, TargetState
<1>2. err \in CommitError /\ manager \in ManagerOutcome
  <2>1. "NONE" \in Reason /\ 0 \in 0..N
    BY DEF Reason
  <2>2. QED
    BY <2>1, ErrorTyping DEF Init, ManagerOutcome
<1>3. /\ outcome \in [Files -> Outcome]
      /\ phases \in [PhaseName -> PhaseStatus]
  BY DEF Init, Outcome, Status, OutcomeReason, Reason, PhaseStatus
<1>4. TypeOK
  <2>1. /\ pc \in Labels /\ exit \in Exits /\ recovery \in Recovery
        /\ idx \in 0..(N + 1) /\ active \in 0..N /\ edits \in 0..MaxEdits
    BY DEF Init, Labels, Ended, Exits, Recovery
  <2>2. /\ file \in [Files -> FileState]
        /\ stage \in [Files -> Artifact] /\ backup \in [Files -> Artifact]
    BY DEF Init, FileState, Artifact
  <2>3. /\ disk = Empty /\ mem = Empty /\ result = NoResult
        /\ run = FALSE /\ extra = FALSE /\ clean = TRUE
        /\ jid = "none" /\ lock = "none"
        /\ attempted = {} /\ touched = {} /\ tampered = {} /\ raced = {}
    BY DEF Init
  <2>4. QED
    BY <1>1, <1>2, <1>3, <2>1, <2>2, <2>3 DEF TypeOK
<1>5. WellPlaced /\ JournalFirst /\ NewIsCovered
  BY DEF Init, WellPlaced, JournalFirst, NewIsCovered, Unlocked, Unstaged,
     Unrecorded, Early, Cleaning, Ended, OnTarget, Restoring
<1>6. /\ SuccessIsWhole /\ RevertedAppliesNothing
      /\ JournalCoversReplacements /\ MixedStateIsGuarded
  BY DEF Init, SuccessIsWhole, RevertedAppliesNothing,
     JournalCoversReplacements, MixedStateIsGuarded
<1>7. QED
  BY <1>4, <1>5, <1>6 DEF EngineInvariant

\* Every step keeps the invariant.
LEMMA NextInvariant == EngineInvariant /\ [Next]_vars => EngineInvariant'
<1> SUFFICES ASSUME EngineInvariant, [Next]_vars
             PROVE  EngineInvariant'
  OBVIOUS
<1>1. TypeOK' /\ WellPlaced' /\ JournalFirst' /\ NewIsCovered'
  BY TypingStep, PlacingStep, JournalFirstStep, CoveredStep DEF EngineInvariant
<1>2. SuccessIsWhole' /\ RevertedAppliesNothing'
  BY SuccessStep DEF EngineInvariant
<1>3. JournalCoversReplacements' /\ MixedStateIsGuarded'
  BY <1>1, CoversStep, GuardStep DEF EngineInvariant
<1>4. QED
  BY <1>1, <1>2, <1>3 DEF EngineInvariant

\* At every moment of a run, of any number of files and under any interference,
\* the engine's state is typed, placed, journalled and covered as
\* EngineInvariant says (engine.ts, applyPlanWithRuntime).
THEOREM EngineInvariance == Spec => []EngineInvariant
BY InitInvariant, NextInvariant, PTL DEF Spec

\* The state of a run stays within its types (engine.ts).
THEOREM EngineTyping == Spec => []TypeOK
<1>1. EngineInvariant => TypeOK
  BY DEF EngineInvariant
<1>2. QED
  BY <1>1, EngineInvariance, PTL

\* Whenever the process dies, a target that holds staged bytes is one the
\* journal on disk names as being replaced (engine.ts writes the journal before
\* it renames).
THEOREM JournalCovers == Spec => []JournalCoversReplacements
<1>1. EngineInvariant => JournalCoversReplacements
  BY DEF EngineInvariant
<1>2. QED
  BY <1>1, EngineInvariance, PTL

\* A run that leaves a new file without success leaves its directory and its
\* lock, which block the next run (engine.ts keeps both as evidence).
THEOREM MixtureIsGuarded == Spec => []MixedStateIsGuarded
<1>1. EngineInvariant => MixedStateIsGuarded
  BY DEF EngineInvariant
<1>2. QED
  BY <1>1, EngineInvariance, PTL

(***************************************************************************)
(* ApplyEngine implements AtomicApply: each action of the engine is shown  *)
(* to be one of AtomicApply's, or none, wherever EngineInvariant holds.    *)
(***************************************************************************)

\* What each file looks like to a reader of the disk.
LEMMA ContentFacts ==
  ASSUME NEW f \in Files
  PROVE  /\ Content[f] \in {"idle", "old", "new", "other"}
         /\ Content[f] = "new" <=> file[f] = "new"
         /\ Content[f] = "old" => f <= active /\ file[f] \notin External
         /\ f <= active => Content[f] # "idle"
         /\ file[f] \in External => Content[f] = "other"
BY DEF Content, Shown, External

\* A step that keeps files, evidence and answer is none of AtomicApply's.
LEMMA StutterStep ==
  ASSUME UNCHANGED <<file, active, result>>, Evidence' = Evidence
  PROVE  UNCHANGED Atomic!vars
BY DEF Content, Shown, Told, Atomic!vars

\* Steps that touch neither a target nor journal.json nor the answer.
LEMMA InnerSteps ==
  ASSUME \/ TakeLock \/ PrepareManagerFails \/ StageTarget \/ CreateJournal
         \/ Precommit \/ CheckTarget \/ FinalCheck \/ RunManager \/ Observe
         \/ RecoverTarget \/ FinCheck \/ FinTemp \/ FinRelease \/ Crash
         \/ MoveLock \/ \E t \in Files : Tamper(t)
  PROVE  UNCHANGED Atomic!vars
<1>1. UNCHANGED <<file, active, result, disk>>
  BY DEF TakeLock, PrepareManagerFails, StageTarget, CreateJournal, Precommit,
     CheckTarget, FinalCheck, RunManager, Observe, RecoverTarget, FinCheck,
     FinTemp, FinRelease, Crash, MoveLock, Tamper, Others, fsVars, jnVars,
     ansVars, envVars
<1>2. Evidence' = Evidence
  BY <1>1 DEF Evidence
<1>3. QED
  BY <1>1, <1>2, StutterStep

\* Steps that write a journal over a journal.
LEMMA RewritingSteps ==
  ASSUME EngineInvariant,
         \/ PersistCommitting \/ PersistReplacing \/ SettleReplace
         \/ Recovering \/ NoteFailure \/ SettleRestore \/ FinishRecovery
  PROVE  UNCHANGED Atomic!vars
<1> USE DEF Persisted, PersistFails, NotPersisted, PersistIfPossible, fsVars,
            jnVars, ansVars, envVars
<1>1. mem \in Journal /\ mem.state # "none" /\ disk.state # "none"
  BY DEF EngineInvariant, TypeOK, JournalFirst, Unlocked, Unstaged, Unrecorded,
     Early, Cleaning, Ended, PersistCommitting, PersistReplacing, SettleReplace,
     Recovering, NoteFailure, SettleRestore, FinishRecovery
<1>2. /\ UNCHANGED <<file, active, result>>
      /\ \/ disk' \in {disk, mem}
         \/ \E s \in JournalState : disk' = [mem EXCEPT !.state = s]
         \/ \E s \in TargetState : disk' = Marked(idx, s)
  <2>1. CASE PersistCommitting
    BY <2>1 DEF PersistCommitting, JournalState
  <2>2. CASE PersistReplacing
    BY <2>2 DEF PersistReplacing, TargetState
  <2>3. CASE SettleReplace
    BY <2>3 DEF SettleReplace, TargetState
  <2>4. CASE Recovering
    BY <2>4 DEF Recovering, JournalState
  <2>5. CASE NoteFailure
    BY <2>5 DEF NoteFailure
  <2>6. CASE SettleRestore
    BY <2>6 DEF SettleRestore, TargetState
  <2>7. CASE FinishRecovery
    BY <2>7 DEF FinishRecovery, JournalState
  <2>8. QED
    BY <2>1, <2>2, <2>3, <2>4, <2>5, <2>6, <2>7
<1>3. disk'.state # "none"
  <2>1. ASSUME NEW s \in JournalState
        PROVE  [mem EXCEPT !.state = s].state # "none"
    BY <1>1, StateTyping DEF JournalState
  <2>2. ASSUME NEW s \in TargetState
        PROVE  Marked(idx, s).state # "none"
    BY <1>1, MarkedTyping
  <2>3. QED
    BY <1>1, <1>2, <2>1, <2>2
<1>4. QED
  BY <1>1, <1>2, <1>3, StutterStep DEF Evidence

\* The first journal of a run is AtomicApply's Begin.
LEMMA FirstJournal ==
  ASSUME EngineInvariant, PersistStaged
  PROVE  Atomic!Begin \/ UNCHANGED Atomic!vars
<1>1. /\ UNCHANGED <<file, active, result>>
      /\ disk' \in {disk, mem} /\ result = NoResult /\ attempted = {}
      /\ NoneNew
  BY DEF PersistStaged, Persisted, PersistFails, NotPersisted, fsVars, jnVars,
     ansVars, envVars, StagingFails, EngineInvariant, WellPlaced, JournalFirst,
     Unrecorded, Early, NewIsCovered, NoneNew
<1>2. mem.state # "none"
  BY DEF PersistStaged, EngineInvariant, JournalFirst, Unstaged, Unlocked,
     Cleaning, Ended
<1>3. CASE Evidence' = Evidence
  BY <1>1, <1>3, StutterStep
<1>4. CASE Evidence' # Evidence
  <2>1. ~Evidence /\ Evidence' = TRUE
    BY <1>1, <1>2, <1>4 DEF Evidence
  <2>2. Told = "none" /\ Told' = Told /\ Content' = Content
    BY <1>1 DEF Told, NoResult, Content, Shown
  <2>3. Atomic!NoneNew
    BY <1>1, ContentFacts DEF Atomic!NoneNew, NoneNew
  <2>4. QED
    BY <2>1, <2>2, <2>3 DEF Atomic!Begin
<1>5. QED
  BY <1>3, <1>4

\* The journal goes when the run turned back, and no file is new, or when it
\* succeeded, and none is old.
LEMMA JournalRemoved ==
  ASSUME EngineInvariant, FinJournal
  PROVE  Atomic!Forget \/ UNCHANGED Atomic!vars
<1>1. /\ UNCHANGED <<file, active, result>>
      /\ disk' \in {disk, Empty}
  BY DEF FinJournal, fsVars, ansVars, envVars
<1>2. result = NoResult /\ exit # "none"
  BY DEF FinJournal, EngineInvariant, WellPlaced, Cleaning, Ended
<1>3. Atomic!NoneNew \/ Atomic!NoneOld
  <2>1. CASE exit = "success"
    <3>1. Atomic!NoneOld
      BY <2>1, ContentFacts
         DEF Atomic!NoneOld, EngineInvariant, SuccessIsWhole, External
    <3>2. QED
      BY <3>1
  <2>2. CASE exit # "success"
    <3>1. Atomic!NoneNew
      BY <1>2, <2>2, ContentFacts
         DEF Atomic!NoneNew, EngineInvariant, NewIsCovered, NoneNew
    <3>2. QED
      BY <3>1
  <2>3. QED
    BY <2>1, <2>2
<1>4. CASE Evidence' = Evidence
  BY <1>1, <1>4, StutterStep
<1>5. CASE Evidence' # Evidence
  <2>1. Evidence = TRUE /\ Evidence' = FALSE
    BY <1>1, <1>5 DEF Evidence, Empty
  <2>2. Told = "none" /\ Told' = Told /\ Content' = Content
    BY <1>1, <1>2 DEF Told, NoResult, Content, Shown
  <2>3. QED
    BY <1>3, <2>1, <2>2 DEF Atomic!Forget
<1>6. QED
  BY <1>4, <1>5

\* A change of one target by the run is a Replace of AtomicApply.
LEMMA OneReplaced ==
  ASSUME EngineInvariant, NEW f \in Files, f <= active, NEW c \in FileState,
         file' = [file EXCEPT ![f] = c],
         UNCHANGED <<active, result, disk>>, pc # "done", Evidence
  PROVE  Atomic!Replace(f)
<1>1. file'[f] \in FileState /\ \A g \in Files \ {f} : file'[g] = file[g]
  BY DEF EngineInvariant, TypeOK
<1>2. Content' = [Content EXCEPT ![f] = Content'[f]]
  BY <1>1 DEF Content, Shown
<1>3. Content'[f] \in {"old", "new", "other"}
  BY <1>1 DEF Content, Shown
<1>4. Content[f] # "idle"
  BY ContentFacts
<1>5. Told = "none" /\ Told' = Told
  BY DEF Told, NoResult, EngineInvariant, WellPlaced
<1>6. Evidence = TRUE /\ Evidence' = Evidence
  BY DEF Evidence
<1>7. QED
  BY <1>2, <1>3, <1>4, <1>5, <1>6 DEF Atomic!Replace

\* rename over a target, staged or restored, replaces one file while a journal is
\* there.
LEMMA RenameSteps ==
  ASSUME EngineInvariant, Replace \/ Restore
  PROVE  (\E f \in Files : Atomic!Replace(f)) \/ UNCHANGED Atomic!vars
<1>1. /\ idx \in Files /\ idx <= active /\ pc # "done" /\ Evidence
  <2>1. pc \in {"replace", "restore"}
    BY DEF Replace, Restore
  <2>2. idx \in 1..active /\ active \in 0..N
    BY <2>1 DEF EngineInvariant, WellPlaced, OnTarget, TypeOK
  <2>3. Evidence
    BY <2>1 DEF EngineInvariant, JournalFirst, Unrecorded, Unstaged, Unlocked,
       Cleaning, Ended, Evidence
  <2>4. QED
    BY <2>1, <2>2, <2>3, EngineAssumption DEF Files
<1>2. /\ UNCHANGED <<active, result, disk>>
      /\ \/ file' = file
         \/ \E c \in FileState : file' = [file EXCEPT ![idx] = c]
  BY DEF Replace, Restore, fsVars, jnVars, ansVars, envVars, FileState, External
<1>3. CASE file' = file
  BY <1>2, <1>3, StutterStep DEF Evidence
<1>4. CASE \E c \in FileState : file' = [file EXCEPT ![idx] = c]
  <2>1. Atomic!Replace(idx)
    BY <1>1, <1>2, <1>4, OneReplaced
  <2>2. QED
    BY <1>1, <2>1
<1>5. QED
  BY <1>2, <1>3, <1>4

\* Somebody else's edit is an Interfere.
LEMMA EditSteps ==
  ASSUME EngineInvariant, NEW f \in Files, Edit(f)
  PROVE  Atomic!Interfere(f)
<1>1. PICK c \in External : file' = [file EXCEPT ![f] = c]
  BY DEF Edit
<1>2. UNCHANGED <<active, result, disk>>
  BY DEF Edit, jnVars, ansVars
<1>3. file'[f] \in External /\ \A g \in Files \ {f} : file'[g] = file[g]
  BY <1>1 DEF EngineInvariant, TypeOK
<1>4. Content' = [Content EXCEPT ![f] = "other"]
  BY <1>2, <1>3 DEF Content, Shown
<1>5. Evidence' = Evidence /\ Told' = Told
  BY <1>2 DEF Evidence, Told
<1>6. QED
  BY <1>4, <1>5 DEF Atomic!Interfere

----------------------------------------------------------------------------
(* Answers *)

\* A result's status is one of its operations', or unknown, or noop.
LEMMA StatusFacts ==
  ASSUME NEW rec, NEW ops \in [Files -> Outcome]
  PROVE  /\ StatusOf(rec, ops) \in {"unknown", "failed", "reverted",
                                    "conflicted", "applied", "noop"}
         /\ StatusOf(rec, ops) \in {"applied", "noop", "reverted", "conflicted"} =>
              \A f \in Files : ops[f].status \notin {"failed", "unknown"}
         /\ StatusOf(rec, ops) = "applied" => \E f \in Files : ops[f].status = "applied"
         /\ StatusOf(rec, ops) = "noop" => \A f \in Files : ops[f].status # "applied"
BY DEF StatusOf

\* An answer whose status fits the files is AtomicApply's Conclude.
LEMMA Concluded ==
  ASSUME EngineInvariant, pc # "done",
         UNCHANGED <<file, active>>, Evidence' = Evidence,
         result' \in Result,
         result'.status # "none",
         result'.status = "applied" => Atomic!NoneOld,
         result'.status \in {"noop", "reverted", "conflicted"} => Atomic!NoneNew,
         result'.status \in {"unknown", "failed", "reverted", "conflicted",
                             "applied", "noop"}
  PROVE  Atomic!Conclude
<1>1. Told = "none"
  BY DEF Told, NoResult, EngineInvariant, WellPlaced
<1>2. Content' = Content
  BY DEF Content, Shown
<1>3. \/ Told' = "applied" /\ Atomic!NoneOld
      \/ Told' = "unchanged" /\ Atomic!NoneNew
      \/ Told' = "unsettled"
  BY DEF Told
<1>4. QED
  BY <1>1, <1>2, <1>3 DEF Atomic!Conclude

\* A run with nothing to change concludes.
LEMMA AnswerUnchangedConcludes ==
  ASSUME EngineInvariant, AnswerUnchanged
  PROVE  Atomic!Conclude
<1> DEFINE ops == [f \in Files |-> SuccessOutcome(f)]
<1>1. ops \in [Files -> Outcome]
  BY OutcomeTyping DEF EngineInvariant
<1>2. [phases EXCEPT !["lock"] = "skipped", !["inspect"] = "passed"]
        \in [PhaseName -> PhaseStatus]
  BY DEF PhaseName, PhaseStatus, EngineInvariant, TypeOK
<1>3. result' \in Result /\ result'.status = StatusOf("not-needed", ops)
  BY <1>1, <1>2, AnswerTyping DEF AnswerUnchanged, Recovery
<1>4. UNCHANGED <<file, active, disk>> /\ pc = "start" /\ active = 0
  BY DEF AnswerUnchanged, fsVars, jnVars, envVars
<1>5. Atomic!NoneNew
  BY <1>4, ContentFacts
     DEF Atomic!NoneNew, EngineInvariant, JournalFirst, Early, Unrecorded,
         Unstaged, Unlocked, NewIsCovered
<1>6. StatusOf("not-needed", ops) # "applied"
  <2>1. ASSUME NEW f \in Files PROVE ops[f].status # "applied"
    BY <1>4 DEF SuccessOutcome, Files
  <2>2. QED
    BY <1>1, <2>1, StatusFacts
<1>7. QED
  <2>1. Evidence' = Evidence
    BY <1>4 DEF Evidence
  <2>2. StatusOf("not-needed", ops) \in {"unknown", "failed", "reverted",
                                         "conflicted", "applied", "noop"}
    BY <1>1, StatusFacts
  <2>3. QED
    BY <1>3, <1>4, <1>5, <1>6, <2>1, <2>2, Concluded

\* A refusal concludes, before anything is new.
LEMMA RefuseConcludes ==
  ASSUME EngineInvariant, Refuse
  PROVE  Atomic!Conclude
<1>1. PICK unknown \in BOOLEAN :
        Answer(IF unknown THEN "unknown" ELSE "not-needed",
               All(IF unknown THEN "unknown" ELSE "conflicted", "REFUSED"),
               Push("lock", Verdict(unknown)))
  BY DEF Refuse
<1> DEFINE ops == All(IF unknown THEN "unknown" ELSE "conflicted", "REFUSED")
           rec == IF unknown THEN "unknown" ELSE "not-needed"
<1>2. ops \in [Files -> Outcome] /\ rec \in Recovery
  BY DEF All, Outcome, Status, OutcomeReason, Reason, Recovery
<1>3. Push("lock", Verdict(unknown)) \in [PhaseName -> PhaseStatus]
  BY DEF Push, Verdict, PhaseName, PhaseStatus, EngineInvariant, TypeOK
<1>4. result' \in Result /\ result'.status = StatusOf(rec, ops)
  BY <1>1, <1>2, <1>3, AnswerTyping
<1>5. UNCHANGED <<file, active, disk>> /\ pc = "start"
  BY DEF Refuse, fsVars, jnVars, envVars
<1>6. Atomic!NoneNew
  BY <1>5, ContentFacts
     DEF Atomic!NoneNew, EngineInvariant, JournalFirst, Early, Unrecorded,
         Unstaged, Unlocked, NewIsCovered
<1>7. StatusOf(rec, ops) # "applied"
  <2>1. ASSUME NEW f \in Files PROVE ops[f].status # "applied"
    BY DEF All
  <2>2. QED
    BY <1>2, <2>1, StatusFacts
<1>8. QED
  <2>1. Evidence' = Evidence
    BY <1>5 DEF Evidence
  <2>2. StatusOf(rec, ops) \in {"unknown", "failed", "reverted", "conflicted",
                                "applied", "noop"}
    BY <1>2, StatusFacts
  <2>3. QED
    BY <1>4, <1>5, <1>6, <1>7, <2>1, <2>2, Concluded

\* A recovery that keeps its evidence never answers as if nothing were new.
LEMMA InspectConcludes ==
  ASSUME EngineInvariant, Inspect
  PROVE  Atomic!Conclude \/ UNCHANGED Atomic!vars
<1> DEFINE ops == [f \in Files |-> InspectedOutcome(f)]
           unknown == \E f \in Files : ops[f].status = "unknown"
           kept == IF recovery # "completed" THEN recovery
                   ELSE IF unknown THEN "unknown" ELSE "partial"
           ph == Push("inspect", IF unknown THEN "unknown" ELSE "passed")
<1>1. /\ UNCHANGED <<file, active>> /\ pc = "inspect"
      /\ disk' \in {disk, [mem EXCEPT !.state = "failed"]}
      /\ \/ result' = result
         \/ Answer(WithManager(kept), ops, [ph EXCEPT !["cleanup"] = "unknown"])
  BY DEF Inspect, PersistIfPossible, Persisted, PersistFails, NotPersisted,
     fsVars, envVars
<1>2. Evidence' = Evidence
  <2>1. disk.state # "none" /\ mem \in Journal
    BY <1>1 DEF EngineInvariant, JournalFirst, TypeOK, Unrecorded, Unstaged,
       Unlocked, Cleaning, Ended
  <2>2. [mem EXCEPT !.state = "failed"].state = "failed"
    BY <2>1, StateTyping DEF JournalState
  <2>3. QED
    BY <1>1, <2>1, <2>2 DEF Evidence
<1>3. CASE result' = result
  BY <1>1, <1>2, <1>3, StutterStep
<1>4. CASE Answer(WithManager(kept), ops, [ph EXCEPT !["cleanup"] = "unknown"])
  <2>1. ops \in [Files -> Outcome]
    BY OutcomeTyping DEF EngineInvariant
  <2>2. WithManager(kept) \in Recovery
    BY DEF WithManager, Recovery, EngineInvariant, TypeOK
  <2>3. [ph EXCEPT !["cleanup"] = "unknown"] \in [PhaseName -> PhaseStatus]
    BY DEF Push, PhaseName, PhaseStatus, EngineInvariant, TypeOK
  <2>4. result' \in Result /\ result'.status = StatusOf(WithManager(kept), ops)
    BY <1>4, <2>1, <2>2, <2>3, AnswerTyping
  <2>5. StatusOf(WithManager(kept), ops) # "applied"
    <3>1. ASSUME NEW f \in Files PROVE ops[f].status # "applied"
      <4>1. FailedOutcome(f).status # "applied"
        BY DEF FailedOutcome
      <4>2. QED
        BY <4>1 DEF InspectedOutcome
    <3>2. QED
      BY <2>1, <3>1, StatusFacts
  <2>6. StatusOf(WithManager(kept), ops) \in {"noop", "reverted", "conflicted"} =>
          Atomic!NoneNew
    <3>1. ASSUME NEW f \in Files, file[f] = "new"
          PROVE  ops[f].status \in {"failed", "unknown"}
      BY <3>1, InspectedNew DEF EngineInvariant, NewIsCovered
    <3>2. QED
      BY <2>1, <3>1, StatusFacts, ContentFacts DEF Atomic!NoneNew
  <2>7. StatusOf(WithManager(kept), ops)
          \in {"unknown", "failed", "reverted", "conflicted", "applied", "noop"}
    BY <2>1, StatusFacts
  <2>8. QED
    BY <1>1, <1>2, <2>4, <2>5, <2>6, <2>7, Concluded
<1>5. QED
  BY <1>1, <1>3, <1>4

\* The last answer: success says so only of whole changes, and a run that
\* turned back leaves none.
LEMMA AnswerCleanedConcludes ==
  ASSUME EngineInvariant, AnswerCleaned
  PROVE  Atomic!Conclude
<1> DEFINE cleaned == pc = "released"
           rec == CASE ~cleaned -> "unknown"
                    [] cleaned /\ exit = "reverted" -> WithManager(recovery)
                    [] cleaned /\ exit = "prepare" /\ manager.unrecovered ->
                         IF err.unknown THEN "unknown" ELSE "partial"
                    [] OTHER -> "not-needed"
           ops == CleanedOutcomes(cleaned)
           st == StatusOf(rec, ops)
<1>1. /\ pc \in {"kept", "released"} /\ UNCHANGED <<file, active, disk>>
      /\ Answer(rec, ops, Push("cleanup", IF cleaned THEN "passed" ELSE "unknown"))
  BY DEF AnswerCleaned, fsVars, jnVars, envVars
<1>2. exit \in Exits \ {"none"} /\ active \in 1..N /\ Evidence' = Evidence
  BY <1>1 DEF EngineInvariant, TypeOK, WellPlaced, Cleaning, Ended, Unlocked,
     Evidence
<1>3. ops \in [Files -> Outcome]
  BY <1>1, <1>2, CleanedTyping DEF EngineInvariant
<1>4. rec \in Recovery
  BY DEF WithManager, Recovery, EngineInvariant, TypeOK
<1>5. Push("cleanup", IF cleaned THEN "passed" ELSE "unknown")
        \in [PhaseName -> PhaseStatus]
  BY DEF Push, PhaseName, PhaseStatus, EngineInvariant, TypeOK
<1>6. result' \in Result /\ result'.status = st
  BY <1>1, <1>3, <1>4, <1>5, AnswerTyping
<1>7. st \in {"unknown", "failed", "reverted", "conflicted", "applied", "noop"}
  BY <1>3, StatusFacts
<1>8. CASE exit = "success"
  <2>1. Atomic!NoneOld
    BY <1>8, ContentFacts
       DEF Atomic!NoneOld, EngineInvariant, SuccessIsWhole, External
  <2>2. CASE ~cleaned
    <3>1. rec = "unknown"
      BY <2>2
    <3>2. st = "unknown"
      BY <3>1 DEF StatusOf
    <3>3. QED
      BY <1>1, <1>2, <1>6, <3>2, Concluded
  <2>3. CASE cleaned
    <3>1. ops = outcome
      BY <1>8, <2>3 DEF CleanedOutcomes
    <3>2. /\ \A f \in Files : ops[f].status \in {"applied", "skipped"}
          /\ 1 \in Files /\ ops[1].status = "applied"
      <4>1. 1 \in Files /\ 1 <= active
        BY <1>2, EngineAssumption DEF Files
      <4>2. \A f \in Files :
              outcome[f].status = IF f <= active THEN "applied" ELSE "skipped"
        BY <1>8 DEF EngineInvariant, SuccessIsWhole
      <4>3. outcome[1].status = "applied"
        BY <4>1, <4>2
      <4>4. \A f \in Files : outcome[f].status \in {"applied", "skipped"}
        BY <4>2
      <4>5. QED
        BY <3>1, <4>1, <4>3, <4>4
    <3>3. rec = "not-needed"
      BY <1>8, <2>3
    <3>4. st = "applied"
      BY <3>2, <3>3 DEF StatusOf
    <3>5. QED
      BY <1>1, <1>2, <1>6, <2>1, <3>4, Concluded
  <2>4. QED
    BY <2>2, <2>3
<1>9. CASE exit # "success"
  <2>1. Atomic!NoneNew
    BY <1>2, <1>9, ContentFacts
       DEF Atomic!NoneNew, EngineInvariant, NewIsCovered, NoneNew
  <2>2. ASSUME NEW f \in Files PROVE ops[f].status # "applied"
    <3>1. FailedOutcome(f).status # "applied"
      BY DEF FailedOutcome
    <3>2. exit = "reverted" => outcome[f].status # "applied"
      BY DEF EngineInvariant, RevertedAppliesNothing
    <3>3. QED
      BY <1>2, <1>9, <3>1, <3>2 DEF CleanedOutcomes, All, Exits
  <2>3. st # "applied"
    BY <1>3, <2>2, StatusFacts
  <2>4. QED
    BY <1>1, <1>2, <1>6, <1>7, <2>1, <2>3, Concluded
<1>10. QED
  BY <1>8, <1>9

----------------------------------------------------------------------------

\* Every step of the engine is a step of AtomicApply, or none.
LEMMA StepRefines ==
  ASSUME EngineInvariant, [Next]_vars
  PROVE  [Atomic!Next]_Atomic!vars
<1>1. CASE Begin
  BY <1>1, InnerSteps, AnswerUnchangedConcludes, RefuseConcludes
     DEF Begin, Atomic!Next
<1>2. CASE Prepare
  BY <1>2, InnerSteps, FirstJournal DEF Prepare, Atomic!Next
<1>3. CASE Commit
  BY <1>3, InnerSteps, RewritingSteps, RenameSteps DEF Commit, Atomic!Next
<1>4. CASE Recover
  BY <1>4, InnerSteps, RewritingSteps, RenameSteps, InspectConcludes
     DEF Recover, Atomic!Next
<1>5. CASE CleanUp
  BY <1>5, InnerSteps, JournalRemoved, AnswerCleanedConcludes
     DEF CleanUp, Atomic!Next
<1>6. CASE Crash \/ MoveLock
  BY <1>6, InnerSteps
<1>7. ASSUME NEW f \in Files, Edit(f) \/ Tamper(f)
      PROVE  [Atomic!Next]_Atomic!vars
  BY <1>7, InnerSteps, EditSteps DEF Atomic!Next
<1>8. CASE UNCHANGED vars
  <2>1. UNCHANGED <<file, active, result, disk>>
    BY <1>8 DEF vars, fsVars, jnVars, ansVars, envVars
  <2>2. QED
    BY <2>1, StutterStep DEF Evidence
<1>9. QED
  BY <1>1, <1>2, <1>3, <1>4, <1>5, <1>6, <1>7, <1>8 DEF Next, Apply

\* The engine starts as AtomicApply does.
LEMMA InitRefines == Init => Atomic!Init
<1> SUFFICES ASSUME Init PROVE Atomic!Init
  OBVIOUS
<1>1. Content \in [Files -> {"idle", "old"}]
  BY DEF Init, Content, Shown, External
<1>2. Evidence = FALSE
  BY DEF Init, Empty, Evidence
<1>3. Told = "none"
  BY DEF Init, Told, NoResult
<1>4. QED
  BY <1>1, <1>2, <1>3 DEF Atomic!Init

\* A run of the engine is a run of AtomicApply, for any number of files, any
\* faults and any interference: a reader of the disk finds old files, new
\* files, or a journal, and the answer fits (engine.ts, applyPlanWithRuntime).
THEOREM EngineImplementsAtomicApply == Spec => ImplementsAtomicApply
<1>1. EngineInvariant /\ [Next]_vars => [Atomic!Next]_Atomic!vars
  BY StepRefines
<1>2. QED
  BY <1>1, InitRefines, EngineInvariance, PTL
     DEF Spec, ImplementsAtomicApply, Atomic!Spec

\* No step of AtomicApply leaves a mixture of old and new files without evidence.
LEMMA AtomicMixtureStep ==
  ASSUME Atomic!MixtureHasEvidence, [Atomic!Next]_Atomic!vars
  PROVE  Atomic!MixtureHasEvidence'
<1> USE DEF Atomic!MixtureHasEvidence, Atomic!NoneNew, Atomic!NoneOld
<1>1. CASE Atomic!Begin
  BY <1>1 DEF Atomic!Begin
<1>2. CASE Atomic!Forget
  BY <1>2 DEF Atomic!Forget
<1>3. CASE Atomic!Conclude
  BY <1>3 DEF Atomic!Conclude
<1>4. ASSUME NEW f \in Files, Atomic!Replace(f)
      PROVE  Atomic!MixtureHasEvidence'
  BY <1>4 DEF Atomic!Replace
<1>5. ASSUME NEW f \in Files, Atomic!Interfere(f)
      PROVE  Atomic!MixtureHasEvidence'
  BY <1>5 DEF Atomic!Interfere
<1>6. CASE UNCHANGED Atomic!vars
  BY <1>6 DEF Atomic!vars
<1>7. QED
  BY <1>1, <1>2, <1>3, <1>4, <1>5, <1>6 DEF Atomic!Next

\* Whatever others do to the files and wherever the engine stops, what is on disk
\* is no mixture of old and new bytes without a journal that says so: what
\* AtomicApply promises holds of every run that implements it (engine.ts).
THEOREM MixtureIsRecorded == Spec => []Atomic!MixtureHasEvidence
<1>1. Atomic!Init => Atomic!MixtureHasEvidence
  BY DEF Atomic!Init, Atomic!MixtureHasEvidence, Atomic!NoneNew
<1>2. QED
  BY <1>1, AtomicMixtureStep, EngineImplementsAtomicApply, PTL
     DEF ImplementsAtomicApply, Atomic!Spec

-----------------------------------------------------------------------------
(* The proofs *)

\* A step that leaves the files, the backups and the attempts alone, and is no
\* last look, keeps the first layer; so does turning to a harmless cleanup.
LEMMA StillKept ==
  ASSUME FilesKept,
         UNCHANGED <<file, backup, attempted, touched, tampered>>,
         pc' \notin {"replace", "restore"},
         exit' = exit \/ (exit' \in Harmless /\ attempted = {})
  PROVE  FilesKept'
BY DEF FilesKept, Looked, Untouched, OriginalKept, NothingTried, Harmless, Files

\* A file of which a completed recovery gives a settled account holds its
\* original bytes.
LEMMA SettledOriginal ==
  ASSUME NEW f, recovery = "completed", Settled(InspectedOutcome(f)),
         f \notin attempted => file[f] = "orig"
  PROVE  file[f] \in OriginalBytes
BY DEF InspectedOutcome, FailedOutcome, Settled, Conflict, OriginalBytes

\* No step disturbs the first layer.
LEMMA FilesStep ==
  ASSUME TypeOK, WellPlaced, JournalFirst, FilesKept
  PROVE  [Next]_vars => FilesKept'
<1> USE DEF fsVars, jnVars, ansVars, envVars
<1>1. ASSUME AnswerUnchanged PROVE FilesKept'
  BY <1>1, StillKept
     DEF AnswerUnchanged, Answer
<1>2. ASSUME Refuse PROVE FilesKept'
  BY <1>2, StillKept
     DEF Refuse, Answer
<1>3. ASSUME TakeLock PROVE FilesKept'
  BY <1>3, StillKept
     DEF TakeLock
<1>4. ASSUME PrepareManagerFails PROVE FilesKept'
  BY <1>4, StillKept
     DEF PrepareManagerFails, Exit, Harmless, JournalFirst, Early, Unrecorded,
         Unstaged, Unlocked
<1>5. ASSUME StageTarget PROVE FilesKept'
  <2>1. /\ pc = "stage" /\ attempted = {} /\ idx \in Files
        /\ exit' = exit \/ exit' = "unjournaled"
        /\ pc' \in {"stage", "create-journal", "fin-check"}
        /\ UNCHANGED <<file, attempted, touched, tampered>>
    BY <1>5, IndexTyping DEF StageTarget, StagingFails, Exit, JournalFirst, Early,
       Unrecorded, Unstaged, Unlocked, OnTarget
  <2>2. \A f \in Files \ touched : file[f] = "orig"
    BY <2>1 DEF FilesKept, Untouched
  <2>3. QED
    BY <2>1, <2>2 DEF FilesKept, Looked, Untouched, OriginalKept, NothingTried,
       Harmless
<1>6. ASSUME CreateJournal PROVE FilesKept'
  BY <1>6, StillKept
     DEF CreateJournal, StagingFails, Exit, Harmless, JournalFirst, Early,
         Unrecorded, Unstaged, Unlocked
<1>7. ASSUME PersistStaged PROVE FilesKept'
  BY <1>7, StillKept
     DEF PersistStaged, StagingFails, Exit, Harmless, JournalFirst, Early,
         Unrecorded, Unstaged, Unlocked
<1>8. ASSUME Precommit PROVE FilesKept'
  BY <1>8, StillKept
     DEF Precommit, Exit, Harmless, JournalFirst, Early, Unrecorded, Unstaged,
         Unlocked
<1>9. ASSUME PersistCommitting PROVE FilesKept'
  BY <1>9, StillKept
     DEF PersistCommitting, CommitFails, Exit, Harmless, JournalFirst, Early,
         Unrecorded, Unstaged, Unlocked
<1>10. ASSUME CheckTarget PROVE FilesKept'
  BY <1>10, StillKept
     DEF CheckTarget, CommitFails, Exit, Harmless
<1>11. ASSUME PersistReplacing PROVE FilesKept'
  BY <1>11, StillKept
     DEF PersistReplacing, CommitFails, Exit, Harmless
<1>12. ASSUME FinalCheck PROVE FilesKept'
  <2>1. CASE pc' = "replace"
    <3>1. /\ file[idx] = "orig" /\ backup[idx] = "ok"
          /\ UNCHANGED <<idx, file, backup, attempted, exit, touched, tampered>>
      BY <1>12, <2>1 DEF FinalCheck, FinalError, SourceError, CommitFails, Exit
    <3>2. QED
      BY <2>1, <3>1 DEF FilesKept, Looked, Untouched, OriginalKept, NothingTried,
         External, Files
  <2>2. CASE pc' # "replace"
    BY <1>12, <2>2, StillKept DEF FinalCheck, CommitFails, Exit, Harmless
  <2>3. QED
    BY <2>1, <2>2
<1>13. ASSUME Replace PROVE FilesKept'
  <2>1. /\ pc = "replace" /\ idx \in Files /\ exit = "none"
        /\ idx \notin tampered => backup[idx] = "ok"
    BY <1>13, IndexTyping DEF Replace, OnTarget, WellPlaced, Cleaning, Ended,
       FilesKept, Looked
  <2>2. /\ attempted' = attempted \cup {idx} /\ pc' \notin {"replace", "restore"}
        /\ \/ UNCHANGED file
           \/ \E c \in {"new", "ext"} : file' = [file EXCEPT ![idx] = c]
        /\ UNCHANGED <<backup, exit, touched, tampered>>
    BY <1>13 DEF Replace, CommitFails, Exit
  <2>3. QED
    BY <2>1, <2>2 DEF FilesKept, Looked, Untouched, OriginalKept, NothingTried,
       Harmless, TypeOK
<1>14. ASSUME SettleReplace PROVE FilesKept'
  BY <1>14, StillKept
     DEF SettleReplace, CommitFails, Exit, Harmless
<1>15. ASSUME RunManager PROVE FilesKept'
  BY <1>15, StillKept
     DEF RunManager
<1>16. ASSUME Observe PROVE FilesKept'
  <2>1. exit' = exit \/ exit' = "success" \/ (exit' = "zero" /\ attempted = {})
    BY <1>16 DEF Observe, CommitFails, Exit
  <2>2. /\ pc' \notin {"replace", "restore"}
        /\ UNCHANGED <<file, backup, attempted, touched, tampered>>
    BY <1>16 DEF Observe, CommitFails, Exit
  <2>3. QED
    BY <2>1, <2>2, StillKept DEF FilesKept, Looked, Untouched, OriginalKept,
       NothingTried, Harmless, Files
<1>17. ASSUME Recovering PROVE FilesKept'
  BY <1>17, StillKept
     DEF Recovering
<1>18. ASSUME NoteFailure PROVE FilesKept'
  BY <1>18, StillKept
     DEF NoteFailure
<1>19. ASSUME RecoverTarget PROVE FilesKept'
  <2>1. CASE pc' = "restore"
    <3>1. /\ file[idx] = "new" /\ backup[idx] = "ok" /\ idx \in attempted
          /\ UNCHANGED <<idx, file, backup, attempted, exit, touched, tampered>>
      BY <1>19, <2>1 DEF RecoverTarget, RecoverFails
    <3>2. QED
      BY <2>1, <3>1 DEF FilesKept, Looked, Untouched, OriginalKept, NothingTried,
         External, Files
  <2>2. CASE pc' # "restore"
    BY <1>19, <2>2, StillKept DEF RecoverTarget, RecoverFails
  <2>3. QED
    BY <2>1, <2>2
<1>20. ASSUME Restore PROVE FilesKept'
  <2>1. /\ pc = "restore" /\ idx \in Files /\ exit = "none"
        /\ idx \notin tampered => backup[idx] = "ok"
        /\ idx \in attempted
    BY <1>20, IndexTyping DEF Restore, OnTarget, WellPlaced, Cleaning, Ended,
       FilesKept, Looked
  <2>2. CASE pc' = "note-failure"
    BY <1>20, <2>2, StillKept DEF Restore, RecoverFails
  <2>3. CASE pc' = "settle-restore"
    BY <1>20, <2>1, <2>3 DEF Restore, RecoverFails, FilesKept, Looked, Untouched,
       OriginalKept, NothingTried, Harmless, TypeOK
  <2>4. QED
    BY <1>20, <2>2, <2>3 DEF Restore, RecoverFails
<1>21. ASSUME SettleRestore PROVE FilesKept'
  BY <1>21, StillKept
     DEF SettleRestore, RecoverFails
<1>22. ASSUME FinishRecovery PROVE FilesKept'
  BY <1>22, StillKept
     DEF FinishRecovery
<1>23. ASSUME Inspect PROVE FilesKept'
  <2>1. CASE exit' = exit
    BY <1>23, <2>1, StillKept DEF Inspect, Answer, Exit
  <2>2. CASE exit' # exit
    <3>1. /\ exit' = "reverted" /\ pc' = "fin-check"
          /\ \A f \in Files : Settled(InspectedOutcome(f))
          /\ recovery = "completed"
          /\ UNCHANGED <<file, backup, attempted, touched, tampered>>
      BY <1>23, <2>2 DEF Inspect, Exit
    <3>2. ASSUME NEW f \in Files \ touched
          PROVE  file[f] \in {"orig", "restored"}
      BY <3>1, SettledOriginal DEF FilesKept, Untouched, OriginalBytes
    <3>3. QED
      BY <3>1, <3>2 DEF FilesKept, Looked, Untouched, OriginalKept, NothingTried,
         Harmless
  <2>3. QED
    BY <2>1, <2>2
<1>24. ASSUME FinCheck PROVE FilesKept'
  BY <1>24, StillKept
     DEF FinCheck
<1>25. ASSUME FinTemp PROVE FilesKept'
  <2>1. pc = "fin-temp" /\ exit # "none"
    BY <1>25 DEF FinTemp, WellPlaced, Cleaning, Ended
  <2>2. /\ pc' \notin {"replace", "restore"}
        /\ UNCHANGED <<file, attempted, exit, touched, tampered>>
    BY <1>25, <2>1 DEF FinTemp
  <2>3. QED
    BY <2>1, <2>2 DEF FilesKept, Looked, Untouched, OriginalKept, NothingTried,
       Files
<1>26. ASSUME FinJournal PROVE FilesKept'
  BY <1>26, StillKept
     DEF FinJournal
<1>27. ASSUME FinRelease PROVE FilesKept'
  BY <1>27, StillKept
     DEF FinRelease
<1>28. ASSUME AnswerCleaned PROVE FilesKept'
  BY <1>28, StillKept
     DEF AnswerCleaned, Answer
<1>29. ASSUME Crash PROVE FilesKept'
  BY <1>29, StillKept
     DEF Crash
<1>30. ASSUME NEW f \in Files, Edit(f) PROVE FilesKept'
  BY <1>30
     DEF Edit, Others, FilesKept, Looked, Untouched, OriginalKept,
         NothingTried, TypeOK, External, Files
<1>31. ASSUME NEW t \in Files, Tamper(t) PROVE FilesKept'
  <2>1. /\ UNCHANGED <<pc, idx, file, attempted, exit, touched, raced>>
        /\ tampered \subseteq tampered'
        /\ \A u \in Files : u \notin tampered' => backup'[u] = backup[u]
        /\ pc \in {"replace", "restore"} => idx \in Files
    BY <1>31, IndexTyping DEF Tamper, TypeOK, OnTarget
  <2>2. QED
    BY <2>1 DEF FilesKept, Looked, Untouched, OriginalKept, NothingTried, Files
<1>32. ASSUME MoveLock PROVE FilesKept'
  BY <1>32
     DEF MoveLock, Others, FilesKept, Looked, Untouched, OriginalKept,
         NothingTried, Files
<1>33. ASSUME UNCHANGED vars PROVE FilesKept'
  BY <1>33 DEF vars, FilesKept, Looked, Untouched, OriginalKept, NothingTried, Files
<1>34. QED
  BY <1>1, <1>2, <1>3, <1>4, <1>5, <1>6, <1>7, <1>8, <1>9, <1>10, <1>11, <1>12,
     <1>13, <1>14, <1>15, <1>16, <1>17, <1>18, <1>19, <1>20, <1>21, <1>22,
     <1>23, <1>24, <1>25, <1>26, <1>27, <1>28, <1>29, <1>30, <1>31, <1>32,
     <1>33
     DEF Next, Apply, Begin, Prepare, Commit, Recover, CleanUp

\* Who turns back has tried a rename.
LEMMA TriedStep ==
  ASSUME TypeOK, WellPlaced, JournalFirst, TriedBeforeRecovery
  PROVE  [Next]_vars => TriedBeforeRecovery'
<1> USE DEF fsVars, jnVars, ansVars, envVars
<1>1. ASSUME AnswerUnchanged PROVE TriedBeforeRecovery'
  BY <1>1
     DEF AnswerUnchanged, Answer, TriedBeforeRecovery, TurningBack, Restoring,
         WellPlaced, Cleaning, Ended, TypeOK
<1>2. ASSUME Refuse PROVE TriedBeforeRecovery'
  BY <1>2
     DEF Refuse, Answer, TriedBeforeRecovery, TurningBack, Restoring,
         WellPlaced, Cleaning, Ended, TypeOK
<1>3. ASSUME TakeLock PROVE TriedBeforeRecovery'
  BY <1>3
     DEF TakeLock, TriedBeforeRecovery, TurningBack, Restoring, WellPlaced,
         Cleaning, Ended, TypeOK
<1>4. ASSUME PrepareManagerFails PROVE TriedBeforeRecovery'
  BY <1>4
     DEF PrepareManagerFails, Exit, TriedBeforeRecovery, TurningBack,
         Restoring, WellPlaced, Cleaning, Ended, TypeOK
<1>5. ASSUME StageTarget PROVE TriedBeforeRecovery'
  BY <1>5
     DEF StageTarget, StagingFails, Exit, TriedBeforeRecovery, TurningBack,
         Restoring, WellPlaced, Cleaning, Ended, TypeOK
<1>6. ASSUME CreateJournal PROVE TriedBeforeRecovery'
  BY <1>6
     DEF CreateJournal, StagingFails, Exit, TriedBeforeRecovery, TurningBack,
         Restoring, WellPlaced, Cleaning, Ended, TypeOK
<1>7. ASSUME PersistStaged PROVE TriedBeforeRecovery'
  BY <1>7
     DEF PersistStaged, StagingFails, Exit, TriedBeforeRecovery, TurningBack,
         Restoring, WellPlaced, Cleaning, Ended, TypeOK
<1>8. ASSUME Precommit PROVE TriedBeforeRecovery'
  BY <1>8
     DEF Precommit, Exit, TriedBeforeRecovery, TurningBack, Restoring,
         WellPlaced, Cleaning, Ended, TypeOK
<1>9. ASSUME PersistCommitting PROVE TriedBeforeRecovery'
  <2>1. CASE pc' = "check"
    <3>1. ~(idx' > 1) /\ exit' = exit /\ exit = "none"
      BY <1>9, <2>1 DEF PersistCommitting, CommitFails, Exit, WellPlaced, Cleaning,
         Ended
    <3>2. QED
      BY <2>1, <3>1 DEF TriedBeforeRecovery, TurningBack, Restoring
  <2>2. CASE pc' # "check"
    BY <1>9, <2>2
       DEF PersistCommitting, CommitFails, Exit, TriedBeforeRecovery, TurningBack,
         Restoring, WellPlaced, Cleaning, Ended
  <2>3. QED
    BY <2>1, <2>2
<1>10. ASSUME CheckTarget PROVE TriedBeforeRecovery'
  BY <1>10
     DEF CheckTarget, CommitFails, Exit, TriedBeforeRecovery, TurningBack,
         Restoring, WellPlaced, Cleaning, Ended, TypeOK
<1>11. ASSUME PersistReplacing PROVE TriedBeforeRecovery'
  BY <1>11
     DEF PersistReplacing, CommitFails, Exit, TriedBeforeRecovery, TurningBack,
         Restoring, WellPlaced, Cleaning, Ended, TypeOK
<1>12. ASSUME FinalCheck PROVE TriedBeforeRecovery'
  BY <1>12
     DEF FinalCheck, CommitFails, Exit, TriedBeforeRecovery, TurningBack,
         Restoring, WellPlaced, Cleaning, Ended, TypeOK
<1>13. ASSUME Replace PROVE TriedBeforeRecovery'
  BY <1>13
     DEF Replace, CommitFails, Exit, TriedBeforeRecovery, TurningBack,
         Restoring, WellPlaced, Cleaning, Ended, TypeOK
<1>14. ASSUME SettleReplace PROVE TriedBeforeRecovery'
  BY <1>14
     DEF SettleReplace, CommitFails, Exit, TriedBeforeRecovery, TurningBack,
         Restoring, WellPlaced, Cleaning, Ended, TypeOK
<1>15. ASSUME RunManager PROVE TriedBeforeRecovery'
  <2>1. idx > 1 /\ pc = "check" /\ exit = "none"
    BY <1>15 DEF RunManager, WellPlaced, TypeOK, Unlocked, Cleaning, Ended
  <2>2. UNCHANGED <<exit, attempted>> /\ pc' \in {"observe", "recovering"}
    BY <1>15 DEF RunManager
  <2>3. QED
    BY <2>1, <2>2 DEF TriedBeforeRecovery, TurningBack, Restoring
<1>16. ASSUME Observe PROVE TriedBeforeRecovery'
  BY <1>16
     DEF Observe, CommitFails, Exit, TriedBeforeRecovery, TurningBack,
         Restoring, WellPlaced, Cleaning, Ended, TypeOK
<1>17. ASSUME Recovering PROVE TriedBeforeRecovery'
  BY <1>17
     DEF Recovering, TriedBeforeRecovery, TurningBack, Restoring, WellPlaced,
         Cleaning, Ended, TypeOK
<1>18. ASSUME NoteFailure PROVE TriedBeforeRecovery'
  BY <1>18
     DEF NoteFailure, TriedBeforeRecovery, TurningBack, Restoring, WellPlaced,
         Cleaning, Ended, TypeOK
<1>19. ASSUME RecoverTarget PROVE TriedBeforeRecovery'
  BY <1>19
     DEF RecoverTarget, RecoverFails, TriedBeforeRecovery, TurningBack,
         Restoring, WellPlaced, Cleaning, Ended, TypeOK
<1>20. ASSUME Restore PROVE TriedBeforeRecovery'
  BY <1>20
     DEF Restore, RecoverFails, TriedBeforeRecovery, TurningBack, Restoring,
         WellPlaced, Cleaning, Ended, TypeOK
<1>21. ASSUME SettleRestore PROVE TriedBeforeRecovery'
  BY <1>21
     DEF SettleRestore, RecoverFails, TriedBeforeRecovery, TurningBack,
         Restoring, WellPlaced, Cleaning, Ended, TypeOK
<1>22. ASSUME FinishRecovery PROVE TriedBeforeRecovery'
  BY <1>22
     DEF FinishRecovery, TriedBeforeRecovery, TurningBack, Restoring,
         WellPlaced, Cleaning, Ended, TypeOK
<1>23. ASSUME Inspect PROVE TriedBeforeRecovery'
  BY <1>23
     DEF Inspect, Answer, Exit, TriedBeforeRecovery, TurningBack, Restoring,
         WellPlaced, Cleaning, Ended, TypeOK
<1>24. ASSUME FinCheck PROVE TriedBeforeRecovery'
  BY <1>24
     DEF FinCheck, TriedBeforeRecovery, TurningBack, Restoring, WellPlaced,
         Cleaning, Ended, TypeOK
<1>25. ASSUME FinTemp PROVE TriedBeforeRecovery'
  BY <1>25
     DEF FinTemp, TriedBeforeRecovery, TurningBack, Restoring, WellPlaced,
         Cleaning, Ended, TypeOK
<1>26. ASSUME FinJournal PROVE TriedBeforeRecovery'
  BY <1>26
     DEF FinJournal, TriedBeforeRecovery, TurningBack, Restoring, WellPlaced,
         Cleaning, Ended, TypeOK
<1>27. ASSUME FinRelease PROVE TriedBeforeRecovery'
  BY <1>27
     DEF FinRelease, TriedBeforeRecovery, TurningBack, Restoring, WellPlaced,
         Cleaning, Ended, TypeOK
<1>28. ASSUME AnswerCleaned PROVE TriedBeforeRecovery'
  BY <1>28
     DEF AnswerCleaned, Answer, TriedBeforeRecovery, TurningBack, Restoring,
         WellPlaced, Cleaning, Ended, TypeOK
<1>29. ASSUME Crash PROVE TriedBeforeRecovery'
  BY <1>29
     DEF Crash, TriedBeforeRecovery, TurningBack, Restoring, WellPlaced,
         Cleaning, Ended, TypeOK
<1>30. ASSUME NEW f \in Files, Edit(f) PROVE TriedBeforeRecovery'
  BY <1>30
     DEF Edit, Others, TriedBeforeRecovery, TurningBack, Restoring, WellPlaced,
         Cleaning, Ended, TypeOK
<1>31. ASSUME NEW t \in Files, Tamper(t) PROVE TriedBeforeRecovery'
  BY <1>31
     DEF Tamper, Others, TriedBeforeRecovery, TurningBack, Restoring,
         WellPlaced, Cleaning, Ended, TypeOK
<1>32. ASSUME MoveLock PROVE TriedBeforeRecovery'
  BY <1>32
     DEF MoveLock, Others, TriedBeforeRecovery, TurningBack, Restoring,
         WellPlaced, Cleaning, Ended, TypeOK
<1>33. ASSUME UNCHANGED vars PROVE TriedBeforeRecovery'
  BY <1>33
     DEF vars, TriedBeforeRecovery, TurningBack, Restoring, WellPlaced,
         Cleaning, Ended, TypeOK
<1>34. QED
  BY <1>1, <1>2, <1>3, <1>4, <1>5, <1>6, <1>7, <1>8, <1>9, <1>10, <1>11, <1>12,
     <1>13, <1>14, <1>15, <1>16, <1>17, <1>18, <1>19, <1>20, <1>21, <1>22,
     <1>23, <1>24, <1>25, <1>26, <1>27, <1>28, <1>29, <1>30, <1>31, <1>32,
     <1>33
     DEF Next, Apply, Begin, Prepare, Commit, Recover, CleanUp

\* A settled account of a completed recovery calls a file reverted if its
\* replacement was tried, and otherwise failed or the cause of the conflict.
LEMMA SettledOutcome ==
  ASSUME NEW f, recovery = "completed", Settled(InspectedOutcome(f))
  PROVE  LET o == InspectedOutcome(f) IN
         \/ o.status = "reverted"
         \/ o.status = "failed" /\ f \notin attempted
         \/ /\ o.status = "conflicted" /\ f \notin attempted
            /\ o.reason = err.reason /\ err.reason \in Conflict
BY DEF InspectedOutcome, FailedOutcome, Settled

\* No step makes a recorded outcome untrue.
LEMMA RecordedStep ==
  ASSUME TypeOK, WellPlaced, JournalFirst, OutcomesRecorded
  PROVE  [Next]_vars => OutcomesRecorded'
<1> USE DEF fsVars, jnVars, ansVars, envVars
<1>1. ASSUME AnswerUnchanged PROVE OutcomesRecorded'
  BY <1>1
     DEF AnswerUnchanged, Answer, OutcomesRecorded, WellPlaced, Cleaning,
         Ended, OnTarget
<1>2. ASSUME Refuse PROVE OutcomesRecorded'
  BY <1>2
     DEF Refuse, Answer, OutcomesRecorded, WellPlaced, Cleaning, Ended,
         OnTarget
<1>3. ASSUME TakeLock PROVE OutcomesRecorded'
  BY <1>3
     DEF TakeLock, OutcomesRecorded, WellPlaced, Cleaning, Ended, OnTarget
<1>4. ASSUME PrepareManagerFails PROVE OutcomesRecorded'
  BY <1>4
     DEF PrepareManagerFails, Exit, OutcomesRecorded, WellPlaced, Cleaning,
         Ended, OnTarget
<1>5. ASSUME StageTarget PROVE OutcomesRecorded'
  BY <1>5
     DEF StageTarget, StagingFails, Exit, OutcomesRecorded, WellPlaced,
         Cleaning, Ended, OnTarget
<1>6. ASSUME CreateJournal PROVE OutcomesRecorded'
  BY <1>6
     DEF CreateJournal, StagingFails, Exit, OutcomesRecorded, WellPlaced,
         Cleaning, Ended, OnTarget
<1>7. ASSUME PersistStaged PROVE OutcomesRecorded'
  BY <1>7
     DEF PersistStaged, StagingFails, Exit, OutcomesRecorded, WellPlaced,
         Cleaning, Ended, OnTarget
<1>8. ASSUME Precommit PROVE OutcomesRecorded'
  BY <1>8
     DEF Precommit, Exit, OutcomesRecorded, WellPlaced, Cleaning, Ended,
         OnTarget
<1>9. ASSUME PersistCommitting PROVE OutcomesRecorded'
  BY <1>9
     DEF PersistCommitting, CommitFails, Exit, OutcomesRecorded, WellPlaced,
         Cleaning, Ended, OnTarget
<1>10. ASSUME CheckTarget PROVE OutcomesRecorded'
  BY <1>10
     DEF CheckTarget, CommitFails, Exit, OutcomesRecorded, WellPlaced,
         Cleaning, Ended, OnTarget
<1>11. ASSUME PersistReplacing PROVE OutcomesRecorded'
  BY <1>11
     DEF PersistReplacing, CommitFails, Exit, OutcomesRecorded, WellPlaced,
         Cleaning, Ended, OnTarget
<1>12. ASSUME FinalCheck PROVE OutcomesRecorded'
  BY <1>12
     DEF FinalCheck, CommitFails, Exit, OutcomesRecorded, WellPlaced, Cleaning,
         Ended, OnTarget
<1>13. ASSUME Replace PROVE OutcomesRecorded'
  BY <1>13
     DEF Replace, CommitFails, Exit, OutcomesRecorded, WellPlaced, Cleaning,
         Ended, OnTarget
<1>14. ASSUME SettleReplace PROVE OutcomesRecorded'
  BY <1>14
     DEF SettleReplace, CommitFails, Exit, OutcomesRecorded, WellPlaced,
         Cleaning, Ended, OnTarget
<1>15. ASSUME RunManager PROVE OutcomesRecorded'
  BY <1>15
     DEF RunManager, OutcomesRecorded, WellPlaced, Cleaning, Ended, OnTarget
<1>16. ASSUME Observe PROVE OutcomesRecorded'
  BY <1>16
     DEF Observe, CommitFails, Exit, SuccessOutcome, OutcomesRecorded,
         WellPlaced, Cleaning, Ended
<1>17. ASSUME Recovering PROVE OutcomesRecorded'
  BY <1>17
     DEF Recovering, OutcomesRecorded, WellPlaced, Cleaning, Ended, OnTarget
<1>18. ASSUME NoteFailure PROVE OutcomesRecorded'
  BY <1>18
     DEF NoteFailure, OutcomesRecorded, WellPlaced, Cleaning, Ended, OnTarget
<1>19. ASSUME RecoverTarget PROVE OutcomesRecorded'
  BY <1>19
     DEF RecoverTarget, RecoverFails, OutcomesRecorded, WellPlaced, Cleaning,
         Ended, OnTarget
<1>20. ASSUME Restore PROVE OutcomesRecorded'
  BY <1>20
     DEF Restore, RecoverFails, OutcomesRecorded, WellPlaced, Cleaning, Ended,
         OnTarget
<1>21. ASSUME SettleRestore PROVE OutcomesRecorded'
  BY <1>21
     DEF SettleRestore, RecoverFails, OutcomesRecorded, WellPlaced, Cleaning,
         Ended, OnTarget
<1>22. ASSUME FinishRecovery PROVE OutcomesRecorded'
  BY <1>22
     DEF FinishRecovery, OutcomesRecorded, WellPlaced, Cleaning, Ended,
         OnTarget
<1>23. ASSUME Inspect PROVE OutcomesRecorded'
  <2>1. pc = "inspect" /\ exit = "none"
    BY <1>23 DEF Inspect, WellPlaced, Cleaning, Ended
  <2>2. CASE exit' = exit
    BY <2>1, <2>2 DEF OutcomesRecorded
  <2>3. CASE exit' # exit
    <3>1. /\ exit' = "reverted" /\ recovery' = "completed"
          /\ recovery = "completed"
          /\ outcome' = [f \in Files |-> InspectedOutcome(f)]
          /\ \A f \in Files : Settled(InspectedOutcome(f))
          /\ UNCHANGED <<attempted, err>>
      BY <1>23, <2>3 DEF Inspect, Exit
    <3>2. QED
      BY <3>1, SettledOutcome DEF OutcomesRecorded
  <2>4. QED
    BY <2>2, <2>3
<1>24. ASSUME FinCheck PROVE OutcomesRecorded'
  BY <1>24
     DEF FinCheck, OutcomesRecorded, WellPlaced, Cleaning, Ended, OnTarget
<1>25. ASSUME FinTemp PROVE OutcomesRecorded'
  BY <1>25
     DEF FinTemp, OutcomesRecorded, WellPlaced, Cleaning, Ended, OnTarget
<1>26. ASSUME FinJournal PROVE OutcomesRecorded'
  BY <1>26
     DEF FinJournal, OutcomesRecorded, WellPlaced, Cleaning, Ended, OnTarget
<1>27. ASSUME FinRelease PROVE OutcomesRecorded'
  BY <1>27
     DEF FinRelease, OutcomesRecorded, WellPlaced, Cleaning, Ended, OnTarget
<1>28. ASSUME AnswerCleaned PROVE OutcomesRecorded'
  BY <1>28
     DEF AnswerCleaned, Answer, OutcomesRecorded, WellPlaced, Cleaning, Ended,
         OnTarget
<1>29. ASSUME Crash PROVE OutcomesRecorded'
  BY <1>29
     DEF Crash, OutcomesRecorded, WellPlaced, Cleaning, Ended, OnTarget
<1>30. ASSUME NEW f \in Files, Edit(f) PROVE OutcomesRecorded'
  BY <1>30
     DEF Edit, Others, OutcomesRecorded, WellPlaced, Cleaning, Ended, OnTarget
<1>31. ASSUME NEW t \in Files, Tamper(t) PROVE OutcomesRecorded'
  BY <1>31
     DEF Tamper, Others, OutcomesRecorded, WellPlaced, Cleaning, Ended,
         OnTarget
<1>32. ASSUME MoveLock PROVE OutcomesRecorded'
  BY <1>32
     DEF MoveLock, Others, OutcomesRecorded, WellPlaced, Cleaning, Ended,
         OnTarget
<1>33. ASSUME UNCHANGED vars PROVE OutcomesRecorded'
  BY <1>33
     DEF vars, OutcomesRecorded, WellPlaced, Cleaning, Ended, OnTarget
<1>34. QED
  BY <1>1, <1>2, <1>3, <1>4, <1>5, <1>6, <1>7, <1>8, <1>9, <1>10, <1>11, <1>12,
     <1>13, <1>14, <1>15, <1>16, <1>17, <1>18, <1>19, <1>20, <1>21, <1>22,
     <1>23, <1>24, <1>25, <1>26, <1>27, <1>28, <1>29, <1>30, <1>31, <1>32,
     <1>33
     DEF Next, Apply, Begin, Prepare, Commit, Recover, CleanUp

\* No step leaves behind what an answer will say is gone.
LEMMA TidyStep ==
  ASSUME TypeOK, WellPlaced, JournalFirst, Tidy
  PROVE  [Next]_vars => Tidy'
<1> USE DEF fsVars, jnVars, ansVars, envVars
<1>1. ASSUME AnswerUnchanged PROVE Tidy'
  BY <1>1
     DEF AnswerUnchanged, Answer, Tidy, Bare, WellPlaced, Cleaning, Ended,
         Unstaged, Unlocked
<1>2. ASSUME Refuse PROVE Tidy'
  BY <1>2
     DEF Refuse, Answer, Tidy, Bare, WellPlaced, Cleaning, Ended, Unstaged,
         Unlocked
<1>3. ASSUME TakeLock PROVE Tidy'
  BY <1>3
     DEF TakeLock, Tidy, Bare, WellPlaced, Cleaning, Ended, Unstaged, Unlocked
<1>4. ASSUME PrepareManagerFails PROVE Tidy'
  BY <1>4
     DEF PrepareManagerFails, Exit, Tidy, Bare, WellPlaced, Cleaning, Ended,
         Unstaged, Unlocked, TypeOK, Files
<1>5. ASSUME StageTarget PROVE Tidy'
  <2>1. /\ pc = "stage" /\ exit = "none" /\ idx \in Files /\ idx <= active
        /\ idx \in Nat /\ active \in Nat
    BY <1>5, IndexTyping DEF StageTarget, WellPlaced, OnTarget, Cleaning, Ended,
       TypeOK
  <2>2. /\ \/ pc' = "stage" /\ idx' = idx + 1 /\ exit' = exit
           \/ pc' = "create-journal" /\ exit' = exit
           \/ pc' = "fin-check" /\ exit' = "unjournaled"
        /\ \A t \in Files \ {idx} : stage'[t] = stage[t] /\ backup'[t] = backup[t]
        /\ UNCHANGED <<run, disk, active>>
    BY <1>5 DEF StageTarget, StagingFails, Exit, TypeOK
  <2>3. QED
    BY <2>1, <2>2 DEF Tidy, Bare, Unstaged, Unlocked, Files
<1>6. ASSUME CreateJournal PROVE Tidy'
  BY <1>6
     DEF CreateJournal, StagingFails, Exit, Tidy, Bare, WellPlaced, Cleaning,
         Ended, Unstaged, Unlocked
<1>7. ASSUME PersistStaged PROVE Tidy'
  BY <1>7
     DEF PersistStaged, StagingFails, Exit, Tidy, Bare, WellPlaced, Cleaning,
         Ended, Unstaged, Unlocked
<1>8. ASSUME Precommit PROVE Tidy'
  BY <1>8
     DEF Precommit, Exit, Tidy, Bare, WellPlaced, Cleaning, Ended, Unstaged,
         Unlocked
<1>9. ASSUME PersistCommitting PROVE Tidy'
  BY <1>9
     DEF PersistCommitting, CommitFails, Exit, Tidy, Bare, WellPlaced,
         Cleaning, Ended, Unstaged, Unlocked
<1>10. ASSUME CheckTarget PROVE Tidy'
  BY <1>10
     DEF CheckTarget, CommitFails, Exit, Tidy, Bare, WellPlaced, Cleaning,
         Ended, Unstaged, Unlocked
<1>11. ASSUME PersistReplacing PROVE Tidy'
  BY <1>11
     DEF PersistReplacing, CommitFails, Exit, Tidy, Bare, WellPlaced, Cleaning,
         Ended, Unstaged, Unlocked
<1>12. ASSUME FinalCheck PROVE Tidy'
  BY <1>12
     DEF FinalCheck, CommitFails, Exit, Tidy, Bare, WellPlaced, Cleaning,
         Ended, Unstaged, Unlocked
<1>13. ASSUME Replace PROVE Tidy'
  <2>1. /\ exit = "none" /\ idx \in Files /\ idx <= active
        /\ idx \in Nat /\ active \in Nat
    BY <1>13, IndexTyping DEF Replace, WellPlaced, OnTarget, Cleaning, Ended, TypeOK
  <2>2. /\ pc' \in {"settle-replace", "fin-check", "recovering"}
        /\ exit' \in {exit, "zero"}
        /\ \A t \in Files \ {idx} : stage'[t] = stage[t] /\ backup'[t] = backup[t]
        /\ UNCHANGED active
    BY <1>13 DEF Replace, CommitFails, Exit, TypeOK
  <2>3. QED
    BY <2>1, <2>2 DEF Tidy, Bare, Unstaged, Unlocked, Files
<1>14. ASSUME SettleReplace PROVE Tidy'
  BY <1>14
     DEF SettleReplace, CommitFails, Exit, Tidy, Bare, WellPlaced, Cleaning,
         Ended, Unstaged, Unlocked
<1>15. ASSUME RunManager PROVE Tidy'
  BY <1>15
     DEF RunManager, Tidy, Bare, WellPlaced, Cleaning, Ended, Unstaged,
         Unlocked
<1>16. ASSUME Observe PROVE Tidy'
  BY <1>16
     DEF Observe, CommitFails, Exit, Tidy, Bare, WellPlaced, Cleaning, Ended,
         Unstaged, Unlocked
<1>17. ASSUME Recovering PROVE Tidy'
  BY <1>17
     DEF Recovering, Tidy, Bare, WellPlaced, Cleaning, Ended, Unstaged,
         Unlocked
<1>18. ASSUME NoteFailure PROVE Tidy'
  BY <1>18
     DEF NoteFailure, Tidy, Bare, WellPlaced, Cleaning, Ended, Unstaged,
         Unlocked
<1>19. ASSUME RecoverTarget PROVE Tidy'
  BY <1>19
     DEF RecoverTarget, RecoverFails, Tidy, Bare, WellPlaced, Cleaning, Ended,
         Unstaged, Unlocked
<1>20. ASSUME Restore PROVE Tidy'
  <2>1. /\ exit = "none" /\ idx \in Files /\ idx <= active
        /\ idx \in Nat /\ active \in Nat
    BY <1>20, IndexTyping DEF Restore, WellPlaced, OnTarget, Cleaning, Ended, TypeOK
  <2>2. /\ pc' \in {"settle-restore", "note-failure"}
        /\ exit' \in {exit, "zero"}
        /\ \A t \in Files \ {idx} : stage'[t] = stage[t] /\ backup'[t] = backup[t]
        /\ UNCHANGED active
    BY <1>20 DEF Restore, RecoverFails, TypeOK
  <2>3. QED
    BY <2>1, <2>2 DEF Tidy, Bare, Unstaged, Unlocked, Files
<1>21. ASSUME SettleRestore PROVE Tidy'
  BY <1>21
     DEF SettleRestore, RecoverFails, Tidy, Bare, WellPlaced, Cleaning, Ended,
         Unstaged, Unlocked
<1>22. ASSUME FinishRecovery PROVE Tidy'
  BY <1>22
     DEF FinishRecovery, Tidy, Bare, WellPlaced, Cleaning, Ended, Unstaged,
         Unlocked
<1>23. ASSUME Inspect PROVE Tidy'
  BY <1>23
     DEF Inspect, Answer, Exit, Tidy, Bare, WellPlaced, Cleaning, Ended,
         Unstaged, Unlocked
<1>24. ASSUME FinCheck PROVE Tidy'
  BY <1>24
     DEF FinCheck, Tidy, Bare, WellPlaced, Cleaning, Ended, Unstaged, Unlocked,
         TypeOK, Files
<1>25. ASSUME FinTemp PROVE Tidy'
  <2>1. /\ pc = "fin-temp" /\ exit # "none" /\ exit' = exit
        /\ UNCHANGED <<run, disk, active, lock>>
        /\ idx \in Nat /\ active \in Nat
    BY <1>25 DEF FinTemp, WellPlaced, Cleaning, Ended, TypeOK
  <2>2. CASE idx <= active
    <3>0. /\ pc' = "fin-temp" /\ idx' = idx + 1
          /\ \/ /\ stage' = [stage EXCEPT ![idx] = Removed(stage[idx])]
                /\ backup' = [backup EXCEPT ![idx] = Removed(backup[idx])]
                /\ clean' = (clean /\ stage[idx] # "foreign"
                                   /\ backup[idx] # "foreign")
             \/ /\ stage' \in {stage, [stage EXCEPT ![idx] = Removed(stage[idx])]}
                /\ backup' \in {backup, [backup EXCEPT ![idx] = Removed(backup[idx])]}
                /\ clean' = FALSE
      <4>1. ~(idx > active)
        BY <2>1, <2>2
      <4>2. QED
        BY <1>25, <4>1, Zenon DEF FinTemp
    <3>1. /\ pc' = "fin-temp" /\ idx' = idx + 1
          /\ clean' => /\ clean
                       /\ stage' = [stage EXCEPT ![idx] = Removed(stage[idx])]
                       /\ backup' = [backup EXCEPT ![idx] = Removed(backup[idx])]
                       /\ stage[idx] # "foreign" /\ backup[idx] # "foreign"
          /\ stage' \in {stage, [stage EXCEPT ![idx] = Removed(stage[idx])]}
          /\ backup' \in {backup, [backup EXCEPT ![idx] = Removed(backup[idx])]}
      BY <3>0, Zenon
    <3>2. \A t \in Files : Bare(t) => (Bare(t))'
      BY <3>1 DEF Bare, Removed, TypeOK
    <3>3. clean' => \A t \in Files : t < idx' => (Bare(t))'
      <4>1. SUFFICES ASSUME clean', NEW t \in Files, t < idx'
                     PROVE  (Bare(t))'
        OBVIOUS
      <4>2. CASE t = idx
        BY <3>1, <4>1, <4>2 DEF Bare, Removed, TypeOK
      <4>3. CASE t # idx
        <5>1. t < idx
          BY <2>1, <3>1, <4>1, <4>3 DEF Files
        <5>2. QED
          BY <2>1, <3>1, <3>2, <4>1, <5>1 DEF Tidy
      <4>4. QED
        BY <4>2, <4>3
    <3>4. QED
      BY <2>1, <3>1, <3>2, <3>3 DEF Tidy, Unstaged, Unlocked
  <2>3. CASE ~(idx <= active)
    <3>1. /\ UNCHANGED <<stage, backup, clean>>
          /\ \/ pc' = "fin-release" /\ exit = "unjournaled"
             \/ pc' = "fin-journal" /\ clean
             \/ pc' = "kept"
      BY <1>25, <2>1, <2>3 DEF FinTemp
    <3>2. clean => \A t \in Files : Bare(t)
      BY <2>1, <2>3 DEF Tidy, Files
    <3>3. QED
      BY <2>1, <3>1, <3>2 DEF Tidy, Bare, Unstaged, Unlocked
  <2>4. QED
    BY <2>2, <2>3
<1>26. ASSUME FinJournal PROVE Tidy'
  BY <1>26
     DEF FinJournal, Tidy, Bare, WellPlaced, Cleaning, Ended, Unstaged,
         Unlocked
<1>27. ASSUME FinRelease PROVE Tidy'
  BY <1>27
     DEF FinRelease, Tidy, Bare, WellPlaced, Cleaning, Ended, Unstaged,
         Unlocked
<1>28. ASSUME AnswerCleaned PROVE Tidy'
  BY <1>28
     DEF AnswerCleaned, Answer, Tidy, Bare, WellPlaced, Cleaning, Ended,
         Unstaged, Unlocked
<1>29. ASSUME Crash PROVE Tidy'
  BY <1>29
     DEF Crash, Tidy, Bare, WellPlaced, Cleaning, Ended, Unstaged, Unlocked
<1>30. ASSUME NEW f \in Files, Edit(f) PROVE Tidy'
  BY <1>30
     DEF Edit, Others, Tidy, Bare, WellPlaced, Cleaning, Ended, Unstaged,
         Unlocked
<1>31. ASSUME NEW t \in Files, Tamper(t) PROVE Tidy'
  <2>1. /\ \A u \in Files : Bare(u) => (Bare(u))'
        /\ UNCHANGED <<pc, idx, active, lock, exit, run, disk, clean>>
    BY <1>31 DEF Tamper, Bare, TypeOK
  <2>2. QED
    BY <2>1 DEF Tidy
<1>32. ASSUME MoveLock PROVE Tidy'
  BY <1>32
     DEF MoveLock, Others, Tidy, Bare, WellPlaced, Cleaning, Ended, Unstaged,
         Unlocked
<1>33. ASSUME UNCHANGED vars PROVE Tidy'
  BY <1>33
     DEF vars, Tidy, Bare, WellPlaced, Cleaning, Ended, Unstaged, Unlocked
<1>34. QED
  BY <1>1, <1>2, <1>3, <1>4, <1>5, <1>6, <1>7, <1>8, <1>9, <1>10, <1>11, <1>12,
     <1>13, <1>14, <1>15, <1>16, <1>17, <1>18, <1>19, <1>20, <1>21, <1>22,
     <1>23, <1>24, <1>25, <1>26, <1>27, <1>28, <1>29, <1>30, <1>31, <1>32,
     <1>33
     DEF Next, Apply, Begin, Prepare, Commit, Recover, CleanUp

\* No step makes the phases say otherwise.
LEMMA PhasesStep ==
  ASSUME TypeOK, WellPlaced, JournalFirst, PhasesSay
  PROVE  [Next]_vars => PhasesSay'
<1> USE DEF fsVars, jnVars, ansVars, envVars
<1>1. ASSUME AnswerUnchanged PROVE PhasesSay'
  BY <1>1
     DEF AnswerUnchanged, Answer, PhasesSay, TurningBack, Restoring, Forward,
         Early, Unrecorded, Unstaged, Unlocked, WellPlaced, Cleaning, Ended,
         Push, Verdict, PhaseName, TypeOK
<1>2. ASSUME Refuse PROVE PhasesSay'
  BY <1>2
     DEF Refuse, Answer, PhasesSay, TurningBack, Restoring, Forward, Early,
         Unrecorded, Unstaged, Unlocked, WellPlaced, Cleaning, Ended, Push,
         Verdict, PhaseName, TypeOK
<1>3. ASSUME TakeLock PROVE PhasesSay'
  BY <1>3
     DEF TakeLock, PhasesSay, TurningBack, Restoring, Forward, Early,
         Unrecorded, Unstaged, Unlocked, WellPlaced, Cleaning, Ended, Push,
         Verdict, PhaseName, TypeOK
<1>4. ASSUME PrepareManagerFails PROVE PhasesSay'
  BY <1>4
     DEF PrepareManagerFails, Exit, PhasesSay, TurningBack, Restoring, Forward,
         Early, Unrecorded, Unstaged, Unlocked, WellPlaced, Cleaning, Ended,
         Push, Verdict, PhaseName, TypeOK
<1>5. ASSUME StageTarget PROVE PhasesSay'
  BY <1>5
     DEF StageTarget, StagingFails, Exit, PhasesSay, TurningBack, Restoring,
         Forward, Early, Unrecorded, Unstaged, Unlocked, WellPlaced, Cleaning,
         Ended, Push, Verdict, PhaseName, TypeOK
<1>6. ASSUME CreateJournal PROVE PhasesSay'
  BY <1>6
     DEF CreateJournal, StagingFails, Exit, PhasesSay, TurningBack, Restoring,
         Forward, Early, Unrecorded, Unstaged, Unlocked, WellPlaced, Cleaning,
         Ended, Push, Verdict, PhaseName, TypeOK
<1>7. ASSUME PersistStaged PROVE PhasesSay'
  BY <1>7
     DEF PersistStaged, StagingFails, Exit, PhasesSay, TurningBack, Restoring,
         Forward, Early, Unrecorded, Unstaged, Unlocked, WellPlaced, Cleaning,
         Ended, Push, Verdict, PhaseName, TypeOK
<1>8. ASSUME Precommit PROVE PhasesSay'
  BY <1>8
     DEF Precommit, Exit, PhasesSay, TurningBack, Restoring, Forward, Early,
         Unrecorded, Unstaged, Unlocked, WellPlaced, Cleaning, Ended, Push,
         Verdict, PhaseName, TypeOK
<1>9. ASSUME PersistCommitting PROVE PhasesSay'
  BY <1>9
     DEF PersistCommitting, CommitFails, Exit, PhasesSay, TurningBack,
         Restoring, Forward, Early, Unrecorded, Unstaged, Unlocked, WellPlaced,
         Cleaning, Ended, Push, Verdict, PhaseName, TypeOK
<1>10. ASSUME CheckTarget PROVE PhasesSay'
  BY <1>10
     DEF CheckTarget, CommitFails, Exit, SourceError, Conflict, PhasesSay,
         TurningBack, Restoring, Forward, Early, Unrecorded, Unstaged,
         Unlocked, WellPlaced, Cleaning, Ended, Push, Verdict, PhaseName,
         TypeOK
<1>11. ASSUME PersistReplacing PROVE PhasesSay'
  BY <1>11
     DEF PersistReplacing, CommitFails, Exit, PhasesSay, TurningBack,
         Restoring, Forward, Early, Unrecorded, Unstaged, Unlocked, WellPlaced,
         Cleaning, Ended, Push, Verdict, PhaseName, TypeOK
<1>12. ASSUME FinalCheck PROVE PhasesSay'
  BY <1>12
     DEF FinalCheck, CommitFails, Exit, FinalError, SourceError, Conflict,
         PhasesSay, TurningBack, Restoring, Forward, Early, Unrecorded,
         Unstaged, Unlocked, WellPlaced, Cleaning, Ended, Push, Verdict,
         PhaseName, TypeOK
<1>13. ASSUME Replace PROVE PhasesSay'
  BY <1>13
     DEF Replace, CommitFails, Exit, PhasesSay, TurningBack, Restoring,
         Forward, Early, Unrecorded, Unstaged, Unlocked, WellPlaced, Cleaning,
         Ended, Push, Verdict, PhaseName, TypeOK
<1>14. ASSUME SettleReplace PROVE PhasesSay'
  BY <1>14
     DEF SettleReplace, CommitFails, Exit, PhasesSay, TurningBack, Restoring,
         Forward, Early, Unrecorded, Unstaged, Unlocked, WellPlaced, Cleaning,
         Ended, Push, Verdict, PhaseName, TypeOK
<1>15. ASSUME RunManager PROVE PhasesSay'
  BY <1>15
     DEF RunManager, Conflict, PhasesSay, TurningBack, Restoring, Forward,
         Early, Unrecorded, Unstaged, Unlocked, WellPlaced, Cleaning, Ended,
         Push, Verdict, PhaseName, TypeOK
<1>16. ASSUME Observe PROVE PhasesSay'
  BY <1>16
     DEF Observe, CommitFails, Exit, Conflict, PhasesSay, TurningBack,
         Restoring, Forward, Early, Unrecorded, Unstaged, Unlocked, WellPlaced,
         Cleaning, Ended, Push, Verdict, PhaseName, TypeOK
<1>17. ASSUME Recovering PROVE PhasesSay'
  BY <1>17
     DEF Recovering, PhasesSay, TurningBack, Restoring, Forward, Early,
         Unrecorded, Unstaged, Unlocked, WellPlaced, Cleaning, Ended, Push,
         Verdict, PhaseName, TypeOK
<1>18. ASSUME NoteFailure PROVE PhasesSay'
  BY <1>18
     DEF NoteFailure, PhasesSay, TurningBack, Restoring, Forward, Early,
         Unrecorded, Unstaged, Unlocked, WellPlaced, Cleaning, Ended, Push,
         Verdict, PhaseName, TypeOK
<1>19. ASSUME RecoverTarget PROVE PhasesSay'
  BY <1>19
     DEF RecoverTarget, RecoverFails, PhasesSay, TurningBack, Restoring,
         Forward, Early, Unrecorded, Unstaged, Unlocked, WellPlaced, Cleaning,
         Ended, Push, Verdict, PhaseName, TypeOK
<1>20. ASSUME Restore PROVE PhasesSay'
  BY <1>20
     DEF Restore, RecoverFails, PhasesSay, TurningBack, Restoring, Forward,
         Early, Unrecorded, Unstaged, Unlocked, WellPlaced, Cleaning, Ended,
         Push, Verdict, PhaseName, TypeOK
<1>21. ASSUME SettleRestore PROVE PhasesSay'
  BY <1>21
     DEF SettleRestore, RecoverFails, PhasesSay, TurningBack, Restoring,
         Forward, Early, Unrecorded, Unstaged, Unlocked, WellPlaced, Cleaning,
         Ended, Push, Verdict, PhaseName, TypeOK
<1>22. ASSUME FinishRecovery PROVE PhasesSay'
  BY <1>22
     DEF FinishRecovery, PhasesSay, TurningBack, Restoring, Forward, Early,
         Unrecorded, Unstaged, Unlocked, WellPlaced, Cleaning, Ended, Push,
         Verdict, PhaseName, TypeOK
<1>23. ASSUME Inspect PROVE PhasesSay'
  <2>1. pc = "inspect" /\ exit = "none"
    BY <1>23 DEF Inspect, WellPlaced, Cleaning, Ended
  <2>2. CASE pc' = "done"
    BY <1>23, <2>1, <2>2 DEF Inspect, Answer, Exit, PhasesSay, TurningBack,
       Restoring, Forward, Early, Unrecorded, Unstaged, Unlocked
  <2>3. CASE pc' # "done"
    <3>1. /\ pc' = "fin-check" /\ exit' = "reverted" /\ UNCHANGED err
          /\ recovery = "completed"
          /\ phases' = [phases EXCEPT !["inspect"] = "passed"]
      BY <1>23, <2>3, SettledOutcome DEF Inspect, Answer, Exit, Push
    <3>2. QED
      BY <2>1, <3>1 DEF PhasesSay, TurningBack, TypeOK, PhaseName,
       Restoring, Forward, Early, Unrecorded, Unstaged, Unlocked
  <2>4. QED
    BY <2>2, <2>3
<1>24. ASSUME FinCheck PROVE PhasesSay'
  BY <1>24
     DEF FinCheck, PhasesSay, TurningBack, Restoring, Forward, Early,
         Unrecorded, Unstaged, Unlocked, WellPlaced, Cleaning, Ended, Push,
         Verdict, PhaseName, TypeOK
<1>25. ASSUME FinTemp PROVE PhasesSay'
  BY <1>25
     DEF FinTemp, PhasesSay, TurningBack, Restoring, Forward, Early,
         Unrecorded, Unstaged, Unlocked, WellPlaced, Cleaning, Ended, Push,
         Verdict, PhaseName, TypeOK
<1>26. ASSUME FinJournal PROVE PhasesSay'
  BY <1>26
     DEF FinJournal, PhasesSay, TurningBack, Restoring, Forward, Early,
         Unrecorded, Unstaged, Unlocked, WellPlaced, Cleaning, Ended, Push,
         Verdict, PhaseName, TypeOK
<1>27. ASSUME FinRelease PROVE PhasesSay'
  BY <1>27
     DEF FinRelease, PhasesSay, TurningBack, Restoring, Forward, Early,
         Unrecorded, Unstaged, Unlocked, WellPlaced, Cleaning, Ended, Push,
         Verdict, PhaseName, TypeOK
<1>28. ASSUME AnswerCleaned PROVE PhasesSay'
  BY <1>28
     DEF AnswerCleaned, Answer, PhasesSay, TurningBack, Restoring, Forward,
         Early, Unrecorded, Unstaged, Unlocked, WellPlaced, Cleaning, Ended,
         Push, Verdict, PhaseName, TypeOK
<1>29. ASSUME Crash PROVE PhasesSay'
  BY <1>29
     DEF Crash, PhasesSay, TurningBack, Restoring, Forward, Early, Unrecorded,
         Unstaged, Unlocked, WellPlaced, Cleaning, Ended, Push, Verdict,
         PhaseName, TypeOK
<1>30. ASSUME NEW f \in Files, Edit(f) PROVE PhasesSay'
  BY <1>30
     DEF Edit, Others, PhasesSay, TurningBack, Restoring, Forward, Early,
         Unrecorded, Unstaged, Unlocked, WellPlaced, Cleaning, Ended, Push,
         Verdict, PhaseName, TypeOK
<1>31. ASSUME NEW t \in Files, Tamper(t) PROVE PhasesSay'
  BY <1>31
     DEF Tamper, Others, PhasesSay, TurningBack, Restoring, Forward, Early,
         Unrecorded, Unstaged, Unlocked, WellPlaced, Cleaning, Ended, Push,
         Verdict, PhaseName, TypeOK
<1>32. ASSUME MoveLock PROVE PhasesSay'
  BY <1>32
     DEF MoveLock, Others, PhasesSay, TurningBack, Restoring, Forward, Early,
         Unrecorded, Unstaged, Unlocked, WellPlaced, Cleaning, Ended, Push,
         Verdict, PhaseName, TypeOK
<1>33. ASSUME UNCHANGED vars PROVE PhasesSay'
  BY <1>33
     DEF vars, PhasesSay, TurningBack, Restoring, Forward, Early, Unrecorded,
         Unstaged, Unlocked, WellPlaced, Cleaning, Ended, Push, Verdict,
         PhaseName, TypeOK
<1>34. QED
  BY <1>1, <1>2, <1>3, <1>4, <1>5, <1>6, <1>7, <1>8, <1>9, <1>10, <1>11, <1>12,
     <1>13, <1>14, <1>15, <1>16, <1>17, <1>18, <1>19, <1>20, <1>21, <1>22,
     <1>23, <1>24, <1>25, <1>26, <1>27, <1>28, <1>29, <1>30, <1>31, <1>32,
     <1>33
     DEF Next, Apply, Begin, Prepare, Commit, Recover, CleanUp

\* Nothing has been tried or left at the start.
LEMMA InitKept == Init => FilesKept /\ AccountKept
<1> SUFFICES ASSUME Init PROVE FilesKept /\ AccountKept
  OBVIOUS
<1>1. /\ pc = "start" /\ exit = "none" /\ attempted = {} /\ lock = "none"
      /\ run = FALSE /\ disk = Empty
      /\ \A f \in Files : file[f] = "orig" /\ Bare(f)
      /\ \A n \in PhaseName : phases[n] = "none"
  BY DEF Init, Bare
<1>2. FilesKept
  BY <1>1 DEF FilesKept, Looked, Untouched, OriginalKept, NothingTried, Harmless
<1>3. TriedBeforeRecovery /\ OutcomesRecorded
  BY <1>1 DEF TriedBeforeRecovery, TurningBack, Restoring, OutcomesRecorded
<1>4. Tidy
  BY <1>1 DEF Tidy
<1>5. PhasesSay
  <2>1. phases["commit"] = "none"
    BY <1>1 DEF PhaseName
  <2>2. QED
    BY <1>1, <2>1 DEF PhasesSay, TurningBack, Restoring
<1>6. QED
  BY <1>2, <1>3, <1>4, <1>5 DEF AccountKept

\* createResult: what the caller gets, and when the recovery phase is rewritten.
LEMMA AnswerSays ==
  ASSUME NEW rec \in Recovery, NEW ops \in [Files -> Outcome],
         NEW ph \in [PhaseName -> PhaseStatus], Answer(rec, ops, ph)
  PROVE  /\ result'.ops = ops /\ result'.recovery = rec
         /\ result'.status = StatusOf(rec, ops)
         /\ rec \notin {"unknown", "partial"} => result'.phases = ph
         /\ result'.phases["recovery"] # "none" =>
              /\ rec = "unknown" => result'.phases["recovery"] = "unknown"
              /\ rec = "partial" => result'.phases["recovery"] = "failed"
<1>1. CASE ph["recovery"] # "none" /\ rec \in {"unknown", "partial"}
  BY <1>1 DEF Answer, Verdict, PhaseName
<1>2. CASE ~(ph["recovery"] # "none" /\ rec \in {"unknown", "partial"})
  BY <1>2 DEF Answer
<1>3. QED
  BY <1>1, <1>2

\* createResult: which statuses of the operations a status of the run excludes.
LEMMA StatusSays ==
  ASSUME NEW rec, NEW ops
  PROVE  /\ rec = "unknown" => StatusOf(rec, ops) = "unknown"
         /\ StatusOf(rec, ops) \in {"applied", "noop", "conflicted", "reverted"} =>
              \A f \in Files : ops[f].status \notin {"unknown", "failed"}
         /\ StatusOf(rec, ops) \in {"applied", "noop", "conflicted"} =>
              \A f \in Files : ops[f].status # "reverted"
         /\ StatusOf(rec, ops) \in {"applied", "noop"} =>
              \A f \in Files : ops[f].status # "conflicted"
         /\ StatusOf(rec, ops) = "noop" =>
              \A f \in Files : ops[f].status # "applied"
         /\ StatusOf(rec, ops) \in {"applied", "conflicted", "reverted"} =>
              \E f \in Files : ops[f].status = StatusOf(rec, ops)
BY DEF StatusOf

\* What an answer must satisfy, said of its parts before it is given.
LEMMA SoundAnswer ==
  ASSUME NEW rec \in Recovery, NEW ops \in [Files -> Outcome],
         NEW ph \in [PhaseName -> PhaseStatus], Answer(rec, ops, ph),
         UNCHANGED <<file, stage, backup, run, lock, err, touched, active>>,
         \A f \in Files \ touched :
           /\ ops[f].status = "applied" => file[f] = "new"
           /\ ops[f].status = "skipped" => file[f] = "orig"
           /\ ops[f].status = "reverted" => file[f] \in {"orig", "restored"}
           /\ ops[f].status = "conflicted" => file[f] = "orig",
         StatusOf(rec, ops) = "applied" =>
           \A t \in (1..active) \ touched : file[t] = "new",
         StatusOf(rec, ops) \in {"noop", "conflicted", "reverted"} =>
           \A t \in (1..active) \ touched : file[t] # "new",
         rec \in {"not-needed", "completed"} =>
           /\ ~run /\ disk = Empty /\ disk' = disk
           /\ lock \in {"none", "free"} /\ \A t \in Files : Bare(t),
         StatusOf(rec, ops) \in {"applied", "noop"} =>
           /\ rec = "not-needed"
           /\ \A n \in PhaseName : ph[n] \notin {"failed", "unknown"},
         rec = "partial" => StatusOf(rec, ops) # "conflicted",
         rec = "completed" =>
           /\ \A f \in Files : ops[f].status \notin {"applied", "skipped", "unknown"}
           /\ ph["recovery"] = "passed"
           /\ (\E f \in Files : ops[f].status = "conflicted") =>
                /\ \E f \in Files : ops[f].status = "reverted"
                /\ err.reason \in Conflict
                /\ \A f \in Files : ops[f].status = "conflicted" =>
                                      ops[f].reason = err.reason
                /\ ph["commit"] = "failed" /\ ph["inspect"] = "passed"
                /\ ph["cleanup"] = "passed"
  PROVE  ResultIsSound'
<1>1. OutcomesHold'
  <2>1. result'.ops = ops /\ file' = file /\ touched' = touched
    BY AnswerSays
  <2>2. \A f \in Files \ touched' :
          /\ result'.ops[f].status = "applied" => file'[f] = "new"
          /\ result'.ops[f].status = "skipped" => file'[f] = "orig"
          /\ result'.ops[f].status = "reverted" => file'[f] \in {"orig", "restored"}
          /\ result'.ops[f].status = "conflicted" => file'[f] = "orig"
    BY <2>1
  <2>3. QED
    BY <2>2 DEF OutcomesHold, Claimed, Files
<1>2. AllOrNothing'
  BY AnswerSays DEF AllOrNothing
<1>3. CleanMeansClean'
  BY AnswerSays DEF CleanMeansClean, Bare, Files, Empty
<1>4. ContractHolds'
  <2>1. /\ result'.status \in {"applied", "noop"} =>
             /\ result'.recovery = "not-needed"
             /\ \A n \in PhaseName : result'.phases[n] \notin {"failed", "unknown"}
        /\ result'.recovery \in {"partial", "unknown"} =>
             result'.status \notin {"applied", "noop", "conflicted"}
    BY AnswerSays, StatusSays
  <2>2. result'.recovery = "completed" =>
          /\ \A f \in Files :
               result'.ops[f].status \notin {"applied", "skipped", "unknown"}
          /\ result'.phases["recovery"] = "passed"
          /\ {f \in Files : result'.ops[f].status = "conflicted"} # {} =>
               /\ \E f \in Files : result'.ops[f].status = "reverted"
               /\ err'.reason \in Conflict
               /\ \A f \in {f \in Files : result'.ops[f].status = "conflicted"} :
                    result'.ops[f].reason = err'.reason
               /\ result'.phases["commit"] = "failed"
               /\ result'.phases["inspect"] = "passed"
               /\ result'.phases["cleanup"] = "passed"
    BY AnswerSays
  <2>3. result'.phases["recovery"] # "none" =>
          /\ result'.recovery = "unknown" => result'.phases["recovery"] = "unknown"
          /\ result'.recovery = "partial" => result'.phases["recovery"] = "failed"
    BY AnswerSays
  <2>4. QED
    BY <2>1, <2>2, <2>3 DEF ContractHolds, Claimed, Files
<1>5. QED
  BY <1>1, <1>2, <1>3, <1>4 DEF ResultIsSound, ResultIsHonest

\* Whatever a step answers is true of the files and accepted by the contract.
LEMMA ResultStep ==
  ASSUME EngineInvariant, EngineInvariant', FilesKept, AccountKept, ResultIsSound
  PROVE  [Next]_vars => ResultIsSound'
<1> USE DEF fsVars, jnVars, ansVars, envVars
<1>1. TypeOK /\ WellPlaced /\ JournalFirst /\ NewIsCovered /\ SuccessIsWhole
  BY DEF EngineInvariant
<1>2. \A f \in Files : f \notin attempted => file[f] # "new"
  BY <1>1 DEF NewIsCovered
<1>3. active > 0 => 1 \in Files
  BY <1>1, EngineAssumption DEF TypeOK, Files
<1>4. ASSUME AnswerUnchanged PROVE ResultIsSound'
  <2> DEFINE ops == [f \in Files |-> SuccessOutcome(f)]
             ph == [phases EXCEPT !["lock"] = "skipped", !["inspect"] = "passed"]
  <2>1. /\ pc = "start" /\ active = 0 /\ Answer("not-needed", ops, ph)
        /\ UNCHANGED <<file, stage, backup, run, disk, lock, err, touched, active>>
    BY <1>4 DEF AnswerUnchanged
  <2>2. ops \in [Files -> Outcome]
    BY <1>1, OutcomeTyping
  <2>3. ph \in [PhaseName -> PhaseStatus]
    BY <1>1 DEF TypeOK, PhaseName, PhaseStatus
  <2>4. \A f \in Files :
          /\ ops[f].status \in {"unknown", "skipped"}
          /\ ops[f].status = "skipped" => file[f] = "orig"
    BY <1>1, <2>1 DEF SuccessOutcome, Files, TypeOK
  <2>5. \A n \in PhaseName : ph[n] \notin {"failed", "unknown"}
    BY <1>1, <2>1 DEF AccountKept, PhasesSay, TypeOK
  <2>6. /\ ~run /\ disk = Empty /\ lock = "none"
        /\ \A t \in Files : Bare(t)
    BY <2>1 DEF AccountKept, Tidy, Unstaged, Unlocked
  <2>7. (1..active) \ touched = {}
    BY <2>1
  <2> HIDE DEF ops, ph
  <2>8. QED
    BY <2>1, <2>2, <2>3, <2>4, <2>5, <2>6, <2>7, SoundAnswer DEF Recovery
<1>5. ASSUME Refuse PROVE ResultIsSound'
  <2>1. PICK unknown \in BOOLEAN :
          Answer(IF unknown THEN "unknown" ELSE "not-needed",
                 All(IF unknown THEN "unknown" ELSE "conflicted", "REFUSED"),
                 Push("lock", Verdict(unknown)))
    BY <1>5 DEF Refuse
  <2> DEFINE rec == IF unknown THEN "unknown" ELSE "not-needed"
             s == IF unknown THEN "unknown" ELSE "conflicted"
             ops == All(s, "REFUSED")
             ph == Push("lock", Verdict(unknown))
  <2>2. /\ pc = "start" /\ active > 0
        /\ UNCHANGED <<file, stage, backup, run, disk, lock, err, touched, active>>
    BY <1>5 DEF Refuse
  <2>3. /\ ops \in [Files -> Outcome]
        /\ \A f \in Files : ops[f].status = s
    BY DEF All, Outcome, Status, OutcomeReason, Reason
  <2>4. ph \in [PhaseName -> PhaseStatus]
    BY <1>1 DEF TypeOK, Push, Verdict, PhaseName, PhaseStatus
  <2>5. \A f \in Files :
          /\ f \notin touched => file[f] = "orig"
          /\ file[f] # "new"
    BY <1>1, <1>2, <2>2 DEF JournalFirst, Early, Unrecorded, Unstaged, Unlocked,
       FilesKept, Untouched
  <2>6. /\ ~run /\ disk = Empty /\ lock = "none"
        /\ \A t \in Files : Bare(t)
    BY <2>2 DEF AccountKept, Tidy, Unstaged, Unlocked
  <2>7. StatusOf(rec, ops) \notin {"applied", "noop"}
    BY <1>3, <2>2, <2>3, StatusSays
  <2>8. 1..active \subseteq Files
    BY <1>1, EngineAssumption DEF TypeOK, Files
  <2>9. /\ rec \in Recovery /\ rec \notin {"partial", "completed"}
        /\ s \in {"unknown", "conflicted"}
    BY DEF Recovery
  <2> HIDE DEF rec, s, ops, ph
  <2>10. Answer(rec, ops, ph)
    BY <2>1 DEF rec, s, ops, ph
  <2>11. QED
    BY <2>2, <2>3, <2>4, <2>5, <2>6, <2>7, <2>8, <2>9, <2>10, SoundAnswer
<1>6. ASSUME Inspect PROVE ResultIsSound'
  <2>1. CASE pc' # "done"
    BY <2>1 DEF EngineInvariant, WellPlaced, ResultIsSound, ResultIsHonest,
       OutcomesHold, AllOrNothing, CleanMeansClean, ContractHolds
  <2>2. CASE pc' = "done"
    <3> DEFINE ops == [f \in Files |-> InspectedOutcome(f)]
               rec == IF recovery # "completed" THEN recovery
                      ELSE IF \E f \in Files : ops[f].status = "unknown"
                           THEN "unknown" ELSE "partial"
               seen == IF \E f \in Files : ops[f].status = "unknown"
                       THEN "unknown" ELSE "passed"
               ph == [Push("inspect", seen) EXCEPT !["cleanup"] = "unknown"]
    <3>1. /\ pc = "inspect" /\ active > 0 /\ attempted # {}
          /\ recovery # "not-needed"
      BY <1>1, <1>6 DEF Inspect, AccountKept, TriedBeforeRecovery, TurningBack,
         Restoring, WellPlaced, Unlocked, Ended
    <3>2. /\ Answer(WithManager(rec), ops, ph)
          /\ UNCHANGED <<file, stage, backup, run, lock, err, touched, active>>
      BY <1>6, <2>2 DEF Inspect, Exit
    <3>3. rec \in {"partial", "unknown"} /\ WithManager(rec) = rec
      BY <1>1, <3>1 DEF WithManager, TypeOK, Recovery
    <3>4. ops \in [Files -> Outcome]
      BY <1>1, OutcomeTyping
    <3>5. ph \in [PhaseName -> PhaseStatus]
      BY <1>1 DEF TypeOK, Push, PhaseName, PhaseStatus
    <3>6. ASSUME NEW f \in Files
          PROVE  /\ ops[f].status \in {"unknown", "reverted", "failed", "conflicted"}
                 /\ f \in attempted => ops[f].status # "conflicted"
                 /\ file[f] = "new" => ops[f].status \in {"failed", "unknown"}
                 /\ f \notin touched =>
                      /\ ops[f].status = "reverted" => file[f] \in {"orig", "restored"}
                      /\ ops[f].status = "conflicted" => file[f] = "orig"
      BY <1>2, InspectedNew DEF InspectedOutcome, FailedOutcome, FilesKept,
         Untouched, OriginalBytes
    <3> HIDE DEF ops, rec, ph
    <3>7. StatusOf(rec, ops) \notin {"applied", "noop", "conflicted"}
      <4>1. PICK f \in Files : f \in attempted
        BY <1>1, <3>1 DEF TypeOK
      <4>2. QED
        BY <3>6, <4>1, StatusSays
    <3>8. StatusOf(rec, ops) = "reverted" => \A f \in Files : file[f] # "new"
      BY <3>6, StatusSays
    <3>9. 1..active \subseteq Files
      BY <1>1, EngineAssumption DEF TypeOK, Files
    <3>10. QED
      BY <3>2, <3>3, <3>4, <3>5, <3>6, <3>7, <3>8, <3>9, SoundAnswer DEF Recovery
  <2>3. QED
    BY <2>1, <2>2
<1>7. ASSUME AnswerCleaned PROVE ResultIsSound'
  <2> DEFINE cleaned == pc = "released"
             rec == CASE ~cleaned -> "unknown"
                      [] cleaned /\ exit = "reverted" -> WithManager(recovery)
                      [] cleaned /\ exit = "prepare" /\ manager.unrecovered ->
                           IF err.unknown THEN "unknown" ELSE "partial"
                      [] OTHER -> "not-needed"
             ops == CleanedOutcomes(cleaned)
             ph == Push("cleanup", IF cleaned THEN "passed" ELSE "unknown")
  <2>1. /\ pc \in {"kept", "released"} /\ Answer(rec, ops, ph)
        /\ UNCHANGED <<file, stage, backup, run, disk, lock, err, touched, active>>
    BY <1>7 DEF AnswerCleaned
  <2>2. /\ exit \in Harmless \cup {"success", "reverted"}
        /\ active > 0 /\ 1..active \subseteq Files
    BY <1>1, <2>1, EngineAssumption DEF WellPlaced, Cleaning, Ended, Unlocked,
       TypeOK, Exits, Harmless, Files
  <2>3. ops \in [Files -> Outcome] /\ cleaned \in BOOLEAN
    BY <1>1, <2>2, CleanedTyping DEF Harmless, Exits
  <2>4. ph \in [PhaseName -> PhaseStatus]
    BY <1>1 DEF TypeOK, Push, PhaseName, PhaseStatus
  <2>5. rec \in Recovery
    BY <1>1 DEF WithManager, TypeOK, Recovery
  <2>6. cleaned => /\ ~run /\ disk = Empty /\ lock = "free"
                   /\ \A t \in Files : Bare(t)
    BY DEF AccountKept, Tidy
  <2>7. exit # "success" => \A f \in Files : file[f] # "new"
    BY <1>1, <2>2 DEF NewIsCovered, NoneNew, Harmless
  <2>8. CASE ~cleaned
    <3>1. rec = "unknown"
      BY <2>8
    <3>2. ASSUME NEW f \in Files
          PROVE  ops[f].status \in {"unknown", "failed"}
      BY <2>2, <2>8 DEF CleanedOutcomes, All, FailedOutcome, Harmless,
         FilesKept, NothingTried
    <3> HIDE DEF rec, ops, ph, cleaned
    <3>3. QED
      BY <2>1, <2>3, <2>4, <2>5, <3>1, <3>2, StatusSays, SoundAnswer
  <2>9. CASE cleaned /\ exit \in Harmless
    <3>1. attempted = {} /\ \A f \in Files \ touched : file[f] = "orig"
      BY <2>9 DEF FilesKept, NothingTried, Untouched
    <3>2. /\ rec \in {"unknown", "partial", "not-needed"}
          /\ rec = "partial" => exit = "prepare" /\ ~err.unknown /\ manager.unrecovered
      BY <2>9 DEF Harmless
    <3>3. ASSUME NEW f \in Files
          PROVE  /\ ops[f].status \in {"unknown", "failed", "conflicted"}
                 /\ rec = "partial" => ops[f].status = "failed"
      BY <2>9, <3>1, <3>2 DEF CleanedOutcomes, All, FailedOutcome, Harmless
    <3> HIDE DEF rec, ops, ph, cleaned
    <3>4. /\ StatusOf(rec, ops) \notin {"applied", "noop"}
          /\ rec = "partial" => StatusOf(rec, ops) # "conflicted"
      BY <1>3, <2>2, <3>3, StatusSays
    <3>5. QED
      BY <2>1, <2>2, <2>3, <2>4, <2>5, <2>6, <2>7, <2>9, <3>1, <3>2, <3>3, <3>4,
         SoundAnswer DEF Harmless
  <2>10. CASE cleaned /\ exit = "success"
    <3>1. rec = "not-needed" /\ ops = outcome
      BY <2>10 DEF CleanedOutcomes
    <3>2. \A f \in Files :
            /\ ops[f].status = IF f <= active THEN "applied" ELSE "skipped"
            /\ f \notin touched => file[f] = IF f <= active THEN "new" ELSE "orig"
      BY <1>1, <2>10, <3>1 DEF SuccessIsWhole, AccountKept, OutcomesRecorded
    <3>3. \A n \in PhaseName : ph[n] \notin {"failed", "unknown"}
      BY <1>1, <2>10 DEF AccountKept, PhasesSay, Push, TypeOK
    <3>4. \A t \in 1..active : t \in Files /\ t <= active
      BY <2>2
    <3> HIDE DEF rec, ops, ph, cleaned
    <3>5. StatusOf(rec, ops) \notin {"noop", "conflicted", "reverted"}
      <4>1. ops[1].status = "applied" /\ 1 \in Files
        BY <1>1, <1>3, <2>2, <3>2 DEF TypeOK
      <4>2. \A f \in Files : ops[f].status \in {"applied", "skipped"}
        BY <3>2
      <4>3. QED
        BY <4>1, <4>2, StatusSays
    <3>6. QED
      BY <2>1, <2>3, <2>4, <2>5, <2>6, <2>10, <3>1, <3>2, <3>3, <3>4, <3>5,
         SoundAnswer
  <2>11. CASE cleaned /\ exit = "reverted"
    <3>1. /\ rec = WithManager(recovery) /\ ops = outcome
          /\ recovery = "completed"
      BY <2>11 DEF CleanedOutcomes, AccountKept, OutcomesRecorded
    <3>2. rec \in {"unknown", "partial", "completed"}
      BY <3>1 DEF WithManager
    <3>3. \A f \in Files :
            \/ ops[f].status = "reverted"
            \/ ops[f].status = "failed" /\ f \notin attempted
            \/ /\ ops[f].status = "conflicted" /\ f \notin attempted
               /\ ops[f].reason = err.reason /\ err.reason \in Conflict
      BY <2>11, <3>1 DEF AccountKept, OutcomesRecorded
    <3>4. PICK f \in Files : f \in attempted
      BY <1>1, <2>11 DEF TypeOK, AccountKept, TriedBeforeRecovery, TurningBack
    <3>5. \A g \in Files \ touched :
            /\ file[g] \in {"orig", "restored"}
            /\ g \notin attempted => file[g] = "orig"
      BY <2>11 DEF FilesKept, OriginalKept, Untouched
    <3>6. /\ ph["recovery"] = "passed" /\ ph["inspect"] = "passed"
          /\ ph["cleanup"] = "passed"
          /\ err.reason \in Conflict => ph["commit"] = "failed"
      BY <1>1, <2>11 DEF AccountKept, PhasesSay, TurningBack, Push, TypeOK,
         PhaseName
    <3> HIDE DEF rec, ops, ph, cleaned
    <3>7. ops[f].status = "reverted"
      BY <3>3, <3>4
    <3>8. StatusOf(rec, ops) \notin {"applied", "noop", "conflicted"}
      BY <3>4, <3>7, StatusSays
    <3>9. /\ \A g \in Files : ops[g].status \notin {"applied", "skipped", "unknown"}
          /\ (\E g \in Files : ops[g].status = "conflicted") =>
               /\ \E g \in Files : ops[g].status = "reverted"
               /\ err.reason \in Conflict /\ ph["commit"] = "failed"
               /\ \A g \in Files : ops[g].status = "conflicted" =>
                                     ops[g].reason = err.reason
      BY <3>3, <3>4, <3>6, <3>7
    <3>10. QED
      BY <2>1, <2>2, <2>3, <2>4, <2>5, <2>6, <2>7, <2>11, <3>2, <3>3, <3>5, <3>6,
         <3>8, <3>9, SoundAnswer
  <2>12. QED
    BY <2>2, <2>8, <2>9, <2>10, <2>11
<1>8. ASSUME pc' # "done" PROVE ResultIsSound'
  BY <1>8 DEF EngineInvariant, WellPlaced, ResultIsSound, ResultIsHonest,
     OutcomesHold, AllOrNothing, CleanMeansClean, ContractHolds
<1>9. ASSUME UNCHANGED vars PROVE ResultIsSound'
  BY <1>9 DEF vars, ResultIsSound, ResultIsHonest, OutcomesHold, AllOrNothing,
     CleanMeansClean, ContractHolds, Claimed, Files, Empty, NoResult
<1>10. ASSUME Apply PROVE \/ pc' # "done"
                          \/ AnswerUnchanged \/ Refuse \/ Inspect \/ AnswerCleaned
  <2>1. ASSUME TakeLock \/ Prepare PROVE pc' # "done"
    BY <2>1 DEF TakeLock, Prepare, PrepareManagerFails, StageTarget,
       StagingFails, CreateJournal, PersistStaged, Precommit, Exit
  <2>2. ASSUME Commit PROVE pc' # "done"
    BY <2>2 DEF Commit, PersistCommitting, CheckTarget, PersistReplacing,
       FinalCheck, Replace, SettleReplace, RunManager, Observe, CommitFails, Exit
  <2>3. ASSUME Recover, ~Inspect PROVE pc' # "done"
    BY <2>3 DEF Recover, Recovering, NoteFailure, RecoverTarget, Restore,
       SettleRestore, FinishRecovery, RecoverFails
  <2>4. ASSUME CleanUp, ~AnswerCleaned PROVE pc' # "done"
    BY <2>4 DEF CleanUp, FinCheck, FinTemp, FinJournal, FinRelease
  <2>5. QED
    BY <1>10, <2>1, <2>2, <2>3, <2>4 DEF Apply, Begin
<1>11. ASSUME Next, ~Apply PROVE pc' # "done"
  BY <1>11 DEF Next, Crash, Edit, Tamper, MoveLock, Others, Ended
<1>12. QED
  BY <1>4, <1>5, <1>6, <1>7, <1>8, <1>9, <1>10, <1>11

\* Every behaviour keeps both layers, and with them what is answered.
LEMMA AnswersInvariance == Spec => []AnswersInvariant
<1>1. Init => AnswersInvariant
  <2> SUFFICES ASSUME Init PROVE AnswersInvariant
    OBVIOUS
  <2>1. result = NoResult
    BY DEF Init
  <2>2. ResultIsSound
    BY <2>1 DEF ResultIsSound, ResultIsHonest, OutcomesHold, AllOrNothing,
       CleanMeansClean, ContractHolds
  <2>3. QED
    BY <2>2, InitInvariant, InitKept DEF AnswersInvariant
<1>2. AnswersInvariant /\ [Next]_vars => AnswersInvariant'
  <2> SUFFICES ASSUME AnswersInvariant, [Next]_vars PROVE AnswersInvariant'
    OBVIOUS
  <2>1. EngineInvariant' /\ TypeOK /\ WellPlaced /\ JournalFirst
    BY NextInvariant DEF AnswersInvariant, EngineInvariant
  <2>2. FilesKept'
    BY <2>1, FilesStep DEF AnswersInvariant
  <2>3. AccountKept'
    BY <2>1, TriedStep, RecordedStep, TidyStep, PhasesStep
       DEF AnswersInvariant, AccountKept
  <2>4. QED
    BY <2>1, <2>2, <2>3, ResultStep DEF AnswersInvariant
<1>3. QED
  BY <1>1, <1>2, PTL DEF Spec

\* Until a run succeeds, the original bytes of every file nobody else changed
\* are at its path or in its backup, however many files there are and wherever
\* it fails or dies (engine.ts removes a backup only when the source is known).
THEOREM OriginalsRecoverable == Spec => []OriginalRecoverable
<1>1. AnswersInvariant => OriginalRecoverable
  BY DEF AnswersInvariant, FilesKept, OriginalKept, OriginalRecoverable
<1>2. QED
  BY <1>1, AnswersInvariance, PTL

\* An edit of somebody else is overwritten only if it falls between the last
\* look at the file and the rename (engine.ts, commitTargets, recoverTargets).
THEOREM SeenEditsAreKept == Spec => SeenEditsSurvive
<1> DEFINE Kept == \A f \in Files :
                     file[f] \in External /\ file'[f] \in {"new", "restored"} =>
                       f \in raced
<1>1. ASSUME AnswersInvariant, [Next]_vars PROVE Kept
  <2>1. CASE UNCHANGED file
    BY <2>1 DEF External
  <2>2. ASSUME Replace \/ Restore PROVE Kept
    BY <1>1, <2>2 DEF Replace, Restore, AnswersInvariant, EngineInvariant,
       TypeOK, FilesKept, Looked, External
  <2>3. ASSUME NEW f \in Files, Edit(f) PROVE Kept
    BY <1>1, <2>3 DEF Edit, AnswersInvariant, EngineInvariant, TypeOK, External
  <2>4. CASE UNCHANGED vars
    BY <2>1, <2>4 DEF vars, fsVars
  <2>5. ASSUME Begin \/ Prepare \/ CleanUp PROVE UNCHANGED file
    BY <2>5 DEF Begin, Prepare, CleanUp, AnswerUnchanged, Refuse, TakeLock,
       PrepareManagerFails, StageTarget, CreateJournal, PersistStaged, Precommit,
       FinCheck, FinTemp, FinJournal, FinRelease, AnswerCleaned, fsVars
  <2>6. ASSUME Commit, ~Replace PROVE UNCHANGED file
    BY <2>6 DEF Commit, PersistCommitting, CheckTarget, PersistReplacing,
       FinalCheck, SettleReplace, RunManager, Observe, fsVars
  <2>7. ASSUME Recover, ~Restore PROVE UNCHANGED file
    BY <2>7 DEF Recover, Recovering, NoteFailure, RecoverTarget, SettleRestore,
       FinishRecovery, Inspect, fsVars
  <2>8. ASSUME Next, ~Apply, ~\E f \in Files : Edit(f) PROVE UNCHANGED file
    BY <2>8 DEF Next, Crash, Tamper, MoveLock, fsVars
  <2>9. QED
    BY <1>1, <2>1, <2>2, <2>3, <2>4, <2>5, <2>6, <2>7, <2>8 DEF Apply
<1>2. QED
  BY <1>1, AnswersInvariance, PTL DEF Spec, SeenEditsSurvive

\* Whatever a run answers is true of every file nobody else changed, all or
\* nothing of the whole, clean only when nothing is left, and accepted by
\* hasValidApplySemantics, so that assertApplyResult never throws the account of
\* a changed file away (engine.ts createResult, contracts/validate.ts).
THEOREM AnswersAreSound == Spec => []ResultIsSound
<1>1. AnswersInvariant => ResultIsSound
  BY DEF AnswersInvariant
<1>2. QED
  BY <1>1, AnswersInvariance, PTL

----------------------------------------------------------------------------
(* What the record of a check run makes of the events it is told            *)

\* A sequence, of anything.
IsSeq(s) == \E S : s \in Seq(S)

\* The empty sequence and the ones with one element are sequences.
LEMMA SeqFacts ==
  /\ IsSeq(<<>>) /\ \A e : IsSeq(<<e>>)
  /\ \A s : IsSeq(s) => Len(s) \in Nat
<1>1. IsSeq(<<>>)
  BY EmptySeq DEF IsSeq
<1>2. \A e : IsSeq(<<e>>)
  <2>1. \A e : <<e>> \in Seq({e})
    OBVIOUS
  <2>2. QED
    BY <2>1 DEF IsSeq
<1>3. \A s : IsSeq(s) => Len(s) \in Nat
  BY LenProperties DEF IsSeq
<1>4. QED
  BY <1>1, <1>2, <1>3

\* Two sequences, one after the other.
LEMMA JoinedSeq ==
  ASSUME NEW s, NEW t, IsSeq(s), IsSeq(t)
  PROVE  /\ IsSeq(s \o t) /\ Len(s \o t) = Len(s) + Len(t)
         /\ \A i \in 1 .. Len(s) + Len(t) :
              (s \o t)[i] = IF i <= Len(s) THEN s[i] ELSE t[i - Len(s)]
<1>1. PICK S : s \in Seq(S)
  BY DEF IsSeq
<1>2. PICK T : t \in Seq(T)
  BY DEF IsSeq
<1>3. s \in Seq(S \cup T) /\ t \in Seq(S \cup T)
  BY <1>1, <1>2, SeqMonotonic
<1>4. QED
  BY <1>3, ConcatProperties DEF IsSeq

\* What holds of zero and of every successor holds of every number.
LEMMA Induction ==
  ASSUME NEW S \in SUBSET Nat, 0 \in S, \A k \in S : k + 1 \in S, NEW n \in Nat
  PROVE  n \in S
<1> DEFINE less == {p \in Nat \X Nat : p[1] < p[2]}
<1>1. IsWellFoundedOn(less, Nat)
  BY NatLessThanWellFounded DEF OpToRel
<1>2. SUFFICES ASSUME n \notin S PROVE FALSE
  OBVIOUS
<1>3. PICK x \in Nat \ S : \A y \in Nat \ S : ~ (<<y, x>> \in less)
  <2> HIDE DEF less
  <2>1. Nat \ S # {} /\ Nat \ S \subseteq Nat
    BY <1>2
  <2>2. QED
    BY <1>1, <2>1, WFMin
<1>4. x # 0 /\ x - 1 \in Nat
  BY <1>3
<1>5. <<x - 1, x>> \in less
  BY <1>4
<1>6. x - 1 \in S
  BY <1>3, <1>4, <1>5
<1>7. QED
  BY <1>3, <1>4, <1>6

\* f[i] is what the first i events make of the record s.
IsEmit(f, s, events, n) ==
  f = [i \in 0..n |-> IF i = 0 THEN [state |-> s, ok |-> TRUE]
                      ELSE Report!Emitted(f[i - 1], events[i])]

\* The events can be told one by one, as many as there are.
LEMMA EmitExists ==
  ASSUME NEW s, NEW events, NEW n \in Nat
  PROVE  \E f : IsEmit(f, s, events, n)
<1> DEFINE Has == {k \in Nat : \E f : IsEmit(f, s, events, k)}
<1>1. 0 \in Has
  <2> DEFINE f == [i \in 0..0 |-> [state |-> s, ok |-> TRUE]]
  <2>1. f = [i \in 0..0 |-> IF i = 0 THEN [state |-> s, ok |-> TRUE]
                            ELSE Report!Emitted(f[i - 1], events[i])]
    OBVIOUS
  <2> HIDE DEF f
  <2>2. IsEmit(f, s, events, 0)
    BY <2>1 DEF IsEmit
  <2>3. QED
    BY <2>2
<1>2. ASSUME NEW k \in Has PROVE k + 1 \in Has
  <2>1. PICK f : IsEmit(f, s, events, k)
    OBVIOUS
  <2> DEFINE g == [i \in 0..(k + 1) |->
                   IF i <= k THEN f[i] ELSE Report!Emitted(f[k], events[k + 1])]
  <2>2. \A i \in 0..k : f[i] = IF i = 0 THEN [state |-> s, ok |-> TRUE]
                               ELSE Report!Emitted(f[i - 1], events[i])
    BY <2>1 DEF IsEmit
  <2>3. \A i \in 0..(k + 1) : g[i] = IF i = 0 THEN [state |-> s, ok |-> TRUE]
                                     ELSE Report!Emitted(g[i - 1], events[i])
    <3>1. TAKE i \in 0..(k + 1)
    <3>2. CASE i \in 0..k
      <4>1. g[i] = f[i] /\ (i # 0 => g[i - 1] = f[i - 1])
        BY <3>2
      <4>2. QED
        BY <2>2, <3>2, <4>1
    <3>3. CASE i = k + 1
      <4>1. g[i] = Report!Emitted(f[k], events[i]) /\ g[i - 1] = f[k] /\ i # 0
        BY <3>3
      <4>2. QED
        BY <4>1
    <3>4. QED
      BY <3>2, <3>3
  <2>4. g = [i \in 0..(k + 1) |-> IF i = 0 THEN [state |-> s, ok |-> TRUE]
                                  ELSE Report!Emitted(g[i - 1], events[i])]
    BY <2>3
  <2> HIDE DEF g
  <2>5. IsEmit(g, s, events, k + 1)
    BY <2>4 DEF IsEmit
  <2>6. QED
    BY <2>5
<1> HIDE DEF Has
<1>3. Has \in SUBSET Nat
  BY DEF Has
<1>4. n \in Has
  BY <1>1, <1>2, <1>3, Induction
<1>5. QED
  BY <1>4 DEF Has

\* Emit tells every event in turn.
LEMMA EmitTraced ==
  ASSUME NEW s, NEW events, Len(events) \in Nat
  PROVE  \E f : /\ f[0] = [state |-> s, ok |-> TRUE]
                /\ \A i \in 1..Len(events) : f[i] = Report!Emitted(f[i - 1], events[i])
                /\ Report!Emit(s, events) = f[Len(events)]
<1> DEFINE h == CHOOSE f : IsEmit(f, s, events, Len(events))
<1>1. IsEmit(h, s, events, Len(events))
  BY EmitExists
<1>2. Report!Emit(s, events) = h[Len(events)]
  BY DEF Report!Emit, IsEmit
<1> HIDE DEF h
<1>3. \A i \in 0..Len(events) : h[i] = IF i = 0 THEN [state |-> s, ok |-> TRUE]
                                       ELSE Report!Emitted(h[i - 1], events[i])
  BY <1>1 DEF IsEmit
<1>4. h[0] = [state |-> s, ok |-> TRUE]
  <2>1. 0 \in 0..Len(events)
    OBVIOUS
  <2>2. QED
    BY ONLY <1>3, <2>1, Zenon
<1>5. \A i \in 1..Len(events) : h[i] = Report!Emitted(h[i - 1], events[i])
  <2>1. \A i \in 1..Len(events) : i \in 0..Len(events) /\ i # 0
    OBVIOUS
  <2>2. QED
    BY <1>3, <2>1
<1>6. QED
  BY <1>2, <1>4, <1>5

\* A record that took every event so far, and one that refused one.
Onward(x) == [state |-> x, ok |-> TRUE]
Halted(x) == [state |-> x, ok |-> FALSE]

\* An event is taken while the record goes on, and none after a refusal.
LEMMA EmittedStep ==
  ASSUME NEW x, NEW e
  PROVE  /\ Report!Accepts(x, e) => Report!Emitted(Onward(x), e) = Onward(Report!Reduce(x, e))
         /\ ~Report!Accepts(x, e) => Report!Emitted(Onward(x), e) = Halted(x)
         /\ Report!Emitted(Halted(x), e) = Halted(x)
<1>1. ASSUME Report!Accepts(x, e) PROVE Report!Emitted(Onward(x), e) = Onward(Report!Reduce(x, e))
  <2>1. Report!Emitted(Onward(x), e) = [Onward(x) EXCEPT !.state = Report!Reduce(@, e)]
    BY <1>1 DEF Report!Emitted, Onward
  <2>2. QED
    BY <2>1 DEF Onward
<1>2. ASSUME ~Report!Accepts(x, e) PROVE Report!Emitted(Onward(x), e) = Halted(x)
  <2>1. Report!Emitted(Onward(x), e) = [Onward(x) EXCEPT !.ok = FALSE]
    BY <1>2 DEF Report!Emitted, Onward
  <2>2. QED
    BY <2>1 DEF Onward, Halted
<1>3. Report!Emitted(Halted(x), e) = Halted(x)
  <2>1. Report!Emitted(Halted(x), e) = [Halted(x) EXCEPT !.ok = FALSE]
    BY DEF Report!Emitted, Halted
  <2>2. QED
    BY <2>1 DEF Halted
<1>4. QED
  BY <1>1, <1>2, <1>3

\* Whether the record goes on.
LEMMA EmittedFields ==
  /\ \A x : Onward(x).state = x /\ Onward(x).ok = TRUE
  /\ \A x : Halted(x).state = x /\ Halted(x).ok = FALSE
<1>1. \A x : Onward(x).state = x /\ Halted(x).state = x
  BY DEF Onward, Halted
<1>2. \A x : Onward(x).ok = TRUE
  BY DEF Onward
<1>3. \A x : Halted(x).ok = FALSE
  BY DEF Halted
<1>4. QED
  BY <1>1, <1>2, <1>3

----------------------------------------------------------------------------
(* A record in the middle of a write                                        *)

\* The fields of the record.
Fields == {"write", "phases", "counts", "owner", "results", "recovery", "exitCode", "events"}

\* r is the record s with e among its events and these fields changed.
Took(r, s, e, changed) ==
  /\ DOMAIN r = Fields /\ r.events = s.events \cup {e}
  /\ \A f \in Fields \ (changed \cup {"events"}) : r[f] = s[f]

Types(s) == {d.type : d \in s.events}

\* The record of a run that writes: its phases and its recovery are these, its
\* events are of these types, and those of phases are of phases in done.
Stands(s, ph, rcv, types, done) ==
  /\ DOMAIN s = Fields /\ s.write /\ s.exitCode = Report!Null
  /\ s.owner = Owner /\ s.counts.operations = N
  /\ s.phases = ph /\ DOMAIN ph = Report!PhaseNames
  /\ s.recovery = rcv /\ Types(s) = types
  /\ \A d \in s.events : d.type = "phase-completed" => d.phase \in done

\* Two events are one only if they are of one type, and of one phase.
LEMMA SameId ==
  ASSUME NEW d, NEW e, Report!TerminalEventId(d) = Report!TerminalEventId(e)
  PROVE  d.type = e.type /\ (e.type = "phase-completed" => d.phase = e.phase)
<1>1. \A u, v, x, y : <<u, v>> = <<x, y>> => u = x /\ v = y
  OBVIOUS
<1>2. \A z : Report!TerminalEventId(z)
                = <<z.type, IF z.type = "phase-completed" THEN z.phase ELSE "">>
  BY DEF Report!TerminalEventId
<1>3. /\ d.type = e.type
      /\ (IF d.type = "phase-completed" THEN d.phase ELSE "")
           = (IF e.type = "phase-completed" THEN e.phase ELSE "")
  BY <1>1, <1>2
<1>4. QED
  BY <1>3

\* A new event, of a type or of a phase the record has none of yet.
Fresh(e, types, done) ==
  /\ e.type \notin {"repository-inspection-started", "diagnostics-recorded"}
  /\ e.type \notin types \/ (e.type = "phase-completed" /\ e.phase \notin done)

\* An event of a kind not told yet is no repetition.
LEMMA FreshIsNew ==
  ASSUME NEW s, NEW ph, NEW rcv, NEW types, NEW done, Stands(s, ph, rcv, types, done),
         NEW e, Fresh(e, types, done)
  PROVE  /\ ~Report!Repeats(s, e) /\ ~Report!TerminalDuplicate(s, e)
         /\ e.type \notin Report!Unidentified
         /\ ph["complete"] \in {"pending", "active"} => Report!IsOpen(s)
<1>1. ASSUME NEW d \in s.events, Report!TerminalEventId(d) = Report!TerminalEventId(e) PROVE FALSE
  <2>1. d.type = e.type /\ (e.type = "phase-completed" => d.phase = e.phase)
    BY <1>1, SameId
  <2>2. d.type \in types
    BY DEF Stands, Types
  <2>3. QED
    BY <2>1, <2>2 DEF Fresh, Stands
<1>2. e.type \notin Report!Unidentified
  BY DEF Fresh, Report!Unidentified
<1>3. ~Report!Repeats(s, e)
  BY <1>1 DEF Report!Repeats
<1>4. e \notin s.events
  BY <1>1
<1>5. QED
  BY <1>2, <1>3, <1>4 DEF Report!TerminalDuplicate, Report!IsOpen, Stands

\* What a new event of one of these types makes of the record.
LEMMA TookPhases ==
  ASSUME NEW s, DOMAIN s = Fields, NEW e, NEW to,
         ~Report!TerminalDuplicate(s, e), e.type \notin Report!Unidentified,
         Report!Changed(s, e) = [s EXCEPT !.phases = to]
  PROVE  Took(Report!Reduce(s, e), s, e, {"phases"}) /\ Report!Reduce(s, e).phases = to
<1>1. Report!Reduce(s, e) = [[s EXCEPT !.phases = to] EXCEPT !.events = @ \cup {e}]
  BY DEF Report!Reduce
<1>2. QED
  BY <1>1 DEF Took, Fields

\* Its event joins a record that stands; the rest follows from the fields changed.
LEMMA StandsOn ==
  ASSUME NEW s, NEW ph, NEW rcv, NEW types, NEW done, Stands(s, ph, rcv, types, done),
         NEW e, NEW r, NEW changed \in SUBSET {"phases", "recovery", "results"},
         Took(r, s, e, changed),
         NEW to, r.phases = to, DOMAIN to = Report!PhaseNames,
         NEW rec, r.recovery = rec,
         NEW over, done \subseteq over, e.type = "phase-completed" => e.phase \in over
  PROVE  Stands(r, to, rec, types \cup {e.type}, over)
<1>1. /\ DOMAIN r = Fields /\ r.events = s.events \cup {e}
      /\ r.write = s.write /\ r.exitCode = s.exitCode /\ r.owner = s.owner
      /\ r.counts = s.counts
  BY DEF Took, Fields
<1>2. Types(r) = types \cup {e.type}
  BY <1>1 DEF Types, Stands
<1>3. \A d \in r.events : d.type = "phase-completed" => d.phase \in over
  BY <1>1 DEF Stands
<1>4. r.write
  BY <1>1 DEF Stands
<1>5. QED
  BY <1>1, <1>2, <1>3, <1>4 DEF Stands

\* A step of the emission: x takes e and becomes a record that stands so.
Takes(x, e, ph, rcv, types, done) ==
  Report!Accepts(x, e) /\ Stands(Report!Reduce(x, e), ph, rcv, types, done)

Going(ph) == ph["complete"] \in {"pending", "active"}

\* A phase of a write that is active is completed.
LEMMA TakesPhase ==
  ASSUME NEW s, NEW ph, NEW rcv, NEW types, NEW done, Stands(s, ph, rcv, types, done), Going(ph),
         NEW q \in Report!WritePhases, q \notin done, ph[q] = "active",
         NEW status, q = "stage" => status # "skipped",
         NEW to, DOMAIN to = Report!PhaseNames,
         \A w : Report!CompleteAndAdvance(ph, q, status, w) = to
  PROVE  Takes(s, Report!PhaseCompleted(q, status), to, rcv,
               types \cup {"phase-completed"}, done \cup {q})
<1> DEFINE e == Report!PhaseCompleted(q, status)
<1>1. e.type = "phase-completed" /\ e.phase = q /\ e.status = status
  BY DEF Report!PhaseCompleted
<1> HIDE DEF e
<1>2. Fresh(e, types, done)
  BY <1>1 DEF Fresh
<1>3. /\ ~Report!Repeats(s, e) /\ ~Report!TerminalDuplicate(s, e)
      /\ e.type \notin Report!Unidentified /\ Report!IsOpen(s)
  BY <1>2, FreshIsNew DEF Going
<1>4. q \notin {"discover", "inspect", "resolve", "review", "complete"}
  BY DEF Report!WritePhases
<1>5. s.phases = ph /\ DOMAIN s = Fields
  BY DEF Stands
<1>6. Report!PhaseAllowed(s, e)
  BY <1>1, <1>4, <1>5 DEF Report!PhaseAllowed
<1>7. Report!Accepts(s, e)
  BY <1>1, <1>3, <1>6 DEF Report!Accepts
<1>8. Report!Changed(s, e) = [s EXCEPT !.phases = to]
  <2>1. Report!Changed(s, e) =
          [s EXCEPT !.phases = Report!CompleteAndAdvance(ph, q, status, s.write)]
    BY <1>1, <1>4, <1>5 DEF Report!Changed
  <2>2. QED
    BY <2>1
<1> DEFINE r == Report!Reduce(s, e)
<1>9. Took(r, s, e, {"phases"}) /\ r.phases = to
  BY <1>3, <1>5, <1>8, TookPhases
<1> HIDE DEF r
<1>10. r.recovery = rcv
  BY <1>9 DEF Took, Fields, Stands
<1>11. Stands(r, to, rcv, types \cup {e.type}, done \cup {q})
  BY <1>1, <1>9, <1>10, StandsOn
<1>12. QED
  BY <1>1, <1>7, <1>11 DEF e, r, Takes

\* The staging did nothing, and what is there was observed.
LEMMA TakesStage ==
  ASSUME NEW s, NEW ph, NEW rcv, NEW types, NEW done, Stands(s, ph, rcv, types, done), Going(ph),
         "stage-completed" \notin types, ph["stage"] = "active",
         NEW e, e.type = "stage-completed", e.observationRequired,
         NEW to, DOMAIN to = Report!PhaseNames, Report!StageSkipped(ph, e) = to
  PROVE  Takes(s, e, to, rcv, types \cup {"stage-completed"}, done)
<1>2. Fresh(e, types, done)
  BY DEF Fresh
<1>3. /\ ~Report!Repeats(s, e) /\ ~Report!TerminalDuplicate(s, e)
      /\ e.type \notin Report!Unidentified /\ Report!IsOpen(s)
  BY <1>2, FreshIsNew DEF Going
<1>5. s.phases = ph /\ DOMAIN s = Fields
  BY DEF Stands
<1>7. Report!Accepts(s, e)
  BY <1>3, <1>5 DEF Report!Accepts
<1>8. Report!Changed(s, e) = [s EXCEPT !.phases = to]
  BY <1>5 DEF Report!Changed
<1> DEFINE r == Report!Reduce(s, e)
<1>9. Took(r, s, e, {"phases"}) /\ r.phases = to
  <2>1. /\ DOMAIN s = Fields /\ ~Report!TerminalDuplicate(s, e)
        /\ e.type \notin Report!Unidentified
    BY <1>3, <1>5
  <2>2. QED
    BY ONLY <1>8, <2>1, TookPhases
<1> HIDE DEF r
<1>10. r.recovery = rcv
  BY <1>9 DEF Took, Fields, Stands
<1>11. Stands(r, to, rcv, types \cup {e.type}, done)
  BY <1>9, <1>10, StandsOn
<1>12. QED
  BY <1>7, <1>11 DEF r, Takes

\* The apply ended.
LEMMA TakesApply ==
  ASSUME NEW s, NEW ph, NEW rcv, NEW types, NEW done, Stands(s, ph, rcv, types, done), Going(ph),
         "apply-completed" \notin types, ph["apply"] = "active",
         NEW e, e.type = "apply-completed", e.status \in {"passed", "failed", "unknown"},
         e.recoveryRequired \/ e.status = "passed" => e.observationRequired,
         NEW to, DOMAIN to = Report!PhaseNames, Report!ApplyEnded(ph, e) = to
  PROVE  Takes(s, e, to, rcv, types \cup {"apply-completed"}, done)
<1>2. Fresh(e, types, done)
  BY DEF Fresh
<1>3. /\ ~Report!Repeats(s, e) /\ ~Report!TerminalDuplicate(s, e)
      /\ e.type \notin Report!Unidentified /\ Report!IsOpen(s)
  BY <1>2, FreshIsNew DEF Going
<1>5. s.phases = ph /\ DOMAIN s = Fields
  BY DEF Stands
<1>6. Report!ApplyAllowed(s, e)
  <2>1. e.status \notin {"blocked", "skipped"}
    OBVIOUS
  <2>2. s.phases["apply"] = "active"
    BY <1>5
  <2>3. QED
    BY ONLY <2>1, <2>2, e.recoveryRequired \/ e.status = "passed" => e.observationRequired
       DEF Report!ApplyAllowed
<1>7. Report!Accepts(s, e)
  BY <1>3, <1>6 DEF Report!Accepts
<1>8. Report!Changed(s, e) = [s EXCEPT !.phases = to]
  BY <1>5 DEF Report!Changed
<1> DEFINE r == Report!Reduce(s, e)
<1>9. Took(r, s, e, {"phases"}) /\ r.phases = to
  BY ONLY <1>3, <1>5, <1>8, TookPhases
<1> HIDE DEF r
<1>10. r.recovery = rcv
  BY ONLY <1>9, Stands(s, ph, rcv, types, done) DEF Took, Fields, Stands
<1>11. Stands(r, to, rcv, types \cup {e.type}, done)
  BY <1>9, <1>10, StandsOn
<1>12. QED
  BY <1>7, <1>11 DEF r, Takes

\* What a record holds of a recovery.
RecoveryOf(executed, status) == [executed |-> executed, status |-> status]

\* A recovery was executed, or its evidence is kept.
LEMMA TakesRecovery ==
  ASSUME NEW s, NEW ph, NEW rcv, NEW types, NEW done, Stands(s, ph, rcv, types, done), Going(ph),
         "recovery-recorded" \notin types, NEW executed \in BOOLEAN,
         NEW status \in {"completed", "partial", "unknown"},
         executed => ph["recover"] = "active",
         ~executed => ph["recover"] = "skipped" /\ status = "unknown"
  PROVE  Takes(s, Report!RecoveryRecorded(executed, status), ph, RecoveryOf(executed, status),
               types \cup {"recovery-recorded"}, done)
<1> DEFINE e == Report!RecoveryRecorded(executed, status)
<1>1. e.type = "recovery-recorded" /\ e.status = status
  BY DEF Report!RecoveryRecorded
<1>0. (e.executed <=> executed) /\ (e.paths <=> executed)
  BY DEF Report!RecoveryRecorded
<1>13. RecoveryOf(e.executed, e.status) = RecoveryOf(executed, status)
  BY Zenon DEF Report!RecoveryRecorded
<1> HIDE DEF e
<1>2. Fresh(e, types, done)
  BY <1>1 DEF Fresh
<1>3. /\ ~Report!Repeats(s, e) /\ ~Report!TerminalDuplicate(s, e)
      /\ e.type \notin Report!Unidentified /\ Report!IsOpen(s)
  BY <1>2, FreshIsNew DEF Going
<1>5. s.phases = ph /\ DOMAIN s = Fields /\ DOMAIN ph = Report!PhaseNames
  BY DEF Stands
<1>6. Report!RecoveryAllowed(s, e)
  BY <1>0, <1>1, <1>5 DEF Report!RecoveryAllowed
<1>7. Report!Accepts(s, e)
  BY <1>1, <1>3, <1>6 DEF Report!Accepts
<1> DEFINE rec == RecoveryOf(e.executed, e.status)
<1>8. Report!Changed(s, e) = [s EXCEPT !.recovery = rec]
  BY <1>1 DEF Report!Changed, RecoveryOf
<1> HIDE DEF rec
<1> DEFINE r == Report!Reduce(s, e)
<1>9. Took(r, s, e, {"recovery"}) /\ r.recovery = rec
  <2>1. r = [[s EXCEPT !.recovery = rec] EXCEPT !.events = @ \cup {e}]
    BY <1>3, <1>8 DEF Report!Reduce
  <2>2. QED
    BY <1>5, <2>1 DEF Took, Fields
<1> HIDE DEF r
<1>10. r.phases = ph
  BY <1>5, <1>9 DEF Took, Fields
<1>11. Stands(r, ph, rec, types \cup {e.type}, done)
  BY <1>1, <1>5, <1>9, <1>10, StandsOn
<1>12. QED
  BY <1>1, <1>7, <1>11, <1>13 DEF e, r, rec, Takes

\* The phases of a record whose run was decided.
Ph(preflight, stg, apply, recover, observe, complete) ==
  [p \in Report!PhaseNames |->
     CASE p = "preflight" -> preflight [] p = "stage" -> stg
       [] p = "apply" -> apply [] p = "recover" -> recover
       [] p = "observe" -> observe [] p = "complete" -> complete
       [] OTHER -> "passed"]

\* The phases of a write, one by one.
LEMMA PhIs ==
  ASSUME NEW a, NEW b, NEW c, NEW d, NEW e, NEW f, NEW ph, ph = Ph(a, b, c, d, e, f)
  PROVE  /\ DOMAIN ph = Report!PhaseNames
         /\ ph["preflight"] = a /\ ph["stage"] = b /\ ph["apply"] = c
         /\ ph["recover"] = d /\ ph["observe"] = e /\ ph["complete"] = f
         /\ \A p \in {"discover", "inspect", "resolve", "review"} : ph[p] = "passed"
BY DEF Ph, Report!PhaseNames, Report!WritePhases

Fresh0 == Ph("active", "pending", "pending", "pending", "pending", "pending")
Staging == Ph("passed", "active", "pending", "pending", "pending", "pending")
Applying == Ph("passed", "passed", "active", "pending", "pending", "pending")

\* How each end of a phase goes on.
LEMMA Advances ==
  /\ \A w : Report!CompleteAndAdvance(Fresh0, "preflight", "passed", w) = Staging
  /\ \A v, w : v # "passed" /\ v # "pending" =>
       Report!CompleteAndAdvance(Fresh0, "preflight", v, w)
         = Ph(v, "skipped", "skipped", "skipped", "skipped", "active")
  /\ \A w : Report!CompleteAndAdvance(Staging, "stage", "passed", w) = Applying
  /\ \A v, w : v # "passed" /\ v # "pending" =>
       Report!CompleteAndAdvance(Staging, "stage", v, w)
         = Ph("passed", v, "skipped", "skipped", "skipped", "active")
  /\ \A v, r, w : Report!CompleteAndAdvance(
              Ph("passed", "passed", v, "active", "pending", "pending"), "recover", r, w)
            = Ph("passed", "passed", v, r, "active", "pending")
  /\ \A a, b, c, i, w : Report!CompleteAndAdvance(
              Ph("passed", a, b, c, "active", "pending"), "observe", i, w)
            = Ph("passed", a, b, c, i, "active")
<1> USE DEF Ph, Report!CompleteAndAdvance, Report!PhaseNames, Report!WritePhases, Fresh0,
            Staging, Applying
<1>1. ASSUME NEW w PROVE Report!CompleteAndAdvance(Fresh0, "preflight", "passed", w) = Staging
  BY DEF Report!After
<1>2. ASSUME NEW v, NEW w, v # "passed", v # "pending"
      PROVE  Report!CompleteAndAdvance(Fresh0, "preflight", v, w)
               = Ph(v, "skipped", "skipped", "skipped", "skipped", "active")
  BY <1>2 DEF Report!Finish
<1>3. ASSUME NEW w PROVE Report!CompleteAndAdvance(Staging, "stage", "passed", w) = Applying
  BY DEF Report!After
<1>4. ASSUME NEW v, NEW w, v # "passed", v # "pending"
      PROVE  Report!CompleteAndAdvance(Staging, "stage", v, w)
               = Ph("passed", v, "skipped", "skipped", "skipped", "active")
  BY <1>4 DEF Report!Finish
<1>5. ASSUME NEW v, NEW r, NEW w
      PROVE  Report!CompleteAndAdvance(
               Ph("passed", "passed", v, "active", "pending", "pending"), "recover", r, w)
             = Ph("passed", "passed", v, r, "active", "pending")
  BY DEF Report!After
<1>6. ASSUME NEW a, NEW b, NEW c, NEW i, NEW w
      PROVE  Report!CompleteAndAdvance(
               Ph("passed", a, b, c, "active", "pending"), "observe", i, w)
             = Ph("passed", a, b, c, i, "active")
  BY DEF Report!After
<1> HIDE DEF Ph, Report!CompleteAndAdvance, Report!PhaseNames, Report!WritePhases, Fresh0,
             Staging, Applying
<1>7. QED
  BY <1>1, <1>2, <1>3, <1>4, <1>5, <1>6

\* How the apply and the staging end.
LEMMA Ends ==
  /\ \A e : e.observationRequired =>
       Report!StageSkipped(Staging, e)
         = Ph("passed", "skipped", "skipped", "skipped", "active", "pending")
  /\ \A e : e.recoveryRequired => Report!ApplyEnded(Applying, e)
            = Ph("passed", "passed", e.status, "active", "pending", "pending")
  /\ \A e : ~e.recoveryRequired /\ e.observationRequired => Report!ApplyEnded(Applying, e)
            = Ph("passed", "passed", e.status, "skipped", "active", "pending")
  /\ \A e : ~e.recoveryRequired /\ ~e.observationRequired /\ e.status # "pending" =>
            Report!ApplyEnded(Applying, e)
            = Ph("passed", "passed", e.status, "skipped", "skipped", "active")
<1>1. ASSUME NEW e, e.observationRequired
      PROVE  Report!StageSkipped(Staging, e)
               = Ph("passed", "skipped", "skipped", "skipped", "active", "pending")
  BY <1>1 DEF Ph, Staging, Report!StageSkipped, Report!PhaseNames, Report!WritePhases
<1>2. ASSUME NEW e, e.recoveryRequired
      PROVE  Report!ApplyEnded(Applying, e)
               = Ph("passed", "passed", e.status, "active", "pending", "pending")
  BY <1>2 DEF Ph, Applying, Report!ApplyEnded, Report!PhaseNames, Report!WritePhases
<1>3. ASSUME NEW e, ~e.recoveryRequired, e.observationRequired
      PROVE  Report!ApplyEnded(Applying, e)
               = Ph("passed", "passed", e.status, "skipped", "active", "pending")
  BY <1>3 DEF Ph, Applying, Report!ApplyEnded, Report!PhaseNames, Report!WritePhases
<1>4. ASSUME NEW e, ~e.recoveryRequired, ~e.observationRequired, e.status # "pending"
      PROVE  Report!ApplyEnded(Applying, e)
               = Ph("passed", "passed", e.status, "skipped", "skipped", "active")
  BY <1>4 DEF Ph, Applying, Report!ApplyEnded, Report!Finish, Report!PhaseNames,
     Report!WritePhases
<1>5. QED
  BY <1>1, <1>2, <1>3, <1>4

----------------------------------------------------------------------------
(* The record up to the engine's answer                                     *)

\* The counts of a run on files that all change.
CountsOf(found, resolved, selected) ==
  [packages |-> found, declared |-> found, eligible |-> resolved, unresolved |-> 0,
   updates |-> resolved, operations |-> selected, targets |-> selected]

\* A record before its run is decided.
Begins(s, ph, counts, types) ==
  /\ DOMAIN s = Fields /\ s.write /\ s.exitCode = Report!Null
  /\ s.phases = ph /\ DOMAIN ph = Report!PhaseNames /\ ph["complete"] = "pending"
  /\ s.counts = counts /\ s.recovery = RecoveryOf(FALSE, "not-needed")
  /\ Types(s) = types /\ "phase-completed" \notin types

\* A new event of such a record.
LEMMA FirstOfType ==
  ASSUME NEW s, NEW ph, NEW counts, NEW types, Begins(s, ph, counts, types),
         NEW e, e.type \notin types \cup Report!Unidentified
  PROVE  ~Report!Repeats(s, e) /\ ~Report!TerminalDuplicate(s, e) /\ Report!IsOpen(s)
<1>1. ASSUME NEW d \in s.events, Report!TerminalEventId(d) = Report!TerminalEventId(e) PROVE FALSE
  <2>1. d.type = e.type
    BY <1>1, SameId
  <2>2. QED
    BY <2>1 DEF Begins, Types
<1>2. e \notin s.events
  BY <1>1
<1>3. QED
  BY <1>1, <1>2 DEF Report!Repeats, Report!TerminalDuplicate, Report!IsOpen, Begins

\* The record of an opening event is the next opening.
LEMMA BeginsOn ==
  ASSUME NEW s, NEW ph, NEW counts, NEW types, Begins(s, ph, counts, types),
         NEW e, e.type # "phase-completed", NEW r, Took(r, s, e, {"phases", "counts", "owner"}),
         NEW to, r.phases = to, DOMAIN to = Report!PhaseNames, to["complete"] = "pending",
         NEW now, r.counts = now
  PROVE  Begins(r, to, now, types \cup {e.type})
<1>1. /\ DOMAIN r = Fields /\ r.events = s.events \cup {e}
      /\ r.write = s.write /\ r.exitCode = s.exitCode /\ r.recovery = s.recovery
  BY DEF Took, Fields
<1>2. Types(r) = types \cup {e.type}
  BY <1>1 DEF Types, Begins
<1>3. r.write
  BY <1>1 DEF Begins
<1>4. QED
  BY <1>1, <1>2, <1>3 DEF Begins

PhasesThen(discover, inspect, resolve, review) ==
  [p \in Report!PhaseNames |->
     CASE p = "discover" -> discover [] p = "inspect" -> inspect
       [] p = "resolve" -> resolve [] p = "review" -> review
       [] OTHER -> "pending"]

\* The phases of an opening, one by one.
LEMMA PhasesThenIs ==
  ASSUME NEW a, NEW b, NEW c, NEW d, NEW ph, ph = PhasesThen(a, b, c, d)
  PROVE  /\ DOMAIN ph = Report!PhaseNames
         /\ ph["discover"] = a /\ ph["inspect"] = b /\ ph["resolve"] = c /\ ph["review"] = d
         /\ ph["complete"] = "pending"
BY DEF PhasesThen, Report!PhaseNames, Report!WritePhases

\* Each opening event passes its phase and starts the next.
LEMMA OpeningAdvances ==
  /\ \A w : Report!CompleteAndAdvance(PhasesThen("active", "pending", "pending", "pending"),
              "discover", "passed", w) = PhasesThen("passed", "active", "pending", "pending")
  /\ \A w : Report!CompleteAndAdvance(PhasesThen("passed", "active", "pending", "pending"),
              "inspect", "passed", w) = PhasesThen("passed", "passed", "active", "pending")
  /\ \A w : Report!CompleteAndAdvance(
              Report!ActivateResolution(PhasesThen("passed", "passed", "active", "pending")),
              "resolve", "passed", w) = PhasesThen("passed", "passed", "passed", "active")
  /\ Report!ActivateResolution(PhasesThen("passed", "passed", "active", "pending"))["resolve"]
       = "active"
  /\ \A w : w => Report!AdvanceFromReview(
              [PhasesThen("passed", "passed", "passed", "active") EXCEPT !["review"] = "passed"], w)
            = Fresh0
<1> USE DEF PhasesThen, Report!PhaseNames, Report!WritePhases
<1>1. ASSUME NEW w
      PROVE Report!CompleteAndAdvance(PhasesThen("active", "pending", "pending", "pending"),
              "discover", "passed", w) = PhasesThen("passed", "active", "pending", "pending")
  BY DEF Report!CompleteAndAdvance, Report!After
<1>2. ASSUME NEW w
      PROVE Report!CompleteAndAdvance(PhasesThen("passed", "active", "pending", "pending"),
              "inspect", "passed", w) = PhasesThen("passed", "passed", "active", "pending")
  BY DEF Report!CompleteAndAdvance, Report!After
<1>3. Report!ActivateResolution(PhasesThen("passed", "passed", "active", "pending"))
        = PhasesThen("passed", "passed", "active", "pending")
  BY DEF Report!ActivateResolution
<1>4. ASSUME NEW w
      PROVE Report!CompleteAndAdvance(PhasesThen("passed", "passed", "active", "pending"),
              "resolve", "passed", w) = PhasesThen("passed", "passed", "passed", "active")
  BY DEF Report!CompleteAndAdvance, Report!After
<1>5. PhasesThen("passed", "passed", "active", "pending")["resolve"] = "active"
  OBVIOUS
<1>6. ASSUME NEW w, w
      PROVE Report!AdvanceFromReview(
              [PhasesThen("passed", "passed", "passed", "active") EXCEPT !["review"] = "passed"], w)
            = Fresh0
  BY <1>6 DEF Report!AdvanceFromReview, Fresh0, Ph
<1> HIDE DEF PhasesThen, Report!PhaseNames, Report!WritePhases
<1>7. QED
  BY <1>1, <1>2, <1>3, <1>4, <1>5, <1>6

\* Four events, one by one.
LEMMA FourTuple ==
  ASSUME NEW a, NEW b, NEW c, NEW d
  PROVE  /\ Len(<<a, b, c, d>>) = 4
         /\ <<a, b, c, d>>[1] = a /\ <<a, b, c, d>>[2] = b
         /\ <<a, b, c, d>>[3] = c /\ <<a, b, c, d>>[4] = d
OBVIOUS

\* Without events the record stays.
LEMMA EmitNothing == \A s : Report!Emit(s, <<>>) = Onward(s)
<1>1. ASSUME NEW s PROVE Report!Emit(s, <<>>) = Onward(s)
  <2>1. Len(<<>>) = 0
    OBVIOUS
  <2>2. PICK f : f[0] = [state |-> s, ok |-> TRUE] /\ Report!Emit(s, <<>>) = f[0]
    BY <2>1, EmitTraced
  <2>3. QED
    BY <2>2 DEF Onward
<1>2. QED
  BY <1>1

\* One more event.
LEMMA EmitAppend ==
  ASSUME NEW s, NEW es, IsSeq(es), NEW e
  PROVE  Report!Emit(s, es \o <<e>>) = Report!Emitted(Report!Emit(s, es), e)
<1> DEFINE n == Len(es)
           all == es \o <<e>>
<1>0. IsSeq(<<e>>) /\ Len(<<e>>) = 1 /\ <<e>>[1] = e
  BY SeqFacts
<1>1. n \in Nat /\ Len(all) = n + 1
  BY <1>0, SeqFacts, JoinedSeq
<1>2. \A i \in 1 .. n + 1 : all[i] = IF i <= n THEN es[i] ELSE <<e>>[i - n]
  <2>1. \A i \in 1 .. n + Len(<<e>>) : all[i] = IF i <= n THEN es[i] ELSE <<e>>[i - n]
    BY <1>0, JoinedSeq
  <2>2. QED
    BY <1>0, <2>1
<1>3. (\A i \in 1..n : all[i] = es[i]) /\ all[n + 1] = e
  <2>1. all[n + 1] = <<e>>[(n + 1) - n]
    BY <1>1, <1>2
  <2>2. (n + 1) - n = 1
    BY <1>1
  <2>3. QED
    BY <1>0, <1>1, <1>2, <2>1, <2>2
<1> HIDE DEF n, all
<1>4. PICK f : /\ f[0] = [state |-> s, ok |-> TRUE]
               /\ \A i \in 1..n : f[i] = Report!Emitted(f[i - 1], es[i])
               /\ Report!Emit(s, es) = f[n]
  BY <1>1, EmitTraced DEF n
<1>5. PICK g : /\ g[0] = [state |-> s, ok |-> TRUE]
               /\ \A i \in 1..Len(all) : g[i] = Report!Emitted(g[i - 1], all[i])
               /\ Report!Emit(s, all) = g[Len(all)]
  <2>1. Len(all) \in Nat
    BY <1>1
  <2>2. QED
    BY <2>1, EmitTraced
<1> DEFINE Same == {k \in Nat : k <= n => g[k] = f[k]}
<1>6. 0 \in Same
  BY <1>4, <1>5
<1>7. ASSUME NEW k \in Same PROVE k + 1 \in Same
  <2>1. CASE k + 1 <= n
    <3>1. k + 1 \in 1..n /\ k + 1 \in 1..Len(all) /\ (k + 1) - 1 = k
      BY <1>1, <2>1
    <3>2. f[k + 1] = Report!Emitted(f[k], es[k + 1])
      BY <1>4, <3>1
    <3>3. g[k + 1] = Report!Emitted(g[k], all[k + 1])
      BY <1>5, <3>1
    <3>4. g[k] = f[k]
      BY <1>1, <2>1
    <3>5. all[k + 1] = es[k + 1]
      BY <1>3, <3>1
    <3>6. QED
      BY <3>2, <3>3, <3>4, <3>5
  <2>2. QED
    BY <2>1
<1> HIDE DEF Same
<1>8. n \in Same
  <2>1. Same \in SUBSET Nat
    BY DEF Same
  <2>2. QED
    BY <1>1, <1>6, <1>7, <2>1, Induction
<1>9. g[n] = f[n]
  BY <1>1, <1>8 DEF Same
<1>10. g[n + 1] = Report!Emitted(g[n], e)
  <2>1. n + 1 \in 1..Len(all) /\ (n + 1) - 1 = n
    BY <1>1
  <2>2. g[n + 1] = Report!Emitted(g[(n + 1) - 1], all[n + 1])
    BY ONLY <1>5, <2>1, Zenon
  <2>3. QED
    BY <1>3, <2>1, <2>2
<1>11. QED
  BY <1>1, <1>4, <1>5, <1>9, <1>10 DEF all

\* What a run's events make of its record: one that stands so.
Reached(events, ph, rcv, types, done) ==
  IsSeq(events) /\ \E s : Report!Emit(Before, events) = Onward(s) /\ Stands(s, ph, rcv, types, done)

\* A record that takes one more event has been told one more event.
LEMMA ReachedOn ==
  ASSUME NEW es, NEW ph, NEW rcv, NEW types, NEW done, Reached(es, ph, rcv, types, done),
         NEW e, NEW to, NEW rec, NEW now, NEW over,
         \A s : Stands(s, ph, rcv, types, done) => Takes(s, e, to, rec, now, over)
  PROVE  Reached(es \o <<e>>, to, rec, now, over)
<1>1. PICK s : Report!Emit(Before, es) = Onward(s) /\ Stands(s, ph, rcv, types, done)
  BY DEF Reached
<1>2. Takes(s, e, to, rec, now, over)
  BY <1>1
<1>3. IsSeq(es \o <<e>>)
  <2>1. IsSeq(es) /\ IsSeq(<<e>>)
    BY SeqFacts DEF Reached
  <2>2. QED
    BY <2>1, JoinedSeq
<1>4. Report!Emit(Before, es \o <<e>>) = Report!Emitted(Onward(s), e)
  BY <1>1, EmitAppend DEF Reached
<1>5. Report!Emit(Before, es \o <<e>>) = Onward(Report!Reduce(s, e))
  BY <1>2, <1>4, EmittedStep DEF Takes
<1>6. QED
  BY <1>2, <1>3, <1>5 DEF Takes, Reached

\* Sequences of events, taken apart.
LEMMA Pairs == \A a, b : IsSeq(<<a, b>>) /\ <<a, b>> = <<a>> \o <<b>>
<1>1. ASSUME NEW a, NEW b PROVE IsSeq(<<a, b>>) /\ <<a, b>> = <<a>> \o <<b>>
  <2> DEFINE t == <<a>> \o <<b>>
  <2>1. <<a, b>> \in Seq({a, b}) /\ <<a>> \in Seq({a, b}) /\ <<b>> \in Seq({a, b})
    OBVIOUS
  <2>2. Len(<<a>>) = 1 /\ Len(<<b>>) = 1 /\ Len(<<a, b>>) = 2
        /\ <<a>>[1] = a /\ <<b>>[1] = b /\ <<a, b>>[1] = a /\ <<a, b>>[2] = b
    OBVIOUS
  <2>3. t \in Seq({a, b}) /\ Len(t) = Len(<<a>>) + Len(<<b>>)
        /\ \A i \in 1 .. Len(<<a>>) + Len(<<b>>) :
             t[i] = IF i <= Len(<<a>>) THEN <<a>>[i] ELSE <<b>>[i - Len(<<a>>)]
    BY <2>1, ConcatProperties
  <2> HIDE DEF t
  <2>4. Len(t) = 2 /\ t[1] = a /\ t[2] = b
    BY <2>2, <2>3
  <2>5. \A i \in 1 .. Len(t) : t[i] = <<a, b>>[i]
    BY <2>2, <2>4
  <2>6. t = <<a, b>>
    BY <2>1, <2>2, <2>3, <2>4, <2>5, SeqEqual
  <2>7. QED
    BY <2>1, <2>6 DEF t, IsSeq
<1>2. QED
  BY <1>1

\* Sequences may be regrouped.
LEMMA Joined ==
  ASSUME NEW s, NEW t, NEW u, IsSeq(s), IsSeq(t), IsSeq(u)
  PROVE  s \o (t \o u) = (s \o t) \o u
<1>1. PICK S : s \in Seq(S)
  BY DEF IsSeq
<1>2. PICK T : t \in Seq(T)
  BY DEF IsSeq
<1>3. PICK U : u \in Seq(U)
  BY DEF IsSeq
<1> DEFINE V == (S \cup T) \cup U
<1>4. s \in Seq(V) /\ t \in Seq(V) /\ u \in Seq(V)
  BY <1>1, <1>2, <1>3, SeqMonotonic
<1> HIDE DEF V
<1>5. (s \o t) \o u = s \o (t \o u)
  BY <1>4, ConcatAssociative
<1>6. QED
  BY <1>5

\* The empty sequence adds nothing.
LEMMA JoinedNothing ==
  ASSUME NEW s, IsSeq(s)
  PROVE  s \o <<>> = s /\ <<>> \o s = s
<1>1. PICK S : s \in Seq(S)
  BY DEF IsSeq
<1>2. QED
  BY <1>1, ConcatEmptySeq

\* The report counts as its reader does.
LEMMA Counted == \A S : Report!Cardinality(S) = Cardinality(S)
BY DEF Cardinality, Report!Cardinality, IsFiniteSet, Report!IsFiniteSet

CountsAre(found, declared, eligible, unresolved, updates, operations, targets) ==
  [packages |-> found, declared |-> declared, eligible |-> eligible,
   unresolved |-> unresolved, updates |-> updates, operations |-> operations,
   targets |-> targets]

\* The counts of the opening events.
LEMMA CountsGrow ==
  /\ [[CountsOf(0, 0, 0) EXCEPT !.packages = N] EXCEPT !.declared = N] = CountsOf(N, 0, 0)
  /\ [[[CountsOf(N, 0, 0) EXCEPT !.eligible = N] EXCEPT !.updates = N] EXCEPT !.unresolved = 0]
       = CountsOf(N, N, 0)
  /\ [[CountsOf(N, N, 0) EXCEPT !.operations = N] EXCEPT !.targets = N] = CountsOf(N, N, N)
<1>1. \A f, r, s : CountsOf(f, r, s) = CountsAre(f, f, r, 0, r, s, s)
  BY DEF CountsOf, CountsAre
<1>2. [[CountsAre(0, 0, 0, 0, 0, 0, 0) EXCEPT !.packages = N] EXCEPT !.declared = N]
        = CountsAre(N, N, 0, 0, 0, 0, 0)
  <2>1. [CountsAre(0, 0, 0, 0, 0, 0, 0) EXCEPT !.packages = N] = CountsAre(N, 0, 0, 0, 0, 0, 0)
    BY DEF CountsAre
  <2>2. [CountsAre(N, 0, 0, 0, 0, 0, 0) EXCEPT !.declared = N] = CountsAre(N, N, 0, 0, 0, 0, 0)
    BY DEF CountsAre
  <2>3. QED
    BY <2>1, <2>2
<1>3. [[[CountsAre(N, N, 0, 0, 0, 0, 0) EXCEPT !.eligible = N] EXCEPT !.updates = N]
        EXCEPT !.unresolved = 0] = CountsAre(N, N, N, 0, N, 0, 0)
  <2>1. [CountsAre(N, N, 0, 0, 0, 0, 0) EXCEPT !.eligible = N] = CountsAre(N, N, N, 0, 0, 0, 0)
    BY DEF CountsAre
  <2>2. [CountsAre(N, N, N, 0, 0, 0, 0) EXCEPT !.updates = N] = CountsAre(N, N, N, 0, N, 0, 0)
    BY DEF CountsAre
  <2>3. [CountsAre(N, N, N, 0, N, 0, 0) EXCEPT !.unresolved = 0] = CountsAre(N, N, N, 0, N, 0, 0)
    BY DEF CountsAre
  <2>4. QED
    BY <2>1, <2>2, <2>3
<1>4. [[CountsAre(N, N, N, 0, N, 0, 0) EXCEPT !.operations = N] EXCEPT !.targets = N]
        = CountsAre(N, N, N, 0, N, N, N)
  <2>1. [CountsAre(N, N, N, 0, N, 0, 0) EXCEPT !.operations = N] = CountsAre(N, N, N, 0, N, N, 0)
    BY DEF CountsAre
  <2>2. [CountsAre(N, N, N, 0, N, N, 0) EXCEPT !.targets = N] = CountsAre(N, N, N, 0, N, N, N)
    BY DEF CountsAre
  <2>3. QED
    BY <2>1, <2>2
<1>5. QED
  BY <1>1, <1>2, <1>3, <1>4

\* Each file is the one member of its own target.
LEMMA OwnerIs ==
  /\ DOMAIN Owner = Files /\ Report!Targets(Owner) = Files
  /\ Cardinality(Files) = N
  /\ \A f \in Files : Report!Members(Owner, f) = {f}
<1>1. DOMAIN Owner = Files
  BY DEF Owner
<1>2. Report!Targets(Owner) = Files
  BY DEF Owner, Report!Targets
<1>3. Cardinality(Files) = N
  <2>1. 1 \in Int /\ N \in Int /\ N - 1 + 1 = N
    OBVIOUS
  <2>2. Cardinality(1..N) = IF 1 > N THEN 0 ELSE N - 1 + 1
    BY <2>1, FS_Interval
  <2>3. QED
    BY <2>2 DEF Files
<1>4. \A f \in Files : Report!Members(Owner, f) = {f}
  BY DEF Owner, Report!Members
<1>5. QED
  BY <1>1, <1>2, <1>3, <1>4

\* One of the events before a write.
Opens(s, e, ph, counts, types) ==
  Report!Accepts(s, e) /\ Begins(Report!Reduce(s, e), ph, counts, types)

\* What an event of a type of its own makes of the record.
LEMMA OpensTook ==
  ASSUME NEW s, NEW ph, NEW counts, NEW types, Begins(s, ph, counts, types),
         NEW e, e.type \notin types \cup Report!Unidentified, e.type # "phase-completed",
         Report!Accepts(s, e), NEW c, Report!Changed(s, e) = c, DOMAIN c = Fields,
         \A f \in Fields \ {"phases", "counts", "owner"} : c[f] = s[f],
         NEW to, c.phases = to, DOMAIN to = Report!PhaseNames, to["complete"] = "pending",
         NEW now, c.counts = now
  PROVE  /\ Opens(s, e, to, now, types \cup {e.type})
         /\ Report!Reduce(s, e).owner = c.owner
<1>1. ~Report!TerminalDuplicate(s, e)
  BY FirstOfType
<1> DEFINE r == Report!Reduce(s, e)
<1>2. r = [c EXCEPT !.events = @ \cup {e}]
  BY <1>1 DEF Report!Reduce
<1>3. /\ Took(r, s, e, {"phases", "counts", "owner"})
      /\ r.phases = to /\ r.counts = now /\ r.owner = c.owner
  <2>1. c.events = s.events
    BY DEF Fields
  <2>2. QED
    BY <1>2, <2>1 DEF Took, Fields
<1> HIDE DEF r
<1>4. Begins(r, to, now, types \cup {e.type})
  BY <1>3, BeginsOn
<1>5. QED
  BY <1>3, <1>4 DEF Opens, r

Discovered == [type |-> "packages-discovered", packages |-> N, declared |-> N]
Inspected == [type |-> "repository-inspection-completed", status |-> "passed"]
Resolved == [type |-> "resolution-completed", eligible |-> N, unresolved |-> 0,
             updates |-> N, status |-> "passed"]

\* packages-discovered is taken.
LEMMA OpensDiscovered ==
  ASSUME NEW s, Begins(s, PhasesThen("active", "pending", "pending", "pending"),
                       CountsOf(0, 0, 0), {})
  PROVE  Opens(s, Discovered, PhasesThen("passed", "active", "pending", "pending"),
               CountsOf(N, 0, 0), {"packages-discovered"})
<1> DEFINE e == Discovered
           ph == PhasesThen("active", "pending", "pending", "pending")
           to == PhasesThen("passed", "active", "pending", "pending")
           c == [s EXCEPT !.phases = to, !.counts.packages = N, !.counts.declared = N]
<1>1. e.type = "packages-discovered" /\ e.packages = N /\ e.declared = N
  BY DEF Discovered
<1>2. s.phases = ph /\ DOMAIN s = Fields /\ s.counts = CountsOf(0, 0, 0)
  BY DEF Begins
<1>3. /\ ph["discover"] = "active" /\ DOMAIN to = Report!PhaseNames
      /\ to["complete"] = "pending"
  BY PhasesThenIs
<1>4. Report!CompleteAndAdvance(s.phases, "discover", "passed", s.write) = to
  BY <1>2, OpeningAdvances
<1>5. s.counts.packages = 0 /\ s.counts.declared = 0
  BY <1>2 DEF CountsOf
<1> HIDE DEF e, ph, to
<1>6. ~Report!Repeats(s, e) /\ Report!IsOpen(s)
  BY <1>1, FirstOfType DEF Report!Unidentified, ph
<1>7. Report!Accepts(s, e)
  BY <1>1, <1>2, <1>3, <1>5, <1>6 DEF Report!Accepts
<1>8. Report!Changed(s, e) = c
  BY <1>1, <1>4 DEF Report!Changed
<1>9. c.counts = CountsOf(N, 0, 0)
  <2>1. c.counts = [[s.counts EXCEPT !.packages = N] EXCEPT !.declared = N]
    BY <1>2 DEF Fields
  <2>2. [[CountsOf(0, 0, 0) EXCEPT !.packages = N] EXCEPT !.declared = N] = CountsOf(N, 0, 0)
    BY CountsGrow
  <2> HIDE DEF c
  <2>3. QED
    BY <1>2, <2>1, <2>2
<1>10. /\ DOMAIN c = Fields /\ c.phases = to
       /\ \A f \in Fields \ {"phases", "counts", "owner"} : c[f] = s[f]
  BY <1>2 DEF Fields
<1> HIDE DEF c
<1>11. Opens(s, e, to, CountsOf(N, 0, 0), {} \cup {e.type})
  BY <1>1, <1>3, <1>7, <1>8, <1>9, <1>10, OpensTook DEF Report!Unidentified, ph
<1>12. QED
  BY <1>1, <1>11 DEF e, to

\* repository-inspection-completed is taken.
LEMMA OpensInspected ==
  ASSUME NEW s, Begins(s, PhasesThen("passed", "active", "pending", "pending"),
                       CountsOf(N, 0, 0), {"packages-discovered"})
  PROVE  Opens(s, Inspected, PhasesThen("passed", "passed", "active", "pending"),
               CountsOf(N, 0, 0), {"packages-discovered", "repository-inspection-completed"})
<1> DEFINE e == Inspected
           ph == PhasesThen("passed", "active", "pending", "pending")
           to == PhasesThen("passed", "passed", "active", "pending")
           c == [s EXCEPT !.phases = to]
<1>1. e.type = "repository-inspection-completed" /\ e.status = "passed"
  BY DEF Inspected
<1>2. s.phases = ph /\ DOMAIN s = Fields /\ s.counts = CountsOf(N, 0, 0)
  BY DEF Begins
<1>3. /\ ph["inspect"] = "active" /\ DOMAIN to = Report!PhaseNames
      /\ to["complete"] = "pending"
  BY PhasesThenIs
<1>4. Report!CompleteAndAdvance(s.phases, "inspect", "passed", s.write) = to
  BY <1>2, OpeningAdvances
<1> HIDE DEF e, ph, to
<1>6. ~Report!Repeats(s, e) /\ Report!IsOpen(s)
  BY <1>1, FirstOfType DEF Report!Unidentified, ph
<1>7. Report!Accepts(s, e)
  BY <1>1, <1>2, <1>3, <1>6 DEF Report!Accepts
<1>8. Report!Changed(s, e) = c
  BY <1>1, <1>4 DEF Report!Changed
<1>10. /\ DOMAIN c = Fields /\ c.phases = to /\ c.counts = CountsOf(N, 0, 0)
       /\ \A f \in Fields \ {"phases", "counts", "owner"} : c[f] = s[f]
  BY <1>2 DEF Fields
<1> HIDE DEF c
<1>11. Opens(s, e, to, CountsOf(N, 0, 0), {"packages-discovered"} \cup {e.type})
  BY <1>1, <1>3, <1>7, <1>8, <1>10, OpensTook DEF Report!Unidentified, ph
<1>12. {"packages-discovered"} \cup {e.type}
         = {"packages-discovered", "repository-inspection-completed"}
  BY <1>1
<1>13. QED
  BY <1>11, <1>12 DEF e, to

\* resolution-completed is taken.
LEMMA OpensResolved ==
  ASSUME NEW s, Begins(s, PhasesThen("passed", "passed", "active", "pending"),
                       CountsOf(N, 0, 0),
                       {"packages-discovered", "repository-inspection-completed"})
  PROVE  Opens(s, Resolved, PhasesThen("passed", "passed", "passed", "active"),
               CountsOf(N, N, 0), {"packages-discovered", "repository-inspection-completed",
                                   "resolution-completed"})
<1> DEFINE e == Resolved
           ph == PhasesThen("passed", "passed", "active", "pending")
           to == PhasesThen("passed", "passed", "passed", "active")
           c == [s EXCEPT !.phases = to, !.counts.eligible = N, !.counts.updates = N,
                          !.counts.unresolved = 0]
<1>1. /\ e.type = "resolution-completed" /\ e.status = "passed" /\ e.eligible = N
      /\ e.unresolved = 0 /\ e.updates = N
  BY DEF Resolved
<1>2. s.phases = ph /\ DOMAIN s = Fields /\ s.counts = CountsOf(N, 0, 0)
  BY DEF Begins
<1>3. DOMAIN to = Report!PhaseNames /\ to["complete"] = "pending"
  BY PhasesThenIs
<1>4. /\ Report!CompleteAndAdvance(Report!ActivateResolution(s.phases), "resolve", "passed",
                                   s.write) = to
      /\ Report!ActivateResolution(s.phases)["resolve"] = "active"
  BY <1>2, OpeningAdvances
<1>5. /\ s.counts.eligible = 0 /\ s.counts.unresolved = 0 /\ s.counts.updates = 0
      /\ s.counts.declared = N
  BY <1>2 DEF CountsOf
<1> HIDE DEF e, ph, to
<1>6. ~Report!Repeats(s, e) /\ Report!IsOpen(s)
  BY <1>1, FirstOfType DEF Report!Unidentified, ph
<1>7. Report!Accepts(s, e)
  <2>1. Report!ResolutionAllowed(s, e)
    BY <1>1, <1>4, <1>5 DEF Report!ResolutionAllowed
  <2>2. QED
    BY <1>1, <1>6, <2>1 DEF Report!Accepts
<1>8. Report!Changed(s, e) = c
  BY <1>1, <1>4 DEF Report!Changed
<1>9. c.counts = CountsOf(N, N, 0)
  <2>1. c.counts = [[[s.counts EXCEPT !.eligible = N] EXCEPT !.updates = N] EXCEPT !.unresolved = 0]
    BY <1>2 DEF Fields
  <2>2. [[[CountsOf(N, 0, 0) EXCEPT !.eligible = N] EXCEPT !.updates = N] EXCEPT !.unresolved = 0]
          = CountsOf(N, N, 0)
    BY CountsGrow
  <2> HIDE DEF c
  <2>3. QED
    BY <1>2, <2>1, <2>2
<1>10. /\ DOMAIN c = Fields /\ c.phases = to
       /\ \A f \in Fields \ {"phases", "counts", "owner"} : c[f] = s[f]
  BY <1>2 DEF Fields
<1> HIDE DEF c
<1>11. Opens(s, e, to, CountsOf(N, N, 0),
             {"packages-discovered", "repository-inspection-completed"} \cup {e.type})
  BY <1>1, <1>3, <1>7, <1>8, <1>9, <1>10, OpensTook DEF Report!Unidentified, ph
<1>12. {"packages-discovered", "repository-inspection-completed"} \cup {e.type}
         = {"packages-discovered", "repository-inspection-completed", "resolution-completed"}
  BY <1>1
<1>13. QED
  BY <1>11, <1>12 DEF e, to

Opening == {"packages-discovered", "repository-inspection-completed", "resolution-completed",
            "selection-completed"}

\* selection-completed is taken.
LEMMA OpensSelected ==
  ASSUME NEW s, Begins(s, PhasesThen("passed", "passed", "passed", "active"),
                       CountsOf(N, N, 0), {"packages-discovered",
                         "repository-inspection-completed", "resolution-completed"})
  PROVE  /\ Opens(s, Report!SelectionCompleted(Owner), Fresh0, CountsOf(N, N, N), Opening)
         /\ Report!Reduce(s, Report!SelectionCompleted(Owner)).owner = Owner
<1> DEFINE e == Report!SelectionCompleted(Owner)
           ph == PhasesThen("passed", "passed", "passed", "active")
           to == Fresh0
           c == [s EXCEPT !.phases = to, !.counts.operations = N, !.counts.targets = N,
                          !.owner = Owner]
<1>1. e.type = "selection-completed" /\ e.owner = Owner
  BY DEF Report!SelectionCompleted
<1>2. s.phases = ph /\ DOMAIN s = Fields /\ s.counts = CountsOf(N, N, 0)
  BY DEF Begins
<1>3. DOMAIN to = Report!PhaseNames /\ to["complete"] = "pending" /\ ph["review"] = "active"
  BY PhasesThenIs, PhIs DEF Fresh0
<1>4. Report!AdvanceFromReview([s.phases EXCEPT !["review"] = "passed"], s.write) = to
  <2>1. s.write
    BY DEF Begins
  <2>2. QED
    BY <1>2, <2>1, OpeningAdvances
<1>5. s.counts.operations = 0 /\ s.counts.targets = 0 /\ s.counts.updates = N
  BY <1>2 DEF CountsOf
<1>5a. /\ Report!Cardinality(DOMAIN e.owner) = N
       /\ Report!Cardinality(Report!Targets(e.owner)) = N
  BY <1>1, OwnerIs, Counted
<1> HIDE DEF e, ph, to
<1>6. ~Report!Repeats(s, e) /\ Report!IsOpen(s)
  BY <1>1, FirstOfType DEF Report!Unidentified, ph
<1>7. Report!Accepts(s, e)
  <2>1. Report!SelectionAllowed(s, e)
    BY <1>1, <1>2, <1>3, <1>5, <1>5a DEF Report!SelectionAllowed
  <2>2. QED
    BY <1>1, <1>6, <2>1 DEF Report!Accepts
<1>8. Report!Changed(s, e) = c
  BY <1>1, <1>4, <1>5a DEF Report!Changed
<1>9. c.counts = CountsOf(N, N, N)
  <2>1. c.counts = [[s.counts EXCEPT !.operations = N] EXCEPT !.targets = N]
    BY <1>2 DEF Fields
  <2>2. [[CountsOf(N, N, 0) EXCEPT !.operations = N] EXCEPT !.targets = N] = CountsOf(N, N, N)
    BY CountsGrow
  <2> HIDE DEF c
  <2>3. QED
    BY <1>2, <2>1, <2>2
<1>10. /\ DOMAIN c = Fields /\ c.phases = to /\ c.owner = Owner
       /\ \A f \in Fields \ {"phases", "counts", "owner"} : c[f] = s[f]
  BY <1>2 DEF Fields
<1> HIDE DEF c
<1> DEFINE before == {"packages-discovered", "repository-inspection-completed",
                      "resolution-completed"}
<1>11. /\ Opens(s, e, to, CountsOf(N, N, N), before \cup {e.type})
       /\ Report!Reduce(s, e).owner = Owner
  BY <1>1, <1>3, <1>7, <1>8, <1>9, <1>10, OpensTook DEF Report!Unidentified, ph
<1>12. before \cup {e.type} = Opening
  BY <1>1 DEF Opening
<1>13. QED
  BY <1>11, <1>12 DEF e, to

\* The selection is told, and the write begins.
LEMMA BeforeStands ==
  Stands(Before, Fresh0, RecoveryOf(FALSE, "not-needed"), Opening, {})
<1> DEFINE s0 == Report!CreateCheckRunState(TRUE)
           sel == Report!SelectionCompleted(Owner)
           es == <<Discovered, Inspected, Resolved, sel>>
           s1 == Report!Reduce(s0, Discovered)
           s2 == Report!Reduce(s1, Inspected)
           s3 == Report!Reduce(s2, Resolved)
           s4 == Report!Reduce(s3, sel)
<1>1. Begins(s0, PhasesThen("active", "pending", "pending", "pending"), CountsOf(0, 0, 0), {})
  <2>1. /\ DOMAIN s0 = Fields /\ s0.write /\ s0.exitCode = Report!Null /\ s0.events = {}
        /\ s0.counts = CountsOf(0, 0, 0) /\ s0.recovery = RecoveryOf(FALSE, "not-needed")
    BY DEF Report!CreateCheckRunState, Fields, CountsOf, RecoveryOf, Report!NoCounts
  <2>2. s0.phases = PhasesThen("active", "pending", "pending", "pending")
    BY DEF Report!CreateCheckRunState, PhasesThen
  <2>4. Types(s0) = {}
    BY <2>1 DEF Types
  <2>5. /\ DOMAIN s0.phases = Report!PhaseNames /\ s0.phases["complete"] = "pending"
    <3>1. /\ DOMAIN PhasesThen("active", "pending", "pending", "pending") = Report!PhaseNames
          /\ PhasesThen("active", "pending", "pending", "pending")["complete"] = "pending"
      BY PhasesThenIs
    <3> HIDE DEF s0
    <3>2. QED
      BY <2>2, <3>1
  <2>3. QED
    BY <2>1, <2>2, <2>4, <2>5 DEF Begins
<1> HIDE DEF s0
<1>2. Opens(s0, Discovered, PhasesThen("passed", "active", "pending", "pending"),
            CountsOf(N, 0, 0), {"packages-discovered"})
  BY <1>1, OpensDiscovered
<1>3. Begins(s1, PhasesThen("passed", "active", "pending", "pending"), CountsOf(N, 0, 0),
             {"packages-discovered"})
  BY <1>2 DEF Opens
<1> HIDE DEF s1
<1>4. Opens(s1, Inspected, PhasesThen("passed", "passed", "active", "pending"),
            CountsOf(N, 0, 0), {"packages-discovered", "repository-inspection-completed"})
  BY <1>3, OpensInspected
<1>5. Begins(s2, PhasesThen("passed", "passed", "active", "pending"), CountsOf(N, 0, 0),
             {"packages-discovered", "repository-inspection-completed"})
  BY <1>4 DEF Opens
<1> HIDE DEF s2
<1>6. Opens(s2, Resolved, PhasesThen("passed", "passed", "passed", "active"), CountsOf(N, N, 0),
            {"packages-discovered", "repository-inspection-completed", "resolution-completed"})
  BY <1>5, OpensResolved
<1>7. Begins(s3, PhasesThen("passed", "passed", "passed", "active"), CountsOf(N, N, 0),
            {"packages-discovered", "repository-inspection-completed", "resolution-completed"})
  BY <1>6 DEF Opens
<1> HIDE DEF s3
<1>8. Opens(s3, sel, Fresh0, CountsOf(N, N, N), Opening) /\ s4.owner = Owner
  BY <1>7, OpensSelected
<1>9. Begins(s4, Fresh0, CountsOf(N, N, N), Opening)
  BY <1>8 DEF Opens
<1> HIDE DEF sel, s4
<1>10. Len(es) = 4 /\ es[1] = Discovered /\ es[2] = Inspected /\ es[3] = Resolved /\ es[4] = sel
  BY FourTuple
<1> HIDE DEF es
<1>11. PICK f : /\ f[0] = [state |-> s0, ok |-> TRUE]
                /\ \A i \in 1..4 : f[i] = Report!Emitted(f[i - 1], es[i])
                /\ Report!Emit(s0, es) = f[4]
  <2>1. Len(es) \in Nat
    BY <1>10
  <2>2. \E f : /\ f[0] = [state |-> s0, ok |-> TRUE]
               /\ \A i \in 1..Len(es) : f[i] = Report!Emitted(f[i - 1], es[i])
               /\ Report!Emit(s0, es) = f[Len(es)]
    BY <2>1, EmitTraced
  <2>3. QED
    BY <1>10, <2>2
<1>12. /\ f[1] = Report!Emitted(f[0], Discovered) /\ f[2] = Report!Emitted(f[1], Inspected)
       /\ f[3] = Report!Emitted(f[2], Resolved) /\ f[4] = Report!Emitted(f[3], sel)
  BY <1>10, <1>11
<1>13. f[1] = Onward(s1)
  BY <1>2, <1>11, <1>12, EmittedStep DEF Opens, Onward, s1
<1>14. f[2] = Onward(s2)
  BY <1>4, <1>12, <1>13, EmittedStep DEF Opens, s2
<1>15. f[3] = Onward(s3)
  BY <1>6, <1>12, <1>14, EmittedStep DEF Opens, s3
<1>16. f[4] = Onward(s4)
  BY <1>8, <1>12, <1>15, EmittedStep DEF Opens, s4
<1>17. Before = s4
  <2>1. Before = Report!Emit(s0, es).state
    BY DEF Before, s0, es, sel, Discovered, Inspected, Resolved
  <2>2. QED
    BY <1>11, <1>16, <2>1, EmittedFields
<1>18. Stands(s4, Fresh0, RecoveryOf(FALSE, "not-needed"), Opening, {})
  <2>1. s4.counts.operations = N
    BY <1>9 DEF Begins, CountsOf
  <2>2. \A d \in s4.events : d.type # "phase-completed"
    BY <1>9 DEF Begins, Types
  <2>3. QED
    BY <1>8, <1>9, <2>1, <2>2 DEF Begins, Stands
<1>19. QED
  BY <1>17, <1>18

\* Before the answer is told, the record stands at the preflight.
LEMMA ReachedFirst ==
  Reached(<<>>, Fresh0, RecoveryOf(FALSE, "not-needed"), Opening, {})
BY BeforeStands, EmitNothing, SeqFacts DEF Reached

----------------------------------------------------------------------------
(* What the record says of the results                                      *)

\* An answer whose statuses fit the attempts: one operation on each file, and
\* every file was to change.
Fitting(a) ==
  /\ a.owner = Owner /\ DOMAIN a.ops = Files /\ a.attempted \subseteq Files
  /\ \A f \in Files :
       /\ a.ops[f].status \in {"applied", "conflicted", "reverted", "failed", "unknown"}
       /\ a.ops[f].status = "conflicted" => f \notin a.attempted
       /\ a.ops[f].status \in {"applied", "reverted"} => f \in a.attempted

Are(a, f, status) == a.ops[f].status = status

\* operationModelResult
LEMMA ModelIs ==
  ASSUME NEW a, a.owner = Owner, NEW f \in Files
  PROVE  LET r == Report!ModelResult(a, f) IN
         /\ r.outcome = IF Are(a, f, "conflicted") THEN "blocked" ELSE a.ops[f].status
         /\ r.blocked <=> Are(a, f, "conflicted")
         /\ r.notAttempted <=> f \notin a.attempted
         /\ r.unknown <=> Are(a, f, "unknown")
         /\ r.reason = a.ops[f].reason
<1> DEFINE r == Report!ModelResult(a, f)
           b == Are(a, f, "conflicted")
           n == f \notin a.attempted
           u == Are(a, f, "unknown")
<1>1. a.owner[f] = f
  BY DEF Owner
<1>2. r = [outcome |-> IF b THEN "blocked" ELSE a.ops[f].status, blocked |-> b,
           notAttempted |-> n, unknown |-> u, reason |-> a.ops[f].reason]
  BY <1>1 DEF Report!ModelResult, Report!Tried, Are
<1> HIDE DEF r, b, n, u
<1>3. r.outcome = (IF b THEN "blocked" ELSE a.ops[f].status) /\ r.reason = a.ops[f].reason
  BY <1>2
<1>4. r.blocked = b
  BY <1>2
<1>5. r.notAttempted = n
  BY <1>2
<1>6. r.unknown = u
  BY <1>2
<1>7. QED
  BY <1>3, <1>4, <1>5, <1>6, Zenon DEF r, b, n, u

\* What one operation says of its target, its target says.
LEMMA TargetIs ==
  ASSUME NEW ops, NEW f, NEW o, ops[f].outcome = o
  PROVE  LET r == Report!TargetOf({f}, ops) IN
         /\ r.outcome = o
         /\ r.blocked <=> ops[f].blocked
         /\ r.notAttempted <=> ops[f].notAttempted
         /\ r.unknown <=> ops[f].unknown
<1> DEFINE r == Report!TargetOf({f}, ops)
           outcomes == {ops[x].outcome : x \in {f}}
           b == \E x \in {f} : ops[x].blocked
           n == \E x \in {f} : ops[x].notAttempted
           u == \E x \in {f} : ops[x].unknown
           out == IF Report!Cardinality(outcomes) = 1 THEN CHOOSE x \in outcomes : TRUE
                  ELSE "mixed"
<1>1. r = [outcome |-> out, blocked |-> b, notAttempted |-> n, unknown |-> u]
  BY DEF Report!TargetOf
<1>2. out = o
  <2>1. outcomes = {o}
    OBVIOUS
  <2>2. Report!Cardinality({o}) = 1
    BY Counted, FS_Singleton
  <2>3. (CHOOSE x \in {o} : TRUE) = o
    OBVIOUS
  <2> HIDE DEF outcomes
  <2>4. QED
    BY <2>1, <2>2, <2>3
<1>3. (b <=> ops[f].blocked) /\ (n <=> ops[f].notAttempted) /\ (u <=> ops[f].unknown)
  BY Zenon
<1> HIDE DEF r, b, n, u, out
<1>4. r.outcome = out /\ r.blocked = b /\ r.notAttempted = n /\ r.unknown = u
  <2>1. r.outcome = out
    BY <1>1
  <2>2. r.blocked = b
    BY <1>1
  <2>3. r.notAttempted = n
    BY <1>1
  <2>4. r.unknown = u
    BY <1>1
  <2>5. QED
    BY <2>1, <2>2, <2>3, <2>4
<1>5. QED
  BY <1>2, <1>3, <1>4, Zenon DEF r

\* The results of an answer, as the record counts them.
LEMMA Counts ==
  ASSUME NEW a, Fitting(a), NEW ops, ops = Report!ModelResults(a)
  PROVE  /\ DOMAIN ops = Files
         /\ \A f \in Files : ops[f] = Report!ModelResult(a, f)
         /\ Report!Outcomes(ops, "applied") = {f \in Files : Are(a, f, "applied")}
         /\ Report!Outcomes(ops, "reverted") = {f \in Files : Are(a, f, "reverted")}
         /\ Report!Outcomes(ops, "failed") = {f \in Files : Are(a, f, "failed")}
         /\ Report!Outcomes(ops, "blocked") = {f \in Files : Are(a, f, "conflicted")}
         /\ Report!Outcomes(ops, "skipped") = {}
         /\ Report!Blocked(ops) = {f \in Files : Are(a, f, "conflicted")}
         /\ Report!Unknown(ops) = {f \in Files : Are(a, f, "unknown")}
         /\ Report!NotAttempted(ops) = Files \ a.attempted
<1>1. DOMAIN ops = Files /\ \A f \in Files : ops[f] = Report!ModelResult(a, f)
  BY DEF Report!ModelResults, Fitting
<1>2. ASSUME NEW f \in Files
      PROVE  /\ ops[f].outcome = "applied" <=> Are(a, f, "applied")
             /\ ops[f].outcome = "reverted" <=> Are(a, f, "reverted")
             /\ ops[f].outcome = "failed" <=> Are(a, f, "failed")
             /\ ops[f].outcome = "blocked" <=> Are(a, f, "conflicted")
             /\ ops[f].outcome # "skipped"
  <2>1. ops[f].outcome = IF Are(a, f, "conflicted") THEN "blocked" ELSE a.ops[f].status
    BY <1>1, ModelIs DEF Fitting
  <2>2. QED
    BY <2>1 DEF Are, Fitting
<1>3. ASSUME NEW f \in Files
      PROVE  /\ ops[f].blocked <=> Are(a, f, "conflicted")
             /\ ops[f].notAttempted <=> f \notin a.attempted
             /\ ops[f].unknown <=> Are(a, f, "unknown")
  <2>1. a.owner = Owner
    BY DEF Fitting
  <2>2. LET r == Report!ModelResult(a, f) IN
         /\ r.blocked <=> Are(a, f, "conflicted")
         /\ r.notAttempted <=> f \notin a.attempted
         /\ r.unknown <=> Are(a, f, "unknown")
    BY <2>1, ModelIs
  <2>3. QED
    BY <1>1, <2>2
<1>4. /\ Report!Outcomes(ops, "applied") = {f \in Files : Are(a, f, "applied")}
      /\ Report!Outcomes(ops, "reverted") = {f \in Files : Are(a, f, "reverted")}
      /\ Report!Outcomes(ops, "failed") = {f \in Files : Are(a, f, "failed")}
      /\ Report!Outcomes(ops, "blocked") = {f \in Files : Are(a, f, "conflicted")}
      /\ Report!Outcomes(ops, "skipped") = {}
  BY <1>1, <1>2 DEF Report!Outcomes
<1>5. Report!Blocked(ops) = {f \in Files : Are(a, f, "conflicted")}
  BY <1>1, <1>3 DEF Report!Blocked
<1>6. Report!Unknown(ops) = {f \in Files : Are(a, f, "unknown")}
  BY <1>1, <1>3 DEF Report!Unknown
<1>7. Report!NotAttempted(ops) = Files \ a.attempted
  BY <1>1, <1>3 DEF Report!NotAttempted
<1>8. QED
  BY <1>1, <1>4, <1>5, <1>6, <1>7

\* The targets of the results.
TargetsOf(a) ==
  [t \in Report!Targets(Owner) |->
     Report!TargetOf(Report!Members(Owner, t), Report!ModelResults(a))]

\* Every operation and every target is one the record may be told of; only the
\* phases are left to be asked.
LEMMA ResultsAllow ==
  ASSUME NEW a, Fitting(a), NEW s, s.write, s.owner = Owner,
         NEW e, e = Report!ResultsRecorded(a.owner, Report!ModelResults(a))
  PROVE  /\ e.type = "results-recorded" /\ e.operations = Report!ModelResults(a)
         /\ Report!ResultsAllowed(s, e) <=>
              Report!ResultsFitPhases(s, Report!ModelResults(a), TargetsOf(a))
<1> DEFINE ops == Report!ModelResults(a)
           targets == TargetsOf(a)
<1>1. e.type = "results-recorded" /\ e.operations = ops /\ e.targets = targets
  BY DEF Report!ResultsRecorded, TargetsOf, Fitting
<1>2. DOMAIN ops = Files /\ \A f \in Files : ops[f] = Report!ModelResult(a, f)
  BY Counts
<1>3. DOMAIN targets = Files /\ \A f \in Files : targets[f] = Report!TargetOf({f}, ops)
  BY OwnerIs DEF TargetsOf
<1> HIDE DEF ops, targets
<1>4. ASSUME NEW f \in Files
      PROVE  /\ Report!OperationAllowed(ops[f], s.write)
             /\ Report!TargetAllowed(targets[f])
             /\ targets[f] = Report!TargetOf(Report!Members(s.owner, f), ops)
  <2>1. LET r == Report!ModelResult(a, f) IN
         /\ r.outcome = IF Are(a, f, "conflicted") THEN "blocked" ELSE a.ops[f].status
         /\ r.blocked <=> Are(a, f, "conflicted")
         /\ r.notAttempted <=> f \notin a.attempted
         /\ r.unknown <=> Are(a, f, "unknown")
    BY ModelIs DEF Fitting
  <2>2. /\ ops[f].outcome = IF Are(a, f, "conflicted") THEN "blocked" ELSE a.ops[f].status
        /\ ops[f].blocked <=> Are(a, f, "conflicted")
        /\ ops[f].notAttempted <=> f \notin a.attempted
        /\ ops[f].unknown <=> Are(a, f, "unknown")
    BY <1>2, <2>1
  <2>3. /\ a.ops[f].status \in {"applied", "conflicted", "reverted", "failed", "unknown"}
        /\ Are(a, f, "conflicted") => f \notin a.attempted
        /\ a.ops[f].status \in {"applied", "reverted"} => f \in a.attempted
    BY DEF Fitting, Are
  <2>4. /\ ops[f].outcome \in {"applied", "reverted"} =>
             ~ops[f].blocked /\ ~ops[f].notAttempted /\ ~ops[f].unknown
        /\ ops[f].outcome = "failed" => ~ops[f].blocked /\ ~ops[f].unknown
        /\ ops[f].outcome = "blocked" => ops[f].blocked
        /\ ops[f].outcome # "not-attempted"
        /\ ops[f].outcome = "unknown" => ops[f].unknown
        /\ ops[f].blocked => ops[f].notAttempted
    BY <2>2, <2>3 DEF Are
  <2>5. Report!OperationAllowed(ops[f], s.write)
    BY <2>4 DEF Report!OperationAllowed
  <2>6. /\ targets[f].outcome = ops[f].outcome
        /\ targets[f].blocked <=> ops[f].blocked
        /\ targets[f].notAttempted <=> ops[f].notAttempted
        /\ targets[f].unknown <=> ops[f].unknown
    <3>1. LET r == Report!TargetOf({f}, ops) IN
          /\ r.outcome = ops[f].outcome
          /\ r.blocked <=> ops[f].blocked
          /\ r.notAttempted <=> ops[f].notAttempted
          /\ r.unknown <=> ops[f].unknown
      BY TargetIs
    <3>2. QED
      BY <1>3, <3>1
  <2>7. Report!TargetAllowed(targets[f])
    BY <2>4, <2>6 DEF Report!TargetAllowed
  <2>8. QED
    BY <1>3, <2>5, <2>7, OwnerIs
<1>5. DOMAIN s.owner = Files /\ Report!Targets(s.owner) = Files
  BY OwnerIs
<1>6. Report!ResultsAllowed(s, e) <=> Report!ResultsFitPhases(s, ops, targets)
  BY <1>1, <1>2, <1>3, <1>4, <1>5 DEF Report!ResultsAllowed
<1>7. QED
  BY <1>1, <1>6 DEF ops, targets

----------------------------------------------------------------------------
(* What it takes for results to fit the phases                              *)

\* A conflict beside replaced files that are all back.
Excused(a, rcv) ==
  /\ rcv.status = "completed" /\ Some(a, {"reverted"}) /\ Some(a, {"conflicted"})
  /\ \A f \in Files : Are(a, f, "conflicted") => a.ops[f].reason \in Report!Drift

Kept(rcv, recorded) == recorded /\ ~rcv.executed /\ rcv.status = "unknown"

FitsSkipped(ph, a) ==
  ph["apply"] = "skipped" /\ ~Report!ZeroMutation(ph) =>
    LET causes == {p \in {"preflight", "stage"} : ph[p] \notin {"passed", "skipped"}}
        cause == IF "preflight" \in causes THEN ph["preflight"]
                 ELSE IF causes # {} THEN ph["stage"] ELSE "passed" IN
    /\ Every(a, {"conflicted", "unknown"}) /\ NoneTried(a)
    /\ cause = "blocked" => Every(a, {"conflicted"})
    /\ cause = "unknown" => Every(a, {"unknown"})

FitsRecovery(ph, rcv, recorded, a) ==
  /\ IF ph["recover"] = "skipped"
     THEN ~rcv.executed /\ (Kept(rcv, recorded) \/ rcv.status = "not-needed")
     ELSE recorded /\ rcv.executed
  /\ rcv.status = "partial" =>
       ph["recover"] = "failed" /\ Some(a, {"reverted", "failed", "unknown"})
  /\ rcv.status = "unknown" =>
       ph["recover"] = "unknown" \/ (Kept(rcv, recorded) /\ ph["recover"] = "skipped")
  /\ rcv.status = "completed" =>
       /\ ph["recover"] = "passed" /\ ~Some(a, {"applied", "unknown"})
       /\ Some(a, {"conflicted"}) => Excused(a, rcv)

FitsIn(ph, rcv, recorded, a) ==
  /\ Report!ZeroMutation(ph) => NoneTried(a) /\ Every(a, {"conflicted", "failed", "unknown"})
  /\ Some(a, {"reverted"}) => ph["apply"] # "skipped" /\ ph["recover"] # "skipped" /\ recorded
  /\ IF ph["apply"] = "passed" /\ ph["observe"] = "passed" /\ ph["recover"] = "skipped"
     THEN IF Kept(rcv, recorded)
          THEN Every(a, {"unknown"}) /\ \A f \in Files : f \in a.attempted
          ELSE Every(a, {"applied"}) /\ rcv.status = "not-needed"
     ELSE /\ FitsSkipped(ph, a)
          /\ Some(a, {"applied"}) => ph["recover"] # "skipped" /\ recorded
          /\ Some(a, {"conflicted"}) =>
               \/ "blocked" \in {ph["preflight"], ph["stage"], ph["apply"]}
               \/ Report!ZeroMutation(ph) \/ Excused(a, rcv)
          /\ Some(a, {"failed"}) =>
               "failed" \in {ph[p] : p \in Report!WritePhases} \/ rcv.status = "partial"
          /\ Some(a, {"unknown"}) =>
               \/ "unknown" \in {ph[p] : p \in Report!WritePhases} \/ Some(a, {"conflicted"})
               \/ rcv.status \in {"partial", "unknown"}
          /\ FitsRecovery(ph, rcv, recorded, a)
          /\ ph["observe"] = "unknown" => Some(a, {"unknown"})
          /\ ph["observe"] = "failed" => Some(a, {"failed", "unknown"})

\* What results come to, in terms of the answer.
LEMMA Profile ==
  ASSUME NEW a, Fitting(a), NEW ops, ops = Report!ModelResults(a)
  PROVE  /\ DOMAIN ops = Files
         /\ \A f \in Files :
              /\ ops[f].outcome = IF Are(a, f, "conflicted") THEN "blocked" ELSE a.ops[f].status
              /\ ops[f].reason = a.ops[f].reason
         /\ \A f \in Files : ops[f].blocked <=> Are(a, f, "conflicted")
         /\ \A f \in Files : ops[f].notAttempted <=> f \notin a.attempted
         /\ \A f \in Files : ops[f].unknown <=> Are(a, f, "unknown")
<1>1. DOMAIN ops = Files /\ \A f \in Files : ops[f] = Report!ModelResult(a, f)
  BY Counts
<1>2. ASSUME NEW f \in Files
      PROVE  LET r == Report!ModelResult(a, f) IN
             /\ r.outcome = IF Are(a, f, "conflicted") THEN "blocked" ELSE a.ops[f].status
             /\ r.blocked <=> Are(a, f, "conflicted")
             /\ r.notAttempted <=> f \notin a.attempted
             /\ r.unknown <=> Are(a, f, "unknown")
             /\ r.reason = a.ops[f].reason
  BY ModelIs DEF Fitting
<1>3. QED
  BY <1>1, <1>2

\* The sets of operations the record looks at, as statuses of files.
LEMMA Sets ==
  ASSUME NEW a, Fitting(a), NEW ops, ops = Report!ModelResults(a)
  PROVE  /\ Report!Outcomes(ops, "applied") # {} <=> Some(a, {"applied"})
         /\ Report!Outcomes(ops, "reverted") # {} <=> Some(a, {"reverted"})
         /\ Report!Outcomes(ops, "failed") # {} <=> Some(a, {"failed"})
         /\ Report!Outcomes(ops, "blocked") # {} <=> Some(a, {"conflicted"})
         /\ Report!Outcomes(ops, "skipped") = {}
         /\ Report!Blocked(ops) # {} <=> Some(a, {"conflicted"})
         /\ Report!Unknown(ops) # {} <=> Some(a, {"unknown"})
         /\ Report!NotAttempted(ops) = DOMAIN ops <=> NoneTried(a)
         /\ Report!Unknown(ops) = DOMAIN ops <=> Every(a, {"unknown"})
         /\ Report!Blocked(ops) = DOMAIN ops <=> Every(a, {"conflicted"})
<1>1. /\ DOMAIN ops = Files
      /\ Report!Outcomes(ops, "applied") = {f \in Files : Are(a, f, "applied")}
      /\ Report!Outcomes(ops, "reverted") = {f \in Files : Are(a, f, "reverted")}
      /\ Report!Outcomes(ops, "failed") = {f \in Files : Are(a, f, "failed")}
      /\ Report!Outcomes(ops, "blocked") = {f \in Files : Are(a, f, "conflicted")}
      /\ Report!Outcomes(ops, "skipped") = {}
      /\ Report!Blocked(ops) = {f \in Files : Are(a, f, "conflicted")}
      /\ Report!Unknown(ops) = {f \in Files : Are(a, f, "unknown")}
      /\ Report!NotAttempted(ops) = Files \ a.attempted
  BY Counts
<1>2. /\ Report!Outcomes(ops, "applied") # {} <=> Some(a, {"applied"})
      /\ Report!Outcomes(ops, "reverted") # {} <=> Some(a, {"reverted"})
      /\ Report!Outcomes(ops, "failed") # {} <=> Some(a, {"failed"})
      /\ Report!Outcomes(ops, "blocked") # {} <=> Some(a, {"conflicted"})
      /\ Report!Blocked(ops) # {} <=> Some(a, {"conflicted"})
      /\ Report!Unknown(ops) # {} <=> Some(a, {"unknown"})
  BY <1>1 DEF Some, Are
<1>3. /\ Report!NotAttempted(ops) = DOMAIN ops <=> NoneTried(a)
      /\ Report!Unknown(ops) = DOMAIN ops <=> Every(a, {"unknown"})
      /\ Report!Blocked(ops) = DOMAIN ops <=> Every(a, {"conflicted"})
  BY <1>1 DEF NoneTried, Every, Are
<1>4. QED
  BY <1>1, <1>2, <1>3

\* When a conflict after a recovery is let pass.
LEMMA ExcusedIs ==
  ASSUME NEW a, Fitting(a), NEW s, NEW rcv, s.recovery = rcv
  PROVE  Report!RecoveredConflict(s, Report!ModelResults(a)) <=> Excused(a, rcv)
<1> DEFINE ops == Report!ModelResults(a)
<1>1. /\ Report!Outcomes(ops, "reverted") # {} <=> Some(a, {"reverted"})
      /\ Report!Outcomes(ops, "blocked") # {} <=> Some(a, {"conflicted"})
  BY Sets
<1>2. Report!Outcomes(ops, "blocked") = {f \in Files : Are(a, f, "conflicted")}
  BY Counts
<1>3. /\ \A f \in Files : ops[f].reason = a.ops[f].reason
      /\ \A f \in Files : ops[f].blocked <=> Are(a, f, "conflicted")
      /\ \A f \in Files : ops[f].notAttempted <=> f \notin a.attempted
  BY Profile
<1>4. \A f \in Files : Are(a, f, "conflicted") => f \notin a.attempted
  BY DEF Fitting, Are
<1> HIDE DEF ops
<1>5. (\A o \in Report!Outcomes(ops, "blocked") :
         ops[o].notAttempted /\ ops[o].blocked /\ ops[o].reason \in Report!Drift)
      <=> \A f \in Files : Are(a, f, "conflicted") => a.ops[f].reason \in Report!Drift
  BY <1>2, <1>3, <1>4
<1>6. Report!RecoveredConflict(s, ops) <=> Excused(a, rcv)
  BY <1>1, <1>5 DEF Report!RecoveredConflict, Excused
<1>7. QED
  BY <1>6 DEF ops

\* What it takes when the phases say that nothing was changed.
LEMMA ZeroIs ==
  ASSUME NEW a, Fitting(a), NEW ph
  PROVE  Report!ZeroMutationCoherent(ph, Report!ModelResults(a)) <=>
           (Report!ZeroMutation(ph) =>
              NoneTried(a) /\ Every(a, {"conflicted", "failed", "unknown"}))
<1> DEFINE ops == Report!ModelResults(a)
<1>1. Report!NotAttempted(ops) = DOMAIN ops <=> NoneTried(a)
  BY Sets
<1>2. /\ DOMAIN ops = Files
      /\ \A f \in Files : ops[f].outcome = IF Are(a, f, "conflicted") THEN "blocked"
                                           ELSE a.ops[f].status
  BY Profile
<1> HIDE DEF ops
<1>3. (\A o \in DOMAIN ops : ops[o].outcome \in {"blocked", "failed", "unknown"})
        <=> Every(a, {"conflicted", "failed", "unknown"})
  BY <1>2 DEF Every, Are, Fitting
<1>4. Report!ZeroMutationCoherent(ph, ops) <=>
           (Report!ZeroMutation(ph) =>
              NoneTried(a) /\ Every(a, {"conflicted", "failed", "unknown"}))
  BY <1>1, <1>3 DEF Report!ZeroMutationCoherent
<1>5. QED
  BY <1>4 DEF ops

\* When evidence is kept although the recovery is unknown.
LEMMA KeptIs ==
  ASSUME NEW s, NEW ph, NEW rcv, NEW types, NEW done, Stands(s, ph, rcv, types, done)
  PROVE  /\ Report!HasTerminalEvent(s, "recovery-recorded") <=> "recovery-recorded" \in types
         /\ Report!RetainedUnknown(s) <=> Kept(rcv, "recovery-recorded" \in types)
<1>1. Report!HasTerminalEvent(s, "recovery-recorded") <=> "recovery-recorded" \in types
  BY DEF Stands, Types, Report!HasTerminalEvent
<1>2. s.recovery = rcv
  BY DEF Stands
<1>3. QED
  BY <1>1, <1>2 DEF Report!RetainedUnknown, Kept

\* What it takes when the apply phase passed.
LEMMA AppliedIs ==
  ASSUME NEW a, Fitting(a), NEW s, NEW rcv, s.recovery = rcv, NEW kept,
         Report!RetainedUnknown(s) <=> kept
  PROVE  Report!AppliedCoherent(s, Report!ModelResults(a)) <=>
           IF kept THEN Every(a, {"unknown"}) /\ \A f \in Files : f \in a.attempted
           ELSE Every(a, {"applied"}) /\ rcv.status = "not-needed"
<1> DEFINE ops == Report!ModelResults(a)
<1>1. /\ Report!Outcomes(ops, "applied") # {} <=> Some(a, {"applied"})
      /\ Report!Outcomes(ops, "reverted") # {} <=> Some(a, {"reverted"})
      /\ Report!Outcomes(ops, "failed") # {} <=> Some(a, {"failed"})
      /\ Report!Unknown(ops) = DOMAIN ops <=> Every(a, {"unknown"})
  BY Sets
<1>2. /\ DOMAIN ops = Files
      /\ \A f \in Files : ops[f].outcome = IF Are(a, f, "conflicted") THEN "blocked"
                                           ELSE a.ops[f].status
      /\ \A f \in Files : ops[f].blocked <=> Are(a, f, "conflicted")
      /\ \A f \in Files : ops[f].notAttempted <=> f \notin a.attempted
      /\ \A f \in Files : ops[f].unknown <=> Are(a, f, "unknown")
  BY Profile
<1> HIDE DEF ops
<1>3. CASE kept
  <2>1. Report!AppliedCoherent(s, ops) <=>
          /\ Every(a, {"unknown"}) /\ ~Some(a, {"applied"})
          /\ \A f \in Files : ~ops[f].blocked /\ ~ops[f].notAttempted
          /\ ~Some(a, {"failed"}) /\ ~Some(a, {"reverted"})
    BY <1>1, <1>2, <1>3 DEF Report!AppliedCoherent
  <2>2. Every(a, {"unknown"}) =>
          /\ ~Some(a, {"applied"}) /\ ~Some(a, {"failed"}) /\ ~Some(a, {"reverted"})
          /\ \A f \in Files : ~Are(a, f, "conflicted")
    BY DEF Every, Some, Are
  <2>3. QED
    BY <1>2, <1>3, <2>1, <2>2 DEF ops
<1>4. CASE ~kept
  <2>1. Report!AppliedCoherent(s, ops) <=>
          /\ \A o \in Files :
               /\ ops[o].outcome \in {"applied", "skipped"}
               /\ ~ops[o].blocked /\ ~ops[o].notAttempted /\ ~ops[o].unknown
          /\ rcv.status = "not-needed"
    BY <1>2, <1>4 DEF Report!AppliedCoherent
  <2>2. ASSUME NEW o \in Files
        PROVE  (/\ ops[o].outcome \in {"applied", "skipped"}
                /\ ~ops[o].blocked /\ ~ops[o].notAttempted /\ ~ops[o].unknown)
               <=> a.ops[o].status \in {"applied"}
    BY <1>2 DEF Are, Fitting
  <2>3. QED
    BY <1>4, <2>1, <2>2 DEF Every, ops
<1>5. QED
  BY <1>3, <1>4 DEF ops

\* What it takes when the apply phase was skipped.
LEMMA SkippedIs ==
  ASSUME NEW a, Fitting(a), NEW ph
  PROVE  Report!SkippedCoherent(ph, Report!ModelResults(a)) <=> FitsSkipped(ph, a)
<1> DEFINE ops == Report!ModelResults(a)
<1>1. /\ Report!NotAttempted(ops) = DOMAIN ops <=> NoneTried(a)
      /\ Report!Unknown(ops) = DOMAIN ops <=> Every(a, {"unknown"})
      /\ Report!Blocked(ops) = DOMAIN ops <=> Every(a, {"conflicted"})
  BY Sets
<1>2. /\ DOMAIN ops = Files
      /\ \A f \in Files : ops[f].outcome = IF Are(a, f, "conflicted") THEN "blocked"
                                           ELSE a.ops[f].status
  BY Profile
<1> HIDE DEF ops
<1>3. (\A o \in DOMAIN ops : ops[o].outcome \notin {"applied", "reverted", "failed"})
        <=> Every(a, {"conflicted", "unknown"})
  BY <1>2 DEF Every, Are, Fitting
<1>4. Report!SkippedCoherent(ph, ops) <=> FitsSkipped(ph, a)
  BY <1>1, <1>3 DEF Report!SkippedCoherent, FitsSkipped
<1>5. QED
  BY <1>4 DEF ops

\* What it takes of the recovery.
LEMMA RecoveryIs ==
  ASSUME NEW a, Fitting(a), NEW s, NEW ph, NEW rcv, NEW types, NEW done,
         Stands(s, ph, rcv, types, done)
  PROVE  Report!RecoveryCoherent(s, Report!ModelResults(a), TargetsOf(a)) <=>
           FitsRecovery(ph, rcv, "recovery-recorded" \in types, a)
<1> DEFINE ops == Report!ModelResults(a)
           targets == TargetsOf(a)
           recorded == "recovery-recorded" \in types
           kept == Report!RetainedUnknown(s) /\ ph["recover"] = "skipped"
           conflict == Report!RecoveredConflict(s, ops)
           Forbidden(r) == \/ r.outcome = "blocked" /\ ~conflict
                           \/ r.outcome \in {"not-attempted", "unknown"}
                           \/ /\ r.notAttempted /\ r.outcome # "failed"
                              /\ ~(conflict /\ r.outcome = "blocked")
           First == IF ph["recover"] = "skipped"
                    THEN ~rcv.executed /\ (kept \/ rcv.status = "not-needed")
                    ELSE Report!HasTerminalEvent(s, "recovery-recorded") /\ rcv.executed
           Partial == rcv.status = "partial" =>
                        /\ ph["recover"] = "failed"
                        /\ \E o \in DOMAIN ops :
                             ops[o].outcome \in {"reverted", "failed", "unknown"}
           Unclear == rcv.status = "unknown" => ph["recover"] = "unknown" \/ kept
           Whole == rcv.status = "completed" =>
                      /\ ph["recover"] = "passed"
                      /\ Report!Outcomes(ops, "applied") = {}
                      /\ Report!Outcomes(ops, "skipped") = {}
                      /\ Report!Unknown(ops) = {} /\ (Report!Blocked(ops) # {} => conflict)
                      /\ \A o \in DOMAIN ops : ops[o].notAttempted =>
                           ops[o].outcome = "failed" \/ (conflict /\ ops[o].outcome = "blocked")
                      /\ \A t \in DOMAIN targets :
                           targets[t].outcome # "applied" /\ ~Forbidden(targets[t])
<1>1. s.recovery = rcv /\ s.phases = ph
  BY DEF Stands
<1>2. Report!RecoveryCoherent(s, ops, targets) <=> First /\ Partial /\ Unclear /\ Whole
  BY <1>1, Zenon DEF Report!RecoveryCoherent
<1>3. /\ Report!HasTerminalEvent(s, "recovery-recorded") <=> recorded
      /\ Report!RetainedUnknown(s) <=> Kept(rcv, recorded)
  BY KeptIs
<1>4. /\ Report!Outcomes(ops, "applied") # {} <=> Some(a, {"applied"})
      /\ Report!Outcomes(ops, "skipped") = {}
      /\ Report!Blocked(ops) # {} <=> Some(a, {"conflicted"})
      /\ Report!Unknown(ops) # {} <=> Some(a, {"unknown"})
  BY Sets
<1>5. conflict <=> Excused(a, rcv)
  BY <1>1, ExcusedIs
<1>6. /\ DOMAIN ops = Files
      /\ \A f \in Files : ops[f].outcome = IF Are(a, f, "conflicted") THEN "blocked"
                                           ELSE a.ops[f].status
      /\ \A f \in Files : ops[f].notAttempted <=> f \notin a.attempted
  BY Profile
<1>7. DOMAIN targets = Files /\ \A f \in Files : targets[f] = Report!TargetOf({f}, ops)
  BY OwnerIs DEF TargetsOf
<1>8. ASSUME NEW f \in Files
      PROVE  /\ targets[f].outcome = ops[f].outcome
             /\ targets[f].notAttempted <=> ops[f].notAttempted
  <2>1. LET r == Report!TargetOf({f}, ops) IN
        /\ r.outcome = ops[f].outcome
        /\ r.notAttempted <=> ops[f].notAttempted
    BY TargetIs
  <2>2. QED
    BY <1>7, <2>1
<1> DEFINE Whole2 == rcv.status = "completed" =>
                      /\ ph["recover"] = "passed" /\ ~Some(a, {"applied", "unknown"})
                      /\ Some(a, {"conflicted"}) => Excused(a, rcv)
<1> HIDE DEF ops, targets, recorded, conflict
<1>9. First <=> IF ph["recover"] = "skipped"
                THEN ~rcv.executed /\ (Kept(rcv, recorded) \/ rcv.status = "not-needed")
                ELSE recorded /\ rcv.executed
  BY <1>3
<1>10. Partial <=> (rcv.status = "partial" =>
                      ph["recover"] = "failed" /\ Some(a, {"reverted", "failed", "unknown"}))
  <2>1. (\E o \in DOMAIN ops : ops[o].outcome \in {"reverted", "failed", "unknown"})
          <=> Some(a, {"reverted", "failed", "unknown"})
    BY <1>6 DEF Some, Are, Fitting
  <2>2. QED
    BY <2>1
<1>11. Unclear <=> (rcv.status = "unknown" =>
                       \/ ph["recover"] = "unknown"
                       \/ Kept(rcv, recorded) /\ ph["recover"] = "skipped")
  BY <1>3
<1>12. Some(a, {"applied", "unknown"}) <=> Some(a, {"applied"}) \/ Some(a, {"unknown"})
  BY DEF Some
<1>13. Whole => Whole2
  BY <1>4, <1>5, <1>12
<1>14. ASSUME Whole2 PROVE Whole
  <2>1. SUFFICES ASSUME rcv.status = "completed" PROVE Whole
    OBVIOUS
  <2>2. /\ ph["recover"] = "passed" /\ ~Some(a, {"applied"}) /\ ~Some(a, {"unknown"})
        /\ Some(a, {"conflicted"}) => Excused(a, rcv)
    BY <1>12, <1>14, <2>1
  <2>3. ASSUME NEW f \in Files
        PROVE  /\ ops[f].outcome \in {"blocked", "reverted", "failed"}
               /\ ops[f].outcome = "blocked" => conflict
               /\ ops[f].notAttempted => ops[f].outcome \in {"failed", "blocked"}
    BY <1>5, <1>6, <2>2 DEF Some, Are, Fitting
  <2>4. \A o \in DOMAIN ops : ops[o].notAttempted =>
                           ops[o].outcome = "failed" \/ (conflict /\ ops[o].outcome = "blocked")
    BY <1>6, <2>3
  <2>5. ASSUME NEW t \in DOMAIN targets
        PROVE  targets[t].outcome # "applied" /\ ~Forbidden(targets[t])
    BY <1>7, <1>8, <2>3
  <2>6. QED
    BY <1>4, <1>5, <2>2, <2>4, <2>5
<1> HIDE DEF First, Partial, Unclear, Whole
<1>15. Whole <=> Whole2
  BY <1>13, <1>14
<1>16. Report!RecoveryCoherent(s, ops, targets) <=> FitsRecovery(ph, rcv, recorded, a)
  BY <1>2, <1>9, <1>10, <1>11, <1>15 DEF FitsRecovery
<1>17. QED
  BY <1>16 DEF ops, targets, recorded

\* The results fit the phases, said in terms of the answer.
LEMMA FitsIs ==
  ASSUME NEW a, Fitting(a), NEW s, NEW ph, NEW rcv, NEW types, NEW done,
         Stands(s, ph, rcv, types, done)
  PROVE  Report!ResultsFitPhases(s, Report!ModelResults(a), TargetsOf(a)) <=>
           FitsIn(ph, rcv, "recovery-recorded" \in types, a)
<1> DEFINE ops == Report!ModelResults(a)
           targets == TargetsOf(a)
           recorded == "recovery-recorded" \in types
<1>1. s.recovery = rcv /\ s.phases = ph
  BY DEF Stands
<1>2. /\ Report!HasTerminalEvent(s, "recovery-recorded") <=> recorded
      /\ Report!RetainedUnknown(s) <=> Kept(rcv, recorded)
  BY KeptIs
<1>3. /\ Report!Outcomes(ops, "applied") # {} <=> Some(a, {"applied"})
      /\ Report!Outcomes(ops, "reverted") # {} <=> Some(a, {"reverted"})
      /\ Report!Outcomes(ops, "failed") # {} <=> Some(a, {"failed"})
      /\ Report!Blocked(ops) # {} <=> Some(a, {"conflicted"})
      /\ Report!Unknown(ops) # {} <=> Some(a, {"unknown"})
  BY Sets
<1>4. Report!RecoveredConflict(s, ops) <=> Excused(a, rcv)
  BY <1>1, ExcusedIs
<1>5. Report!ZeroMutationCoherent(ph, ops) <=>
           (Report!ZeroMutation(ph) =>
              NoneTried(a) /\ Every(a, {"conflicted", "failed", "unknown"}))
  BY ZeroIs
<1>6. Report!AppliedCoherent(s, ops) <=>
           IF Kept(rcv, recorded) THEN Every(a, {"unknown"}) /\ \A f \in Files : f \in a.attempted
           ELSE Every(a, {"applied"}) /\ rcv.status = "not-needed"
  <2> DEFINE kept == Kept(rcv, recorded)
  <2>1. Report!RetainedUnknown(s) <=> kept
    BY <1>2
  <2> HIDE DEF kept
  <2>2. Report!AppliedCoherent(s, ops) <=>
           IF kept THEN Every(a, {"unknown"}) /\ \A f \in Files : f \in a.attempted
           ELSE Every(a, {"applied"}) /\ rcv.status = "not-needed"
    BY <1>1, <2>1, AppliedIs
  <2>3. QED
    BY <2>2 DEF kept
<1>7. Report!SkippedCoherent(ph, ops) <=> FitsSkipped(ph, a)
  BY SkippedIs
<1>8. Report!RecoveryCoherent(s, ops, targets) <=> FitsRecovery(ph, rcv, recorded, a)
  BY RecoveryIs
<1>9. Some(a, {"failed", "unknown"}) <=> Some(a, {"failed"}) \/ Some(a, {"unknown"})
  BY DEF Some
<1> HIDE DEF ops, targets, recorded
<1>10. Report!ResultsFitPhases(s, ops, targets) <=> FitsIn(ph, rcv, recorded, a)
  BY <1>1, <1>2, <1>3, <1>4, <1>5, <1>6, <1>7, <1>8, <1>9
     DEF Report!ResultsFitPhases, FitsIn
<1>11. QED
  BY <1>10 DEF ops, targets, recorded

\* A run that went well, as its record shows it.
WentWell(ph, rcv) ==
  /\ \A p \in Report!PhaseNames : ph[p] \in {"passed", "skipped", "active"}
  /\ \A p \in {"discover", "resolve", "review"} : ph[p] # "skipped"
  /\ rcv.status \notin {"partial", "unknown"}

\* Phases that all passed fold to passed.
LEMMA WorstIsPassed ==
  ASSUME NEW bad, bad = {"passed"}
  PROVE  Report!Worst(bad) = "passed"
<1>1. "passed" \in bad /\ \A x \in bad : x = "passed"
  OBVIOUS
<1>2. Report!Rank["passed"] >= Report!Rank["passed"]
  BY DEF Report!Rank
<1>3. \E x \in bad : \A y \in bad : Report!Rank[x] >= Report!Rank[y]
  BY <1>1, <1>2
<1>4. Report!Worst(bad) \in bad
  BY <1>3 DEF Report!Worst
<1>5. QED
  BY <1>1, <1>4

\* All files applied, nothing else to report: the run passed.
LEMMA FinalIsPassed ==
  ASSUME NEW a, Fitting(a), ~Report!WriteFailed(a), NEW s, s.results = Report!ModelResults(a),
         NEW ph, s.phases = ph, NEW rcv, s.recovery = rcv, WentWell(ph, rcv)
  PROVE  Report!FinalStatusOf(s, 0) = "passed"
<1> DEFINE ops == Report!ModelResults(a)
<1>1. \A f \in Files : a.ops[f].status = "applied"
  BY DEF Report!WriteFailed, Report!Blocking, Report!BlockingStatus, Fitting
<1>2. /\ Report!Blocked(ops) = {} /\ Report!Outcomes(ops, "failed") = {}
      /\ Report!Unknown(ops) = {} /\ Report!Outcomes(ops, "reverted") = {}
  BY <1>1, Counts DEF Are
<1>3. Report!NotAttempted(ops) = {}
  BY <1>1, Counts DEF Fitting
<1> HIDE DEF ops
<1>4. {ph[p] : p \in Report!PhaseNames} \cap {"blocked", "failed", "unknown"} = {}
  BY DEF WentWell
<1> DEFINE bad ==
       {"passed"}
        \cup ({s.phases[p] : p \in Report!PhaseNames} \cap {"blocked", "failed", "unknown"})
        \cup (IF \E p \in {"discover", "resolve", "review"} : s.phases[p] = "skipped"
              THEN {"unknown"} ELSE {})
        \cup (IF Report!Blocked(s.results) # {} THEN {"blocked"} ELSE {})
        \cup (IF Report!Outcomes(s.results, "failed") # {} THEN {"failed"} ELSE {})
        \cup (IF Report!Unknown(s.results) # {} THEN {"unknown"} ELSE {})
        \cup (IF /\ s.write
                 /\ \E o \in Report!NotAttempted(s.results) : s.results[o].outcome # "skipped"
              THEN {"blocked"} ELSE {})
        \cup (IF Report!Outcomes(s.results, "reverted") # {} THEN {"failed"} ELSE {})
        \cup (CASE s.recovery.status = "partial" -> {"failed"}
                [] s.recovery.status = "unknown" -> {"unknown"}
                [] OTHER -> {})
<1>5. Report!FinalStatusOf(s, 0) = Report!Worst(bad)
  BY DEF Report!FinalStatusOf
<1>6. s.results = ops /\ s.phases = ph /\ s.recovery = rcv
  BY DEF ops
<1>7. bad = {"passed"}
  <2>1. ~\E p \in {"discover", "resolve", "review"} : s.phases[p] = "skipped"
    BY <1>6 DEF WentWell
  <2>2. (CASE s.recovery.status = "partial" -> {"failed"}
           [] s.recovery.status = "unknown" -> {"unknown"}
           [] OTHER -> {}) = {}
    BY <1>6 DEF WentWell
  <2>3. QED
    BY <1>2, <1>3, <1>4, <1>6, <2>1, <2>2
<1>8. QED
  BY <1>5, <1>7, WorstIsPassed

\* The record takes the results exactly if they fit the phases, and then the end
\* of the run with its exit code.
LEMMA ToldIs ==
  ASSUME NEW a, Fitting(a), Report!Reconciles(a), NEW ph, NEW rcv, NEW types, NEW done,
         Reached(Report!ApplyPhaseEvents(a), ph, rcv, types, done),
         ph["complete"] = "active", "results-recorded" \notin types, "run-completed" \notin types,
         ~Report!WriteFailed(a) => WentWell(ph, rcv)
  PROVE  Accepted(a) <=> FitsIn(ph, rcv, "recovery-recorded" \in types, a)
<1> DEFINE es == Report!ApplyPhaseEvents(a)
           e == Report!ResultsRecorded(a.owner, Report!ModelResults(a))
           exitCode == IF Report!WriteFailed(a) THEN 2 ELSE 0
           end == Report!RunCompleted(exitCode)
           told == Report!EmitResult(Before, a)
           fits == FitsIn(ph, rcv, "recovery-recorded" \in types, a)
<1>1. PICK s : Report!Emit(Before, es) = Onward(s) /\ Stands(s, ph, rcv, types, done)
  BY DEF Reached
<1>2. told = Report!Emitted(Onward(s), e)
  <2>1. told = Report!Emit(Before, es \o <<e>>)
    BY DEF Report!EmitResult, Report!ResultEvents
  <2>2. IsSeq(es)
    BY DEF Reached
  <2> HIDE DEF es, e, told
  <2>3. QED
    BY <1>1, <2>1, <2>2, EmitAppend
<1>3. s.write /\ s.owner = Owner /\ s.phases = ph /\ DOMAIN s = Fields /\ s.recovery = rcv
      /\ DOMAIN ph = Report!PhaseNames
  BY <1>1 DEF Stands
<1>4. /\ e.type = "results-recorded" /\ e.operations = Report!ModelResults(a)
      /\ Report!ResultsAllowed(s, e) <=>
           Report!ResultsFitPhases(s, Report!ModelResults(a), TargetsOf(a))
  BY <1>3, ResultsAllow
<1>5. Report!ResultsFitPhases(s, Report!ModelResults(a), TargetsOf(a)) <=> fits
  BY <1>1, FitsIs
<1>6. end.type = "run-completed" /\ end.exitCode = exitCode
  BY DEF Report!RunCompleted
<1> HIDE DEF es, e, told, end, fits
<1>7. /\ ~Report!Repeats(s, e) /\ ~Report!TerminalDuplicate(s, e)
      /\ e.type \notin Report!Unidentified /\ Report!IsOpen(s)
  <2>1. Fresh(e, types, done)
    BY <1>4 DEF Fresh
  <2>2. QED
    BY <1>1, <2>1, FreshIsNew
<1>8. Report!Accepts(s, e) <=> fits
  <2>1. Report!Accepts(s, e) <=> s.phases["complete"] = "active" /\ Report!ResultsAllowed(s, e)
    BY <1>4, <1>7 DEF Report!Accepts
  <2>2. QED
    BY <1>3, <1>4, <1>5, <2>1
<1>9. Accepted(a) <=> told.ok /\ Report!Accepts(told.state, end)
  BY DEF Accepted, told, end
<1>10. CASE ~fits
  <2>1. told = Halted(s)
    BY <1>2, <1>8, <1>10, EmittedStep
  <2>2. told.ok = FALSE
    BY <2>1, EmittedFields
  <2>3. QED
    BY <1>9, <1>10, <2>2 DEF fits
<1>11. CASE fits
  <2> DEFINE r == Report!Reduce(s, e)
  <2>1. told = Onward(r)
    BY <1>2, <1>8, <1>11, EmittedStep
  <2>2. told.ok = TRUE /\ told.state = r
    BY <2>1, EmittedFields
  <2>3. Took(r, s, e, {"results"}) /\ r.results = Report!ModelResults(a)
    <3>1. Report!Changed(s, e) = [s EXCEPT !.results = e.operations]
      BY <1>4 DEF Report!Changed
    <3>2. r = [[s EXCEPT !.results = e.operations] EXCEPT !.events = @ \cup {e}]
      BY <1>7, <3>1 DEF Report!Reduce
    <3>3. QED
      BY <1>3, <1>4, <3>2 DEF Took, Fields
  <2> HIDE DEF r
  <2>4. r.phases = ph /\ r.recovery = rcv
    BY <1>3, <2>3 DEF Took, Fields
  <2>5. Stands(r, ph, rcv, types \cup {"results-recorded"}, done)
    <3>1. e.type # "phase-completed"
      BY <1>4
    <3>2. Stands(r, ph, rcv, types \cup {e.type}, done)
      BY <1>1, <1>3, <2>3, <2>4, <3>1, StandsOn
    <3>3. QED
      BY <1>4, <3>2
  <2>6. /\ ~Report!Repeats(r, end) /\ Report!IsOpen(r)
    <3>1. Fresh(end, types \cup {"results-recorded"}, done)
      BY <1>6 DEF Fresh
    <3>2. QED
      BY <2>5, <3>1, FreshIsNew
  <2>7. Report!HasTerminalEvent(r, "results-recorded")
    BY <1>4, <2>3 DEF Took, Report!HasTerminalEvent
  <2>8. exitCode = 0 => Report!FinalStatusOf(r, exitCode) = "passed"
    <3>1. SUFFICES ASSUME ~Report!WriteFailed(a) PROVE Report!FinalStatusOf(r, 0) = "passed"
      OBVIOUS
    <3>2. QED
      BY <2>3, <2>4, <3>1, FinalIsPassed
  <2>9. exitCode \in {0, 2}
    OBVIOUS
  <2> HIDE DEF exitCode
  <2>10. Report!CompletionAllowed(r, end)
    BY <1>6, <2>4, <2>7, <2>8, <2>9 DEF Report!CompletionAllowed
  <2>11. Report!Accepts(r, end)
    BY <1>6, <2>6, <2>10 DEF Report!Accepts
  <2>12. QED
    BY <1>9, <1>11, <2>2, <2>11 DEF fits
<1>12. QED
  BY <1>10, <1>11

----------------------------------------------------------------------------
(* What is told of each kind of answer                                      *)

\* Two phases fold to the one that ended worse.
LEMMA Folds2 ==
  ASSUME NEW a, NEW x, NEW y
  PROVE  /\ a.phases[x] \in {"passed", "skipped", "failed", "unknown"} /\ a.phases[y] = "none" =>
              Report!FoldedPhaseStatus(a, {x, y}) = a.phases[x]
         /\ a.phases[x] = "passed" /\ a.phases[y] \in {"passed", "failed", "unknown"} =>
              Report!FoldedPhaseStatus(a, {x, y}) = a.phases[y]
<1> DEFINE found == {a.phases[n] : n \in {x, y}} \ {"none"}
<1>0. Report!FoldedPhaseStatus(a, {x, y}) =
        CASE found = {} -> "skipped"
          [] "unknown" \in found -> "unknown"
          [] "failed" \in found /\ "unknown" \notin found -> "failed"
          [] "skipped" \in found /\ found \cap {"unknown", "failed"} = {} -> "skipped"
          [] OTHER -> "passed"
  BY DEF Report!FoldedPhaseStatus
<1>1. ASSUME a.phases[x] \in {"passed", "skipped", "failed", "unknown"}, a.phases[y] = "none"
      PROVE  Report!FoldedPhaseStatus(a, {x, y}) = a.phases[x]
  <2>1. found = {a.phases[x]}
    BY <1>1
  <2> HIDE DEF found
  <2>2. QED
    BY <1>0, <1>1, <2>1
<1>2. ASSUME a.phases[x] = "passed", a.phases[y] \in {"passed", "failed", "unknown"}
      PROVE  Report!FoldedPhaseStatus(a, {x, y}) = a.phases[y]
  <2>1. found = {"passed", a.phases[y]}
    BY <1>2
  <2> HIDE DEF found
  <2>2. QED
    BY <1>0, <1>2, <2>1
<1>3. QED
  BY <1>1, <1>2

\* The recovery evidence that is kept without a recovery.
Evidence1 == Report!RecoveryRecorded(FALSE, "unknown")
KeptOf(a) == IF a.recovery = "unknown" /\ ~Report!CleanUnattemptedVcsUnknown(a)
             THEN <<Evidence1>> ELSE <<>>

\* The evidence told last is a sequence, empty or of one event.
LEMMA KeptSeq == \A a : Report!RetainedCleanupEvidence(a) = KeptOf(a) /\ IsSeq(KeptOf(a))
BY SeqFacts DEF Report!RetainedCleanupEvidence, KeptOf, Evidence1

Calm == RecoveryOf(FALSE, "not-needed")
Unclear == RecoveryOf(FALSE, "unknown")

\* Where a run is over, its evidence may be told.
LEMMA ReachedKept ==
  ASSUME NEW a, NEW es, NEW ph, NEW types, NEW done, Reached(es, ph, Calm, types, done),
         ph["complete"] \in {"pending", "active"}, ph["recover"] = "skipped",
         "recovery-recorded" \notin types
  PROVE  \/ KeptOf(a) = <<>> /\ Reached(es \o KeptOf(a), ph, Calm, types, done)
         \/ /\ KeptOf(a) = <<Evidence1>>
            /\ Reached(es \o KeptOf(a), ph, Unclear, types \cup {"recovery-recorded"}, done)
<1>1. CASE KeptOf(a) = <<>>
  <2>1. es \o <<>> = es
    BY JoinedNothing DEF Reached
  <2>2. QED
    BY <1>1, <2>1
<1>2. CASE KeptOf(a) = <<Evidence1>>
  <2>1. ASSUME NEW s, Stands(s, ph, Calm, types, done)
        PROVE  Takes(s, Evidence1, ph, Unclear, types \cup {"recovery-recorded"}, done)
    <3>1. Going(ph)
      BY DEF Going
    <3>2. Takes(s, Report!RecoveryRecorded(FALSE, "unknown"), ph, RecoveryOf(FALSE, "unknown"),
                types \cup {"recovery-recorded"}, done)
      BY <2>1, <3>1, TakesRecovery
    <3>3. QED
      BY <3>2 DEF Evidence1, Unclear
  <2>2. Reached(es \o <<Evidence1>>, ph, Unclear, types \cup {"recovery-recorded"}, done)
    BY <2>1, ReachedOn
  <2>3. QED
    BY <1>2, <2>2
<1>3. QED
  BY <1>1, <1>2 DEF KeptOf

Pre(v) == Report!PhaseCompleted("preflight", v)
Stg(v) == Report!PhaseCompleted("stage", v)
Obs(v) == Report!PhaseCompleted("observe", v)

\* The preflight passed, or the run ended with it.
LEMMA ReachedPreflight ==
  /\ Reached(<<Pre("passed")>>, Staging, Calm, Opening \cup {"phase-completed"}, {"preflight"})
  /\ \A v \in {"blocked", "failed", "unknown"} :
       Reached(<<Pre(v)>>, Ph(v, "skipped", "skipped", "skipped", "skipped", "active"), Calm,
               Opening \cup {"phase-completed"}, {"preflight"})
<1>0. <<>> \o <<Pre("passed")>> = <<Pre("passed")>> /\ \A v : <<>> \o <<Pre(v)>> = <<Pre(v)>>
  BY JoinedNothing, SeqFacts
<1>1. Fresh0["preflight"] = "active" /\ Going(Fresh0)
  BY PhIs DEF Fresh0, Going
<1>2. Reached(<<>>, Fresh0, Calm, Opening, {})
  BY ReachedFirst DEF Calm
<1>3. ASSUME NEW v \in {"passed", "blocked", "failed", "unknown"}, NEW to,
             DOMAIN to = Report!PhaseNames,
             \A w : Report!CompleteAndAdvance(Fresh0, "preflight", v, w) = to
      PROVE  Reached(<<Pre(v)>>, to, Calm, Opening \cup {"phase-completed"}, {"preflight"})
  <2>1. ASSUME NEW s, Stands(s, Fresh0, Calm, Opening, {})
        PROVE  Takes(s, Pre(v), to, Calm, Opening \cup {"phase-completed"}, {"preflight"})
    <3>1. "preflight" \in Report!WritePhases /\ "preflight" \notin {}
      BY DEF Report!WritePhases
    <3>2. Takes(s, Report!PhaseCompleted("preflight", v), to, Calm,
                Opening \cup {"phase-completed"}, {} \cup {"preflight"})
      BY <1>1, <1>3, <2>1, <3>1, TakesPhase
    <3>3. {} \cup {"preflight"} = {"preflight"}
      OBVIOUS
    <3>4. QED
      BY <3>2, <3>3 DEF Pre
  <2>2. Reached(<<>> \o <<Pre(v)>>, to, Calm, Opening \cup {"phase-completed"}, {"preflight"})
    BY <1>2, <2>1, ReachedOn
  <2>3. QED
    BY <1>0, <2>2
<1>4. Reached(<<Pre("passed")>>, Staging, Calm, Opening \cup {"phase-completed"}, {"preflight"})
  <2>1. DOMAIN Staging = Report!PhaseNames
    BY PhIs DEF Staging
  <2>2. \A w : Report!CompleteAndAdvance(Fresh0, "preflight", "passed", w) = Staging
    BY Advances
  <2>3. QED
    BY <1>3, <2>1, <2>2
<1>5. ASSUME NEW v \in {"blocked", "failed", "unknown"}
      PROVE  Reached(<<Pre(v)>>, Ph(v, "skipped", "skipped", "skipped", "skipped", "active"), Calm,
                     Opening \cup {"phase-completed"}, {"preflight"})
  <2> DEFINE to == Ph(v, "skipped", "skipped", "skipped", "skipped", "active")
  <2>1. DOMAIN to = Report!PhaseNames
    BY PhIs
  <2>2. \A w : Report!CompleteAndAdvance(Fresh0, "preflight", v, w) = to
    BY Advances
  <2> HIDE DEF to
  <2>3. Reached(<<Pre(v)>>, to, Calm, Opening \cup {"phase-completed"}, {"preflight"})
    BY <1>3, <2>1, <2>2
  <2>4. QED
    BY <2>3 DEF to
<1>6. QED
  BY <1>4, <1>5

Two == {"preflight", "stage"}

\* The staging passed, or the run ended with it.
LEMMA ReachedStage ==
  /\ Reached(<<Pre("passed")>> \o <<Stg("passed")>>, Applying, Calm,
             Opening \cup {"phase-completed"}, Two)
  /\ \A v \in {"blocked", "failed", "unknown"} :
       Reached(<<Pre("passed")>> \o <<Stg(v)>>,
               Ph("passed", v, "skipped", "skipped", "skipped", "active"), Calm,
               Opening \cup {"phase-completed"}, Two)
<1> DEFINE types == Opening \cup {"phase-completed"}
<1>1. Staging["stage"] = "active" /\ Going(Staging)
  BY PhIs DEF Staging, Going
<1>2. Reached(<<Pre("passed")>>, Staging, Calm, types, {"preflight"})
  BY ReachedPreflight
<1>3. ASSUME NEW v \in {"passed", "blocked", "failed", "unknown"}, NEW to,
             DOMAIN to = Report!PhaseNames,
             \A w : Report!CompleteAndAdvance(Staging, "stage", v, w) = to
      PROVE  Reached(<<Pre("passed")>> \o <<Stg(v)>>, to, Calm, types, Two)
  <2>1. ASSUME NEW s, Stands(s, Staging, Calm, types, {"preflight"})
        PROVE  Takes(s, Stg(v), to, Calm, types, Two)
    <3>1. "stage" \in Report!WritePhases /\ "stage" \notin {"preflight"} /\ v # "skipped"
      BY DEF Report!WritePhases
    <3>2. Takes(s, Report!PhaseCompleted("stage", v), to, Calm,
                types \cup {"phase-completed"}, {"preflight"} \cup {"stage"})
      BY <1>1, <1>3, <2>1, <3>1, TakesPhase
    <3>3. {"preflight"} \cup {"stage"} = Two /\ types \cup {"phase-completed"} = types
      BY DEF Two
    <3>4. QED
      BY <3>2, <3>3 DEF Stg
  <2>2. QED
    BY <1>2, <2>1, ReachedOn
<1>4. Reached(<<Pre("passed")>> \o <<Stg("passed")>>, Applying, Calm, types, Two)
  <2>1. DOMAIN Applying = Report!PhaseNames
    BY PhIs DEF Applying
  <2>2. \A w : Report!CompleteAndAdvance(Staging, "stage", "passed", w) = Applying
    BY Advances
  <2>3. QED
    BY <1>3, <2>1, <2>2
<1>5. ASSUME NEW v \in {"blocked", "failed", "unknown"}
      PROVE  Reached(<<Pre("passed")>> \o <<Stg(v)>>,
                     Ph("passed", v, "skipped", "skipped", "skipped", "active"), Calm, types, Two)
  <2> DEFINE to == Ph("passed", v, "skipped", "skipped", "skipped", "active")
  <2>1. DOMAIN to = Report!PhaseNames
    BY PhIs
  <2>2. \A w : Report!CompleteAndAdvance(Staging, "stage", v, w) = to
    BY Advances
  <2> HIDE DEF to
  <2>3. Reached(<<Pre("passed")>> \o <<Stg(v)>>, to, Calm, types, Two)
    BY <1>3, <2>1, <2>2
  <2>4. QED
    BY <2>3 DEF to
<1>6. QED
  BY <1>4, <1>5

\* The apply ended, with or without a recovery and an observation to come.
ApplyEvent(v, recovering, inspected) ==
  [type |-> "apply-completed", status |-> v, recoveryRequired |-> recovering,
   observationRequired |-> inspected]

\* The event that ends the apply phase.
LEMMA ApplyEventIs ==
  ASSUME NEW v, NEW r, NEW i, NEW e, e = ApplyEvent(v, r, i)
  PROVE  /\ e.type = "apply-completed" /\ e.status = v
         /\ e.recoveryRequired <=> r
         /\ e.observationRequired <=> i
<1>1. e.type = "apply-completed" /\ e.status = v
  BY DEF ApplyEvent
<1>2. e.recoveryRequired = r
  BY DEF ApplyEvent
<1>3. e.observationRequired = i
  BY DEF ApplyEvent
<1>4. QED
  BY <1>1, <1>2, <1>3

Staged == <<Pre("passed")>> \o <<Stg("passed")>>
Past == Opening \cup {"phase-completed", "apply-completed"}

\* The end of the apply phase is taken ...
LEMMA ReachedApply ==
  ASSUME NEW v \in {"passed", "failed", "unknown"}, NEW r, NEW i,
         NEW to, DOMAIN to = Report!PhaseNames, r \/ v = "passed" => i,
         NEW e, e = ApplyEvent(v, r, i), Report!ApplyEnded(Applying, e) = to
  PROVE  Reached(Staged \o <<e>>, to, Calm, Past, Two)
<1> DEFINE types == Opening \cup {"phase-completed"}
<1>1. Applying["apply"] = "active" /\ Going(Applying)
  BY PhIs DEF Applying, Going
<1>2. Reached(Staged, Applying, Calm, types, Two)
  BY ReachedStage DEF Staged
<1>3. /\ e.type = "apply-completed" /\ e.status \in {"passed", "failed", "unknown"}
      /\ e.recoveryRequired \/ e.status = "passed" => e.observationRequired
  BY ApplyEventIs
<1>4. "apply-completed" \notin types
  BY DEF Opening
<1>5. types \cup {"apply-completed"} = Past
  BY DEF Past
<1> HIDE DEF types
<1>6. ASSUME NEW s, Stands(s, Applying, Calm, types, Two)
      PROVE  Takes(s, e, to, Calm, Past, Two)
  <2>1. Takes(s, e, to, Calm, types \cup {"apply-completed"}, Two)
    BY <1>1, <1>3, <1>4, <1>6, TakesApply
  <2>2. QED
    BY <1>5, <2>1
<1>7. QED
  BY <1>2, <1>6, ReachedOn

\* ... and what is told next depends on what it asks for.
LEMMA ReachedApplyEnds ==
  ASSUME NEW v \in {"passed", "failed", "unknown"}, NEW r, NEW i, NEW e, e = ApplyEvent(v, r, i)
  PROVE  /\ ~r /\ ~i /\ v # "passed" =>
              Reached(Staged \o <<e>>, Ph("passed", "passed", v, "skipped", "skipped", "active"),
                      Calm, Past, Two)
         /\ ~r /\ i =>
              Reached(Staged \o <<e>>, Ph("passed", "passed", v, "skipped", "active", "pending"),
                      Calm, Past, Two)
         /\ r /\ i =>
              Reached(Staged \o <<e>>, Ph("passed", "passed", v, "active", "pending", "pending"),
                      Calm, Past, Two)
<1>0. e.status = v /\ (e.recoveryRequired <=> r) /\ (e.observationRequired <=> i)
  BY ApplyEventIs
<1>1. ASSUME ~r, ~i, v # "passed"
      PROVE  Reached(Staged \o <<e>>, Ph("passed", "passed", v, "skipped", "skipped", "active"),
                      Calm, Past, Two)
  <2> DEFINE to == Ph("passed", "passed", v, "skipped", "skipped", "active")
  <2>1. DOMAIN to = Report!PhaseNames
    BY PhIs
  <2>2. Report!ApplyEnded(Applying, e) = to
    BY <1>0, <1>1, Ends
  <2> HIDE DEF to
  <2>3. Reached(Staged \o <<e>>, to, Calm, Past, Two)
    BY <1>1, <2>1, <2>2, ReachedApply
  <2>4. QED
    BY <2>3 DEF to
<1>2. ASSUME ~r, i
      PROVE  Reached(Staged \o <<e>>, Ph("passed", "passed", v, "skipped", "active", "pending"),
                      Calm, Past, Two)
  <2> DEFINE to == Ph("passed", "passed", v, "skipped", "active", "pending")
  <2>1. DOMAIN to = Report!PhaseNames
    BY PhIs
  <2>2. Report!ApplyEnded(Applying, e) = to
    BY <1>0, <1>2, Ends
  <2> HIDE DEF to
  <2>3. Reached(Staged \o <<e>>, to, Calm, Past, Two)
    BY <1>2, <2>1, <2>2, ReachedApply
  <2>4. QED
    BY <2>3 DEF to
<1>3. ASSUME r, i
      PROVE  Reached(Staged \o <<e>>, Ph("passed", "passed", v, "active", "pending", "pending"),
                      Calm, Past, Two)
  <2> DEFINE to == Ph("passed", "passed", v, "active", "pending", "pending")
  <2>1. DOMAIN to = Report!PhaseNames
    BY PhIs
  <2>2. Report!ApplyEnded(Applying, e) = to
    BY <1>0, <1>3, Ends
  <2> HIDE DEF to
  <2>3. Reached(Staged \o <<e>>, to, Calm, Past, Two)
    BY <1>3, <2>1, <2>2, ReachedApply
  <2>4. QED
    BY <2>3 DEF to
<1>4. QED
  BY <1>1, <1>2, <1>3

\* What was observed ends the phases of the run.
LEMMA ReachedObserve ==
  ASSUME NEW es, NEW stg, NEW v, NEW r, NEW rcv, NEW types, NEW done,
         Reached(es, Ph("passed", stg, v, r, "active", "pending"), rcv, types, done),
         "observe" \notin done, "phase-completed" \in types, NEW i
  PROVE  Reached(es \o <<Obs(i)>>, Ph("passed", stg, v, r, i, "active"), rcv, types,
                 done \cup {"observe"})
<1> DEFINE ph == Ph("passed", stg, v, r, "active", "pending")
           to == Ph("passed", stg, v, r, i, "active")
<1>1. ph["observe"] = "active" /\ Going(ph) /\ DOMAIN to = Report!PhaseNames
  BY PhIs DEF Going
<1>2. \A w : Report!CompleteAndAdvance(ph, "observe", i, w) = to
  BY Advances
<1> HIDE DEF ph, to
<1>3. ASSUME NEW s, Stands(s, ph, rcv, types, done)
      PROVE  Takes(s, Obs(i), to, rcv, types, done \cup {"observe"})
  <2>1. "observe" \in Report!WritePhases
    BY DEF Report!WritePhases
  <2>2. Takes(s, Report!PhaseCompleted("observe", i), to, rcv,
              types \cup {"phase-completed"}, done \cup {"observe"})
    BY <1>1, <1>2, <1>3, <2>1, TakesPhase
  <2>3. types \cup {"phase-completed"} = types
    OBVIOUS
  <2>4. QED
    BY <2>2, <2>3 DEF Obs
<1>4. Reached(es, ph, rcv, types, done)
  BY DEF ph
<1>5. Reached(es \o <<Obs(i)>>, to, rcv, types, done \cup {"observe"})
  BY <1>3, <1>4, ReachedOn
<1>6. QED
  BY <1>5 DEF to

\* The staging did nothing: nothing was to change.
StageEvent(inspected) == [type |-> "stage-completed", observationRequired |-> inspected]

\* The end of staging is taken when there was nothing to stage.
LEMMA ReachedUnchanged ==
  ASSUME NEW i, i, NEW e, e = StageEvent(i)
  PROVE  Reached(<<Pre("passed")>> \o <<e>>,
                 Ph("passed", "skipped", "skipped", "skipped", "active", "pending"), Calm,
                 Opening \cup {"phase-completed", "stage-completed"}, {"preflight"})
<1> DEFINE types == Opening \cup {"phase-completed"}
           to == Ph("passed", "skipped", "skipped", "skipped", "active", "pending")
<1>1. Staging["stage"] = "active" /\ Going(Staging) /\ DOMAIN to = Report!PhaseNames
  BY PhIs DEF Staging, Going
<1>2. Reached(<<Pre("passed")>>, Staging, Calm, types, {"preflight"})
  BY ReachedPreflight
<1>3. e.type = "stage-completed" /\ e.observationRequired
  BY DEF StageEvent
<1>4. Report!StageSkipped(Staging, e) = to
  BY <1>3, Ends
<1>5. "stage-completed" \notin types
  BY DEF Opening
<1> HIDE DEF to
<1>6. ASSUME NEW s, Stands(s, Staging, Calm, types, {"preflight"})
      PROVE  Takes(s, e, to, Calm, types \cup {"stage-completed"}, {"preflight"})
  BY <1>1, <1>3, <1>4, <1>5, <1>6, TakesStage
<1>7. types \cup {"stage-completed"} = Opening \cup {"phase-completed", "stage-completed"}
  OBVIOUS
<1>8. QED
  BY <1>2, <1>6, <1>7, ReachedOn DEF to

\* The recovery, and how it ended.
Rec(v) == Report!RecoveryRecorded(TRUE, v)
RecEnd(v) == Report!PhaseCompleted("recover", v)
After3 == Past \cup {"recovery-recorded"}

\* A recovery is told by its status and by its phase.
LEMMA ReachedRecovery ==
  ASSUME NEW es, NEW v, NEW status \in {"completed", "partial", "unknown"}, NEW r,
         Reached(es, Ph("passed", "passed", v, "active", "pending", "pending"), Calm, Past, Two)
  PROVE  Reached((es \o <<Rec(status)>>) \o <<RecEnd(r)>>,
                 Ph("passed", "passed", v, r, "active", "pending"), RecoveryOf(TRUE, status),
                 After3, Two \cup {"recover"})
<1> DEFINE ph == Ph("passed", "passed", v, "active", "pending", "pending")
           to == Ph("passed", "passed", v, r, "active", "pending")
           rcv == RecoveryOf(TRUE, status)
<1>1. ph["recover"] = "active" /\ Going(ph) /\ DOMAIN to = Report!PhaseNames
  BY PhIs DEF Going
<1>2. \A w : Report!CompleteAndAdvance(ph, "recover", r, w) = to
  BY Advances
<1>3. "recovery-recorded" \notin Past
  BY DEF Past, Opening
<1>4. Reached(es, ph, Calm, Past, Two)
  OBVIOUS
<1> HIDE DEF ph, to
<1>5. ASSUME NEW s, Stands(s, ph, Calm, Past, Two)
      PROVE  Takes(s, Rec(status), ph, rcv, After3, Two)
  <2>1. Takes(s, Report!RecoveryRecorded(TRUE, status), ph, RecoveryOf(TRUE, status),
              Past \cup {"recovery-recorded"}, Two)
    BY <1>1, <1>3, <1>5, TakesRecovery
  <2>2. QED
    BY <2>1 DEF Rec, After3
<1> HIDE DEF rcv
<1>6. Reached(es \o <<Rec(status)>>, ph, rcv, After3, Two)
  BY <1>4, <1>5, ReachedOn
<1>7. ASSUME NEW s, Stands(s, ph, rcv, After3, Two)
      PROVE  Takes(s, RecEnd(r), to, rcv, After3, Two \cup {"recover"})
  <2>1. "recover" \in Report!WritePhases /\ "recover" \notin Two
    BY DEF Report!WritePhases, Two
  <2>2. Takes(s, Report!PhaseCompleted("recover", r), to, rcv,
              After3 \cup {"phase-completed"}, Two \cup {"recover"})
    BY <1>1, <1>2, <1>7, <2>1, TakesPhase
  <2>3. After3 \cup {"phase-completed"} = After3
    BY DEF After3, Past
  <2>4. QED
    BY <2>2, <2>3 DEF RecEnd
<1>8. Reached((es \o <<Rec(status)>>) \o <<RecEnd(r)>>, to, rcv, After3, Two \cup {"recover"})
  BY <1>6, <1>7, ReachedOn
<1>9. QED
  BY <1>8 DEF to, rcv

\* emitApplyPhases, kind by kind.
PreOf(a) == IF a.phases["preflight"] = "failed" /\ Some(a, {"conflicted"}) THEN "blocked"
            ELSE a.phases["preflight"]
StageOf(a) == LET folded == Report!FoldedPhaseStatus(a, {"lock", "stage"}) IN
              IF folded = "failed" /\ Every(a, {"conflicted"}) THEN "blocked" ELSE folded
ApplyOf(a) == Report!FoldedPhaseStatus(a, {"precommit", "commit"})
Inspected1(a) == a.phases["inspect"] # "none"
Recovers(a) == a.phases["recovery"] # "none"
ObserveOf(a) == IF Inspected1(a) THEN <<Obs(a.phases["inspect"])>> ELSE <<>>

\* emitApplyPhases: what is told, by how far the run got.
LEMMA EventsAre ==
  ASSUME NEW a, DOMAIN a.ops = Files
  PROVE  LET kept == KeptOf(a)
             observe == ObserveOf(a)
             stg == StageOf(a)
             applied == ApplyEvent(ApplyOf(a), Recovers(a), Inspected1(a)) IN
         /\ PreOf(a) # "passed" =>
              Report!ApplyPhaseEvents(a) = <<Pre(PreOf(a))>> \o kept
         /\ PreOf(a) = "passed" /\ stg = "skipped" =>
              Report!ApplyPhaseEvents(a) =
                <<Pre("passed")>> \o ((<<StageEvent(Inspected1(a))>> \o observe) \o kept)
         /\ PreOf(a) = "passed" /\ stg \notin {"passed", "skipped"} =>
              Report!ApplyPhaseEvents(a) = <<Pre("passed")>> \o (<<Stg(stg)>> \o kept)
         /\ PreOf(a) = "passed" /\ stg = "passed" /\ ApplyOf(a) # "skipped" =>
              Report!ApplyPhaseEvents(a) =
                <<Pre("passed")>> \o
                  (((<<Stg("passed"), applied>>
                      \o (IF Recovers(a) THEN Report!RecoveryEvents(a) ELSE <<>>)) \o observe)
                      \o (IF Recovers(a) THEN <<>> ELSE kept))
<1> DEFINE conflicted == {o \in DOMAIN a.ops : a.ops[o].status = "conflicted"}
           pre == IF a.phases["preflight"] = "failed" /\ conflicted # {} THEN "blocked"
                  ELSE a.phases["preflight"]
           folded == Report!FoldedPhaseStatus(a, {"lock", "stage"})
           stg == IF folded = "failed" /\ conflicted = DOMAIN a.ops THEN "blocked" ELSE folded
           ap == Report!FoldedPhaseStatus(a, {"precommit", "commit"})
           inspected == a.phases["inspect"] # "none"
           recovering == a.phases["recovery"] # "none"
           observe == IF inspected THEN <<Report!PhaseCompleted("observe", a.phases["inspect"])>>
                      ELSE <<>>
           kept == Report!RetainedCleanupEvidence(a)
           applied == [type |-> "apply-completed", status |-> ap,
                       recoveryRequired |-> recovering, observationRequired |-> inspected]
           rest == CASE pre # "passed" -> kept
             [] pre = "passed" /\ stg = "skipped" ->
                  <<[type |-> "stage-completed", observationRequired |-> inspected]>>
                    \o observe \o kept
             [] pre = "passed" /\ stg \notin {"passed", "skipped"} ->
                  <<Report!PhaseCompleted("stage", stg)>> \o kept
             [] pre = "passed" /\ stg = "passed" /\ ap = "skipped" ->
                  <<Report!PhaseCompleted("stage", stg), Report!PhaseCompleted("apply", ap)>>
                    \o observe \o kept
             [] OTHER ->
                  <<Report!PhaseCompleted("stage", stg), applied>>
                    \o (IF recovering THEN Report!RecoveryEvents(a) ELSE <<>>)
                    \o observe \o (IF recovering THEN <<>> ELSE kept)
<1>1. Report!ApplyPhaseEvents(a) = <<Report!PhaseCompleted("preflight", pre)>> \o rest
  BY DEF Report!ApplyPhaseEvents
<1>2. pre = PreOf(a)
  BY DEF PreOf, Some
<1>3. stg = StageOf(a)
  <2>1. conflicted = DOMAIN a.ops <=> Every(a, {"conflicted"})
    BY DEF Every
  <2> HIDE DEF conflicted
  <2>2. QED
    BY <2>1 DEF StageOf
<1>4. observe = ObserveOf(a) /\ kept = KeptOf(a) /\ ap = ApplyOf(a)
  BY KeptSeq DEF ObserveOf, Inspected1, Obs, ApplyOf
<1>5. applied = ApplyEvent(ApplyOf(a), Recovers(a), Inspected1(a))
  BY DEF ApplyEvent, ApplyOf, Recovers, Inspected1
<1>6. [type |-> "stage-completed", observationRequired |-> inspected] = StageEvent(Inspected1(a))
  BY DEF StageEvent, Inspected1
<1>7. (recovering <=> Recovers(a))
  BY DEF Recovers
<1> HIDE DEF pre, stg, observe, kept, ap, applied, recovering, inspected
<1>8. ASSUME pre # "passed" PROVE Report!ApplyPhaseEvents(a) = <<Pre(PreOf(a))>> \o KeptOf(a)
  <2>1. rest = kept
    BY <1>8
  <2>2. QED
    BY <1>1, <1>2, <1>4, <2>1 DEF Pre
<1>9. ASSUME pre = "passed", stg = "skipped"
      PROVE  Report!ApplyPhaseEvents(a) =
                <<Pre("passed")>> \o ((<<StageEvent(Inspected1(a))>> \o ObserveOf(a)) \o KeptOf(a))
  <2>1. rest = <<[type |-> "stage-completed", observationRequired |-> inspected]>>
                    \o observe \o kept
    BY <1>9
  <2> HIDE DEF rest
  <2>2. QED
    BY <1>1, <1>4, <1>6, <1>9, <2>1 DEF Pre
<1>10. ASSUME pre = "passed", stg \notin {"passed", "skipped"}
       PROVE  Report!ApplyPhaseEvents(a) = <<Pre("passed")>> \o (<<Stg(StageOf(a))>> \o KeptOf(a))
  <2>1. rest = <<Report!PhaseCompleted("stage", stg)>> \o kept
    BY <1>10
  <2> HIDE DEF rest
  <2>2. QED
    BY <1>1, <1>3, <1>4, <1>10, <2>1 DEF Pre, Stg
<1>11. ASSUME pre = "passed", stg = "passed", ap # "skipped"
       PROVE  Report!ApplyPhaseEvents(a) =
                <<Pre("passed")>> \o
                  (((<<Stg("passed"), ApplyEvent(ApplyOf(a), Recovers(a), Inspected1(a))>>
                      \o (IF Recovers(a) THEN Report!RecoveryEvents(a) ELSE <<>>)) \o ObserveOf(a))
                      \o (IF Recovers(a) THEN <<>> ELSE KeptOf(a)))
  <2>1. rest = <<Report!PhaseCompleted("stage", stg), applied>>
                    \o (IF recovering THEN Report!RecoveryEvents(a) ELSE <<>>)
                    \o observe \o (IF recovering THEN <<>> ELSE kept)
    BY <1>11
  <2>2. /\ (IF recovering THEN Report!RecoveryEvents(a) ELSE <<>>)
             = (IF Recovers(a) THEN Report!RecoveryEvents(a) ELSE <<>>)
        /\ (IF recovering THEN <<>> ELSE kept) = (IF Recovers(a) THEN <<>> ELSE KeptOf(a))
    BY <1>4, <1>7
  <2> HIDE DEF rest
  <2>3. QED
    BY <1>1, <1>4, <1>5, <1>11, <2>1, <2>2 DEF Pre, Stg
<1> HIDE DEF rest
<1>12. QED
  BY <1>2, <1>3, <1>4, <1>8, <1>9, <1>10, <1>11

----------------------------------------------------------------------------
\* The record, where evidence may be told last.
LEMMA ToldKept ==
  ASSUME NEW a, Fitting(a), Report!Reconciles(a),
         NEW es, NEW ph, NEW types, NEW done, Reached(es, ph, Calm, types, done),
         Report!ApplyPhaseEvents(a) = es \o KeptOf(a),
         ph["complete"] = "active", ph["recover"] = "skipped",
         types \cap {"recovery-recorded", "results-recorded", "run-completed"} = {},
         Report!WriteFailed(a) \/ (KeptOf(a) = <<>> /\ WentWell(ph, Calm))
  PROVE  \/ KeptOf(a) = <<>> /\ (Accepted(a) <=> FitsIn(ph, Calm, FALSE, a))
         \/ KeptOf(a) = <<Evidence1>> /\ (Accepted(a) <=> FitsIn(ph, Unclear, TRUE, a))
<1>0. <<Evidence1>> # <<>>
  OBVIOUS
<1>1. \/ KeptOf(a) = <<>> /\ Reached(es \o KeptOf(a), ph, Calm, types, done)
      \/ /\ KeptOf(a) = <<Evidence1>>
         /\ Reached(es \o KeptOf(a), ph, Unclear, types \cup {"recovery-recorded"}, done)
  BY ReachedKept
<1>2. CASE KeptOf(a) = <<>> /\ Reached(es \o KeptOf(a), ph, Calm, types, done)
  <2>1. Reached(Report!ApplyPhaseEvents(a), ph, Calm, types, done)
    BY <1>2
  <2>2. ~Report!WriteFailed(a) => WentWell(ph, Calm)
    OBVIOUS
  <2>3. Accepted(a) <=> FitsIn(ph, Calm, "recovery-recorded" \in types, a)
    BY <2>1, <2>2, ToldIs
  <2>4. ("recovery-recorded" \in types) = FALSE
    OBVIOUS
  <2>5. QED
    BY <1>2, <2>3, <2>4
<1>3. CASE /\ KeptOf(a) = <<Evidence1>>
           /\ Reached(es \o KeptOf(a), ph, Unclear, types \cup {"recovery-recorded"}, done)
  <2> DEFINE now == types \cup {"recovery-recorded"}
  <2>1. Reached(Report!ApplyPhaseEvents(a), ph, Unclear, now, done)
    BY <1>3
  <2>2. ~Report!WriteFailed(a) => WentWell(ph, Unclear)
    BY <1>0, <1>3
  <2>3. "results-recorded" \notin now /\ "run-completed" \notin now
    OBVIOUS
  <2>4. ("recovery-recorded" \in now) = TRUE
    OBVIOUS
  <2> HIDE DEF now
  <2>5. Accepted(a) <=> FitsIn(ph, Unclear, "recovery-recorded" \in now, a)
    BY <2>1, <2>2, <2>3, ToldIs
  <2>6. QED
    BY <1>3, <2>4, <2>5
<1>4. QED
  BY <1>1, <1>2, <1>3

\* When there is evidence to tell.
LEMMA KeptWhen ==
  ASSUME NEW a
  PROVE  /\ a.recovery # "unknown" => KeptOf(a) = <<>>
         /\ a.recovery = "unknown" /\ a.phases["preflight"] = "passed" => KeptOf(a) = <<Evidence1>>
BY DEF KeptOf, Report!CleanUnattemptedVcsUnknown

----------------------------------------------------------------------------
(* What fits each end of a run                                              *)

\* The recoveries an answer may tell of.
LEMMA CalmIs ==
  /\ Calm.executed = FALSE /\ Calm.status = "not-needed"
  /\ Unclear.executed = FALSE /\ Unclear.status = "unknown"
  /\ \A status : RecoveryOf(TRUE, status).executed = TRUE
                 /\ RecoveryOf(TRUE, status).status = status
BY DEF Calm, Unclear, RecoveryOf

\* The phases that may have failed.
LEMMA ActsAre ==
  ASSUME NEW ph, NEW v
  PROVE  v \in {ph[p] : p \in Report!WritePhases} <=>
           \/ ph["preflight"] = v \/ ph["stage"] = v \/ ph["apply"] = v
           \/ ph["observe"] = v \/ ph["recover"] = v
BY DEF Report!WritePhases

\* After the preflight.
LEMMA FitsBarred ==
  ASSUME NEW a, NoneTried(a), NEW v, NEW ph,
         ph = Ph(v, "skipped", "skipped", "skipped", "skipped", "active"),
         NEW rcv, NEW recorded,
         \/ v = "blocked" /\ Every(a, {"conflicted"}) /\ rcv = Calm
         \/ /\ v = "unknown" /\ Every(a, {"unknown"})
            /\ rcv = Calm \/ (rcv = Unclear /\ recorded)
  PROVE  FitsIn(ph, rcv, recorded, a)
<1>1. /\ ph["preflight"] = v /\ ph["stage"] = "skipped" /\ ph["apply"] = "skipped"
      /\ ph["recover"] = "skipped" /\ ph["observe"] = "skipped"
  BY PhIs
<1>2. ~Report!ZeroMutation(ph)
  BY <1>1 DEF Report!ZeroMutation, Report!NoObservationApplyFailure,
     Report!NoObservationEarlyFailure
<1>3. rcv.executed = FALSE /\ (rcv = Calm => rcv.status = "not-needed")
      /\ (rcv = Unclear => rcv.status = "unknown")
  BY CalmIs
<1>4. FitsRecovery(ph, rcv, recorded, a)
  BY <1>1, <1>3 DEF FitsRecovery, Kept
<1>5. FitsSkipped(ph, a)
  <2>1. CASE v = "blocked"
    BY <1>1, <2>1 DEF FitsSkipped, Every
  <2>2. CASE v = "unknown"
    BY <1>1, <2>2 DEF FitsSkipped, Every
  <2>3. QED
    BY <2>1, <2>2
<1>6. ~Some(a, {"reverted"}) /\ ~Some(a, {"applied"}) /\ ~Some(a, {"failed"})
  BY DEF Some, Every
<1>7. Some(a, {"conflicted"}) => "blocked" \in {ph["preflight"], ph["stage"], ph["apply"]}
  BY <1>1 DEF Some, Every
<1>8. Some(a, {"unknown"}) => "unknown" \in {ph[p] : p \in Report!WritePhases}
  BY <1>1, ActsAre DEF Some, Every
<1>9. QED
  BY <1>1, <1>2, <1>4, <1>5, <1>6, <1>7, <1>8 DEF FitsIn

\* Before anything was replaced.
LEMMA FitsUntouched ==
  ASSUME NEW a, NoneTried(a), Every(a, {"conflicted", "failed", "unknown"}), NEW ph, NEW v,
         \/ /\ ph = Ph("passed", v, "skipped", "skipped", "skipped", "active")
            /\ v \in {"blocked", "failed", "unknown"}
         \/ /\ ph = Ph("passed", "passed", v, "skipped", "skipped", "active")
            /\ v \in {"failed", "unknown"},
         NEW rcv, NEW recorded, rcv = Calm \/ (rcv = Unclear /\ recorded)
  PROVE  FitsIn(ph, rcv, recorded, a) <=>
           /\ Some(a, {"failed"}) => v = "failed"
           /\ Some(a, {"unknown"}) => v = "unknown" \/ Some(a, {"conflicted"}) \/ rcv = Unclear
<1>1. /\ ph["preflight"] = "passed" /\ ph["recover"] = "skipped" /\ ph["observe"] = "skipped"
      /\ \/ /\ ph["stage"] = v /\ ph["apply"] = "skipped"
            /\ v \in {"blocked", "failed", "unknown"}
         \/ ph["stage"] = "passed" /\ ph["apply"] = v /\ v \in {"failed", "unknown"}
  BY PhIs
<1>2. Report!ZeroMutation(ph)
  BY <1>1 DEF Report!ZeroMutation, Report!NoObservationApplyFailure,
     Report!NoObservationEarlyFailure
<1>3. /\ rcv.executed = FALSE /\ rcv.status \in {"not-needed", "unknown"}
      /\ rcv = Unclear <=> rcv.status = "unknown"
      /\ rcv = Calm <=> rcv.status = "not-needed"
  BY CalmIs
<1>4. FitsRecovery(ph, rcv, recorded, a)
  BY <1>1, <1>3 DEF FitsRecovery, Kept
<1>5. FitsSkipped(ph, a)
  BY <1>2 DEF FitsSkipped
<1>6. ~Some(a, {"reverted"}) /\ ~Some(a, {"applied"})
  BY DEF Some, Every
<1>7. "failed" \in {ph[p] : p \in Report!WritePhases} <=> v = "failed"
  BY <1>1, ActsAre
<1>8. "unknown" \in {ph[p] : p \in Report!WritePhases} <=> v = "unknown"
  BY <1>1, ActsAre
<1>9. ph["observe"] # "passed"
  BY <1>1
<1>10. rcv.status # "partial" /\ ph["observe"] # "unknown" /\ ph["observe"] # "failed"
  BY <1>1, <1>3
<1> HIDE DEF NoneTried, Every
<1>11. FitsIn(ph, rcv, recorded, a) <=>
         /\ Some(a, {"failed"}) => "failed" \in {ph[p] : p \in Report!WritePhases}
         /\ Some(a, {"unknown"}) =>
              \/ "unknown" \in {ph[p] : p \in Report!WritePhases} \/ Some(a, {"conflicted"})
              \/ rcv.status \in {"partial", "unknown"}
  BY <1>2, <1>4, <1>5, <1>6, <1>9, <1>10 DEF FitsIn
<1>12. rcv.status \in {"partial", "unknown"} <=> rcv = Unclear
  BY <1>3
<1>13. QED
  BY <1>7, <1>8, <1>11, <1>12

\* After everything was replaced.
LEMMA FitsReplaced ==
  ASSUME NEW a, a.attempted = Files, NEW ph,
         ph = Ph("passed", "passed", "passed", "skipped", "passed", "active"),
         NEW rcv, NEW recorded,
         \/ Every(a, {"applied"}) /\ rcv = Calm
         \/ Every(a, {"unknown"}) /\ rcv = Unclear /\ recorded
  PROVE  FitsIn(ph, rcv, recorded, a)
<1>1. /\ ph["preflight"] = "passed" /\ ph["stage"] = "passed" /\ ph["apply"] = "passed"
      /\ ph["recover"] = "skipped" /\ ph["observe"] = "passed"
  BY PhIs
<1>2. ~Report!ZeroMutation(ph)
  BY <1>1 DEF Report!ZeroMutation, Report!NoObservationApplyFailure,
     Report!NoObservationEarlyFailure
<1>3. rcv.executed = FALSE /\ (rcv = Calm => rcv.status = "not-needed")
      /\ (rcv = Unclear => rcv.status = "unknown")
  BY CalmIs
<1>4. ~Some(a, {"reverted"})
  BY DEF Some, Every
<1>5. CASE Every(a, {"applied"}) /\ rcv = Calm
  <2>1. ~Kept(rcv, recorded)
    BY <1>3, <1>5 DEF Kept
  <2>2. QED
    BY <1>1, <1>2, <1>3, <1>4, <1>5, <2>1 DEF FitsIn
<1>6. CASE Every(a, {"unknown"}) /\ rcv = Unclear /\ recorded
  <2>1. Kept(rcv, recorded)
    BY <1>3, <1>6 DEF Kept
  <2>2. QED
    BY <1>1, <1>2, <1>4, <1>6, <2>1 DEF FitsIn
<1>7. QED
  BY <1>5, <1>6

\* Of no files.
LEMMA FitsEmpty ==
  ASSUME NEW a, Files = {}, NEW ph,
         ph = Ph("passed", "skipped", "skipped", "skipped", "passed", "active")
  PROVE  FitsIn(ph, Calm, FALSE, a)
<1>1. /\ ph["preflight"] = "passed" /\ ph["stage"] = "skipped" /\ ph["apply"] = "skipped"
      /\ ph["recover"] = "skipped" /\ ph["observe"] = "passed"
  BY PhIs
<1>2. FitsRecovery(ph, Calm, FALSE, a)
  BY <1>1, CalmIs DEF FitsRecovery, Kept
<1>3. FitsSkipped(ph, a)
  BY <1>1 DEF FitsSkipped, Every, NoneTried
<1>4. NoneTried(a) /\ (\A s : Every(a, s) /\ ~Some(a, s))
  BY DEF NoneTried, Every, Some
<1>5. QED
  BY <1>1, <1>2, <1>3, <1>4 DEF FitsIn

\* After a recovery.
FitsAfter(a, c, i, rec, rcv) ==
  /\ Some(a, {"conflicted"}) => Excused(a, rcv)
  /\ Some(a, {"failed"}) => c = "failed" \/ rec = "partial"
  /\ Some(a, {"unknown"}) =>
       c = "unknown" \/ i = "unknown" \/ Some(a, {"conflicted"})
       \/ rec \in {"partial", "unknown"}

\* What is known of an account that was turned back.
TurnedBack(a, c, i, rec, ph, rcv) ==
  /\ c \in {"passed", "failed", "unknown"} /\ i \in {"passed", "unknown"}
  /\ rec \in {"completed", "partial", "unknown"}
  /\ ph = Ph("passed", "passed", c, Report!RecoveryPhaseStatus(rec), i, "active")
  /\ rcv = RecoveryOf(TRUE, rec)
  /\ ~Some(a, {"applied"}) /\ Some(a, {"reverted", "failed", "unknown"})
  /\ i = "unknown" => Some(a, {"unknown"})
  /\ rec = "completed" => i = "passed" /\ ~Some(a, {"unknown"})

\* What it takes after a recovery.
LEMMA FitsRecovered ==
  ASSUME NEW a, NEW c, NEW i, NEW rec, NEW ph, NEW rcv, TurnedBack(a, c, i, rec, ph, rcv)
  PROVE  FitsIn(ph, rcv, TRUE, a) <=> FitsAfter(a, c, i, rec, rcv)
<1> DEFINE r == Report!RecoveryPhaseStatus(rec)
<1> HIDE DEF r
<1>h. /\ c \in {"passed", "failed", "unknown"} /\ i \in {"passed", "unknown"}
      /\ rec \in {"completed", "partial", "unknown"}
      /\ ph = Ph("passed", "passed", c, r, i, "active")
      /\ rcv = RecoveryOf(TRUE, rec)
      /\ ~Some(a, {"applied"}) /\ Some(a, {"reverted", "failed", "unknown"})
      /\ i = "unknown" => Some(a, {"unknown"})
      /\ rec = "completed" => i = "passed" /\ ~Some(a, {"unknown"})
  BY DEF TurnedBack, r
<1> USE <1>h
<1>0. /\ rec = "completed" => r = "passed"
      /\ rec = "partial" => r = "failed"
      /\ rec = "unknown" => r = "unknown"
  BY DEF Report!RecoveryPhaseStatus, r
<1>1. /\ ph["preflight"] = "passed" /\ ph["stage"] = "passed" /\ ph["apply"] = c
      /\ ph["recover"] = r /\ ph["observe"] = i
  BY PhIs
<1>2. ph["recover"] # "skipped" /\ ph["apply"] # "skipped"
  BY <1>0, <1>1
<1>3. ~Report!ZeroMutation(ph)
  BY <1>2 DEF Report!ZeroMutation, Report!NoObservationApplyFailure,
     Report!NoObservationEarlyFailure
<1>4. rcv.executed = TRUE /\ rcv.status = rec
  BY CalmIs
<1>5. FitsSkipped(ph, a)
  BY <1>2 DEF FitsSkipped
<1>6. "failed" \in {ph[p] : p \in Report!WritePhases} <=> c = "failed" \/ rec = "partial"
  <2>1. "failed" \in {ph[p] : p \in Report!WritePhases}
          <=> c = "failed" \/ i = "failed" \/ r = "failed"
    <3>1. "failed" \in {ph[p] : p \in Report!WritePhases} <=>
            \/ ph["preflight"] = "failed" \/ ph["stage"] = "failed" \/ ph["apply"] = "failed"
            \/ ph["observe"] = "failed" \/ ph["recover"] = "failed"
      BY ONLY ActsAre
    <3>2. QED
      BY ONLY <1>h, <1>1, <3>1
  <2>2. r = "failed" <=> rec = "partial"
    BY <1>0
  <2>3. QED
    BY <2>1, <2>2
<1>7. "unknown" \in {ph[p] : p \in Report!WritePhases}
        <=> c = "unknown" \/ i = "unknown" \/ rec = "unknown"
  <2>1. "unknown" \in {ph[p] : p \in Report!WritePhases}
          <=> c = "unknown" \/ i = "unknown" \/ r = "unknown"
    <3>1. "unknown" \in {ph[p] : p \in Report!WritePhases} <=>
            \/ ph["preflight"] = "unknown" \/ ph["stage"] = "unknown" \/ ph["apply"] = "unknown"
            \/ ph["observe"] = "unknown" \/ ph["recover"] = "unknown"
      BY ONLY ActsAre
    <3>2. QED
      BY ONLY <1>h, <1>1, <3>1
  <2>2. r = "unknown" <=> rec = "unknown"
    BY <1>0
  <2>3. QED
    BY <2>1, <2>2
<1>8. FitsRecovery(ph, rcv, TRUE, a) <=>
        (rec = "completed" => (Some(a, {"conflicted"}) => Excused(a, rcv)))
  <2>1. ~Some(a, {"applied", "unknown"}) <=> ~Some(a, {"unknown"})
    BY DEF Some
  <2>2. /\ rec = "partial" => ph["recover"] = "failed"
        /\ rec = "unknown" => ph["recover"] = "unknown"
        /\ rec = "completed" => ph["recover"] = "passed"
    BY <1>0, <1>1
  <2> HIDE DEF Some, Excused
  <2>3. QED
    BY <1>2, <1>4, <2>1, <2>2 DEF FitsRecovery
<1>9. ~("blocked" \in {ph["preflight"], ph["stage"], ph["apply"]})
  BY <1>1
<1>10. (ph["observe"] = "unknown" => Some(a, {"unknown"})) /\ ph["observe"] # "failed"
  BY <1>1
<1>11. FitsIn(ph, rcv, TRUE, a) <=>
         /\ Some(a, {"conflicted"}) => Excused(a, rcv)
         /\ Some(a, {"failed"}) => ("failed" \in {ph[p] : p \in Report!WritePhases}
                                    \/ rcv.status = "partial")
         /\ Some(a, {"unknown"}) =>
               \/ "unknown" \in {ph[p] : p \in Report!WritePhases} \/ Some(a, {"conflicted"})
               \/ rcv.status \in {"partial", "unknown"}
         /\ FitsRecovery(ph, rcv, TRUE, a)
  BY <1>2, <1>3, <1>5, <1>9, <1>10 DEF FitsIn
<1>12. QED
  BY <1>4, <1>6, <1>7, <1>8, <1>11 DEF FitsAfter

----------------------------------------------------------------------------
(* The record of each kind of answer                                        *)

\* The events in the order they are told.
ThenAll(p, q, x, r, t, u) == <<p>> \o (((<<q, x>> \o r) \o t) \o u)

\* The events of a run that recovered, one at a time.
LEMMA Regroup ==
  ASSUME NEW p, NEW q, NEW x, NEW r, NEW t, NEW u, IsSeq(r), IsSeq(t), IsSeq(u)
  PROVE  ThenAll(p, q, x, r, t, u) = ((((<<p>> \o <<q>>) \o <<x>>) \o r) \o t) \o u
<1> DEFINE P == <<p>>
           S == <<q>>
           X == <<x>>
           T == <<q, x>>
<1>1. T = S \o X /\ IsSeq(P) /\ IsSeq(S) /\ IsSeq(X) /\ IsSeq(T)
  BY Pairs, SeqFacts
<1> HIDE DEF P, S, X, T
<1> DEFINE U == T \o r
           V == U \o t
<1>2. IsSeq(U) /\ U = T \o r
  BY <1>1, JoinedSeq
<1>0. IsSeq(P) /\ IsSeq(S) /\ IsSeq(X) /\ IsSeq(T) /\ IsSeq(r) /\ IsSeq(t) /\ IsSeq(u)
  BY <1>1
<1>3. P \o (T \o r) = (P \o T) \o r
  BY ONLY <1>0, Joined
<1>4. IsSeq(V) /\ V = U \o t
  BY <1>2, JoinedSeq
<1>5. \A v, w : IsSeq(v) /\ IsSeq(w) => P \o (v \o w) = (P \o v) \o w
  <2>1. IsSeq(P)
    BY <1>0
  <2>2. QED
    BY ONLY <2>1, Joined
<1>6. IsSeq(t) /\ IsSeq(u)
  OBVIOUS
<1>7. P \o T = (P \o S) \o X
  <2>1. P \o (S \o X) = (P \o S) \o X
    BY <1>0, <1>5, Zenon
  <2>2. T = S \o X
    BY <1>1
  <2> QED BY ONLY <2>1, <2>2
<1>8. P \o (V \o u) = (((P \o T) \o r) \o t) \o u
  <2>1. P \o (V \o u) = (P \o V) \o u
    BY ONLY <1>4, <1>5, <1>6, Zenon
  <2>2. P \o (U \o t) = (P \o U) \o t
    BY ONLY <1>2, <1>5, <1>6, Zenon
  <2> HIDE DEF U, V
  <2>3. QED
    BY <1>2, <1>3, <1>4, <2>1, <2>2, Zenon
<1>9. QED
  BY <1>7, <1>8 DEF P, S, X, T, U, V, ThenAll

ThenTwo(p, q, x, u) == <<p>> \o (<<q, x>> \o u)

\* The events of a run that ended with its apply phase, one at a time.
LEMMA RegroupApply ==
  ASSUME NEW p, NEW q, NEW x, NEW u, IsSeq(u)
  PROVE  ThenTwo(p, q, x, u) = ((<<p>> \o <<q>>) \o <<x>>) \o u
<1> DEFINE P == <<p>>
           S == <<q>>
           X == <<x>>
           T == <<q, x>>
<1>1. T = S \o X /\ IsSeq(P) /\ IsSeq(S) /\ IsSeq(X) /\ IsSeq(T)
  BY Pairs, SeqFacts
<1> HIDE DEF P, S, X, T
<1>2. P \o T = (P \o S) \o X
  BY <1>1, Joined
<1>3. IsSeq(P) /\ IsSeq(T) /\ IsSeq(u)
  BY <1>1
<1>4. P \o (T \o u) = (P \o T) \o u
  BY ONLY <1>3, Joined
<1>5. QED
  BY <1>2, <1>4 DEF ThenTwo, P, S, X, T

\* The events of a run without files, one at a time.
LEMMA RegroupUnchanged ==
  ASSUME NEW p, NEW x, NEW t, NEW u, IsSeq(t), IsSeq(u)
  PROVE  <<p>> \o ((<<x>> \o t) \o u) = ((<<p>> \o <<x>>) \o t) \o u
<1> DEFINE P == <<p>>
           X == <<x>>
<1>1. IsSeq(P) /\ IsSeq(X)
  BY SeqFacts
<1> HIDE DEF P, X
<1>2. IsSeq(X \o t)
  BY <1>1, JoinedSeq
<1>4. P \o (X \o t) = (P \o X) \o t
  BY <1>1, Joined
<1> DEFINE U == X \o t
<1> HIDE DEF U
<1>3. P \o (U \o u) = (P \o U) \o u
  BY <1>1, <1>2, Joined DEF U
<1>5. QED
  BY <1>3, <1>4 DEF P, X, U

\* The events of a run that ended with its staging, one at a time.
LEMMA RegroupStage ==
  ASSUME NEW p, NEW x, NEW k, IsSeq(k)
  PROVE  <<p>> \o (<<x>> \o k) = (<<p>> \o <<x>>) \o k
BY SeqFacts, Joined

\* The types of the events told before the results.
LEMMA TypesAre ==
  LET late == {"recovery-recorded", "results-recorded", "run-completed"} IN
  /\ (Opening \cup {"phase-completed"}) \cap late = {}
  /\ (Opening \cup {"phase-completed", "stage-completed"}) \cap late = {}
  /\ Past \cap late = {}
  /\ "recovery-recorded" \in After3
  /\ "results-recorded" \notin After3 /\ "run-completed" \notin After3
  /\ "phase-completed" \in Past /\ "phase-completed" \in After3
  /\ "observe" \notin Two /\ "observe" \notin Two \cup {"recover"}
BY DEF Opening, Past, After3, Two

\* What the folded phases are, by how far the run got.
LEMMA FoldedOf ==
  ASSUME NEW a, NEW p, NEW x, NEW c, NEW r, NEW i, NEW l, Begun(a, l, x, p, c, r, i)
  PROVE  LET stg == Report!FoldedPhaseStatus(a, {"lock", "stage"}) IN
         /\ l \in {"skipped", "failed", "unknown"} /\ x = "none" => stg = l
         /\ l = "passed" /\ x \in {"passed", "failed"} => stg = x
         /\ p \in {"failed", "unknown"} /\ c = "none" => ApplyOf(a) = p
         /\ p = "passed" /\ c \in {"passed", "failed", "unknown"} => ApplyOf(a) = c
         /\ (Inspected1(a) <=> i # "none") /\ (Recovers(a) <=> r # "none")
         /\ i = "none" => ObserveOf(a) = <<>>
         /\ i # "none" => ObserveOf(a) = <<Obs(i)>>
<1>1. /\ a.phases["lock"] = l /\ a.phases["stage"] = x /\ a.phases["precommit"] = p
      /\ a.phases["commit"] = c /\ a.phases["recovery"] = r /\ a.phases["inspect"] = i
  BY DEF Begun
<1>2. /\ l \in {"skipped", "failed", "unknown"} /\ x = "none" =>
           Report!FoldedPhaseStatus(a, {"lock", "stage"}) = l
      /\ l = "passed" /\ x \in {"passed", "failed"} =>
           Report!FoldedPhaseStatus(a, {"lock", "stage"}) = x
  BY <1>1, Folds2
<1>3. /\ p \in {"failed", "unknown"} /\ c = "none" => ApplyOf(a) = p
      /\ p = "passed" /\ c \in {"passed", "failed", "unknown"} => ApplyOf(a) = c
  BY <1>1, Folds2 DEF ApplyOf
<1>4. (Inspected1(a) <=> i # "none") /\ (Recovers(a) <=> r # "none")
  BY <1>1 DEF Inspected1, Recovers
<1>5. /\ i = "none" => ObserveOf(a) = <<>>
      /\ i # "none" => ObserveOf(a) = <<Obs(i)>>
  BY <1>1, <1>4 DEF ObserveOf
<1>6. QED
  BY <1>2, <1>3, <1>4, <1>5

\* The record of an answer whose kind only shows in where the events lead.
LEMMA SumUp ==
  ASSUME NEW a, Plain(a),
         \A f \in Files :
           /\ a.ops[f].status \in {"applied", "conflicted", "reverted", "failed", "unknown"}
           /\ a.ops[f].status = "conflicted" => f \notin a.attempted
           /\ a.ops[f].status \in {"applied", "reverted"} => f \in a.attempted,
         a.phases["recovery"] # "none" => a.recovery # "not-needed"
  PROVE  Fitting(a) /\ Report!Reconciles(a)
<1>1. Fitting(a)
  BY DEF Plain, Fitting
<1>2. \A f \in Files : Report!Tried(a, f) <=> f \in a.attempted
  BY DEF Plain, Report!Tried, Owner
<1>3. Report!Reconciles(a)
  BY <1>2 DEF Plain, Report!Reconciles
<1>4. QED
  BY <1>1, <1>3

\* A write with a blocking status failed.
LEMMA BlockedFails ==
  ASSUME NEW a, Plain(a), NEW f \in Files,
         a.ops[f].status \in {"conflicted", "reverted", "failed", "unknown"}
  PROVE  Report!WriteFailed(a)
BY DEF Plain, Report!WriteFailed, Report!Blocking, Report!BlockingStatus

\* No files.
LEMMA ToldEmpty ==
  ASSUME NEW a, Plain(a), KindEmpty(a)
  PROVE  Accepted(a) /\ ~Refused(a)
<1> DEFINE ph == Ph("passed", "skipped", "skipped", "skipped", "passed", "active")
           es == (<<Pre("passed")>> \o <<StageEvent(Inspected1(a))>>) \o <<Obs("passed")>>
           types == Opening \cup {"phase-completed", "stage-completed"}
<1>1. Files = {}
  BY DEF KindEmpty, Files
<1>2. /\ a.phases["preflight"] = "passed" /\ a.recovery = "not-needed"
      /\ Begun(a, "skipped", "none", "none", "none", "none", "passed")
  BY DEF KindEmpty
<1>3. Fitting(a) /\ Report!Reconciles(a)
  BY <1>1, <1>2, SumUp DEF Begun
<1>4. /\ PreOf(a) = "passed" /\ StageOf(a) = "skipped" /\ Inspected1(a)
      /\ ObserveOf(a) = <<Obs("passed")>>
  BY <1>2, FoldedOf DEF PreOf, StageOf
<1>5. KeptOf(a) = <<>> /\ IsSeq(KeptOf(a)) /\ IsSeq(<<Obs("passed")>>)
  BY <1>2, KeptWhen, KeptSeq, SeqFacts
<1>6. Report!ApplyPhaseEvents(a) =
        <<Pre("passed")>> \o ((<<StageEvent(Inspected1(a))>> \o <<Obs("passed")>>) \o KeptOf(a))
  BY <1>4, EventsAre DEF Plain
<1>7. Report!ApplyPhaseEvents(a) = es \o KeptOf(a)
  BY <1>5, <1>6, RegroupUnchanged
<1>8. Reached(es, ph, Calm, types, {"preflight"} \cup {"observe"})
  <2>1. Reached(<<Pre("passed")>> \o <<StageEvent(Inspected1(a))>>,
                 Ph("passed", "skipped", "skipped", "skipped", "active", "pending"), Calm,
                 types, {"preflight"})
    BY <1>4, ReachedUnchanged
  <2>2. "observe" \notin {"preflight"} /\ "phase-completed" \in types
    OBVIOUS
  <2> HIDE DEF types
  <2>3. QED
    BY <2>1, <2>2, ReachedObserve
<1>9. ph["complete"] = "active" /\ ph["recover"] = "skipped" /\ DOMAIN ph = Report!PhaseNames
  BY PhIs
<1>10. WentWell(ph, Calm)
  <2>1. \A p \in Report!PhaseNames : ph[p] \in {"passed", "skipped", "active"}
    BY DEF Ph, Report!PhaseNames, Report!WritePhases
  <2>2. \A p \in {"discover", "resolve", "review"} : ph[p] = "passed"
    BY PhIs
  <2>3. QED
    BY <2>1, <2>2, CalmIs DEF WentWell
<1>11. types \cap {"recovery-recorded", "results-recorded", "run-completed"} = {}
  BY TypesAre
<1>12. FitsIn(ph, Calm, FALSE, a)
  BY <1>1, FitsEmpty
<1> HIDE DEF ph, es, types
<1>13. \/ KeptOf(a) = <<>> /\ (Accepted(a) <=> FitsIn(ph, Calm, FALSE, a))
       \/ KeptOf(a) = <<Evidence1>> /\ (Accepted(a) <=> FitsIn(ph, Unclear, TRUE, a))
  BY <1>3, <1>5, <1>7, <1>8, <1>9, <1>10, <1>11, ToldKept
<1>14. <<>> # <<Evidence1>>
  OBVIOUS
<1>15. ~Refused(a)
  BY <1>1, <1>2 DEF Refused, Begun
<1>16. QED
  BY <1>5, <1>12, <1>13, <1>14, <1>15

\* Refused by the preflight.
LEMMA ToldBarred ==
  ASSUME NEW a, Plain(a), KindBarred(a)
  PROVE  Accepted(a) /\ ~Refused(a)
<1>1. /\ 1 \in Files /\ a.attempted = {}
      /\ Begun(a, "none", "none", "none", "none", "none", "none")
  BY DEF KindBarred, Files
<1> DEFINE v == IF a.phases["preflight"] = "failed" THEN "blocked" ELSE "unknown"
           ph == Ph(v, "skipped", "skipped", "skipped", "skipped", "active")
           es == <<Pre(v)>>
           types == Opening \cup {"phase-completed"}
<1>2. \/ /\ a.phases["preflight"] = "failed" /\ a.recovery = "not-needed" /\ v = "blocked"
         /\ Every(a, {"conflicted"})
      \/ /\ a.phases["preflight"] = "unknown" /\ a.recovery = "unknown" /\ v = "unknown"
         /\ Every(a, {"unknown"})
  BY DEF KindBarred
<1>3. Fitting(a) /\ Report!Reconciles(a)
  <2>1. \A f \in Files : a.ops[f].status \in {"conflicted", "unknown"}
    BY <1>2 DEF Every
  <2>2. a.phases["recovery"] = "none"
    BY <1>1 DEF Begun
  <2>3. QED
    BY <1>1, <2>1, <2>2, SumUp
<1>4. Report!WriteFailed(a)
  <2>1. a.ops[1].status \in {"conflicted", "unknown"}
    BY <1>1, <1>2 DEF Every
  <2>2. QED
    BY <1>1, <2>1, BlockedFails
<1>5. PreOf(a) = v /\ v \in {"blocked", "unknown"}
  BY <1>1, <1>2 DEF PreOf, Some, Every
<1>6. Report!ApplyPhaseEvents(a) = es \o KeptOf(a)
  <2>1. v # "passed"
    BY <1>5
  <2>2. PreOf(a) # "passed" =>
              Report!ApplyPhaseEvents(a) = <<Pre(PreOf(a))>> \o KeptOf(a)
    BY EventsAre DEF Plain
  <2>3. QED
    BY <1>5, <2>1, <2>2
<1>7. Reached(es, ph, Calm, types, {"preflight"})
  BY <1>5, ReachedPreflight
<1>8. ph["complete"] = "active" /\ ph["recover"] = "skipped"
  BY PhIs
<1>9. types \cap {"recovery-recorded", "results-recorded", "run-completed"} = {}
  BY TypesAre
<1>10. NoneTried(a)
  BY <1>1 DEF NoneTried
<1>11. KeptOf(a) = <<Evidence1>> => a.recovery = "unknown"
  BY DEF KeptOf
<1> HIDE DEF es, types
<1>12. \/ KeptOf(a) = <<>> /\ (Accepted(a) <=> FitsIn(ph, Calm, FALSE, a))
       \/ KeptOf(a) = <<Evidence1>> /\ (Accepted(a) <=> FitsIn(ph, Unclear, TRUE, a))
  <2> HIDE DEF ph
  <2>1. QED
    BY <1>3, <1>4, <1>6, <1>7, <1>8, <1>9, ToldKept
<1>13. FitsIn(ph, Calm, FALSE, a)
  BY <1>2, <1>10, FitsBarred
<1>14. a.recovery = "unknown" => FitsIn(ph, Unclear, TRUE, a)
  BY <1>2, <1>10, FitsBarred
<1>15. ~Refused(a)
  BY <1>1, <1>2 DEF Refused, Begun
<1>16. QED
  BY <1>11, <1>12, <1>13, <1>14, <1>15

\* What is told of a run without evidence, or with it, where the phases alone
\* decide.
LEMMA Told2 ==
  ASSUME NEW a, Plain(a), a.attempted = {}, Every(a, {"conflicted", "failed", "unknown"}), N > 0,
         a.phases["preflight"] = "passed", a.phases["recovery"] = "none",
         a.recovery \in {"not-needed", "unknown"},
         NEW v, NEW ph,
         \/ /\ ph = Ph("passed", v, "skipped", "skipped", "skipped", "active")
            /\ v \in {"blocked", "failed", "unknown"}
         \/ /\ ph = Ph("passed", "passed", v, "skipped", "skipped", "active")
            /\ v \in {"failed", "unknown"},
         NEW es, NEW types, NEW done,
         Report!ApplyPhaseEvents(a) = es \o KeptOf(a), Reached(es, ph, Calm, types, done),
         types \cap {"recovery-recorded", "results-recorded", "run-completed"} = {}
  PROVE  Accepted(a) <=>
           /\ Some(a, {"failed"}) => v = "failed"
           /\ Some(a, {"unknown"}) =>
                v = "unknown" \/ Some(a, {"conflicted"}) \/ a.recovery = "unknown"
<1>1. 1 \in Files
  BY DEF Files
<1>2. \A f \in Files : a.ops[f].status \in {"conflicted", "failed", "unknown"}
  BY DEF Every
<1>3. Fitting(a) /\ Report!Reconciles(a)
  BY <1>2, SumUp
<1>4. Report!WriteFailed(a)
  <2>1. a.ops[1].status \in {"conflicted", "reverted", "failed", "unknown"}
    BY <1>1, <1>2
  <2>2. QED
    BY <1>1, <2>1, BlockedFails
<1>5. ph["complete"] = "active" /\ ph["recover"] = "skipped"
  BY PhIs
<1>6. NoneTried(a)
  BY DEF NoneTried
<1>7. \/ KeptOf(a) = <<>> /\ (Accepted(a) <=> FitsIn(ph, Calm, FALSE, a))
      \/ KeptOf(a) = <<Evidence1>> /\ (Accepted(a) <=> FitsIn(ph, Unclear, TRUE, a))
  BY <1>3, <1>4, <1>5, ToldKept
<1>8. <<>> # <<Evidence1>> /\ Calm # Unclear
  BY CalmIs
<1>9. FitsIn(ph, Calm, FALSE, a) <=>
         /\ Some(a, {"failed"}) => v = "failed"
         /\ Some(a, {"unknown"}) => v = "unknown" \/ Some(a, {"conflicted"}) \/ Calm = Unclear
  BY <1>6, FitsUntouched
<1>10. FitsIn(ph, Unclear, TRUE, a) <=>
         /\ Some(a, {"failed"}) => v = "failed"
         /\ Some(a, {"unknown"}) => v = "unknown" \/ Some(a, {"conflicted"}) \/ Unclear = Unclear
  BY <1>6, FitsUntouched
<1>11. a.recovery = "unknown" <=> KeptOf(a) = <<Evidence1>>
  BY <1>8, KeptWhen
<1>12. QED
  BY <1>7, <1>8, <1>9, <1>10, <1>11

\* Refused by the lock, or given up while staging.
LEMMA ToldUnstaged ==
  ASSUME NEW a, Plain(a), KindUnstaged(a)
  PROVE  Accepted(a) <=> ~Refused(a)
<1>1. 1 \in Files /\ a.attempted = {} /\ a.phases["preflight"] = "passed" /\ N > 0
  BY DEF KindUnstaged, Files
<1>2. \/ /\ Begun(a, "failed", "none", "none", "none", "none", "none")
         /\ a.recovery = "not-needed" /\ Every(a, {"conflicted"})
      \/ /\ Begun(a, "unknown", "none", "none", "none", "none", "none")
         /\ a.recovery = "unknown" /\ Every(a, {"unknown"})
      \/ /\ Begun(a, "passed", "failed", "none", "none", "none", "none")
         /\ a.recovery \in {"not-needed", "unknown"} /\ Observed(a)
  BY DEF KindUnstaged
<1>3. Every(a, {"conflicted", "failed", "unknown"})
  BY <1>2 DEF Every, Observed
<1> DEFINE v == StageOf(a)
           ph == Ph("passed", v, "skipped", "skipped", "skipped", "active")
           es == <<Pre("passed")>> \o <<Stg(v)>>
           types == Opening \cup {"phase-completed"}
<1>4. /\ Begun(a, "failed", "none", "none", "none", "none", "none") => v \in {"blocked", "failed"}
      /\ Begun(a, "unknown", "none", "none", "none", "none", "none") => v = "unknown"
      /\ Begun(a, "passed", "failed", "none", "none", "none", "none") /\ Observed(a) => v = "failed"
  <2> DEFINE folded == Report!FoldedPhaseStatus(a, {"lock", "stage"})
  <2>1. /\ Begun(a, "failed", "none", "none", "none", "none", "none") => folded = "failed"
        /\ Begun(a, "unknown", "none", "none", "none", "none", "none") => folded = "unknown"
        /\ Begun(a, "passed", "failed", "none", "none", "none", "none") => folded = "failed"
    BY FoldedOf
  <2>2. Observed(a) => ~Every(a, {"conflicted"})
    BY <1>1 DEF Observed, Every
  <2> HIDE DEF folded
  <2>3. v = IF folded = "failed" /\ Every(a, {"conflicted"}) THEN "blocked" ELSE folded
    BY DEF folded, StageOf
  <2>4. QED
    BY <2>1, <2>2, <2>3
<1> HIDE DEF v
<1>5. v \in {"blocked", "failed", "unknown"} /\ PreOf(a) = "passed"
  BY <1>1, <1>2, <1>4 DEF PreOf
<1>6. Report!ApplyPhaseEvents(a) = es \o KeptOf(a)
  <2>1. Report!ApplyPhaseEvents(a) = <<Pre("passed")>> \o (<<Stg(v)>> \o KeptOf(a))
    BY <1>5, EventsAre DEF Plain, v
  <2>2. QED
    BY <2>1, RegroupStage, KeptSeq
<1>7. Reached(es, ph, Calm, types, Two)
  BY <1>5, ReachedStage
<1>8. types \cap {"recovery-recorded", "results-recorded", "run-completed"} = {}
  BY TypesAre
<1>9. /\ a.phases["recovery"] = "none" /\ a.recovery \in {"not-needed", "unknown"}
      /\ a.phases["commit"] = "none"
  BY <1>2 DEF Begun
<1> HIDE DEF es, types
<1>10. Accepted(a) <=>
         /\ Some(a, {"failed"}) => v = "failed"
         /\ Some(a, {"unknown"}) =>
              v = "unknown" \/ Some(a, {"conflicted"}) \/ a.recovery = "unknown"
  <2>1. ph = Ph("passed", v, "skipped", "skipped", "skipped", "active")
    OBVIOUS
  <2> HIDE DEF ph
  <2>2. QED
    BY <1>1, <1>3, <1>5, <1>6, <1>7, <1>8, <1>9, <2>1, Told2
<1>11. Refused(a) <=> a.recovery = "not-needed"
                      /\ \E f \in Files : a.ops[f] = [status |-> "unknown",
                                                      reason |-> "OBSERVATION_FAILED"]
  BY <1>1, <1>9 DEF Refused
<1>12. CASE Begun(a, "failed", "none", "none", "none", "none", "none") /\ Every(a, {"conflicted"})
  BY <1>10, <1>11, <1>12 DEF Some, Every
<1>13. CASE /\ Begun(a, "unknown", "none", "none", "none", "none", "none")
            /\ a.recovery = "unknown" /\ Every(a, {"unknown"})
  BY <1>4, <1>10, <1>11, <1>13 DEF Some, Every
<1>14. CASE Begun(a, "passed", "failed", "none", "none", "none", "none") /\ Observed(a)
  <2>1. ~Some(a, {"conflicted"})
    BY <1>14 DEF Some, Observed
  <2>2. Some(a, {"unknown"}) <=> \E f \in Files : a.ops[f] = [status |-> "unknown",
                                                      reason |-> "OBSERVATION_FAILED"]
    BY <1>14 DEF Some, Observed
  <2>3. QED
    BY <1>4, <1>9, <1>10, <1>11, <1>14, <2>1, <2>2
<1>15. QED
  BY <1>2, <1>12, <1>13, <1>14

\* Given up before anything was replaced.
LEMMA ToldUntried ==
  ASSUME NEW a, Plain(a), KindUntried(a)
  PROVE  Accepted(a) <=> ~Refused(a)
<1>1. 1 \in Files /\ a.attempted = {} /\ a.phases["preflight"] = "passed" /\ N > 0
  BY DEF KindUntried, Files
<1>2. PICK v \in {"failed", "unknown"} :
       /\ \/ Begun(a, "passed", "passed", v, "none", "none", "none")
          \/ Begun(a, "passed", "passed", "passed", v, "none", "none")
       /\ \/ a.recovery = "unknown" /\ Every(a, {"unknown"})
          \/ /\ a.recovery = "not-needed" /\ v = "unknown" /\ Every(a, {"unknown"})
             /\ \A f \in Files : a.ops[f].reason # "OBSERVATION_FAILED"
          \/ /\ a.recovery = "not-needed" /\ v = "failed"
             /\ Every(a, {"conflicted"}) \/ Observed(a)
  BY DEF KindUntried
<1>3. Every(a, {"conflicted", "failed", "unknown"})
  BY <1>2 DEF Every, Observed
<1> DEFINE e == ApplyEvent(v, Recovers(a), Inspected1(a))
           ph == Ph("passed", "passed", v, "skipped", "skipped", "active")
           es == Staged \o <<e>>
<1>4. /\ ApplyOf(a) = v /\ ~Inspected1(a) /\ ~Recovers(a) /\ ObserveOf(a) = <<>>
      /\ Report!FoldedPhaseStatus(a, {"lock", "stage"}) = "passed"
  BY <1>2, FoldedOf
<1>5. PreOf(a) = "passed" /\ StageOf(a) = "passed"
  BY <1>1, <1>4 DEF PreOf, StageOf
<1>6. Report!ApplyPhaseEvents(a) = es \o KeptOf(a)
  <2>1. Report!ApplyPhaseEvents(a) =
                <<Pre("passed")>> \o
                  (((<<Stg("passed"), ApplyEvent(ApplyOf(a), Recovers(a), Inspected1(a))>>
                      \o (IF Recovers(a) THEN Report!RecoveryEvents(a) ELSE <<>>))
                      \o ObserveOf(a))
                      \o (IF Recovers(a) THEN <<>> ELSE KeptOf(a)))
    BY <1>2, <1>4, <1>5, EventsAre DEF Plain
  <2> HIDE DEF e
  <2>2. Report!ApplyPhaseEvents(a) =
                <<Pre("passed")>> \o (((<<Stg("passed"), e>> \o <<>>) \o <<>>) \o KeptOf(a))
    BY <1>4, <2>1 DEF e
  <2>3. IsSeq(<<Stg("passed"), e>>) /\ IsSeq(KeptOf(a))
    BY Pairs, KeptSeq
  <2>4. <<Stg("passed"), e>> \o <<>> = <<Stg("passed"), e>>
    BY <2>3, JoinedNothing
  <2>5. Report!ApplyPhaseEvents(a) = <<Pre("passed")>> \o (<<Stg("passed"), e>> \o KeptOf(a))
    BY <2>2, <2>4
  <2>6. <<Pre("passed")>> \o (<<Stg("passed"), e>> \o KeptOf(a))
          = ((<<Pre("passed")>> \o <<Stg("passed")>>) \o <<e>>) \o KeptOf(a)
    <3> DEFINE p == Pre("passed")
               q == Stg("passed")
               k == KeptOf(a)
    <3>1. IsSeq(k)
      BY <2>3
    <3> HIDE DEF p, q, k
    <3>2. ThenTwo(p, q, e, k) = ((<<p>> \o <<q>>) \o <<e>>) \o k
      BY <3>1, RegroupApply
    <3>3. QED
      BY <3>2 DEF p, q, k, ThenTwo
  <2>7. es = (<<Pre("passed")>> \o <<Stg("passed")>>) \o <<e>>
    BY DEF Staged
  <2> HIDE DEF es
  <2>8. QED
    BY <2>5, <2>6, <2>7, Zenon
<1>7. Reached(es, ph, Calm, Past, Two)
  BY <1>2, <1>4, ReachedApplyEnds
<1>8. Past \cap {"recovery-recorded", "results-recorded", "run-completed"} = {}
  BY TypesAre
<1>9. a.phases["recovery"] = "none" /\ a.recovery \in {"not-needed", "unknown"}
  BY <1>2 DEF Begun
<1> HIDE DEF es
<1>10. Accepted(a) <=>
         /\ Some(a, {"failed"}) => v = "failed"
         /\ Some(a, {"unknown"}) =>
              v = "unknown" \/ Some(a, {"conflicted"}) \/ a.recovery = "unknown"
  <2>1. \/ /\ ph = Ph("passed", v, "skipped", "skipped", "skipped", "active")
           /\ v \in {"blocked", "failed", "unknown"}
        \/ /\ ph = Ph("passed", "passed", v, "skipped", "skipped", "active")
           /\ v \in {"failed", "unknown"}
    OBVIOUS
  <2> HIDE DEF ph
  <2>2. QED
    BY <1>1, <1>3, <1>6, <1>7, <1>8, <1>9, <2>1, Told2
<1>11. Refused(a) <=>
         \/ Some(a, {"conflicted"}) /\ a.recovery = "unknown" /\ a.phases["commit"] # "none"
         \/ a.recovery = "not-needed"
            /\ \E f \in Files : a.ops[f] = [status |-> "unknown", reason |-> "OBSERVATION_FAILED"]
         \/ a.phases["commit"] = "unknown" /\ Some(a, {"failed"})
  BY <1>1, <1>9 DEF Refused, Some
<1>12. CASE a.recovery = "unknown" /\ Every(a, {"unknown"})
  BY <1>10, <1>11, <1>12 DEF Some, Every
<1>13. CASE /\ a.recovery = "not-needed" /\ v = "unknown" /\ Every(a, {"unknown"})
            /\ \A f \in Files : a.ops[f].reason # "OBSERVATION_FAILED"
  BY <1>10, <1>11, <1>13 DEF Some, Every
<1>14. CASE a.recovery = "not-needed" /\ v = "failed" /\ Every(a, {"conflicted"})
  BY <1>10, <1>11, <1>14 DEF Some, Every
<1>15. CASE a.recovery = "not-needed" /\ v = "failed" /\ Observed(a)
  <2>1. ~Some(a, {"conflicted"})
    BY <1>15 DEF Some, Observed
  <2>2. Some(a, {"unknown"}) <=> \E f \in Files : a.ops[f] = [status |-> "unknown",
                                                      reason |-> "OBSERVATION_FAILED"]
    BY <1>15 DEF Some, Observed
  <2>3. a.phases["commit"] # "unknown"
    BY <1>2, <1>15 DEF Begun
  <2>4. QED
    BY <1>10, <1>11, <1>15, <2>1, <2>2, <2>3
<1>16. QED
  BY <1>2, <1>12, <1>13, <1>14, <1>15

\* The events of a run that got as far as replacing.
LEMMA ApplyTold ==
  ASSUME NEW a, DOMAIN a.ops = Files, PreOf(a) = "passed", StageOf(a) = "passed",
         ApplyOf(a) # "skipped", NEW e, e = ApplyEvent(ApplyOf(a), Recovers(a), Inspected1(a)),
         NEW i, ObserveOf(a) = <<Obs(i)>>
  PROVE  /\ ~Recovers(a) =>
              Report!ApplyPhaseEvents(a) = ((Staged \o <<e>>) \o <<Obs(i)>>) \o KeptOf(a)
         /\ Recovers(a) =>
              Report!ApplyPhaseEvents(a) =
                (((Staged \o <<e>>) \o <<Rec(a.recovery)>>)
                   \o <<RecEnd(Report!RecoveryPhaseStatus(a.recovery))>>) \o <<Obs(i)>>
<1> DEFINE p == Pre("passed")
           q == Stg("passed")
           o == <<Obs(i)>>
           k == KeptOf(a)
           x == Rec(a.recovery)
           y == RecEnd(Report!RecoveryPhaseStatus(a.recovery))
           w == (<<p>> \o <<q>>) \o <<e>>
<1>1. Report!ApplyPhaseEvents(a) =
        <<p>> \o (((<<q, e>> \o (IF Recovers(a) THEN Report!RecoveryEvents(a) ELSE <<>>)) \o o)
                   \o (IF Recovers(a) THEN <<>> ELSE k))
  BY EventsAre
<1>2. Report!RecoveryEvents(a) = <<x, y>>
  BY DEF Report!RecoveryEvents, Rec, RecEnd
<1>3. IsSeq(o) /\ IsSeq(k) /\ IsSeq(<<>>) /\ IsSeq(<<x, y>>) /\ IsSeq(<<x>>) /\ IsSeq(<<y>>)
      /\ IsSeq(<<p>>) /\ IsSeq(<<q>>) /\ IsSeq(<<e>>)
  BY SeqFacts, KeptSeq, Pairs
<1>4. w = Staged \o <<e>>
  BY DEF Staged
<1>5. IsSeq(w)
  <2>1. IsSeq(<<p>> \o <<q>>)
    BY <1>3, JoinedSeq
  <2>2. QED
    BY <1>3, <2>1, JoinedSeq
<1> HIDE DEF p, q, o, k, x, y
<1>6. CASE ~Recovers(a)
  <2>1. Report!ApplyPhaseEvents(a) = ThenAll(p, q, e, <<>>, o, k)
    BY <1>1, <1>6 DEF ThenAll
  <2>2. ThenAll(p, q, e, <<>>, o, k) = ((w \o <<>>) \o o) \o k
    <3> DEFINE z == <<>>
    <3>1. IsSeq(z)
      BY <1>3
    <3> HIDE DEF z
    <3>2. ThenAll(p, q, e, z, o, k) = ((w \o z) \o o) \o k
      BY <1>3, <3>1, Regroup
    <3>3. QED
      BY <3>2 DEF z
  <2> HIDE DEF w
  <2>3. w \o <<>> = w
    BY <1>5, JoinedNothing
  <2>4. QED
    BY <1>4, <1>6, <2>1, <2>2, <2>3 DEF o, k
<1>7. CASE Recovers(a)
  <2>1. Report!ApplyPhaseEvents(a) = ThenAll(p, q, e, <<x, y>>, o, <<>>)
    BY <1>1, <1>2, <1>7 DEF ThenAll
  <2>2. ThenAll(p, q, e, <<x, y>>, o, <<>>) = ((w \o <<x, y>>) \o o) \o <<>>
    <3> DEFINE z == <<>>
               xy == <<x, y>>
    <3>1. IsSeq(z) /\ IsSeq(xy)
      BY <1>3
    <3> HIDE DEF z, xy
    <3>2. ThenAll(p, q, e, xy, o, z) = ((w \o xy) \o o) \o z
      BY <1>3, <3>1, Regroup
    <3>3. QED
      BY <3>2 DEF z, xy
  <2> HIDE DEF w
  <2>3. w \o <<x, y>> = (w \o <<x>>) \o <<y>>
    <3>1. <<x, y>> = <<x>> \o <<y>>
      BY Pairs
    <3>2. w \o (<<x>> \o <<y>>) = (w \o <<x>>) \o <<y>>
      BY <1>3, <1>5, Joined
    <3>3. QED
      BY <3>1, <3>2
  <2>4. IsSeq(((w \o <<x>>) \o <<y>>) \o o)
    <3>1. IsSeq(w \o <<x>>)
      BY <1>3, <1>5, JoinedSeq
    <3>2. IsSeq((w \o <<x>>) \o <<y>>)
      BY <1>3, <3>1, JoinedSeq
    <3>3. QED
      BY <1>3, <3>2, JoinedSeq
  <2>5. (((w \o <<x>>) \o <<y>>) \o o) \o <<>> = ((w \o <<x>>) \o <<y>>) \o o
    BY <2>4, JoinedNothing
  <2>6. QED
    BY <1>4, <1>7, <2>1, <2>2, <2>3, <2>5 DEF o, x, y
<1>8. QED
  BY <1>6, <1>7

\* Every file was replaced.
LEMMA ToldReplaced ==
  ASSUME NEW a, Plain(a), KindReplaced(a)
  PROVE  Accepted(a) /\ ~Refused(a)
<1>1. /\ 1 \in Files /\ a.attempted = Files /\ a.phases["preflight"] = "passed"
      /\ Begun(a, "passed", "passed", "passed", "passed", "none", "passed")
      /\ \/ a.recovery = "not-needed" /\ Every(a, {"applied"})
         \/ a.recovery = "unknown" /\ Every(a, {"unknown"})
  BY DEF KindReplaced, Files
<1>2. /\ ApplyOf(a) = "passed" /\ Inspected1(a) /\ ~Recovers(a)
      /\ ObserveOf(a) = <<Obs("passed")>>
      /\ Report!FoldedPhaseStatus(a, {"lock", "stage"}) = "passed"
  BY <1>1, FoldedOf
<1>3. PreOf(a) = "passed" /\ StageOf(a) = "passed"
  BY <1>1, <1>2 DEF PreOf, StageOf
<1> DEFINE e == ApplyEvent(ApplyOf(a), Recovers(a), Inspected1(a))
           ph == Ph("passed", "passed", "passed", "skipped", "passed", "active")
           es == (Staged \o <<e>>) \o <<Obs("passed")>>
<1>4. Report!ApplyPhaseEvents(a) = es \o KeptOf(a)
  BY <1>2, <1>3, ApplyTold DEF Plain
<1>17. e = ApplyEvent(ApplyOf(a), Recovers(a), Inspected1(a))
  OBVIOUS
<1> HIDE DEF e
<1>5. Reached(es, ph, Calm, Past, Two \cup {"observe"})
  <2>1. Reached(Staged \o <<e>>, Ph("passed", "passed", "passed", "skipped", "active", "pending"),
                Calm, Past, Two)
    <3>1. Reached(Staged \o <<ApplyEvent("passed", FALSE, TRUE)>>,
                  Ph("passed", "passed", "passed", "skipped", "active", "pending"),
                  Calm, Past, Two)
      BY ReachedApplyEnds
    <3>2. Recovers(a) = FALSE /\ Inspected1(a) = TRUE
      BY <1>2
    <3>3. e = ApplyEvent("passed", FALSE, TRUE)
      BY <1>2, <1>17, <3>2
    <3>4. QED
      BY <3>1, <3>3
  <2>2. "observe" \notin Two /\ "phase-completed" \in Past
    BY TypesAre
  <2>3. QED
    BY <2>1, <2>2, ReachedObserve
<1>6. Fitting(a) /\ Report!Reconciles(a)
  <2>1. \A f \in Files : a.ops[f].status \in {"applied", "unknown"}
    BY <1>1 DEF Every
  <2>2. a.phases["recovery"] = "none"
    BY <1>1 DEF Begun
  <2>3. \A f \in Files : f \in a.attempted
    BY <1>1
  <2>4. QED
    BY <2>1, <2>2, <2>3, SumUp
<1>7. ph["complete"] = "active" /\ ph["recover"] = "skipped"
  BY PhIs
<1>8. WentWell(ph, Calm)
  <2>1. \A p \in Report!PhaseNames : ph[p] \in {"passed", "skipped", "active"}
    BY DEF Ph, Report!PhaseNames, Report!WritePhases
  <2>2. \A p \in {"discover", "resolve", "review"} : ph[p] = "passed"
    BY PhIs
  <2>3. QED
    BY <2>1, <2>2, CalmIs DEF WentWell
<1>9. Past \cap {"recovery-recorded", "results-recorded", "run-completed"} = {}
  BY TypesAre
<1>10. Report!WriteFailed(a) \/ KeptOf(a) = <<>>
  <2>1. CASE a.recovery = "not-needed"
    BY <2>1, KeptWhen
  <2>2. CASE Every(a, {"unknown"})
    <3>1. a.ops[1].status = "unknown"
      BY <1>1, <2>2 DEF Every
    <3>2. QED
      BY <1>1, <3>1, BlockedFails
  <2>3. QED
    BY <1>1, <2>1, <2>2
<1>11. a.recovery = "not-needed" => KeptOf(a) = <<>> /\ FitsIn(ph, Calm, FALSE, a)
  <2>1. Every(a, {"unknown"}) /\ Every(a, {"applied"}) => FALSE
    BY <1>1 DEF Every
  <2>2. a.recovery = "not-needed" => Every(a, {"applied"})
    BY <1>1
  <2>3. QED
    BY <1>1, <2>2, KeptWhen, FitsReplaced
<1>12. a.recovery # "not-needed" => KeptOf(a) = <<Evidence1>> /\ FitsIn(ph, Unclear, TRUE, a)
  BY <1>1, KeptWhen, FitsReplaced
<1>13. <<>> # <<Evidence1>>
  OBVIOUS
<1> HIDE DEF es, ph
<1>14. \/ KeptOf(a) = <<>> /\ (Accepted(a) <=> FitsIn(ph, Calm, FALSE, a))
       \/ KeptOf(a) = <<Evidence1>> /\ (Accepted(a) <=> FitsIn(ph, Unclear, TRUE, a))
  BY <1>4, <1>5, <1>6, <1>7, <1>8, <1>9, <1>10, ToldKept
<1>15. ~Refused(a)
  <2>1. \A f \in Files : a.ops[f].status \notin {"conflicted", "failed"}
    BY <1>1 DEF Every
  <2>2. a.attempted # {}
    BY <1>1
  <2>3. QED
    BY <2>1, <2>2 DEF Refused
<1>16. QED
  BY <1>11, <1>12, <1>13, <1>14, <1>15

\* Turned back.
LEMMA ToldRecovered ==
  ASSUME NEW a, Plain(a), KindRecovered(a)
  PROVE  Accepted(a) <=> ~Refused(a)
<1>1. /\ a.attempted # {} /\ a.phases["preflight"] = "passed"
      /\ a.recovery \in {"completed", "partial", "unknown"} /\ a.attempted \subseteq Files
  BY DEF KindRecovered, Plain
<1>2. PICK c \in {"passed", "failed", "unknown"}, i \in {"passed", "unknown"} :
       /\ Begun(a, "passed", "passed", "passed", c, Report!RecoveryPhaseStatus(a.recovery), i)
       /\ i = "unknown" => Some(a, {"unknown"})
       /\ a.recovery = "completed" => c # "passed" /\ i = "passed"
       /\ a.recovery = "unknown" => Every(a, {"unknown"}) \/ c # "passed"
  BY DEF KindRecovered
<1>3. \A f \in Files :
       /\ a.ops[f].status \in {"conflicted", "reverted", "failed", "unknown"}
       /\ a.ops[f].status = "conflicted" =>
            /\ f \notin a.attempted /\ a.ops[f].reason \in Conflict
            /\ a.phases["commit"] = "failed"
       /\ a.ops[f].status = "reverted" => f \in a.attempted
       /\ a.recovery = "completed" =>
            /\ a.ops[f].status # "unknown"
            /\ f \in a.attempted => a.ops[f].status = "reverted"
  BY DEF KindRecovered
<1>4. Report!RecoveryPhaseStatus(a.recovery) \in {"passed", "failed", "unknown"}
  BY DEF Report!RecoveryPhaseStatus
<1> DEFINE rec == a.recovery
           r == Report!RecoveryPhaseStatus(a.recovery)
           e == ApplyEvent(ApplyOf(a), Recovers(a), Inspected1(a))
           ph == Ph("passed", "passed", c, Report!RecoveryPhaseStatus(a.recovery), i, "active")
           es == (((Staged \o <<e>>) \o <<Rec(a.recovery)>>)
                   \o <<RecEnd(Report!RecoveryPhaseStatus(a.recovery))>>) \o <<Obs(i)>>
           rcv == RecoveryOf(TRUE, a.recovery)
<1>5. /\ ApplyOf(a) = c /\ Inspected1(a) /\ Recovers(a)
      /\ ObserveOf(a) = <<Obs(i)>>
      /\ Report!FoldedPhaseStatus(a, {"lock", "stage"}) = "passed"
  <2> HIDE DEF r
  <2>1. Begun(a, "passed", "passed", "passed", c, r, i) /\ r # "none"
    BY <1>2, <1>4 DEF r
  <2>2. QED
    BY <2>1, FoldedOf
<1>6. PreOf(a) = "passed" /\ StageOf(a) = "passed"
  BY <1>1, <1>5 DEF PreOf, StageOf
<1>7. Report!ApplyPhaseEvents(a) = es
  BY <1>5, <1>6, ApplyTold DEF Plain
<1>8. e = ApplyEvent(c, TRUE, TRUE)
  <2>1. Recovers(a) = TRUE /\ Inspected1(a) = TRUE
    BY <1>5
  <2>2. QED
    BY <1>5, <2>1
<1> HIDE DEF e
<1>9. Reached(es, ph, rcv, After3, Two \cup {"recover"} \cup {"observe"})
  <2>1. Reached(Staged \o <<ApplyEvent(c, TRUE, TRUE)>>,
                Ph("passed", "passed", c, "active", "pending", "pending"), Calm, Past, Two)
    BY ReachedApplyEnds
  <2>2. Reached(Staged \o <<e>>,
                Ph("passed", "passed", c, "active", "pending", "pending"), Calm, Past, Two)
    BY <1>8, <2>1
  <2> DEFINE before == Staged \o <<e>>
             more == (before \o <<Rec(a.recovery)>>)
                       \o <<RecEnd(Report!RecoveryPhaseStatus(a.recovery))>>
             done == Two \cup {"recover"}
  <2> HIDE DEF before
  <2>3. Reached(more, Ph("passed", "passed", c, r, "active", "pending"), rcv, After3, done)
    BY <1>1, <2>2, ReachedRecovery DEF before
  <2>4. "observe" \notin done /\ "phase-completed" \in After3
    BY TypesAre
  <2> HIDE DEF more, done, rcv
  <2>5. Reached(more \o <<Obs(i)>>, Ph("passed", "passed", c, r, i, "active"), rcv, After3,
                done \cup {"observe"})
    BY <2>3, <2>4, ReachedObserve
  <2>6. QED
    BY <2>5 DEF more, before, done
<1>10. Fitting(a) /\ Report!Reconciles(a)
  <2>1. a.recovery # "not-needed"
    BY <1>1
  <2>2. QED
    BY <1>3, <2>1, SumUp
<1>11. PICK f \in Files : f \in a.attempted
  BY <1>1
<1>12. Report!WriteFailed(a)
  BY <1>3, BlockedFails
<1>13. ph["complete"] = "active"
  BY PhIs
<1>14. /\ "recovery-recorded" \in After3
       /\ "results-recorded" \notin After3 /\ "run-completed" \notin After3
  BY TypesAre
<1> DEFINE done == Two \cup {"recover"} \cup {"observe"}
<1>15. Accepted(a) <=> FitsIn(ph, rcv, TRUE, a)
  <2> HIDE DEF es, ph, rcv, done
  <2>1. Reached(Report!ApplyPhaseEvents(a), ph, rcv, After3, done)
    BY <1>7, <1>9 DEF done
  <2>2. Accepted(a) <=> FitsIn(ph, rcv, "recovery-recorded" \in After3, a)
    BY <1>10, <1>12, <1>13, <1>14, <2>1, ToldIs
  <2>3. ("recovery-recorded" \in After3) = TRUE
    BY <1>14
  <2>4. QED
    BY <2>2, <2>3
<1>16. ~Some(a, {"applied"}) /\ Some(a, {"reverted", "failed", "unknown"})
  <2>1. a.ops[f].status \in {"reverted", "failed", "unknown"}
    BY <1>3, <1>11
  <2>2. QED
    BY <1>3, <2>1 DEF Some
<1>17. a.recovery = "completed" => ~Some(a, {"unknown"})
  BY <1>3 DEF Some
<1>18. FitsIn(ph, rcv, TRUE, a) <=>
           /\ Some(a, {"conflicted"}) => Excused(a, rcv)
           /\ Some(a, {"failed"}) => c = "failed" \/ rec = "partial"
           /\ Some(a, {"unknown"}) =>
                c = "unknown" \/ i = "unknown" \/ Some(a, {"conflicted"})
                \/ rec \in {"partial", "unknown"}
  <2>1. TurnedBack(a, c, i, rec, ph, rcv)
    BY <1>1, <1>2, <1>16, <1>17 DEF TurnedBack
  <2> HIDE DEF ph, rcv, rec
  <2>2. FitsIn(ph, rcv, TRUE, a) <=> FitsAfter(a, c, i, rec, rcv)
    BY <2>1, FitsRecovered
  <2>3. QED
    BY <2>2 DEF FitsAfter
<1>19. Some(a, {"conflicted"}) => (Excused(a, rcv) <=> a.recovery = "completed")
  <2>1. rcv.status = a.recovery
    BY CalmIs
  <2>2. a.recovery = "completed" => Some(a, {"reverted"})
    BY <1>3, <1>11 DEF Some
  <2>3. \A g \in Files : Are(a, g, "conflicted") => a.ops[g].reason \in Report!Drift
    BY <1>3 DEF Are, Report!Drift, Conflict
  <2> HIDE DEF rcv
  <2>4. QED
    BY <2>1, <2>2, <2>3 DEF Excused
<1>20. a.phases["commit"] = c
  BY <1>2 DEF Begun
<1>21. Refused(a) <=>
         \/ Some(a, {"conflicted"}) /\ a.recovery # "completed"
         \/ c = "unknown" /\ a.recovery # "partial" /\ Some(a, {"failed"})
  <2>1. a.recovery \in {"partial", "unknown"} <=> a.recovery # "completed"
    BY <1>1
  <2>2. c # "none" /\ a.recovery # "not-needed"
    BY <1>1
  <2>3. QED
    BY <1>20, <2>1, <2>2 DEF Refused, Some
<1>22. Some(a, {"failed"}) /\ a.recovery # "partial" => c # "passed"
  <2>1. a.recovery = "unknown" /\ Every(a, {"unknown"}) => ~Some(a, {"failed"})
    BY DEF Some, Every
  <2>2. QED
    BY <1>1, <1>2, <2>1
<1>23. Some(a, {"unknown"}) => rec \in {"partial", "unknown"}
  BY <1>1, <1>17
<1> HIDE DEF ph, rcv
<1>24. QED
  BY <1>15, <1>18, <1>19, <1>21, <1>22, <1>23

\* The record refuses what it is said to refuse, and nothing else.
LEMMA ToldExactly ==
  ASSUME NEW a, Known(a)
  PROVE  Accepted(a) <=> ~Refused(a)
BY ToldEmpty, ToldBarred, ToldUnstaged, ToldUntried, ToldReplaced, ToldRecovered DEF Known

----------------------------------------------------------------------------
(* What the course of a run tells of its answer                          *)

\* What the commit is past stays tried.
LEMMA RenamedStep ==
  ASSUME TypeOK, WellPlaced, RenamedSoFar
  PROVE  [Next]_vars => RenamedSoFar'
<1> USE DEF fsVars, jnVars, ansVars, envVars
<1>1. ASSUME AnswerUnchanged PROVE RenamedSoFar'
  BY <1>1
     DEF AnswerUnchanged, Answer, RenamedSoFar, Renamed, Committing, WellPlaced, OnTarget,
         Cleaning, Ended, Unlocked, TypeOK, Files, External
<1>2. ASSUME Refuse PROVE RenamedSoFar'
  BY <1>2
     DEF Refuse, Answer, RenamedSoFar, Renamed, Committing, WellPlaced, OnTarget, Cleaning,
         Ended, Unlocked, TypeOK, Files, External
<1>3. ASSUME TakeLock PROVE RenamedSoFar'
  BY <1>3
     DEF TakeLock, RenamedSoFar, Renamed, Committing, WellPlaced, OnTarget, Cleaning, Ended,
         Unlocked, TypeOK, Files, External
<1>4. ASSUME PrepareManagerFails PROVE RenamedSoFar'
  BY <1>4
     DEF PrepareManagerFails, Exit, RenamedSoFar, Renamed, Committing, WellPlaced, OnTarget,
         Cleaning, Ended, Unlocked, TypeOK, Files, External
<1>5. ASSUME StageTarget PROVE RenamedSoFar'
  BY <1>5
     DEF StageTarget, StagingFails, Exit, RenamedSoFar, Renamed, Committing, WellPlaced,
         OnTarget, Cleaning, Ended, Unlocked, TypeOK, Files, External
<1>6. ASSUME CreateJournal PROVE RenamedSoFar'
  BY <1>6
     DEF CreateJournal, StagingFails, Exit, RenamedSoFar, Renamed, Committing, WellPlaced,
         OnTarget, Cleaning, Ended, Unlocked, TypeOK, Files, External
<1>7. ASSUME PersistStaged PROVE RenamedSoFar'
  BY <1>7
     DEF PersistStaged, StagingFails, Exit, RenamedSoFar, Renamed, Committing, WellPlaced,
         OnTarget, Cleaning, Ended, Unlocked, TypeOK, Files, External
<1>8. ASSUME Precommit PROVE RenamedSoFar'
  BY <1>8
     DEF Precommit, Exit, RenamedSoFar, Renamed, Committing, WellPlaced, OnTarget, Cleaning,
         Ended, Unlocked, TypeOK, Files, External
<1>9. ASSUME PersistCommitting PROVE RenamedSoFar'
  <2>1. CASE pc' = "check" /\ idx' = 1 /\ UNCHANGED exit
    <3>1. pc = "persist-committing" /\ exit = "none"
      BY <1>9 DEF PersistCommitting, WellPlaced, Cleaning, Ended
    <3>2. Renamed(idx - 1)'
      BY <2>1 DEF Renamed
    <3>3. QED
      BY <2>1, <3>1, <3>2 DEF RenamedSoFar, Committing
  <2>2. CASE pc' \in {"fin-check", "recovering"} /\ exit' # "success"
    BY <2>2 DEF RenamedSoFar, Committing
  <2>3. QED
    BY <1>9, <2>1, <2>2
       DEF PersistCommitting, CommitFails, Exit, WellPlaced, Cleaning, Ended
<1>10. ASSUME CheckTarget PROVE RenamedSoFar'
  BY <1>10
     DEF CheckTarget, CommitFails, Exit, RenamedSoFar, Renamed, Committing, WellPlaced,
         OnTarget, Cleaning, Ended, Unlocked, TypeOK, Files, External
<1>11. ASSUME PersistReplacing PROVE RenamedSoFar'
  BY <1>11
     DEF PersistReplacing, CommitFails, Exit, RenamedSoFar, Renamed, Committing, WellPlaced,
         OnTarget, Cleaning, Ended, Unlocked, TypeOK, Files, External
<1>12. ASSUME FinalCheck PROVE RenamedSoFar'
  BY <1>12
     DEF FinalCheck, CommitFails, Exit, RenamedSoFar, Renamed, Committing, WellPlaced,
         OnTarget, Cleaning, Ended, Unlocked, TypeOK, Files, External
<1>13. ASSUME Replace PROVE RenamedSoFar'
  <2>1. pc = "replace" /\ exit = "none" /\ idx \in 1..active /\ Renamed(idx - 1)
    BY <1>13 DEF Replace, WellPlaced, OnTarget, Cleaning, Ended, RenamedSoFar, Committing
  <2>2. CASE pc' = "settle-replace" /\ UNCHANGED exit
    <3>1. /\ attempted' = attempted \cup {idx} /\ UNCHANGED idx
          /\ file'[idx] \in {"new", "ext"} /\ \A f \in Files : f # idx => file'[f] = file[f]
      BY <1>13, <2>1, <2>2 DEF Replace, CommitFails, Exit, TypeOK, Files
    <3>2. \A f \in 1..idx : f \in Files /\ (f # idx => f \in 1..(idx - 1))
      BY <2>1 DEF TypeOK, Files
    <3>3. Renamed(idx)'
      BY <2>1, <3>1, <3>2 DEF Renamed, External
    <3>4. QED
      BY <2>1, <2>2, <3>3 DEF RenamedSoFar, Committing
  <2>3. CASE pc' \in {"fin-check", "recovering"} /\ exit' # "success"
    BY <2>3 DEF RenamedSoFar, Committing
  <2>4. QED
    BY <1>13, <2>1, <2>2, <2>3 DEF Replace, CommitFails, Exit
<1>14. ASSUME SettleReplace PROVE RenamedSoFar'
  <2>1. pc = "settle-replace" /\ exit = "none" /\ idx \in Nat /\ Renamed(idx)
    BY <1>14 DEF SettleReplace, WellPlaced, Cleaning, Ended, RenamedSoFar, TypeOK
  <2>2. CASE pc' = "check" /\ idx' = idx + 1 /\ UNCHANGED exit
    <3>1. idx' - 1 = idx /\ UNCHANGED <<file, attempted>>
      BY <1>14, <2>1, <2>2 DEF SettleReplace
    <3>2. QED
      BY <2>1, <2>2, <3>1 DEF RenamedSoFar, Renamed, Committing
  <2>3. CASE pc' \in {"fin-check", "recovering"} /\ exit' # "success"
    BY <2>3 DEF RenamedSoFar, Committing
  <2>4. QED
    BY <1>14, <2>1, <2>2, <2>3 DEF SettleReplace, CommitFails, Exit
<1>15. ASSUME RunManager PROVE RenamedSoFar'
  BY <1>15
     DEF RunManager, RenamedSoFar, Renamed, Committing, WellPlaced, OnTarget, Cleaning, Ended,
         Unlocked, TypeOK, Files, External
<1>16. ASSUME Observe PROVE RenamedSoFar'
  BY <1>16
     DEF Observe, CommitFails, Exit, RenamedSoFar, Renamed, Committing, WellPlaced, OnTarget,
         Cleaning, Ended, Unlocked, TypeOK, Files, External
<1>17. ASSUME Recovering PROVE RenamedSoFar'
  BY <1>17
     DEF Recovering, RenamedSoFar, Renamed, Committing, WellPlaced, OnTarget, Cleaning, Ended,
         Unlocked, TypeOK, Files, External
<1>18. ASSUME NoteFailure PROVE RenamedSoFar'
  BY <1>18
     DEF NoteFailure, RenamedSoFar, Renamed, Committing, WellPlaced, OnTarget, Cleaning, Ended,
         Unlocked, TypeOK, Files, External
<1>19. ASSUME RecoverTarget PROVE RenamedSoFar'
  BY <1>19
     DEF RecoverTarget, RecoverFails, RenamedSoFar, Renamed, Committing, WellPlaced, OnTarget,
         Cleaning, Ended, Unlocked, TypeOK, Files, External
<1>20. ASSUME Restore PROVE RenamedSoFar'
  BY <1>20
     DEF Restore, RecoverFails, RenamedSoFar, Renamed, Committing, WellPlaced, OnTarget,
         Cleaning, Ended, Unlocked, TypeOK, Files, External
<1>21. ASSUME SettleRestore PROVE RenamedSoFar'
  BY <1>21
     DEF SettleRestore, RecoverFails, RenamedSoFar, Renamed, Committing, WellPlaced, OnTarget,
         Cleaning, Ended, Unlocked, TypeOK, Files, External
<1>22. ASSUME FinishRecovery PROVE RenamedSoFar'
  BY <1>22
     DEF FinishRecovery, RenamedSoFar, Renamed, Committing, WellPlaced, OnTarget, Cleaning,
         Ended, Unlocked, TypeOK, Files, External
<1>23. ASSUME Inspect PROVE RenamedSoFar'
  BY <1>23
     DEF Inspect, Answer, Exit, RenamedSoFar, Renamed, Committing, WellPlaced, OnTarget,
         Cleaning, Ended, Unlocked, TypeOK, Files, External
<1>24. ASSUME FinCheck PROVE RenamedSoFar'
  BY <1>24
     DEF FinCheck, RenamedSoFar, Renamed, Committing, WellPlaced, OnTarget, Cleaning, Ended,
         Unlocked, TypeOK, Files, External
<1>25. ASSUME FinTemp PROVE RenamedSoFar'
  BY <1>25
     DEF FinTemp, RenamedSoFar, Renamed, Committing, WellPlaced, OnTarget, Cleaning, Ended,
         Unlocked, TypeOK, Files, External
<1>26. ASSUME FinJournal PROVE RenamedSoFar'
  BY <1>26
     DEF FinJournal, RenamedSoFar, Renamed, Committing, WellPlaced, OnTarget, Cleaning, Ended,
         Unlocked, TypeOK, Files, External
<1>27. ASSUME FinRelease PROVE RenamedSoFar'
  BY <1>27
     DEF FinRelease, RenamedSoFar, Renamed, Committing, WellPlaced, OnTarget, Cleaning, Ended,
         Unlocked, TypeOK, Files, External
<1>28. ASSUME AnswerCleaned PROVE RenamedSoFar'
  BY <1>28
     DEF AnswerCleaned, Answer, RenamedSoFar, Renamed, Committing, WellPlaced, OnTarget,
         Cleaning, Ended, Unlocked, TypeOK, Files, External
<1>29. ASSUME Crash PROVE RenamedSoFar'
  BY <1>29
     DEF Crash, RenamedSoFar, Renamed, Committing, WellPlaced, OnTarget, Cleaning, Ended,
         Unlocked, TypeOK, Files, External
<1>30. ASSUME NEW f \in Files, Edit(f) PROVE RenamedSoFar'
  BY <1>30
     DEF Edit, Others, RenamedSoFar, Renamed, Committing, WellPlaced, OnTarget, Cleaning,
         Ended, Unlocked, TypeOK, Files, External
<1>31. ASSUME NEW t \in Files, Tamper(t) PROVE RenamedSoFar'
  BY <1>31
     DEF Tamper, Others, RenamedSoFar, Renamed, Committing, WellPlaced, OnTarget, Cleaning,
         Ended, Unlocked, TypeOK, Files, External
<1>32. ASSUME MoveLock PROVE RenamedSoFar'
  BY <1>32
     DEF MoveLock, Others, RenamedSoFar, Renamed, Committing, WellPlaced, OnTarget, Cleaning,
         Ended, Unlocked, TypeOK, Files, External
<1>33. ASSUME UNCHANGED vars PROVE RenamedSoFar'
  BY <1>33
     DEF vars, RenamedSoFar, Renamed, Committing, WellPlaced, OnTarget, Cleaning, Ended,
         Unlocked, TypeOK, Files, External
<1>34. QED
  BY <1>1, <1>2, <1>3, <1>4, <1>5, <1>6, <1>7, <1>8, <1>9, <1>10, <1>11, <1>12, <1>13, <1>14,
     <1>15, <1>16, <1>17, <1>18, <1>19, <1>20, <1>21, <1>22, <1>23, <1>24, <1>25, <1>26, <1>27,
     <1>28, <1>29, <1>30, <1>31, <1>32, <1>33
     DEF Next, Apply, Begin, Prepare, Commit, Recover, CleanUp

\* A run that replaced every file and turned back stays short of a completed recovery.
LEMMA NotBackStep ==
  ASSUME TypeOK, WellPlaced, JournalFirst, PhasesSay, TriedBeforeRecovery, RenamedSoFar, NotBack
  PROVE  [Next]_vars => NotBack'
<1> USE DEF fsVars, jnVars, ansVars, envVars
<1>1. ASSUME AnswerUnchanged PROVE NotBack'
  BY <1>1
     DEF AnswerUnchanged, Answer, NotBack, Bad, TurningBack, Restoring, WellPlaced, OnTarget,
         Cleaning, Ended, Unlocked, TypeOK, PhaseName
<1>2. ASSUME Refuse PROVE NotBack'
  BY <1>2
     DEF Refuse, Answer, NotBack, Bad, TurningBack, Restoring, WellPlaced, OnTarget, Cleaning,
         Ended, Unlocked, TypeOK, PhaseName
<1>3. ASSUME TakeLock PROVE NotBack'
  BY <1>3
     DEF TakeLock, NotBack, Bad, TurningBack, Restoring, WellPlaced, OnTarget, Cleaning, Ended,
         Unlocked, TypeOK, PhaseName
<1>4. ASSUME PrepareManagerFails PROVE NotBack'
  BY <1>4
     DEF PrepareManagerFails, Exit, PhasesSay, Forward, Early, Unrecorded, Unstaged, Push,
         Verdict, NotBack, Bad, TurningBack, Restoring, WellPlaced, OnTarget, Cleaning, Ended,
         Unlocked, TypeOK, PhaseName
<1>5. ASSUME StageTarget PROVE NotBack'
  BY <1>5
     DEF StageTarget, StagingFails, Exit, PhasesSay, Forward, Early, Unrecorded, Unstaged,
         Push, Verdict, NotBack, Bad, TurningBack, Restoring, WellPlaced, OnTarget, Cleaning,
         Ended, Unlocked, TypeOK, PhaseName
<1>6. ASSUME CreateJournal PROVE NotBack'
  BY <1>6
     DEF CreateJournal, StagingFails, Exit, PhasesSay, Forward, Early, Unrecorded, Unstaged,
         Push, Verdict, NotBack, Bad, TurningBack, Restoring, WellPlaced, OnTarget, Cleaning,
         Ended, Unlocked, TypeOK, PhaseName
<1>7. ASSUME PersistStaged PROVE NotBack'
  BY <1>7
     DEF PersistStaged, StagingFails, Exit, PhasesSay, Forward, Early, Unrecorded, Unstaged,
         Push, Verdict, NotBack, Bad, TurningBack, Restoring, WellPlaced, OnTarget, Cleaning,
         Ended, Unlocked, TypeOK, PhaseName
<1>8. ASSUME Precommit PROVE NotBack'
  BY <1>8
     DEF Precommit, Exit, PhasesSay, Forward, Early, Unrecorded, Unstaged, Push, Verdict,
         NotBack, Bad, TurningBack, Restoring, WellPlaced, OnTarget, Cleaning, Ended, Unlocked,
         TypeOK, PhaseName
<1>9. ASSUME PersistCommitting PROVE NotBack'
  BY <1>9
     DEF PersistCommitting, CommitFails, Exit, PhasesSay, Forward, Early, Unrecorded, Unstaged,
         Push, Verdict, NotBack, Bad, TurningBack, Restoring, WellPlaced, OnTarget, Cleaning,
         Ended, Unlocked, TypeOK, PhaseName
<1>10. ASSUME CheckTarget PROVE NotBack'
  BY <1>10
     DEF CheckTarget, CommitFails, Exit, PhasesSay, Forward, Early, Unrecorded, Unstaged, Push,
         Verdict, NotBack, Bad, TurningBack, Restoring, WellPlaced, OnTarget, Cleaning, Ended,
         Unlocked, TypeOK, PhaseName
<1>11. ASSUME PersistReplacing PROVE NotBack'
  BY <1>11
     DEF PersistReplacing, CommitFails, Exit, PhasesSay, Forward, Early, Unrecorded, Unstaged,
         Push, Verdict, NotBack, Bad, TurningBack, Restoring, WellPlaced, OnTarget, Cleaning,
         Ended, Unlocked, TypeOK, PhaseName
<1>12. ASSUME FinalCheck PROVE NotBack'
  BY <1>12
     DEF FinalCheck, CommitFails, Exit, PhasesSay, Forward, Early, Unrecorded, Unstaged, Push,
         Verdict, NotBack, Bad, TurningBack, Restoring, WellPlaced, OnTarget, Cleaning, Ended,
         Unlocked, TypeOK, PhaseName
<1>13. ASSUME Replace PROVE NotBack'
  BY <1>13
     DEF Replace, CommitFails, Exit, PhasesSay, Forward, Early, Unrecorded, Unstaged, Push,
         Verdict, NotBack, Bad, TurningBack, Restoring, WellPlaced, OnTarget, Cleaning, Ended,
         Unlocked, TypeOK, PhaseName
<1>14. ASSUME SettleReplace PROVE NotBack'
  BY <1>14
     DEF SettleReplace, CommitFails, Exit, PhasesSay, Forward, Early, Unrecorded, Unstaged,
         Push, Verdict, NotBack, Bad, TurningBack, Restoring, WellPlaced, OnTarget, Cleaning,
         Ended, Unlocked, TypeOK, PhaseName
<1>15. ASSUME RunManager PROVE NotBack'
  <2>1. pc = "check" /\ exit = "none" /\ UNCHANGED exit
    BY <1>15 DEF RunManager, WellPlaced, Cleaning, Ended
  <2>2. CASE pc' = "observe"
    BY <2>1, <2>2 DEF NotBack, TurningBack, Restoring
  <2>3. CASE \E unknown \in BOOLEAN :
               phases' = [phases EXCEPT !["commit"] = "passed", !["manager"] = Verdict(unknown)]
    BY <2>3 DEF NotBack, Verdict, PhaseName, TypeOK
  <2>4. QED
    BY <1>15, <2>2, <2>3 DEF RunManager
<1>16. ASSUME Observe PROVE NotBack'
  <2>1. pc = "observe" /\ exit = "none" /\ UNCHANGED <<active, file, attempted>>
    BY <1>16 DEF Observe, WellPlaced, Cleaning, Ended
  <2>2. CASE exit' \in {"success", "zero"} /\ pc' = "fin-check"
    BY <2>2 DEF NotBack, TurningBack, Restoring
  <2>3. CASE /\ \E f \in Files : SuccessOutcome(f).status = "unknown"
             /\ pc' = "recovering" /\ UNCHANGED exit
    <3>1. Renamed(active)
      BY <2>1 DEF RenamedSoFar
    <3>2. ASSUME active = N
          PROVE  (\E f \in 1..active : file[f] \in External) /\ \A f \in 1..active : f \in attempted
      <4>1. PICK f \in Files : SuccessOutcome(f).status = "unknown"
        BY <2>3
      <4>2. f \in 1..active /\ f <= active
        BY <3>2, EngineAssumption DEF Files
      <4>3. file[f] # "new"
        BY <4>1, <4>2 DEF SuccessOutcome
      <4>4. QED
        BY <3>1, <4>2, <4>3 DEF Renamed
    <3>3. QED
      BY <2>1, <2>3, <3>2 DEF NotBack
  <2>4. QED
    <3> DEFINE ops == [f \in Files |-> SuccessOutcome(f)]
    <3>1. \/ Exit("success")
          \/ /\ \E f \in Files : ops[f].status = "unknown"
             /\ CommitFails("COMMIT_FAILED", TRUE, 0, attempted)
      BY <1>16 DEF Observe
    <3>2. QED
      BY <2>2, <2>3, <3>1 DEF CommitFails, Exit
<1>17. ASSUME Recovering PROVE NotBack'
  BY <1>17
     DEF Recovering, NotBack, Bad, TurningBack, Restoring, WellPlaced, OnTarget, Cleaning,
         Ended, Unlocked, TypeOK, PhaseName
<1>18. ASSUME NoteFailure PROVE NotBack'
  BY <1>18
     DEF NoteFailure, NotBack, Bad, TurningBack, Restoring, WellPlaced, OnTarget, Cleaning,
         Ended, Unlocked, TypeOK, PhaseName
<1>19. ASSUME RecoverTarget PROVE NotBack'
  <2>1. pc = "recover" /\ exit = "none" /\ idx \in 1..active /\ idx \in Nat
    BY <1>19 DEF RecoverTarget, WellPlaced, Cleaning, Ended, TypeOK
  <2>2. UNCHANGED <<active, file, attempted, phases, exit>>
    BY <1>19 DEF RecoverTarget
  <2>3. CASE pc' = "note-failure"
    BY <1>19, <2>1, <2>2, <2>3 DEF RecoverTarget, RecoverFails, NotBack, TurningBack, Restoring
  <2>4. CASE pc' # "note-failure"
    <3>1. ASSUME active = N, phases["manager"] = "none", phases["commit"] = "passed"
          PROVE  (\A f \in 1..active : f \in attempted) /\ Bad(idx + 1)
      <4>1. (\A f \in 1..active : f \in attempted) /\ Bad(idx)
        BY <2>1, <3>1 DEF NotBack, TurningBack, Restoring
      <4>2. file[idx] \notin External
        BY <1>19, <2>1, <2>4, <4>1 DEF RecoverTarget, RecoverFails, External
      <4>3. QED
        BY <2>1, <4>1, <4>2 DEF Bad, TypeOK
    <3>2. /\ UNCHANGED recovery
          /\ \/ pc' = "recover" /\ idx' = idx + 1
             \/ pc' = "restore" /\ idx' = idx
      BY <1>19, <2>1, <2>4 DEF RecoverTarget, RecoverFails
    <3>3. QED
      BY <2>1, <2>2, <3>1, <3>2 DEF NotBack, Bad
  <2>5. QED
    BY <2>3, <2>4
<1>20. ASSUME Restore PROVE NotBack'
  BY <1>20
     DEF Restore, RecoverFails, NotBack, Bad, TurningBack, Restoring, WellPlaced, OnTarget,
         Cleaning, Ended, Unlocked, TypeOK, PhaseName
<1>21. ASSUME SettleRestore PROVE NotBack'
  BY <1>21
     DEF SettleRestore, RecoverFails, NotBack, Bad, TurningBack, Restoring, WellPlaced,
         OnTarget, Cleaning, Ended, Unlocked, TypeOK, PhaseName
<1>22. ASSUME FinishRecovery PROVE NotBack'
  <2>1. /\ pc = "recover" /\ exit = "none" /\ idx > active /\ idx \in Nat /\ active \in Nat
        /\ pc' = "inspect" /\ UNCHANGED <<active, attempted, exit>>
    BY <1>22 DEF FinishRecovery, WellPlaced, Cleaning, Ended, TypeOK
  <2>2. phases'["commit"] = phases["commit"] /\ phases'["manager"] = phases["manager"]
    BY <1>22 DEF FinishRecovery, Push, TypeOK, PhaseName
  <2>3. Bad(idx) => recovery \in {"partial", "unknown"}
    BY <2>1 DEF Bad
  <2>4. recovery \in {"partial", "unknown"} => UNCHANGED recovery
    BY <1>22 DEF FinishRecovery
  <2>5. QED
    BY <2>1, <2>2, <2>3, <2>4 DEF NotBack, TurningBack, Restoring
<1>23. ASSUME Inspect PROVE NotBack'
  <2>1. pc = "inspect" /\ exit = "none"
    BY <1>23 DEF Inspect, WellPlaced, Cleaning, Ended
  <2>2. CASE pc' = "done" /\ UNCHANGED exit
    BY <2>1, <2>2 DEF NotBack, TurningBack, Restoring
  <2>3. CASE recovery = "completed" /\ exit' = "reverted" /\ pc' = "fin-check"
    <3>1. ~(active = N /\ phases["manager"] = "none" /\ phases["commit"] = "passed")
      BY <2>1, <2>3 DEF NotBack, TurningBack, Restoring
    <3>2. /\ UNCHANGED active
          /\ phases'["commit"] = phases["commit"] /\ phases'["manager"] = phases["manager"]
      <4>1. \E s \in PhaseStatus : phases' = [phases EXCEPT !["inspect"] = s]
        BY <1>23, <2>3 DEF Inspect, Push, Answer, Exit, PhaseStatus
      <4>2. QED
        BY <1>23, <4>1 DEF Inspect, TypeOK, PhaseName
    <3>3. QED
      BY <3>1, <3>2 DEF NotBack
  <2>4. QED
    BY <1>23, <2>2, <2>3 DEF Inspect, Answer, Exit
<1>24. ASSUME FinCheck PROVE NotBack'
  BY <1>24
     DEF FinCheck, NotBack, Bad, TurningBack, Restoring, WellPlaced, OnTarget, Cleaning, Ended,
         Unlocked, TypeOK, PhaseName
<1>25. ASSUME FinTemp PROVE NotBack'
  BY <1>25
     DEF FinTemp, NotBack, Bad, TurningBack, Restoring, WellPlaced, OnTarget, Cleaning, Ended,
         Unlocked, TypeOK, PhaseName
<1>26. ASSUME FinJournal PROVE NotBack'
  BY <1>26
     DEF FinJournal, NotBack, Bad, TurningBack, Restoring, WellPlaced, OnTarget, Cleaning,
         Ended, Unlocked, TypeOK, PhaseName
<1>27. ASSUME FinRelease PROVE NotBack'
  BY <1>27
     DEF FinRelease, NotBack, Bad, TurningBack, Restoring, WellPlaced, OnTarget, Cleaning,
         Ended, Unlocked, TypeOK, PhaseName
<1>28. ASSUME AnswerCleaned PROVE NotBack'
  BY <1>28
     DEF AnswerCleaned, Answer, NotBack, Bad, TurningBack, Restoring, WellPlaced, OnTarget,
         Cleaning, Ended, Unlocked, TypeOK, PhaseName
<1>29. ASSUME Crash PROVE NotBack'
  BY <1>29
     DEF Crash, NotBack, Bad, TurningBack, Restoring, WellPlaced, OnTarget, Cleaning, Ended,
         Unlocked, TypeOK, PhaseName
<1>30. ASSUME NEW f \in Files, Edit(f) PROVE NotBack'
  BY <1>30
     DEF Edit, Others, NotBack, Bad, TurningBack, Restoring, WellPlaced, OnTarget, Cleaning,
         Ended, Unlocked, TypeOK, PhaseName
<1>31. ASSUME NEW t \in Files, Tamper(t) PROVE NotBack'
  BY <1>31
     DEF Tamper, Others, NotBack, Bad, TurningBack, Restoring, WellPlaced, OnTarget, Cleaning,
         Ended, Unlocked, TypeOK, PhaseName
<1>32. ASSUME MoveLock PROVE NotBack'
  BY <1>32
     DEF MoveLock, Others, NotBack, Bad, TurningBack, Restoring, WellPlaced, OnTarget,
         Cleaning, Ended, Unlocked, TypeOK, PhaseName
<1>33. ASSUME UNCHANGED vars PROVE NotBack'
  BY <1>33
     DEF vars, NotBack, Bad, TurningBack, Restoring, WellPlaced, OnTarget, Cleaning, Ended,
         Unlocked, TypeOK, PhaseName
<1>34. QED
  BY <1>1, <1>2, <1>3, <1>4, <1>5, <1>6, <1>7, <1>8, <1>9, <1>10, <1>11, <1>12, <1>13, <1>14,
     <1>15, <1>16, <1>17, <1>18, <1>19, <1>20, <1>21, <1>22, <1>23, <1>24, <1>25, <1>26, <1>27,
     <1>28, <1>29, <1>30, <1>31, <1>32, <1>33
     DEF Next, Apply, Begin, Prepare, Commit, Recover, CleanUp

\* A commit that stops.
LEMMA StopPhases ==
  ASSUME TypeOK, PhasesAre, PhasesSay, UNCHANGED manager, exit = "none",
         pc \in Committing \cup {"persist-committing", "settle-replace"},
         NEW reason, NEW unknown \in BOOLEAN, NEW at, NEW tried,
         CommitFails(reason, unknown, at, tried)
  PROVE  PhasesAre'
<1>1. /\ phases["commit"] = "none"
      /\ phases["manager"] = "none" =>
           Opened(phases, "passed", "passed", "passed") /\ Went(phases, "none", "none", "none")
  BY DEF PhasesAre, PhasesSay, Forward, Early, Unrecorded, Unstaged, Unlocked, Committing
<1>2. /\ phases' = [phases EXCEPT !["commit"] = Verdict(unknown)] /\ err'.unknown = unknown
      /\ \/ exit' = "zero" /\ pc' = "fin-check"
         \/ exit' = exit /\ pc' = "recovering"
  BY <1>1 DEF CommitFails, Push, Exit
<1>3. Verdict(unknown) \in {"failed", "unknown"} /\ Verdict(err'.unknown) = Verdict(unknown)
  BY <1>2 DEF Verdict
<1>4. /\ phases'["commit"] = Verdict(unknown)
      /\ \A n \in PhaseName \ {"commit"} : phases'[n] = phases[n]
  BY <1>2 DEF TypeOK, PhaseName
<1>5. phases'["manager"] = "none" =>
        /\ phases["manager"] = "none"
        /\ Opened(phases', "passed", "passed", "passed")
        /\ Went(phases', Verdict(unknown), "none", "none")
  BY <1>1, <1>4 DEF Opened, Went, PhaseName
<1>6. QED
  BY <1>2, <1>3, <1>5 DEF PhasesAre, Committing, Turned

\* The phases say how far the run got.
LEMMA PhasesAreStep ==
  ASSUME TypeOK, WellPlaced, JournalFirst, RenamedSoFar, PhasesSay, PhasesAre
  PROVE  [Next]_vars => PhasesAre'
<1> USE DEF fsVars, jnVars, ansVars, envVars
<1>1. ASSUME AnswerUnchanged PROVE PhasesAre'
  BY <1>1
     DEF AnswerUnchanged, Answer, PhasesAre, Opened, Went, Committing, Turned, PhasesSay,
         WellPlaced, OnTarget, Cleaning, Ended, Unlocked, Early, Unrecorded, Unstaged, Forward,
         Verdict, Push, TypeOK, PhaseName
<1>2. ASSUME Refuse PROVE PhasesAre'
  BY <1>2
     DEF Refuse, Answer, PhasesAre, Opened, Went, Committing, Turned, PhasesSay, WellPlaced,
         OnTarget, Cleaning, Ended, Unlocked, Early, Unrecorded, Unstaged, Forward, Verdict,
         Push, TypeOK, PhaseName
<1>3. ASSUME TakeLock PROVE PhasesAre'
  BY <1>3
     DEF TakeLock, PhasesAre, Opened, Went, Committing, Turned, PhasesSay, WellPlaced,
         OnTarget, Cleaning, Ended, Unlocked, Early, Unrecorded, Unstaged, Forward, Verdict,
         Push, TypeOK, PhaseName
<1>4. ASSUME PrepareManagerFails PROVE PhasesAre'
  BY <1>4
     DEF PrepareManagerFails, Exit, PhasesAre, Opened, Went, Committing, Turned, PhasesSay,
         WellPlaced, OnTarget, Cleaning, Ended, Unlocked, Early, Unrecorded, Unstaged, Forward,
         Verdict, Push, TypeOK, PhaseName
<1>5. ASSUME StageTarget PROVE PhasesAre'
  BY <1>5
     DEF StageTarget, StagingFails, Exit, PhasesAre, Opened, Went, Committing, Turned,
         PhasesSay, WellPlaced, OnTarget, Cleaning, Ended, Unlocked, Early, Unrecorded,
         Unstaged, Forward, Verdict, Push, TypeOK, PhaseName
<1>6. ASSUME CreateJournal PROVE PhasesAre'
  BY <1>6
     DEF CreateJournal, StagingFails, Exit, PhasesAre, Opened, Went, Committing, Turned,
         PhasesSay, WellPlaced, OnTarget, Cleaning, Ended, Unlocked, Early, Unrecorded,
         Unstaged, Forward, Verdict, Push, TypeOK, PhaseName
<1>7. ASSUME PersistStaged PROVE PhasesAre'
  BY <1>7
     DEF PersistStaged, StagingFails, Exit, PhasesAre, Opened, Went, Committing, Turned,
         PhasesSay, WellPlaced, OnTarget, Cleaning, Ended, Unlocked, Early, Unrecorded,
         Unstaged, Forward, Verdict, Push, TypeOK, PhaseName
<1>8. ASSUME Precommit PROVE PhasesAre'
  BY <1>8
     DEF Precommit, Exit, PhasesAre, Opened, Went, Committing, Turned, PhasesSay, WellPlaced,
         OnTarget, Cleaning, Ended, Unlocked, Early, Unrecorded, Unstaged, Forward, Verdict,
         Push, TypeOK, PhaseName
<1>9. ASSUME PersistCommitting PROVE PhasesAre'
  BY <1>9
     DEF PersistCommitting, CommitFails, Exit, PhasesAre, Opened, Went, Committing, Turned,
         PhasesSay, WellPlaced, OnTarget, Cleaning, Ended, Unlocked, Early, Unrecorded,
         Unstaged, Forward, Verdict, Push, TypeOK, PhaseName
<1>10. ASSUME CheckTarget PROVE PhasesAre'
  <2>1. pc = "check" /\ exit = "none" /\ UNCHANGED manager
    BY <1>10 DEF CheckTarget, WellPlaced, Cleaning, Ended
  <2>2. CASE pc' = "persist-replacing" /\ UNCHANGED <<exit, phases>>
    BY <2>1, <2>2 DEF PhasesAre, Committing, Turned
  <2>3. ASSUME CommitFails(SourceError(idx), lock # "held", idx, attempted) PROVE PhasesAre'
    BY <2>1, <2>3, StopPhases DEF Committing
  <2>4. QED
    BY <1>10, <2>2, <2>3 DEF CheckTarget
<1>11. ASSUME PersistReplacing PROVE PhasesAre'
  BY <1>11
     DEF PersistReplacing, CommitFails, Exit, PhasesAre, Opened, Went, Committing, Turned,
         PhasesSay, WellPlaced, OnTarget, Cleaning, Ended, Unlocked, Early, Unrecorded,
         Unstaged, Forward, Verdict, Push, TypeOK, PhaseName
<1>12. ASSUME FinalCheck PROVE PhasesAre'
  <2>1. pc = "final-check" /\ exit = "none" /\ UNCHANGED manager
    BY <1>12 DEF FinalCheck, WellPlaced, Cleaning, Ended
  <2>2. CASE pc' = "replace" /\ UNCHANGED <<exit, phases>>
    BY <2>1, <2>2 DEF PhasesAre, Committing, Turned
  <2>3. ASSUME CommitFails(FinalError(idx), lock # "held", idx, attempted) PROVE PhasesAre'
    BY <2>1, <2>3, StopPhases DEF Committing
  <2>4. QED
    BY <1>12, <2>2, <2>3 DEF FinalCheck
<1>13. ASSUME Replace PROVE PhasesAre'
  BY <1>13
     DEF Replace, CommitFails, Exit, PhasesAre, Opened, Went, Committing, Turned, PhasesSay,
         WellPlaced, OnTarget, Cleaning, Ended, Unlocked, Early, Unrecorded, Unstaged, Forward,
         Verdict, Push, TypeOK, PhaseName
<1>14. ASSUME SettleReplace PROVE PhasesAre'
  BY <1>14
     DEF SettleReplace, CommitFails, Exit, PhasesAre, Opened, Went, Committing, Turned,
         PhasesSay, WellPlaced, OnTarget, Cleaning, Ended, Unlocked, Early, Unrecorded,
         Unstaged, Forward, Verdict, Push, TypeOK, PhaseName
<1>15. ASSUME RunManager PROVE PhasesAre'
  <2>1. pc = "check" /\ exit = "none" /\ UNCHANGED exit
    BY <1>15 DEF RunManager, WellPlaced, Cleaning, Ended
  <2>2. CASE /\ pc' = "observe" /\ manager'.failed = manager.failed
             /\ phases' = Push("commit", "passed")
    BY <2>1, <2>2 DEF PhasesAre, Opened, Went, Committing, Turned, Push, TypeOK, PhaseName
  <2>3. CASE \E unknown \in BOOLEAN :
               phases' = [phases EXCEPT !["commit"] = "passed", !["manager"] = Verdict(unknown)]
    BY <2>3 DEF PhasesAre, Verdict, PhaseName, TypeOK
  <2>4. QED
    BY <1>15, <2>2, <2>3 DEF RunManager, ManagerOutcome, TypeOK
<1>16. ASSUME Observe PROVE PhasesAre'
  <2>1. pc = "observe" /\ exit = "none" /\ UNCHANGED manager
    BY <1>16 DEF Observe, WellPlaced, Cleaning, Ended
  <2>2. CASE pc' = "fin-check" /\ exit' = "success" /\ phases' = Push("inspect", "passed")
    BY <2>1, <2>2 DEF PhasesAre, Opened, Went, Committing, Turned, Push, TypeOK, PhaseName
  <2>3. CASE CommitFails("COMMIT_FAILED", TRUE, 0, attempted)
    <3>1. ASSUME phases["manager"] = "none" PROVE UNCHANGED phases
      BY <2>1, <2>3, <3>1 DEF CommitFails, PhasesAre, Went
    <3>2. phases'["manager"] = phases["manager"]
      BY <2>3 DEF CommitFails, Push, TypeOK, PhaseName
    <3>3. pc' = "recovering" /\ UNCHANGED exit
      <4>1. attempted # {}
        BY <2>1 DEF RenamedSoFar, Renamed, WellPlaced, Unlocked, Ended, TypeOK
      <4>2. QED
        BY <2>3, <4>1 DEF CommitFails
    <3>4. QED
      BY <2>1, <3>1, <3>2, <3>3 DEF PhasesAre, Opened, Went, Committing, Turned
  <2>4. QED
    BY <1>16, <2>2, <2>3 DEF Observe, Exit
<1>17. ASSUME Recovering PROVE PhasesAre'
  BY <1>17
     DEF Recovering, Report!RecoveryPhaseStatus, PhasesAre, Opened, Went, Committing, Turned,
         PhasesSay, WellPlaced, OnTarget, Cleaning, Ended, Unlocked, Early, Unrecorded,
         Unstaged, Forward, Verdict, Push, TypeOK, PhaseName
<1>18. ASSUME NoteFailure PROVE PhasesAre'
  BY <1>18
     DEF NoteFailure, PhasesAre, Opened, Went, Committing, Turned, PhasesSay, WellPlaced,
         OnTarget, Cleaning, Ended, Unlocked, Early, Unrecorded, Unstaged, Forward, Verdict,
         Push, TypeOK, PhaseName
<1>19. ASSUME RecoverTarget PROVE PhasesAre'
  BY <1>19
     DEF RecoverTarget, RecoverFails, PhasesAre, Opened, Went, Committing, Turned, PhasesSay,
         WellPlaced, OnTarget, Cleaning, Ended, Unlocked, Early, Unrecorded, Unstaged, Forward,
         Verdict, Push, TypeOK, PhaseName
<1>20. ASSUME Restore PROVE PhasesAre'
  BY <1>20
     DEF Restore, RecoverFails, PhasesAre, Opened, Went, Committing, Turned, PhasesSay,
         WellPlaced, OnTarget, Cleaning, Ended, Unlocked, Early, Unrecorded, Unstaged, Forward,
         Verdict, Push, TypeOK, PhaseName
<1>21. ASSUME SettleRestore PROVE PhasesAre'
  BY <1>21
     DEF SettleRestore, RecoverFails, PhasesAre, Opened, Went, Committing, Turned, PhasesSay,
         WellPlaced, OnTarget, Cleaning, Ended, Unlocked, Early, Unrecorded, Unstaged, Forward,
         Verdict, Push, TypeOK, PhaseName
<1>22. ASSUME FinishRecovery PROVE PhasesAre'
  <2>1. pc = "recover" /\ exit = "none" /\ pc' = "inspect" /\ UNCHANGED <<exit, manager>>
    BY <1>22 DEF FinishRecovery, WellPlaced, Cleaning, Ended
  <2>2. recovery' \in {"completed", "partial", "unknown"}
    BY <1>22, <2>1 DEF FinishRecovery, WellPlaced, Restoring, TypeOK, Recovery
  <2>3. phases' = [phases EXCEPT !["recovery"] = Report!RecoveryPhaseStatus(recovery')]
    BY <1>22, <2>2 DEF FinishRecovery, Push, Report!RecoveryPhaseStatus
  <2> DEFINE r == Report!RecoveryPhaseStatus(recovery')
  <2>4. /\ phases'["recovery"] = r
        /\ \A n \in PhaseName \ {"recovery"} : phases'[n] = phases[n]
    BY <2>3 DEF TypeOK, PhaseName
  <2>5. phases["manager"] = "none" =>
          /\ Opened(phases, "passed", "passed", "passed") /\ ~manager.failed
          /\ \E c \in {"passed", "failed", "unknown"} : Went(phases, c, "none", "none")
    BY <2>1 DEF PhasesAre, Turned
  <2> HIDE DEF r
  <2>6. phases'["manager"] = "none" =>
          /\ phases["manager"] = "none"
          /\ Opened(phases', "passed", "passed", "passed") /\ ~manager'.failed
          /\ \E c \in {"passed", "failed", "unknown"} : Went(phases', c, r, "none")
    BY <2>1, <2>4, <2>5 DEF Opened, Went, PhaseName
  <2>7. QED
    BY <2>1, <2>6 DEF PhasesAre, Committing, Turned, r
<1>23. ASSUME Inspect PROVE PhasesAre'
  <2>1. pc = "inspect" /\ exit = "none" /\ UNCHANGED manager
    BY <1>23 DEF Inspect, WellPlaced, Cleaning, Ended
  <2>2. CASE pc' = "done" /\ UNCHANGED <<exit, phases>>
    BY <2>1, <2>2 DEF PhasesAre, Committing, Turned
  <2>3. CASE /\ pc' = "fin-check" /\ exit' = "reverted" /\ recovery = "completed"
             /\ phases' = [phases EXCEPT !["inspect"] = "passed"]
    <3>1. Report!RecoveryPhaseStatus(recovery) = "passed"
      BY <2>3 DEF Report!RecoveryPhaseStatus
    <3>2. phases["manager"] = "none" =>
            /\ Opened(phases, "passed", "passed", "passed")
            /\ \E c \in {"passed", "failed", "unknown"} : Went(phases, c, "passed", "none")
      BY <2>1, <3>1 DEF PhasesAre
    <3>3. QED
      BY <2>1, <2>3, <3>2 DEF PhasesAre, Opened, Went, Committing, Turned, TypeOK, PhaseName
  <2>4. QED
    <3>1. CASE ~(recovery = "completed" /\ \A f \in Files : Settled(InspectedOutcome(f)))
      BY <1>23, <2>2, <3>1 DEF Inspect, Answer, Exit
    <3>2. CASE recovery = "completed" /\ \A f \in Files : Settled(InspectedOutcome(f))
      BY <1>23, <2>3, <3>2, SettledOutcome DEF Inspect, Answer, Exit, Push
    <3>3. QED
      BY <3>1, <3>2
<1>24. ASSUME FinCheck PROVE PhasesAre'
  BY <1>24
     DEF FinCheck, PhasesAre, Opened, Went, Committing, Turned, PhasesSay, WellPlaced,
         OnTarget, Cleaning, Ended, Unlocked, Early, Unrecorded, Unstaged, Forward, Verdict,
         Push, TypeOK, PhaseName
<1>25. ASSUME FinTemp PROVE PhasesAre'
  BY <1>25
     DEF FinTemp, PhasesAre, Opened, Went, Committing, Turned, PhasesSay, WellPlaced, OnTarget,
         Cleaning, Ended, Unlocked, Early, Unrecorded, Unstaged, Forward, Verdict, Push,
         TypeOK, PhaseName
<1>26. ASSUME FinJournal PROVE PhasesAre'
  BY <1>26
     DEF FinJournal, PhasesAre, Opened, Went, Committing, Turned, PhasesSay, WellPlaced,
         OnTarget, Cleaning, Ended, Unlocked, Early, Unrecorded, Unstaged, Forward, Verdict,
         Push, TypeOK, PhaseName
<1>27. ASSUME FinRelease PROVE PhasesAre'
  BY <1>27
     DEF FinRelease, PhasesAre, Opened, Went, Committing, Turned, PhasesSay, WellPlaced,
         OnTarget, Cleaning, Ended, Unlocked, Early, Unrecorded, Unstaged, Forward, Verdict,
         Push, TypeOK, PhaseName
<1>28. ASSUME AnswerCleaned PROVE PhasesAre'
  BY <1>28
     DEF AnswerCleaned, Answer, PhasesAre, Opened, Went, Committing, Turned, PhasesSay,
         WellPlaced, OnTarget, Cleaning, Ended, Unlocked, Early, Unrecorded, Unstaged, Forward,
         Verdict, Push, TypeOK, PhaseName
<1>29. ASSUME Crash PROVE PhasesAre'
  BY <1>29
     DEF Crash, PhasesAre, Opened, Went, Committing, Turned, PhasesSay, WellPlaced, OnTarget,
         Cleaning, Ended, Unlocked, Early, Unrecorded, Unstaged, Forward, Verdict, Push,
         TypeOK, PhaseName
<1>30. ASSUME NEW f \in Files, Edit(f) PROVE PhasesAre'
  BY <1>30
     DEF Edit, Others, PhasesAre, Opened, Went, Committing, Turned, PhasesSay, WellPlaced,
         OnTarget, Cleaning, Ended, Unlocked, Early, Unrecorded, Unstaged, Forward, Verdict,
         Push, TypeOK, PhaseName
<1>31. ASSUME NEW t \in Files, Tamper(t) PROVE PhasesAre'
  BY <1>31
     DEF Tamper, Others, PhasesAre, Opened, Went, Committing, Turned, PhasesSay, WellPlaced,
         OnTarget, Cleaning, Ended, Unlocked, Early, Unrecorded, Unstaged, Forward, Verdict,
         Push, TypeOK, PhaseName
<1>32. ASSUME MoveLock PROVE PhasesAre'
  BY <1>32
     DEF MoveLock, Others, PhasesAre, Opened, Went, Committing, Turned, PhasesSay, WellPlaced,
         OnTarget, Cleaning, Ended, Unlocked, Early, Unrecorded, Unstaged, Forward, Verdict,
         Push, TypeOK, PhaseName
<1>33. ASSUME UNCHANGED vars PROVE PhasesAre'
  BY <1>33
     DEF vars, PhasesAre, Opened, Went, Committing, Turned, PhasesSay, WellPlaced, OnTarget,
         Cleaning, Ended, Unlocked, Early, Unrecorded, Unstaged, Forward, Verdict, Push,
         TypeOK, PhaseName
<1>34. QED
  BY <1>1, <1>2, <1>3, <1>4, <1>5, <1>6, <1>7, <1>8, <1>9, <1>10, <1>11, <1>12, <1>13, <1>14,
     <1>15, <1>16, <1>17, <1>18, <1>19, <1>20, <1>21, <1>22, <1>23, <1>24, <1>25, <1>26, <1>27,
     <1>28, <1>29, <1>30, <1>31, <1>32, <1>33
     DEF Next, Apply, Begin, Prepare, Commit, Recover, CleanUp

\* What is answered as reverted was tried.
LEMMA RevertedStep ==
  ASSUME TypeOK, WellPlaced, RevertedWasTried
  PROVE  [Next]_vars => RevertedWasTried'
<1> USE DEF fsVars, jnVars, ansVars, envVars
<1>1. ASSUME AnswerUnchanged PROVE RevertedWasTried'
  BY <1>1
     DEF AnswerUnchanged, Answer, RevertedWasTried, WellPlaced, Cleaning, Ended, Unlocked,
         TypeOK
<1>2. ASSUME Refuse PROVE RevertedWasTried'
  BY <1>2
     DEF Refuse, Answer, RevertedWasTried, WellPlaced, Cleaning, Ended, Unlocked, TypeOK
<1>3. ASSUME TakeLock PROVE RevertedWasTried'
  BY <1>3
     DEF TakeLock, RevertedWasTried, WellPlaced, Cleaning, Ended, Unlocked, TypeOK
<1>4. ASSUME PrepareManagerFails PROVE RevertedWasTried'
  BY <1>4
     DEF PrepareManagerFails, Exit, RevertedWasTried, WellPlaced, Cleaning, Ended, Unlocked,
         TypeOK
<1>5. ASSUME StageTarget PROVE RevertedWasTried'
  BY <1>5
     DEF StageTarget, StagingFails, Exit, RevertedWasTried, WellPlaced, Cleaning, Ended,
         Unlocked, TypeOK
<1>6. ASSUME CreateJournal PROVE RevertedWasTried'
  BY <1>6
     DEF CreateJournal, StagingFails, Exit, RevertedWasTried, WellPlaced, Cleaning, Ended,
         Unlocked, TypeOK
<1>7. ASSUME PersistStaged PROVE RevertedWasTried'
  BY <1>7
     DEF PersistStaged, StagingFails, Exit, RevertedWasTried, WellPlaced, Cleaning, Ended,
         Unlocked, TypeOK
<1>8. ASSUME Precommit PROVE RevertedWasTried'
  BY <1>8
     DEF Precommit, Exit, RevertedWasTried, WellPlaced, Cleaning, Ended, Unlocked, TypeOK
<1>9. ASSUME PersistCommitting PROVE RevertedWasTried'
  BY <1>9
     DEF PersistCommitting, CommitFails, Exit, RevertedWasTried, WellPlaced, Cleaning, Ended,
         Unlocked, TypeOK
<1>10. ASSUME CheckTarget PROVE RevertedWasTried'
  BY <1>10
     DEF CheckTarget, CommitFails, Exit, RevertedWasTried, WellPlaced, Cleaning, Ended,
         Unlocked, TypeOK
<1>11. ASSUME PersistReplacing PROVE RevertedWasTried'
  BY <1>11
     DEF PersistReplacing, CommitFails, Exit, RevertedWasTried, WellPlaced, Cleaning, Ended,
         Unlocked, TypeOK
<1>12. ASSUME FinalCheck PROVE RevertedWasTried'
  BY <1>12
     DEF FinalCheck, CommitFails, Exit, RevertedWasTried, WellPlaced, Cleaning, Ended,
         Unlocked, TypeOK
<1>13. ASSUME Replace PROVE RevertedWasTried'
  BY <1>13
     DEF Replace, CommitFails, Exit, RevertedWasTried, WellPlaced, Cleaning, Ended, Unlocked,
         TypeOK
<1>14. ASSUME SettleReplace PROVE RevertedWasTried'
  BY <1>14
     DEF SettleReplace, CommitFails, Exit, RevertedWasTried, WellPlaced, Cleaning, Ended,
         Unlocked, TypeOK
<1>15. ASSUME RunManager PROVE RevertedWasTried'
  BY <1>15
     DEF RunManager, RevertedWasTried, WellPlaced, Cleaning, Ended, Unlocked, TypeOK
<1>16. ASSUME Observe PROVE RevertedWasTried'
  BY <1>16
     DEF Observe, CommitFails, Exit, RevertedWasTried, WellPlaced, Cleaning, Ended, Unlocked,
         TypeOK
<1>17. ASSUME Recovering PROVE RevertedWasTried'
  BY <1>17
     DEF Recovering, RevertedWasTried, WellPlaced, Cleaning, Ended, Unlocked, TypeOK
<1>18. ASSUME NoteFailure PROVE RevertedWasTried'
  BY <1>18
     DEF NoteFailure, RevertedWasTried, WellPlaced, Cleaning, Ended, Unlocked, TypeOK
<1>19. ASSUME RecoverTarget PROVE RevertedWasTried'
  BY <1>19
     DEF RecoverTarget, RecoverFails, RevertedWasTried, WellPlaced, Cleaning, Ended, Unlocked,
         TypeOK
<1>20. ASSUME Restore PROVE RevertedWasTried'
  BY <1>20
     DEF Restore, RecoverFails, RevertedWasTried, WellPlaced, Cleaning, Ended, Unlocked, TypeOK
<1>21. ASSUME SettleRestore PROVE RevertedWasTried'
  BY <1>21
     DEF SettleRestore, RecoverFails, RevertedWasTried, WellPlaced, Cleaning, Ended, Unlocked,
         TypeOK
<1>22. ASSUME FinishRecovery PROVE RevertedWasTried'
  BY <1>22
     DEF FinishRecovery, RevertedWasTried, WellPlaced, Cleaning, Ended, Unlocked, TypeOK
<1>23. ASSUME Inspect PROVE RevertedWasTried'
  BY <1>23
     DEF Inspect, Answer, Exit, InspectedOutcome, FailedOutcome, RevertedWasTried, WellPlaced,
         Cleaning, Ended, Unlocked, TypeOK
<1>24. ASSUME FinCheck PROVE RevertedWasTried'
  BY <1>24
     DEF FinCheck, RevertedWasTried, WellPlaced, Cleaning, Ended, Unlocked, TypeOK
<1>25. ASSUME FinTemp PROVE RevertedWasTried'
  BY <1>25
     DEF FinTemp, RevertedWasTried, WellPlaced, Cleaning, Ended, Unlocked, TypeOK
<1>26. ASSUME FinJournal PROVE RevertedWasTried'
  BY <1>26
     DEF FinJournal, RevertedWasTried, WellPlaced, Cleaning, Ended, Unlocked, TypeOK
<1>27. ASSUME FinRelease PROVE RevertedWasTried'
  BY <1>27
     DEF FinRelease, RevertedWasTried, WellPlaced, Cleaning, Ended, Unlocked, TypeOK
<1>28. ASSUME AnswerCleaned PROVE RevertedWasTried'
  BY <1>28
     DEF AnswerCleaned, Answer, RevertedWasTried, WellPlaced, Cleaning, Ended, Unlocked, TypeOK
<1>29. ASSUME Crash PROVE RevertedWasTried'
  BY <1>29
     DEF Crash, RevertedWasTried, WellPlaced, Cleaning, Ended, Unlocked, TypeOK
<1>30. ASSUME NEW f \in Files, Edit(f) PROVE RevertedWasTried'
  BY <1>30
     DEF Edit, Others, RevertedWasTried, WellPlaced, Cleaning, Ended, Unlocked, TypeOK
<1>31. ASSUME NEW t \in Files, Tamper(t) PROVE RevertedWasTried'
  BY <1>31
     DEF Tamper, Others, RevertedWasTried, WellPlaced, Cleaning, Ended, Unlocked, TypeOK
<1>32. ASSUME MoveLock PROVE RevertedWasTried'
  BY <1>32
     DEF MoveLock, Others, RevertedWasTried, WellPlaced, Cleaning, Ended, Unlocked, TypeOK
<1>33. ASSUME UNCHANGED vars PROVE RevertedWasTried'
  BY <1>33
     DEF vars, RevertedWasTried, WellPlaced, Cleaning, Ended, Unlocked, TypeOK
<1>34. QED
  BY <1>1, <1>2, <1>3, <1>4, <1>5, <1>6, <1>7, <1>8, <1>9, <1>10, <1>11, <1>12, <1>13, <1>14,
     <1>15, <1>16, <1>17, <1>18, <1>19, <1>20, <1>21, <1>22, <1>23, <1>24, <1>25, <1>26, <1>27,
     <1>28, <1>29, <1>30, <1>31, <1>32, <1>33
     DEF Next, Apply, Begin, Prepare, Commit, Recover, CleanUp

----------------------------------------------------------------------------
(* Every answer is of a known kind                                       *)

\* An answer as the check run reads it.
ReadAs(preflight, ph, ops, rec, left, tried) ==
  [ops |-> ops, phases |-> [n \in Phases |-> IF n = "preflight" THEN preflight ELSE ph[n]],
   recovery |-> rec, journal |-> left, attempted |-> tried, owner |-> Owner]

\* The fields of an answer as it is read.
LEMMA ReadFields ==
  ASSUME NEW a, NEW preflight, NEW ph, NEW ops, NEW rec, NEW left, NEW tried,
         a = ReadAs(preflight, ph, ops, rec, left, tried)
  PROVE  /\ a.ops = ops /\ a.recovery = rec /\ a.journal = left /\ a.attempted = tried
         /\ a.owner = Owner /\ a.phases["preflight"] = preflight
         /\ a.phases["lock"] = ph["lock"] /\ a.phases["stage"] = ph["stage"]
         /\ a.phases["precommit"] = ph["precommit"] /\ a.phases["commit"] = ph["commit"]
         /\ a.phases["recovery"] = ph["recovery"] /\ a.phases["inspect"] = ph["inspect"]
BY DEF ReadAs, Phases, PhaseName

\* An answer of the engine has a status and a reason for every file.
LEMMA ReadPlain ==
  ASSUME NEW a, NEW ops \in [Files -> Outcome], a.ops = ops, a.owner = Owner,
         a.attempted \subseteq Files
  PROVE  Plain(a)
<1>1. DOMAIN a.ops = Files
  OBVIOUS
<1>2. \A f \in Files : a.ops[f] \in Outcome
  OBVIOUS
<1>3. \A o \in Outcome : o = [status |-> o.status, reason |-> o.reason]
  BY DEF Outcome
<1>4. QED
  BY <1>1, <1>2, <1>3 DEF Plain

\* What createResult makes of the phases.
LEMMA AnswerPhases ==
  ASSUME NEW rec, NEW ops, NEW ph \in [PhaseName -> PhaseStatus], Answer(rec, ops, ph)
  PROVE  /\ pc' = "done" /\ result'.ops = ops /\ result'.recovery = rec
         /\ \A n \in PhaseName \ {"recovery"} : result'.phases[n] = ph[n]
         /\ ph["recovery"] = "none" => result'.phases["recovery"] = "none"
         /\ ph["recovery"] # "none" /\ rec \in {"partial", "unknown"} =>
              result'.phases["recovery"] = Report!RecoveryPhaseStatus(rec)
         /\ rec \notin {"partial", "unknown"} => result'.phases["recovery"] = ph["recovery"]
<1>1. CASE ph["recovery"] # "none" /\ rec \in {"unknown", "partial"}
  BY <1>1 DEF Answer, Verdict, PhaseName, Report!RecoveryPhaseStatus
<1>2. CASE ~(ph["recovery"] # "none" /\ rec \in {"unknown", "partial"})
  BY <1>2 DEF Answer
<1>3. QED
  BY <1>1, <1>2

\* An answer that is no refusal of the lock is read in one way.
LEMMA OneReading ==
  ASSUME NEW rec, NEW ops, NEW ph \in [PhaseName -> PhaseStatus], Answer(rec, ops, ph),
         ph["lock"] \notin {"failed", "unknown"}, rec = "unknown" => ph["cleanup"] = "unknown",
         UNCHANGED <<run, attempted>>, NEW p, p = result'.phases,
         ChecksAnswer' => Known(ReadAs("passed", p, ops, rec, run, attempted))
  PROVE  AnswersKnown'
<1>1. /\ result'.ops = ops /\ result'.recovery = rec
      /\ result'.phases["lock"] \notin {"failed", "unknown"}
      /\ rec = "unknown" => result'.phases["cleanup"] = "unknown"
  BY AnswerPhases DEF PhaseName
<1>2. ~LockRefused'
  BY <1>1 DEF LockRefused
<1>3. Readings' = {ReadAs("passed", p, ops, rec, run, attempted)}
  BY <1>1, <1>2 DEF Readings, Answered, ReadAs
<1>4. QED
  BY <1>1, <1>2, <1>3 DEF AnswersKnown

\* The answer of a run with nothing to change.
LEMMA UnchangedKnown ==
  ASSUME TypeOK, PhasesSay, AnswerUnchanged
  PROVE  AnswersKnown'
<1> USE DEF fsVars, jnVars, ansVars, envVars
<1> DEFINE ops == [f \in Files |-> SuccessOutcome(f)]
           ph == [phases EXCEPT !["lock"] = "skipped", !["inspect"] = "passed"]
           p == result'.phases
           a == ReadAs("passed", p, ops, "not-needed", run, attempted)
<1>1. /\ pc = "start" /\ active = 0 /\ Answer("not-needed", ops, ph)
      /\ UNCHANGED <<run, attempted, active>> /\ attempted \subseteq Files
  BY DEF AnswerUnchanged, TypeOK
<1>2. ops \in [Files -> Outcome]
  BY OutcomeTyping
<1>3. /\ ph \in [PhaseName -> PhaseStatus]
      /\ Opened(ph, "skipped", "none", "none") /\ Went(ph, "none", "none", "passed")
  BY <1>1 DEF TypeOK, PhasesSay, PhaseName, PhaseStatus, Opened, Went
<1> HIDE DEF ops, ph
<1>4. Opened(p, "skipped", "none", "none") /\ Went(p, "none", "none", "passed")
  BY <1>1, <1>3, AnswerPhases DEF Opened, Went, PhaseName
<1>5. /\ a.ops = ops /\ a.recovery = "not-needed" /\ a.owner = Owner /\ a.attempted = attempted
      /\ a.phases["preflight"] = "passed"
      /\ Begun(a, "skipped", "none", "none", "none", "none", "passed")
  BY <1>4, ReadFields DEF Opened, Went, Begun
<1> HIDE DEF a
<1>6. ChecksAnswer' => Known(a)
  <2>1. ChecksAnswer' => N = 0
    BY <1>1 DEF ChecksAnswer
  <2>2. Plain(a)
    BY <1>1, <1>2, <1>5, ReadPlain
  <2>3. QED
    BY <1>5, <2>1, <2>2 DEF Known, KindEmpty
<1>7. ph["lock"] \notin {"failed", "unknown"}
  BY <1>3 DEF Opened
<1>8. QED
  BY <1>1, <1>3, <1>6, <1>7, OneReading DEF a

\* The answer of a refused run, and how its refusal may be read.
LEMMA RefuseKnown ==
  ASSUME TypeOK, JournalFirst, Tidy, PhasesSay, Refuse
  PROVE  AnswersKnown'
<1> USE DEF fsVars, jnVars, ansVars, envVars
<1>1. PICK u \in BOOLEAN :
        Answer(IF u THEN "unknown" ELSE "not-needed",
               All(IF u THEN "unknown" ELSE "conflicted", "REFUSED"), Push("lock", Verdict(u)))
  BY DEF Refuse
<1> DEFINE rec == IF u THEN "unknown" ELSE "not-needed"
           status == IF u THEN "unknown" ELSE "conflicted"
           ops == All(status, "REFUSED")
           ph == Push("lock", Verdict(u))
           v == Verdict(u)
           none == [n \in PhaseName |-> "none"]
           p == result'.phases
<1>2. /\ pc = "start" /\ active > 0 /\ attempted = {} /\ lock = "none" /\ ~run
      /\ \A t \in Files : Bare(t)
      /\ UNCHANGED <<run, attempted, active, lock, stage, backup>>
  BY DEF Refuse, JournalFirst, Early, Unrecorded, Unstaged, Unlocked, Tidy
<1>3. \/ v = "failed" /\ rec = "not-needed" /\ status = "conflicted"
      \/ v = "unknown" /\ rec = "unknown" /\ status = "unknown"
  BY DEF Verdict
<1>4. /\ ph \in [PhaseName -> PhaseStatus]
      /\ Opened(ph, v, "none", "none") /\ Went(ph, "none", "none", "none")
  BY <1>2, <1>3 DEF Push, TypeOK, PhasesSay, PhaseName, PhaseStatus, Opened, Went
<1>5. Answer(rec, ops, ph)
  BY <1>1
<1> HIDE DEF rec, status, ph, v
<1>6. /\ result'.ops = ops /\ result'.recovery = rec
      /\ Opened(p, v, "none", "none") /\ Went(p, "none", "none", "none")
  BY <1>4, <1>5, AnswerPhases DEF Opened, Went, PhaseName
<1>7. ops \in [Files -> Outcome] /\ \A f \in Files : ops[f].status = status
  BY <1>3 DEF All, Outcome, Status, OutcomeReason, Reason
<1> DEFINE vcs == [f \in Files |-> [status |-> ops[f].status, reason |-> "VCS_UNAVAILABLE"]]
<1>8. DOMAIN vcs = Files /\ \A f \in Files : vcs[f].status = status
                             /\ vcs[f] = [status |-> vcs[f].status, reason |-> vcs[f].reason]
  BY <1>7
<1> HIDE DEF ops, vcs
<1>9. ASSUME ChecksAnswer', NEW a \in Readings' PROVE Known(a)
  <2>0. N > 0 /\ {} \subseteq Files
    BY <1>2, <1>9 DEF ChecksAnswer
  <2>1. CASE a = ReadAs("passed", p, ops, rec, run, {})
    <3>1. /\ a.ops = ops /\ a.recovery = rec /\ a.owner = Owner /\ a.attempted = {}
          /\ a.phases["preflight"] = "passed"
          /\ Begun(a, v, "none", "none", "none", "none", "none")
      BY <1>6, <2>1, ReadFields DEF Opened, Went, Begun
    <3>2. Plain(a)
      BY <1>7, <2>0, <3>1, ReadPlain
    <3>3. Every(a, {status})
      BY <1>7, <3>1 DEF Every
    <3>4. QED
      BY <1>3, <2>0, <3>1, <3>2, <3>3 DEF Known, KindUnstaged
  <2>2. CASE \E o \in {ops, vcs} : a = ReadAs(v, none, o, rec, run, {})
    <3>1. PICK o \in {ops, vcs} : a = ReadAs(v, none, o, rec, run, {})
      BY <2>2
    <3>2. /\ none["lock"] = "none"
          /\ Opened(none, "none", "none", "none") /\ Went(none, "none", "none", "none")
      BY DEF Opened, Went, PhaseName
    <3> HIDE DEF none
    <3>3. /\ a.ops = o /\ a.recovery = rec /\ a.owner = Owner /\ a.attempted = {}
          /\ a.phases["preflight"] = v
          /\ Begun(a, "none", "none", "none", "none", "none", "none")
      BY <3>1, <3>2, ReadFields DEF Opened, Went, Begun
    <3>4. Plain(a)
      <4>1. CASE o = ops
        BY <1>7, <2>0, <3>3, <4>1, ReadPlain
      <4>2. CASE o = vcs
        BY <1>8, <2>0, <3>3, <4>2 DEF Plain
      <4>3. QED
        BY <4>1, <4>2
    <3>5. Every(a, {status})
      BY <1>7, <1>8, <3>3 DEF Every
    <3>6. QED
      BY <1>3, <2>0, <3>3, <3>4, <3>5 DEF Known, KindBarred
  <2>3. p["lock"] = v /\ v \in {"failed", "unknown"}
    BY <1>3, <1>6 DEF Opened
  <2>4. QED
    <3>1. NoVcs' = vcs
      BY <1>6 DEF NoVcs, vcs
    <3>2. \/ a = Answered("passed", result.phases, result.ops)'
          \/ \E o \in {result.ops, NoVcs}' : a = Answered(v, none, o)'
      BY <1>9, <2>3 DEF Readings, LockRefused
    <3>3. QED
      BY <1>2, <1>6, <2>1, <2>2, <3>1, <3>2 DEF Answered, ReadAs
<1>10. /\ lock' = "none" /\ ~run' /\ attempted' = {} /\ \A t \in Files : Bare(t)'
  BY <1>2 DEF Bare
<1>11. result'.recovery = "unknown" => LockRefused'
  BY <1>3, <1>6 DEF LockRefused, Opened
<1>12. QED
  BY <1>9, <1>10, <1>11 DEF AnswersKnown

\* The answer of a recovery that is not complete.
LEMMA InspectKnown ==
  ASSUME TypeOK, WellPlaced, TriedBeforeRecovery, PhasesSay, NotBack, PhasesAre, Inspect,
         pc' = "done"
  PROVE  AnswersKnown'
<1> USE DEF fsVars, jnVars, ansVars, envVars
<1> DEFINE ops == [f \in Files |-> InspectedOutcome(f)]
           unknown == \E f \in Files : ops[f].status = "unknown"
           i == IF unknown THEN "unknown" ELSE "passed"
           rec == IF recovery # "completed" THEN recovery
                  ELSE IF unknown THEN "unknown" ELSE "partial"
           ph == [Push("inspect", i) EXCEPT !["cleanup"] = "unknown"]
           p == result'.phases
<1>1. /\ pc = "inspect" /\ Answer(WithManager(rec), ops, ph)
      /\ UNCHANGED <<active, run, attempted>> /\ attempted \subseteq Files
  BY DEF Inspect, Exit, TypeOK
<1>2. ops \in [Files -> Outcome]
  BY OutcomeTyping
<1>3. i \in {"passed", "unknown"} /\ (i = "unknown" <=> unknown)
  OBVIOUS
<1> HIDE DEF i
<1>4. ph = [[phases EXCEPT !["inspect"] = i] EXCEPT !["cleanup"] = "unknown"]
  BY DEF Push
<1>5. /\ ph \in [PhaseName -> PhaseStatus]
      /\ ph["cleanup"] = "unknown" /\ ph["inspect"] = i /\ ph["manager"] = phases["manager"]
      /\ ph["lock"] = phases["lock"] /\ ph["stage"] = phases["stage"]
      /\ ph["precommit"] = phases["precommit"] /\ ph["commit"] = phases["commit"]
      /\ ph["recovery"] = phases["recovery"]
  BY <1>3, <1>4 DEF TypeOK, PhaseName, PhaseStatus
<1>6. recovery \in {"completed", "partial", "unknown"}
  BY <1>1 DEF WellPlaced, Restoring, TypeOK, Recovery
<1>7. /\ rec \in {"partial", "unknown"}
      /\ recovery # "completed" => rec = recovery
      /\ rec = "unknown" => recovery = "unknown" \/ recovery = "completed"
  BY <1>6
<1> HIDE DEF rec, ph
<1>8. ASSUME ~(phases["manager"] = "none" /\ active = N) PROVE AnswersKnown'
  <2>1. p["manager"] = phases["manager"]
    BY <1>1, <1>5, AnswerPhases DEF PhaseName
  <2>2. QED
    BY <1>1, <1>8, <2>1 DEF AnswersKnown, ChecksAnswer
<1>9. ASSUME phases["manager"] = "none", active = N PROVE AnswersKnown'
  <2>1. PICK c \in {"passed", "failed", "unknown"} :
          /\ Opened(phases, "passed", "passed", "passed")
          /\ phases["commit"] = c /\ phases["recovery"] = Report!RecoveryPhaseStatus(recovery)
          /\ ~manager.failed
    BY <1>1, <1>9 DEF PhasesAre, Went
  <2>2. WithManager(rec) = rec
    BY <2>1 DEF WithManager
  <2>3. Report!RecoveryPhaseStatus(recovery) # "none"
    BY DEF Report!RecoveryPhaseStatus
  <2> DEFINE r == Report!RecoveryPhaseStatus(rec)
             a == ReadAs("passed", p, ops, rec, run, attempted)
  <2>4. Answer(rec, ops, ph)
    BY <1>1, <2>2
  <2> HIDE DEF ops, r
  <2>5. Opened(p, "passed", "passed", "passed") /\ Went(p, c, r, i)
    BY <1>5, <1>7, <2>1, <2>3, <2>4, AnswerPhases DEF Opened, Went, PhaseName, r
  <2>6. /\ a.ops = ops /\ a.recovery = rec /\ a.owner = Owner /\ a.attempted = attempted
        /\ a.phases["preflight"] = "passed" /\ a.phases["commit"] = c
        /\ Begun(a, "passed", "passed", "passed", c, r, i)
    BY <2>5, ReadFields DEF Opened, Went, Begun
  <2> HIDE DEF a
  <2>7. N > 0 /\ a.attempted # {}
    BY <1>1, <1>9, <2>6 DEF WellPlaced, Unlocked, Ended, TriedBeforeRecovery, TurningBack,
       Restoring
  <2>8. i = "unknown" => Some(a, {"unknown"})
    BY <1>3, <2>6 DEF Some
  <2>9. rec = "unknown" => Every(a, {"unknown"}) \/ c # "passed"
    <3>1. CASE recovery = "unknown"
      <4>1. \A f \in Files : ops[f].status = "unknown"
        BY <3>1 DEF ops, InspectedOutcome
      <4>2. QED
        BY <2>6, <4>1 DEF Every
    <3>2. CASE recovery = "completed"
      BY <1>1, <1>9, <2>1, <3>2 DEF NotBack, TurningBack, Restoring
    <3>3. QED
      BY <1>7, <3>1, <3>2
  <2>10. \A f \in Files :
           /\ ops[f].status \in {"conflicted", "reverted", "failed", "unknown"}
           /\ ops[f].status = "conflicted" =>
                f \notin attempted /\ ops[f].reason \in Conflict /\ c = "failed"
           /\ ops[f].status = "reverted" => f \in attempted
    <3>1. \A f \in Files :
            FailedOutcome(f).status \in {"reverted", "failed", "unknown"}
            /\ (FailedOutcome(f).status = "reverted" => f \in attempted)
      BY DEF FailedOutcome
    <3>2. err.reason \in Conflict => c = "failed"
      BY <1>1, <2>1 DEF PhasesSay, TurningBack, Restoring
    <3>3. QED
      BY <3>1, <3>2 DEF ops, InspectedOutcome
  <2>11. Plain(a)
    BY <1>1, <1>2, <2>6, ReadPlain
  <2>12. KindRecovered(a)
    BY <1>3, <1>7, <2>6, <2>7, <2>8, <2>9, <2>10 DEF KindRecovered, r
  <2>13. ph["lock"] = "passed"
    BY <1>5, <2>1 DEF Opened
  <2>14. QED
    BY <1>1, <1>5, <2>4, <2>11, <2>12, <2>13, OneReading DEF Known, a
<1>10. QED
  BY <1>8, <1>9

\* What nothing was tried on is found failed or not at all.
LEMMA UntriedOutcome ==
  ASSUME NEW f \in Files, f \notin attempted
  PROVE  \/ FailedOutcome(f) = [status |-> "unknown", reason |-> "OBSERVATION_FAILED"]
         \/ FailedOutcome(f).status = "failed"
BY DEF FailedOutcome

\* The answer after cleaning up.
LEMMA CleanedKnown ==
  ASSUME TypeOK, WellPlaced, SuccessIsWhole, NothingTried, TriedBeforeRecovery, OutcomesRecorded,
         PhasesSay, RenamedSoFar, NotBack, PhasesAre, RevertedWasTried, AnswerCleaned
  PROVE  AnswersKnown'
<1> USE DEF fsVars, jnVars, ansVars, envVars
<1> DEFINE cleaned == pc = "released"
           ops == CleanedOutcomes(cleaned)
           told == CASE ~cleaned -> "unknown"
                     [] cleaned /\ exit = "reverted" -> WithManager(recovery)
                     [] cleaned /\ exit = "prepare" /\ manager.unrecovered ->
                          IF err.unknown THEN "unknown" ELSE "partial"
                     [] OTHER -> "not-needed"
           rec == IF pc = "released" THEN IF exit = "reverted" THEN "completed" ELSE "not-needed"
                  ELSE "unknown"
           end == IF cleaned THEN "passed" ELSE "unknown"
           ph == Push("cleanup", end)
           p == result'.phases
           a == ReadAs("passed", p, ops, rec, run, attempted)
<1>1. /\ pc \in {"kept", "released"} /\ Answer(told, ops, ph)
      /\ UNCHANGED <<active, run, attempted>> /\ attempted \subseteq Files
  BY DEF AnswerCleaned, TypeOK
<1>2. exit \in Exits \ {"none"} /\ active > 0
  BY <1>1 DEF WellPlaced, Cleaning, Unlocked, Ended, TypeOK
<1>3. ops \in [Files -> Outcome]
  BY <1>2, CleanedTyping
<1>4. /\ ph \in [PhaseName -> PhaseStatus]
      /\ ph["cleanup"] = end /\ ph["manager"] = phases["manager"]
      /\ ph["lock"] = phases["lock"] /\ ph["stage"] = phases["stage"]
      /\ ph["precommit"] = phases["precommit"] /\ ph["commit"] = phases["commit"]
      /\ ph["recovery"] = phases["recovery"] /\ ph["inspect"] = phases["inspect"]
  BY DEF Push, TypeOK, PhaseName, PhaseStatus
<1>5. rec \in {"unknown", "completed", "not-needed"} /\ (rec = "unknown" => end = "unknown")
  BY <1>1
<1> HIDE DEF ph, ops, told
<1>6. ASSUME ~(phases["manager"] = "none" /\ active = N) PROVE AnswersKnown'
  <2>1. p["manager"] = phases["manager"]
    BY <1>1, <1>4, AnswerPhases DEF PhaseName
  <2>2. QED
    BY <1>1, <1>6, <2>1 DEF AnswersKnown, ChecksAnswer
<1>7. ASSUME phases["manager"] = "none", active = N PROVE AnswersKnown'
  <2>1. exit # "prepare" /\ ~manager.failed
    BY <1>7 DEF PhasesAre
  <2>2. told = rec
    <3>1. exit = "reverted" => WithManager(recovery) = "completed"
      BY <2>1 DEF OutcomesRecorded, WithManager
    <3>2. QED
      BY <2>1, <3>1 DEF told
  <2>3. Answer(rec, ops, ph)
    BY <1>1, <2>2
  <2>4. N > 0 /\ Files # {} /\ 1..active = Files
    BY <1>2, <1>7, EngineAssumption DEF Files
  <2>5. \A f \in Files : f \in 1..active /\ f <= active
    BY <2>4, EngineAssumption DEF Files, TypeOK
  <2> HIDE DEF rec, end
  <2>6. ASSUME NEW l, NEW s, NEW q, NEW c, NEW i,
               Opened(phases, l, s, q), Went(phases, c, "none", i)
        PROVE  Begun(a, l, s, q, c, "none", i)
    <3>1. Opened(p, l, s, q) /\ Went(p, c, "none", i)
      BY <1>4, <2>3, <2>6, AnswerPhases DEF Opened, Went, PhaseName
    <3>2. QED
      BY <3>1, ReadFields DEF Opened, Went, Begun
  <2>7. /\ a.ops = ops /\ a.recovery = rec /\ a.owner = Owner /\ a.attempted = attempted
        /\ a.phases["preflight"] = "passed" /\ a.phases["commit"] = p["commit"]
    BY ReadFields
  <2>8. p["commit"] = phases["commit"]
    BY <1>4, <2>3, AnswerPhases DEF PhaseName
  <2>9. ASSUME exit = "reverted"
        PROVE  \E c \in {"passed", "failed", "unknown"} :
                 /\ Begun(a, "passed", "passed", "passed", c, Report!RecoveryPhaseStatus(rec),
                          "passed")
                 /\ phases["commit"] = c
    <3>1. PICK c \in {"passed", "failed", "unknown"} :
            Opened(phases, "passed", "passed", "passed") /\ Went(phases, c, "passed", "passed")
      BY <1>7, <2>9 DEF PhasesAre
    <3>2. /\ rec \in {"completed", "unknown"}
          /\ rec = "completed" => Report!RecoveryPhaseStatus(rec) = "passed"
      BY <2>9 DEF rec, Report!RecoveryPhaseStatus
    <3>3. /\ Opened(p, "passed", "passed", "passed")
          /\ Went(p, c, Report!RecoveryPhaseStatus(rec), "passed")
      BY <1>4, <2>3, <3>1, <3>2, AnswerPhases DEF Opened, Went, PhaseName
    <3>4. Begun(a, "passed", "passed", "passed", c, Report!RecoveryPhaseStatus(rec), "passed")
      BY <3>3, ReadFields DEF Opened, Went, Begun
    <3>5. QED
      BY <3>1, <3>4 DEF Went
  <2> HIDE DEF a
  <2>10. Plain(a)
    BY <1>1, <1>3, <2>7, ReadPlain
  <2>11. exit \in Harmless => attempted = {}
    BY DEF NothingTried
  <2>12. ph["lock"] \notin {"failed", "unknown"}
    BY <1>2, <1>4, <1>7, <2>1 DEF PhasesAre, Opened, Exits
  <2>13. SUFFICES Known(a)
    BY <1>1, <1>4, <1>5, <2>3, <2>12, OneReading DEF a
  <2>14. CASE exit \in {"unjournaled", "stage"}
    <3>1. Begun(a, "passed", "failed", "none", "none", "none", "none")
      BY <1>7, <2>6, <2>14 DEF PhasesAre
    <3>2. attempted = {}
      BY <2>11, <2>14 DEF Harmless
    <3>3. Observed(a)
      <4>1. ops = [f \in Files |-> FailedOutcome(f)]
        BY <2>14 DEF ops, CleanedOutcomes
      <4>2. QED
        BY <2>7, <3>2, <4>1, UntriedOutcome DEF Observed
    <3>4. rec \in {"not-needed", "unknown"}
      BY <2>14 DEF rec
    <3>5. QED
      BY <2>4, <2>7, <2>10, <3>1, <3>2, <3>3, <3>4 DEF Known, KindUnstaged
  <2>15. CASE exit \in {"precommit", "zero"}
    <3> DEFINE v == Verdict(err.unknown)
    <3>1. \/ Begun(a, "passed", "passed", v, "none", "none", "none")
          \/ Begun(a, "passed", "passed", "passed", v, "none", "none")
      <4>1. CASE exit = "precommit"
        <5>1. Opened(phases, "passed", "passed", v) /\ Went(phases, "none", "none", "none")
          BY <1>7, <4>1 DEF PhasesAre
        <5> HIDE DEF v
        <5>2. QED
          BY <2>6, <5>1
      <4>2. CASE exit = "zero"
        <5>1. Opened(phases, "passed", "passed", "passed") /\ Went(phases, v, "none", "none")
          BY <1>7, <4>2 DEF PhasesAre
        <5> HIDE DEF v
        <5>2. QED
          BY <2>6, <5>1
      <4>3. QED
        BY <2>15, <4>1, <4>2
    <3>2. attempted = {}
      BY <2>11, <2>15 DEF Harmless
    <3>3. v \in {"failed", "unknown"} /\ (v = "unknown" <=> err.unknown = TRUE)
      BY DEF Verdict, TypeOK, CommitError
    <3> HIDE DEF v
    <3>4. CASE ~cleaned
      <4>1. rec = "unknown"
        BY <3>4 DEF rec
      <4>2. Every(a, {"unknown"})
        BY <2>7, <2>15, <3>4 DEF Every, ops, CleanedOutcomes, All
      <4>3. QED
        BY <2>4, <2>7, <2>10, <3>1, <3>2, <3>3, <4>1, <4>2 DEF Known, KindUntried
    <3>5. CASE cleaned /\ err.unknown
      <4>1. rec = "not-needed"
        BY <2>15, <3>5 DEF rec
      <4>2. err.reason # "OBSERVATION_FAILED"
        BY DEF TypeOK, CommitError, Reason, Conflict
      <4>3. Every(a, {"unknown"}) /\ \A f \in Files : a.ops[f].reason # "OBSERVATION_FAILED"
        BY <2>7, <2>15, <3>5, <4>2 DEF Every, ops, CleanedOutcomes, All
      <4>4. v = "unknown"
        BY <3>3, <3>5
      <4>5. QED
        BY <2>4, <2>7, <2>10, <3>1, <3>2, <4>1, <4>3, <4>4 DEF Known, KindUntried
    <3>6. CASE cleaned /\ ~err.unknown
      <4>1. rec = "not-needed"
        BY <2>15, <3>6 DEF rec
      <4>2. v = "failed"
        BY <3>3, <3>6
      <4>3. \/ ops = All("conflicted", err.reason)
            \/ ops = [f \in Files |-> FailedOutcome(f)]
        BY <2>15, <3>6 DEF ops, CleanedOutcomes
      <4>4. Every(a, {"conflicted"}) \/ Observed(a)
        BY <2>7, <3>2, <4>3, UntriedOutcome DEF Every, Observed, All
      <4>5. QED
        BY <2>4, <2>7, <2>10, <3>1, <3>2, <4>1, <4>2, <4>4 DEF Known, KindUntried
    <3>7. QED
      BY <3>4, <3>5, <3>6
  <2>16. CASE exit = "success"
    <3>1. Begun(a, "passed", "passed", "passed", "passed", "none", "passed")
      BY <1>7, <2>6, <2>16 DEF PhasesAre
    <3>2. attempted = Files
      BY <1>1, <2>5, <2>16 DEF RenamedSoFar
    <3>3. CASE cleaned
      <4>1. rec = "not-needed" /\ ops = outcome
        BY <2>16, <3>3 DEF rec, ops, CleanedOutcomes
      <4>2. Every(a, {"applied"})
        BY <2>5, <2>7, <2>16, <4>1 DEF Every, SuccessIsWhole
      <4>3. QED
        BY <2>4, <2>7, <2>10, <3>1, <3>2, <4>1, <4>2 DEF Known, KindReplaced
    <3>4. CASE ~cleaned
      <4>1. rec = "unknown"
        BY <3>4 DEF rec
      <4>2. Every(a, {"unknown"})
        BY <2>7, <2>16, <3>4 DEF Every, ops, CleanedOutcomes, All
      <4>3. QED
        BY <2>4, <2>7, <2>10, <3>1, <3>2, <4>1, <4>2 DEF Known, KindReplaced
    <3>5. QED
      BY <3>3, <3>4
  <2>17. CASE exit = "reverted"
    <3>1. PICK c \in {"passed", "failed", "unknown"} :
            /\ Begun(a, "passed", "passed", "passed", c, Report!RecoveryPhaseStatus(rec),
                     "passed")
            /\ phases["commit"] = c
      BY <2>9, <2>17
    <3>2. a.attempted # {}
      BY <2>7, <2>17 DEF TriedBeforeRecovery, TurningBack
    <3>3. c # "passed"
      BY <1>7, <2>17, <3>1 DEF NotBack, TurningBack
    <3>4. a.phases["commit"] = c
      BY <2>7, <2>8, <3>1
    <3>5. CASE cleaned
      <4>1. rec = "completed" /\ ops = outcome
        BY <2>17, <3>5 DEF rec, ops, CleanedOutcomes
      <4>2. err.reason \in Conflict => c = "failed"
        BY <2>17, <3>1 DEF PhasesSay, TurningBack
      <4>3. \A f \in Files :
              /\ a.ops[f].status \in {"conflicted", "reverted", "failed"}
              /\ a.ops[f].status = "conflicted" =>
                   f \notin a.attempted /\ a.ops[f].reason \in Conflict /\ c = "failed"
              /\ a.ops[f].status = "reverted" => f \in a.attempted
              /\ f \in a.attempted => a.ops[f].status = "reverted"
        BY <2>7, <2>17, <4>1, <4>2 DEF OutcomesRecorded, RevertedWasTried
      <4>4. KindRecovered(a)
        BY <2>4, <2>7, <3>1, <3>2, <3>3, <3>4, <4>1, <4>3 DEF KindRecovered
      <4>5. QED
        BY <2>10, <4>4 DEF Known
    <3>6. CASE ~cleaned
      <4>1. rec = "unknown"
        BY <3>6 DEF rec
      <4>2. \A f \in Files : a.ops[f].status = "unknown"
        BY <2>7, <2>17, <3>6 DEF ops, CleanedOutcomes, All
      <4>3. KindRecovered(a)
        BY <2>4, <2>7, <3>1, <3>2, <3>3, <3>4, <4>1, <4>2 DEF KindRecovered, Every
      <4>4. QED
        BY <2>10, <4>3 DEF Known
    <3>7. QED
      BY <3>5, <3>6
  <2>18. QED
    BY <1>2, <2>1, <2>14, <2>15, <2>16, <2>17 DEF Exits
<1>8. QED
  BY <1>6, <1>7

\* Only four steps answer, and nothing happens after an answer.
LEMMA OnlyAnswers ==
  ASSUME [Next]_vars, pc' = "done"
  PROVE  AnswerUnchanged \/ Refuse \/ Inspect \/ AnswerCleaned \/ UNCHANGED vars
<1>1. ASSUME TakeLock PROVE FALSE
  BY <1>1 DEF TakeLock
<1>2. ASSUME PrepareManagerFails PROVE FALSE
  BY <1>2 DEF PrepareManagerFails, Exit
<1>3. ASSUME StageTarget PROVE FALSE
  BY <1>3 DEF StageTarget, StagingFails, Exit
<1>4. ASSUME CreateJournal PROVE FALSE
  BY <1>4 DEF CreateJournal, StagingFails, Exit
<1>5. ASSUME PersistStaged PROVE FALSE
  BY <1>5 DEF PersistStaged, StagingFails, Exit
<1>6. ASSUME Precommit PROVE FALSE
  BY <1>6 DEF Precommit, Exit
<1>7. ASSUME PersistCommitting PROVE FALSE
  BY <1>7 DEF PersistCommitting, CommitFails, Exit
<1>8. ASSUME CheckTarget PROVE FALSE
  BY <1>8 DEF CheckTarget, CommitFails, Exit
<1>9. ASSUME PersistReplacing PROVE FALSE
  BY <1>9 DEF PersistReplacing, CommitFails, Exit
<1>10. ASSUME FinalCheck PROVE FALSE
  BY <1>10 DEF FinalCheck, CommitFails, Exit
<1>11. ASSUME Replace PROVE FALSE
  BY <1>11 DEF Replace, CommitFails, Exit
<1>12. ASSUME SettleReplace PROVE FALSE
  BY <1>12 DEF SettleReplace, CommitFails, Exit
<1>13. ASSUME RunManager PROVE FALSE
  BY <1>13 DEF RunManager
<1>14. ASSUME Observe PROVE FALSE
  BY <1>14 DEF Observe, CommitFails, Exit
<1>15. ASSUME Recovering PROVE FALSE
  BY <1>15 DEF Recovering
<1>16. ASSUME NoteFailure PROVE FALSE
  BY <1>16 DEF NoteFailure
<1>17. ASSUME RecoverTarget PROVE FALSE
  BY <1>17 DEF RecoverTarget, RecoverFails
<1>18. ASSUME Restore PROVE FALSE
  BY <1>18 DEF Restore, RecoverFails
<1>19. ASSUME SettleRestore PROVE FALSE
  BY <1>19 DEF SettleRestore, RecoverFails
<1>20. ASSUME FinishRecovery PROVE FALSE
  BY <1>20 DEF FinishRecovery
<1>21. ASSUME FinCheck PROVE FALSE
  BY <1>21 DEF FinCheck
<1>22. ASSUME FinTemp PROVE FALSE
  BY <1>22 DEF FinTemp
<1>23. ASSUME FinJournal PROVE FALSE
  BY <1>23 DEF FinJournal
<1>24. ASSUME FinRelease PROVE FALSE
  BY <1>24 DEF FinRelease
<1>25. ASSUME Crash PROVE FALSE
  BY <1>25 DEF Crash
<1>26. ASSUME NEW f \in Files, Edit(f) PROVE FALSE
  BY <1>26 DEF Edit, Others, Ended
<1>27. ASSUME NEW t \in Files, Tamper(t) PROVE FALSE
  BY <1>27 DEF Tamper, Others, Ended
<1>28. ASSUME MoveLock PROVE FALSE
  BY <1>28 DEF MoveLock, Others, Ended
<1>29. QED
  BY <1>1, <1>2, <1>3, <1>4, <1>5, <1>6, <1>7, <1>8, <1>9, <1>10, <1>11, <1>12, <1>13, <1>14,
     <1>15, <1>16, <1>17, <1>18, <1>19, <1>20, <1>21, <1>22, <1>23, <1>24, <1>25, <1>26, <1>27,
     <1>28
     DEF Next, Apply, Begin, Prepare, Commit, Recover, CleanUp

\* Every answer is of a known kind.
LEMMA KnownStep ==
  ASSUME EngineInvariant, EngineInvariant', FilesKept, AccountKept, CourseKept, AnswersKnown
  PROVE  [Next]_vars => AnswersKnown'
<1> SUFFICES ASSUME [Next]_vars PROVE AnswersKnown'
  OBVIOUS
<1>1. /\ TypeOK /\ WellPlaced /\ JournalFirst /\ SuccessIsWhole /\ WellPlaced'
      /\ NothingTried /\ TriedBeforeRecovery /\ OutcomesRecorded /\ Tidy /\ PhasesSay
      /\ RenamedSoFar /\ NotBack /\ PhasesAre /\ RevertedWasTried
  BY DEF EngineInvariant, FilesKept, AccountKept, CourseKept
<1>2. CASE pc' # "done"
  BY <1>1, <1>2 DEF WellPlaced, AnswersKnown, ChecksAnswer
<1>3. CASE pc' = "done"
  <2>1. AnswerUnchanged \/ Refuse \/ Inspect \/ AnswerCleaned \/ UNCHANGED vars
    BY <1>3, OnlyAnswers
  <2>2. CASE UNCHANGED vars
    BY <2>2 DEF vars, fsVars, jnVars, ansVars, envVars, AnswersKnown, ChecksAnswer, Readings,
       Answered, NoVcs, LockRefused, Bare
  <2>3. QED
    BY <1>1, <1>3, <2>1, <2>2, UnchangedKnown, RefuseKnown, InspectKnown, CleanedKnown
<1>4. QED
  BY <1>2, <1>3

\* The third layer.
LEMMA CourseStep ==
  ASSUME EngineInvariant, FilesKept, AccountKept, CourseKept
  PROVE  [Next]_vars => CourseKept'
<1>1. /\ TypeOK /\ WellPlaced /\ JournalFirst /\ TriedBeforeRecovery /\ PhasesSay
      /\ RenamedSoFar /\ NotBack /\ PhasesAre /\ RevertedWasTried
  BY DEF EngineInvariant, AccountKept, CourseKept
<1>2. QED
  BY <1>1, RenamedStep, NotBackStep, PhasesAreStep, RevertedStep DEF CourseKept

\* A run has no course and no answer at the start.
LEMMA InitCourse == Init => CourseKept /\ AnswersKnown
<1> SUFFICES ASSUME Init PROVE CourseKept /\ AnswersKnown
  OBVIOUS
<1>1. /\ pc = "start" /\ exit = "none" /\ result = NoResult /\ manager.failed = FALSE
  BY DEF Init
<1>2. RenamedSoFar /\ NotBack /\ PhasesAre /\ RevertedWasTried
  BY <1>1 DEF RenamedSoFar, NotBack, PhasesAre, RevertedWasTried, Committing, Turned,
     TurningBack, Restoring
<1>3. AnswersKnown
  BY <1>1 DEF AnswersKnown, ChecksAnswer
<1>4. QED
  BY <1>2, <1>3 DEF CourseKept

----------------------------------------------------------------------------
(* What the headlines of a receipt say                                   *)

\* What the receipt's headlines say of an answer.
LEMMA HeadlineSays ==
  ASSUME NEW a, Known(a)
  PROVE  /\ Report!NoFilesChanged(a) =>
              /\ a.attempted = {}
              /\ a.recovery # "not-needed" =>
                   a.recovery = "unknown" /\ a.phases["cleanup"] # "unknown"
         /\ Report!ReceiptVerdict(a) = "complete" => \A f \in Files : a.ops[f].status = "applied"
<1> USE DEF Report!BlockingStatus
<1>1. Plain(a) /\ DOMAIN a.ops = Files /\ a.attempted \subseteq Files /\ a.owner = Owner
  BY DEF Known, Plain
<1>2. \A f \in Files : Report!Tried(a, f) <=> f \in a.attempted
  BY <1>1 DEF Report!Tried, Owner
<1>3. \A f : f \in Report!Blocking(a)
               <=> f \in Files /\ a.ops[f].status \in {"conflicted", "failed", "unknown"}
  BY <1>1 DEF Report!Blocking
<1>4. ASSUME Report!NoFilesChanged(a)
      PROVE  /\ a.attempted = {}
             /\ a.recovery # "not-needed" =>
                  a.recovery = "unknown" /\ a.phases["cleanup"] # "unknown"
  <2>1. /\ \A f \in Files : a.ops[f].status \notin {"applied", "reverted"}
        /\ \A f \in Files : a.ops[f].status \in {"conflicted", "failed", "unknown"} =>
                              f \notin a.attempted
        /\ a.phases["cleanup"] # "unknown" /\ a.recovery \notin {"completed", "partial"}
    BY <1>1, <1>2, <1>3, <1>4 DEF Report!NoFilesChanged, Report!RecoveryUncertain
  <2>2. a.recovery \in {"not-needed", "completed", "partial", "unknown"}
    BY DEF Known, KindEmpty, KindBarred, KindUnstaged, KindUntried, KindReplaced, KindRecovered
  <2>3. CASE KindEmpty(a)
    BY <1>1, <2>1, <2>2, <2>3 DEF KindEmpty, Files
  <2>4. CASE KindReplaced(a)
    BY <2>1, <2>4, EngineAssumption DEF KindReplaced, Every, Files
  <2>5. CASE KindRecovered(a)
    BY <1>1, <2>1, <2>5 DEF KindRecovered
  <2>6. CASE KindBarred(a) \/ KindUnstaged(a) \/ KindUntried(a)
    BY <2>1, <2>2, <2>6 DEF KindBarred, KindUnstaged, KindUntried
  <2>7. QED
    BY <2>3, <2>4, <2>5, <2>6 DEF Known
<1>5. ASSUME Report!ReceiptVerdict(a) = "complete"
      PROVE  \A f \in Files : a.ops[f].status = "applied"
  <2>1. \A f \in Files : a.ops[f].status \notin {"reverted", "conflicted", "failed", "unknown"}
    <3>1. /\ ~(\E f \in Files : a.ops[f].status = "reverted") /\ Report!Blocking(a) = {}
      BY <1>1, <1>5 DEF Report!ReceiptVerdict
    <3>2. QED
      BY <1>3, <3>1
  <2>2. CASE KindEmpty(a)
    BY <2>2 DEF KindEmpty, Files
  <2>3. CASE KindReplaced(a)
    BY <2>1, <2>3 DEF KindReplaced, Every
  <2>4. CASE KindRecovered(a)
    BY <1>1, <2>1, <2>4 DEF KindRecovered
  <2>5. CASE KindBarred(a) \/ KindUnstaged(a) \/ KindUntried(a)
    BY <2>1, <2>5, EngineAssumption
       DEF KindBarred, KindUnstaged, KindUntried, Every, Observed, Files
  <2>6. QED
    BY <2>2, <2>3, <2>4, <2>5 DEF Known
<1>6. QED
  BY <1>4, <1>5

\* The account of a known answer is sound.
LEMMA KnownIsSound ==
  ASSUME TypeOK, FilesKept, ResultIsSound, AnswersKnown, WellPlaced
  PROVE  AccountIsSound
<1>1. AccountAccepted
  BY ToldExactly DEF AccountAccepted, AnswersKnown
<1>2. ReceiptIsTrue
  <2> SUFFICES ASSUME ChecksAnswer, NEW a \in Readings
               PROVE  /\ Report!NoFilesChanged(a) =>
                           /\ \A f \in Files \ touched : file[f] = "orig"
                           /\ \A f \in Files : stage[f] = "none" /\ backup[f] = "none"
                           /\ ~run /\ lock \in {"none", "free"}
                      /\ Report!ReceiptVerdict(a) = "complete" =>
                           \A f \in Files \ touched : file[f] = "new"
    BY DEF ReceiptIsTrue
  <2>1. Known(a) /\ result # NoResult
    BY DEF AnswersKnown, ChecksAnswer
  <2>2. /\ a.recovery = result.recovery /\ a.attempted = attempted
        /\ a.phases["cleanup"] = result.phases["cleanup"] \/ LockRefused
    BY DEF Readings, Answered, Phases, PhaseName
  <2>3. \A f \in Files : a.ops[f].status = result.ops[f].status
    <3>1. a.ops \in {result.ops, NoVcs}
      BY DEF Readings, Answered
    <3>2. QED
      BY <3>1 DEF NoVcs
  <2>4. OutcomesHold /\ CleanMeansClean
    BY DEF ResultIsSound, ResultIsHonest
  <2>5. ASSUME Report!NoFilesChanged(a)
        PROVE  /\ \A f \in Files \ touched : file[f] = "orig"
               /\ \A f \in Files : stage[f] = "none" /\ backup[f] = "none"
               /\ ~run /\ lock \in {"none", "free"}
    <3>1. /\ attempted = {}
          /\ result.recovery # "not-needed" =>
               result.recovery = "unknown" /\ a.phases["cleanup"] # "unknown"
      BY <2>1, <2>2, <2>5, HeadlineSays
    <3>2. \A f \in Files \ touched : file[f] = "orig"
      BY <3>1 DEF FilesKept, Untouched
    <3>3. CASE result.recovery = "not-needed"
      BY <2>1, <2>4, <3>2, <3>3 DEF CleanMeansClean
    <3>4. CASE LockRefused
      BY <3>2, <3>4 DEF AnswersKnown, Bare
    <3>5. QED
      BY <2>2, <3>1, <3>3, <3>4 DEF AnswersKnown
  <2>6. ASSUME Report!ReceiptVerdict(a) = "complete"
        PROVE  \A f \in Files \ touched : file[f] = "new"
    <3>1. \A f \in Files : result.ops[f].status = "applied"
      BY <2>1, <2>3, <2>6, HeadlineSays
    <3>2. QED
      BY <2>1, <2>4, <3>1 DEF OutcomesHold, Claimed
  <2>7. QED
    BY <2>5, <2>6
<1>3. QED
  BY <1>1, <1>2 DEF AccountIsSound

\* The invariant the account rests on, in every state.
LEMMA AccountInvariance == Spec => []AccountInvariant
<1>1. Init => CourseKept /\ AnswersKnown
  BY InitCourse
<1>2. AnswersInvariant /\ AnswersInvariant' /\ CourseKept /\ AnswersKnown /\ [Next]_vars
        => (CourseKept /\ AnswersKnown)'
  BY CourseStep, KnownStep DEF AnswersInvariant
<1>3. QED
  BY <1>1, <1>2, AnswersInvariance, PTL DEF Spec, AccountInvariant

\* The account of an apply is sound: the record of the check run takes the answer in
\* every case but the three it is said to refuse, whatever the number of files and
\* whichever calls fail, and the headline of the receipt is true of the files.
THEOREM AccountSound == Spec => []AccountIsSound
<1>1. AccountInvariant => AccountIsSound
  BY KnownIsSound DEF AccountInvariant, AnswersInvariant, EngineInvariant
<1>2. QED
  BY <1>1, AccountInvariance, PTL
=============================================================================
