------------------------- MODULE ManagerPhaseProofs -------------------------
(***************************************************************************)
(* Type correctness and the inductive invariant of ManagerPhase, for any   *)
(* number of lockfiles, any faults and any number of environment steps,    *)
(* and of ProcessRunner, the processes it runs, for any number of them.    *)
(***************************************************************************)
EXTENDS ManagerPhase, ProcessRunner, TLAPS

USE ManagerAssumption

\* There is a target.
LEMMA SomeTarget == 1 \in Targets
BY ManagerAssumption DEF Targets

\* What the engine is told is a result.
LEMMA TellTyping ==
  ASSUME NEW at \in {"preflight", "run"}, NEW success \in BOOLEAN,
         NEW unknown \in BOOLEAN, NEW paths \in SUBSET Paths,
         NEW back \in SUBSET Targets, NEW effects \in BOOLEAN,
         NEW clean \in BOOLEAN,
         Tell(at, success, unknown, paths, back, effects, clean)
  PROVE  result' \in Result \cup {NoResult} /\ pc' = "done"
BY DEF Tell, Result

\* The changed paths of a snapshot are paths.
LEMMA ChangedTyping == Changed \in SUBSET Paths
BY DEF Changed, Paths

\* Refusing a preflight tells a result.
LEMMA RefuseTyping ==
  ASSUME NEW unknown \in BOOLEAN, NEW paths \in SUBSET Paths,
         Refuse(unknown, paths)
  PROVE  result' \in Result \cup {NoResult} /\ pc' = "done"
BY TellTyping DEF Refuse

\* A throw tells a result.
LEMMA ThrowsTyping ==
  Throws => result' \in Result \cup {NoResult} /\ pc' = "done"
<1>1. Targets \in SUBSET Paths
  BY DEF Paths
<1>2. QED
  BY <1>1, TellTyping DEF Throws

\* Every action keeps every variable in its type.
LEMMA TypingStep == TypeOK /\ [Next]_vars => TypeOK'
<1> SUFFICES ASSUME TypeOK PROVE [Next]_vars => TypeOK'
  OBVIOUS
<1> USE DEF diskVars, bookVars, askVars, sumVars, TypeOK
<1>1. ASSUME PrepareTarget PROVE TypeOK'
  <2>1. UNCHANGED <<idx, planned, file, sources, install, observed, executed,
                   backups, phaseFile, held, term, survivor, failure,
                   unrecovered, restored, own, edits, touched, blurred,
                   strayed>>
    BY <1>1 DEF PrepareTarget
  <2>2. /\ pc' \in Labels /\ idx' \in 0..(N + 1)
        /\ pc' \in OnTarget => idx' \in Targets
    BY <1>1
       DEF PrepareTarget, Refuse, Tell, TakeSnapshot, Labels, Running, Ended,
          OnTarget, Targets
  <2>3. result' \in Result \cup {NoResult}
    <3>1. CASE UNCHANGED result
      BY <3>1
    <3>2. CASE \E unknown \in BOOLEAN : Refuse(unknown, {})
      BY <3>2, RefuseTyping
    <3>3. QED
      BY <1>1, <3>1, <3>2, Zenon DEF PrepareTarget
  <2>4. snap' \in [Targets -> Content]
    BY <1>1 DEF PrepareTarget, Refuse, Tell, TakeSnapshot
  <2>5. dirty' \in BOOLEAN
    BY <1>1 DEF PrepareTarget, Refuse, Tell, TakeSnapshot
  <2>6. QED
    BY <2>1, <2>2, <2>3, <2>4, <2>5
<1>2. ASSUME PrepareVerdict PROVE TypeOK'
  <2>1. UNCHANGED <<planned, file, dirty, sources, install, snap, observed,
                   executed, backups, phaseFile, held, term, survivor,
                   failure, unrecovered, restored, own, edits, touched,
                   blurred, strayed>>
    BY <1>2 DEF PrepareVerdict
  <2>2. /\ pc' \in Labels /\ idx' \in 0..(N + 1)
        /\ pc' \in OnTarget => idx' \in Targets
    BY <1>2
       DEF PrepareVerdict, Refuse, Tell, Labels, Running, Ended, OnTarget,
          Targets
  <2>3. result' \in Result \cup {NoResult}
    <3>1. (term = "unknown") \in BOOLEAN /\ Changed \in SUBSET Paths
      BY ChangedTyping
    <3>2. CASE UNCHANGED result
      BY <3>1, <3>2
    <3>3. CASE \E unknown \in BOOLEAN, paths \in {{}, Changed} : Refuse(unknown, paths)
      BY <3>1, <3>3, RefuseTyping
    <3>4. QED
      BY <1>2, <3>1, <3>2, <3>3, Zenon DEF PrepareVerdict
  <2>4. QED
    BY <2>1, <2>2, <2>3
<1>3. ASSUME Prepared PROVE TypeOK'
  <2>1. UNCHANGED <<idx, planned, file, dirty, sources, install, snap,
                   observed, executed, backups, phaseFile, held, term,
                   survivor, failure, unrecovered, restored, result, own,
                   edits, touched, blurred, strayed>>
    BY <1>3 DEF Prepared
  <2>2. /\ pc' \in Labels /\ idx' \in 0..(N + 1)
        /\ pc' \in OnTarget => idx' \in Targets
    BY <1>3 DEF Prepared, Labels, Running, Ended, OnTarget, Targets
  <2>3. QED
    BY <2>1, <2>2
<1>4. ASSUME Capture PROVE TypeOK'
  <2>1. UNCHANGED <<planned, file, dirty, sources, install, snap, observed,
                   executed, backups, phaseFile, held, term, survivor,
                   failure, unrecovered, restored, own, edits, touched,
                   blurred, strayed>>
    BY <1>4 DEF Capture
  <2>2. /\ pc' \in Labels /\ idx' \in 0..(N + 1)
        /\ pc' \in OnTarget => idx' \in Targets
    BY <1>4 DEF Capture, Tell, Labels, Running, Ended, OnTarget, Targets
  <2>3. result' \in Result \cup {NoResult}
    <3>1. {Elsewhere} \in SUBSET Paths /\ {} \in SUBSET Paths
      BY DEF Paths
    <3>2. CASE UNCHANGED result
      BY <3>1, <3>2
    <3>3. CASE \E unknown \in BOOLEAN, paths \in SUBSET Paths :
               Tell("run", FALSE, unknown, paths, {}, FALSE, FALSE)
      BY <3>1, <3>3, TellTyping
    <3>4. QED
      BY <1>4, <3>1, <3>2, <3>3, Zenon DEF Capture
  <2>4. QED
    BY <2>1, <2>2, <2>3
<1>5. ASSUME Backup PROVE TypeOK'
  <2>1. UNCHANGED <<planned, file, dirty, sources, install, snap, observed,
                   executed, phaseFile, held, term, survivor, failure,
                   unrecovered, restored, own, edits, touched, blurred,
                   strayed>>
    BY <1>5 DEF Backup
  <2>2. /\ pc' \in Labels /\ idx' \in 0..(N + 1)
        /\ pc' \in OnTarget => idx' \in Targets
    BY <1>5 DEF Backup, Tell, Labels, Running, Ended, OnTarget, Targets
  <2>3. result' \in Result \cup {NoResult}
    <3>1. {} \in SUBSET Paths /\ \A t \in Targets : {t} \in SUBSET Paths
      BY DEF Paths
    <3>2. CASE UNCHANGED result
      BY <3>1, <3>2
    <3>3. CASE \E unknown \in BOOLEAN, paths \in SUBSET Paths :
               Tell("run", FALSE, unknown, paths, {}, FALSE, FALSE)
      BY <3>1, <3>3, TellTyping
    <3>4. QED
      BY <1>5, <3>1, <3>2, <3>3, Zenon DEF Backup
  <2>4. backups' \subseteq Targets
    BY <1>5 DEF Backup, Tell, Targets
  <2>5. QED
    BY <2>1, <2>2, <2>3, <2>4
<1>6. ASSUME WritePhaseFile PROVE TypeOK'
  <2>1. UNCHANGED <<idx, planned, file, dirty, sources, install, snap,
                   observed, executed, backups, held, term, survivor, failure,
                   unrecovered, restored, own, edits, touched, blurred,
                   strayed>>
    BY <1>6 DEF WritePhaseFile
  <2>2. /\ pc' \in Labels /\ idx' \in 0..(N + 1)
        /\ pc' \in OnTarget => idx' \in Targets
    BY <1>6
       DEF WritePhaseFile, Tell, Labels, Running, Ended, OnTarget, Targets
  <2>3. result' \in Result \cup {NoResult}
    <3>1. {Elsewhere} \in SUBSET Paths /\ {} \in SUBSET Paths
      BY DEF Paths
    <3>2. CASE UNCHANGED result
      BY <3>1, <3>2
    <3>3. CASE \E unknown \in BOOLEAN, paths \in SUBSET Paths :
               Tell("run", FALSE, unknown, paths, {}, FALSE, FALSE)
      BY <3>1, <3>3, TellTyping
    <3>4. QED
      BY <1>6, <3>1, <3>2, <3>3, Zenon DEF WritePhaseFile
  <2>4. phaseFile' \in BOOLEAN
    BY <1>6 DEF WritePhaseFile, Tell
  <2>5. QED
    BY <2>1, <2>2, <2>3, <2>4
<1>7. ASSUME BeginCommands PROVE TypeOK'
  <2>1. UNCHANGED <<planned, file, sources, install, observed, executed,
                   backups, phaseFile, held, term, survivor, failure,
                   unrecovered, restored, own, edits, touched, blurred,
                   strayed>>
    BY <1>7 DEF BeginCommands
  <2>2. /\ pc' \in Labels /\ idx' \in 0..(N + 1)
        /\ pc' \in OnTarget => idx' \in Targets
    BY <1>7
       DEF BeginCommands, Tell, TakeSnapshot, Throws, Labels, Running, Ended,
          OnTarget, Targets
  <2>3. result' \in Result \cup {NoResult}
    <3>1. {Elsewhere} \in SUBSET Paths /\ {} \in SUBSET Paths
      BY DEF Paths
    <3>2. CASE UNCHANGED result
      BY <3>1, <3>2
    <3>3. CASE Throws
      BY <3>1, <3>3, ThrowsTyping
    <3>4. CASE \E unknown \in BOOLEAN, paths \in SUBSET Paths :
               Tell("run", FALSE, unknown, paths, {}, FALSE, FALSE)
      BY <3>1, <3>4, TellTyping
    <3>5. QED
      BY <1>7, <3>1, <3>2, <3>3, <3>4, Zenon DEF BeginCommands
  <2>4. snap' \in [Targets -> Content]
    BY <1>7 DEF BeginCommands, Tell, TakeSnapshot, Throws
  <2>5. dirty' \in BOOLEAN
    BY <1>7 DEF BeginCommands, Tell, TakeSnapshot, Throws
  <2>6. QED
    BY <2>1, <2>2, <2>3, <2>4, <2>5
<1>8. ASSUME RunCommand PROVE TypeOK'
  <2>1. UNCHANGED <<idx, planned, file, dirty, sources, install, snap,
                   observed, executed, backups, phaseFile, held, term,
                   survivor, restored, own, edits, touched, blurred,
                   strayed>>
    BY <1>8 DEF RunCommand
  <2>2. /\ pc' \in Labels /\ idx' \in 0..(N + 1)
        /\ pc' \in OnTarget => idx' \in Targets
    BY <1>8, ThrowsTyping DEF RunCommand, Fail, Labels, Running, Ended, OnTarget, Targets
  <2>3. failure' \in Failure
    BY <1>8 DEF RunCommand, Fail, Failure
  <2>4. unrecovered' \subseteq Paths
    BY <1>8 DEF RunCommand, Fail, Paths, Targets, Elsewhere, Changed, OnTarget
  <2>5. result' \in Result \cup {NoResult}
    BY <1>8, ThrowsTyping, Zenon DEF RunCommand
  <2>6. QED
    BY <2>1, <2>2, <2>3, <2>4, <2>5
<1>9. ASSUME CommandEnds PROVE TypeOK'
  <2>1. UNCHANGED <<idx, planned, file, dirty, sources, install, snap,
                   observed, executed, backups, phaseFile, held, failure,
                   unrecovered, restored, result, own, edits, touched,
                   blurred, strayed>>
    BY <1>9 DEF CommandEnds
  <2>2. /\ pc' \in Labels /\ idx' \in 0..(N + 1)
        /\ pc' \in OnTarget => idx' \in Targets
    BY <1>9
       DEF CommandEnds, AfterRun, Running, Labels, Ended, OnTarget, Targets
  <2>3. term' \in Termination /\ survivor' \in BOOLEAN
    BY <1>9 DEF CommandEnds, AfterRun, Running, Termination
  <2>4. QED
    BY <2>1, <2>2, <2>3
<1>10. ASSUME CommandWrites PROVE TypeOK'
  <2>1. UNCHANGED <<pc, idx, planned, snap, observed, executed, backups,
                   phaseFile, held, term, survivor, failure, unrecovered,
                   restored, result, own, edits, touched, blurred>>
    BY <1>10 DEF CommandWrites
  <2>2. file' \in [Targets -> Content]
    BY <1>10 DEF CommandWrites, Running, Content
  <2>3. /\ dirty' \in BOOLEAN
        /\ sources' \in BOOLEAN
        /\ install' \in BOOLEAN
        /\ strayed' \in BOOLEAN
    BY <1>10 DEF CommandWrites, Running
  <2>4. QED
    BY <2>1, <2>2, <2>3
<1>11. ASSUME AfterCommand PROVE TypeOK'
  <2>1. UNCHANGED <<idx, planned, file, sources, install, backups, phaseFile,
                   term, survivor, failure, restored, own, edits, touched,
                   blurred, strayed>>
    BY <1>11 DEF AfterCommand
  <2>2. /\ pc' \in Labels /\ idx' \in 0..(N + 1)
        /\ pc' \in OnTarget => idx' \in Targets
    BY <1>11
       DEF AfterCommand, Throws, Tell, TakeSnapshot, Reread, Labels, Running,
          Ended, OnTarget, Targets
  <2>3. result' \in Result \cup {NoResult}
    <3>1. CASE UNCHANGED result
      BY <3>1
    <3>2. CASE Throws
      BY <3>2, ThrowsTyping
    <3>3. QED
      BY <1>11, <3>1, <3>2, Zenon DEF AfterCommand
  <2>4. snap' \in [Targets -> Content]
    BY <1>11 DEF AfterCommand, Throws, Tell, TakeSnapshot, Reread
  <2>5. observed' \in [Targets -> Content \cup {"none"}]
    BY <1>11 DEF AfterCommand, Throws, Tell, TakeSnapshot, Reread, Content
  <2>6. executed' \subseteq Targets
    BY <1>11
       DEF AfterCommand, Throws, Tell, TakeSnapshot, Reread, Targets, OnTarget
  <2>7. dirty' \in BOOLEAN /\ held' \in BOOLEAN
    BY <1>11 DEF AfterCommand, Throws, Tell, TakeSnapshot, Reread
  <2>8. unrecovered' \subseteq Paths
    BY <1>11
       DEF AfterCommand, Throws, Tell, TakeSnapshot, Reread, Paths, Targets,
          Elsewhere, Changed, OnTarget
  <2>9. QED
    BY <2>1, <2>2, <2>3, <2>4, <2>5, <2>6, <2>7, <2>8
<1>12. ASSUME JudgeCommand PROVE TypeOK'
  <2>1. UNCHANGED <<planned, file, dirty, sources, install, snap, observed,
                   executed, backups, phaseFile, held, term, survivor,
                   unrecovered, restored, result, own, edits, touched,
                   blurred, strayed>>
    BY <1>12 DEF JudgeCommand
  <2>2. /\ pc' \in Labels /\ idx' \in 0..(N + 1)
        /\ pc' \in OnTarget => idx' \in Targets
    BY <1>12 DEF JudgeCommand, Fail, Labels, Running, Ended, OnTarget, Targets
  <2>3. failure' \in Failure
    BY <1>12 DEF JudgeCommand, Fail, Failure
  <2>4. QED
    BY <2>1, <2>2, <2>3
<1>13. ASSUME CommandsDone PROVE TypeOK'
  <2>1. UNCHANGED <<planned, file, dirty, sources, install, snap, observed,
                   executed, backups, phaseFile, held, term, survivor,
                   failure, unrecovered, restored, result, own, edits,
                   touched, blurred, strayed>>
    BY <1>13 DEF CommandsDone
  <2>2. /\ pc' \in Labels /\ idx' \in 0..(N + 1)
        /\ pc' \in OnTarget => idx' \in Targets
    BY <1>13 DEF CommandsDone, Labels, Running, Ended, OnTarget, Targets
  <2>3. QED
    BY <2>1, <2>2
<1>14. ASSUME StartVerifier PROVE TypeOK'
  <2>1. UNCHANGED <<idx, planned, file, sources, install, observed, executed,
                   backups, phaseFile, held, survivor, unrecovered, restored,
                   result, own, edits, touched, blurred, strayed>>
    BY <1>14 DEF StartVerifier
  <2>2. /\ pc' \in Labels /\ idx' \in 0..(N + 1)
        /\ pc' \in OnTarget => idx' \in Targets
    BY <1>14
       DEF StartVerifier, TakeSnapshot, Labels, Running, Ended, OnTarget,
          Targets
  <2>3. snap' \in [Targets -> Content]
    BY <1>14 DEF StartVerifier, TakeSnapshot
  <2>4. dirty' \in BOOLEAN
    BY <1>14 DEF StartVerifier, TakeSnapshot
  <2>5. failure' \in Failure
    BY <1>14 DEF StartVerifier, TakeSnapshot, Failure
  <2>6. term' \in Termination
    BY <1>14 DEF StartVerifier, TakeSnapshot, Termination
  <2>7. QED
    BY <2>1, <2>2, <2>3, <2>4, <2>5, <2>6
<1>15. ASSUME AfterVerifier PROVE TypeOK'
  <2>1. UNCHANGED <<planned, file, dirty, sources, install, snap, observed,
                   executed, backups, phaseFile, held, term, survivor,
                   unrecovered, restored, result, own, edits, touched,
                   blurred, strayed>>
    BY <1>15 DEF AfterVerifier
  <2>2. /\ pc' \in Labels /\ idx' \in 0..(N + 1)
        /\ pc' \in OnTarget => idx' \in Targets
    BY <1>15
       DEF AfterVerifier, Fail, Labels, Running, Ended, OnTarget, Targets
  <2>3. failure' \in Failure
    BY <1>15 DEF AfterVerifier, Fail, Failure
  <2>4. QED
    BY <2>1, <2>2, <2>3
<1>16. ASSUME ArtifactVerdict PROVE TypeOK'
  <2>1. UNCHANGED <<idx, planned, file, dirty, sources, install, snap,
                   observed, executed, backups, phaseFile, held, term,
                   survivor, unrecovered, restored, result, own, edits,
                   touched, blurred, strayed>>
    BY <1>16 DEF ArtifactVerdict
  <2>2. /\ pc' \in Labels /\ idx' \in 0..(N + 1)
        /\ pc' \in OnTarget => idx' \in Targets
    BY <1>16
       DEF ArtifactVerdict, Fail, Labels, Running, Ended, OnTarget, Targets
  <2>3. failure' \in Failure
    BY <1>16 DEF ArtifactVerdict, Fail, Failure
  <2>4. QED
    BY <2>1, <2>2, <2>3
<1>17. ASSUME StartVerify PROVE TypeOK'
  <2>1. UNCHANGED <<idx, planned, file, sources, install, observed, executed,
                   backups, phaseFile, held, survivor, unrecovered, restored,
                   result, own, edits, touched, blurred, strayed>>
    BY <1>17 DEF StartVerify
  <2>2. /\ pc' \in Labels /\ idx' \in 0..(N + 1)
        /\ pc' \in OnTarget => idx' \in Targets
    BY <1>17
       DEF StartVerify, Fail, TakeSnapshot, Labels, Running, Ended, OnTarget,
          Targets
  <2>3. snap' \in [Targets -> Content]
    BY <1>17 DEF StartVerify, Fail, TakeSnapshot
  <2>4. dirty' \in BOOLEAN
    BY <1>17 DEF StartVerify, Fail, TakeSnapshot
  <2>5. failure' \in Failure
    BY <1>17 DEF StartVerify, Fail, TakeSnapshot, Failure
  <2>6. term' \in Termination
    BY <1>17 DEF StartVerify, Fail, TakeSnapshot, Termination
  <2>7. QED
    BY <2>1, <2>2, <2>3, <2>4, <2>5, <2>6
<1>18. ASSUME AfterVerify PROVE TypeOK'
  <2>1. UNCHANGED <<idx, planned, file, dirty, sources, install, snap,
                   executed, backups, phaseFile, held, term, survivor,
                   restored, result, own, edits, touched, blurred, strayed>>
    BY <1>18 DEF AfterVerify
  <2>2. /\ pc' \in Labels /\ idx' \in 0..(N + 1)
        /\ pc' \in OnTarget => idx' \in Targets
    BY <1>18
       DEF AfterVerify, Fail, Reread, AllHeld, LockfilesMatchObserved, Labels,
          Running, Ended, OnTarget, Targets
  <2>3. observed' \in [Targets -> Content \cup {"none"}]
    BY <1>18
       DEF AfterVerify, Fail, Reread, AllHeld, LockfilesMatchObserved, Content
  <2>4. failure' \in Failure
    BY <1>18
       DEF AfterVerify, Fail, Reread, AllHeld, LockfilesMatchObserved, Failure
  <2>5. unrecovered' \subseteq Paths
    BY <1>18
       DEF AfterVerify, Fail, Reread, AllHeld, LockfilesMatchObserved, Paths,
          Targets, Elsewhere, Changed, OnTarget
  <2>6. QED
    BY <2>1, <2>2, <2>3, <2>4, <2>5
<1>19. ASSUME SnapshotThrows PROVE TypeOK'
  <2>1. UNCHANGED <<idx, planned, file, dirty, sources, install, snap,
                   observed, executed, backups, phaseFile, held, term,
                   survivor, failure, unrecovered, restored, own, edits,
                   touched, blurred, strayed>>
    BY <1>19 DEF SnapshotThrows
  <2>2. /\ pc' \in Labels /\ idx' \in 0..(N + 1)
        /\ pc' \in OnTarget => idx' \in Targets
    BY <1>19
       DEF SnapshotThrows, Throws, Tell, Labels, Running, Ended, OnTarget,
          Targets
  <2>3. result' \in Result \cup {NoResult}
    BY <1>19, ThrowsTyping DEF SnapshotThrows
  <2>4. QED
    BY <2>1, <2>2, <2>3
<1>20. ASSUME BeginRecovery PROVE TypeOK'
  <2>1. UNCHANGED <<planned, file, dirty, sources, install, snap, observed,
                   executed, backups, phaseFile, term, survivor, failure,
                   unrecovered, restored, result, own, edits, touched,
                   blurred, strayed>>
    BY <1>20 DEF BeginRecovery
  <2>2. /\ pc' \in Labels /\ idx' \in 0..(N + 1)
        /\ pc' \in OnTarget => idx' \in Targets
    BY <1>20 DEF BeginRecovery, Labels, Running, Ended, OnTarget, Targets
  <2>3. held' \in BOOLEAN
    BY <1>20 DEF BeginRecovery
  <2>4. QED
    BY <2>1, <2>2, <2>3
<1>21. ASSUME RecoverLockfile PROVE TypeOK'
  <2>1. UNCHANGED <<planned, file, dirty, sources, install, snap, observed,
                   executed, backups, phaseFile, held, term, survivor, result,
                   own, edits, touched, blurred, strayed>>
    BY <1>21 DEF RecoverLockfile
  <2>2. /\ pc' \in Labels /\ idx' \in 0..(N + 1)
        /\ pc' \in OnTarget => idx' \in Targets
    BY <1>21
       DEF RecoverLockfile, Unrecovered, Fail, Labels, Running, Ended,
          OnTarget, Targets
  <2>3. failure' \in Failure
    BY <1>21 DEF RecoverLockfile, Unrecovered, Fail, Failure
  <2>4. unrecovered' \subseteq Paths /\ restored' \subseteq Targets
    BY <1>21
       DEF RecoverLockfile, Unrecovered, Fail, Paths, Targets, Elsewhere,
          Changed, OnTarget
  <2>5. QED
    BY <2>1, <2>2, <2>3, <2>4
<1>22. ASSUME CheckBeforeRename PROVE TypeOK'
  <2>1. UNCHANGED <<planned, file, dirty, sources, install, snap, observed,
                   executed, backups, phaseFile, held, term, survivor, result,
                   own, edits, touched, blurred, strayed>>
    BY <1>22 DEF CheckBeforeRename
  <2>2. /\ pc' \in Labels /\ idx' \in 0..(N + 1)
        /\ pc' \in OnTarget => idx' \in Targets
    BY <1>22
       DEF CheckBeforeRename, Unrecovered, Fail, Labels, Running, Ended,
          OnTarget, Targets
  <2>3. failure' \in Failure
    BY <1>22 DEF CheckBeforeRename, Unrecovered, Fail, Failure
  <2>4. unrecovered' \subseteq Paths /\ restored' \subseteq Targets
    BY <1>22
       DEF CheckBeforeRename, Unrecovered, Fail, Paths, Targets, Elsewhere,
          Changed, OnTarget
  <2>5. QED
    BY <2>1, <2>2, <2>3, <2>4
<1>23. ASSUME RenameLockfile PROVE TypeOK'
  <2>1. UNCHANGED <<planned, dirty, sources, install, snap, observed,
                   executed, backups, phaseFile, held, term, survivor, result,
                   own, edits, touched, blurred, strayed>>
    BY <1>23 DEF RenameLockfile
  <2>2. /\ pc' \in Labels /\ idx' \in 0..(N + 1)
        /\ pc' \in OnTarget => idx' \in Targets
    BY <1>23
       DEF RenameLockfile, Unrecovered, Fail, Labels, Running, Ended,
          OnTarget, Targets
  <2>3. file' \in [Targets -> Content]
    BY <1>23 DEF RenameLockfile, Unrecovered, Fail, Content
  <2>4. failure' \in Failure
    BY <1>23 DEF RenameLockfile, Unrecovered, Fail, Failure
  <2>5. unrecovered' \subseteq Paths /\ restored' \subseteq Targets
    BY <1>23
       DEF RenameLockfile, Unrecovered, Fail, Paths, Targets, Elsewhere,
          Changed, OnTarget
  <2>6. QED
    BY <2>1, <2>2, <2>3, <2>4, <2>5
<1>24. ASSUME SettleLockfile PROVE TypeOK'
  <2>1. UNCHANGED <<planned, file, dirty, sources, install, snap, observed,
                   executed, backups, phaseFile, held, term, survivor, result,
                   own, edits, touched, blurred, strayed>>
    BY <1>24 DEF SettleLockfile
  <2>2. /\ pc' \in Labels /\ idx' \in 0..(N + 1)
        /\ pc' \in OnTarget => idx' \in Targets
    BY <1>24
       DEF SettleLockfile, Unrecovered, Fail, Labels, Running, Ended,
          OnTarget, Targets
  <2>3. failure' \in Failure
    BY <1>24 DEF SettleLockfile, Unrecovered, Fail, Failure
  <2>4. unrecovered' \subseteq Paths /\ restored' \subseteq Targets
    BY <1>24
       DEF SettleLockfile, Unrecovered, Fail, Paths, Targets, Elsewhere,
          Changed, OnTarget
  <2>5. QED
    BY <2>1, <2>2, <2>3, <2>4
<1>25. ASSUME FailedExecution PROVE TypeOK'
  <2>1. UNCHANGED <<idx, planned, file, dirty, sources, install, snap,
                   observed, executed, backups, phaseFile, held, term,
                   survivor, failure, unrecovered, restored, own, edits,
                   touched, blurred, strayed>>
    BY <1>25 DEF FailedExecution
  <2>2. /\ pc' \in Labels /\ idx' \in 0..(N + 1)
        /\ pc' \in OnTarget => idx' \in Targets
    BY <1>25
       DEF FailedExecution, Tell, Labels, Running, Ended, OnTarget, Targets
  <2>3. result' \in Result \cup {NoResult}
    <3>1. /\ (executed # {}) \in BOOLEAN
          /\ (executed # {} \/ failure = "unknown") \in BOOLEAN
          /\ unrecovered \in SUBSET Paths /\ restored \in SUBSET Targets
      OBVIOUS
    <3>2. \/ UNCHANGED result
          \/ \E unknown \in BOOLEAN, effects \in BOOLEAN :
               Tell("run", FALSE, unknown, unrecovered, restored, effects, FALSE)
      BY <1>25, <3>1, Zenon DEF FailedExecution
    <3>3. CASE UNCHANGED result
      BY <3>3
    <3>4. ASSUME NEW unknown \in BOOLEAN, NEW effects \in BOOLEAN,
                 Tell("run", FALSE, unknown, unrecovered, restored, effects, FALSE)
          PROVE  result' \in Result \cup {NoResult}
      BY <3>1, <3>4 DEF Tell, Result
    <3>5. QED
      BY <3>2, <3>3, <3>4
  <2>4. QED
    BY <2>1, <2>2, <2>3
<1>26. ASSUME FinalLook PROVE TypeOK'
  <2>1. UNCHANGED <<idx, planned, file, dirty, sources, install, snap,
                   observed, executed, backups, phaseFile, held, term,
                   survivor, failure, unrecovered, restored, own, edits,
                   touched, blurred, strayed>>
    BY <1>26 DEF FinalLook
  <2>2. /\ pc' \in Labels /\ idx' \in 0..(N + 1)
        /\ pc' \in OnTarget => idx' \in Targets
    BY <1>26
       DEF FinalLook, Tell, LockfilesMatchObserved, Labels, Running, Ended,
          OnTarget, Targets
  <2>3. result' \in Result \cup {NoResult}
    <3>1. {Paths, Targets, {Elsewhere}, {}} \subseteq SUBSET Paths
      BY DEF Paths
    <3>2. CASE UNCHANGED result
      BY <3>1, <3>2
    <3>3. CASE \E paths \in SUBSET Paths :
               Tell("run", FALSE, TRUE, paths, {}, TRUE, FALSE)
      BY <3>1, <3>3, TellTyping
    <3>4. QED
      BY <1>26, <3>1, <3>2, <3>3, Zenon DEF FinalLook
  <2>4. QED
    BY <2>1, <2>2, <2>3
<1>27. ASSUME CleanupArtifacts PROVE TypeOK'
  <2>1. UNCHANGED <<idx, planned, file, dirty, sources, install, snap,
                   observed, executed, held, term, survivor, failure,
                   unrecovered, restored, result, own, edits, touched,
                   blurred, strayed>>
    BY <1>27 DEF CleanupArtifacts
  <2>2. /\ pc' \in Labels /\ idx' \in 0..(N + 1)
        /\ pc' \in OnTarget => idx' \in Targets
    BY <1>27 DEF CleanupArtifacts, Labels, Running, Ended, OnTarget, Targets
  <2>3. backups' \subseteq Targets /\ phaseFile' \in BOOLEAN
    BY <1>27 DEF CleanupArtifacts, Targets
  <2>4. QED
    BY <2>1, <2>2, <2>3
<1>28. ASSUME Report PROVE TypeOK'
  <2>1. UNCHANGED <<idx, planned, file, dirty, sources, install, snap,
                   observed, executed, backups, phaseFile, held, term,
                   survivor, failure, unrecovered, restored, own, edits,
                   touched, blurred, strayed>>
    BY <1>28 DEF Report
  <2>2. /\ pc' \in Labels /\ idx' \in 0..(N + 1)
        /\ pc' \in OnTarget => idx' \in Targets
    BY <1>28 DEF Report, Tell, Labels, Running, Ended, OnTarget, Targets
  <2>3. result' \in Result \cup {NoResult}
    <3>1. PICK clean \in BOOLEAN : clean <=> pc = "cleaned"
      BY Zenon
    <3>2. \/ Tell("run", FALSE, failure = "unknown", {}, restored, FALSE, clean)
          \/ Tell("run", clean, ~clean, {}, {}, TRUE, clean)
      BY <1>28, <3>1 DEF Report, Tell
    <3>3. (failure = "unknown") \in BOOLEAN /\ (~clean) \in BOOLEAN
      BY <3>1, Zenon
    <3>4. {} \in SUBSET Paths /\ {} \in SUBSET Targets /\ restored \in SUBSET Targets
      OBVIOUS
    <3>5. QED
      BY <3>1, <3>2, <3>3, <3>4, TellTyping, Zenon
  <2>4. QED
    BY <2>1, <2>2, <2>3
<1>29. ASSUME Crash PROVE TypeOK'
  <2>1. UNCHANGED <<idx, planned, file, dirty, sources, install, snap,
                   observed, executed, backups, phaseFile, held, term,
                   survivor, failure, unrecovered, restored, result, own,
                   edits, touched, blurred, strayed>>
    BY <1>29 DEF Crash
  <2>2. /\ pc' \in Labels /\ idx' \in 0..(N + 1)
        /\ pc' \in OnTarget => idx' \in Targets
    BY <1>29 DEF Crash, Labels, Running, Ended, OnTarget, Targets
  <2>3. QED
    BY <2>1, <2>2
<1>30. ASSUME NEW t \in Targets, EditLockfile(t) PROVE TypeOK'
  <2>1. UNCHANGED <<pc, idx, planned, dirty, sources, install, snap, observed,
                   executed, backups, phaseFile, held, term, survivor,
                   failure, unrecovered, restored, result, own, strayed>>
    BY <1>30 DEF EditLockfile
  <2>2. file' \in [Targets -> Content]
    BY <1>30 DEF EditLockfile, Others, Content
  <2>3. edits' \in 0..MaxEdits
    BY <1>30 DEF EditLockfile, Others
  <2>4. touched' \subseteq Paths /\ blurred' \subseteq Targets
    BY <1>30 DEF EditLockfile, Others, Paths, Elsewhere
  <2>5. QED
    BY <2>1, <2>2, <2>3, <2>4
<1>31. ASSUME EditElsewhere PROVE TypeOK'
  <2>1. UNCHANGED <<pc, idx, planned, file, snap, observed, executed, backups,
                   phaseFile, held, term, survivor, failure, unrecovered,
                   restored, result, blurred, strayed>>
    BY <1>31 DEF EditElsewhere
  <2>2. dirty' \in BOOLEAN /\ sources' \in BOOLEAN /\ install' \in BOOLEAN
    BY <1>31 DEF EditElsewhere, Others
  <2>3. own' \in BOOLEAN
    BY <1>31, Zenon DEF EditElsewhere
  <2>4. edits' \in 0..MaxEdits
    BY <1>31 DEF EditElsewhere, Others
  <2>5. touched' \subseteq Paths
    BY <1>31 DEF EditElsewhere, Others, Paths, Elsewhere
  <2>6. QED
    BY <2>1, <2>2, <2>3, <2>4, <2>5
<1>32. ASSUME UNCHANGED vars PROVE TypeOK'
  BY <1>32 DEF vars
<1>33. QED
  BY <1>1, <1>2, <1>3, <1>4, <1>5, <1>6, <1>7, <1>8, <1>9, <1>10,
     <1>11, <1>12, <1>13, <1>14, <1>15, <1>16, <1>17, <1>18, <1>19, <1>20,
     <1>21, <1>22, <1>23, <1>24, <1>25, <1>26, <1>27, <1>28, <1>29, <1>30,
     <1>31, <1>32
     DEF Next, Phases, Preflight, Commands, Verifying, Recovery, Ending

\* A result is there only at the end.
LEMMA AnswerlessStep ==
  ASSUME TypeOK, Answerless
  PROVE  [Next]_vars => Answerless'
<1> USE DEF diskVars, bookVars, askVars, sumVars, TypeOK, Answerless, Early,
            Syncing, Checking, Restoring, Closing, Running, Ended, OnTarget
<1>1. ASSUME PrepareTarget PROVE Answerless'
  BY <1>1 DEF PrepareTarget, Refuse, Tell, TakeSnapshot
<1>2. ASSUME PrepareVerdict PROVE Answerless'
  BY <1>2 DEF PrepareVerdict, Refuse, Tell
<1>3. ASSUME Prepared PROVE Answerless'
  BY <1>3 DEF Prepared
<1>4. ASSUME Capture PROVE Answerless'
  BY <1>4 DEF Capture, Tell
<1>5. ASSUME Backup PROVE Answerless'
  BY <1>5 DEF Backup, Tell
<1>6. ASSUME WritePhaseFile PROVE Answerless'
  BY <1>6 DEF WritePhaseFile, Tell
<1>7. ASSUME BeginCommands PROVE Answerless'
  BY <1>7 DEF BeginCommands, Tell, TakeSnapshot, Throws
<1>8. ASSUME RunCommand PROVE Answerless'
  BY <1>8 DEF RunCommand, Fail, Throws, Tell
<1>9. ASSUME CommandEnds PROVE Answerless'
  BY <1>9 DEF CommandEnds, AfterRun
<1>10. ASSUME CommandWrites PROVE Answerless'
  BY <1>10 DEF CommandWrites
<1>11. ASSUME AfterCommand PROVE Answerless'
  BY <1>11 DEF AfterCommand, Throws, Tell, TakeSnapshot, Reread
<1>12. ASSUME JudgeCommand PROVE Answerless'
  BY <1>12 DEF JudgeCommand, Fail
<1>13. ASSUME CommandsDone PROVE Answerless'
  BY <1>13 DEF CommandsDone
<1>14. ASSUME StartVerifier PROVE Answerless'
  BY <1>14 DEF StartVerifier, TakeSnapshot
<1>15. ASSUME AfterVerifier PROVE Answerless'
  BY <1>15 DEF AfterVerifier, Fail
<1>16. ASSUME ArtifactVerdict PROVE Answerless'
  BY <1>16 DEF ArtifactVerdict, Fail
<1>17. ASSUME StartVerify PROVE Answerless'
  BY <1>17 DEF StartVerify, Fail, TakeSnapshot
<1>18. ASSUME AfterVerify PROVE Answerless'
  BY <1>18 DEF AfterVerify, Fail, Reread, AllHeld, LockfilesMatchObserved
<1>19. ASSUME SnapshotThrows PROVE Answerless'
  BY <1>19 DEF SnapshotThrows, Throws, Tell
<1>20. ASSUME BeginRecovery PROVE Answerless'
  BY <1>20 DEF BeginRecovery
<1>21. ASSUME RecoverLockfile PROVE Answerless'
  BY <1>21 DEF RecoverLockfile, Unrecovered, Fail
<1>22. ASSUME CheckBeforeRename PROVE Answerless'
  BY <1>22 DEF CheckBeforeRename, Unrecovered, Fail
<1>23. ASSUME RenameLockfile PROVE Answerless'
  BY <1>23 DEF RenameLockfile, Unrecovered, Fail
<1>24. ASSUME SettleLockfile PROVE Answerless'
  BY <1>24 DEF SettleLockfile, Unrecovered, Fail
<1>25. ASSUME FailedExecution PROVE Answerless'
  BY <1>25 DEF FailedExecution, Tell
<1>26. ASSUME FinalLook PROVE Answerless'
  BY <1>26 DEF FinalLook, Tell, LockfilesMatchObserved
<1>27. ASSUME CleanupArtifacts PROVE Answerless'
  BY <1>27 DEF CleanupArtifacts
<1>28. ASSUME Report PROVE Answerless'
  BY <1>28 DEF Report, Tell
<1>29. ASSUME Crash PROVE Answerless'
  BY <1>29 DEF Crash
<1>30. ASSUME NEW t \in Targets, EditLockfile(t) PROVE Answerless'
  BY <1>30 DEF EditLockfile, Others
<1>31. ASSUME EditElsewhere PROVE Answerless'
  BY <1>31 DEF EditElsewhere, Others
<1>32. ASSUME UNCHANGED vars PROVE Answerless'
  BY <1>32 DEF vars
<1>33. QED
  BY <1>1, <1>2, <1>3, <1>4, <1>5, <1>6, <1>7, <1>8, <1>9, <1>10,
     <1>11, <1>12, <1>13, <1>14, <1>15, <1>16, <1>17, <1>18, <1>19, <1>20,
     <1>21, <1>22, <1>23, <1>24, <1>25, <1>26, <1>27, <1>28, <1>29, <1>30,
     <1>31, <1>32
     DEF Next, Phases, Preflight, Commands, Verifying, Recovery, Ending

\* Backups and phase file come before the first command.
LEMMA EvidenceStep ==
  ASSUME TypeOK, EvidenceComes
  PROVE  [Next]_vars => EvidenceComes'
<1> USE DEF diskVars, bookVars, askVars, sumVars, TypeOK, EvidenceComes,
            NothingStarted, Early, Syncing, Checking, Restoring, Closing,
            Running, Ended, OnTarget
<1>1. ASSUME PrepareTarget PROVE EvidenceComes'
  BY <1>1 DEF PrepareTarget, Refuse, Tell, TakeSnapshot
<1>2. ASSUME PrepareVerdict PROVE EvidenceComes'
  BY <1>2 DEF PrepareVerdict, Refuse, Tell
<1>3. ASSUME Prepared PROVE EvidenceComes'
  BY <1>3 DEF Prepared
<1>4. ASSUME Capture PROVE EvidenceComes'
  BY <1>4 DEF Capture, Tell, Targets
<1>5. ASSUME Backup PROVE EvidenceComes'
  BY <1>5 DEF Backup, Tell
<1>6. ASSUME WritePhaseFile PROVE EvidenceComes'
  <2>1. pc' = "begin" => \A t \in Targets : t < idx
    BY <1>6 DEF WritePhaseFile, Tell, Targets
  <2>2. QED
    BY <1>6, <2>1 DEF WritePhaseFile, Tell
<1>7. ASSUME BeginCommands PROVE EvidenceComes'
  BY <1>7 DEF BeginCommands, Tell, TakeSnapshot, Throws
<1>8. ASSUME RunCommand PROVE EvidenceComes'
  BY <1>8 DEF RunCommand, Fail, Throws, Tell
<1>9. ASSUME CommandEnds PROVE EvidenceComes'
  BY <1>9 DEF CommandEnds, AfterRun
<1>10. ASSUME CommandWrites PROVE EvidenceComes'
  BY <1>10 DEF CommandWrites
<1>11. ASSUME AfterCommand PROVE EvidenceComes'
  BY <1>11 DEF AfterCommand, Throws, Tell, TakeSnapshot, Reread
<1>12. ASSUME JudgeCommand PROVE EvidenceComes'
  BY <1>12 DEF JudgeCommand, Fail
<1>13. ASSUME CommandsDone PROVE EvidenceComes'
  BY <1>13 DEF CommandsDone
<1>14. ASSUME StartVerifier PROVE EvidenceComes'
  BY <1>14 DEF StartVerifier, TakeSnapshot
<1>15. ASSUME AfterVerifier PROVE EvidenceComes'
  BY <1>15 DEF AfterVerifier, Fail
<1>16. ASSUME ArtifactVerdict PROVE EvidenceComes'
  BY <1>16 DEF ArtifactVerdict, Fail
<1>17. ASSUME StartVerify PROVE EvidenceComes'
  BY <1>17 DEF StartVerify, Fail, TakeSnapshot
<1>18. ASSUME AfterVerify PROVE EvidenceComes'
  BY <1>18 DEF AfterVerify, Fail, Reread, AllHeld, LockfilesMatchObserved
<1>19. ASSUME SnapshotThrows PROVE EvidenceComes'
  BY <1>19 DEF SnapshotThrows, Throws, Tell
<1>20. ASSUME BeginRecovery PROVE EvidenceComes'
  BY <1>20 DEF BeginRecovery
<1>21. ASSUME RecoverLockfile PROVE EvidenceComes'
  BY <1>21 DEF RecoverLockfile, Unrecovered, Fail
<1>22. ASSUME CheckBeforeRename PROVE EvidenceComes'
  BY <1>22 DEF CheckBeforeRename, Unrecovered, Fail
<1>23. ASSUME RenameLockfile PROVE EvidenceComes'
  BY <1>23 DEF RenameLockfile, Unrecovered, Fail
<1>24. ASSUME SettleLockfile PROVE EvidenceComes'
  BY <1>24 DEF SettleLockfile, Unrecovered, Fail
<1>25. ASSUME FailedExecution PROVE EvidenceComes'
  BY <1>25 DEF FailedExecution, Tell
<1>26. ASSUME FinalLook PROVE EvidenceComes'
  BY <1>26 DEF FinalLook, Tell, LockfilesMatchObserved
<1>27. ASSUME CleanupArtifacts PROVE EvidenceComes'
  BY <1>27 DEF CleanupArtifacts
<1>28. ASSUME Report PROVE EvidenceComes'
  BY <1>28 DEF Report, Tell
<1>29. ASSUME Crash PROVE EvidenceComes'
  BY <1>29 DEF Crash
<1>30. ASSUME NEW t \in Targets, EditLockfile(t) PROVE EvidenceComes'
  BY <1>30 DEF EditLockfile, Others
<1>31. ASSUME EditElsewhere PROVE EvidenceComes'
  BY <1>31 DEF EditElsewhere, Others
<1>32. ASSUME UNCHANGED vars PROVE EvidenceComes'
  BY <1>32 DEF vars
<1>33. QED
  BY <1>1, <1>2, <1>3, <1>4, <1>5, <1>6, <1>7, <1>8, <1>9, <1>10,
     <1>11, <1>12, <1>13, <1>14, <1>15, <1>16, <1>17, <1>18, <1>19, <1>20,
     <1>21, <1>22, <1>23, <1>24, <1>25, <1>26, <1>27, <1>28, <1>29, <1>30,
     <1>31, <1>32
     DEF Next, Phases, Preflight, Commands, Verifying, Recovery, Ending

\* The commands run in order.
LEMMA OrderStep ==
  ASSUME TypeOK, EvidenceComes, CommandsInOrder
  PROVE  [Next]_vars => CommandsInOrder'
<1> USE DEF diskVars, bookVars, askVars, sumVars, TypeOK, EvidenceComes,
            CommandsInOrder, NothingStarted, Early, Syncing, Checking,
            Restoring, Closing, Running, Ended, OnTarget
<1>1. ASSUME PrepareTarget PROVE CommandsInOrder'
  BY <1>1 DEF PrepareTarget, Refuse, Tell, TakeSnapshot
<1>2. ASSUME PrepareVerdict PROVE CommandsInOrder'
  BY <1>2 DEF PrepareVerdict, Refuse, Tell
<1>3. ASSUME Prepared PROVE CommandsInOrder'
  BY <1>3 DEF Prepared
<1>4. ASSUME Capture PROVE CommandsInOrder'
  BY <1>4 DEF Capture, Tell
<1>5. ASSUME Backup PROVE CommandsInOrder'
  BY <1>5 DEF Backup, Tell
<1>6. ASSUME WritePhaseFile PROVE CommandsInOrder'
  BY <1>6 DEF WritePhaseFile, Tell
<1>7. ASSUME BeginCommands PROVE CommandsInOrder'
  BY <1>7 DEF BeginCommands, Tell, TakeSnapshot, Throws, Targets
<1>8. ASSUME RunCommand PROVE CommandsInOrder'
  BY <1>8 DEF RunCommand, Fail, Throws, Tell
<1>9. ASSUME CommandEnds PROVE CommandsInOrder'
  BY <1>9 DEF CommandEnds, AfterRun
<1>10. ASSUME CommandWrites PROVE CommandsInOrder'
  BY <1>10 DEF CommandWrites
<1>11. ASSUME AfterCommand PROVE CommandsInOrder'
  BY <1>11 DEF AfterCommand, Throws, Tell, TakeSnapshot, Reread
<1>12. ASSUME JudgeCommand PROVE CommandsInOrder'
  BY <1>12 DEF JudgeCommand, Fail, Targets
<1>13. ASSUME CommandsDone PROVE CommandsInOrder'
  <2>1. \A t \in Targets : t < idx
    BY <1>13 DEF CommandsDone, Targets
  <2>2. executed = Targets /\ \A t \in Targets : observed[t] = "synced"
    BY <1>13, <2>1 DEF CommandsDone
  <2>3. QED
    BY <1>13, <2>2 DEF CommandsDone
<1>14. ASSUME StartVerifier PROVE CommandsInOrder'
  BY <1>14 DEF StartVerifier, TakeSnapshot
<1>15. ASSUME AfterVerifier PROVE CommandsInOrder'
  BY <1>15 DEF AfterVerifier, Fail
<1>16. ASSUME ArtifactVerdict PROVE CommandsInOrder'
  BY <1>16 DEF ArtifactVerdict, Fail
<1>17. ASSUME StartVerify PROVE CommandsInOrder'
  BY <1>17 DEF StartVerify, Fail, TakeSnapshot
<1>18. ASSUME AfterVerify PROVE CommandsInOrder'
  BY <1>18 DEF AfterVerify, Fail, Reread, AllHeld, LockfilesMatchObserved
<1>19. ASSUME SnapshotThrows PROVE CommandsInOrder'
  BY <1>19 DEF SnapshotThrows, Throws, Tell
<1>20. ASSUME BeginRecovery PROVE CommandsInOrder'
  BY <1>20 DEF BeginRecovery
<1>21. ASSUME RecoverLockfile PROVE CommandsInOrder'
  BY <1>21 DEF RecoverLockfile, Unrecovered, Fail
<1>22. ASSUME CheckBeforeRename PROVE CommandsInOrder'
  BY <1>22 DEF CheckBeforeRename, Unrecovered, Fail
<1>23. ASSUME RenameLockfile PROVE CommandsInOrder'
  BY <1>23 DEF RenameLockfile, Unrecovered, Fail
<1>24. ASSUME SettleLockfile PROVE CommandsInOrder'
  BY <1>24 DEF SettleLockfile, Unrecovered, Fail
<1>25. ASSUME FailedExecution PROVE CommandsInOrder'
  BY <1>25 DEF FailedExecution, Tell
<1>26. ASSUME FinalLook PROVE CommandsInOrder'
  BY <1>26 DEF FinalLook, Tell, LockfilesMatchObserved
<1>27. ASSUME CleanupArtifacts PROVE CommandsInOrder'
  BY <1>27 DEF CleanupArtifacts
<1>28. ASSUME Report PROVE CommandsInOrder'
  BY <1>28 DEF Report, Tell
<1>29. ASSUME Crash PROVE CommandsInOrder'
  BY <1>29 DEF Crash
<1>30. ASSUME NEW t \in Targets, EditLockfile(t) PROVE CommandsInOrder'
  BY <1>30 DEF EditLockfile, Others
<1>31. ASSUME EditElsewhere PROVE CommandsInOrder'
  BY <1>31 DEF EditElsewhere, Others
<1>32. ASSUME UNCHANGED vars PROVE CommandsInOrder'
  BY <1>32 DEF vars
<1>33. QED
  BY <1>1, <1>2, <1>3, <1>4, <1>5, <1>6, <1>7, <1>8, <1>9, <1>10,
     <1>11, <1>12, <1>13, <1>14, <1>15, <1>16, <1>17, <1>18, <1>19, <1>20,
     <1>21, <1>22, <1>23, <1>24, <1>25, <1>26, <1>27, <1>28, <1>29, <1>30,
     <1>31, <1>32
     DEF Next, Phases, Preflight, Commands, Verifying, Recovery, Ending

\* Recovery has a reason, unknown when nothing was started.
LEMMA FailureStep ==
  ASSUME TypeOK, CommandsInOrder, FailureIsKnown
  PROVE  [Next]_vars => FailureIsKnown'
<1> USE DEF diskVars, bookVars, askVars, sumVars, TypeOK, CommandsInOrder,
            FailureIsKnown, Early, Syncing, Checking, Restoring, Closing,
            Running, Ended, OnTarget
<1>1. ASSUME PrepareTarget PROVE FailureIsKnown'
  BY <1>1 DEF PrepareTarget, Refuse, Tell, TakeSnapshot
<1>2. ASSUME PrepareVerdict PROVE FailureIsKnown'
  BY <1>2 DEF PrepareVerdict, Refuse, Tell
<1>3. ASSUME Prepared PROVE FailureIsKnown'
  BY <1>3 DEF Prepared
<1>4. ASSUME Capture PROVE FailureIsKnown'
  BY <1>4 DEF Capture, Tell
<1>5. ASSUME Backup PROVE FailureIsKnown'
  BY <1>5 DEF Backup, Tell
<1>6. ASSUME WritePhaseFile PROVE FailureIsKnown'
  BY <1>6 DEF WritePhaseFile, Tell
<1>7. ASSUME BeginCommands PROVE FailureIsKnown'
  BY <1>7 DEF BeginCommands, Tell, TakeSnapshot, Throws
<1>8. ASSUME RunCommand PROVE FailureIsKnown'
  BY <1>8 DEF RunCommand, Fail, Throws, Tell
<1>9. ASSUME CommandEnds PROVE FailureIsKnown'
  BY <1>9 DEF CommandEnds, AfterRun
<1>10. ASSUME CommandWrites PROVE FailureIsKnown'
  BY <1>10 DEF CommandWrites
<1>11. ASSUME AfterCommand PROVE FailureIsKnown'
  BY <1>11 DEF AfterCommand, Throws, Tell, TakeSnapshot, Reread
<1>12. ASSUME JudgeCommand PROVE FailureIsKnown'
  BY <1>12 DEF JudgeCommand, Fail
<1>13. ASSUME CommandsDone PROVE FailureIsKnown'
  BY <1>13 DEF CommandsDone
<1>14. ASSUME StartVerifier PROVE FailureIsKnown'
  BY <1>14 DEF StartVerifier, TakeSnapshot
<1>15. ASSUME AfterVerifier PROVE FailureIsKnown'
  BY <1>15 DEF AfterVerifier, Fail
<1>16. ASSUME ArtifactVerdict PROVE FailureIsKnown'
  BY <1>16, SomeTarget DEF ArtifactVerdict, Fail
<1>17. ASSUME StartVerify PROVE FailureIsKnown'
  BY <1>17 DEF StartVerify, Fail, TakeSnapshot
<1>18. ASSUME AfterVerify PROVE FailureIsKnown'
  BY <1>18, SomeTarget DEF AfterVerify, Fail
<1>19. ASSUME SnapshotThrows PROVE FailureIsKnown'
  BY <1>19 DEF SnapshotThrows, Throws, Tell
<1>20. ASSUME BeginRecovery PROVE FailureIsKnown'
  BY <1>20 DEF BeginRecovery
<1>21. ASSUME RecoverLockfile PROVE FailureIsKnown'
  BY <1>21 DEF RecoverLockfile, Unrecovered, Fail
<1>22. ASSUME CheckBeforeRename PROVE FailureIsKnown'
  BY <1>22 DEF CheckBeforeRename, Unrecovered, Fail
<1>23. ASSUME RenameLockfile PROVE FailureIsKnown'
  BY <1>23 DEF RenameLockfile, Unrecovered, Fail
<1>24. ASSUME SettleLockfile PROVE FailureIsKnown'
  BY <1>24 DEF SettleLockfile, Unrecovered, Fail
<1>25. ASSUME FailedExecution PROVE FailureIsKnown'
  BY <1>25 DEF FailedExecution, Tell
<1>26. ASSUME FinalLook PROVE FailureIsKnown'
  BY <1>26 DEF FinalLook, Tell, LockfilesMatchObserved
<1>27. ASSUME CleanupArtifacts PROVE FailureIsKnown'
  BY <1>27 DEF CleanupArtifacts
<1>28. ASSUME Report PROVE FailureIsKnown'
  BY <1>28 DEF Report, Tell
<1>29. ASSUME Crash PROVE FailureIsKnown'
  BY <1>29 DEF Crash
<1>30. ASSUME NEW t \in Targets, EditLockfile(t) PROVE FailureIsKnown'
  BY <1>30 DEF EditLockfile, Others
<1>31. ASSUME EditElsewhere PROVE FailureIsKnown'
  BY <1>31 DEF EditElsewhere, Others
<1>32. ASSUME UNCHANGED vars PROVE FailureIsKnown'
  BY <1>32 DEF vars
<1>33. QED
  BY <1>1, <1>2, <1>3, <1>4, <1>5, <1>6, <1>7, <1>8, <1>9, <1>10,
     <1>11, <1>12, <1>13, <1>14, <1>15, <1>16, <1>17, <1>18, <1>19, <1>20,
     <1>21, <1>22, <1>23, <1>24, <1>25, <1>26, <1>27, <1>28, <1>29, <1>30,
     <1>31, <1>32
     DEF Next, Phases, Preflight, Commands, Verifying, Recovery, Ending

\* The evidence is deleted when it is not needed.
LEMMA ClosingStep ==
  ASSUME TypeOK, CommandsInOrder, FailureIsKnown, ClosingIsSafe
  PROVE  [Next]_vars => ClosingIsSafe'
<1> USE DEF diskVars, bookVars, askVars, sumVars, TypeOK, CommandsInOrder,
            FailureIsKnown, ClosingIsSafe, Original, Early, Syncing, Checking,
            Restoring, Closing, Running, Ended, OnTarget
<1>1. ASSUME PrepareTarget PROVE ClosingIsSafe'
  BY <1>1 DEF PrepareTarget, Refuse, Tell, TakeSnapshot
<1>2. ASSUME PrepareVerdict PROVE ClosingIsSafe'
  BY <1>2 DEF PrepareVerdict, Refuse, Tell
<1>3. ASSUME Prepared PROVE ClosingIsSafe'
  BY <1>3 DEF Prepared
<1>4. ASSUME Capture PROVE ClosingIsSafe'
  BY <1>4 DEF Capture, Tell
<1>5. ASSUME Backup PROVE ClosingIsSafe'
  BY <1>5 DEF Backup, Tell
<1>6. ASSUME WritePhaseFile PROVE ClosingIsSafe'
  BY <1>6 DEF WritePhaseFile, Tell
<1>7. ASSUME BeginCommands PROVE ClosingIsSafe'
  BY <1>7 DEF BeginCommands, Tell, TakeSnapshot, Throws
<1>8. ASSUME RunCommand PROVE ClosingIsSafe'
  BY <1>8 DEF RunCommand, Fail, Throws, Tell
<1>9. ASSUME CommandEnds PROVE ClosingIsSafe'
  BY <1>9 DEF CommandEnds, AfterRun
<1>10. ASSUME CommandWrites PROVE ClosingIsSafe'
  BY <1>10 DEF CommandWrites
<1>11. ASSUME AfterCommand PROVE ClosingIsSafe'
  BY <1>11 DEF AfterCommand, Throws, Tell, TakeSnapshot, Reread
<1>12. ASSUME JudgeCommand PROVE ClosingIsSafe'
  BY <1>12 DEF JudgeCommand, Fail
<1>13. ASSUME CommandsDone PROVE ClosingIsSafe'
  BY <1>13 DEF CommandsDone
<1>14. ASSUME StartVerifier PROVE ClosingIsSafe'
  BY <1>14 DEF StartVerifier, TakeSnapshot
<1>15. ASSUME AfterVerifier PROVE ClosingIsSafe'
  BY <1>15 DEF AfterVerifier, Fail
<1>16. ASSUME ArtifactVerdict PROVE ClosingIsSafe'
  BY <1>16 DEF ArtifactVerdict, Fail
<1>17. ASSUME StartVerify PROVE ClosingIsSafe'
  BY <1>17 DEF StartVerify, Fail, TakeSnapshot
<1>18. ASSUME AfterVerify PROVE ClosingIsSafe'
  BY <1>18 DEF AfterVerify, Fail, Reread, AllHeld, LockfilesMatchObserved
<1>19. ASSUME SnapshotThrows PROVE ClosingIsSafe'
  BY <1>19 DEF SnapshotThrows, Throws, Tell
<1>20. ASSUME BeginRecovery PROVE ClosingIsSafe'
  BY <1>20 DEF BeginRecovery
<1>21. ASSUME RecoverLockfile PROVE ClosingIsSafe'
  BY <1>21 DEF RecoverLockfile, Unrecovered, Fail
<1>22. ASSUME CheckBeforeRename PROVE ClosingIsSafe'
  BY <1>22 DEF CheckBeforeRename, Unrecovered, Fail
<1>23. ASSUME RenameLockfile PROVE ClosingIsSafe'
  BY <1>23 DEF RenameLockfile, Unrecovered, Fail
<1>24. ASSUME SettleLockfile PROVE ClosingIsSafe'
  BY <1>24 DEF SettleLockfile, Unrecovered, Fail
<1>25. ASSUME FailedExecution PROVE ClosingIsSafe'
  BY <1>25 DEF FailedExecution, Tell
<1>26. ASSUME FinalLook PROVE ClosingIsSafe'
  BY <1>26 DEF FinalLook, Tell, LockfilesMatchObserved
<1>27. ASSUME CleanupArtifacts PROVE ClosingIsSafe'
  BY <1>27 DEF CleanupArtifacts
<1>28. ASSUME Report PROVE ClosingIsSafe'
  BY <1>28 DEF Report, Tell
<1>29. ASSUME Crash PROVE ClosingIsSafe'
  BY <1>29 DEF Crash
<1>30. ASSUME NEW t \in Targets, EditLockfile(t) PROVE ClosingIsSafe'
  BY <1>30 DEF EditLockfile, Others
<1>31. ASSUME EditElsewhere PROVE ClosingIsSafe'
  BY <1>31 DEF EditElsewhere, Others
<1>32. ASSUME UNCHANGED vars PROVE ClosingIsSafe'
  BY <1>32 DEF vars
<1>33. QED
  BY <1>1, <1>2, <1>3, <1>4, <1>5, <1>6, <1>7, <1>8, <1>9, <1>10,
     <1>11, <1>12, <1>13, <1>14, <1>15, <1>16, <1>17, <1>18, <1>19, <1>20,
     <1>21, <1>22, <1>23, <1>24, <1>25, <1>26, <1>27, <1>28, <1>29, <1>30,
     <1>31, <1>32
     DEF Next, Phases, Preflight, Commands, Verifying, Recovery, Ending

\* Others' bytes are told apart from a command's.
LEMMA BlurStep ==
  ASSUME TypeOK, EvidenceComes, CommandsInOrder, ForeignIsBlurred
  PROVE  [Next]_vars => ForeignIsBlurred'
<1> USE DEF diskVars, bookVars, askVars, sumVars, TypeOK, EvidenceComes,
            CommandsInOrder, ForeignIsBlurred, NothingStarted, Content,
            Targets, Early, Syncing, Checking, Restoring, Closing, Running,
            Ended, OnTarget
<1>1. ASSUME PrepareTarget PROVE ForeignIsBlurred'
  BY <1>1 DEF PrepareTarget, Refuse, Tell, TakeSnapshot
<1>2. ASSUME PrepareVerdict PROVE ForeignIsBlurred'
  BY <1>2 DEF PrepareVerdict, Refuse, Tell
<1>3. ASSUME Prepared PROVE ForeignIsBlurred'
  BY <1>3 DEF Prepared
<1>4. ASSUME Capture PROVE ForeignIsBlurred'
  BY <1>4 DEF Capture, Tell
<1>5. ASSUME Backup PROVE ForeignIsBlurred'
  BY <1>5 DEF Backup, Tell
<1>6. ASSUME WritePhaseFile PROVE ForeignIsBlurred'
  BY <1>6 DEF WritePhaseFile, Tell
<1>7. ASSUME BeginCommands PROVE ForeignIsBlurred'
  BY <1>7 DEF BeginCommands, Tell, TakeSnapshot, Throws
<1>8. ASSUME RunCommand PROVE ForeignIsBlurred'
  <2>1. UNCHANGED <<file, observed, blurred, idx>>
    BY <1>8 DEF RunCommand
  <2>2. CASE pc' = "recovery"
    BY <1>8, <2>1, <2>2 DEF RunCommand
  <2>3. CASE pc' = "syncing" /\ LockfilesMatchExpected /\ idx \in Targets
    <3>1. observed[idx] = "none"
      BY <1>8 DEF RunCommand
    <3>2. file[idx] = "orig"
      BY <2>3, <3>1 DEF LockfilesMatchExpected
    <3>3. file[idx] \notin Foreign
      BY <3>2, ManagerAssumption
    <3>4. QED
      BY <1>8, <2>1, <2>3, <3>3 DEF RunCommand
  <2>4. CASE pc' = "done"
    BY <1>8, <2>1, <2>4 DEF RunCommand
  <2>5. QED
    BY <1>8, <2>2, <2>3, <2>4 DEF RunCommand, Throws, Tell
<1>9. ASSUME CommandEnds PROVE ForeignIsBlurred'
  BY <1>9 DEF CommandEnds, AfterRun
<1>10. ASSUME CommandWrites PROVE ForeignIsBlurred'
  <2>1. UNCHANGED <<pc, idx, observed, blurred>> /\ pc # "rename"
    BY <1>10 DEF CommandWrites
  <2>2. \A u \in Targets : file'[u] \in Foreign => file[u] \in Foreign
    <3>1. CASE UNCHANGED file
      BY <3>1
    <3>2. CASE \E u \in Targets, c \in {"synced", "broken", "gone"} :
                 file' = [file EXCEPT ![u] = c]
      BY <3>2, ManagerAssumption
    <3>3. QED
      BY <1>10, <3>1, <3>2 DEF CommandWrites
  <2>3. QED
    BY <2>1, <2>2
<1>11. ASSUME AfterCommand PROVE ForeignIsBlurred'
  BY <1>11 DEF AfterCommand, Throws, Tell, TakeSnapshot, Reread
<1>12. ASSUME JudgeCommand PROVE ForeignIsBlurred'
  BY <1>12 DEF JudgeCommand, Fail
<1>13. ASSUME CommandsDone PROVE ForeignIsBlurred'
  BY <1>13 DEF CommandsDone
<1>14. ASSUME StartVerifier PROVE ForeignIsBlurred'
  BY <1>14 DEF StartVerifier, TakeSnapshot
<1>15. ASSUME AfterVerifier PROVE ForeignIsBlurred'
  BY <1>15 DEF AfterVerifier, Fail
<1>16. ASSUME ArtifactVerdict PROVE ForeignIsBlurred'
  BY <1>16 DEF ArtifactVerdict, Fail
<1>17. ASSUME StartVerify PROVE ForeignIsBlurred'
  <2>1. UNCHANGED <<file, observed, blurred, idx>>
    BY <1>17 DEF StartVerify
  <2>2. CASE pc' = "recovery"
    BY <1>17, <2>1, <2>2 DEF StartVerify
  <2>3. CASE pc' \in {"verifying", "verified"} /\ AllHeld
    <3>1. \A t \in Targets : file[t] = "synced"
      BY <1>17, <2>3 DEF StartVerify, AllHeld, LockfilesMatchObserved
    <3>2. \A t \in Targets : file[t] \notin Foreign
      BY <3>1, ManagerAssumption
    <3>3. QED
      BY <1>17, <2>1, <2>3, <3>2 DEF StartVerify
  <2>4. QED
    BY <1>17, <2>2, <2>3 DEF StartVerify
<1>18. ASSUME AfterVerify PROVE ForeignIsBlurred'
  BY <1>18 DEF AfterVerify, Fail, Reread, AllHeld, LockfilesMatchObserved
<1>19. ASSUME SnapshotThrows PROVE ForeignIsBlurred'
  BY <1>19 DEF SnapshotThrows, Throws, Tell
<1>20. ASSUME BeginRecovery PROVE ForeignIsBlurred'
  BY <1>20 DEF BeginRecovery
<1>21. ASSUME RecoverLockfile PROVE ForeignIsBlurred'
  BY <1>21 DEF RecoverLockfile, Unrecovered, Fail
<1>22. ASSUME CheckBeforeRename PROVE ForeignIsBlurred'
  BY <1>22 DEF CheckBeforeRename, Unrecovered, Fail
<1>23. ASSUME RenameLockfile PROVE ForeignIsBlurred'
  BY <1>23 DEF RenameLockfile, Unrecovered, Fail
<1>24. ASSUME SettleLockfile PROVE ForeignIsBlurred'
  BY <1>24 DEF SettleLockfile, Unrecovered, Fail
<1>25. ASSUME FailedExecution PROVE ForeignIsBlurred'
  BY <1>25 DEF FailedExecution, Tell
<1>26. ASSUME FinalLook PROVE ForeignIsBlurred'
  BY <1>26 DEF FinalLook, Tell, LockfilesMatchObserved
<1>27. ASSUME CleanupArtifacts PROVE ForeignIsBlurred'
  BY <1>27 DEF CleanupArtifacts
<1>28. ASSUME Report PROVE ForeignIsBlurred'
  BY <1>28 DEF Report, Tell
<1>29. ASSUME Crash PROVE ForeignIsBlurred'
  BY <1>29 DEF Crash
<1>30. ASSUME NEW t \in Targets, EditLockfile(t) PROVE ForeignIsBlurred'
  <2>1. UNCHANGED <<pc, idx, observed>> /\ blurred \subseteq blurred'
    BY <1>30 DEF EditLockfile
  <2>2. \A u \in Targets : u # t => file'[u] = file[u]
    BY <1>30 DEF EditLockfile
  <2>3. Attributable(t) => t \in blurred'
    BY <1>30 DEF EditLockfile
  <2>4. pc \in {"syncing", "synced", "rename"} /\ t = idx => t \in blurred'
    BY <2>3 DEF Attributable
  <2>5. pc \in {"verifying", "verified"} => t \in blurred'
    BY <2>3 DEF Attributable
  <2>6. QED
    BY <2>1, <2>2, <2>4, <2>5
<1>31. ASSUME EditElsewhere PROVE ForeignIsBlurred'
  BY <1>31 DEF EditElsewhere, Others
<1>32. ASSUME UNCHANGED vars PROVE ForeignIsBlurred'
  BY <1>32 DEF vars
<1>33. QED
  BY <1>1, <1>2, <1>3, <1>4, <1>5, <1>6, <1>7, <1>8, <1>9, <1>10,
     <1>11, <1>12, <1>13, <1>14, <1>15, <1>16, <1>17, <1>18, <1>19, <1>20,
     <1>21, <1>22, <1>23, <1>24, <1>25, <1>26, <1>27, <1>28, <1>29, <1>30,
     <1>31, <1>32
     DEF Next, Phases, Preflight, Commands, Verifying, Recovery, Ending

\* Rewritten lockfiles stay backed up.
LEMMA BackedUpStep ==
  ASSUME TypeOK, EvidenceComes, CommandsInOrder, ClosingIsSafe,
         OriginalsAreBackedUp
  PROVE  [Next]_vars => OriginalsAreBackedUp'
<1> USE DEF diskVars, bookVars, askVars, sumVars, TypeOK, EvidenceComes,
            CommandsInOrder, ClosingIsSafe, OriginalsAreBackedUp,
            NothingStarted, Early, Syncing, Checking, Restoring, Closing,
            Running, Ended, OnTarget
<1>1. ASSUME PrepareTarget PROVE OriginalsAreBackedUp'
  BY <1>1 DEF PrepareTarget, Refuse, Tell, TakeSnapshot
<1>2. ASSUME PrepareVerdict PROVE OriginalsAreBackedUp'
  BY <1>2 DEF PrepareVerdict, Refuse, Tell
<1>3. ASSUME Prepared PROVE OriginalsAreBackedUp'
  BY <1>3 DEF Prepared
<1>4. ASSUME Capture PROVE OriginalsAreBackedUp'
  BY <1>4 DEF Capture, Tell
<1>5. ASSUME Backup PROVE OriginalsAreBackedUp'
  BY <1>5 DEF Backup, Tell
<1>6. ASSUME WritePhaseFile PROVE OriginalsAreBackedUp'
  BY <1>6 DEF WritePhaseFile, Tell
<1>7. ASSUME BeginCommands PROVE OriginalsAreBackedUp'
  BY <1>7 DEF BeginCommands, Tell, TakeSnapshot, Throws
<1>8. ASSUME RunCommand PROVE OriginalsAreBackedUp'
  BY <1>8 DEF RunCommand, Fail, Throws, Tell
<1>9. ASSUME CommandEnds PROVE OriginalsAreBackedUp'
  BY <1>9 DEF CommandEnds, AfterRun
<1>10. ASSUME CommandWrites PROVE OriginalsAreBackedUp'
  BY <1>10 DEF CommandWrites
<1>11. ASSUME AfterCommand PROVE OriginalsAreBackedUp'
  BY <1>11 DEF AfterCommand, Throws, Tell, TakeSnapshot, Reread
<1>12. ASSUME JudgeCommand PROVE OriginalsAreBackedUp'
  BY <1>12 DEF JudgeCommand, Fail
<1>13. ASSUME CommandsDone PROVE OriginalsAreBackedUp'
  BY <1>13 DEF CommandsDone
<1>14. ASSUME StartVerifier PROVE OriginalsAreBackedUp'
  BY <1>14 DEF StartVerifier, TakeSnapshot
<1>15. ASSUME AfterVerifier PROVE OriginalsAreBackedUp'
  BY <1>15 DEF AfterVerifier, Fail
<1>16. ASSUME ArtifactVerdict PROVE OriginalsAreBackedUp'
  BY <1>16 DEF ArtifactVerdict, Fail
<1>17. ASSUME StartVerify PROVE OriginalsAreBackedUp'
  BY <1>17 DEF StartVerify, Fail, TakeSnapshot
<1>18. ASSUME AfterVerify PROVE OriginalsAreBackedUp'
  BY <1>18 DEF AfterVerify, Fail, Reread, AllHeld, LockfilesMatchObserved
<1>19. ASSUME SnapshotThrows PROVE OriginalsAreBackedUp'
  BY <1>19 DEF SnapshotThrows, Throws, Tell
<1>20. ASSUME BeginRecovery PROVE OriginalsAreBackedUp'
  BY <1>20 DEF BeginRecovery
<1>21. ASSUME RecoverLockfile PROVE OriginalsAreBackedUp'
  BY <1>21 DEF RecoverLockfile, Unrecovered, Fail
<1>22. ASSUME CheckBeforeRename PROVE OriginalsAreBackedUp'
  BY <1>22 DEF CheckBeforeRename, Unrecovered, Fail
<1>23. ASSUME RenameLockfile PROVE OriginalsAreBackedUp'
  BY <1>23 DEF RenameLockfile, Unrecovered, Fail
<1>24. ASSUME SettleLockfile PROVE OriginalsAreBackedUp'
  BY <1>24 DEF SettleLockfile, Unrecovered, Fail
<1>25. ASSUME FailedExecution PROVE OriginalsAreBackedUp'
  BY <1>25 DEF FailedExecution, Tell
<1>26. ASSUME FinalLook PROVE OriginalsAreBackedUp'
  BY <1>26 DEF FinalLook, Tell, LockfilesMatchObserved
<1>27. ASSUME CleanupArtifacts PROVE OriginalsAreBackedUp'
  BY <1>27 DEF CleanupArtifacts
<1>28. ASSUME Report PROVE OriginalsAreBackedUp'
  BY <1>28 DEF Report, Tell
<1>29. ASSUME Crash PROVE OriginalsAreBackedUp'
  BY <1>29 DEF Crash
<1>30. ASSUME NEW t \in Targets, EditLockfile(t) PROVE OriginalsAreBackedUp'
  BY <1>30 DEF EditLockfile, Others
<1>31. ASSUME EditElsewhere PROVE OriginalsAreBackedUp'
  BY <1>31 DEF EditElsewhere, Others
<1>32. ASSUME UNCHANGED vars PROVE OriginalsAreBackedUp'
  BY <1>32 DEF vars
<1>33. QED
  BY <1>1, <1>2, <1>3, <1>4, <1>5, <1>6, <1>7, <1>8, <1>9, <1>10,
     <1>11, <1>12, <1>13, <1>14, <1>15, <1>16, <1>17, <1>18, <1>19, <1>20,
     <1>21, <1>22, <1>23, <1>24, <1>25, <1>26, <1>27, <1>28, <1>29, <1>30,
     <1>31, <1>32
     DEF Next, Phases, Preflight, Commands, Verifying, Recovery, Ending

\* The engine gets what it relies on.
LEMMA ContractStep ==
  ASSUME TypeOK, EvidenceComes, CommandsInOrder, FailureIsKnown,
         ClosingIsSafe, Answerless, EngineContract
  PROVE  [Next]_vars => EngineContract'
<1> USE DEF diskVars, bookVars, askVars, sumVars, TypeOK, EvidenceComes,
            CommandsInOrder, FailureIsKnown, ClosingIsSafe, Answerless,
            EngineContract, NothingStarted, NoResult, Elsewhere, Early,
            Syncing, Checking, Restoring, Closing, Running, Ended, OnTarget
<1>1. ASSUME PrepareTarget PROVE EngineContract'
  BY <1>1 DEF PrepareTarget, Refuse, Tell, TakeSnapshot
<1>2. ASSUME PrepareVerdict PROVE EngineContract'
  BY <1>2 DEF PrepareVerdict, Refuse, Tell
<1>3. ASSUME Prepared PROVE EngineContract'
  BY <1>3 DEF Prepared
<1>4. ASSUME Capture PROVE EngineContract'
  BY <1>4 DEF Capture, Tell
<1>5. ASSUME Backup PROVE EngineContract'
  <2>1. CASE UNCHANGED result
    BY <1>5, <2>1, Zenon DEF Backup
  <2>2. CASE result'.unknown \/ result'.unrecovered = {idx}
    <3>1. executed' = {} /\ {idx} # {}
      BY <1>5 DEF Backup
    <3>2. QED
      BY <2>2, <3>1, Zenon
  <2>3. QED
    BY <1>5, <2>1, <2>2 DEF Backup, Tell
<1>6. ASSUME WritePhaseFile PROVE EngineContract'
  BY <1>6 DEF WritePhaseFile, Tell
<1>7. ASSUME BeginCommands PROVE EngineContract'
  BY <1>7 DEF BeginCommands, Tell, TakeSnapshot, Throws
<1>8. ASSUME RunCommand PROVE EngineContract'
  BY <1>8 DEF RunCommand, Fail, Throws, Tell
<1>9. ASSUME CommandEnds PROVE EngineContract'
  BY <1>9 DEF CommandEnds, AfterRun
<1>10. ASSUME CommandWrites PROVE EngineContract'
  BY <1>10 DEF CommandWrites
<1>11. ASSUME AfterCommand PROVE EngineContract'
  BY <1>11 DEF AfterCommand, Throws, Tell, TakeSnapshot, Reread
<1>12. ASSUME JudgeCommand PROVE EngineContract'
  BY <1>12 DEF JudgeCommand, Fail
<1>13. ASSUME CommandsDone PROVE EngineContract'
  BY <1>13 DEF CommandsDone
<1>14. ASSUME StartVerifier PROVE EngineContract'
  BY <1>14 DEF StartVerifier, TakeSnapshot
<1>15. ASSUME AfterVerifier PROVE EngineContract'
  BY <1>15 DEF AfterVerifier, Fail
<1>16. ASSUME ArtifactVerdict PROVE EngineContract'
  BY <1>16 DEF ArtifactVerdict, Fail
<1>17. ASSUME StartVerify PROVE EngineContract'
  BY <1>17 DEF StartVerify, Fail, TakeSnapshot
<1>18. ASSUME AfterVerify PROVE EngineContract'
  BY <1>18 DEF AfterVerify, Fail, Reread, AllHeld, LockfilesMatchObserved
<1>19. ASSUME SnapshotThrows PROVE EngineContract'
  BY <1>19 DEF SnapshotThrows, Throws, Tell
<1>20. ASSUME BeginRecovery PROVE EngineContract'
  BY <1>20 DEF BeginRecovery
<1>21. ASSUME RecoverLockfile PROVE EngineContract'
  BY <1>21 DEF RecoverLockfile, Unrecovered, Fail
<1>22. ASSUME CheckBeforeRename PROVE EngineContract'
  BY <1>22 DEF CheckBeforeRename, Unrecovered, Fail
<1>23. ASSUME RenameLockfile PROVE EngineContract'
  BY <1>23 DEF RenameLockfile, Unrecovered, Fail
<1>24. ASSUME SettleLockfile PROVE EngineContract'
  BY <1>24 DEF SettleLockfile, Unrecovered, Fail
<1>25. ASSUME FailedExecution PROVE EngineContract'
  <2>1. executed' = executed
    BY <1>25 DEF FailedExecution
  <2>2. CASE UNCHANGED result
    BY <2>1, <2>2, Zenon
  <2>3. CASE /\ executed # {} \/ unrecovered # {}
             /\ Tell("run", FALSE, executed # {} \/ failure = "unknown",
                     unrecovered, restored, executed # {}, FALSE)
    <3>1. /\ result'.unknown = (executed # {} \/ failure = "unknown")
          /\ result'.effects = (executed # {})
          /\ result'.unrecovered = unrecovered
      BY <2>3, Zenon DEF Tell
    <3>2. QED
      BY <2>1, <2>3, <3>1, Zenon
  <2>4. QED
    BY <1>25, <2>2, <2>3, Zenon DEF FailedExecution
<1>26. ASSUME FinalLook PROVE EngineContract'
  BY <1>26 DEF FinalLook, Tell, LockfilesMatchObserved
<1>27. ASSUME CleanupArtifacts PROVE EngineContract'
  BY <1>27 DEF CleanupArtifacts
<1>28. ASSUME Report PROVE EngineContract'
  <2>1. executed' = executed
    BY <1>28 DEF Report
  <2>2. CASE failure # "none"
    <3>1. executed = {} /\ failure = "unknown"
      BY <1>28, <2>2 DEF Report
    <3>2. Tell("run", FALSE, failure = "unknown", {}, restored, FALSE,
               pc = "cleaned")
      BY <1>28, <2>2, Zenon DEF Report
    <3>3. result'.unknown
      BY <3>1, <3>2, Zenon DEF Tell
    <3>4. QED
      BY <2>1, <3>1, <3>3, Zenon
  <2>3. CASE failure = "none"
    <3>1. executed # {}
      BY <1>28, <2>3, SomeTarget DEF Report
    <3>2. Tell("run", pc = "cleaned", ~(pc = "cleaned"), {}, {}, TRUE,
               pc = "cleaned")
      BY <1>28, <2>3, Zenon DEF Report
    <3>3. /\ result'.success = (pc = "cleaned")
          /\ result'.unknown = ~(pc = "cleaned")
          /\ result'.effects
      BY <3>2, Zenon DEF Tell
    <3>4. QED
      BY <2>1, <3>1, <3>3, Zenon
  <2>4. QED
    BY <2>2, <2>3
<1>29. ASSUME Crash PROVE EngineContract'
  BY <1>29 DEF Crash
<1>30. ASSUME NEW t \in Targets, EditLockfile(t) PROVE EngineContract'
  BY <1>30 DEF EditLockfile, Others
<1>31. ASSUME EditElsewhere PROVE EngineContract'
  BY <1>31 DEF EditElsewhere, Others
<1>32. ASSUME UNCHANGED vars PROVE EngineContract'
  BY <1>32 DEF vars
<1>33. QED
  BY <1>1, <1>2, <1>3, <1>4, <1>5, <1>6, <1>7, <1>8, <1>9, <1>10,
     <1>11, <1>12, <1>13, <1>14, <1>15, <1>16, <1>17, <1>18, <1>19, <1>20,
     <1>21, <1>22, <1>23, <1>24, <1>25, <1>26, <1>27, <1>28, <1>29, <1>30,
     <1>31, <1>32
     DEF Next, Phases, Preflight, Commands, Verifying, Recovery, Ending

\* The invariant holds at the start.
LEMMA InitInvariant == Init => TypeOK /\ ManagerInvariant
<1> SUFFICES ASSUME Init PROVE TypeOK /\ ManagerInvariant
  OBVIOUS
<1> USE DEF Init
<1>1. TypeOK
  <2>1. /\ pc \in Labels /\ pc \notin OnTarget
        /\ idx \in 0..(N + 1) /\ edits \in 0..MaxEdits
    BY DEF Labels, OnTarget
  <2>2. /\ file \in [Targets -> Content] /\ snap \in [Targets -> Content]
        /\ observed \in [Targets -> Content \cup {"none"}]
    BY DEF Content
  <2>3. QED
    BY <2>1, <2>2 DEF TypeOK, Termination, Failure
<1>2. EvidenceComes /\ CommandsInOrder
  BY DEF EvidenceComes, NothingStarted, CommandsInOrder, Early, Syncing,
     Checking, Restoring
<1>3. FailureIsKnown /\ ClosingIsSafe
  BY DEF FailureIsKnown, ClosingIsSafe, Restoring, Closing
<1>4. ForeignIsBlurred
  BY ManagerAssumption DEF ForeignIsBlurred
<1>5. Answerless /\ EngineContract
  BY DEF Answerless, EngineContract, NoResult
<1>6. OriginalsAreBackedUp
  BY DEF OriginalsAreBackedUp
<1>7. QED
  BY <1>1, <1>2, <1>3, <1>4, <1>5, <1>6 DEF ManagerInvariant

\* Every step keeps the invariant: one lemma for each part.
LEMMA NextInvariant ==
  TypeOK /\ ManagerInvariant /\ [Next]_vars => (TypeOK /\ ManagerInvariant)'
BY TypingStep, AnswerlessStep, EvidenceStep, OrderStep, FailureStep,
   ClosingStep, BlurStep, BackedUpStep, ContractStep, Zenon DEF ManagerInvariant

\* The inductive invariant of the phases.
THEOREM ManagerInvariance == Spec => [](TypeOK /\ ManagerInvariant)
BY InitInvariant, NextInvariant, PTL DEF Spec

\* Every variable keeps its type.
THEOREM ManagerTyping == Spec => []TypeOK
BY ManagerInvariance, PTL

\* executeManagerPhases answers what the engine's recovery takes for granted.
THEOREM ContractKept == Spec => []EngineContract
<1>1. ManagerInvariant => EngineContract
  BY DEF ManagerInvariant
<1>2. QED
  BY <1>1, ManagerInvariance, PTL

\* A rewritten lockfile has its backup and the phase file, whenever the process
\* dies, until every check has passed.
THEOREM OriginalsStayBackedUp == Spec => []OriginalsAreBackedUp
<1>1. ManagerInvariant => OriginalsAreBackedUp
  BY DEF ManagerInvariant
<1>2. QED
  BY <1>1, ManagerInvariance, PTL

\* What others write to a lockfile survives its restoration, unless the code
\* could not tell it from a command's output, or had looked before it came.
THEOREM EditsSurvive == Spec => ForeignEditsSurvive
<1>1. ASSUME TypeOK, ForeignIsBlurred, [Next]_vars
      PROVE  \A t \in Targets :
               file[t] \in Foreign /\ file'[t] = "restored" => t \in blurred
  <2> SUFFICES ASSUME NEW t \in Targets, file[t] \in Foreign,
                      file'[t] = "restored"
               PROVE  t \in blurred
    OBVIOUS
  <2>1. file' # file
    BY ManagerAssumption
  <2>2. ASSUME CommandWrites PROVE FALSE
    <3>1. PICK u \in Targets, c \in {"synced", "broken", "gone"} :
            file' = [file EXCEPT ![u] = c]
      BY <2>1, <2>2 DEF CommandWrites
    <3>2. QED
      BY <1>1, <3>1, ManagerAssumption DEF TypeOK
  <2>3. ASSUME NEW u \in Targets, EditLockfile(u) PROVE FALSE
    <3>1. PICK c \in Foreign \cup {"gone"} : file' = [file EXCEPT ![u] = c]
      BY <2>3 DEF EditLockfile
    <3>2. QED
      BY <1>1, <3>1, ManagerAssumption DEF TypeOK
  <2>4. CASE RenameLockfile
    <3>1. file' = [file EXCEPT ![idx] = "restored"] /\ pc = "rename"
      BY <2>1, <2>4 DEF RenameLockfile
    <3>2. t = idx
      BY <1>1, <3>1, ManagerAssumption DEF TypeOK
    <3>3. QED
      BY <1>1, <3>1, <3>2 DEF ForeignIsBlurred
  <2>5. \/ CommandWrites \/ RenameLockfile
        \/ \E u \in Targets : EditLockfile(u)
    BY <1>1, <2>1
       DEF Next, vars, Phases, Preflight, Commands, Verifying, Recovery, Ending,
           diskVars, PrepareTarget, PrepareVerdict, Prepared, Capture, Backup,
           WritePhaseFile, BeginCommands, RunCommand, CommandEnds, AfterCommand,
           JudgeCommand, CommandsDone, StartVerifier, AfterVerifier,
           ArtifactVerdict, StartVerify, AfterVerify, SnapshotThrows,
           BeginRecovery, RecoverLockfile, CheckBeforeRename, SettleLockfile,
           FailedExecution, FinalLook, CleanupArtifacts, Report, Crash,
           EditElsewhere
  <2>6. QED
    BY <2>2, <2>3, <2>4, <2>5, Zenon
<1>2. TypeOK /\ ManagerInvariant /\ [Next]_vars =>
        [\A t \in Targets :
           file[t] \in Foreign /\ file'[t] = "restored" => t \in blurred]_vars
  BY <1>1 DEF ManagerInvariant
<1>3. QED
  BY <1>2, ManagerInvariance, PTL DEF Spec, ForeignEditsSurvive

(***************************************************************************)
(* The manager phases implement AtomicApply for the lockfiles: each action *)
(* is one of AtomicApply's, or none, wherever the invariant holds.         *)
(***************************************************************************)

\* What each lockfile looks like to a reader of the disk.
LEMMA ShownFacts ==
  ASSUME NEW t \in Targets
  PROVE  /\ Shown(t) \in {"old", "new", "other"}
         /\ Shown(t) = "new" <=> file[t] = "synced"
         /\ Shown(t) = "old" <=> file[t] \in Original
BY DEF Shown, Original

\* A step that keeps lockfiles, phase file and answer is none of AtomicApply's.
LEMMA StutterStep ==
  ASSUME UNCHANGED <<file, phaseFile, result>>
  PROVE  UNCHANGED Atomic!vars
BY DEF Shown, Told, Atomic!vars

\* Steps that touch no lockfile, nor the phase file, nor the answer.
LEMMA InnerSteps ==
  ASSUME \/ Prepared \/ CommandEnds \/ JudgeCommand
         \/ CommandsDone \/ StartVerifier \/ AfterVerifier \/ ArtifactVerdict
         \/ StartVerify \/ AfterVerify \/ BeginRecovery \/ RecoverLockfile
         \/ CheckBeforeRename \/ SettleLockfile \/ Crash \/ EditElsewhere
  PROVE  UNCHANGED Atomic!vars
<1>1. UNCHANGED <<file, phaseFile, result>>
  BY DEF Prepared, CommandEnds, JudgeCommand, CommandsDone,
     StartVerifier, AfterVerifier, ArtifactVerdict, StartVerify, AfterVerify,
     BeginRecovery, RecoverLockfile, CheckBeforeRename, SettleLockfile, Crash,
     EditElsewhere, Others, diskVars, bookVars, sumVars
<1>2. QED
  BY <1>1, StutterStep

\* An answer other than success concludes.
LEMMA Concluded ==
  ASSUME Answerless, pc # "done", UNCHANGED <<file, phaseFile>>,
         \/ UNCHANGED result
         \/ result'.at = "preflight"
         \/ result'.at = "run" /\ ~result'.success
  PROVE  Atomic!Conclude \/ UNCHANGED Atomic!vars
<1>1. Told = "none"
  BY DEF Answerless, Told, NoResult
<1>2. CASE UNCHANGED result
  BY <1>2, StutterStep
<1>3. CASE \/ result'.at = "preflight"
           \/ result'.at = "run" /\ ~result'.success
  <2>1. Told' = "unsettled"
    BY <1>3 DEF Told
  <2>2. UNCHANGED <<[t \in Targets |-> Shown(t)], phaseFile>>
    BY DEF Shown
  <2>3. QED
    BY <1>1, <2>1, <2>2 DEF Atomic!Conclude
<1>4. QED
  BY <1>2, <1>3

\* The fields of an answer.
LEMMA ToldFields ==
  ASSUME NEW at, NEW success, NEW unknown, NEW paths, NEW back, NEW effects,
         NEW clean, Tell(at, success, unknown, paths, back, effects, clean)
  PROVE  result'.at = at /\ result'.success = success
BY DEF Tell

\* A refusal is an answer of the preflight.
LEMMA Refused ==
  ASSUME NEW unknown, NEW paths, Refuse(unknown, paths)
  PROVE  result'.at = "preflight"
BY ToldFields, Zenon DEF Refuse

\* A throw is not a success.
LEMMA Thrown == Throws => result'.at = "run" /\ result'.success = FALSE
BY ToldFields, Zenon DEF Throws

\* The answers without success.
LEMMA FailingSteps ==
  ASSUME Answerless,
         \/ PrepareTarget \/ PrepareVerdict \/ Capture \/ Backup
         \/ BeginCommands \/ RunCommand \/ AfterCommand \/ SnapshotThrows
         \/ FailedExecution \/ FinalLook
  PROVE  Atomic!Conclude \/ UNCHANGED Atomic!vars
<1>1. CASE PrepareTarget
  <2>1. pc # "done" /\ UNCHANGED <<file, phaseFile>>
    BY <1>1 DEF PrepareTarget, bookVars
  <2>2. UNCHANGED result \/ result'.at = "preflight"
    BY <1>1, Refused, Zenon DEF PrepareTarget
  <2>3. QED
    BY <2>1, <2>2, Concluded
<1>2. CASE PrepareVerdict
  <2>1. pc # "done" /\ UNCHANGED <<file, phaseFile>>
    BY <1>2 DEF PrepareVerdict, bookVars, diskVars
  <2>2. UNCHANGED result \/ result'.at = "preflight"
    BY <1>2, Refused, Zenon DEF PrepareVerdict
  <2>3. QED
    BY <2>1, <2>2, Concluded
<1>3. CASE Capture
  <2>1. pc # "done" /\ UNCHANGED <<file, phaseFile>>
    BY <1>3 DEF Capture, bookVars, diskVars
  <2>2. UNCHANGED result \/ (result'.at = "run" /\ result'.success = FALSE)
    BY <1>3, ToldFields, Zenon DEF Capture
  <2>3. QED
    BY <2>1, <2>2, Concluded
<1>4. CASE Backup
  <2>1. pc # "done" /\ UNCHANGED <<file, phaseFile>>
    BY <1>4 DEF Backup, bookVars, diskVars
  <2>2. UNCHANGED result \/ (result'.at = "run" /\ result'.success = FALSE)
    BY <1>4, ToldFields, Zenon DEF Backup
  <2>3. QED
    BY <2>1, <2>2, Concluded
<1>5. CASE BeginCommands
  <2>1. pc # "done" /\ UNCHANGED <<file, phaseFile>>
    BY <1>5 DEF BeginCommands, bookVars
  <2>2. UNCHANGED result \/ (result'.at = "run" /\ result'.success = FALSE)
    BY <1>5, ToldFields, Thrown, Zenon DEF BeginCommands
  <2>3. QED
    BY <2>1, <2>2, Concluded
<1>6. CASE AfterCommand
  <2>1. pc # "done" /\ UNCHANGED <<file, phaseFile>>
    BY <1>6 DEF AfterCommand, bookVars
  <2>2. UNCHANGED result \/ (result'.at = "run" /\ result'.success = FALSE)
    BY <1>6, Thrown, Zenon DEF AfterCommand
  <2>3. QED
    BY <2>1, <2>2, Concluded
<1>7. CASE SnapshotThrows
  <2>1. pc # "done" /\ UNCHANGED <<file, phaseFile>>
    BY <1>7 DEF SnapshotThrows, bookVars, diskVars
  <2>2. result'.at = "run" /\ result'.success = FALSE
    BY <1>7, Thrown DEF SnapshotThrows
  <2>3. QED
    BY <2>1, <2>2, Concluded
<1>8. CASE FailedExecution
  <2>1. pc # "done" /\ UNCHANGED <<file, phaseFile>>
    BY <1>8 DEF FailedExecution, bookVars, diskVars
  <2>2. UNCHANGED result \/ (result'.at = "run" /\ result'.success = FALSE)
    BY <1>8, ToldFields, Zenon DEF FailedExecution
  <2>3. QED
    BY <2>1, <2>2, Concluded
<1>9. CASE FinalLook
  <2>1. pc # "done" /\ UNCHANGED <<file, phaseFile>>
    BY <1>9 DEF FinalLook, bookVars, diskVars
  <2>2. UNCHANGED result \/ (result'.at = "run" /\ result'.success = FALSE)
    BY <1>9, ToldFields, Zenon DEF FinalLook
  <2>3. QED
    BY <2>1, <2>2, Concluded
<1>10. CASE RunCommand
  <2>1. pc # "done" /\ UNCHANGED <<file, phaseFile>>
    BY <1>10 DEF RunCommand, bookVars, diskVars
  <2>2. UNCHANGED result \/ (result'.at = "run" /\ result'.success = FALSE)
    BY <1>10, Thrown, Zenon DEF RunCommand
  <2>3. QED
    BY <2>1, <2>2, Concluded
<1>11. QED
  BY <1>1, <1>2, <1>3, <1>4, <1>5, <1>6, <1>7, <1>8, <1>9, <1>10

\* Writing manager-phase.json begins.
LEMMA PhaseFileBegins ==
  ASSUME Answerless, EvidenceComes, WritePhaseFile
  PROVE  Atomic!Begin \/ Atomic!Conclude \/ UNCHANGED Atomic!vars
<1>1. pc # "done" /\ UNCHANGED file
  BY DEF WritePhaseFile, diskVars
<1>2. CASE phaseFile' = TRUE /\ UNCHANGED result
  <2>1. ~phaseFile /\ \A t \in Targets : file[t] # "synced"
    BY DEF WritePhaseFile, EvidenceComes, NothingStarted, Early
  <2>2. Atomic!NoneNew
    BY <2>1, ShownFacts DEF Atomic!NoneNew
  <2>3. Told = "none" /\ UNCHANGED Told
    BY <1>1, <1>2 DEF Answerless, Told, NoResult
  <2>4. UNCHANGED [t \in Targets |-> Shown(t)]
    BY <1>1 DEF Shown
  <2>5. QED
    BY <1>2, <2>1, <2>2, <2>3, <2>4 DEF Atomic!Begin
<1>3. CASE UNCHANGED phaseFile /\ result'.at = "run" /\ result'.success = FALSE
  BY <1>1, <1>3, Concluded
<1>4. QED
  BY <1>2, <1>3, ToldFields, Zenon DEF WritePhaseFile

\* One lockfile gets other bytes, while the phase file is there or as somebody
\* else's.
LEMMA OneWritten ==
  ASSUME TypeOK, Answerless, pc # "done", NEW t \in Targets, NEW c \in Content,
         file' = [file EXCEPT ![t] = c], UNCHANGED <<phaseFile, result>>,
         phaseFile \/ c \notin {"orig", "restored", "synced"}
  PROVE  Atomic!Replace(t) \/ Atomic!Interfere(t)
<1> DEFINE old == [u \in Targets |-> Shown(u)]
           new == [u \in Targets |-> Shown(u)']
<1>1. \A u \in Targets : file'[u] = IF u = t THEN c ELSE file[u]
  BY DEF TypeOK
<1>2. new = [old EXCEPT ![t] = Shown(t)']
  <2>1. \A u \in Targets : u # t => Shown(u)' = Shown(u)
    BY <1>1 DEF Shown
  <2>2. QED
    BY <2>1
<1>3. Shown(t)' \in {"old", "new", "other"}
  BY DEF Shown
<1>4. Told = "none" /\ UNCHANGED Told
  BY DEF Answerless, Told, NoResult
<1>5. CASE phaseFile
  <2>1. old[t] # "idle"
    BY ShownFacts
  <2>2. QED
    BY <1>2, <1>3, <1>4, <1>5, <2>1 DEF Atomic!Replace
<1>6. CASE c \notin {"orig", "restored", "synced"}
  <2>1. Shown(t)' = "other"
    BY <1>1, <1>6 DEF Shown, Original
  <2>2. QED
    BY <1>2, <1>4, <2>1 DEF Atomic!Interfere
<1>7. QED
  BY <1>5, <1>6

\* A command writes a lockfile of its own while the phase file is there, or
\* spoils one.
LEMMA CommandWritesLockfile ==
  ASSUME TypeOK, Answerless, EvidenceComes, CommandWrites
  PROVE  \/ \E t \in Targets : Atomic!Replace(t) \/ Atomic!Interfere(t)
         \/ UNCHANGED Atomic!vars
<1>1. pc # "done" /\ UNCHANGED <<phaseFile, result>>
  BY DEF CommandWrites, Running, bookVars, sumVars
<1>2. CASE UNCHANGED file
  BY <1>1, <1>2, StutterStep
<1>3. CASE \E t \in Targets, c \in {"synced", "broken", "gone"} :
             /\ file' = [file EXCEPT ![t] = c]
             /\ pc = "syncing" \/ c = "broken"
  <2>1. PICK t \in Targets, c \in {"synced", "broken", "gone"} :
          /\ file' = [file EXCEPT ![t] = c]
          /\ pc = "syncing" \/ c = "broken"
    BY <1>3
  <2>2. c \in Content /\ (phaseFile \/ c \notin {"orig", "restored", "synced"})
    BY <2>1 DEF Content, EvidenceComes, Syncing
  <2>3. QED
    BY <1>1, <2>1, <2>2, OneWritten
<1>4. QED
  BY <1>2, <1>3 DEF CommandWrites

\* Restoring a lockfile is a replacement.
LEMMA RenameReplaces ==
  ASSUME TypeOK, Answerless, EvidenceComes, RenameLockfile
  PROVE  \/ \E t \in Targets : Atomic!Replace(t) \/ Atomic!Interfere(t)
         \/ UNCHANGED Atomic!vars
<1>1. /\ pc # "done" /\ UNCHANGED <<phaseFile, result>>
      /\ phaseFile /\ idx \in Targets
  BY DEF RenameLockfile, bookVars, sumVars, EvidenceComes, Restoring, TypeOK,
     OnTarget
<1>2. CASE UNCHANGED file
  BY <1>1, <1>2, StutterStep
<1>3. CASE file' = [file EXCEPT ![idx] = "restored"]
  <2>1. "restored" \in Content
    BY DEF Content
  <2>2. QED
    BY <1>1, <1>3, <2>1, OneWritten
<1>4. QED
  BY <1>2, <1>3 DEF RenameLockfile

\* Others interfere.
LEMMA EditInterferes ==
  ASSUME TypeOK, Answerless, NEW t \in Targets, EditLockfile(t)
  PROVE  Atomic!Replace(t) \/ Atomic!Interfere(t)
<1>1. pc # "done" /\ UNCHANGED <<phaseFile, result>>
  BY DEF EditLockfile, Others, Ended, bookVars, sumVars
<1>2. PICK c \in Foreign \cup {"gone"} : file' = [file EXCEPT ![t] = c]
  BY DEF EditLockfile
<1>3. c \in Content /\ c \notin {"orig", "restored", "synced"}
  BY ManagerAssumption DEF Content
<1>4. QED
  BY <1>1, <1>2, <1>3, OneWritten

\* The phase file goes when no lockfile is rewritten or all are.
LEMMA CleanupForgets ==
  ASSUME Answerless, EvidenceComes, CommandsInOrder, ClosingIsSafe,
         CleanupArtifacts
  PROVE  Atomic!Forget \/ UNCHANGED Atomic!vars
<1>1. /\ pc = "cleanup" /\ UNCHANGED <<file, result>> /\ phaseFile
  BY DEF CleanupArtifacts, diskVars, sumVars, EvidenceComes
<1>2. CASE UNCHANGED phaseFile
  BY <1>1, <1>2, StutterStep
<1>3. CASE phaseFile' = FALSE
  <2>1. ASSUME failure = "none" PROVE Atomic!NoneOld
    <3>1. \A t \in Targets : file[t] \notin Original
      BY <1>1, <2>1 DEF ClosingIsSafe, Closing
    <3>2. QED
      BY <3>1, ShownFacts DEF Atomic!NoneOld
  <2>2. ASSUME failure # "none" PROVE Atomic!NoneNew
    <3>1. executed = {}
      BY <1>1, <2>2 DEF ClosingIsSafe, Closing
    <3>2. \A t \in Targets : file[t] # "synced"
      BY <1>1, <3>1 DEF CommandsInOrder
    <3>3. QED
      BY <3>2, ShownFacts DEF Atomic!NoneNew
  <2>3. Atomic!NoneNew \/ Atomic!NoneOld
    BY <2>1, <2>2
  <2>4. Told = "none" /\ UNCHANGED Told
    BY <1>1 DEF Answerless, Told, NoResult
  <2>5. UNCHANGED [t \in Targets |-> Shown(t)]
    BY <1>1 DEF Shown
  <2>6. QED
    BY <1>1, <1>3, <2>3, <2>4, <2>5 DEF Atomic!Forget
<1>4. QED
  BY <1>2, <1>3 DEF CleanupArtifacts, bookVars

\* Success is told when no lockfile is the original.
LEMMA ReportConcludes ==
  ASSUME Answerless, ClosingIsSafe, Report
  PROVE  Atomic!Conclude \/ UNCHANGED Atomic!vars
<1>1. pc \in {"cleaned", "kept"} /\ UNCHANGED <<file, phaseFile>>
  BY DEF Report, diskVars, bookVars
<1>2. CASE result'.at = "run" /\ ~result'.success
  BY <1>1, <1>2, Concluded
<1>3. CASE result'.at = "run" /\ result'.success /\ failure = "none"
  <2>1. \A t \in Targets : file[t] \notin Original
    BY <1>1, <1>3 DEF ClosingIsSafe, Closing
  <2>2. Atomic!NoneOld
    BY <2>1, ShownFacts DEF Atomic!NoneOld
  <2>3. Told = "none" /\ Told' = "applied"
    BY <1>1, <1>3 DEF Answerless, Told, NoResult
  <2>4. UNCHANGED [t \in Targets |-> Shown(t)]
    BY <1>1 DEF Shown
  <2>5. QED
    BY <1>1, <2>2, <2>3, <2>4 DEF Atomic!Conclude
<1>4. \/ result'.at = "run" /\ result'.success = FALSE
      \/ result'.at = "run" /\ failure = "none"
  BY ToldFields, Zenon DEF Report
<1>5. QED
  BY <1>2, <1>3, <1>4

\* Every step of the phases is a step of AtomicApply, or none.
LEMMA StepRefines ==
  TypeOK /\ ManagerInvariant /\ [Next]_vars => [Atomic!Next]_(Atomic!vars)
<1> SUFFICES ASSUME TypeOK, ManagerInvariant, [Next]_vars
             PROVE  Atomic!Next \/ UNCHANGED Atomic!vars
  OBVIOUS
<1>1. /\ Answerless /\ EvidenceComes /\ CommandsInOrder /\ ClosingIsSafe
  BY DEF ManagerInvariant
<1>2. CASE UNCHANGED vars
  BY <1>2, StutterStep DEF vars, diskVars, bookVars, sumVars
<1>3. CASE \/ Prepared \/ CommandEnds \/ JudgeCommand
           \/ CommandsDone \/ StartVerifier \/ AfterVerifier \/ ArtifactVerdict
           \/ StartVerify \/ AfterVerify \/ BeginRecovery \/ RecoverLockfile
           \/ CheckBeforeRename \/ SettleLockfile \/ Crash \/ EditElsewhere
  BY <1>3, InnerSteps
<1>4. CASE \/ PrepareTarget \/ PrepareVerdict \/ Capture \/ Backup
           \/ BeginCommands \/ RunCommand \/ AfterCommand \/ SnapshotThrows
           \/ FailedExecution \/ FinalLook
  BY <1>1, <1>4, FailingSteps DEF Atomic!Next
<1>5. CASE WritePhaseFile
  BY <1>1, <1>5, PhaseFileBegins DEF Atomic!Next
<1>6. CASE CommandWrites
  BY <1>1, <1>6, CommandWritesLockfile DEF Atomic!Next
<1>7. CASE RenameLockfile
  BY <1>1, <1>7, RenameReplaces DEF Atomic!Next
<1>8. CASE \E t \in Targets : EditLockfile(t)
  BY <1>1, <1>8, EditInterferes DEF Atomic!Next
<1>9. CASE CleanupArtifacts
  BY <1>1, <1>9, CleanupForgets DEF Atomic!Next
<1>10. CASE Report
  BY <1>1, <1>10, ReportConcludes DEF Atomic!Next
<1>11. QED
  BY <1>2, <1>3, <1>4, <1>5, <1>6, <1>7, <1>8, <1>9, <1>10
     DEF Next, Phases, Preflight, Commands, Verifying, Recovery, Ending

\* The phases start where AtomicApply does.
LEMMA InitRefines == Init => Atomic!Init
<1> SUFFICES ASSUME Init PROVE Atomic!Init
  OBVIOUS
<1>1. \A t \in Targets : Shown(t) = "old"
  BY DEF Init, Shown, Original
<1>2. Told = "none" /\ phaseFile = FALSE
  BY DEF Init, Told, NoResult
<1>3. QED
  BY <1>1, <1>2 DEF Atomic!Init

\* executeManagerPhases implements AtomicApply for the lockfiles: seen from the
\* disk at any moment, all are rewritten, none is, or manager-phase.json is there.
THEOREM ManagerImplementsAtomicApply == Spec => ImplementsAtomicApply
BY InitRefines, StepRefines, ManagerInvariance, PTL
   DEF Spec, ImplementsAtomicApply, Atomic!Spec

(***************************************************************************)
(* The answers are exact.                                                  *)
(***************************************************************************)


\* What was not there at the last snapshot of a command was seen to change: by
\* others, or by the command.
SnapshotsKept ==
  /\ pc \in {"version", "versioned"} => \A t \in Targets \ touched : snap[t] \in Original
  /\ pc \in {"command", "judge"} =>
       \A t \in Targets : \/ file[t] = snap[t]
                          \/ t \in touched /\ file[t] \in Foreign \cup {"gone"}
  /\ pc \in {"syncing", "synced"} => \A t \in Targets : snap[t] \in {"orig", "synced"}

\* Where each lockfile is that nobody else changed: original until its command
\* runs; after a failure original, named, or still to be looked at.
LedgerKept ==
  \A t \in Targets \ touched :
    /\ pc \in {"prepare", "capture", "backup", "begin"} => file[t] \in Original
    /\ pc = "command" /\ t \notin executed => file[t] \in Original
    /\ pc \in {"syncing", "synced"} /\ t \notin executed => snap[t] \in Original
    /\ pc \in {"judge"} \cup Restoring /\ t \notin executed =>
         file[t] \in Original \/ t \in unrecovered
    /\ pc \in {"recover", "restore", "rename", "settle"} /\ t < idx =>
         file[t] \in Original \/ t \in unrecovered
    /\ pc \in Closing /\ failure # "none" => file[t] \in Original

\* A stray leaves a trace that the next look at it finds.
StraysAreSeen ==
  strayed /\ failure = "none" /\ pc \notin Ended =>
    /\ pc \notin Closing
    /\ \/ ~install
       \/ pc \in {"prepare", "version", "versioned", "capture"}
          /\ \E t \in Targets : file[t] # "orig"
       \/ pc = "backup" /\ \E t \in Targets : t >= idx /\ file[t] # "orig"
       \/ pc \in {"version", "versioned", "syncing", "synced", "auditing", "audited",
                  "verifying", "verified"} /\ dirty
       \/ pc \in {"syncing", "synced"} /\ \E t \in Targets \ {idx} : file[t] # snap[t]
       \/ pc = "judge" /\ unrecovered # {}
       \/ pc \in Checking /\ \E t \in Targets : file[t] # "synced"

\* Nothing is unrecovered or restored without a failure, once it was judged.
FailuresOnly ==
  failure = "none" => restored = {} /\ (pc \notin {"judge"} \cup Ended => unrecovered = {})

\* What the exact answers rest on, besides ManagerInvariant.
AnswerInvariant ==
  /\ SnapshotsKept /\ LedgerKept /\ StraysAreSeen /\ FailuresOnly
  /\ AnswerIsExact

\* A lockfile that is left as it is gets named.
LEMMA LeftIsNamed ==
  ASSUME TypeOK, LedgerKept, idx \in Targets, Unrecovered(idx),
         pc \in {"recover", "restore", "rename", "settle"},
         UNCHANGED <<file, executed, touched>>
  PROVE  LedgerKept'
<1>1. unrecovered' = unrecovered \cup {idx} /\ pc' = "recover" /\ idx' = idx + 1
  BY DEF Unrecovered
<1>2. \A t \in Targets : t < idx' => t < idx \/ t = idx
  BY <1>1 DEF Targets
<1>3. QED
  BY <1>1, <1>2 DEF LedgerKept, Restoring, Closing

\* Snapshots are taken of what the last look accepted.
LEMMA SnapshotsStep ==
  ASSUME TypeOK, ManagerInvariant, LedgerKept, SnapshotsKept
  PROVE  [Next]_vars => SnapshotsKept'
<1> USE DEF diskVars, bookVars, askVars, sumVars, TypeOK, Original, Early,
            Syncing, Checking, Restoring, Closing, Running, Ended, OnTarget,
            SnapshotsKept, LedgerKept, ManagerInvariant, CommandsInOrder, ForeignIsBlurred
<1>1. ASSUME PrepareTarget PROVE SnapshotsKept'
  BY <1>1 DEF PrepareTarget, Refuse, Tell, TakeSnapshot
<1>2. ASSUME PrepareVerdict PROVE SnapshotsKept'
  BY <1>2 DEF PrepareVerdict, Refuse, Tell
<1>3. ASSUME Prepared PROVE SnapshotsKept'
  BY <1>3 DEF Prepared
<1>4. ASSUME Capture PROVE SnapshotsKept'
  BY <1>4 DEF Capture, Tell
<1>5. ASSUME Backup PROVE SnapshotsKept'
  BY <1>5 DEF Backup, Tell
<1>6. ASSUME WritePhaseFile PROVE SnapshotsKept'
  BY <1>6 DEF WritePhaseFile, Tell
<1>7. ASSUME BeginCommands PROVE SnapshotsKept'
  BY <1>7 DEF BeginCommands, Tell, TakeSnapshot, Throws
<1>8. ASSUME RunCommand PROVE SnapshotsKept'
  <2>1. UNCHANGED <<file, snap, touched>> /\ pc = "command" /\ idx \in Targets
        /\ pc' \in {"recovery", "syncing", "done"}
    BY <1>8 DEF RunCommand, Throws, Tell
  <2>2. CASE pc' = "syncing"
    <3>1. LockfilesMatchExpected
      BY <1>8, <2>2 DEF RunCommand
    <3>2. \A t \in Targets : observed[t] \in {"none", "synced"}
      BY <2>1 DEF Targets
    <3>3. \A t \in Targets : file[t] \in {"orig", "synced"}
      BY <3>1, <3>2 DEF LockfilesMatchExpected
    <3>4. \A t \in Targets : snap[t] = file[t]
      BY <2>1, <3>3, ManagerAssumption
    <3>5. QED
      BY <2>1, <2>2, <3>3, <3>4
  <2>3. QED
    BY <2>1, <2>2
<1>9. ASSUME CommandEnds PROVE SnapshotsKept'
  BY <1>9 DEF CommandEnds, AfterRun
<1>10. ASSUME CommandWrites PROVE SnapshotsKept'
  BY <1>10 DEF CommandWrites
<1>11. ASSUME AfterCommand PROVE SnapshotsKept'
  BY <1>11 DEF AfterCommand, Throws, Tell, TakeSnapshot, Reread
<1>12. ASSUME JudgeCommand PROVE SnapshotsKept'
  BY <1>12 DEF JudgeCommand, Fail
<1>13. ASSUME CommandsDone PROVE SnapshotsKept'
  BY <1>13 DEF CommandsDone
<1>14. ASSUME StartVerifier PROVE SnapshotsKept'
  BY <1>14 DEF StartVerifier, TakeSnapshot
<1>15. ASSUME AfterVerifier PROVE SnapshotsKept'
  BY <1>15 DEF AfterVerifier, Fail
<1>16. ASSUME ArtifactVerdict PROVE SnapshotsKept'
  BY <1>16 DEF ArtifactVerdict, Fail
<1>17. ASSUME StartVerify PROVE SnapshotsKept'
  BY <1>17 DEF StartVerify, Fail, TakeSnapshot
<1>18. ASSUME AfterVerify PROVE SnapshotsKept'
  BY <1>18 DEF AfterVerify, Fail, Reread, AllHeld, LockfilesMatchObserved
<1>19. ASSUME SnapshotThrows PROVE SnapshotsKept'
  BY <1>19 DEF SnapshotThrows, Throws, Tell
<1>20. ASSUME BeginRecovery PROVE SnapshotsKept'
  BY <1>20 DEF BeginRecovery
<1>21. ASSUME RecoverLockfile PROVE SnapshotsKept'
  BY <1>21 DEF RecoverLockfile, Unrecovered, Fail
<1>22. ASSUME CheckBeforeRename PROVE SnapshotsKept'
  BY <1>22 DEF CheckBeforeRename, Unrecovered, Fail
<1>23. ASSUME RenameLockfile PROVE SnapshotsKept'
  BY <1>23 DEF RenameLockfile, Unrecovered, Fail
<1>24. ASSUME SettleLockfile PROVE SnapshotsKept'
  BY <1>24 DEF SettleLockfile, Unrecovered, Fail
<1>25. ASSUME FailedExecution PROVE SnapshotsKept'
  BY <1>25 DEF FailedExecution, Tell
<1>26. ASSUME FinalLook PROVE SnapshotsKept'
  BY <1>26 DEF FinalLook, Tell, LockfilesMatchObserved
<1>27. ASSUME CleanupArtifacts PROVE SnapshotsKept'
  BY <1>27 DEF CleanupArtifacts
<1>28. ASSUME Report PROVE SnapshotsKept'
  BY <1>28 DEF Report, Tell
<1>29. ASSUME Crash PROVE SnapshotsKept'
  BY <1>29 DEF Crash
<1>30. ASSUME NEW t \in Targets, EditLockfile(t) PROVE SnapshotsKept'
  BY <1>30 DEF EditLockfile, Others
<1>31. ASSUME EditElsewhere PROVE SnapshotsKept'
  BY <1>31 DEF EditElsewhere, Others
<1>32. ASSUME UNCHANGED vars PROVE SnapshotsKept'
  BY <1>32 DEF vars
<1>33. QED
  BY <1>1, <1>2, <1>3, <1>4, <1>5, <1>6, <1>7, <1>8, <1>9, <1>10,
     <1>11, <1>12, <1>13, <1>14, <1>15, <1>16, <1>17, <1>18, <1>19, <1>20,
     <1>21, <1>22, <1>23, <1>24, <1>25, <1>26, <1>27, <1>28, <1>29, <1>30,
     <1>31, <1>32
     DEF Next, Phases, Preflight, Commands, Verifying, Recovery, Ending

\* The ledger of untouched lockfiles.
LEMMA LedgerStep ==
  ASSUME TypeOK, ManagerInvariant, SnapshotsKept, FailuresOnly, LedgerKept
  PROVE  [Next]_vars => LedgerKept'
<1> USE DEF diskVars, bookVars, askVars, sumVars, TypeOK, Original, Early,
            Syncing, Checking, Restoring, Closing, Running, Ended, OnTarget,
            SnapshotsKept, LedgerKept, ManagerInvariant, CommandsInOrder, FailureIsKnown,
            EvidenceComes, FailuresOnly, Changed
<1>1. ASSUME PrepareTarget PROVE LedgerKept'
  BY <1>1 DEF PrepareTarget, Refuse, Tell, TakeSnapshot
<1>2. ASSUME PrepareVerdict PROVE LedgerKept'
  BY <1>2 DEF PrepareVerdict, Refuse, Tell
<1>3. ASSUME Prepared PROVE LedgerKept'
  BY <1>3 DEF Prepared
<1>4. ASSUME Capture PROVE LedgerKept'
  BY <1>4 DEF Capture, Tell
<1>5. ASSUME Backup PROVE LedgerKept'
  BY <1>5 DEF Backup, Tell
<1>6. ASSUME WritePhaseFile PROVE LedgerKept'
  BY <1>6 DEF WritePhaseFile, Tell
<1>7. ASSUME BeginCommands PROVE LedgerKept'
  BY <1>7 DEF BeginCommands, Tell, TakeSnapshot, Throws
<1>8. ASSUME RunCommand PROVE LedgerKept'
  BY <1>8 DEF RunCommand, Fail, Throws, Tell
<1>9. ASSUME CommandEnds PROVE LedgerKept'
  BY <1>9 DEF CommandEnds, AfterRun
<1>10. ASSUME CommandWrites PROVE LedgerKept'
  BY <1>10 DEF CommandWrites
<1>11. ASSUME AfterCommand PROVE LedgerKept'
  BY <1>11 DEF AfterCommand, Throws, Tell, TakeSnapshot, Reread
<1>12. ASSUME JudgeCommand PROVE LedgerKept'
  BY <1>12 DEF JudgeCommand, Fail
<1>13. ASSUME CommandsDone PROVE LedgerKept'
  BY <1>13 DEF CommandsDone
<1>14. ASSUME StartVerifier PROVE LedgerKept'
  BY <1>14 DEF StartVerifier, TakeSnapshot
<1>15. ASSUME AfterVerifier PROVE LedgerKept'
  BY <1>15 DEF AfterVerifier, Fail
<1>16. ASSUME ArtifactVerdict PROVE LedgerKept'
  BY <1>16 DEF ArtifactVerdict, Fail
<1>17. ASSUME StartVerify PROVE LedgerKept'
  BY <1>17 DEF StartVerify, Fail, TakeSnapshot
<1>18. ASSUME AfterVerify PROVE LedgerKept'
  BY <1>18 DEF AfterVerify, Fail, Reread, AllHeld, LockfilesMatchObserved
<1>19. ASSUME SnapshotThrows PROVE LedgerKept'
  BY <1>19 DEF SnapshotThrows, Throws, Tell
<1>20. ASSUME BeginRecovery PROVE LedgerKept'
  <2>1. UNCHANGED <<file, executed, touched, unrecovered>>
        /\ pc = "recovery" /\ pc' = "recover" /\ idx' = 1
    BY <1>20 DEF BeginRecovery
  <2>2. \A t \in Targets : ~(t < 1)
    BY DEF Targets
  <2>3. QED
    BY <2>1, <2>2
<1>21. ASSUME RecoverLockfile PROVE LedgerKept'
  BY <1>21 DEF RecoverLockfile, Unrecovered, Fail
<1>22. ASSUME CheckBeforeRename PROVE LedgerKept'
  <2>1. UNCHANGED <<file, executed, touched>> /\ pc = "restore"
    BY <1>22 DEF CheckBeforeRename
  <2>2. CASE Unrecovered(idx)
    BY <2>1, <2>2, LeftIsNamed
  <2>3. CASE pc' = "rename" /\ UNCHANGED <<idx, failure, unrecovered>>
    BY <2>1, <2>3
  <2>4. QED
    BY <1>22, <2>2, <2>3 DEF CheckBeforeRename
<1>23. ASSUME RenameLockfile PROVE LedgerKept'
  <2>1. UNCHANGED <<executed, touched>> /\ pc = "rename"
    BY <1>23 DEF RenameLockfile
  <2>2. CASE Unrecovered(idx) /\ UNCHANGED file
    BY <2>1, <2>2, LeftIsNamed
  <2>3. CASE /\ file' = [file EXCEPT ![idx] = "restored"]
             /\ pc' = "settle" /\ UNCHANGED <<idx, failure, unrecovered>>
    <3>1. file'[idx] = "restored" /\ \A t \in Targets \ {idx} : file'[t] = file[t]
      BY <2>1, <2>3
    <3>2. QED
      BY <2>1, <2>3, <3>1
  <2>4. QED
    BY <1>23, <2>2, <2>3 DEF RenameLockfile
<1>24. ASSUME SettleLockfile PROVE LedgerKept'
  <2>1. UNCHANGED <<file, executed, touched>> /\ pc = "settle" /\ idx \in Targets
    BY <1>24 DEF SettleLockfile
  <2>2. CASE Unrecovered(idx)
    BY <2>1, <2>2, LeftIsNamed
  <2>3. CASE /\ file[idx] = "restored" /\ unrecovered' = unrecovered \ {idx}
             /\ pc' = "recover" /\ idx' = idx + 1
    <3>1. \A t \in Targets : t < idx' => t < idx \/ t = idx
      BY <2>1, <2>3 DEF Targets
    <3>2. QED
      BY <2>1, <2>3, <3>1
  <2>4. QED
    BY <1>24, <2>2, <2>3 DEF SettleLockfile
<1>25. ASSUME FailedExecution PROVE LedgerKept'
  BY <1>25 DEF FailedExecution, Tell
<1>26. ASSUME FinalLook PROVE LedgerKept'
  BY <1>26 DEF FinalLook, Tell, LockfilesMatchObserved
<1>27. ASSUME CleanupArtifacts PROVE LedgerKept'
  BY <1>27 DEF CleanupArtifacts
<1>28. ASSUME Report PROVE LedgerKept'
  BY <1>28 DEF Report, Tell
<1>29. ASSUME Crash PROVE LedgerKept'
  BY <1>29 DEF Crash
<1>30. ASSUME NEW t \in Targets, EditLockfile(t) PROVE LedgerKept'
  BY <1>30 DEF EditLockfile, Others
<1>31. ASSUME EditElsewhere PROVE LedgerKept'
  BY <1>31 DEF EditElsewhere, Others
<1>32. ASSUME UNCHANGED vars PROVE LedgerKept'
  BY <1>32 DEF vars
<1>33. QED
  BY <1>1, <1>2, <1>3, <1>4, <1>5, <1>6, <1>7, <1>8, <1>9, <1>10,
     <1>11, <1>12, <1>13, <1>14, <1>15, <1>16, <1>17, <1>18, <1>19, <1>20,
     <1>21, <1>22, <1>23, <1>24, <1>25, <1>26, <1>27, <1>28, <1>29, <1>30,
     <1>31, <1>32
     DEF Next, Phases, Preflight, Commands, Verifying, Recovery, Ending

\* Nothing is unrecovered or restored without a failure.
LEMMA FailuresStep ==
  ASSUME TypeOK, ManagerInvariant, FailuresOnly
  PROVE  [Next]_vars => FailuresOnly'
<1> USE DEF diskVars, bookVars, askVars, sumVars, TypeOK, Original, Early,
            Syncing, Checking, Restoring, Closing, Running, Ended, OnTarget,
            FailuresOnly, ManagerInvariant, FailureIsKnown
<1>1. ASSUME PrepareTarget PROVE FailuresOnly'
  BY <1>1 DEF PrepareTarget, Refuse, Tell, TakeSnapshot
<1>2. ASSUME PrepareVerdict PROVE FailuresOnly'
  BY <1>2 DEF PrepareVerdict, Refuse, Tell
<1>3. ASSUME Prepared PROVE FailuresOnly'
  BY <1>3 DEF Prepared
<1>4. ASSUME Capture PROVE FailuresOnly'
  BY <1>4 DEF Capture, Tell
<1>5. ASSUME Backup PROVE FailuresOnly'
  BY <1>5 DEF Backup, Tell
<1>6. ASSUME WritePhaseFile PROVE FailuresOnly'
  BY <1>6 DEF WritePhaseFile, Tell
<1>7. ASSUME BeginCommands PROVE FailuresOnly'
  BY <1>7 DEF BeginCommands, Tell, TakeSnapshot, Throws
<1>8. ASSUME RunCommand PROVE FailuresOnly'
  BY <1>8 DEF RunCommand, Fail, Throws, Tell
<1>9. ASSUME CommandEnds PROVE FailuresOnly'
  BY <1>9 DEF CommandEnds, AfterRun
<1>10. ASSUME CommandWrites PROVE FailuresOnly'
  BY <1>10 DEF CommandWrites
<1>11. ASSUME AfterCommand PROVE FailuresOnly'
  BY <1>11 DEF AfterCommand, Throws, Tell, TakeSnapshot, Reread
<1>12. ASSUME JudgeCommand PROVE FailuresOnly'
  BY <1>12 DEF JudgeCommand, Fail
<1>13. ASSUME CommandsDone PROVE FailuresOnly'
  BY <1>13 DEF CommandsDone
<1>14. ASSUME StartVerifier PROVE FailuresOnly'
  BY <1>14 DEF StartVerifier, TakeSnapshot
<1>15. ASSUME AfterVerifier PROVE FailuresOnly'
  BY <1>15 DEF AfterVerifier, Fail
<1>16. ASSUME ArtifactVerdict PROVE FailuresOnly'
  BY <1>16 DEF ArtifactVerdict, Fail
<1>17. ASSUME StartVerify PROVE FailuresOnly'
  BY <1>17 DEF StartVerify, Fail, TakeSnapshot
<1>18. ASSUME AfterVerify PROVE FailuresOnly'
  BY <1>18 DEF AfterVerify, Fail, Reread, AllHeld, LockfilesMatchObserved
<1>19. ASSUME SnapshotThrows PROVE FailuresOnly'
  BY <1>19 DEF SnapshotThrows, Throws, Tell
<1>20. ASSUME BeginRecovery PROVE FailuresOnly'
  BY <1>20 DEF BeginRecovery
<1>21. ASSUME RecoverLockfile PROVE FailuresOnly'
  BY <1>21 DEF RecoverLockfile, Unrecovered, Fail
<1>22. ASSUME CheckBeforeRename PROVE FailuresOnly'
  BY <1>22 DEF CheckBeforeRename, Unrecovered, Fail
<1>23. ASSUME RenameLockfile PROVE FailuresOnly'
  BY <1>23 DEF RenameLockfile, Unrecovered, Fail
<1>24. ASSUME SettleLockfile PROVE FailuresOnly'
  BY <1>24 DEF SettleLockfile, Unrecovered, Fail
<1>25. ASSUME FailedExecution PROVE FailuresOnly'
  BY <1>25 DEF FailedExecution, Tell
<1>26. ASSUME FinalLook PROVE FailuresOnly'
  BY <1>26 DEF FinalLook, Tell, LockfilesMatchObserved
<1>27. ASSUME CleanupArtifacts PROVE FailuresOnly'
  BY <1>27 DEF CleanupArtifacts
<1>28. ASSUME Report PROVE FailuresOnly'
  BY <1>28 DEF Report, Tell
<1>29. ASSUME Crash PROVE FailuresOnly'
  BY <1>29 DEF Crash
<1>30. ASSUME NEW t \in Targets, EditLockfile(t) PROVE FailuresOnly'
  BY <1>30 DEF EditLockfile, Others
<1>31. ASSUME EditElsewhere PROVE FailuresOnly'
  BY <1>31 DEF EditElsewhere, Others
<1>32. ASSUME UNCHANGED vars PROVE FailuresOnly'
  BY <1>32 DEF vars
<1>33. QED
  BY <1>1, <1>2, <1>3, <1>4, <1>5, <1>6, <1>7, <1>8, <1>9, <1>10,
     <1>11, <1>12, <1>13, <1>14, <1>15, <1>16, <1>17, <1>18, <1>19, <1>20,
     <1>21, <1>22, <1>23, <1>24, <1>25, <1>26, <1>27, <1>28, <1>29, <1>30,
     <1>31, <1>32
     DEF Next, Phases, Preflight, Commands, Verifying, Recovery, Ending

\* No stray goes unseen.
LEMMA StraysStep ==
  ASSUME TypeOK, ManagerInvariant, SnapshotsKept, FailuresOnly, StraysAreSeen
  PROVE  [Next]_vars => StraysAreSeen'
<1> USE DEF diskVars, bookVars, askVars, sumVars, TypeOK, Original, Early,
            Syncing, Checking, Restoring, Closing, Running, Ended, OnTarget,
            StraysAreSeen, SnapshotsKept, ManagerInvariant, CommandsInOrder, FailureIsKnown,
            FailuresOnly, Changed
<1>1. ASSUME PrepareTarget PROVE StraysAreSeen'
  BY <1>1 DEF PrepareTarget, Refuse, Tell, TakeSnapshot
<1>2. ASSUME PrepareVerdict PROVE StraysAreSeen'
  BY <1>2 DEF PrepareVerdict, Refuse, Tell
<1>3. ASSUME Prepared PROVE StraysAreSeen'
  BY <1>3 DEF Prepared
<1>4. ASSUME Capture PROVE StraysAreSeen'
  <2>1. UNCHANGED <<file, install, failure, strayed>> /\ pc = "capture"
        /\ (pc' = "done" \/ (pc' = "backup" /\ idx' = 1))
    BY <1>4 DEF Capture, Tell
  <2>2. \A t \in Targets : t >= 1
    BY DEF Targets
  <2>3. QED
    BY <2>1, <2>2
<1>5. ASSUME Backup PROVE StraysAreSeen'
  <2>1. UNCHANGED <<file, install, failure, strayed>> /\ pc = "backup"
        /\ (pc' = "done" \/ (pc' = "backup" /\ file[idx] = "orig" /\ idx' = idx + 1))
        /\ idx \in Targets
    BY <1>5 DEF Backup, Tell
  <2>2. CASE pc' = "backup"
    <3>1. \A t \in Targets : t >= idx /\ file[t] # "orig" => t >= idx'
      BY <2>1, <2>2 DEF Targets
    <3>2. QED
      BY <2>1, <2>2, <3>1
  <2>3. QED
    BY <2>1, <2>2
<1>6. ASSUME WritePhaseFile PROVE StraysAreSeen'
  <2>1. UNCHANGED <<install, failure, strayed>> /\ pc = "backup" /\ idx > N
        /\ pc' \in {"done", "begin"}
    BY <1>6 DEF WritePhaseFile, Tell
  <2>2. \A t \in Targets : ~(t >= idx)
    <3>1. N \in Nat /\ idx \in Nat
      BY ManagerAssumption DEF TypeOK
    <3>2. QED
      BY ONLY <2>1, <3>1 DEF Targets
  <2>3. QED
    BY <2>1, <2>2
<1>7. ASSUME BeginCommands PROVE StraysAreSeen'
  BY <1>7 DEF BeginCommands, Tell, TakeSnapshot, Throws
<1>8. ASSUME RunCommand PROVE StraysAreSeen'
  BY <1>8 DEF RunCommand, Fail, Throws, Tell
<1>9. ASSUME CommandEnds PROVE StraysAreSeen'
  BY <1>9 DEF CommandEnds, AfterRun
<1>10. ASSUME CommandWrites PROVE StraysAreSeen'
  <2>1. UNCHANGED <<pc, idx, snap, failure, unrecovered>> /\ pc \in Running
    BY <1>10 DEF CommandWrites
  <2>2. ASSUME NEW t \in Targets, NEW c \in {"synced", "broken", "gone"},
               file' = [file EXCEPT ![t] = c],
               LET mine == pc = "syncing" /\ t = idx
               IN  (mine \/ c = "broken") /\ strayed' = (strayed \/ ~mine),
               UNCHANGED <<dirty, sources, install>>
        PROVE  StraysAreSeen'
    <3>1. file'[t] = c /\ \A u \in Targets \ {t} : file'[u] = file[u]
      BY <2>2
    <3>2. CASE pc = "syncing" /\ t = idx
      <4>1. strayed' = strayed /\ idx' = idx /\ pc' = "syncing" /\ snap' = snap
        BY <2>1, <2>2, <3>2
      <4>2. \A u \in Targets \ {idx} : file'[u] = file[u]
        BY <3>1, <3>2
      <4>3. UNCHANGED <<dirty, install, failure>>
        BY <2>1, <2>2
      <4>4. QED
        BY ONLY <3>2, <4>1, <4>2, <4>3, StraysAreSeen
           DEF StraysAreSeen, Closing, Checking, Ended
    <3>3. CASE ~(pc = "syncing" /\ t = idx)
      <4>1. c = "broken"
        BY <2>2, <3>3
      <4>2. CASE pc = "syncing"
        BY <2>1, <2>2, <3>1, <3>3, <4>1, <4>2
      <4>3. CASE pc \in {"version", "auditing", "verifying"}
        BY <2>1, <2>2, <3>1, <4>1, <4>3
      <4>4. QED
        BY <2>1, <4>2, <4>3
    <3>4. QED
      BY <3>2, <3>3
  <2>3. CASE dirty' = TRUE /\ UNCHANGED <<file, install>>
    BY <2>1, <2>3
  <2>4. CASE install' = FALSE
    BY <2>1, <2>4
  <2>5. QED
    <3>1. PICK t \in Targets : \/ LET mine == pc = "syncing" /\ t = idx IN
                                  /\ \E c \in IF mine THEN {"synced", "broken", "gone"}
                                              ELSE {"broken"} :
                                       file' = [file EXCEPT ![t] = c]
                                  /\ strayed' = (strayed \/ ~mine)
                                  /\ UNCHANGED <<dirty, sources, install>>
                               \/ dirty' = TRUE /\ UNCHANGED <<file, install>>
                               \/ install' = FALSE
      BY <1>10, SomeTarget DEF CommandWrites
    <3>2. CASE \E c \in {"synced", "broken", "gone"} :
                 /\ file' = [file EXCEPT ![t] = c]
                 /\ LET mine == pc = "syncing" /\ t = idx
                    IN  (mine \/ c = "broken") /\ strayed' = (strayed \/ ~mine)
                 /\ UNCHANGED <<dirty, sources, install>>
      <4>1. PICK c \in {"synced", "broken", "gone"} :
                 /\ file' = [file EXCEPT ![t] = c]
                 /\ LET mine == pc = "syncing" /\ t = idx
                    IN  (mine \/ c = "broken") /\ strayed' = (strayed \/ ~mine)
                 /\ UNCHANGED <<dirty, sources, install>>
        BY <3>2
      <4>2. QED
        BY ONLY <2>2, <4>1
    <3>3. QED
      BY ONLY <2>3, <2>4, <3>1, <3>2
<1>11. ASSUME AfterCommand PROVE StraysAreSeen'
  <2>1. UNCHANGED <<file, install, failure, strayed, idx>> /\ pc = "synced"
        /\ \/ pc' = "done"
           \/ /\ pc' = "judge"
              /\ unrecovered' = unrecovered \cup (Changed \ {idx})
    BY <1>11 DEF AfterCommand, Throws, Tell
  <2>2. dirty => Elsewhere \in Changed \ {idx}
    BY <2>1 DEF Elsewhere, Targets
  <2>3. (\E t \in Targets \ {idx} : file[t] # snap[t]) => Changed \ {idx} # {}
    OBVIOUS
  <2>4. QED
    BY <2>1, <2>2, <2>3
<1>12. ASSUME JudgeCommand PROVE StraysAreSeen'
  BY <1>12 DEF JudgeCommand, Fail
<1>13. ASSUME CommandsDone PROVE StraysAreSeen'
  BY <1>13 DEF CommandsDone
<1>14. ASSUME StartVerifier PROVE StraysAreSeen'
  BY <1>14 DEF StartVerifier, TakeSnapshot
<1>15. ASSUME AfterVerifier PROVE StraysAreSeen'
  BY <1>15 DEF AfterVerifier, Fail
<1>16. ASSUME ArtifactVerdict PROVE StraysAreSeen'
  BY <1>16 DEF ArtifactVerdict, Fail
<1>17. ASSUME StartVerify PROVE StraysAreSeen'
  BY <1>17 DEF StartVerify, Fail, TakeSnapshot
<1>18. ASSUME AfterVerify PROVE StraysAreSeen'
  BY <1>18 DEF AfterVerify, Fail, Reread, AllHeld, LockfilesMatchObserved
<1>19. ASSUME SnapshotThrows PROVE StraysAreSeen'
  BY <1>19 DEF SnapshotThrows, Throws, Tell
<1>20. ASSUME BeginRecovery PROVE StraysAreSeen'
  BY <1>20 DEF BeginRecovery
<1>21. ASSUME RecoverLockfile PROVE StraysAreSeen'
  BY <1>21 DEF RecoverLockfile, Unrecovered, Fail
<1>22. ASSUME CheckBeforeRename PROVE StraysAreSeen'
  BY <1>22 DEF CheckBeforeRename, Unrecovered, Fail
<1>23. ASSUME RenameLockfile PROVE StraysAreSeen'
  BY <1>23 DEF RenameLockfile, Unrecovered, Fail
<1>24. ASSUME SettleLockfile PROVE StraysAreSeen'
  BY <1>24 DEF SettleLockfile, Unrecovered, Fail
<1>25. ASSUME FailedExecution PROVE StraysAreSeen'
  BY <1>25 DEF FailedExecution, Tell
<1>26. ASSUME FinalLook PROVE StraysAreSeen'
  BY <1>26 DEF FinalLook, Tell, LockfilesMatchObserved
<1>27. ASSUME CleanupArtifacts PROVE StraysAreSeen'
  BY <1>27 DEF CleanupArtifacts
<1>28. ASSUME Report PROVE StraysAreSeen'
  BY <1>28 DEF Report, Tell
<1>29. ASSUME Crash PROVE StraysAreSeen'
  BY <1>29 DEF Crash
<1>30. ASSUME NEW t \in Targets, EditLockfile(t) PROVE StraysAreSeen'
  <2>1. UNCHANGED <<pc, idx, dirty, install, snap, failure, unrecovered, strayed>>
    BY <1>30 DEF EditLockfile
  <2>2. PICK c \in Foreign \cup {"gone"} : file' = [file EXCEPT ![t] = c]
    BY <1>30 DEF EditLockfile
  <2>3. file'[t] \notin {"orig", "synced"} /\ \A u \in Targets \ {t} : file'[u] = file[u]
    BY <2>2, ManagerAssumption
  <2>4. \A u \in Targets : /\ file[u] # "orig" => file'[u] # "orig"
                           /\ file[u] # "synced" => file'[u] # "synced"
                           /\ pc \in {"syncing", "synced"} /\ file[u] # snap[u] =>
                                file'[u] # snap[u]
    BY <2>3
  <2>5. QED
    BY <2>1, <2>4
<1>31. ASSUME EditElsewhere PROVE StraysAreSeen'
  <2>1. UNCHANGED <<pc, idx, file, snap, failure, unrecovered, strayed>>
        /\ (dirty' = dirty \/ dirty' = TRUE) /\ (install' = install \/ install' = FALSE)
    BY <1>31 DEF EditElsewhere
  <2>2. QED
    BY <2>1
<1>32. ASSUME UNCHANGED vars PROVE StraysAreSeen'
  BY <1>32 DEF vars
<1>33. QED
  BY <1>1, <1>2, <1>3, <1>4, <1>5, <1>6, <1>7, <1>8, <1>9, <1>10,
     <1>11, <1>12, <1>13, <1>14, <1>15, <1>16, <1>17, <1>18, <1>19, <1>20,
     <1>21, <1>22, <1>23, <1>24, <1>25, <1>26, <1>27, <1>28, <1>29, <1>30,
     <1>31, <1>32
     DEF Next, Phases, Preflight, Commands, Verifying, Recovery, Ending

\* All fields of an answer that the invariant is about.
LEMMA ToldPaths ==
  ASSUME NEW at, NEW success, NEW unknown, NEW paths, NEW back, NEW effects,
         NEW clean, Tell(at, success, unknown, paths, back, effects, clean)
  PROVE  /\ result'.at = at /\ result'.success = success
         /\ result'.unrecovered = paths
BY DEF Tell

\* There is no answer yet, a refusal, or none that says anything of lockfiles.
LEMMA SilentSteps ==
  ASSUME Answerless,
         \/ UNCHANGED result /\ pc # "done"
         \/ result'.at = "preflight"
         \/ result'.success = FALSE /\ failure' = "none"
         \/ result'.success = FALSE /\ Targets \subseteq result'.unrecovered
  PROVE  AnswerIsExact'
<1>1. CASE UNCHANGED result /\ pc # "done"
  BY <1>1 DEF Answerless, NoResult, AnswerIsExact, LockfilesAccounted,
     SuccessIsExact
<1>2. CASE \/ result'.at = "preflight"
           \/ result'.success = FALSE /\ failure' = "none"
           \/ result'.success = FALSE /\ Targets \subseteq result'.unrecovered
  BY <1>2 DEF AnswerIsExact, LockfilesAccounted, SuccessIsExact
<1>3. QED
  BY <1>1, <1>2

\* failedExecution names every lockfile it could not restore.
LEMMA FailedExecutionIsExact ==
  ASSUME TypeOK, ManagerInvariant, AnswerInvariant, FailedExecution
  PROVE  AnswerIsExact'
<1>1. /\ pc = "recover" /\ idx > N /\ failure # "none"
      /\ UNCHANGED <<file, failure, touched>>
  BY DEF FailedExecution, ManagerInvariant, FailureIsKnown, Restoring, diskVars,
     askVars
<1>2. CASE UNCHANGED result
  BY <1>1, <1>2, SilentSteps DEF ManagerInvariant
<1>3. CASE result'.success = FALSE /\ result'.unrecovered = unrecovered
  <2>1. \A t \in Targets : t < idx
    <3>1. N \in Nat /\ idx \in Nat
      BY ManagerAssumption DEF TypeOK
    <3>2. QED
      BY <1>1, <3>1 DEF Targets
  <2>2. \A t \in Targets \ touched : file[t] \in Original \/ t \in unrecovered
    BY <1>1, <2>1 DEF AnswerInvariant, LedgerKept
  <2>3. QED
    BY <1>1, <1>3, <2>2 DEF AnswerIsExact, LockfilesAccounted, SuccessIsExact
<1>4. QED
  BY <1>2, <1>3, ToldPaths, Zenon DEF FailedExecution

\* Success is reported where every trace of a stray was looked for.
LEMMA ReportIsExact ==
  ASSUME ManagerInvariant, AnswerInvariant, Report
  PROVE  AnswerIsExact'
<1>1. /\ pc \in {"cleaned", "kept"}
      /\ UNCHANGED <<file, failure, touched, executed, strayed, restored,
                     unrecovered>>
  BY DEF Report, diskVars, askVars
<1>2. CASE failure # "none" /\ result'.success = FALSE
  <2>1. \A t \in Targets \ touched : file[t] \in Original
    BY <1>1, <1>2 DEF AnswerInvariant, LedgerKept, Closing
  <2>2. QED
    BY <1>1, <1>2, <2>1 DEF AnswerIsExact, LockfilesAccounted, SuccessIsExact
<1>3. CASE failure = "none"
  <2>1. executed = Targets /\ \A t \in Targets \ touched : file[t] = "synced"
    BY <1>1, <1>3 DEF ManagerInvariant, ClosingIsSafe, Closing
  <2>2. ~strayed
    BY <1>1, <1>3 DEF AnswerInvariant, StraysAreSeen, Closing, Ended
  <2>3. restored = {} /\ unrecovered = {}
    BY <1>1, <1>3 DEF AnswerInvariant, FailuresOnly, Ended
  <2>4. QED
    BY <1>1, <1>3, <2>1, <2>2, <2>3
       DEF AnswerIsExact, LockfilesAccounted, SuccessIsExact
<1>4. QED
  BY <1>2, <1>3, ToldPaths, Zenon DEF Report

\* A step that answers answers exactly.
LEMMA AnswerStep ==
  ASSUME TypeOK, ManagerInvariant, AnswerInvariant
  PROVE  [Next]_vars => AnswerIsExact'
<1>1. Answerless
  BY DEF ManagerInvariant
<1>2. CASE PrepareTarget \/ PrepareVerdict
  <2>1. pc # "done"
    BY <1>2 DEF PrepareTarget, PrepareVerdict
  <2>2. UNCHANGED result \/ result'.at = "preflight"
    BY <1>2, Refused, Zenon DEF PrepareTarget, PrepareVerdict
  <2>3. QED
    BY <1>1, <2>1, <2>2, SilentSteps
<1>3. CASE Capture \/ Backup \/ WritePhaseFile
  <2>1. pc # "done" /\ failure' = "none"
    BY <1>3 DEF Capture, Backup, WritePhaseFile, ManagerInvariant, EvidenceComes,
       NothingStarted, Early
  <2>2. UNCHANGED result \/ result'.success = FALSE
    BY <1>3, ToldPaths, Zenon DEF Capture, Backup, WritePhaseFile
  <2>3. QED
    BY <1>1, <2>1, <2>2, SilentSteps
<1>4. CASE BeginCommands
  <2>1. pc # "done" /\ failure' = "none"
    BY <1>4 DEF BeginCommands, ManagerInvariant, EvidenceComes, NothingStarted
  <2>2. UNCHANGED result \/ result'.success = FALSE
    BY <1>4, ToldPaths, Thrown, Zenon DEF BeginCommands
  <2>3. QED
    BY <1>1, <2>1, <2>2, SilentSteps
<1>5. CASE RunCommand \/ AfterCommand \/ SnapshotThrows
  <2>1. pc # "done"
    BY <1>5 DEF RunCommand, AfterCommand, SnapshotThrows
  <2>2. Throws => result'.success = FALSE /\ result'.unrecovered = Targets
    BY ToldPaths, Zenon DEF Throws
  <2>3. UNCHANGED result \/ Throws
    BY <1>5 DEF RunCommand, AfterCommand, SnapshotThrows
  <2>4. QED
    BY <1>1, <2>1, <2>2, <2>3, SilentSteps
<1>6. CASE FinalLook
  <2>1. pc # "done" /\ failure' = "none"
    BY <1>6 DEF FinalLook, ManagerInvariant, FailureIsKnown
  <2>2. UNCHANGED result \/ result'.success = FALSE
    BY <1>6, ToldPaths, Zenon DEF FinalLook
  <2>3. QED
    BY <1>1, <2>1, <2>2, SilentSteps
<1>7. CASE FailedExecution
  BY <1>7, FailedExecutionIsExact
<1>8. CASE Report
  BY <1>8, ReportIsExact
<1>9. CASE \/ Prepared \/ CommandEnds \/ JudgeCommand
           \/ CommandsDone \/ StartVerifier \/ AfterVerifier \/ ArtifactVerdict
           \/ StartVerify \/ AfterVerify \/ BeginRecovery \/ RecoverLockfile
           \/ CheckBeforeRename \/ RenameLockfile \/ SettleLockfile
           \/ CleanupArtifacts \/ Crash \/ CommandWrites \/ EditElsewhere
           \/ \E t \in Targets : EditLockfile(t)
  <2>1. pc # "done" /\ UNCHANGED result
    BY <1>9
       DEF Prepared, CommandEnds, JudgeCommand, CommandsDone,
           StartVerifier, AfterVerifier, ArtifactVerdict, StartVerify, AfterVerify,
           BeginRecovery, RecoverLockfile, CheckBeforeRename, RenameLockfile,
           SettleLockfile, CleanupArtifacts, Crash, CommandWrites, EditElsewhere,
           EditLockfile, Others, Ended, Running, sumVars
  <2>2. QED
    BY <1>1, <2>1, SilentSteps
<1>10. CASE UNCHANGED vars
  BY <1>10
     DEF vars, diskVars, sumVars, askVars, AnswerInvariant, AnswerIsExact,
         LockfilesAccounted, SuccessIsExact
<1>11. QED
  BY <1>2, <1>3, <1>4, <1>5, <1>6, <1>7, <1>8, <1>9, <1>10
     DEF Next, Phases, Preflight, Commands, Verifying, Recovery, Ending

\* It holds before anything ran.
LEMMA InitAnswers == Init => AnswerInvariant
BY ManagerAssumption
   DEF Init, AnswerInvariant, SnapshotsKept, LedgerKept, StraysAreSeen,
       FailuresOnly, AnswerIsExact, LockfilesAccounted, SuccessIsExact, NoResult,
       Original, Restoring, Closing, Ended

LEMMA NextAnswers ==
  TypeOK /\ ManagerInvariant /\ AnswerInvariant /\ [Next]_vars => AnswerInvariant'
BY SnapshotsStep, LedgerStep, FailuresStep, StraysStep, AnswerStep
   DEF AnswerInvariant

\* What executeManagerPhases answers is exact: after a failure every lockfile
\* nobody else changed is the original again or named, and success means that
\* every command ran, each such lockfile is what its manager should write, and
\* no command wrote anything else.
THEOREM AnswersAreExact == Spec => []AnswerIsExact
<1>1. AnswerInvariant => AnswerIsExact
  BY DEF AnswerInvariant
<1>2. Spec => []AnswerInvariant
  BY InitAnswers, NextAnswers, ManagerInvariance, PTL DEF Spec
<1>3. QED
  BY <1>1, <1>2, PTL

-----------------------------------------------------------------------------
(***************************************************************************)
(* The processes the phases run: the proofs about ProcessRunner, for any   *)
(* number of processes.  What a confirmed termination means, and that no   *)
(* member of the command's group outlives the call.                        *)
(***************************************************************************)

USE RunnerAssumption

\* Saying makes an observation.
LEMMA SayTyping ==
  ASSUME NEW t \in {"exit", "signal", "timeout", "unavailable", "unknown"},
         NEW r \in {"exited", "start-failed", "descendants", "output", "timeout",
                    "supervision", "changed"},
         NEW c \in BOOLEAN, Say(t, r, c)
  PROVE  /\ answer' \in Observation /\ answer' # NoAnswer /\ stage' = "answered"
         /\ answer'.confirmed = c
<1>1. answer' = [termination |-> t, reason |-> r, confirmed |-> c]
  BY DEF Say
<1>2. answer'.termination = t /\ answer'.confirmed = c
  BY <1>1
<1>3. answer' # NoAnswer
  BY <1>2 DEF NoAnswer
<1>4. answer' \in Observation
  BY <1>1 DEF Observation
<1>5. QED
  BY <1>2, <1>3, <1>4 DEF Say

\* Every observation Answer gives is one of ProcessObservation's, and unless it
\* is that the command ended, it says of confirmation what it was given.
LEMMA AnswerTyping ==
  ASSUME NEW d \in BOOLEAN, NEW c \in BOOLEAN, Answer(d, c)
  PROVE  /\ answer' \in Observation /\ answer' # NoAnswer /\ stage' = "answered"
         /\ answer'.confirmed = c \/ ~ (d \/ "outputExceeded" \in flags
                                          \/ "timedOut" \in flags)
<1>1. CASE "spawnError" \in flags
  <2>1. Say("unavailable", "start-failed", c)
    BY <1>1 DEF Answer
  <2>2. QED
    BY <2>1, SayTyping
<1>2. CASE "spawnError" \notin flags /\ d
  <2>1. Say("unknown", "descendants", c)
    BY <1>2 DEF Answer
  <2>2. QED
    BY <2>1, SayTyping
<1>3. CASE "spawnError" \notin flags /\ ~ d /\ "outputExceeded" \in flags
  <2>1. Say("unknown", "output", c)
    BY <1>3 DEF Answer
  <2>2. QED
    BY <2>1, SayTyping
<1>4. CASE /\ "spawnError" \notin flags /\ ~ d /\ "outputExceeded" \notin flags
           /\ "timedOut" \in flags
  <2>1. Say("timeout", "timeout", c)
    BY <1>4 DEF Answer
  <2>2. QED
    BY <2>1, SayTyping
<1>5. CASE /\ "spawnError" \notin flags /\ ~ d /\ "outputExceeded" \notin flags
           /\ "timedOut" \notin flags
  <2>1. PICK end \in {"exit", "signal"} : Say(end, "exited", TRUE)
    BY <1>5 DEF Answer
  <2>2. QED
    BY <1>5, <2>1, SayTyping
<1>6. QED
  BY <1>1, <1>2, <1>3, <1>4, <1>5

\* A kill changes only states, and to types.
LEMMA KillTyping ==
  ASSUME RunnerTypeOK, NEW victims, Kill(victims)
  PROVE  /\ state' \in [Procs -> {"none", "alive", "dying", "gone"}]
         /\ UNCHANGED <<group, token, pipe, kin, parent>>
BY DEF Kill, RunnerTypeOK

\* No step leaves the types of runResolvedProcess's state.
LEMMA RunnerTypingStep ==
  ASSUME RunnerTypeOK, [RunnerNext]_runnerVars
  PROVE  RunnerTypeOK'
<1> USE DEF RunnerTypeOK, processes, evidence
<1>1. CASE Decline
  BY <1>1 DEF Decline, Say, Observation, NoAnswer
<1>2. CASE Spawn
  BY <1>2 DEF Spawn, Group, Parent
<1>3. CASE SpawnError \/ Timeout \/ Close \/ Overflow
  <2>1. flags' \subseteq Flag
    BY <1>3 DEF SpawnError, Timeout, Close, Overflow, Raise, If, Flag
  <2>2. QED
    BY <1>3, <2>1 DEF SpawnError, Timeout, Close, Overflow
<1>4. CASE KillGroup \/ KillEscaped
  BY <1>4, KillTyping DEF KillGroup, KillEscaped
<1>5. CASE Confirm
  BY <1>5 DEF Confirm, Raise, If, Flag
<1>6. CASE Census \/ Scan
  BY <1>6 DEF Census, Scan, Existing
<1>7. CASE ObserverFails
  BY <1>7 DEF ObserverFails, Say, Observation, NoAnswer
<1>8. CASE Judge
  <2>1. flags' \subseteq Flag
    BY <1>8 DEF Judge, Raise, If, Flag
  <2>2. QED
    BY <1>8, <2>1 DEF Judge
<1>9. CASE Probe
  <2>1. PICK d \in BOOLEAN, c \in BOOLEAN : Answer(d, c)
    BY <1>9, Zenon DEF Probe
  <2>2. QED
    BY <1>9, <2>1, AnswerTyping DEF Probe
<1>10. ASSUME NEW p \in Procs, ReadStat(p)
       PROVE  RunnerTypeOK'
  <2>1. [group |-> group[p], parent |-> parent[p]] \in Seen
    BY DEF Seen
  <2>2. QED
    BY <1>10, <2>1 DEF ReadStat
<1>11. ASSUME NEW p \in Procs, ReadEnviron(p)
       PROVE  RunnerTypeOK'
  BY <1>11 DEF ReadEnviron
<1>12. ASSUME NEW p \in Procs, Detach(p) \/ Strip(p) \/ CloseOutput(p) \/ Exit(p)
       PROVE  RunnerTypeOK'
  BY <1>12 DEF Detach, Strip, CloseOutput, Exit, Meanwhile, Group
<1>13. ASSUME NEW p \in Procs, Vanish(p)
       PROVE  RunnerTypeOK'
  BY <1>13 DEF Vanish, Meanwhile, Group, Parent
<1>14. ASSUME NEW p \in Procs, Appear(p)
       PROVE  RunnerTypeOK'
  BY <1>14 DEF Appear, Meanwhile, Group, Parent
<1>15. ASSUME NEW p \in Procs, NEW q \in Procs, Fork(p, q)
       PROVE  RunnerTypeOK'
  BY <1>15 DEF Fork, Meanwhile, Group, Parent
<1>16. CASE UNCHANGED runnerVars
  BY <1>16 DEF runnerVars
<1>17. QED
  BY <1>1, <1>2, <1>3, <1>4, <1>5, <1>6, <1>7, <1>8, <1>9, <1>10, <1>11, <1>12,
     <1>13, <1>14, <1>15, <1>16 DEF RunnerNext, Supervisor, Processes

\* Type correctness of a supervised command (process-runner.ts).
THEOREM RunnerTyping == RunnerSpec => []RunnerTypeOK
<1>1. RunnerInit => RunnerTypeOK
  BY DEF RunnerInit, RunnerTypeOK, Group, Parent, NoAnswer
<1>2. RunnerTypeOK /\ [RunnerNext]_runnerVars => RunnerTypeOK'
  BY RunnerTypingStep
<1>3. QED
  BY <1>1, <1>2, PTL DEF RunnerSpec

\* A step of the supervisor other than the spawn and the kills leaves the
\* processes alone.
Bystander == \/ Decline \/ SpawnError \/ Timeout \/ Overflow \/ Close \/ Confirm
             \/ Census \/ Scan \/ ObserverFails \/ Judge \/ Probe
             \/ \E p \in Procs : ReadStat(p) \/ ReadEnviron(p)

LEMMA BystandersLookOn ==
  ASSUME Bystander
  PROVE  UNCHANGED processes
BY DEF Bystander, Decline, SpawnError, Timeout, Overflow, Close, Confirm, Census,
       Scan, ObserverFails, Judge, Probe, ReadStat, ReadEnviron

\* The steps, grouped by what they do to the processes.
LEMMA StepCases ==
  ASSUME [RunnerNext]_runnerVars
  PROVE  \/ Spawn \/ Bystander \/ KillGroup \/ KillEscaped \/ UNCHANGED runnerVars
         \/ \E p \in Procs : \/ Detach(p) \/ Strip(p) \/ CloseOutput(p)
                             \/ Exit(p) \/ Vanish(p) \/ Appear(p)
                             \/ \E q \in Procs : Fork(p, q)
BY DEF RunnerNext, Supervisor, Processes, Bystander

\* No step leads back to the start.
LEMMA NoReturn ==
  ASSUME [RunnerNext]_runnerVars
  PROVE  stage' # "start" \/ UNCHANGED <<stage, processes>>
<1>1. CASE UNCHANGED runnerVars
  BY <1>1 DEF runnerVars
<1>2. CASE RunnerNext
  <2>1. CASE Supervisor
    BY <2>1 DEF Supervisor, Decline, Spawn, SpawnError, Timeout, Close, KillGroup,
       Confirm, Census, Scan, ObserverFails, Judge, KillEscaped, Probe, ReadStat,
         ReadEnviron, Say, Answer
  <2>2. CASE Processes
    BY <2>2 DEF Processes, Overflow, Detach, Strip, CloseOutput, Exit, Vanish,
         Appear, Fork, Meanwhile
  <2>3. QED
    BY <1>2, <2>1, <2>2 DEF RunnerNext
<1>3. QED
  BY <1>1, <1>2

\* The family tree survives every step.
LEMMA FamilyTreeStep ==
  ASSUME RunnerTypeOK, FamilyTree, [RunnerNext]_runnerVars
  PROVE  FamilyTree'
<1> USE NoReturn DEF RunnerTypeOK, FamilyTree, Exists, processes
<1>1. CASE Spawn
  BY <1>1 DEF Spawn
<1>2. CASE Bystander \/ UNCHANGED runnerVars
  BY <1>2, BystandersLookOn DEF runnerVars, processes
<1>3. CASE KillGroup \/ KillEscaped
  <2>1. PICK victims \in SUBSET Procs : Kill(victims)
    BY <1>3 DEF KillGroup, KillEscaped
  <2>2. QED
    BY <2>1 DEF Kill
<1>4. ASSUME NEW p \in Procs, Detach(p) \/ Strip(p) \/ CloseOutput(p) \/ Exit(p)
      PROVE  FamilyTree'
  BY <1>4 DEF Detach, Strip, CloseOutput, Exit, Group, Alive
<1>5. ASSUME NEW p \in Procs, Vanish(p)
      PROVE  FamilyTree'
  BY <1>5 DEF Vanish, Group
<1>6. ASSUME NEW p \in Procs, Appear(p)
      PROVE  FamilyTree'
  BY <1>6 DEF Appear, Group
<1>7. ASSUME NEW p \in Procs, NEW q \in Procs, Fork(p, q)
      PROVE  FamilyTree'
  BY <1>7 DEF Fork, Alive
<1>8. QED
  BY <1>1, <1>2, <1>3, <1>4, <1>5, <1>6, <1>7, StepCases

\* What the processes do cannot put anybody into a group that was dealt with.
LEMMA GroupStep ==
  ASSUME RunnerTypeOK, FamilyTree, GroupIsDealtWith, [RunnerNext]_runnerVars
  PROVE  GroupIsDealtWith'
<1> USE DEF RunnerTypeOK, GroupIsDealtWith, AfterGroup, Tainted, GroupExists, Exists,
            Alive, Raise, If
<1>1. CASE Spawn
  BY <1>1 DEF Spawn
<1>2. CASE Bystander
  <2>1. UNCHANGED processes
    BY <1>2, BystandersLookOn
  <2>2. CASE Decline \/ SpawnError \/ Timeout
    <3>1. CASE Decline
      BY <2>1, <3>1 DEF Decline, Say, processes, FamilyTree
    <3>2. CASE SpawnError \/ Timeout
      BY <2>1, <3>2 DEF SpawnError, Timeout, processes
    <3>3. QED
      BY <2>2, <3>1, <3>2
  <2>3. CASE Confirm
    BY <2>1, <2>3 DEF Confirm, processes
  <2>4. CASE Census \/ Scan \/ \E p \in Procs : ReadStat(p) \/ ReadEnviron(p)
    BY <2>1, <2>4 DEF Census, Scan, ReadStat, ReadEnviron, processes
  <2>5. CASE ObserverFails
    BY <2>1, <2>5 DEF ObserverFails, Say, processes
  <2>6. CASE Judge
    BY <2>1, <2>6 DEF Judge, processes
  <2>7. CASE Probe
    BY <2>1, <2>7, RunnerTypingStep DEF Probe, Answer, Say, processes
  <2>8. CASE Close
    <3>1. CASE GroupExists
      BY <2>1, <2>8, <3>1 DEF Close, processes
    <3>2. CASE ~ GroupExists
      BY <2>1, <2>8, <3>2 DEF Close, processes
    <3>3. QED
      BY <3>1, <3>2
  <2>9. CASE Overflow
    <3>1. CASE stage = "waiting"
      BY <2>1, <2>9, <3>1 DEF Overflow, processes
    <3>2. CASE stage # "waiting"
      BY <2>1, <2>9, <3>2 DEF Overflow, processes
    <3>3. QED
      BY <3>1, <3>2
  <2>10. QED
    BY <1>2, <2>2, <2>3, <2>4, <2>5, <2>6, <2>7, <2>8, <2>9 DEF Bystander
<1>3. CASE KillGroup
  BY <1>3 DEF KillGroup, Kill
<1>4. CASE KillEscaped
  BY <1>4 DEF KillEscaped, Kill
<1>5. CASE UNCHANGED runnerVars
  BY <1>5 DEF runnerVars, processes
<1>6. ASSUME NEW p \in Procs, Detach(p) \/ Strip(p) \/ CloseOutput(p) \/ Exit(p)
      PROVE  GroupIsDealtWith'
  BY <1>6 DEF Detach, Strip, CloseOutput, Exit, Group, Meanwhile
<1>7. ASSUME NEW p \in Procs, Vanish(p)
      PROVE  GroupIsDealtWith'
  BY <1>7 DEF Vanish, Group, Meanwhile
<1>8. ASSUME NEW p \in Procs, Appear(p)
      PROVE  GroupIsDealtWith'
  BY <1>8 DEF Appear, Group, Meanwhile
<1>9. ASSUME NEW p \in Procs, NEW q \in Procs, Fork(p, q)
      PROVE  GroupIsDealtWith'
  BY <1>9 DEF Fork, Meanwhile
<1>10. QED
  BY <1>1, <1>2, <1>3, <1>4, <1>5, <1>6, <1>7, <1>8, <1>9, StepCases

\* Whoever existed at the listing is read or known to be gone.
LEMMA CensusStep ==
  ASSUME RunnerTypeOK, FamilyTree, GroupIsDealtWith, CensusIsComplete, [RunnerNext]_runnerVars
  PROVE  CensusIsComplete'
<1> USE DEF RunnerTypeOK, CensusIsComplete, AfterGroup, Exists, Alive, evidence
<1>1. CASE Spawn
  BY <1>1 DEF Spawn
<1>2. CASE Bystander
  <2> USE <1>2, BystandersLookOn DEF processes
  <2>1. CASE Decline
    BY <2>1 DEF Decline, Say
  <2>2. CASE SpawnError \/ Timeout \/ Confirm
    BY <2>2 DEF SpawnError, Timeout, Confirm, Raise
  <2>3. CASE Close
    BY <2>3 DEF Close, Raise
  <2>4. CASE Overflow
    BY <2>4 DEF Overflow, Raise, Tainted
  <2>5. CASE Census
    BY <2>5 DEF Census, Existing
  <2>6. ASSUME NEW p \in Procs, ReadStat(p)
        PROVE  CensusIsComplete'
    <3>1. CASE ~ Exists(p)
      BY <2>6, <3>1 DEF ReadStat
    <3>2. CASE Exists(p)
      <4>1. /\ stage = "reading" /\ stage' = "reading" /\ todo' = todo \ {p}
            /\ UNCHANGED <<flags, escaped, present>>
            /\ DOMAIN current' = DOMAIN current \cup {p}
            /\ current'[p] = [group |-> group[p], parent |-> parent[p]]
            /\ \A q \in DOMAIN current : q # p => current'[q] = current[q]
        BY <2>6, <3>2 DEF ReadStat
      <4>2. ASSUME p \in kin, "unconfirmed" \notin flags
            PROVE  /\ p # Child /\ group[p] = "own"
                   /\ parent[p] \in kin \cup {Reaper}
        BY <3>2, <4>1, <4>2 DEF FamilyTree, GroupIsDealtWith, GroupExists, Group
      <4>3. QED
        BY <3>2, <4>1, <4>2
    <3>3. QED
      BY <3>1, <3>2
  <2>7. CASE Scan \/ ObserverFails \/ \E p \in Procs : ReadEnviron(p)
    BY <2>7 DEF Scan, ObserverFails, ReadEnviron, Say
  <2>8. CASE Judge
    BY <2>8 DEF Judge, Raise, If, Tainted
  <2>9. CASE Probe
    BY <2>9 DEF Probe, Answer, Say
  <2>10. QED
    BY <2>1, <2>2, <2>3, <2>4, <2>5, <2>6, <2>7, <2>8, <2>9 DEF Bystander
<1>3. CASE KillGroup
  BY <1>3 DEF KillGroup, Kill
<1>4. CASE KillEscaped
  BY <1>4 DEF KillEscaped, Kill, Tainted
<1>5. CASE UNCHANGED runnerVars
  BY <1>5 DEF runnerVars, processes, Tainted
<1>6. ASSUME NEW p \in Procs, Detach(p) \/ Strip(p) \/ CloseOutput(p) \/ Exit(p)
      PROVE  CensusIsComplete'
  BY <1>6 DEF Detach, Strip, CloseOutput, Exit, Meanwhile, Tainted
<1>7. ASSUME NEW p \in Procs, Vanish(p)
      PROVE  CensusIsComplete'
  BY <1>7 DEF Vanish, Meanwhile, Tainted
<1>8. ASSUME NEW p \in Procs, Appear(p)
      PROVE  CensusIsComplete'
  BY <1>8 DEF Appear, Meanwhile, Tainted, FamilyTree
<1>9. ASSUME NEW p \in Procs, NEW q \in Procs, Fork(p, q)
      PROVE  CensusIsComplete'
  BY <1>9 DEF Fork, Meanwhile, Tainted, FamilyTree
<1>10. QED
  BY <1>1, <1>2, <1>3, <1>4, <1>5, <1>6, <1>7, <1>8, <1>9, StepCases

\* When init adopts orphans, the parents of what the command started lead to
\* init and never to a process of the baseline.
LEMMA KinIsNotOfTheSession ==
  ASSUME RunnerTypeOK, CensusIsComplete, Reaper = Pid1, stage # "answered",
         "unconfirmed" \notin flags, NEW p \in DOMAIN current \cap kin
  PROVE  ~ HasBaselineAncestor(p)
<1> DEFINE S == kin \cup {Pid1}
<1>1. S \in SUBSET (Procs \cup {Session, Pid1})
  BY DEF RunnerTypeOK
<1>2. current[p].parent \in S
  BY DEF CensusIsComplete
<1>3. ClosedUnderParents(S)
  <2>1. ASSUME NEW q \in DOMAIN current, q \in S
        PROVE  current[q].parent \in S
    BY <2>1 DEF CensusIsComplete, RunnerTypeOK
  <2>2. QED
    BY <2>1 DEF ClosedUnderParents
<1>4. Session \notin S
  BY DEF RunnerTypeOK
<1>5. QED
  BY <1>1, <1>2, <1>3, <1>4 DEF HasBaselineAncestor

\* After the answer nothing changes.
LEMMA AnswerIsFinal ==
  ASSUME stage = "answered", [RunnerNext]_runnerVars
  PROVE  UNCHANGED runnerVars
<1>1. ~ Supervisor
  BY DEF Supervisor, Decline, Spawn, SpawnError, Timeout, Close, KillGroup, Confirm,
     Census, Scan, ObserverFails, Judge, KillEscaped, Probe, ReadStat, ReadEnviron
<1>2. ~ Processes
  BY DEF Processes, Overflow, Detach, Strip, CloseOutput, Exit, Vanish, Appear, Fork,
     Meanwhile
<1>3. QED
  BY <1>1, <1>2 DEF RunnerNext

\* The answer Probe gives is confirmed only if nobody of the census is left.
LEMMA ProbeIsHonest ==
  ASSUME RunnerTypeOK, FamilyTree, GroupIsDealtWith, CensusIsComplete, Reaper = Pid1,
         Probe
  PROVE  answer'.confirmed => \A p \in present : ~ Exists(p)
<1> DEFINE strange == \E p \in DOMAIN current : Unattributed(p)
           dead == \A p \in escaped : ~ Exists(p)
           d == "descendants" \in flags \/ strange
           c == "unconfirmed" \notin flags /\ dead /\ ~ strange
<1>1. Answer(d, c) /\ stage = "probe"
  BY DEF Probe
<1>2. c => \A p \in present : ~ Exists(p)
  <2> SUFFICES ASSUME c, NEW p \in present, Exists(p)
               PROVE  FALSE
    OBVIOUS
  <2>1. p \in DOMAIN current \cap kin /\ p # Child /\ current[p].group = "own"
    BY <1>1 DEF CensusIsComplete
  <2>2. p \notin escaped
    OBVIOUS
  <2>3. ~ HasBaselineAncestor(p)
    BY <1>1, <2>1, KinIsNotOfTheSession
  <2>4. Unattributed(p)
    BY <2>1, <2>2, <2>3 DEF Unattributed
  <2>5. QED
    BY <2>1, <2>4
<1>3. ~ (d \/ "outputExceeded" \in flags \/ "timedOut" \in flags) => c
  <2> SUFFICES ASSUME ~ d, "outputExceeded" \notin flags, "timedOut" \notin flags
               PROVE  c
    OBVIOUS
  <2>1. ~ Tainted
    BY DEF Tainted
  <2>2. "unconfirmed" \notin flags
    BY <2>1 DEF GroupIsDealtWith
  <2>3. escaped = {}
    BY <1>1, <2>1 DEF CensusIsComplete
  <2>4. QED
    BY <2>2, <2>3
<1>4. d \in BOOLEAN /\ c \in BOOLEAN
  OBVIOUS
<1> HIDE DEF d, c
<1>5. answer'.confirmed = c \/ c
  BY <1>1, <1>3, <1>4, AnswerTyping
<1>6. QED
  BY <1>2, <1>5

\* A confirmed termination stays truthful.
LEMMA ConfirmedStep ==
  ASSUME RunnerInvariant, RunnerTypeOK, Reaper = Pid1, [RunnerNext]_runnerVars
  PROVE  ConfirmedMeansGone'
<1> USE DEF RunnerInvariant, ConfirmedMeansGone
<1>1. CASE stage = "answered"
  BY <1>1, AnswerIsFinal DEF runnerVars, processes, evidence, Exists
<1>2. CASE stage # "answered"
  <2>1. CASE Probe
    <3>1. answer'.confirmed => \A p \in present : ~ Exists(p)
      BY <2>1, ProbeIsHonest
    <3>2. UNCHANGED <<present, state>>
      BY <2>1 DEF Probe, processes, evidence
    <3>3. QED
      BY <3>1, <3>2 DEF Exists
  <2>2. CASE ObserverFails
    BY <2>2 DEF ObserverFails, Say
  <2>3. CASE Decline
    BY <1>2, <2>3 DEF Decline, evidence, CensusIsComplete, AfterGroup
  <2>4. CASE ~ Probe /\ ~ ObserverFails /\ ~ Decline
    <3>1. UNCHANGED answer
      BY <2>4 DEF RunnerNext, Supervisor, Processes, Spawn, SpawnError, Timeout, Close,
         KillGroup, Confirm, Census, Scan, Judge, KillEscaped, ReadStat,
         ReadEnviron, Overflow, Detach, Strip, CloseOutput, Exit, Vanish, Appear,
         Fork, Meanwhile, runnerVars
    <3>2. answer = NoAnswer
      BY <1>2 DEF RunnerTypeOK
    <3>3. QED
      BY <3>1, <3>2 DEF NoAnswer
  <2>5. QED
    BY <2>1, <2>2, <2>3, <2>4
<1>3. QED
  BY <1>1, <1>2

\* The inductive invariant of runResolvedProcess: the family tree, the group
\* that was dealt with, the complete census, and the honest answer.
THEOREM RunnerInvariance == RunnerSpec => []RunnerInvariant
<1>1. RunnerInit => RunnerTypeOK /\ RunnerInvariant
  BY RunnerAssumption DEF RunnerInit, RunnerTypeOK, Group, Parent, NoAnswer, RunnerInvariant,
     FamilyTree, GroupIsDealtWith, CensusIsComplete, ConfirmedMeansGone, Exists,
     Alive, AfterGroup
<1>2. RunnerTypeOK /\ RunnerInvariant /\ [RunnerNext]_runnerVars
        => RunnerTypeOK' /\ RunnerInvariant'
  <2> SUFFICES ASSUME RunnerTypeOK, RunnerInvariant, [RunnerNext]_runnerVars
               PROVE  RunnerTypeOK' /\ RunnerInvariant'
    OBVIOUS
  <2>1. RunnerTypeOK'
    BY RunnerTypingStep
  <2>2. FamilyTree'
    BY FamilyTreeStep DEF RunnerInvariant
  <2>3. GroupIsDealtWith'
    BY GroupStep DEF RunnerInvariant
  <2>4. CensusIsComplete'
    BY CensusStep DEF RunnerInvariant
  <2>5. Reaper = Pid1 => ConfirmedMeansGone'
    BY ConfirmedStep
  <2>6. QED
    BY <2>1, <2>2, <2>3, <2>4, <2>5 DEF RunnerInvariant
<1>3. QED
  BY <1>1, <1>2, PTL DEF RunnerSpec

\* Where init adopts orphans, a confirmed termination means that whatever the
\* command had running when the census began is gone, for any number of
\* processes that fork, detach and drop the marker.
THEOREM ConfirmationIsHonest ==
  ASSUME Reaper = Pid1
  PROVE  RunnerSpec => []ConfirmedMeansGone
<1>1. RunnerInvariant => ConfirmedMeansGone
  BY DEF RunnerInvariant
<1>2. QED
  BY <1>1, RunnerInvariance, PTL

\* Whatever the answer, no member of the command's process group runs on.
THEOREM GroupIsStopped == RunnerSpec => []GroupDoesNotOutlive
<1>1. RunnerTypeOK /\ RunnerInvariant => GroupDoesNotOutlive
  BY DEF RunnerInvariant, GroupIsDealtWith, GroupDoesNotOutlive, RunnerTypeOK, AfterGroup
<1>2. QED
  BY <1>1, RunnerInvariance, RunnerTyping, PTL
=============================================================================
