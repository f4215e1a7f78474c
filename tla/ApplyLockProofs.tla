--------------------------- MODULE ApplyLockProofs ---------------------------
(***************************************************************************)
(* TLAPS proofs about ApplyLock, for any set of processes, with crashes    *)
(* and I/O failures.                                                       *)
(***************************************************************************)
EXTENDS ApplyLock, TLAPS

USE LockAssumption

\* A process and an attempt name a directory.
LEMMA DirectoryName ==
  ASSUME NEW p \in Proc, NEW a \in {0, 1}
  PROVE  <<p, a>> \in Dirs
BY DEF Dirs

\* No step leaves the types of lock.ts's state.
LEMMA TypingStep ==
  ASSUME TypeOK, [Next]_vars
  PROVE  TypeOK'
<1> USE DEF Terminal, Refused, Stealing, PutBacks, Holding, Releasing,
            Acquiring, Labels, TypeOK, OwnerAtLock, Goto
<1>1. ASSUME NEW p \in Proc, Acquire(p)
      PROVE  TypeOK'
  <2>1. CASE CheckEvidence(p) \/ FindStateRoot(p) \/ MakeStateRoot(p)
    BY <2>1 DEF CheckEvidence, FindStateRoot, MakeStateRoot
  <2>2. CASE MakeLock(p)
    <3>1. <<p, attempt[p]>> \in Dirs
      BY DirectoryName
    <3>2. QED
      BY <2>2, <3>1 DEF MakeLock
  <2>3. CASE CreateOwner(p)
    BY <2>3 DEF CreateOwner
  <2>4. CASE FillOwner(p)
    BY <2>4 DEF FillOwner
  <2>5. CASE Identify(p)
    BY <2>5 DEF Identify
  <2>6. QED
    BY <1>1, <2>1, <2>2, <2>3, <2>4, <2>5 DEF Acquire
<1>2. ASSUME NEW p \in Proc, Reclaim(p)
      PROVE  TypeOK'
  <2>1. CASE Inspect(p)
    BY <2>1 DEF Inspect
  <2>2. CASE ProbeOwner(p) \/ CheckOwnerJournal(p) \/ VerifyStale(p)
    BY <2>2 DEF ProbeOwner, CheckOwnerJournal, VerifyStale
  <2>3. CASE MoveStale(p)
    <3>1. CASE lockDir = None
      BY <2>3, <3>1 DEF MoveStale
    <3>2. CASE lockDir # None
      <4>1. /\ lockDir \in Dirs
            /\ pc' = [pc EXCEPT ![p] = "verify-stale"]
            /\ aside' = [aside EXCEPT ![p] = lockDir]
            /\ lockDir' = None /\ reclaimed' = TRUE
            /\ UNCHANGED <<attempt, stateRoot, ownerOf, seen, handle, journal>>
        BY <2>3, <3>2 DEF MoveStale
      <4>2. aside' \in [Proc -> Dirs \cup {None}]
        BY <4>1
      <4>3. QED
        BY <4>1, <4>2
    <3>3. QED
      BY <3>1, <3>2
  <2>4. CASE UnlinkStale(p)
    BY <2>4 DEF UnlinkStale
  <2>5. CASE RemoveStale(p)
    BY <2>5 DEF RemoveStale
  <2>6. CASE LookBack(p) \/ PutBack(p)
    BY <2>6 DEF LookBack, PutBack, GiveUp
  <2>7. QED
    BY <1>2, <2>1, <2>2, <2>3, <2>4, <2>5, <2>6 DEF Reclaim
<1>3. ASSUME NEW p \in Proc, Run(p)
      PROVE  TypeOK'
  BY <1>3 DEF Run, CreateJournal, FinishRun, RemoveJournal, AbandonRun
<1>4. ASSUME NEW p \in Proc, Release(p)
      PROVE  TypeOK'
  <2>1. CASE BeginRelease(p) \/ VerifyRelease(p) \/ CleanStateRoot(p)
    BY <2>1 DEF BeginRelease, VerifyRelease, CleanStateRoot
  <2>2. CASE MoveRelease(p)
    BY <2>2 DEF MoveRelease
  <2>3. CASE UnlinkRelease(p)
    BY <2>3 DEF UnlinkRelease
  <2>4. CASE RemoveRelease(p)
    BY <2>4 DEF RemoveRelease
  <2>5. QED
    BY <1>4, <2>1, <2>2, <2>3, <2>4 DEF Release
<1>5. ASSUME NEW p \in Proc, IOError(p) \/ Crash(p)
      PROVE  TypeOK'
  BY <1>5 DEF IOError, Crash, GiveUp
<1>6. CASE UNCHANGED vars
  BY <1>6 DEF vars
<1>7. QED
  BY <1>1, <1>2, <1>3, <1>4, <1>5, <1>6 DEF Next

\* Type correctness of the apply lock protocol (lock.ts).
THEOREM LockTyping == Spec => []TypeOK
<1>1. Init => TypeOK
  BY DEF Init, TypeOK, Labels, Acquiring
<1>2. TypeOK /\ [Next]_vars => TypeOK'
  BY TypingStep
<1>3. QED
  BY <1>1, <1>2, PTL DEF Spec

\* A process that has ended never takes another step.
LEMMA GoneForever ==
  ASSUME TypeOK, NEW q \in Proc, Gone(q), [Next]_vars
  PROVE  Gone(q)'
<1> USE DEF TypeOK, Gone, Goto, Terminal, Refused
<1>1. ASSUME NEW p \in Proc, Acquire(p)
      PROVE  Gone(q)'
  <2>1. CASE CheckEvidence(p) \/ FindStateRoot(p) \/ MakeStateRoot(p)
    BY <2>1 DEF CheckEvidence, FindStateRoot, MakeStateRoot
  <2>2. CASE MakeLock(p)
    BY <2>2 DEF MakeLock
  <2>3. CASE CreateOwner(p)
    BY <2>3 DEF CreateOwner
  <2>4. CASE FillOwner(p)
    BY <2>4 DEF FillOwner
  <2>5. CASE Identify(p)
    BY <2>5 DEF Identify
  <2>6. QED
    BY <1>1, <2>1, <2>2, <2>3, <2>4, <2>5 DEF Acquire
<1>2. ASSUME NEW p \in Proc, Reclaim(p)
      PROVE  Gone(q)'
  <2>1. CASE Inspect(p)
    BY <2>1 DEF Inspect
  <2>2. CASE ProbeOwner(p) \/ CheckOwnerJournal(p) \/ VerifyStale(p) \/ LookBack(p)
    BY <2>2 DEF ProbeOwner, CheckOwnerJournal, VerifyStale, LookBack, GiveUp
  <2>3. CASE MoveStale(p)
    BY <2>3 DEF MoveStale
  <2>4. CASE UnlinkStale(p)
    BY <2>4 DEF UnlinkStale
  <2>5. CASE RemoveStale(p)
    BY <2>5 DEF RemoveStale
  <2>6. CASE PutBack(p)
    BY <2>6 DEF PutBack, GiveUp
  <2>7. QED
    BY <1>2, <2>1, <2>2, <2>3, <2>4, <2>5, <2>6 DEF Reclaim
<1>3. ASSUME NEW p \in Proc, Run(p)
      PROVE  Gone(q)'
  <2>1. CASE CreateJournal(p)
    BY <2>1 DEF CreateJournal
  <2>2. CASE FinishRun(p) \/ AbandonRun(p)
    BY <2>2 DEF FinishRun, AbandonRun
  <2>3. CASE RemoveJournal(p)
    BY <2>3 DEF RemoveJournal
  <2>4. QED
    BY <1>3, <2>1, <2>2, <2>3 DEF Run
<1>4. ASSUME NEW p \in Proc, Release(p)
      PROVE  Gone(q)'
  <2>1. CASE BeginRelease(p) \/ VerifyRelease(p) \/ CleanStateRoot(p)
    BY <2>1 DEF BeginRelease, VerifyRelease, CleanStateRoot
  <2>2. CASE MoveRelease(p)
    BY <2>2 DEF MoveRelease
  <2>3. CASE UnlinkRelease(p)
    BY <2>3 DEF UnlinkRelease
  <2>4. CASE RemoveRelease(p)
    BY <2>4 DEF RemoveRelease
  <2>5. QED
    BY <1>4, <2>1, <2>2, <2>3, <2>4 DEF Release
<1>5. ASSUME NEW p \in Proc, IOError(p)
      PROVE  Gone(q)'
  BY <1>5 DEF IOError, GiveUp
<1>6. ASSUME NEW p \in Proc, Crash(p)
      PROVE  Gone(q)'
  BY <1>6 DEF Crash
<1>7. CASE UNCHANGED vars
  BY <1>7 DEF vars
<1>8. QED
  BY <1>1, <1>2, <1>3, <1>4, <1>5, <1>6, <1>7 DEF Next

\* A process has a directory aside exactly at the labels that need one.
LEMMA AsideByLabelStep ==
  ASSUME TypeOK, AsideByLabel, [Next]_vars
  PROVE  AsideByLabel'
<1> USE DEF TypeOK, AsideByLabel, AsideLabels, Goto, Terminal, Refused
<1>1. ASSUME NEW p \in Proc, Acquire(p)
      PROVE  AsideByLabel'
  <2>1. CASE CheckEvidence(p) \/ FindStateRoot(p) \/ MakeStateRoot(p)
    BY <2>1 DEF CheckEvidence, FindStateRoot, MakeStateRoot
  <2>2. CASE MakeLock(p)
    BY <2>2 DEF MakeLock
  <2>3. CASE CreateOwner(p)
    BY <2>3 DEF CreateOwner
  <2>4. CASE FillOwner(p)
    BY <2>4 DEF FillOwner
  <2>5. CASE Identify(p)
    BY <2>5 DEF Identify
  <2>6. QED
    BY <1>1, <2>1, <2>2, <2>3, <2>4, <2>5 DEF Acquire
<1>2. ASSUME NEW p \in Proc, Reclaim(p)
      PROVE  AsideByLabel'
  <2>1. CASE Inspect(p)
    BY <2>1 DEF Inspect
  <2>2. CASE ProbeOwner(p) \/ CheckOwnerJournal(p) \/ VerifyStale(p) \/ LookBack(p)
    BY <2>2 DEF ProbeOwner, CheckOwnerJournal, VerifyStale, LookBack, GiveUp
  <2>3. CASE MoveStale(p)
    BY <2>3 DEF MoveStale
  <2>4. CASE UnlinkStale(p)
    BY <2>4 DEF UnlinkStale
  <2>5. CASE RemoveStale(p)
    BY <2>5 DEF RemoveStale
  <2>6. CASE PutBack(p)
    BY <2>6 DEF PutBack, GiveUp
  <2>7. QED
    BY <1>2, <2>1, <2>2, <2>3, <2>4, <2>5, <2>6 DEF Reclaim
<1>3. ASSUME NEW p \in Proc, Run(p)
      PROVE  AsideByLabel'
  <2>1. CASE CreateJournal(p)
    BY <2>1 DEF CreateJournal
  <2>2. CASE FinishRun(p) \/ AbandonRun(p)
    BY <2>2 DEF FinishRun, AbandonRun
  <2>3. CASE RemoveJournal(p)
    BY <2>3 DEF RemoveJournal
  <2>4. QED
    BY <1>3, <2>1, <2>2, <2>3 DEF Run
<1>4. ASSUME NEW p \in Proc, Release(p)
      PROVE  AsideByLabel'
  <2>1. CASE BeginRelease(p) \/ VerifyRelease(p) \/ CleanStateRoot(p)
    BY <2>1 DEF BeginRelease, VerifyRelease, CleanStateRoot
  <2>2. CASE MoveRelease(p)
    BY <2>2 DEF MoveRelease
  <2>3. CASE UnlinkRelease(p)
    BY <2>3 DEF UnlinkRelease
  <2>4. CASE RemoveRelease(p)
    BY <2>4 DEF RemoveRelease
  <2>5. QED
    BY <1>4, <2>1, <2>2, <2>3, <2>4 DEF Release
<1>5. ASSUME NEW p \in Proc, IOError(p)
      PROVE  AsideByLabel'
  BY <1>5 DEF IOError, GiveUp
<1>6. ASSUME NEW p \in Proc, Crash(p)
      PROVE  AsideByLabel'
  BY <1>6 DEF Crash
<1>7. CASE UNCHANGED vars
  BY <1>7 DEF vars
<1>8. QED
  BY <1>1, <1>2, <1>3, <1>4, <1>5, <1>6, <1>7 DEF Next

\* Only a run that staged, or one that ended without cleanup, has a journal.
LEMMA JournalByLabelStep ==
  ASSUME TypeOK, JournalByLabel, [Next]_vars
  PROVE  JournalByLabel'
<1> USE DEF TypeOK, JournalByLabel, Goto
<1>1. ASSUME NEW p \in Proc, Acquire(p)
      PROVE  JournalByLabel'
  <2>1. CASE CheckEvidence(p) \/ FindStateRoot(p) \/ MakeStateRoot(p)
    BY <2>1 DEF CheckEvidence, FindStateRoot, MakeStateRoot
  <2>2. CASE MakeLock(p)
    BY <2>2 DEF MakeLock
  <2>3. CASE CreateOwner(p)
    BY <2>3 DEF CreateOwner
  <2>4. CASE FillOwner(p)
    BY <2>4 DEF FillOwner
  <2>5. CASE Identify(p)
    BY <2>5 DEF Identify
  <2>6. QED
    BY <1>1, <2>1, <2>2, <2>3, <2>4, <2>5 DEF Acquire
<1>2. ASSUME NEW p \in Proc, Reclaim(p)
      PROVE  JournalByLabel'
  <2>1. CASE Inspect(p)
    BY <2>1 DEF Inspect
  <2>2. CASE ProbeOwner(p) \/ CheckOwnerJournal(p) \/ VerifyStale(p) \/ LookBack(p)
    BY <2>2 DEF ProbeOwner, CheckOwnerJournal, VerifyStale, LookBack, GiveUp
  <2>3. CASE MoveStale(p)
    BY <2>3 DEF MoveStale
  <2>4. CASE UnlinkStale(p)
    BY <2>4 DEF UnlinkStale
  <2>5. CASE RemoveStale(p)
    BY <2>5 DEF RemoveStale
  <2>6. CASE PutBack(p)
    BY <2>6 DEF PutBack, GiveUp
  <2>7. QED
    BY <1>2, <2>1, <2>2, <2>3, <2>4, <2>5, <2>6 DEF Reclaim
<1>3. ASSUME NEW p \in Proc, Run(p)
      PROVE  JournalByLabel'
  <2>1. CASE CreateJournal(p)
    BY <2>1 DEF CreateJournal
  <2>2. CASE FinishRun(p) \/ AbandonRun(p)
    BY <2>2 DEF FinishRun, AbandonRun
  <2>3. CASE RemoveJournal(p)
    BY <2>3 DEF RemoveJournal
  <2>4. QED
    BY <1>3, <2>1, <2>2, <2>3 DEF Run
<1>4. ASSUME NEW p \in Proc, Release(p)
      PROVE  JournalByLabel'
  <2>1. CASE BeginRelease(p) \/ VerifyRelease(p) \/ CleanStateRoot(p)
    BY <2>1 DEF BeginRelease, VerifyRelease, CleanStateRoot
  <2>2. CASE MoveRelease(p)
    BY <2>2 DEF MoveRelease
  <2>3. CASE UnlinkRelease(p)
    BY <2>3 DEF UnlinkRelease
  <2>4. CASE RemoveRelease(p)
    BY <2>4 DEF RemoveRelease
  <2>5. QED
    BY <1>4, <2>1, <2>2, <2>3, <2>4 DEF Release
<1>5. ASSUME NEW p \in Proc, IOError(p)
      PROVE  JournalByLabel'
  BY <1>5 DEF IOError, GiveUp
<1>6. ASSUME NEW p \in Proc, Crash(p)
      PROVE  JournalByLabel'
  BY <1>6 DEF Crash
<1>7. CASE UNCHANGED vars
  BY <1>7 DEF vars
<1>8. QED
  BY <1>1, <1>2, <1>3, <1>4, <1>5, <1>6, <1>7 DEF Next

\* Renames never put one directory in two places.
LEMMA OnePlaceStep ==
  ASSUME TypeOK, AsideByLabel, OnePlacePerDirectory, NextDirectoryIsNew,
         [Next]_vars
  PROVE  OnePlacePerDirectory'
<1> USE DEF TypeOK, AsideByLabel, AsideLabels, OnePlacePerDirectory,
            NextDirectoryIsNew, Goto, Terminal, Refused
<1>1. ASSUME NEW p \in Proc, Acquire(p)
      PROVE  OnePlacePerDirectory'
  <2>1. CASE CheckEvidence(p) \/ FindStateRoot(p) \/ MakeStateRoot(p)
    BY <2>1 DEF CheckEvidence, FindStateRoot, MakeStateRoot
  <2>2. CASE MakeLock(p)
    BY <2>2 DEF MakeLock
  <2>3. CASE CreateOwner(p)
    BY <2>3 DEF CreateOwner
  <2>4. CASE FillOwner(p)
    BY <2>4 DEF FillOwner
  <2>5. CASE Identify(p)
    BY <2>5 DEF Identify
  <2>6. QED
    BY <1>1, <2>1, <2>2, <2>3, <2>4, <2>5 DEF Acquire
<1>2. ASSUME NEW p \in Proc, Reclaim(p)
      PROVE  OnePlacePerDirectory'
  <2>1. CASE Inspect(p)
    BY <2>1 DEF Inspect
  <2>2. CASE ProbeOwner(p) \/ CheckOwnerJournal(p) \/ VerifyStale(p) \/ LookBack(p)
    BY <2>2 DEF ProbeOwner, CheckOwnerJournal, VerifyStale, LookBack, GiveUp
  <2>3. CASE MoveStale(p)
    BY <2>3 DEF MoveStale
  <2>4. CASE UnlinkStale(p)
    BY <2>4 DEF UnlinkStale
  <2>5. CASE RemoveStale(p)
    BY <2>5 DEF RemoveStale
  <2>6. CASE PutBack(p)
    BY <2>6 DEF PutBack, GiveUp
  <2>7. QED
    BY <1>2, <2>1, <2>2, <2>3, <2>4, <2>5, <2>6 DEF Reclaim
<1>3. ASSUME NEW p \in Proc, Run(p)
      PROVE  OnePlacePerDirectory'
  <2>1. CASE CreateJournal(p)
    BY <2>1 DEF CreateJournal
  <2>2. CASE FinishRun(p) \/ AbandonRun(p)
    BY <2>2 DEF FinishRun, AbandonRun
  <2>3. CASE RemoveJournal(p)
    BY <2>3 DEF RemoveJournal
  <2>4. QED
    BY <1>3, <2>1, <2>2, <2>3 DEF Run
<1>4. ASSUME NEW p \in Proc, Release(p)
      PROVE  OnePlacePerDirectory'
  <2>1. CASE BeginRelease(p) \/ VerifyRelease(p) \/ CleanStateRoot(p)
    BY <2>1 DEF BeginRelease, VerifyRelease, CleanStateRoot
  <2>2. CASE MoveRelease(p)
    BY <2>2 DEF MoveRelease
  <2>3. CASE UnlinkRelease(p)
    BY <2>3 DEF UnlinkRelease
  <2>4. CASE RemoveRelease(p)
    BY <2>4 DEF RemoveRelease
  <2>5. QED
    BY <1>4, <2>1, <2>2, <2>3, <2>4 DEF Release
<1>5. ASSUME NEW p \in Proc, IOError(p)
      PROVE  OnePlacePerDirectory'
  BY <1>5 DEF IOError, GiveUp
<1>6. ASSUME NEW p \in Proc, Crash(p)
      PROVE  OnePlacePerDirectory'
  BY <1>6 DEF Crash
<1>7. CASE UNCHANGED vars
  BY <1>7 DEF vars
<1>8. QED
  BY <1>1, <1>2, <1>3, <1>4, <1>5, <1>6, <1>7 DEF Next

\* mkdir makes a directory that never existed before.
LEMMA NextDirectoryStep ==
  ASSUME TypeOK, NextDirectoryIsNew, OneWriterPerOwnerFile, [Next]_vars
  PROVE  NextDirectoryIsNew'
<1> USE DEF TypeOK, Goto
<1> DEFINE Unmade(q, a) ==
             \/ attempt[q] < a
             \/ attempt[q] = a /\ pc[q] \in {"evidence", "state", "make-state", "mkdir"}
           New(d) == /\ ownerOf[d] = None
                     /\ lockDir # d
                     /\ \A r \in Proc : aside[r] # d
<1> SUFFICES ASSUME NEW q \in Proc, NEW a \in {0, 1}, Unmade(q, a)'
             PROVE  New(<<q, a>>)'
  BY DEF NextDirectoryIsNew
<1>d. <<q, a>> \in Dirs /\ (Unmade(q, a) => New(<<q, a>>))
  BY DirectoryName DEF NextDirectoryIsNew
<1>1. ASSUME NEW p \in Proc, Acquire(p)
      PROVE  New(<<q, a>>)'
  <2>1. CASE CheckEvidence(p) \/ FindStateRoot(p) \/ MakeStateRoot(p)
    BY <2>1, <1>d DEF CheckEvidence, FindStateRoot, MakeStateRoot
  <2>2. CASE MakeLock(p)
    <3>1. CASE p = q /\ attempt[p] = a
      BY <2>2, <3>1 DEF MakeLock
    <3>2. CASE p # q \/ attempt[p] # a
      BY <2>2, <3>2, <1>d DEF MakeLock
    <3>3. QED
      BY <3>1, <3>2
  <2>3. CASE CreateOwner(p)
    BY <2>3, <1>d DEF CreateOwner
  <2>4. CASE FillOwner(p)
    BY <2>4, <1>d DEF FillOwner, OneWriterPerOwnerFile
  <2>5. CASE Identify(p)
    BY <2>5, <1>d DEF Identify
  <2>6. QED
    BY <1>1, <2>1, <2>2, <2>3, <2>4, <2>5 DEF Acquire
<1>2. ASSUME NEW p \in Proc, Reclaim(p)
      PROVE  New(<<q, a>>)'
  <2>1. CASE Inspect(p)
    BY <2>1, <1>d DEF Inspect
  <2>2. CASE ProbeOwner(p) \/ CheckOwnerJournal(p) \/ VerifyStale(p) \/ LookBack(p)
    BY <2>2, <1>d DEF ProbeOwner, CheckOwnerJournal, VerifyStale, LookBack,
        GiveUp
  <2>3. CASE MoveStale(p)
    BY <2>3, <1>d DEF MoveStale
  <2>4. CASE UnlinkStale(p)
    BY <2>4, <1>d DEF UnlinkStale
  <2>5. CASE RemoveStale(p)
    BY <2>5, <1>d DEF RemoveStale
  <2>6. CASE PutBack(p)
    BY <2>6, <1>d DEF PutBack, GiveUp
  <2>7. QED
    BY <1>2, <2>1, <2>2, <2>3, <2>4, <2>5, <2>6 DEF Reclaim
<1>3. ASSUME NEW p \in Proc, Run(p)
      PROVE  New(<<q, a>>)'
  <2>1. CASE CreateJournal(p)
    BY <2>1, <1>d DEF CreateJournal
  <2>2. CASE FinishRun(p) \/ AbandonRun(p)
    BY <2>2, <1>d DEF FinishRun, AbandonRun
  <2>3. CASE RemoveJournal(p)
    BY <2>3, <1>d DEF RemoveJournal
  <2>4. QED
    BY <1>3, <2>1, <2>2, <2>3 DEF Run
<1>4. ASSUME NEW p \in Proc, Release(p)
      PROVE  New(<<q, a>>)'
  <2>1. CASE BeginRelease(p) \/ VerifyRelease(p) \/ CleanStateRoot(p)
    BY <2>1, <1>d DEF BeginRelease, VerifyRelease, CleanStateRoot
  <2>2. CASE MoveRelease(p)
    BY <2>2, <1>d DEF MoveRelease
  <2>3. CASE UnlinkRelease(p)
    BY <2>3, <1>d DEF UnlinkRelease
  <2>4. CASE RemoveRelease(p)
    BY <2>4, <1>d DEF RemoveRelease
  <2>5. QED
    BY <1>4, <2>1, <2>2, <2>3, <2>4 DEF Release
<1>5. ASSUME NEW p \in Proc, IOError(p)
      PROVE  New(<<q, a>>)'
  BY <1>5, <1>d DEF IOError, GiveUp
<1>6. ASSUME NEW p \in Proc, Crash(p)
      PROVE  New(<<q, a>>)'
  BY <1>6, <1>d DEF Crash
<1>7. CASE UNCHANGED vars
  BY <1>7, <1>d DEF vars
<1>8. QED
  BY <1>1, <1>2, <1>3, <1>4, <1>5, <1>6, <1>7 DEF Next

\* An owner file being written keeps its one writer.
LEMMA OneWriterStep ==
  ASSUME TypeOK, OneWriterPerOwnerFile, RemovedEmpty, JudgedDead,
         [Next]_vars
  PROVE  OneWriterPerOwnerFile'
<1> USE DEF TypeOK, OneWriterPerOwnerFile, Goto, OwnerAtLock
<1>1. ASSUME NEW p \in Proc, Acquire(p)
      PROVE  OneWriterPerOwnerFile'
  <2>1. CASE CheckEvidence(p) \/ FindStateRoot(p) \/ MakeStateRoot(p)
    BY <2>1 DEF CheckEvidence, FindStateRoot, MakeStateRoot
  <2>2. CASE MakeLock(p)
    BY <2>2 DEF MakeLock
  <2>3. CASE CreateOwner(p)
    BY <2>3 DEF CreateOwner
  <2>4. CASE FillOwner(p)
    BY <2>4 DEF FillOwner
  <2>5. CASE Identify(p)
    BY <2>5 DEF Identify
  <2>6. QED
    BY <1>1, <2>1, <2>2, <2>3, <2>4, <2>5 DEF Acquire
<1>2. ASSUME NEW p \in Proc, Reclaim(p)
      PROVE  OneWriterPerOwnerFile'
  <2>1. CASE Inspect(p)
    BY <2>1 DEF Inspect
  <2>2. CASE ProbeOwner(p) \/ CheckOwnerJournal(p) \/ VerifyStale(p) \/ LookBack(p)
    BY <2>2 DEF ProbeOwner, CheckOwnerJournal, VerifyStale, LookBack, GiveUp
  <2>3. CASE MoveStale(p)
    BY <2>3 DEF MoveStale
  <2>4. CASE UnlinkStale(p)
    BY <2>4 DEF UnlinkStale, JudgedDead, Stealing
  <2>5. CASE RemoveStale(p)
    BY <2>5 DEF RemoveStale
  <2>6. CASE PutBack(p)
    BY <2>6 DEF PutBack, GiveUp
  <2>7. QED
    BY <1>2, <2>1, <2>2, <2>3, <2>4, <2>5, <2>6 DEF Reclaim
<1>3. ASSUME NEW p \in Proc, Run(p)
      PROVE  OneWriterPerOwnerFile'
  <2>1. CASE CreateJournal(p)
    BY <2>1 DEF CreateJournal
  <2>2. CASE FinishRun(p) \/ AbandonRun(p)
    BY <2>2 DEF FinishRun, AbandonRun
  <2>3. CASE RemoveJournal(p)
    BY <2>3 DEF RemoveJournal
  <2>4. QED
    BY <1>3, <2>1, <2>2, <2>3 DEF Run
<1>4. ASSUME NEW p \in Proc, Release(p)
      PROVE  OneWriterPerOwnerFile'
  <2>1. CASE BeginRelease(p) \/ VerifyRelease(p) \/ CleanStateRoot(p)
    BY <2>1 DEF BeginRelease, VerifyRelease, CleanStateRoot
  <2>2. CASE MoveRelease(p)
    BY <2>2 DEF MoveRelease
  <2>3. CASE UnlinkRelease(p)
    BY <2>3 DEF UnlinkRelease, RemovedEmpty
  <2>4. CASE RemoveRelease(p)
    BY <2>4 DEF RemoveRelease
  <2>5. QED
    BY <1>4, <2>1, <2>2, <2>3, <2>4 DEF Release
<1>5. ASSUME NEW p \in Proc, IOError(p)
      PROVE  OneWriterPerOwnerFile'
  BY <1>5 DEF IOError, GiveUp
<1>6. ASSUME NEW p \in Proc, Crash(p)
      PROVE  OneWriterPerOwnerFile'
  BY <1>6 DEF Crash
<1>7. CASE UNCHANGED vars
  BY <1>7 DEF vars
<1>8. QED
  BY <1>1, <1>2, <1>3, <1>4, <1>5, <1>6, <1>7 DEF Next

\* A directory being removed is not written to by anyone.
LEMMA RemovedEmptyStep ==
  ASSUME TypeOK, AsideByLabel, OnePlacePerDirectory, OneWriterPerOwnerFile,
         RemovedEmpty, [Next]_vars
  PROVE  RemovedEmpty'
<1> USE DEF TypeOK, RemovedEmpty, AsideByLabel, AsideLabels,
            OnePlacePerDirectory, OneWriterPerOwnerFile, Goto, OwnerAtLock
<1>1. ASSUME NEW p \in Proc, Acquire(p)
      PROVE  RemovedEmpty'
  <2>1. CASE CheckEvidence(p) \/ FindStateRoot(p) \/ MakeStateRoot(p)
    BY <2>1 DEF CheckEvidence, FindStateRoot, MakeStateRoot
  <2>2. CASE MakeLock(p)
    BY <2>2 DEF MakeLock
  <2>3. CASE CreateOwner(p)
    BY <2>3 DEF CreateOwner
  <2>4. CASE FillOwner(p)
    BY <2>4 DEF FillOwner
  <2>5. CASE Identify(p)
    BY <2>5 DEF Identify
  <2>6. QED
    BY <1>1, <2>1, <2>2, <2>3, <2>4, <2>5 DEF Acquire
<1>2. ASSUME NEW p \in Proc, Reclaim(p)
      PROVE  RemovedEmpty'
  <2>1. CASE Inspect(p)
    BY <2>1 DEF Inspect
  <2>2. CASE ProbeOwner(p) \/ CheckOwnerJournal(p) \/ VerifyStale(p) \/ LookBack(p)
    BY <2>2 DEF ProbeOwner, CheckOwnerJournal, VerifyStale, LookBack, GiveUp
  <2>3. CASE MoveStale(p)
    BY <2>3 DEF MoveStale
  <2>4. CASE UnlinkStale(p)
    BY <2>4 DEF UnlinkStale
  <2>5. CASE RemoveStale(p)
    BY <2>5 DEF RemoveStale
  <2>6. CASE PutBack(p)
    BY <2>6 DEF PutBack, GiveUp
  <2>7. QED
    BY <1>2, <2>1, <2>2, <2>3, <2>4, <2>5, <2>6 DEF Reclaim
<1>3. ASSUME NEW p \in Proc, Run(p)
      PROVE  RemovedEmpty'
  <2>1. CASE CreateJournal(p)
    BY <2>1 DEF CreateJournal
  <2>2. CASE FinishRun(p) \/ AbandonRun(p)
    BY <2>2 DEF FinishRun, AbandonRun
  <2>3. CASE RemoveJournal(p)
    BY <2>3 DEF RemoveJournal
  <2>4. QED
    BY <1>3, <2>1, <2>2, <2>3 DEF Run
<1>4. ASSUME NEW p \in Proc, Release(p)
      PROVE  RemovedEmpty'
  <2>1. CASE BeginRelease(p) \/ VerifyRelease(p) \/ CleanStateRoot(p)
    BY <2>1 DEF BeginRelease, VerifyRelease, CleanStateRoot
  <2>2. CASE MoveRelease(p)
    BY <2>2 DEF MoveRelease
  <2>3. CASE UnlinkRelease(p)
    BY <2>3 DEF UnlinkRelease
  <2>4. CASE RemoveRelease(p)
    BY <2>4 DEF RemoveRelease
  <2>5. QED
    BY <1>4, <2>1, <2>2, <2>3, <2>4 DEF Release
<1>5. ASSUME NEW p \in Proc, IOError(p)
      PROVE  RemovedEmpty'
  BY <1>5 DEF IOError, GiveUp
<1>6. ASSUME NEW p \in Proc, Crash(p)
      PROVE  RemovedEmpty'
  BY <1>6 DEF Crash
<1>7. CASE UNCHANGED vars
  BY <1>7 DEF vars
<1>8. QED
  BY <1>1, <1>2, <1>3, <1>4, <1>5, <1>6, <1>7 DEF Next

\* A verdict of death stays true until the stale directory is removed.
LEMMA JudgedDeadStep ==
  ASSUME TypeOK, AsideByLabel, OnePlacePerDirectory, OneWriterPerOwnerFile,
         JudgedDead, [Next]_vars
  PROVE  JudgedDead'
<1> USE DEF TypeOK, Goto
<1> DEFINE Verdict(q) ==
             /\ pc[q] \in {"probe", "owner-journal"} \cup Stealing => seen[q] \in Proc
             /\ pc[q] \in {"owner-journal"} \cup Stealing => Gone(seen[q])
             /\ pc[q] \in Stealing => seen[q] \notin journal
             /\ pc[q] = "unlink-stale" => ownerOf[aside[q]] = seen[q]
<1> SUFFICES ASSUME NEW q \in Proc
             PROVE  Verdict(q)'
  BY DEF JudgedDead
<1>g. \A r \in Proc : Gone(r) => Gone(r)'
  BY GoneForever
<1>q. Verdict(q)
  BY DEF JudgedDead
<1> USE DEF Stealing
<1>1. ASSUME NEW p \in Proc, Acquire(p)
      PROVE  Verdict(q)'
  <2>1. CASE CheckEvidence(p) \/ FindStateRoot(p) \/ MakeStateRoot(p)
    BY <2>1, <1>g, <1>q DEF CheckEvidence, FindStateRoot, MakeStateRoot
  <2>2. CASE MakeLock(p)
    BY <2>2, <1>g, <1>q DEF MakeLock
  <2>3. CASE CreateOwner(p)
    <3>1. CASE pc[q] = "unlink-stale" /\ lockDir # None /\ OwnerAtLock = None
      <4>1. seen[q] # None
        BY <3>1, <1>q
      <4>2. aside[q] # lockDir /\ aside[q] \in Dirs
        BY <3>1, <4>1, <1>q DEF OwnerAtLock, AsideByLabel, AsideLabels
      <4>3. p # q
        BY <2>3, <3>1 DEF CreateOwner
      <4>4. ownerOf'[aside[q]] = ownerOf[aside[q]]
        BY <2>3, <3>1, <4>2 DEF CreateOwner
      <4>5. QED
        BY <2>3, <1>g, <1>q, <3>1, <4>3, <4>4 DEF CreateOwner
    <3>2. CASE ~(lockDir # None /\ OwnerAtLock = None)
      BY <2>3, <1>g, <1>q, <3>2 DEF CreateOwner
    <3>3. CASE pc[q] # "unlink-stale"
      BY <2>3, <1>g, <1>q, <3>3 DEF CreateOwner
    <3>4. QED
      BY <3>1, <3>2, <3>3
  <2>4. CASE FillOwner(p)
    <3>1. CASE pc[q] = "unlink-stale"
      <4>1. seen[q] # Torn /\ p # q
        BY <2>4, <3>1, <1>q DEF FillOwner
      <4>2. aside[q] # handle[p]
        BY <2>4, <3>1, <4>1, <1>q DEF FillOwner, OneWriterPerOwnerFile
      <4>3. QED
        BY <2>4, <1>g, <1>q, <3>1, <4>1, <4>2 DEF FillOwner
    <3>2. CASE pc[q] # "unlink-stale"
      BY <2>4, <1>g, <1>q, <3>2 DEF FillOwner
    <3>3. QED
      BY <3>1, <3>2
  <2>5. CASE Identify(p)
    BY <2>5, <1>g, <1>q DEF Identify
  <2>6. QED
    BY <1>1, <2>1, <2>2, <2>3, <2>4, <2>5 DEF Acquire
<1>2. ASSUME NEW p \in Proc, Reclaim(p)
      PROVE  Verdict(q)'
  <2>1. CASE Inspect(p)
    BY <2>1, <1>g, <1>q DEF Inspect
  <2>2. CASE ProbeOwner(p) \/ CheckOwnerJournal(p) \/ VerifyStale(p) \/ LookBack(p)
    BY <2>2, <1>g, <1>q DEF ProbeOwner, CheckOwnerJournal, VerifyStale,
        LookBack, GiveUp
  <2>3. CASE MoveStale(p)
    BY <2>3, <1>g, <1>q DEF MoveStale
  <2>4. CASE UnlinkStale(p)
    <3>1. CASE p # q /\ pc[q] = "unlink-stale"
      <4>1. aside[p] # aside[q] /\ aside[q] \in Dirs /\ aside[p] \in Dirs
        BY <2>4, <3>1 DEF UnlinkStale, AsideByLabel, AsideLabels,
           OnePlacePerDirectory
      <4>2. QED
        BY <2>4, <1>g, <1>q, <3>1, <4>1 DEF UnlinkStale
    <3>2. CASE p = q \/ pc[q] # "unlink-stale"
      BY <2>4, <1>g, <1>q, <3>2 DEF UnlinkStale
    <3>3. QED
      BY <3>1, <3>2
  <2>5. CASE RemoveStale(p)
    BY <2>5, <1>g, <1>q DEF RemoveStale
  <2>6. CASE PutBack(p)
    BY <2>6, <1>g, <1>q DEF PutBack, GiveUp
  <2>7. QED
    BY <1>2, <2>1, <2>2, <2>3, <2>4, <2>5, <2>6 DEF Reclaim
<1>3. ASSUME NEW p \in Proc, Run(p)
      PROVE  Verdict(q)'
  <2>1. CASE CreateJournal(p)
    <3>1. Gone(seen[q]) => p # seen[q]
      BY <2>1 DEF CreateJournal, Gone, Terminal, Refused
    <3>2. QED
      BY <2>1, <1>g, <1>q, <3>1 DEF CreateJournal
  <2>2. CASE FinishRun(p) \/ AbandonRun(p)
    BY <2>2, <1>g, <1>q DEF FinishRun, AbandonRun
  <2>3. CASE RemoveJournal(p)
    BY <2>3, <1>g, <1>q DEF RemoveJournal
  <2>4. QED
    BY <1>3, <2>1, <2>2, <2>3 DEF Run
<1>4. ASSUME NEW p \in Proc, Release(p)
      PROVE  Verdict(q)'
  <2>1. CASE BeginRelease(p) \/ VerifyRelease(p) \/ CleanStateRoot(p)
    BY <2>1, <1>g, <1>q DEF BeginRelease, VerifyRelease, CleanStateRoot
  <2>2. CASE MoveRelease(p)
    BY <2>2, <1>g, <1>q DEF MoveRelease
  <2>3. CASE UnlinkRelease(p)
    <3>1. pc[q] = "unlink-stale" => /\ aside[p] # aside[q]
                                    /\ p # q
      BY <2>3 DEF UnlinkRelease, AsideByLabel, AsideLabels,
         OnePlacePerDirectory
    <3>2. QED
      BY <2>3, <1>g, <1>q, <3>1 DEF UnlinkRelease
  <2>4. CASE RemoveRelease(p)
    BY <2>4, <1>g, <1>q DEF RemoveRelease
  <2>5. QED
    BY <1>4, <2>1, <2>2, <2>3, <2>4 DEF Release
<1>5. ASSUME NEW p \in Proc, IOError(p)
      PROVE  Verdict(q)'
  BY <1>5, <1>g, <1>q DEF IOError, GiveUp
<1>6. ASSUME NEW p \in Proc, Crash(p)
      PROVE  Verdict(q)'
  BY <1>6, <1>g, <1>q DEF Crash
<1>7. CASE UNCHANGED vars
  BY <1>7, <1>g, <1>q DEF vars
<1>8. QED
  BY <1>1, <1>2, <1>3, <1>4, <1>5, <1>6, <1>7 DEF Next

\* A directory that carries an owner record is never lost.
LEMMA OwnedDirectoriesStep ==
  ASSUME TypeOK, AsideByLabel, OneWriterPerOwnerFile, RemovedEmpty,
         OwnedDirectoriesExist, [Next]_vars
  PROVE  OwnedDirectoriesExist'
<1> USE DEF TypeOK, AsideByLabel, AsideLabels, Terminal, Refused,
            RemovedEmpty, OwnedDirectoriesExist, OwnerAtLock, Goto
<1>1. ASSUME NEW p \in Proc, Acquire(p)
      PROVE  OwnedDirectoriesExist'
  <2>1. CASE CheckEvidence(p) \/ FindStateRoot(p) \/ MakeStateRoot(p)
    BY <2>1 DEF CheckEvidence, FindStateRoot, MakeStateRoot
  <2>2. CASE MakeLock(p)
    BY <2>2 DEF MakeLock
  <2>3. CASE CreateOwner(p)
    BY <2>3 DEF CreateOwner
  <2>4. CASE FillOwner(p)
    BY <2>4 DEF FillOwner, OneWriterPerOwnerFile
  <2>5. CASE Identify(p)
    BY <2>5 DEF Identify
  <2>6. QED
    BY <1>1, <2>1, <2>2, <2>3, <2>4, <2>5 DEF Acquire
<1>2. ASSUME NEW p \in Proc, Reclaim(p)
      PROVE  OwnedDirectoriesExist'
  <2>1. CASE Inspect(p)
    BY <2>1 DEF Inspect
  <2>2. CASE ProbeOwner(p) \/ CheckOwnerJournal(p) \/ VerifyStale(p) \/ LookBack(p)
    BY <2>2 DEF ProbeOwner, CheckOwnerJournal, VerifyStale, LookBack, GiveUp
  <2>3. CASE MoveStale(p)
    BY <2>3 DEF MoveStale
  <2>4. CASE UnlinkStale(p)
    BY <2>4 DEF UnlinkStale
  <2>5. CASE RemoveStale(p)
    BY <2>5 DEF RemoveStale
  <2>6. CASE PutBack(p)
    BY <2>6 DEF PutBack, GiveUp
  <2>7. QED
    BY <1>2, <2>1, <2>2, <2>3, <2>4, <2>5, <2>6 DEF Reclaim
<1>3. ASSUME NEW p \in Proc, Run(p)
      PROVE  OwnedDirectoriesExist'
  <2>1. CASE CreateJournal(p)
    BY <2>1 DEF CreateJournal
  <2>2. CASE FinishRun(p) \/ AbandonRun(p)
    BY <2>2 DEF FinishRun, AbandonRun
  <2>3. CASE RemoveJournal(p)
    BY <2>3 DEF RemoveJournal
  <2>4. QED
    BY <1>3, <2>1, <2>2, <2>3 DEF Run
<1>4. ASSUME NEW p \in Proc, Release(p)
      PROVE  OwnedDirectoriesExist'
  <2>1. CASE BeginRelease(p) \/ VerifyRelease(p) \/ CleanStateRoot(p)
    BY <2>1 DEF BeginRelease, VerifyRelease, CleanStateRoot
  <2>2. CASE MoveRelease(p)
    BY <2>2 DEF MoveRelease
  <2>3. CASE UnlinkRelease(p)
    BY <2>3 DEF UnlinkRelease
  <2>4. CASE RemoveRelease(p)
    BY <2>4 DEF RemoveRelease
  <2>5. QED
    BY <1>4, <2>1, <2>2, <2>3, <2>4 DEF Release
<1>5. ASSUME NEW p \in Proc, IOError(p)
      PROVE  OwnedDirectoriesExist'
  BY <1>5 DEF IOError, GiveUp
<1>6. ASSUME NEW p \in Proc, Crash(p)
      PROVE  OwnedDirectoriesExist'
  BY <1>6 DEF Crash
<1>7. CASE UNCHANGED vars
  BY <1>7 DEF vars
<1>8. QED
  BY <1>1, <1>2, <1>3, <1>4, <1>5, <1>6, <1>7 DEF Next

\* The owner record of a run that holds the lock or left a journal survives.
LEMMA OwnerRecordStep ==
  ASSUME TypeOK, OneWriterPerOwnerFile, RemovedEmpty, JudgedDead,
         JournalByLabel, OwnerRecordExists, [Next]_vars
  PROVE  OwnerRecordExists'
<1> USE DEF TypeOK, Goto
<1> DEFINE Needs(q) == pc[q] \in {"identify"} \cup Holding \/ q \in journal
           Recorded(q) == Needs(q) => \E d \in Dirs : ownerOf[d] = q
<1> SUFFICES ASSUME NEW q \in Proc
             PROVE  Recorded(q)'
  BY DEF OwnerRecordExists
<1>q. Recorded(q)
  BY DEF OwnerRecordExists
<1> USE DEF Holding
<1>1. ASSUME NEW p \in Proc, Acquire(p)
      PROVE  Recorded(q)'
  <2>1. CASE CheckEvidence(p) \/ FindStateRoot(p) \/ MakeStateRoot(p)
    BY <2>1, <1>q DEF CheckEvidence, FindStateRoot, MakeStateRoot
  <2>2. CASE MakeLock(p)
    BY <2>2, <1>q DEF MakeLock
  <2>3. CASE CreateOwner(p)
    <3>1. Needs(q)' => Needs(q)
      BY <2>3 DEF CreateOwner
    <3>2. ASSUME NEW d \in Dirs, ownerOf[d] = q
          PROVE  ownerOf'[d] = q
      BY <2>3, <3>2 DEF CreateOwner, OwnerAtLock
    <3>3. QED
      BY <1>q, <3>1, <3>2
  <2>4. CASE FillOwner(p)
    <3>1. CASE p = q
      <4>1. handle[p] \in Dirs /\ ownerOf'[handle[p]] = p
        BY <2>4 DEF FillOwner, OneWriterPerOwnerFile
      <4>2. QED
        BY <3>1, <4>1
    <3>2. CASE p # q
      <4>1. Needs(q)' => Needs(q)
        BY <2>4, <3>2 DEF FillOwner
      <4>2. ASSUME NEW d \in Dirs, ownerOf[d] = q
            PROVE  ownerOf'[d] = q
        BY <2>4, <4>2 DEF FillOwner, OneWriterPerOwnerFile
      <4>3. QED
        BY <1>q, <4>1, <4>2
    <3>3. QED
      BY <3>1, <3>2
  <2>5. CASE Identify(p)
    BY <2>5, <1>q DEF Identify
  <2>6. QED
    BY <1>1, <2>1, <2>2, <2>3, <2>4, <2>5 DEF Acquire
<1>2. ASSUME NEW p \in Proc, Reclaim(p)
      PROVE  Recorded(q)'
  <2>1. CASE Inspect(p)
    BY <2>1, <1>q DEF Inspect
  <2>2. CASE ProbeOwner(p) \/ CheckOwnerJournal(p) \/ VerifyStale(p) \/ LookBack(p)
    BY <2>2, <1>q DEF ProbeOwner, CheckOwnerJournal, VerifyStale, LookBack,
        GiveUp
  <2>3. CASE MoveStale(p)
    BY <2>3, <1>q DEF MoveStale
  <2>4. CASE UnlinkStale(p)
    <3>1. Needs(q)' => Needs(q)
      BY <2>4 DEF UnlinkStale
    <3>2. Needs(q) => q # seen[p]
      BY <2>4 DEF UnlinkStale, JudgedDead, Stealing, Gone, Terminal, Refused
    <3>3. ASSUME NEW d \in Dirs, ownerOf[d] = q, q # seen[p]
          PROVE  ownerOf'[d] = q
      BY <2>4, <3>3 DEF UnlinkStale
    <3>4. QED
      BY <1>q, <3>1, <3>2, <3>3
  <2>5. CASE RemoveStale(p)
    BY <2>5, <1>q DEF RemoveStale
  <2>6. CASE PutBack(p)
    BY <2>6, <1>q DEF PutBack, GiveUp
  <2>7. QED
    BY <1>2, <2>1, <2>2, <2>3, <2>4, <2>5, <2>6 DEF Reclaim
<1>3. ASSUME NEW p \in Proc, Run(p)
      PROVE  Recorded(q)'
  <2>1. CASE CreateJournal(p)
    BY <2>1, <1>q DEF CreateJournal
  <2>2. CASE FinishRun(p) \/ AbandonRun(p)
    BY <2>2, <1>q DEF FinishRun, AbandonRun
  <2>3. CASE RemoveJournal(p)
    BY <2>3, <1>q DEF RemoveJournal
  <2>4. QED
    BY <1>3, <2>1, <2>2, <2>3 DEF Run
<1>4. ASSUME NEW p \in Proc, Release(p)
      PROVE  Recorded(q)'
  <2>1. CASE BeginRelease(p) \/ VerifyRelease(p) \/ CleanStateRoot(p)
    BY <2>1, <1>q DEF BeginRelease, VerifyRelease, CleanStateRoot
  <2>2. CASE MoveRelease(p)
    BY <2>2, <1>q DEF MoveRelease
  <2>3. CASE UnlinkRelease(p)
    <3>1. Needs(q)' => Needs(q)
      BY <2>3 DEF UnlinkRelease
    <3>2. Needs(q) => q # p
      BY <2>3 DEF UnlinkRelease, JournalByLabel
    <3>3. ASSUME NEW d \in Dirs, ownerOf[d] = q, q # p
          PROVE  ownerOf'[d] = q
      BY <2>3, <3>3 DEF UnlinkRelease, RemovedEmpty
    <3>4. QED
      BY <1>q, <3>1, <3>2, <3>3
  <2>4. CASE RemoveRelease(p)
    BY <2>4, <1>q DEF RemoveRelease
  <2>5. QED
    BY <1>4, <2>1, <2>2, <2>3, <2>4 DEF Release
<1>5. ASSUME NEW p \in Proc, IOError(p)
      PROVE  Recorded(q)'
  BY <1>5, <1>q DEF IOError, GiveUp
<1>6. ASSUME NEW p \in Proc, Crash(p)
      PROVE  Recorded(q)'
  BY <1>6, <1>q DEF Crash
<1>7. CASE UNCHANGED vars
  BY <1>7, <1>q DEF vars
<1>8. QED
  BY <1>1, <1>2, <1>3, <1>4, <1>5, <1>6, <1>7 DEF Next

\* Until something is reclaimed, nobody takes the path from its holder.
LEMMA PathIsHoldersStep ==
  ASSUME TypeOK, AsideByLabel, OnePlacePerDirectory, OneWriterPerOwnerFile,
         RemovedEmpty, PathIsHolders, [Next]_vars
  PROVE  PathIsHolders'
<1> USE DEF TypeOK, PathIsHolders, AsideByLabel, AsideLabels,
            OnePlacePerDirectory, OneWriterPerOwnerFile, RemovedEmpty,
            OwnsLock, OwnerAtLock, Holding, Goto
<1>1. ASSUME NEW p \in Proc, Acquire(p)
      PROVE  PathIsHolders'
  <2>1. CASE CheckEvidence(p) \/ FindStateRoot(p) \/ MakeStateRoot(p)
    BY <2>1 DEF CheckEvidence, FindStateRoot, MakeStateRoot
  <2>2. CASE MakeLock(p)
    BY <2>2 DEF MakeLock
  <2>3. CASE CreateOwner(p)
    BY <2>3 DEF CreateOwner
  <2>4. CASE FillOwner(p)
    BY <2>4 DEF FillOwner
  <2>5. CASE Identify(p)
    BY <2>5 DEF Identify
  <2>6. QED
    BY <1>1, <2>1, <2>2, <2>3, <2>4, <2>5 DEF Acquire
<1>2. ASSUME NEW p \in Proc, Reclaim(p)
      PROVE  PathIsHolders'
  <2>1. CASE Inspect(p)
    BY <2>1 DEF Inspect
  <2>2. CASE ProbeOwner(p) \/ CheckOwnerJournal(p) \/ VerifyStale(p) \/ LookBack(p)
    BY <2>2 DEF ProbeOwner, CheckOwnerJournal, VerifyStale, LookBack, GiveUp
  <2>3. CASE MoveStale(p)
    BY <2>3 DEF MoveStale
  <2>4. CASE UnlinkStale(p)
    BY <2>4 DEF UnlinkStale
  <2>5. CASE RemoveStale(p)
    BY <2>5 DEF RemoveStale
  <2>6. CASE PutBack(p)
    BY <2>6 DEF PutBack, GiveUp
  <2>7. QED
    BY <1>2, <2>1, <2>2, <2>3, <2>4, <2>5, <2>6 DEF Reclaim
<1>3. ASSUME NEW p \in Proc, Run(p)
      PROVE  PathIsHolders'
  <2>1. CASE CreateJournal(p)
    BY <2>1 DEF CreateJournal
  <2>2. CASE FinishRun(p) \/ AbandonRun(p)
    BY <2>2 DEF FinishRun, AbandonRun
  <2>3. CASE RemoveJournal(p)
    BY <2>3 DEF RemoveJournal
  <2>4. QED
    BY <1>3, <2>1, <2>2, <2>3 DEF Run
<1>4. ASSUME NEW p \in Proc, Release(p)
      PROVE  PathIsHolders'
  <2>1. CASE BeginRelease(p) \/ VerifyRelease(p) \/ CleanStateRoot(p)
    BY <2>1 DEF BeginRelease, VerifyRelease, CleanStateRoot
  <2>2. CASE MoveRelease(p)
    BY <2>2 DEF MoveRelease
  <2>3. CASE UnlinkRelease(p)
    BY <2>3 DEF UnlinkRelease
  <2>4. CASE RemoveRelease(p)
    BY <2>4 DEF RemoveRelease
  <2>5. QED
    BY <1>4, <2>1, <2>2, <2>3, <2>4 DEF Release
<1>5. ASSUME NEW p \in Proc, IOError(p)
      PROVE  PathIsHolders'
  BY <1>5 DEF IOError, GiveUp
<1>6. ASSUME NEW p \in Proc, Crash(p)
      PROVE  PathIsHolders'
  BY <1>6 DEF Crash
<1>7. CASE UNCHANGED vars
  BY <1>7 DEF vars
<1>8. QED
  BY <1>1, <1>2, <1>3, <1>4, <1>5, <1>6, <1>7 DEF Next

\* The conjuncts of LockInvariant hold initially and are kept by every step.
THEOREM LockInvariance == Spec => []LockInvariant
<1>1. Init => LockInvariant
  <2> SUFFICES ASSUME Init
               PROVE  LockInvariant
    OBVIOUS
  <2>1. TypeOK
    BY DEF Init, TypeOK, Labels, Acquiring
  <2>2. AsideByLabel /\ OnePlacePerDirectory /\ NextDirectoryIsNew
    <3>1. \A p \in Proc : \A a \in {0, 1} : <<p, a>> \in Dirs
      BY DirectoryName
    <3>2. QED
      BY <3>1 DEF Init, AsideByLabel, OnePlacePerDirectory,
         NextDirectoryIsNew, AsideLabels
  <2>3. OneWriterPerOwnerFile /\ RemovedEmpty /\ JudgedDead
    BY DEF Init, OneWriterPerOwnerFile, RemovedEmpty, JudgedDead, Stealing
  <2>4. OwnedDirectoriesExist /\ JournalByLabel /\ OwnerRecordExists
    BY DEF Init, OwnedDirectoriesExist, JournalByLabel, OwnerRecordExists,
       Holding
  <2>5. PathIsHolders
    BY DEF Init, PathIsHolders, Holding
  <2>6. QED
    BY <2>1, <2>2, <2>3, <2>4, <2>5 DEF LockInvariant
<1>2. LockInvariant /\ [Next]_vars => LockInvariant'
  <2> SUFFICES ASSUME LockInvariant, [Next]_vars
               PROVE  LockInvariant'
    OBVIOUS
  <2> USE DEF LockInvariant
  <2>1. TypeOK' /\ AsideByLabel' /\ JournalByLabel'
    BY TypingStep, AsideByLabelStep, JournalByLabelStep
  <2>2. OnePlacePerDirectory' /\ NextDirectoryIsNew'
    BY OnePlaceStep, NextDirectoryStep
  <2>3. OneWriterPerOwnerFile' /\ RemovedEmpty' /\ JudgedDead'
    BY OneWriterStep, RemovedEmptyStep, JudgedDeadStep
  <2>4. OwnedDirectoriesExist' /\ OwnerRecordExists' /\ PathIsHolders'
    BY OwnedDirectoriesStep, OwnerRecordStep, PathIsHoldersStep
  <2>5. QED
    BY <2>1, <2>2, <2>3, <2>4
<1>3. QED
  BY <1>1, <1>2, PTL DEF Spec

\* acquireApplyLock's reclaim destroys only the owner record of a process that
\* is gone and left no journal, whatever the other processes interleave.
THEOREM ReclaimIsSafe == Spec => []ReclaimsOnlyTheDead
<1>1. LockInvariant => ReclaimsOnlyTheDead
  BY DEF LockInvariant, JudgedDead, ReclaimsOnlyTheDead, Stealing
<1>2. QED
  BY <1>1, LockInvariance, PTL

\* The owner record of a run that left a journal stays on disk, at the lock
\* path or moved aside.
THEOREM EvidenceIsKept == Spec => []EvidenceKept
<1>1. LockInvariant => EvidenceKept
  <2> SUFFICES ASSUME LockInvariant, NEW p \in journal
               PROVE  \E d \in Dirs : /\ ownerOf[d] = p
                                      /\ d = lockDir \/ \E q \in Proc : aside[q] = d
    BY DEF EvidenceKept
  <2> USE DEF LockInvariant
  <2>1. p \in Proc
    BY DEF TypeOK
  <2>2. PICK d \in Dirs : ownerOf[d] = p
    BY <2>1 DEF OwnerRecordExists
  <2>3. d = lockDir \/ \E q \in Proc : aside[q] = d
    BY <2>1, <2>2 DEF OwnedDirectoriesExist
  <2>4. QED
    BY <2>2, <2>3
<1>2. QED
  BY <1>1, LockInvariance, PTL

\* Until a lock is first reclaimed, one run at a time is between acquiring and
\* releasing, with crashes and I/O failures.
THEOREM ExclusionUntilReclaim == Spec => []MutualExclusion
<1>1. LockInvariant => MutualExclusion
  <2> SUFFICES ASSUME LockInvariant, ~reclaimed
               PROVE  /\ \A p \in Proc : pc[p] \in Holding => OwnsLock(p)
                      /\ \A p, q \in Proc :
                           pc[p] \in Holding /\ pc[q] \in Holding => p = q
    BY DEF MutualExclusion
  <2>1. \A p \in Proc : pc[p] \in Holding => OwnsLock(p)
    BY DEF LockInvariant, PathIsHolders
  <2>2. QED
    BY <2>1 DEF OwnsLock
<1>2. QED
  BY <1>1, LockInvariance, PTL
=============================================================================
