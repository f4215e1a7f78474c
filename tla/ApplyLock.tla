------------------------------ MODULE ApplyLock ------------------------------
(***************************************************************************)
(* The apply lock of one repository: the directory .depfresh/apply.lock    *)
(* with its owner.json, contended for by several depfresh processes.       *)
(*                                                                         *)
(* One step is one file system call (or one run of consecutive reads that  *)
(* no other process can tell apart), because the protocol's hazards are    *)
(* the interleavings of mkdir, open, rename, unlink and rmdir.  A process  *)
(* is one `apply` invocation: it looks for recovery evidence, acquires the *)
(* lock or is refused, writes and later removes its journal, and releases  *)
(* the lock.  It may die between any two calls.                            *)
(***************************************************************************)
EXTENDS Naturals

CONSTANTS
  Proc,       \* the apply invocations
  None,       \* no directory, no readable owner
  Torn,       \* owner.json exists but does not parse yet
  IOFaults,   \* may a call fail for a reason other than the protocol's?
  Crashes     \* may a process die?

\* A lock directory is named by its creator and the attempt that made it: its
\* inode.  A process calls mkdir at most once per attempt.
Dirs == Proc \X {0, 1}

ASSUME LockAssumption ==
  /\ None \notin Proc /\ Torn \notin Proc /\ None # Torn
  /\ None \notin Dirs
  /\ IOFaults \in BOOLEAN /\ Crashes \in BOOLEAN

VARIABLES
  pc,         \* where each process is
  attempt,    \* the `attempt` of acquireApplyLock's loop
  stateRoot,  \* does .depfresh exist?
  lockDir,    \* the directory at .depfresh/apply.lock
  aside,      \* the directory a process has renamed to its stale/release path
  ownerOf,    \* the owner.json of each directory
  seen,       \* the owner a process read and is judging (`existing`)
  handle,     \* the directory a process believes it holds (lockDev, lockIno)
  journal,    \* the processes whose runs/<runId>/journal.json exists
  reclaimed   \* history: has any process renamed a lock away as stale?

vars == <<pc, attempt, stateRoot, lockDir, aside, ownerOf, seen, handle,
          journal, reclaimed>>

Refused  == {"lock-held", "owner-unknown", "recovery-required"}
Terminal == Refused \cup {"released", "incomplete", "crashed"}
Stealing == {"move-stale", "verify-stale", "unlink-stale", "rmdir-stale"}
\* A process past acquireApplyLock that has not started to give the lock back.
Holding  == {"held", "journaled", "remove-journal", "release"}
Releasing == {"move-release", "verify-release", "unlink-release",
              "rmdir-release", "clean-state"}
PutBacks == {"look-back", "put-back"}
Acquiring == {"evidence", "state", "make-state", "mkdir", "owner", "fill",
              "identify", "inspect", "probe", "owner-journal"}
Labels == Acquiring \cup Stealing \cup PutBacks \cup Holding \cup Releasing
            \cup Terminal

TypeOK ==
  /\ pc \in [Proc -> Labels]
  /\ attempt \in [Proc -> {0, 1}]
  /\ stateRoot \in BOOLEAN
  /\ lockDir \in Dirs \cup {None}
  /\ aside \in [Proc -> Dirs \cup {None}]
  /\ ownerOf \in [Dirs -> Proc \cup {None, Torn}]
  /\ seen \in [Proc -> Proc \cup {None}]
  /\ handle \in [Proc -> Dirs \cup {None}]
  /\ journal \subseteq Proc
  /\ reclaimed \in BOOLEAN

Init ==
  /\ pc = [p \in Proc |-> "evidence"]
  /\ attempt = [p \in Proc |-> 0]
  /\ stateRoot = FALSE
  /\ lockDir = None
  /\ aside = [p \in Proc |-> None]
  /\ ownerOf = [d \in Dirs |-> None]
  /\ seen = [p \in Proc |-> None]
  /\ handle = [p \in Proc |-> None]
  /\ journal = {}
  /\ reclaimed = FALSE

Goto(p, label) == pc' = [pc EXCEPT ![p] = label]

\* The process is no longer running, so process.kill(pid, 0) may say ESRCH.
Gone(p) == pc[p] \in Terminal

\* What readOwner sees through the lock path.
OwnerAtLock == IF lockDir = None THEN None ELSE ownerOf[lockDir]

\* ownsApplyLock: the directory and owner file at the lock path are the ones
\* this process recorded, and the owner file still carries its token.
OwnsLock(p) == /\ lockDir # None
               /\ lockDir = handle[p]
               /\ OwnerAtLock = p

----------------------------------------------------------------------------
(* Acquiring *)

\* hasApplyRecoveryEvidence: any run directory blocks before the lock is tried.
CheckEvidence(p) ==
  /\ pc[p] = "evidence"
  /\ Goto(p, IF journal # {} THEN "recovery-required" ELSE "state")
  /\ UNCHANGED <<attempt, stateRoot, lockDir, aside, ownerOf, seen, handle,
                 journal, reclaimed>>

FindStateRoot(p) ==
  /\ pc[p] = "state"
  /\ Goto(p, IF stateRoot THEN "mkdir" ELSE "make-state")
  /\ UNCHANGED <<attempt, stateRoot, lockDir, aside, ownerOf, seen, handle,
                 journal, reclaimed>>

\* mkdir of .depfresh after existsSync said no: losing that race is not told
\* apart from any other failure.
MakeStateRoot(p) ==
  /\ pc[p] = "make-state"
  /\ Goto(p, IF stateRoot THEN "owner-unknown" ELSE "mkdir")
  /\ stateRoot' = TRUE
  /\ UNCHANGED <<attempt, lockDir, aside, ownerOf, seen, handle, journal,
                 reclaimed>>

\* mkdir of apply.lock: ENOENT, EEXIST or success.
MakeLock(p) ==
  /\ pc[p] = "mkdir"
  /\ \/ /\ ~stateRoot
        /\ Goto(p, "owner-unknown")
        /\ UNCHANGED lockDir
     \/ /\ stateRoot /\ lockDir # None
        /\ Goto(p, "inspect")
        /\ UNCHANGED lockDir
     \/ /\ stateRoot /\ lockDir = None
        /\ Goto(p, "owner")
        /\ lockDir' = <<p, attempt[p]>>
  /\ UNCHANGED <<attempt, stateRoot, aside, ownerOf, seen, handle, journal,
                 reclaimed>>

\* open(owner.json, 'wx') through the lock path, which by now may lead nowhere
\* or into a directory another process made.
CreateOwner(p) ==
  /\ pc[p] = "owner"
  /\ \/ /\ lockDir = None
        /\ Goto(p, "owner-unknown")
        /\ UNCHANGED <<ownerOf, handle>>
     \/ /\ OwnerAtLock # None
        /\ Goto(p, "inspect")
        /\ UNCHANGED <<ownerOf, handle>>
     \/ /\ lockDir # None /\ OwnerAtLock = None
        /\ Goto(p, "fill")
        /\ ownerOf' = [ownerOf EXCEPT ![lockDir] = Torn]
        /\ handle' = [handle EXCEPT ![p] = lockDir]
  /\ UNCHANGED <<attempt, stateRoot, lockDir, aside, seen, journal, reclaimed>>

\* write and fsync through the descriptor, wherever its directory now is.
FillOwner(p) ==
  /\ pc[p] = "fill"
  /\ ownerOf' = [ownerOf EXCEPT ![handle[p]] = p]
  /\ Goto(p, "identify")
  /\ UNCHANGED <<attempt, stateRoot, lockDir, aside, seen, handle, journal,
                 reclaimed>>

\* lstat of the lock path and of its owner.json: the identity later compared
\* by ownsApplyLock is whatever is at the path now.
Identify(p) ==
  /\ pc[p] = "identify"
  /\ \/ /\ OwnerAtLock = None
        /\ Goto(p, "owner-unknown")
        /\ UNCHANGED handle
     \/ /\ OwnerAtLock # None
        /\ Goto(p, "held")
        /\ handle' = [handle EXCEPT ![p] = lockDir]
  /\ UNCHANGED <<attempt, stateRoot, lockDir, aside, ownerOf, seen, journal,
                 reclaimed>>

----------------------------------------------------------------------------
(* Judging and reclaiming a lock that is already there *)

\* safeLstat and readOwner.
Inspect(p) ==
  /\ pc[p] = "inspect"
  /\ \/ /\ OwnerAtLock \in {None, Torn}
        /\ Goto(p, "owner-unknown")
        /\ UNCHANGED seen
     \/ /\ OwnerAtLock \in Proc
        /\ Goto(p, "probe")
        /\ seen' = [seen EXCEPT ![p] = OwnerAtLock]
  /\ UNCHANGED <<attempt, stateRoot, lockDir, aside, ownerOf, handle, journal,
                 reclaimed>>

\* isProcessAlive: ESRCH only for a process that is gone; a gone one may still
\* look live (its pid was reused, or the caller of the library lives on), and
\* the probe may be denied.
ProbeOwner(p) ==
  /\ pc[p] = "probe"
  /\ \/ Goto(p, "lock-held")
     \/ Goto(p, "owner-unknown")
     \/ Gone(seen[p]) /\ Goto(p, "owner-journal")
  /\ UNCHANGED <<attempt, stateRoot, lockDir, aside, ownerOf, seen, handle,
                 journal, reclaimed>>

\* Mutant: a dead owner's journal does not block.
CheckOwnerJournalSkipped(p) ==
  /\ pc[p] = "owner-journal"
  /\ Goto(p, "move-stale")
  /\ UNCHANGED <<attempt, stateRoot, lockDir, aside, ownerOf, seen, handle,
                 journal, reclaimed>>

CheckOwnerJournal(p) ==
  /\ pc[p] = "owner-journal"
  /\ Goto(p, IF seen[p] \in journal THEN "recovery-required" ELSE "move-stale")
  /\ UNCHANGED <<attempt, stateRoot, lockDir, aside, ownerOf, seen, handle,
                 journal, reclaimed>>

\* rename(lockPath, stalePath): takes whatever directory is at the path now.
MoveStale(p) ==
  /\ pc[p] = "move-stale"
  /\ \/ /\ lockDir = None
        /\ Goto(p, "owner-unknown")
        /\ UNCHANGED <<lockDir, aside, reclaimed>>
     \/ /\ lockDir # None
        /\ Goto(p, "verify-stale")
        /\ aside' = [aside EXCEPT ![p] = lockDir]
        /\ lockDir' = None
        /\ reclaimed' = TRUE
  /\ UNCHANGED <<attempt, stateRoot, ownerOf, seen, handle, journal>>

\* Mutant: the owner is not read again after the rename.
VerifyStaleSkipped(p) ==
  /\ pc[p] = "verify-stale"
  /\ Goto(p, "unlink-stale")
  /\ UNCHANGED <<attempt, stateRoot, lockDir, aside, ownerOf, seen, handle,
                 journal, reclaimed>>

\* The directory that was moved must carry the owner that was judged dead.
VerifyStale(p) ==
  /\ pc[p] = "verify-stale"
  /\ Goto(p, IF ownerOf[aside[p]] = seen[p] THEN "unlink-stale" ELSE "look-back")
  /\ UNCHANGED <<attempt, stateRoot, lockDir, aside, ownerOf, seen, handle,
                 journal, reclaimed>>

\* removeLockDirectory re-reads the owner and unlinks it ...
UnlinkStale(p) ==
  /\ pc[p] = "unlink-stale"
  /\ \/ /\ ownerOf[aside[p]] = seen[p]
        /\ Goto(p, "rmdir-stale")
        /\ ownerOf' = [ownerOf EXCEPT ![aside[p]] = None]
     \/ /\ ownerOf[aside[p]] # seen[p]
        /\ Goto(p, "look-back")
        /\ UNCHANGED ownerOf
  /\ UNCHANGED <<attempt, stateRoot, lockDir, aside, seen, handle, journal,
                 reclaimed>>

\* ... and removes the directory; the loop tries again once, then gives up.
RemoveStale(p) ==
  /\ pc[p] = "rmdir-stale"
  /\ aside' = [aside EXCEPT ![p] = None]
  /\ Goto(p, IF attempt[p] = 0 THEN "mkdir" ELSE "lock-held")
  /\ attempt' = [attempt EXCEPT ![p] = 1]
  /\ UNCHANGED <<stateRoot, lockDir, ownerOf, seen, handle, journal, reclaimed>>

----------------------------------------------------------------------------
(* Putting a directory back that should not have been moved *)

\* Only a process that wrote an owner has a handle, and only it releases.
GiveUp(p) == IF handle[p] = None THEN "owner-unknown" ELSE "incomplete"

LookBack(p) ==
  /\ pc[p] = "look-back"
  /\ Goto(p, IF lockDir = None THEN "put-back" ELSE GiveUp(p))
  /\ UNCHANGED <<attempt, stateRoot, lockDir, aside, ownerOf, seen, handle,
                 journal, reclaimed>>

\* rename back: replaces an empty directory made meanwhile, fails with
\* ENOTEMPTY on one that has an owner file.
PutBack(p) ==
  /\ pc[p] = "put-back"
  /\ Goto(p, GiveUp(p))
  /\ \/ /\ OwnerAtLock = None
        /\ lockDir' = aside[p]
        /\ aside' = [aside EXCEPT ![p] = None]
     \/ /\ OwnerAtLock # None
        /\ UNCHANGED <<lockDir, aside>>
  /\ UNCHANGED <<attempt, stateRoot, ownerOf, seen, handle, journal, reclaimed>>

----------------------------------------------------------------------------
(* The run under the lock, and the release *)

CreateJournal(p) ==
  /\ pc[p] = "held"
  /\ Goto(p, "journaled")
  /\ journal' = journal \cup {p}
  /\ UNCHANGED <<attempt, stateRoot, lockDir, aside, ownerOf, seen, handle,
                 reclaimed>>

\* finalizeCleanup checks the lock before it touches anything ...
FinishRun(p) ==
  /\ pc[p] = "journaled"
  /\ Goto(p, IF OwnsLock(p) THEN "remove-journal" ELSE "incomplete")
  /\ UNCHANGED <<attempt, stateRoot, lockDir, aside, ownerOf, seen, handle,
                 journal, reclaimed>>

\* ... and removes the journal before the lock.
RemoveJournal(p) ==
  /\ pc[p] = "remove-journal"
  /\ journal' = journal \ {p}
  /\ Goto(p, "release")
  /\ UNCHANGED <<attempt, stateRoot, lockDir, aside, ownerOf, seen, handle,
                 reclaimed>>

\* cleanupBeforeJournal: nothing was staged; give the lock back if it is ours.
AbandonRun(p) ==
  /\ pc[p] = "held"
  /\ Goto(p, IF OwnsLock(p) THEN "release" ELSE "incomplete")
  /\ UNCHANGED <<attempt, stateRoot, lockDir, aside, ownerOf, seen, handle,
                 journal, reclaimed>>

BeginRelease(p) ==
  /\ pc[p] = "release"
  /\ Goto(p, IF OwnsLock(p) THEN "move-release" ELSE "incomplete")
  /\ UNCHANGED <<attempt, stateRoot, lockDir, aside, ownerOf, seen, handle,
                 journal, reclaimed>>

MoveRelease(p) ==
  /\ pc[p] = "move-release"
  /\ \/ /\ lockDir = None
        /\ Goto(p, "incomplete")
        /\ UNCHANGED <<lockDir, aside>>
     \/ /\ lockDir # None
        /\ Goto(p, "verify-release")
        /\ aside' = [aside EXCEPT ![p] = lockDir]
        /\ lockDir' = None
  /\ UNCHANGED <<attempt, stateRoot, ownerOf, seen, handle, journal, reclaimed>>

VerifyRelease(p) ==
  /\ pc[p] = "verify-release"
  /\ Goto(p, IF ownerOf[aside[p]] = p THEN "unlink-release" ELSE "look-back")
  /\ UNCHANGED <<attempt, stateRoot, lockDir, aside, ownerOf, seen, handle,
                 journal, reclaimed>>

UnlinkRelease(p) ==
  /\ pc[p] = "unlink-release"
  /\ Goto(p, "rmdir-release")
  /\ ownerOf' = [ownerOf EXCEPT ![aside[p]] = None]
  /\ UNCHANGED <<attempt, stateRoot, lockDir, aside, seen, handle, journal,
                 reclaimed>>

RemoveRelease(p) ==
  /\ pc[p] = "rmdir-release"
  /\ Goto(p, "clean-state")
  /\ aside' = [aside EXCEPT ![p] = None]
  /\ UNCHANGED <<attempt, stateRoot, lockDir, ownerOf, seen, handle, journal,
                 reclaimed>>

\* cleanupApplyStateRoot: rmdir succeeds only on an empty directory.
StateRootEmpty == /\ lockDir = None
                  /\ \A p \in Proc : aside[p] = None
                  /\ journal = {}

\* Mutant: the state root is removed with whatever is in it.
CleanStateRootRecursive(p) ==
  /\ pc[p] = "clean-state"
  /\ Goto(p, "released")
  /\ stateRoot' = FALSE
  /\ lockDir' = None
  /\ UNCHANGED <<attempt, aside, ownerOf, seen, handle, journal, reclaimed>>

CleanStateRoot(p) ==
  /\ pc[p] = "clean-state"
  /\ Goto(p, "released")
  /\ stateRoot' = (stateRoot /\ ~StateRootEmpty)
  /\ UNCHANGED <<attempt, lockDir, aside, ownerOf, seen, handle, journal,
                 reclaimed>>

----------------------------------------------------------------------------
(* Failures *)

\* A call throws: acquiring answers LOCK_OWNER_UNKNOWN, removing a directory
\* that was moved aside tries to put it back, the rest is left as it is.
IOError(p) ==
  /\ IOFaults
  /\ \/ /\ pc[p] \in {"make-state", "mkdir", "owner", "fill", "identify",
                      "move-stale"}
        /\ Goto(p, "owner-unknown")
     \/ /\ pc[p] \in {"unlink-stale", "rmdir-stale", "unlink-release",
                      "rmdir-release"}
        /\ Goto(p, "look-back")
     \/ pc[p] = "put-back" /\ Goto(p, GiveUp(p))
     \/ pc[p] \in {"remove-journal", "move-release"} /\ Goto(p, "incomplete")
  /\ UNCHANGED <<attempt, stateRoot, lockDir, aside, ownerOf, seen, handle,
                 journal, reclaimed>>

\* The process dies; everything on disk stays.
Crash(p) ==
  /\ Crashes
  /\ ~Gone(p)
  /\ Goto(p, "crashed")
  /\ UNCHANGED <<attempt, stateRoot, lockDir, aside, ownerOf, seen, handle,
                 journal, reclaimed>>

Acquire(p) == \/ CheckEvidence(p) \/ FindStateRoot(p) \/ MakeStateRoot(p)
              \/ MakeLock(p) \/ CreateOwner(p) \/ FillOwner(p) \/ Identify(p)
Reclaim(p) == \/ Inspect(p) \/ ProbeOwner(p) \/ CheckOwnerJournal(p)
              \/ MoveStale(p) \/ VerifyStale(p) \/ UnlinkStale(p)
              \/ RemoveStale(p) \/ LookBack(p) \/ PutBack(p)
Run(p)     == \/ CreateJournal(p) \/ FinishRun(p) \/ RemoveJournal(p)
              \/ AbandonRun(p)
Release(p) == \/ BeginRelease(p) \/ MoveRelease(p) \/ VerifyRelease(p)
              \/ UnlinkRelease(p) \/ RemoveRelease(p) \/ CleanStateRoot(p)

Next == \E p \in Proc : \/ Acquire(p) \/ Reclaim(p) \/ Run(p) \/ Release(p)
                        \/ IOError(p) \/ Crash(p)

Spec == Init /\ [][Next]_vars

----------------------------------------------------------------------------
(* Properties *)

\* Reclaiming destroys only the owner record that was judged: its process is
\* gone and left no journal (lock.ts: the re-read after the rename).
ReclaimsOnlyTheDead ==
  \A p \in Proc :
    pc[p] = "unlink-stale" =>
      /\ ownerOf[aside[p]] = seen[p]
      /\ Gone(seen[p])
      /\ seen[p] \notin journal

\* As long as nobody has moved a lock away as stale, at most one process is
\* between acquiring and releasing, and the lock at the path is its own.
MutualExclusion ==
  ~reclaimed =>
    /\ \A p \in Proc : pc[p] \in Holding => OwnsLock(p)
    /\ \A p, q \in Proc :
         pc[p] \in Holding /\ pc[q] \in Holding => p = q

\* Whatever races over a stale lock do, the owner record of a run that has a
\* journal survives: at the lock path, or in a directory moved aside.
EvidenceKept ==
  \A p \in journal :
    \E d \in Dirs : /\ ownerOf[d] = p
                    /\ d = lockDir \/ \E q \in Proc : aside[q] = d

\* docs/output-formats/apply.md says that a live owner blocks and that only an
\* owner proven dead can be reclaimed, so no two runs are ever between acquiring
\* and releasing at once.  The path-based rename of MoveStale does not give it.
LiveOwnerBlocks ==
  \A p, q \in Proc : pc[p] \in Holding /\ pc[q] \in Holding => p = q

----------------------------------------------------------------------------
(* The inductive invariant behind ReclaimsOnlyTheDead, EvidenceKept and    *)
(* MutualExclusion.                                                        *)

\* The labels at which a process has a directory moved aside.
AsideLabels == {"verify-stale", "unlink-stale", "rmdir-stale", "look-back",
                "put-back", "verify-release", "unlink-release",
                "rmdir-release"}

AsideByLabel ==
  \A p \in Proc :
    /\ pc[p] \in AsideLabels => aside[p] \in Dirs
    /\ pc[p] \notin AsideLabels \cup Terminal => aside[p] = None

\* A directory is in one place only.
OnePlacePerDirectory ==
  \A p \in Proc : aside[p] # None =>
    /\ aside[p] # lockDir
    /\ \A q \in Proc : aside[q] = aside[p] => q = p

\* The directory a process will make next has never existed.
NextDirectoryIsNew ==
  \A p \in Proc : \A a \in {0, 1} :
    \/ attempt[p] < a
    \/ attempt[p] = a /\ pc[p] \in {"evidence", "state", "make-state", "mkdir"}
    => /\ ownerOf[<<p, a>>] = None
       /\ lockDir # <<p, a>>
       /\ \A q \in Proc : aside[q] # <<p, a>>

\* Each owner file being written is empty and written by one process.
OneWriterPerOwnerFile ==
  \A p \in Proc : pc[p] = "fill" =>
    /\ handle[p] \in Dirs
    /\ ownerOf[handle[p]] = Torn
    /\ \A q \in Proc : pc[q] = "fill" /\ handle[q] = handle[p] => q = p

\* What was judged dead is dead, journal-less, and what is about to be removed.
JudgedDead ==
  \A p \in Proc :
    /\ pc[p] \in {"probe", "owner-journal"} \cup Stealing => seen[p] \in Proc
    /\ pc[p] \in {"owner-journal"} \cup Stealing => Gone(seen[p])
    /\ pc[p] \in Stealing => seen[p] \notin journal
    /\ pc[p] = "unlink-stale" => ownerOf[aside[p]] = seen[p]

\* Directories are emptied by those who may, and only empty ones are removed.
RemovedEmpty ==
  \A p \in Proc :
    /\ pc[p] = "unlink-release" => ownerOf[aside[p]] = p
    /\ pc[p] \in {"rmdir-stale", "rmdir-release"} => ownerOf[aside[p]] = None

\* A directory with an owner file is somewhere on disk.
OwnedDirectoriesExist ==
  \A d \in Dirs : ownerOf[d] # None =>
    d = lockDir \/ \E q \in Proc : aside[q] = d

JournalByLabel ==
  \A p \in journal : pc[p] \in {"journaled", "remove-journal", "incomplete",
                                "crashed"}

\* The owner record of a run with the lock or with a journal exists.
OwnerRecordExists ==
  \A p \in Proc : pc[p] \in {"identify"} \cup Holding \/ p \in journal =>
    \E d \in Dirs : ownerOf[d] = p

\* While nothing was ever reclaimed the path leads to the holder's directory.
PathIsHolders ==
  ~reclaimed => \A p \in Proc :
    /\ pc[p] \notin {"verify-stale", "unlink-stale", "rmdir-stale"}
    /\ pc[p] = "fill" => lockDir = handle[p]
    /\ pc[p] = "identify" => OwnerAtLock = p
    /\ pc[p] \in Holding \cup {"move-release"} => OwnsLock(p)

LockInvariant ==
  /\ TypeOK
  /\ AsideByLabel /\ OnePlacePerDirectory /\ NextDirectoryIsNew
  /\ OneWriterPerOwnerFile /\ RemovedEmpty /\ JudgedDead
  /\ OwnedDirectoriesExist
  /\ JournalByLabel /\ OwnerRecordExists
  /\ PathIsHolders
=============================================================================
