---------------------------- MODULE ManagerPhase ----------------------------
(***************************************************************************)
(* The package manager phases of an `apply` run (manager-phase.ts): the    *)
(* preflight, the manager commands that rewrite one lockfile each, the     *)
(* artifact verifier, the verification command, the recovery of the        *)
(* lockfiles, and what the engine is told.                                 *)
(*                                                                         *)
(* Commands are child processes: what they write, how they end and whether *)
(* a descendant survives is theirs to decide.  Others edit the repository  *)
(* at any time, any call may fail, the process may die between two calls.  *)
(* ApplyEngine sees all this as one step, RunManager.                      *)
(***************************************************************************)
EXTENDS Naturals

CONSTANTS
  N,          \* manager targets, each with a lockfile
  Foreign,    \* what others may write to a lockfile
  IOFaults,   \* may a call fail?
  Crashes,    \* may the process die?
  MaxEdits    \* bound on environment steps

ASSUME ManagerAssumption ==
  /\ N \in Nat \ {0}
  /\ Foreign \cap {"orig", "synced", "broken", "restored", "gone", "none"} = {}
  /\ IOFaults \in BOOLEAN /\ Crashes \in BOOLEAN
  /\ MaxEdits \in Nat

Targets == 1..N
Elsewhere == 0               \* every path that is not a lockfile
Paths == {Elsewhere} \cup Targets

VARIABLES
  pc,          \* the next call
  idx,         \* the target it is about
  planned,     \* which verifications the plan asks for
  file,        \* what is at each lockfile path
  snap,        \* the lockfiles in the last repository snapshot
  dirty,       \* did anything else change since that snapshot?
  observed,    \* observedLockfiles
  executed,    \* executedTargets
  backups,     \* manager-lockfile-<index>.backup files
  phaseFile,   \* does manager-phase.json exist?
  sources,     \* do the manifests have the bytes the run committed?
  install,     \* do the install trees stay inside the repository?
  own,         \* ownsPhase: lock and journal are still this run's
  held,        \* ownershipHeld: what ownsPhase answered before a call
  term,        \* how the last command ended
  survivor,    \* may a process of an earlier command still run?
  failure,     \* failure, or safetyFailure and bindingFailed of the verifier
  unrecovered, \* unrecoveredPaths
  restored,    \* restoredPaths
  result,      \* what the engine is told
  edits,       \* environment steps taken
  touched,     \* history: paths others changed
  blurred,     \* history: lockfiles others changed while a command could
               \* have, or between the last look and the rename
  strayed      \* history: did a command write what it must not?

diskVars == <<file, dirty, sources, install>>
bookVars == <<backups, phaseFile>>
askVars  == <<own, edits, touched, blurred>>
sumVars  == <<unrecovered, restored, result>>
vars == <<pc, idx, planned, diskVars, snap, observed, executed, bookVars, held,
          term, survivor, failure, sumVars, askVars, strayed>>

\* A lockfile as the plan knows it, as its manager should write it, with bytes
\* no inspection accepts, as renamed from its restored copy, unreadable, or as
\* somebody else wrote it.
Content == {"orig", "synced", "broken", "restored", "gone"} \cup Foreign
Original == {"orig", "restored"}
Termination == {"ok", "failed", "unknown"}
Failure == {"none", "failed", "unknown"}
Result == [at : {"preflight", "run"}, success : BOOLEAN, unknown : BOOLEAN,
           unrecovered : SUBSET Paths, restored : SUBSET Targets,
           effects : BOOLEAN, clean : BOOLEAN]
NoResult == [at |-> "none"]

\* Where a command runs, and where its end is looked at.
Running == {"version", "syncing", "auditing", "verifying"}
AfterRun == [r \in Running |->
               CASE r = "version"  -> "versioned" [] r = "syncing" -> "synced"
                 [] r = "auditing" -> "audited"   [] OTHER         -> "verified"]
OnTarget == {"version", "versioned", "syncing", "synced", "judge", "auditing",
             "audited", "restore", "rename", "settle"}
Ended == {"done", "crashed"}
Labels == Running \cup Ended \cup
          {"versioned", "synced", "audited", "verified", "prepare", "capture",
           "backup", "command", "judge", "artifact",
           "artifact-verdict", "verify", "recovery", "recover", "restore",
           "rename", "settle", "final", "cleanup", "cleaned", "kept", "begin"}

TypeOK ==
  /\ pc \in Labels
  /\ idx \in 0..(N + 1) /\ (pc \in OnTarget => idx \in Targets)
  /\ planned \subseteq {"artifact", "verify"}
  /\ file \in [Targets -> Content] /\ snap \in [Targets -> Content]
  /\ observed \in [Targets -> Content \cup {"none"}]
  /\ executed \subseteq Targets /\ backups \subseteq Targets
  /\ phaseFile \in BOOLEAN /\ dirty \in BOOLEAN
  /\ sources \in BOOLEAN /\ install \in BOOLEAN
  /\ own \in BOOLEAN /\ held \in BOOLEAN
  /\ term \in Termination /\ survivor \in BOOLEAN
  /\ failure \in Failure
  /\ unrecovered \subseteq Paths /\ restored \subseteq Targets
  /\ result \in Result \cup {NoResult}
  /\ edits \in 0..MaxEdits
  /\ touched \subseteq Paths /\ blurred \subseteq Targets
  /\ strayed \in BOOLEAN

Init ==
  /\ pc = "prepare" /\ idx = 1
  /\ planned \in SUBSET {"artifact", "verify"}
  /\ file = [t \in Targets |-> "orig"] /\ snap = [t \in Targets |-> "orig"]
  /\ dirty = FALSE
  /\ observed = [t \in Targets |-> "none"]
  /\ executed = {} /\ backups = {} /\ phaseFile = FALSE
  /\ sources = TRUE /\ install = TRUE
  /\ own = TRUE /\ held = TRUE
  /\ term = "ok" /\ survivor = FALSE
  /\ failure = "none" /\ unrecovered = {} /\ restored = {}
  /\ result = NoResult
  /\ edits = 0 /\ touched = {} /\ blurred = {} /\ strayed = FALSE

----------------------------------------------------------------------------
(* What the code looks at *)

Faulty == IOFaults = TRUE

\* snapshotRepositoryTree, and diffRepositorySnapshots with the one before.
TakeSnapshot == snap' = file /\ dirty' = FALSE
Changed == {t \in Targets : file[t] # snap[t]}
           \cup (IF dirty THEN {Elsewhere} ELSE {})

\* readPhysicalLockfile and observedLockfiles.set: an unreadable file leaves the
\* entry as it was.
Reread(t) == IF file[t] = "gone" THEN observed[t] ELSE file[t]

LockfilesMatchObserved == \A t \in Targets : file[t] = observed[t]
LockfilesMatchExpected ==
  \A t \in Targets :
    file[t] = IF observed[t] = "none" THEN "orig" ELSE observed[t]

\* The engine's catch around executeManagerPhases, and failedExecution.
Tell(at, success, unknown, paths, back, effects, clean) ==
  /\ result' = [at |-> at, success |-> success, unknown |-> unknown,
                unrecovered |-> paths, restored |-> back,
                effects |-> effects, clean |-> clean]
  /\ pc' = "done"
Throws == Tell("run", FALSE, TRUE, Targets, {}, TRUE, FALSE)
Refuse(unknown, paths) ==
  Tell("preflight", FALSE, unknown, paths, {}, FALSE, TRUE)

Fail(unknown) == failure' = IF unknown THEN "unknown" ELSE "failed"

----------------------------------------------------------------------------
(* prepareManagerPhases *)

\* The lockfile is the planned one, the install tree and the lock are good, and
\* the executable is there: ask for its version.
PrepareTarget ==
  /\ pc = "prepare" /\ idx \in Targets
  /\ \/ /\ \/ file[idx] # "orig" /\ Refuse(FALSE, {})
           \/ file[idx] = "orig" /\ ~(install /\ own) /\ Refuse(TRUE, {})
           \/ file[idx] = "orig" /\ install /\ Refuse(FALSE, {})
           \/ Faulty /\ \E unknown \in BOOLEAN : Refuse(unknown, {})
        /\ UNCHANGED <<snap, dirty>>
     \/ /\ file[idx] = "orig" /\ install /\ own
        /\ TakeSnapshot
        /\ pc' = "version"
        /\ UNCHANGED result
  /\ UNCHANGED <<idx, planned, file, sources, install, observed, executed,
                 bookVars, held, term, survivor, failure, unrecovered, restored,
                 askVars, strayed>>

\* The version command changed nothing, ended well with the planned version,
\* and the lockfile is still the planned one.
PrepareVerdict ==
  /\ pc = "versioned"
  /\ \/ ~own /\ Refuse(TRUE, Changed) /\ UNCHANGED idx
     \/ own /\ Changed # {} /\ Refuse(FALSE, Changed) /\ UNCHANGED idx
     \/ /\ own /\ Changed = {}
        /\ \/ term # "ok" /\ Refuse(term = "unknown", {}) /\ UNCHANGED idx
           \/ term = "ok" /\ Refuse(FALSE, {}) /\ UNCHANGED idx
           \/ /\ term = "ok" /\ file[idx] # "orig"
              /\ Refuse(TRUE, {}) /\ UNCHANGED idx
           \/ /\ term = "ok" /\ file[idx] = "orig"
              /\ idx' = idx + 1 /\ pc' = "prepare" /\ UNCHANGED result
     \/ Faulty /\ Refuse(TRUE, {}) /\ UNCHANGED idx
  /\ UNCHANGED <<planned, diskVars, snap, observed, executed, bookVars, held,
                 term, survivor, failure, unrecovered, restored, askVars,
                 strayed>>

\* Meanwhile the engine stages and commits the manifests.
Prepared ==
  /\ pc = "prepare" /\ idx > N
  /\ pc' = "capture"
  /\ UNCHANGED <<idx, planned, diskVars, snap, observed, executed, bookVars,
                 held, term, survivor, failure, sumVars, askVars, strayed>>

----------------------------------------------------------------------------
(* executeManagerPhases, before the first command *)

\* captureSourceSnapshots and the first ownership check.
Capture ==
  /\ pc = "capture"
  /\ \/ /\ ~sources \/ Faulty
        /\ Tell("run", FALSE, TRUE, {Elsewhere}, {}, FALSE, FALSE)
        /\ UNCHANGED idx
     \/ /\ sources /\ ~own
        /\ Tell("run", FALSE, TRUE, {}, {}, FALSE, FALSE)
        /\ UNCHANGED idx
     \/ /\ sources /\ own
        /\ pc' = "backup" /\ idx' = 1 /\ UNCHANGED result
  /\ UNCHANGED <<planned, diskVars, snap, observed, executed, bookVars, held,
                 term, survivor, failure, unrecovered, restored, askVars,
                 strayed>>

\* One lockfile is copied into the run directory.
Backup ==
  /\ pc = "backup" /\ idx \in Targets
  /\ \/ /\ file[idx] # "orig" \/ Faulty
        /\ Tell("run", FALSE, FALSE, {idx}, {}, FALSE, FALSE)
        /\ UNCHANGED <<idx, backups>>
     \/ /\ file[idx] = "orig"
        /\ backups' = backups \cup {idx}
        /\ idx' = idx + 1
        /\ UNCHANGED <<pc, result>>
     \/ /\ Faulty
        /\ Tell("run", FALSE, TRUE, {}, {}, FALSE, FALSE)
        /\ UNCHANGED <<idx, backups>>
  /\ UNCHANGED <<planned, diskVars, snap, observed, executed, phaseFile, held,
                 term, survivor, failure, unrecovered, restored, askVars,
                 strayed>>

WritePhaseFile ==
  /\ pc = "backup" /\ idx > N
  /\ \/ phaseFile' = TRUE /\ pc' = "begin" /\ UNCHANGED result
     \/ /\ Faulty /\ Tell("run", FALSE, TRUE, {}, {}, FALSE, FALSE)
        /\ UNCHANGED phaseFile
  /\ UNCHANGED <<idx, planned, diskVars, snap, observed, executed, backups,
                 held, term, survivor, failure, unrecovered, restored, askVars,
                 strayed>>

\* The phase file is synced, the ownership checked, and the first snapshot taken.
BeginCommands ==
  /\ pc = "begin"
  /\ \/ own /\ pc' = "command" /\ TakeSnapshot /\ UNCHANGED result
     \/ own /\ Faulty /\ Throws /\ UNCHANGED <<snap, dirty>>
     \/ /\ ~own \/ Faulty
        /\ Tell("run", FALSE, TRUE, {}, {}, FALSE, FALSE)
        /\ UNCHANGED <<snap, dirty>>
  /\ idx' = 1
  /\ UNCHANGED <<planned, file, sources, install, observed, executed, bookVars,
                 held, term, survivor, failure, unrecovered, restored, askVars,
                 strayed>>

----------------------------------------------------------------------------
(* The manager commands *)

\* Everything is still as expected: the command starts, unless absoluteBoundary does
\* not find the directory of its boundary, and throws.
RunCommand ==
  /\ pc = "command" /\ idx \in Targets
  /\ \/ /\ ~own
        /\ Fail(TRUE)
        /\ pc' = "recovery" /\ UNCHANGED <<unrecovered, result>>
     \/ /\ own /\ (~LockfilesMatchExpected \/ Faulty)
        /\ Fail(TRUE)
        /\ pc' = "recovery" /\ unrecovered' = unrecovered \cup {idx} /\ UNCHANGED result
     \/ /\ own /\ LockfilesMatchExpected /\ (~sources \/ Faulty)
        /\ Fail(TRUE)
        /\ pc' = "recovery" /\ unrecovered' = unrecovered \cup {Elsewhere} /\ UNCHANGED result
     \/ /\ own /\ LockfilesMatchExpected /\ sources
        /\ pc' = "syncing" /\ UNCHANGED <<failure, unrecovered, result>>
     \/ /\ own /\ LockfilesMatchExpected /\ sources /\ Faulty
        /\ Throws /\ UNCHANGED <<failure, unrecovered>>
  /\ UNCHANGED <<idx, planned, diskVars, snap, observed, executed, bookVars,
                 held, term, survivor, restored, askVars, strayed>>

\* A manager command may write its own lockfile; whatever else a command writes
\* is a stray.  (What a surviving descendant writes later is EditLockfile.)
CommandWrites ==
  /\ pc \in Running
  /\ \/ \E t \in Targets :
          LET mine == pc = "syncing" /\ t = idx IN
          /\ \E c \in IF mine THEN {"synced", "broken", "gone"} ELSE {"broken"} :
               file' = [file EXCEPT ![t] = c]
          /\ strayed' = (strayed \/ ~mine)
          /\ UNCHANGED <<dirty, sources, install>>
     \/ /\ dirty' = TRUE /\ sources' \in {sources, FALSE}
        /\ strayed' = TRUE
        /\ UNCHANGED <<file, install>>
     \/ /\ install' = FALSE
        /\ strayed' = TRUE
        /\ UNCHANGED <<file, dirty, sources>>
  /\ UNCHANGED <<pc, idx, planned, snap, observed, executed, bookVars, held,
                 term, survivor, failure, sumVars, askVars>>

\* The command ends, or is killed after its timeout.
CommandEnds ==
  /\ pc \in Running
  /\ \E end \in Termination, left \in BOOLEAN :
       /\ left => end = "unknown"
       /\ term' = end
       /\ survivor' = (survivor \/ left)
  /\ pc' = AfterRun[pc]
  /\ UNCHANGED <<idx, planned, diskVars, snap, observed, executed, bookVars,
                 held, failure, sumVars, askVars, strayed>>

\* The snapshot, the lockfile and the ownership right after the command.
AfterCommand ==
  /\ pc = "synced"
  /\ \/ /\ executed' = executed \cup {idx}
        /\ unrecovered' = unrecovered \cup (Changed \ {idx})
        /\ observed' = [observed EXCEPT ![idx] = Reread(idx)]
        /\ held' = own
        /\ TakeSnapshot
        /\ pc' = "judge" /\ UNCHANGED result
     \/ /\ Faulty /\ Throws
        /\ executed' = executed \cup {idx}
        /\ UNCHANGED <<unrecovered, observed, held, snap, dirty>>
  /\ UNCHANGED <<idx, planned, file, sources, install, bookVars, term, survivor,
                 failure, restored, askVars, strayed>>

\* Mutant: unexpected paths are recorded but not a failure.
JudgeWithoutStrays ==
  /\ pc = "judge"
  /\ LET good == /\ term = "ok" /\ held /\ sources /\ install
                 /\ observed[idx] = "synced" /\ file[idx] = "synced"
     IN \/ /\ good
           /\ idx' = idx + 1 /\ pc' = "command"
           /\ UNCHANGED failure
        \/ /\ ~good
           /\ Fail(~(held /\ install) \/ term = "unknown")
           /\ pc' = "recovery" /\ UNCHANGED idx
  /\ UNCHANGED <<planned, diskVars, snap, observed, executed, bookVars, held,
                 term, survivor, sumVars, askVars, strayed>>

\* Mutant: a command that ends well is believed, its lockfile not inspected.
JudgeByExitCode ==
  /\ pc = "judge"
  /\ LET good == term = "ok" /\ unrecovered = {} /\ held /\ sources /\ install
     IN \/ /\ good
           /\ idx' = idx + 1 /\ pc' = "command"
           /\ UNCHANGED failure
        \/ /\ ~good
           /\ Fail(~(held /\ install) \/ term = "unknown")
           /\ pc' = "recovery" /\ UNCHANGED idx
  /\ UNCHANGED <<planned, diskVars, snap, observed, executed, bookVars, held,
                 term, survivor, sumVars, askVars, strayed>>

\* After inspectRepository has read the lockfile again: did the command do what
\* the plan says, and nothing else?  unrecovered holds its strays, if any.
JudgeCommand ==
  /\ pc = "judge"
  /\ LET valid == observed[idx] = "synced" /\ file[idx] = "synced"
         good  == /\ term = "ok" /\ unrecovered = {} /\ held
                  /\ valid /\ sources /\ install
     IN \/ /\ good
           /\ idx' = idx + 1 /\ pc' = "command"
           /\ UNCHANGED failure
        \/ /\ \/ ~good /\ Fail(~(held /\ install) \/ term = "unknown")
              \/ Faulty /\ \E unknown \in BOOLEAN : Fail(unknown)
           /\ pc' = "recovery" /\ UNCHANGED idx
  /\ UNCHANGED <<planned, diskVars, snap, observed, executed, bookVars, held,
                 term, survivor, sumVars, askVars, strayed>>

CommandsDone ==
  /\ pc = "command" /\ idx > N
  /\ pc' = "artifact" /\ idx' = 1
  /\ UNCHANGED <<planned, diskVars, snap, observed, executed, bookVars, held,
                 term, survivor, failure, sumVars, askVars, strayed>>

----------------------------------------------------------------------------
(* executeArtifactVerification *)

\* The installed packages are bound to the final lockfile, and the verifier is
\* started with a home of its own.  Without one it is not run; its trust results
\* are then unknown.
StartVerifier ==
  /\ pc = "artifact" /\ "artifact" \in planned /\ idx \in Targets
  /\ \/ /\ failure' = IF failure = "none" THEN "unknown" ELSE failure
        /\ pc' = "artifact-verdict"
        /\ UNCHANGED <<snap, dirty, term>>
     \/ /\ own
        /\ TakeSnapshot
        /\ \/ pc' = "auditing" /\ UNCHANGED term
           \/ pc' = "audited" /\ term' = "failed"
        /\ UNCHANGED failure
  /\ UNCHANGED <<idx, planned, file, sources, install, observed, executed,
                 bookVars, held, survivor, sumVars, askVars, strayed>>

\* The verifier must not have changed anything.  How it ended does not matter.
AfterVerifier ==
  /\ pc = "audited"
  /\ \/ /\ ~(own /\ sources /\ LockfilesMatchObserved /\ install) \/ Faulty
        /\ Fail(TRUE)
     \/ /\ own /\ sources /\ LockfilesMatchObserved /\ install
        /\ Changed # {}
        /\ Fail(FALSE)
     \/ /\ own /\ sources /\ LockfilesMatchObserved /\ install
        /\ Changed = {}
        /\ UNCHANGED failure
  /\ idx' = idx + 1 /\ pc' = "artifact"
  /\ UNCHANGED <<planned, diskVars, snap, observed, executed, bookVars, held,
                 term, survivor, sumVars, askVars, strayed>>

\* A failure, a trust result that is missing, or one the policy blocks.  Not
\* every target needs to have artifacts to verify.
ArtifactVerdict ==
  /\ pc \in {"artifact", "artifact-verdict"}
  /\ \/ failure # "none" /\ pc' = "recovery" /\ UNCHANGED failure
     \/ failure = "none" /\ pc' = "verify" /\ UNCHANGED failure
     \/ /\ failure = "none" /\ "artifact" \in planned
        /\ \E unknown \in BOOLEAN : Fail(unknown)
        /\ pc' = "recovery"
  /\ UNCHANGED <<idx, planned, diskVars, snap, observed, executed, bookVars,
                 held, term, survivor, sumVars, askVars, strayed>>

----------------------------------------------------------------------------
(* The verification command *)

AllHeld == own /\ LockfilesMatchObserved /\ sources /\ install

StartVerify ==
  /\ pc = "verify" /\ "verify" \in planned
  /\ \/ /\ ~AllHeld \/ Faulty
        /\ Fail(TRUE) /\ pc' = "recovery"
        /\ UNCHANGED <<snap, dirty, term>>
     \/ /\ AllHeld
        /\ TakeSnapshot
        /\ \/ pc' = "verifying" /\ UNCHANGED term
           \/ pc' = "verified" /\ term' = "failed"  \* no executable
        /\ UNCHANGED failure
  /\ UNCHANGED <<idx, planned, file, sources, install, observed, executed,
                 bookVars, held, survivor, sumVars, askVars, strayed>>

\* What is at the lockfile paths now becomes the observed state, also when the
\* verification failed.
AfterVerify ==
  /\ pc = "verified"
  /\ unrecovered' = unrecovered \cup Changed
  /\ observed' = [t \in Targets |-> Reread(t)]
  /\ LET passed == AllHeld /\ term = "ok" /\ Changed = {} IN
     \/ passed /\ pc' = "final" /\ UNCHANGED failure
     \/ /\ \/ ~passed /\ Fail(~(own /\ install) \/ term = "unknown")
           \/ Faulty /\ \E unknown \in BOOLEAN : Fail(unknown)
        /\ pc' = "recovery"
  /\ UNCHANGED <<idx, planned, diskVars, snap, executed, bookVars, held, term,
                 survivor, restored, result, askVars, strayed>>

\* A repository snapshot around the verifier or the verification may throw, and so may
\* absoluteBoundary before it.
SnapshotThrows ==
  /\ \/ pc \in {"artifact", "audited"} /\ "artifact" \in planned
     \/ pc \in {"verify", "verified"} /\ "verify" \in planned
  /\ Faulty
  /\ Throws
  /\ UNCHANGED <<idx, planned, diskVars, snap, observed, executed, bookVars,
                 held, term, survivor, failure, unrecovered, restored, askVars,
                 strayed>>

----------------------------------------------------------------------------
(* Recovery of the lockfiles *)

BeginRecovery ==
  /\ pc = "recovery"
  /\ held' = own
  /\ pc' = "recover" /\ idx' = 1
  /\ UNCHANGED <<planned, diskVars, snap, observed, executed, bookVars, term,
                 survivor, failure, sumVars, askVars, strayed>>

\* Mutant: the loop does not go on.
UnrecoveredAgain(t) ==
  /\ unrecovered' = unrecovered \cup {t}
  /\ Fail(TRUE)
  /\ pc' = "recover"
  /\ UNCHANGED <<idx, restored>>

\* Mutant: the path is not named.
UnrecoveredUnnamed(t) ==
  /\ Fail(TRUE)
  /\ pc' = "recover" /\ idx' = t + 1
  /\ UNCHANGED <<unrecovered, restored>>

Unrecovered(t) ==
  /\ unrecovered' = unrecovered \cup {t}
  /\ Fail(TRUE)
  /\ pc' = "recover" /\ idx' = t + 1
  /\ UNCHANGED restored

\* An untouched lockfile is left alone; one that is still as observed right
\* after the last command is to be restored; anything else is left and named.
RecoverLockfile ==
  /\ pc = "recover" /\ idx \in Targets
  /\ LET restorable == /\ held /\ own /\ file[idx] # "gone"
                       /\ file[idx] = observed[idx]
     IN \/ /\ idx \notin executed \/ file[idx] = "orig"
           /\ idx' = idx + 1
           /\ UNCHANGED <<pc, failure, unrecovered, restored>>
        \/ /\ idx \in executed /\ file[idx] # "orig" /\ restorable
           /\ pc' = "restore"
           /\ UNCHANGED <<idx, failure, unrecovered, restored>>
        \/ /\ idx \in executed
           /\ (file[idx] # "orig" /\ ~restorable) \/ Faulty
           /\ Unrecovered(idx)
  /\ UNCHANGED <<planned, diskVars, snap, observed, executed, bookVars, held,
                 term, survivor, result, askVars, strayed>>

\* Mutant: no second look.
RenameUnchecked ==
  /\ pc = "restore"
  /\ \/ own /\ pc' = "rename" /\ UNCHANGED <<idx, failure, unrecovered, restored>>
     \/ ~own /\ Unrecovered(idx)
  /\ UNCHANGED <<planned, diskVars, snap, observed, executed, bookVars, held,
                 term, survivor, result, askVars, strayed>>

\* restoreLockfile looks again after it wrote the copy to be renamed.
CheckBeforeRename ==
  /\ pc = "restore"
  /\ \/ /\ own /\ file[idx] = observed[idx]
        /\ pc' = "rename"
        /\ UNCHANGED <<idx, failure, unrecovered, restored>>
     \/ /\ ~own \/ file[idx] # observed[idx] \/ Faulty
        /\ Unrecovered(idx)
  /\ UNCHANGED <<planned, diskVars, snap, observed, executed, bookVars, held,
                 term, survivor, result, askVars, strayed>>

RenameLockfile ==
  /\ pc = "rename"
  /\ \/ /\ file' = [file EXCEPT ![idx] = "restored"]
        /\ pc' = "settle"
        /\ UNCHANGED <<idx, failure, unrecovered, restored>>
     \/ Faulty /\ Unrecovered(idx) /\ UNCHANGED file
  /\ UNCHANGED <<planned, dirty, sources, install, snap, observed, executed,
                 bookVars, held, term, survivor, result, askVars, strayed>>

\* The restored bytes are read back.
SettleLockfile ==
  /\ pc = "settle"
  /\ \/ /\ file[idx] = "restored"
        /\ restored' = restored \cup {idx}
        /\ unrecovered' = unrecovered \ {idx}
        /\ pc' = "recover" /\ idx' = idx + 1
        /\ UNCHANGED failure
     \/ /\ file[idx] # "restored" \/ Faulty
        /\ Unrecovered(idx)
  /\ UNCHANGED <<planned, diskVars, snap, observed, executed, bookVars, held,
                 term, survivor, result, askVars, strayed>>

----------------------------------------------------------------------------
(* The end *)

\* Mutant: restored lockfiles make up for the commands' other effects.
FailedButRestored ==
  /\ pc = "recover" /\ idx > N
  /\ Tell("run", FALSE, failure = "unknown", unrecovered, restored,
          executed # {}, FALSE)
  /\ UNCHANGED <<idx, planned, diskVars, snap, observed, executed, bookVars,
                 held, term, survivor, failure, unrecovered, restored, askVars,
                 strayed>>

\* Mutant: restored lockfiles allow the evidence to be deleted.
FailedAndCleaned ==
  /\ pc = "recover" /\ idx > N
  /\ \/ unrecovered = {} /\ pc' = "cleanup" /\ UNCHANGED result
     \/ /\ unrecovered # {}
        /\ Tell("run", FALSE, TRUE, unrecovered, restored, executed # {}, FALSE)
  /\ UNCHANGED <<idx, planned, diskVars, snap, observed, executed, bookVars,
                 held, term, survivor, failure, unrecovered, restored, askVars,
                 strayed>>

\* A started command has effects that cannot be undone (externalEffects): then
\* nothing is cleaned up and the outcome is unknown.
FailedExecution ==
  /\ pc = "recover" /\ idx > N
  /\ LET effects == executed # {} IN
     \/ /\ ~effects /\ unrecovered = {}
        /\ pc' = "cleanup" /\ UNCHANGED result
     \/ /\ effects \/ unrecovered # {}
        /\ Tell("run", FALSE, effects \/ failure = "unknown", unrecovered,
                restored, effects, FALSE)
  /\ UNCHANGED <<idx, planned, diskVars, snap, observed, executed, bookVars,
                 held, term, survivor, failure, unrecovered, restored, askVars,
                 strayed>>

\* The last look at the lockfiles, the manifests and the install trees.
FinalLook ==
  /\ \/ pc = "verify" /\ "verify" \notin planned
     \/ pc = "final"
  /\ \/ /\ LockfilesMatchObserved /\ sources /\ install
        /\ pc' = "cleanup" /\ UNCHANGED result
     \/ /\ ~(LockfilesMatchObserved /\ sources /\ install) \/ Faulty
        /\ \E paths \in {Paths, Targets, {Elsewhere}, {}} :
             /\ ~LockfilesMatchObserved => Targets \subseteq paths
             /\ ~sources => Elsewhere \in paths
             /\ ~Faulty => /\ LockfilesMatchObserved => paths \cap Targets = {}
                           /\ sources => Elsewhere \notin paths
             /\ Tell("run", FALSE, TRUE, paths, {}, TRUE, FALSE)
  /\ UNCHANGED <<idx, planned, diskVars, snap, observed, executed, bookVars,
                 held, term, survivor, failure, unrecovered, restored, askVars,
                 strayed>>

\* cleanupArtifacts deletes the backups in order and manager-phase.json last; a
\* failing call leaves the rest.
CleanupArtifacts ==
  /\ pc = "cleanup"
  /\ \/ /\ own
        /\ backups' = {} /\ phaseFile' = FALSE
        /\ pc' = "cleaned"
     \/ /\ own /\ Faulty
        /\ \/ /\ \E k \in Targets : backups' = {t \in backups : t > k}
              /\ UNCHANGED phaseFile
           \/ backups' = {} /\ phaseFile' = FALSE    \* all gone, fsync failed
        /\ pc' = "kept"
     \/ /\ ~own \/ Faulty
        /\ pc' = "kept" /\ UNCHANGED bookVars
  /\ UNCHANGED <<idx, planned, diskVars, snap, observed, executed, held, term,
                 survivor, failure, sumVars, askVars, strayed>>

\* After a failure nothing was started; otherwise success hangs on the cleanup.
Report ==
  /\ pc \in {"cleaned", "kept"}
  /\ LET clean == pc = "cleaned" IN
     IF failure # "none"
       THEN Tell("run", FALSE, failure = "unknown", {}, restored, FALSE, clean)
       ELSE Tell("run", clean, ~clean, {}, {}, TRUE, clean)
  /\ UNCHANGED <<idx, planned, diskVars, snap, observed, executed, bookVars,
                 held, term, survivor, failure, unrecovered, restored, askVars,
                 strayed>>

----------------------------------------------------------------------------
(* The environment *)

Crash ==
  /\ Crashes /\ pc \notin Ended
  /\ pc' = "crashed"
  /\ UNCHANGED <<idx, planned, diskVars, snap, observed, executed, bookVars,
                 held, term, survivor, failure, sumVars, askVars, strayed>>

Others == edits < MaxEdits /\ edits' = edits + 1 /\ pc \notin Ended

\* A command of the run could have made the change, as far as the code can see:
\* one that is looked at afterwards and whose lockfile this is.
Attributable(t) ==
  \/ pc \in {"syncing", "synced"} /\ t = idx
  \/ pc \in {"verifying", "verified"}
  \/ pc = "rename" /\ t = idx

EditLockfile(t) ==
  /\ Others
  /\ \E c \in (Foreign \cup {"gone"}) \ {file[t]} : file' = [file EXCEPT ![t] = c]
  /\ touched' = touched \cup {t}
  /\ blurred' = IF Attributable(t) THEN blurred \cup {t} ELSE blurred
  /\ UNCHANGED <<pc, idx, planned, dirty, sources, install, snap, observed,
                 executed, bookVars, held, term, survivor, failure, sumVars,
                 own, strayed>>

\* Manifests, other files, an install tree, the lock or the journal.
EditElsewhere ==
  /\ Others
  /\ \/ /\ dirty' = TRUE /\ sources' \in {sources, FALSE}
        /\ UNCHANGED <<install, own>>
     \/ install' = FALSE /\ UNCHANGED <<dirty, sources, own>>
     \/ own' = ~own /\ UNCHANGED <<dirty, sources, install>>
  /\ touched' = touched \cup {Elsewhere}
  /\ UNCHANGED <<pc, idx, planned, file, snap, observed, executed, bookVars,
                 held, term, survivor, failure, sumVars, blurred, strayed>>

Preflight == PrepareTarget \/ PrepareVerdict \/ Prepared
Commands  == Capture \/ Backup \/ WritePhaseFile \/ BeginCommands
             \/ RunCommand \/ CommandEnds \/ AfterCommand \/ JudgeCommand \/ CommandsDone
Verifying == StartVerifier \/ AfterVerifier \/ ArtifactVerdict \/ StartVerify
             \/ AfterVerify \/ SnapshotThrows
Recovery  == BeginRecovery \/ RecoverLockfile \/ CheckBeforeRename
             \/ RenameLockfile \/ SettleLockfile
Ending    == FailedExecution \/ FinalLook \/ CleanupArtifacts \/ Report

Phases == Preflight \/ Commands \/ Verifying \/ Recovery \/ Ending

Next == \/ Phases \/ CommandWrites \/ Crash
        \/ \E t \in Targets : EditLockfile(t)
        \/ EditElsewhere

Spec == Init /\ [][Next]_vars

\* The process keeps running unless it dies, and a command ends or times out.
FairSpec == Spec /\ WF_vars(Phases)

----------------------------------------------------------------------------
(* Properties *)

\* What ApplyEngine!RunManager takes for granted: an unsuccessful execution is
\* unknown, or it started nothing and names a path.  Effects of a started
\* command are never forgotten.
EngineContract ==
  result.at = "run" /\ ~result.success =>
    /\ executed = {} => result.unknown \/ result.unrecovered # {}
    /\ executed # {} => result.unknown /\ result.effects

\* Until every check has passed, a lockfile its manager rewrote has a backup and
\* a phase file that says so, whenever the process dies; after a failure they
\* stay although the bytes are restored.
OriginalsAreBackedUp ==
  \A t \in executed \cup {u \in Targets : file[u] = "synced"} :
    \/ t \in backups /\ phaseFile
    \/ /\ pc \in {"cleaned", "kept"} \cup Ended /\ failure = "none"
       /\ \A u \in Targets \ touched : file[u] = "synced"

\* After a failed command, verifier or verification, every lockfile is the
\* original again or named in unrecoveredPaths, unless others changed it.  (A failed last look
\* or cleanup restores nothing and may name nothing: there failure is "none".)
LockfilesAccounted ==
  result.at = "run" /\ failure # "none" =>
    \A t \in Targets \ touched :
      file[t] \in Original \/ t \in result.unrecovered

\* Success means that every command ran, each lockfile nobody else changed is
\* what its manager should write, and no command wrote anything else.
SuccessIsExact ==
  result.at = "run" /\ result.success =>
    /\ executed = Targets /\ ~strayed
    /\ \A t \in Targets \ touched : file[t] = "synced"
    /\ restored = {} /\ unrecovered = {}

\* What the phases answer is exact, of a failure as of a success.
AnswerIsExact == LockfilesAccounted /\ SuccessIsExact

\* What others write to a lockfile is not overwritten by its restoration, unless
\* it appeared while a command that could have written it was running, or after
\* the last look.
ForeignEditsSurvive ==
  [][\A t \in Targets :
       file[t] \in Foreign /\ file'[t] = "restored" => t \in blurred]_vars

----------------------------------------------------------------------------
(* The inductive invariant *)

Early == {"prepare", "version", "versioned", "capture", "backup"}
Syncing == {"command", "syncing", "synced", "judge"}
Checking == {"artifact", "auditing", "audited", "artifact-verdict", "verify",
             "verifying", "verified", "final"}
Restoring == {"recovery", "recover", "restore", "rename", "settle"}
Closing == {"cleanup", "cleaned", "kept"}

\* Nothing was started yet.
NothingStarted ==
  /\ executed = {} /\ failure = "none"
  /\ \A t \in Targets : file[t] \notin {"synced", "restored"} /\ observed[t] = "none"

\* Backups and phase file are complete from before the first command until the
\* cleanup; nothing is written by a manager before.
EvidenceComes ==
  /\ pc \in Early => NothingStarted /\ ~phaseFile
  /\ pc = "backup" => \A t \in Targets : t < idx => t \in backups
  /\ pc = "begin" => NothingStarted
  /\ pc \in {"begin", "cleanup"} \cup Syncing \cup Checking \cup Restoring =>
       phaseFile /\ backups = Targets

\* A lockfile is rewritten by the command of its own target only, and the
\* commands run in order, each seen to end well before the next.
CommandsInOrder ==
  /\ \A t \in Targets :
       file[t] = "synced" =>
         \/ t \in executed \/ pc = "crashed"
         \/ pc \in {"syncing", "synced"} /\ t = idx
  /\ pc \in Syncing =>
       /\ failure = "none"
       /\ \A t \in Targets : t < idx => t \in executed /\ observed[t] = "synced"
       /\ pc = "judge" => idx \in executed
  /\ pc \in Checking =>
       executed = Targets /\ \A t \in Targets : observed[t] = "synced"

\* A failure before any command is unknown; a failure leads to recovery, and
\* nothing else does.
FailureIsKnown ==
  /\ failure # "none" /\ executed = {} => failure = "unknown"
  /\ pc \in Restoring => failure # "none"
  /\ pc \in {"verify", "verifying", "verified", "final"} => failure = "none"

\* The evidence is deleted when every lockfile was seen synced, or none can be.
ClosingIsSafe ==
  pc \in Closing =>
    IF failure = "none"
      THEN /\ executed = Targets
           /\ \A t \in Targets : file[t] \notin Original
           /\ \A t \in Targets \ touched : file[t] = "synced"
      ELSE executed = {}

\* Bytes of others are taken for a command's, or about to be replaced, only if
\* they came when the code could not tell them apart.
ForeignIsBlurred ==
  /\ \A t \in Targets : observed[t] \in Foreign => t \in blurred
  /\ pc \in {"command", "syncing", "synced"} =>
       \A t \in Targets : t >= idx => observed[t] = "none"
  /\ pc = "judge" => \A t \in Targets : t > idx => observed[t] = "none"
  /\ pc \in {"syncing", "synced", "rename"} /\ file[idx] \in Foreign =>
       idx \in blurred
  /\ pc \in {"verifying", "verified"} =>
       \A t \in Targets : file[t] \in Foreign => t \in blurred

\* There is an answer only at the end.
Answerless == pc # "done" => result = NoResult

ManagerInvariant ==
  /\ EvidenceComes /\ CommandsInOrder /\ FailureIsKnown /\ ClosingIsSafe
  /\ ForeignIsBlurred /\ Answerless /\ OriginalsAreBackedUp /\ EngineContract

----------------------------------------------------------------------------
(* The phases implement AtomicApply for the lockfiles, with manager-phase.json *)
(* as the evidence.                                                            *)
Shown(t) == CASE file[t] \in Original -> "old"
              [] file[t] = "synced"   -> "new"
              [] OTHER                -> "other"
Told == IF result.at = "none" THEN "none"
        ELSE IF result.at = "run" /\ result.success THEN "applied" ELSE "unsettled"

Atomic == INSTANCE AtomicApply
            WITH Files <- Targets, content <- [t \in Targets |-> Shown(t)],
                 evidence <- phaseFile, verdict <- Told

\* Seen from the disk at any moment: all lockfiles are synced, none is, or the
\* phase file is there; and the answer fits.
ImplementsAtomicApply == Atomic!Spec

\* Every execution of the phases that is not killed answers.
EveryExecutionEnds == <>(pc \in Ended)

\* docs/output-formats/apply.md: "surviving processes ... remain
\* partial/unknown and retain evidence".
SurvivorsAreNotSuccess == result.at = "run" /\ result.success => ~survivor
=============================================================================
