# depfresh: TLA+ models, model checking and proofs

depfresh finds outdated npm-ecosystem dependencies, plans changes to manifests
and catalogs, and applies a reviewed plan. This directory holds TLA+ modules
of the parts of it whose correctness hangs on interleavings, failures and
crashes, the TLC configurations that check them, and theorems about them that
TLAPS checks. Every definition is translated from the TypeScript under
`src/src/`; `PROJECT.json` maps each to the lines it stands for.

```
tlc  -workers 2 -config ApplyEngineFaults.cfg MCApplyEngine.tla
tlapm ApplyLockProofs.tla
```

## 1. The system

Paths are relative to `src/src/`. "Lines" are without tests.

| Component | Where | Lines | State it keeps | Here |
|---|---|---|---|---|
| Apply lock | `commands/apply/lock.ts` | 350 | `.depfresh/apply.lock/owner.json`, stale and release directories | `ApplyLock` |
| Apply engine | `commands/apply/engine.ts` | 1600 | targets, stage and backup files, the run's progress, the result | `ApplyEngine` |
| Apply journal | `commands/apply/journal.ts` | 230 | `.depfresh/runs/<runId>/journal.json` and its identity | `ApplyEngine` |
| Manager phases | `commands/apply/manager-phase.ts` | 1600 | lockfiles and their backups, `manager-phase.json` | `ManagerPhase` |
| Process runner | `commands/apply/process-runner.ts` | 800 | child, timers, captured output | `ProcessRunner` |
| Manager adapters | `commands/apply/manager-adapters.ts` | 150 | none | `PlanContract`, `ManagerPhase` |
| Global apply | `commands/global-apply`, `io/global*.ts` | 1700 | the machine's global packages | `GlobalApply` |
| Check run | `commands/check` (`run-check`, `run-model`, `run-controller`, `package-preparation`) | 4000 | the run's record, what was prepared and selected | `CheckRun`, `RunModel` |
| Account of a write | `commands/check` (`run-check`, `write-receipt`) | 900 | none (pure) | `CheckReport`, `ApplyAccount` |
| Terminal interface | `commands/check/visual-plus/renderer.ts` | 720 | the screen, a scheduled frame | `VisualRenderer` |
| Policy | `policy`, `selection.ts` | 1600 | none (pure) | `Policy` |
| Legacy apply path | `commands/apply/legacy-plan.ts` | 1100 | none (pure) | `LegacyPlan`, `Updates` |
| Resolver | `io/resolve` | 950 | slots, in-flight promises | `Resolver`, `VersionFilter` |
| Result cache | `cache` | 250 | SQLite table or in-memory map | `ResultCache` |
| Registry client | `io/registry.ts` | 650 | retry counter, time budget | `RegistryFetch` |
| Plan | `commands/plan/index.ts` | 1100 | signals and operations between rounds of blocking | `Planning` |
| Repository evidence, discovery, catalogs | `repository`, `io/packages`, `io/catalogs`, `io/dependencies` | 4300 | none, reads the disk | `Repository`, `Evidence` |
| Signals and trust | `signals`, `trust` | 1300 | none (pure) | `Signals` |
| Contracts | `contracts` | 5000 | none (pure) | `PlanContract`, and within `ApplyEngine`, `GlobalApply`, `RunModel`, `Evidence` |
| File writers | `io/write` | 850 | manifests, backups | not modelled, see section 5 |
| Apply rendering, layout of the terminal | `commands/apply/render*`, `commands/check/tui`, `render` | 10000 | view state | not modelled |
| CLI, config, addons, utils | `cli`, `config.ts`, `addons`, `utils` | 3200 | none | not modelled |

### How the parts interact

`check` discovers packages, decides by the **policy** which dependencies it looks at,
resolves each of them through the **cache** and the **registry client**, prepares
every package, hands what was selected to the apply engine as one **legacy plan**,
and tells hooks, screen, record and user what came of it. `plan` reads the
**repository** and its evidence, takes decisions, evaluates **signals** until they
block nothing more, says which managers would run where, and holds the result to its
**contract** before it prints it. `apply` takes such a plan, repeats the reads it was
made from, acquires the **lock**, stages new bytes and backups next to the targets,
records a **journal**, rechecks everything, and renames the stage files over the
targets one by one. After the last rename it may run package **manager phases**,
which change lockfiles through child processes. Any failure after a rename turns the
run to recovery, which renames the backups back. At the end it removes its temporary
files, the journal and the lock, in this order, and answers with a result that
`contracts/validate.ts` checks before anybody sees it.

Every child process goes through the **process runner**, which puts it in a group
of its own, marks its environment, and compares the user's processes before and
after. **Global apply** updates global packages with the managers' own commands: it
inspects, runs, and inspects again, and there is nothing to roll back to.

The parts share the disk. The lock is contended for by other depfresh
processes; the targets are open in editors; temporary files are visible to any
cleaner. The journal and the owner file are the only things that survive a
crash, and the next run decides from them alone whether it may start.

### What is hard, and what makes each part correct

* **Lock.** Judging an owner dead and renaming its directory away are separate
  calls. Correct: only a dead owner's record is destroyed, never while its
  journal exists; at most one holder; a clean run leaves nothing behind; not
  everybody is refused.
* **Engine and journal.** Any call fails, the process dies between two calls,
  somebody else edits a target or an artifact. Correct: bytes of others that
  the run could have seen survive; whatever mixture of old and new files is on
  disk has a journal that says so and blocks the next run; original bytes stay
  recoverable; the answer says what is on disk and is accepted by the contract
  validator; the run always answers.
* **Manager phases.** Commands of others rewrite lockfiles, leave descendants
  and have effects that cannot be undone. Correct: an original stays backed up
  until every check has passed, at whatever moment the process dies; after a
  failure every lockfile is restored or named; what others wrote is not
  overwritten; success means exactly the planned lockfiles; a failure is never
  told to the engine as if nothing had happened.
* **Process runner.** `close`, timeout and output limit race; descendants leave the
  group, drop the marker and are adopted while the process table is read entry by
  entry. Correct: a confirmed termination is one; the group never runs on; a
  command that left nothing is not accused; the call always settles.
* **Global apply.** Others install packages and reconfigure managers between any two
  processes of an inspection; commands do less or other than asked, or go on
  running. Correct: what is reported was observed after the command; no command
  starts beside a stray one or without a reason; success covers every operation;
  the result passes its own validator, or what was changed is lost.
* **Cache and resolver.** Dependencies share fetches and slots; SQLite fails in the
  middle, or is closed by a command that failed. Correct: every answer was given by
  the registry of the package it is used for, and is shared only where no token was
  shown; what failed is not kept; every dependency gets an answer.
* **Registry client.** Retries, pages and timers under one budget of time. Correct:
  no request too many, nothing counted that came after the budget.
* **Check run.** Hooks, loading, planning, the apply, the record and the terminal fail
  at any point; timers redraw the screen in between. Correct: every package is ended
  once; record, exit code and receipt say what happened to the files; the screen is
  given back.
* **Account of a write.** The record has rules on what results go with which phases,
  written apart from the engine. Correct: it takes every answer the engine gives, or
  the account of changed files is lost.
* **From options to files.** Options of three sources become one list of rules; five
  filters choose a version; changes of packages, catalogs and addons meet at one
  physical place. Correct: what is documented is decided; the best version that is
  allowed is chosen; two values for one place block everything; repeated checks rest.
* **Plan.** The disk is read six times while the user edits; blocking an operation
  changes what others rest on; the contract derives everything again with other code.
  Correct: an operation matches the source whose hash it carries; blocking ends, with
  peers that hold together; a manager is to run only where the disk leaves no doubt;
  a plan is refused for nothing.

`PROJECT.json` lists these hazards with their lines.

## 2. Modules

| Module | Contents |
|---|---|
| `ApplyLock` | N processes contend for the lock; each file system call is an action |
| `MCApplyLock` | symmetry of the processes |
| `ApplyLockProofs` | theorems about `ApplyLock`, for every set of processes |
| `ApplyEngine` | one run: staging, journalled commit, recovery, cleanup, result |
| `AtomicApply` | what a run promises about its files: all, none, or evidence |
| `MCApplyEngine` | TLC instance of `ApplyEngine` |
| `ApplyInvariants` | the inductive invariants of `ApplyEngine` and `ApplyAccount`: definitions only |
| `ApplyEngineProofs` | theorems about `ApplyEngine`, for any number of files: evidence, backups, answers, that it implements `AtomicApply`, and, from `ApplyAccount`, which answers a check run can record |
| `ManagerPhase` | preflight, manager commands, verifier, verification, lockfile recovery |
| `MCManagerPhase` | TLC instance of `ManagerPhase` |
| `ManagerPhaseProofs` | the same for `ManagerPhase`, for any number of lockfiles, and theorems about `ProcessRunner`, for every set of processes |
| `ProcessRunner` | one supervised call and the processes it supervises |
| `MCProcessRunner` | symmetry of the processes but the child |
| `GlobalApply` | preflight, update commands and observation of global packages |
| `MCGlobalApply` | TLC instance of `GlobalApply` |
| `GlobalApplyProofs` | theorems about `GlobalApply`, for plans of any size |
| `RunModel` | the record of a check run: which events it takes and what they change |
| `CheckReport` | the events and the receipt made of an apply answer |
| `VisualRenderer` | the renderer's operations, any of whose writes may fail |
| `CheckRun` | a check run from options to exit code, over `CheckReport` and `VisualRenderer` |
| `CheckRunProofs` | theorems about `CheckRun`, for any number of packages |
| `ApplyAccount` | `ApplyEngine` composed with `CheckReport`: what is told of every answer |
| `ResultCache`, `RegistryFetch` | the operations of the cache and of one fetch |
| `Resolver` | concurrent resolutions over `ResultCache` and `RegistryFetch` |
| `ResolverProofs` | theorems about `Resolver`, for any number of dependencies, slots, retries and pages |
| `Policy` | compiling options to rules and evaluating them |
| `VersionFilter` | the choice of a version |
| `LegacyPlan` | the plan made of selections, its evidence and outcomes |
| `Updates`, `MCUpdates` | checks in a row over `Policy`, `VersionFilter` and `LegacyPlan`; TLC instance |
| `UpdatesProofs` | theorems about `Updates`, for every repository, registry and number of checks |
| `Repository`, `Evidence` | what is read of a repository and concluded from it |
| `Signals` | compatibility signals, their evidence, rules and effects |
| `PlanContract` | the cross-field rules of a plan |
| `Planning`, `MCPlanning` | one run of `plan` over all of these; TLC instances |
| `PlanningProofs` | theorems about `Planning`, for every repository, registry and invocation |

Where the guards of a CASE overlap, the first that holds is meant, as in the code's chains
of returns and as TLC evaluates it. Nothing that is proved depends on it: the proofs
follow for any arm whose guard holds, and `GlobalApply`, where the order matters to them,
says so with IF.

Definitions headed `Mutant:` are plausible mistakes in the definition that
follows them. Nothing in the specifications uses them: each one, put in the
place of the original, breaks the property `PROJECT.json` pairs it with, which
shows that the property depends on that part of the code.

### ApplyLock

`pc[p]` is the next call of process `p`. `lockDir` is the directory at the lock
path, named by its inode (its maker and attempt); `aside[p]` is the directory
`p` has renamed to its own stale or release path; `ownerOf` the `owner.json` in
each directory, `Torn` between `open('wx')` and the write.

| Code | Actions |
|---|---|
| `hasApplyRecoveryEvidence` | `CheckEvidence` |
| `ensureApplyStateRoot` | `FindStateRoot`, `MakeStateRoot` |
| `acquireApplyLock`, new lock | `MakeLock`, `CreateOwner`, `FillOwner`, `Identify` |
| `acquireApplyLock`, existing lock | `Inspect`, `ProbeOwner`, `CheckOwnerJournal` |
| `reclaimStaleLock` | `MoveStale`, `VerifyStale`, `UnlinkStale`, `RemoveStale` |
| putting a directory back | `LookBack`, `PutBack` |
| run under the lock, as far as the lock sees it | `CreateJournal`, `FinishRun`, `RemoveJournal`, `AbandonRun` |
| `releaseApplyLock`, `cleanupApplyStateRoot` | `BeginRelease` ... `RemoveRelease`, `CleanStateRoot` |
| a call that throws; a killed process | `IOError`, `Crash` |

`process.kill(pid, 0)` answers ESRCH only for a process that is gone; for a
gone one it may still answer "alive" (the pid was reused) or be denied.

### ApplyEngine

One run over files `1..N`; files `1..active` change. A file path holds the
inode seen at preflight (`orig`), the renamed stage (`new`) or backup
(`restored`), or something of somebody else: other bytes (`ext`), the same bytes
in another inode (`twin`: byte comparison accepts it, identity comparison does
not), nothing readable (`gone`). Stage and backup paths hold the artifact, the
artifact's inode with other bytes, another inode, or nothing. `disk` is
`journal.json`, `mem` the handle's value and `jid` whether the handle still
recognises the file. `ApplyLock` is seen through one variable: `lock`.

| Code (`engine.ts` unless noted) | Actions |
|---|---|
| no-change runs, refusals | `AnswerUnchanged`, `Refuse`, `TakeLock` |
| `stageTargets` | `StageTarget` |
| `createJournal`, first `persistJournal` (`journal.ts`) | `CreateJournal`, `PersistStaged` |
| `recheckAllTargets` and the VCS check | `Precommit` |
| `commitTargets` | `PersistCommitting`, `CheckTarget`, `PersistReplacing`, `FinalCheck`, `Replace`, `SettleReplace` |
| `prepareManagerPhases`, when it fails or throws | `PrepareManagerFails` |
| `executeManagerPhases` | `RunManager` |
| `observeSuccessfulOutcomes` | `Observe` |
| `recoverTargets` | `Recovering`, `RecoverTarget`, `Restore`, `SettleRestore`, `NoteFailure`, `FinishRecovery` |
| `observeFailedRun` and what follows | `Inspect` |
| `cleanupBeforeJournal`, `finalizeCleanup` | `FinCheck`, `FinTemp`, `FinJournal`, `FinRelease` |
| `createResult` | `Answer`, `AnswerCleaned` |
| others | `Crash`, `Edit`, `Tamper`, `MoveLock` |

Abstractions: each file stands for the operations on it. A target's stage and
backup are written in one step, since only their sum is visible before the
journal exists (a failing step may leave either, whole or partial). Preflight is
one refusal. Manager phases are one step that succeeds or leaves external
effects, unrecovered paths and perhaps files of its own. Error reasons on which
nothing depends are one. `restoredPaths` and `unrecoveredPaths` of the result
are left out. The environment tampers only with artifacts that exist. What a
failed release leaves of the lock is `ApplyLock`'s subject.

### ManagerPhase

The phases over lockfiles `1..N`, one manager command each. `file[t]` is what is
at a lockfile path: the planned original, what the manager should write
(`synced`), bytes no inspection accepts (`broken`), the renamed restored copy,
nothing readable (`gone`), or a content of `Foreign`, written by somebody else.
`snap` and `dirty` are the last repository snapshot and whether anything else
has changed since; `observed` is `observedLockfiles`; `sources`, `install` and
`own` are what `sourcesMatchExpected`, `safeInstallState` and `ownsPhase` would
answer; `failure` is `failure` or the verifier's `safetyFailure` and
`bindingFailed`; `result` is what the engine is told.

| Code (`manager-phase.ts`) | Actions |
|---|---|
| `prepareManagerPhases` | `PrepareTarget`, `PrepareVerdict`, `Prepared` |
| `captureSourceSnapshots`, backups, `writePhaseJournal` | `Capture`, `Backup`, `WritePhaseFile`, `BeginCommands` |
| the loop over the targets | `RunCommand`, `AfterCommand`, `JudgeCommand`, `CommandsDone` |
| `runResolvedProcess` (`process-runner.ts`) | `CommandEnds` |
| `executeArtifactVerification` | `StartVerifier`, `AfterVerifier`, `ArtifactVerdict` |
| the verification command | `StartVerify`, `AfterVerify` |
| a throw the engine catches (also of `absoluteBoundary`) | `SnapshotThrows` and disjuncts with `Throws` |
| recovery, `restoreLockfile` | `BeginRecovery`, `RecoverLockfile`, `CheckBeforeRename`, `RenameLockfile`, `SettleLockfile` |
| `failedExecution`, the last look, `cleanupArtifacts` | `FailedExecution`, `FinalLook`, `CleanupArtifacts`, `Report` |
| external | `CommandWrites`, `EditLockfile`, `EditElsewhere`, `Crash` |

A command may at any time while it runs write its lockfile, well or badly, or
something it must not. It ends well, badly, or unknown (`timeout` not confirmed,
output limit, surviving descendants); only then may a survivor be left, whose
later writes are those of `EditLockfile`. Abstractions: what the bytes of a
lockfile should be (`lockfileOccurrencesMatch` and the repository inspection) is
one verdict; reads that follow each other without an `await` are one step unless
a write comes between; the files the verifier needs and its captured output are
left out, its trust results are a choice; the engine's staging and commit between
preflight and commands are `ApplyEngine`'s.

**The two models of the phases.** `ApplyEngine!RunManager` lets the phases
succeed, or fail having started something, or fail with an unknown outcome or an
unrecovered path. `EngineContract` is this guard, said of what `ManagerPhase`
tells the engine.

### ProcessRunner

The supervisor is one sequential function; the processes run beside it. For each
process that was not there before the spawn: `state` (alive, dying, that is a zombie
or one that SIGKILL has reached, gone), `group` (the child's, another new one, one of
the baseline), `parent`, and whether it has the `token` and holds the `pipe`; `kin`
are those the command started. `flags` is the set of local booleans that are true,
with `unconfirmed` for `!terminationConfirmed`; `current` is `finalProcesses`.

| Code (`process-runner.ts`) | Actions |
|---|---|
| checks, baseline, `spawn` | `Decline`, `Spawn`, `SpawnError` |
| the race of timer, output limit and `close` | `Timeout`, `Overflow`, `Close` |
| `terminateProcessGroup`, `confirmProcessGroupStopped` | `KillGroup`, `Confirm` |
| `snapshotUserProcesses` | `Census`, `ReadStat` |
| `processesWithEnvironmentToken` | `Scan`, `ReadEnviron` |
| an observer that fails | `ObserverFails` |
| survivors with the marker | `Judge` (`TokenSurvivor`), `KillEscaped` |
| the rest of the snapshot, the observation | `Probe` (`Unattributed`, `HasBaselineAncestor`, `Answer`) |
| external | `Fork`, `Detach`, `Strip`, `CloseOutput`, `Exit`, `Vanish`, `Appear` |

`Reaper` is who adopts orphans: init, or a session manager of the same user that was
there before. Abstractions: SIGTERM is not a step, since a process may exit or ignore
it at any time; the ten probes of `confirmProcessGroupStopped` are one; process
identities are not reused; captured output is left out; the model is Linux, where
`ps` on macOS is a listing in one step. A platform without observers is `Decline`.

### GlobalApply

Operations `1..N` of `Managers`. `installed[o][r]` is the version of an operation's
package in the planned realm or the other one, `realm[m]` the one manager `m` uses.
`look` is the evidence of the inspection in progress and the process it runs next;
`seen` is the map `preflight`. A version is a release and a spelling: `semver.gt`
compares releases, `semver.valid` gives the plain spelling, the code sometimes
compares one and sometimes the other. `stray` and `shown` are history.

| Code | Actions and operators |
|---|---|
| `inspectGlobalManager`, `inspectRealm` (`io/global-manager.ts`) | `InspectVersion`, `InspectInventory`, `InspectRealm`, `InspectionFails` |
| the loop over the managers | `PreflightNext`, `PreflightDone` |
| the loop over the operations | `NextOperation`, `GiveUp`, `StartCommand`, `CommandEnds`, `Observe` |
| `preflightResult`, `postCommandResult` | `Preflight`, `PostCommand` |
| `createGlobalResult`, `reconcileGlobalStatus`, `validGlobalItemSemantics` | `EndOfPlan`, `Outcome`, `ValidItem` |
| external | `CommandWrites`, `StrayWrites`, `OthersInstall`, `OthersMove` |

The ends a command may have are those `ProcessRunner!Answer` gives, and only one whose
termination is not confirmed may be left running, which is `ConfirmedMeansGone`.
Abstractions: the reasons an inspection fails for are one; a manager's executable and
version agree with the plan or not; a plan is valid and authorised
(`assertGlobalApplyPlan`, `validateGlobalAuthority`), so that the items
`INVALID_PACKAGE`, `INVALID_VERSION` and `MANAGER_UNAVAILABLE` for a confirmed
inspection cannot arise.

### RunModel, CheckReport, ApplyAccount

`RunModel` is the reducer: `Accepts(state, event)` is what `reduceCheckRun` does not
throw at, `Reduce(state, event)` the next snapshot. Its rules on results
(`assertResultPhaseCoherence` and the functions it calls) are operators with names of
their own. `CheckReport` gives, for an answer of the apply engine, the sequence of
events `emitLocalWriteResult` emits and the verdict of the receipt. `ApplyAccount`
extends `ApplyEngine`: in every state in which the engine has answered a file-only
plan, it reads the answer as the command does (`Readings`: a refusal of the preflight
and one of the lock look the same in the model of the engine, so both are read), sends
the events through the reducer and prints the receipt.

### CheckRun

`fate[p]` is what resolution made of a package, `prepared` and `selected` what the
hooks and the user left of it, `answer` what the engine answered, `told` whether the
record took it, `ended` and `reported` the packages whose `afterPackageEnd` was called
and whose result was told, `record` and `screen` the values of `RunModel` and
`VisualRenderer`. A package is one dependency in a file of its own.

| Code (`run-check.ts` unless noted) | Actions |
|---|---|
| options, discovery, the wait for data | `Begin`, `Load`, `Inspect`, `Empty`, `Loaded` |
| launching and resolving | `Launch`, `Resolve`, `ResolutionEnds` |
| `preparePackage` (`package-preparation.ts`) | `Prepare` |
| review and selection | `Select` |
| the apply of what was selected | `ApplyThrows`, `ApplyBlocked`, `ApplyBegins`, `ApplyEnds` |
| `emitLocalWriteResult`, the write flow's output | `Tell` |
| `completePreparedPackage` | `Complete`, `CompletionEnds` |
| the post-write command, the exit code | `PostWrite`, `Exit` |
| what catches errors | `Raise`, `Abandon`, `Abort` |
| the timer of the renderer (`renderer.ts`); Ctrl-C | `Frame`, `Interrupt` |

An operation of the renderer is a set of outcomes, since any write may fail, and fails
the renderer for good; the caller takes one. `Answers` holds one engine answer of every
kind, external here and produced by `ApplyEngine` in `ApplyAccount`. Left out: global
packages, JSON output, what tables and receipts say beyond their verdict.

### Resolver, ResultCache, RegistryFetch

`pc[d]` is where a dependency's resolution stands, `waits[d]` whose fetch it awaits,
`inFlight[n]` the promise for a package, `fetch[d]` the fetch `d` started with its
attempts, pages and what is `left` of the budget. Answers are named by the fetch that
gave them.

| Code | Actions |
|---|---|
| a slot is free: policy of the cache, read, in-flight promise or fetch (`resolve-package.ts`, `resolve-dependency.ts`) | `Begin` (`Ask`, `Join`) |
| an answer, an error or a timer (`registry.ts`) | `Respond` |
| the delay before a retry is over | `Retry` |
| `finally` takes the promise out of the map | `Forget` |
| after the await: the cache is written, the version chosen | `Continue` |
| the command closes the cache | `End` |

`ResultCache` has the SQLite table and the map that takes its place at the first
statement that fails; a statement may fail at any time and does once the database is
closed. `Respond` lets a request answer, refuse (with or without a retryable status),
break, or time out, up to one unit late.

### Policy, VersionFilter, LegacyPlan, Updates

`Compile` turns layers of options into rules and `Evaluate` runs them for a dependency,
with the weights, resets and the second reading without the manager that `matcher.ts`
has. `Select` is `selectVersionCandidate` with its five filters and their reasons, `Aimed`
and `Verdict` what `resolveDependency` makes of it. `CreateLegacyPlan` is
`createLegacyPlan`. `Updates` is a repository of values at places over several checks:

| Code | Actions |
|---|---|
| `evaluateRepositoryPolicy` | `Decide` |
| `resolvePackageWithLogger` for every package | `Resolve` |
| addons, `applyPreparedPackages`, `createLegacyPlan` | `Hand` |
| the command is blocked; the engine is run and read back | `Block`, `Apply` |
| another check; the registry ages (external) | `Again`, `Age` |

The registry may only age: what was too recent is no longer so. A pattern is known by
what it matches and spells; a version by its place in the order of `semver`.

### Repository, Evidence, Signals, PlanContract, Planning

`Repository` and `Evidence` are operators on a disk: `Discovered` is what
`discoverPackages` loads, `SourcesOf` ... `OccurrencesOf` the repository model, `Walked`
the second look at the tree, `LockfilesOf`, `RuntimesOf`, `BoundariesIn` and
`Conclusions` the evidence. `EvaluateSignals` is `evaluatePlanSignals`. `Accepted` is
`assertPlanResult`, with a named operator for each of its validators. In `Planning`
`disk` is what the user may edit, `report` and `model` what was read of it, `ops` the
operations that are left, `causal` the signals that blocked others, `execution` and
`plan` the result.

| Code | Actions |
|---|---|
| `validatePhaseOptions`, `semanticAsOf` | `CheckOptions` |
| `inspectRepositoryWithProjection`: the six reads of the disk | `Discover`, `ParseSources`, `Walk`, `ReadLockfiles`, `ReadRuntimes`, `Conclude` |
| `bindInvocationSelection`, which reads the sources again | `Bind` |
| resolution of every occurrence that is not excluded | `Resolve` |
| decisions and operations | `Decide` |
| one round of signals that block operations; none blocks | `Block`, `Settle` |
| `buildPlanExecution`, `buildArtifactVerification` | `Execute` |
| `assertPlanResult` | `Check` |
| external | `Edit` |

Identifiers that the code hashes are the tuples they are hashed from. What the registry
answers for a name is a parameter (`Resolver` and `VersionFilter` say how it comes
about), whether a lockfile parses and what git answers are part of the disk. A link to a
lockfile that leads nowhere is no candidate and leaves only a diagnostic, as with
`resolveContainedPath`; the instance contains one. Where the
code takes the first reason of a list whose order depends on names, the model takes any.

### AtomicApply

An abstract machine with three variables: the content of each file, whether a
journal is there, and the verdict. It may replace files only while the journal
is there, may drop the journal only when no file is new or no file is old, and
may say `applied` only when no file is old and `unchanged` only when none is
new. `ApplyEngine!Atomic` maps the engine's state to it, with `journal.json` as
the evidence; `ManagerPhase!Atomic` does for the lockfiles, with
`manager-phase.json`.

## 3. What the checks show

| Run | Instance | Distinct states | Shows |
|---|---|---|---|
| `ApplyLockRace` | 3 processes, failures, crashes | 21 288 (with symmetry) | a reclaim destroys only a dead owner's record and never one whose journal exists; one holder as long as nothing was reclaimed |
| `ApplyLockDisplaced` | 4 processes, no failures | | a live owner does not always block (finding) |
| `ApplyEngineFaults` | 2 files, failures, crashes, 2 interferences | 1 166 921 | see below |
| `ApplyEngineEffects` | 2 files, no failures, 1 interference | | effects of manager commands forgotten (finding) |
| `ManagerPhaseFaults` | 2 lockfiles, failures, crashes, 1 edit | 1 137 453 | see below |
| `ProcessRunner` | the child and 1 process, adopted by init | 21 887 | a confirmed termination is one; the group is stopped; every call answers |
| `GlobalApply` | 2 operations undisturbed, or 1 with 2 spellings, 1 edit, 2 moves | 743 883 | see below |
| `CheckRun` | 2 packages, any write to the terminal may fail | 31 243 | see below |
| `Resolver` | 3 dependencies of 2 packages, 2 slots, 1 retry, 2 pages | 614 168 | see below |
| `Updates` | 5 families of repositories, 3 checks in a row | 192 903 | see below |
| `Planning` | 7 families of repositories, 1 edit | 77 076 | see below |
| `PlanRefused` | the family of peers and rules | | a plan that blocks is refused (finding) |

`ApplyEngineFaults` checks: an edit is overwritten only if it falls between the
last look and the rename (`SeenEditsSurvive`); a mixed state keeps journal, directory and
lock; the original bytes are at the path or in the backup; the answer says of each file
what is so, its status is all-or-nothing, a clean answer leaves nothing behind, and
`hasValidApplySemantics` accepts it (`ResultIsSound`), so that `assertApplyResult` never
throws away the account of a run that changed files; the run implements `AtomicApply`;
unless it is killed it answers (`EveryRunEnds`); and the check run that asked gets every
answer into its record, but for the three kinds of finding 7, and prints a headline
that is true of the files (`AccountIsSound`).

`ManagerPhaseFaults` checks: the engine's contract; after a failure every lockfile is
restored or named, and success means that every command ran, every lockfile is what its
manager should write and nothing else was written (`AnswerIsExact`); others' bytes are
not overwritten by a restoration (`ForeignEditsSurvive`); the phases implement
`AtomicApply`; and unless they are killed they answer (`EveryExecutionEnds`).

`GlobalApply` checks: no command starts beside a stray one (`StrayStopsCommands`) or for
a package that was not just seen to need it, and what is reported was observed after the
command (`LooksAreFresh`); success covers every operation; the result is accepted for
canonical plans, however the inventories spell (`ResultAccepted`); every apply answers.

`CheckRun` checks: `afterPackageEnd` is called once for every prepared package, and never
repeated (`PackagesEndOnce`); the record has the exit code of the command and never says
of a changed file that it was not attempted (`RecordIsTrue`); exit code 0 of a write means
that everything approved was applied, told and recorded, and the post-write command runs
only then (`ZeroMeansDone`); no frame is on the screen or due while others own it, and
the renderer is at rest however the run ends (`ScreenIsGivenBack`).

`Resolver` checks: an answer was given by the registry of the package it is used for, to
the fetch that was joined or by an earlier run, and only without a token if it is shared;
what the cache keeps was answered, not failed (`AnswersAndCacheAreSound`); attempts and
budget are kept (`BudgetHolds`); and everybody gets an answer, although waiters hold slots
(`EveryDependencySettles`).

`Updates` checks: what the options mean alone and together, stated from the documentation
apart from the compiler (`PolicyAsDocumented`); the choice of a version against a
reference definition: the best one that the mode and the gates allow, the reason given
for a refusal names a gate without which there would be a choice (`SelectionIsBest`); what
moves was selected and moves no further than its mode (`OnlySelectedMoves`); repeated
checks come to rest (`Settled`), in default mode after one more, since a tag may lead to a
range that admits more; evidence and outcomes are true of what was handed over
(`HandOverIsTrue`). Two repositories do not come to rest, and `Settled` names them. Two
dependencies at one place whose modes differ (`OneMind` says that they agree): the wider
moves what the narrower had brought as far as it may. And an x-range whose first version is
deprecated: `1.0.x` is judged by `1.0.0`, and where that is deprecated deprecated versions
pass (`currentDeprecated` in `version-filter.ts`), so a range that was moved to because a
later version of it was the best is left at the next check for a deprecated one. The
fourth and the fifth family of repositories hold both cases.

`Planning` checks: a plan is refused by its contract exactly where the two disagree in a
known way (`Contradicted`) or, with an edit between two reads, may (`Drifted`); when
blocking ends the peers that rules protect hold together (`PeersHoldTogether`); a manager
is to run only where manifest, boundary and lockfile say so without doubt
(`ExecutionIsExact`); an operation expects what the source with its hash declares
(`OperationsMatchTheirSource`); the rounds end (`EveryPlanAnswers`).

**Bounds.** Displacing a live lock takes one process that judges, one that
finishes and one that acquires: three processes give every two-party race with a
third to be hurt; the finding needs a fourth to acquire beside the displaced
one. `attempt` is bounded by the code (two). Two files give "some replaced, some
not" and a first, a middle and a last target of each loop; with `active` chosen
from `0..N` one of them may be unchanged. Two interferences give an edit and an
edited or lost artifact, or a lock that is lost and comes back. Two lockfiles give
a command that fails after one that succeeded, a stray write to another target's
lockfile, and a recovery loop with a part done; one edit may come in any phase, and
`ForeignEditsSurvive` is proved for any number. One process besides the child gives a
descendant that stays or leaves, drops the marker, or is not of the family at all; that
chains of several generations change nothing is proved (section 4). Two operations give
one after a command that is not accounted for; two releases an upgrade, a downgrade and no
change; two moves of the realm let it be away for the inventory and back for the
question, which `Trustworthy` excepts, since the code cannot tell. Two packages give one
that ends well beside one that fails, before it or after it. Three dependencies on two
slots and two packages give one that joins, one that waits for a slot, and one that comes
when the first fetch is over; a budget of two units is spent by two late timers, one retry
and one further page. Three checks are one more than the two after which everything must
rest; ten releases hold each kind of step (major, minor, patch, channel) from each shape
of value. Planning's seven families each vary what one part of the code tells apart:
peers and rules; neighbours, overrides and optional peers; catalogs and exclusions; facts
of the registry; manager, lockfile and phases; what cannot be read; one edit between any
two reads. Their directories have names longer than one letter, for a reason given under
the findings. Deadlock is not checked where a run ends and so does the system; `CheckRun`
says with an action (`Done`) where it may end, and is checked.

**Fairness.** Only the runs of liveness properties assume any: weak fairness of `Apply`,
`Phases`, `Supervisor`, `Engine` and `Step`, the disjunctions of the run's own steps;
`Phases` contains the end of a command, since `runResolvedProcess` kills it after its
timeout, and not what a command writes. The engine is one sequential asynchronous
function whose awaits are file system calls and child processes with timeouts,
so it is always able to take its next step unless it is killed. Nothing is
assumed of the environment, in particular not that a process exits, reacts to SIGTERM
or closes its output. That the engine of `GlobalApply` always has a step to take rests
on `EveryCallSettles`. `Resolver` assumes weak fairness of each dependency: a request ends
because its timer aborts it, a backoff because its timer fires, and the event loop runs
every continuation; nothing is assumed about which answers come.

**Findings.** Places where the code does other than its documents, tests or
assertions say. The first three are runs; the definitions of the others stand in their
modules and were found violated with the instance named, no run is kept for them.
`apply.md` is `docs/output-formats/apply.md`.

1. `LiveOwnerBlocks`, lines 127-129: "A live ... owner blocks". `reclaimStaleLock`
   renames whatever is at the lock path after judging the owner it read before, so
   the lock of a live run may be moved aside for a moment; another process can
   acquire in that moment. The displaced run notices at its next `ownsApplyLock`,
   and its owner record is put back or kept, never destroyed, which
   `ReclaimsOnlyTheDead` and `EvidenceKept` state.
2. `EffectsStayUncertain`, lines 148-152: external effects of a started command make
   any later failure `unknown`. When the commands succeed and the final observation
   of the files then fails, the sources are restored, the evidence is removed and
   the answer says that recovery completed; the lockfiles keep what the managers
   wrote.
3. `BlockingReturnsThePlan`, `plans/022-compatibility-passive-trust.md:88-89`: "Blocking
   removes the affected operation ... and retains the causal signal and evidence." The
   signals of a round are kept as they were (`plan/index.ts:524`); when a later round
   blocks the peer itself, the kept evidence names a range nobody plans any more, and
   the contract (`validate.ts:1578-1643`), deriving it again, refuses the plan.
4. `SurvivorsAreNotSuccess` (`ManagerPhase`), `apply.md:144-147`: surviving processes
   "remain partial/unknown and retain evidence". How the artifact verifier's process ended
   has no influence on its phase, so the run succeeds and cleans up beside a survivor.
5. `StrippedIsUnconfirmed` (`ProcessRunner`, with `Reaper <- session`), `apply.md:62-63`
   and `process-runner.test.ts:251`: a detached descendant without the marker makes
   termination unconfirmed. Where orphans are adopted by a process of the same user
   (`systemd --user`), `hasBaselineAncestor` finds that process among the ancestors and
   attributes the descendant to it; the answer is an ordinary, confirmed exit.
   `ConfirmedMeansGone` therefore speaks of init as the adopter.
6. `ChangesAreReported` (`GlobalApply`, plans in several spellings),
   `global-apply/index.ts:593`: `createGlobalResult` asserts its own result. Plans may
   spell versions in any way `semver.valid` accepts, while the assertion compares what
   was observed with the canonical spelling; for a plan that says `2.0.0+build` or
   `v2.0.0` it fails, after the command has run.
7. `EveryAccountAccepted` (`ApplyAccount`), `docs/troubleshooting.md`, which asks for the
   receipt first after a failed write: the record's rules (`run-model.ts:1018`) refuse
   three kinds of answers the engine gives, and with them the account of changed files: a
   file found changed beside others that were replaced and are not all back; nothing
   replaced and a file that could not be observed; a commit that lost the lock, whose
   recovery is not known to be partial, with files that are told failed.
   `AccountIsSound` states that these are all.
8. `AppliedIsReported` (`CheckRun`, already with one package),
   `plans/033-command-level-local-apply.md:296-299`: packages are completed with their
   results after the apply returned. When the record refuses an event or the renderer
   fails in between, packages end without their results being told.
9. `NearestBoundary` (`Planning`, with `Setups <- OneLetterSetups`),
   `docs/configuration/workspaces.md:85`, `docs/api/repository-model.md:49`: packages and
   lockfiles belong to the nearest boundary. `owningBoundary` takes the longest path, and
   the root's `.` is as long as the name of a directory of one letter (`evidence.ts:1224`,
   `plan/index.ts:1044`, `validate.ts:2354`).
10. `docs/configuration/options.md:205-207`: a rule for a manager that is not known blocks
   the decision "unless a later definite rule overrides the same dimension". A later
   legacy `include` overrides nothing, yet clears the block (`matcher.ts:79-87`,
   `resolveAction`; `policy.test.ts:608` holds it to that): the dependency is selected,
   although with the manager known it would be excluded. `PolicyAsDocumented` excepts it.
11. Four more ways in which a plan contradicts its own contract, the rest of
    `Contradicted`: a sensitive value, or one whose mode waits for the manager, in an
    excluded scope (`plan/index.ts:282` against `validate.ts:834-842`); an owner of a
    catalog that waits for the manager while an excluded workspace shares it; an entry of a
    catalog that asks for peers and that nobody consumes (`signals/index.ts:565-574` against
    `validate.ts:1280-1293`). With an edit between two reads, `Drifted`. `SnapshotConflict`
    was meant for the latter and hardly ever notices.

Two more places read differently in the code; the models contain the behaviour, no
run is spent on it. An operation whose file stopped the commit is reported as
conflicted also when files before it had been replaced (and are then reverted), while
line 169 of `apply.md` says that a conflict blocked all replacements. And
`cleanupArtifacts` deletes backups one by one: when it fails half way the phases have
failed and a rewritten lockfile may have no backup left, while lines 138-139 say that
incomplete recovery retains them. For the same reason `AnswerIsExact` speaks of failures
before the last look only: a failed last look at manifests or install trees names no
lockfile. `NO_SEMANTIC_CHANGE` and `CURRENT_VALUE_SELECTED` of `resolveDependency`, and
blocked operations in a ready execution, are code no run reaches.

## 4. What is proved

For every value of the constants, under the assumptions the modules name
(`LockAssumption`: processes, `None` and `Torn` differ; `EngineAssumption`: `N` and
`MaxEdits` are naturals; `ManagerAssumption`: there is a target, and others' contents
are none of the run's own; `RunnerAssumption`: the child is one of the processes, and
the session and init are others; `ResolverAssumption`, `RegistryAssumption`,
`CacheFaultsAssumption`: the resolver's bounds are positive, retries may be 0;
`GlobalAssumption`: managers and releases are numbered, and plans have at least one
operation; `NAssumption`: the packages of a check run are numbered;
`ReleasesAssumption`: releases are in the order of `semver` and hold those an x-range
spells; `SetupsAssumption`: values, registries and layers of options are well formed, a name
is spelled by one pattern (patterns are keys of an object), a package manager is one of
those known or unknown, the registry knows every dependency, and a dependency was read from where a change of it is written;
`PolicyAssumption`: no manager is called "unknown", no catalog "none"; `Planning`'s
`SetupsAssumption`: a disk has finitely many files, each in one of the directories and
either a file or a link, what the registry selects has a version, and rules are a list;
`DirsAssumption`: the directories one lies in lie in one another, each with a longer path
than the one before), TLAPS checks:

| Theorem | Says |
|---|---|
| `LockTyping`, `LockInvariance` | `TypeOK` and `LockInvariant` hold in every behaviour of `ApplyLock` |
| `ReclaimIsSafe`, `EvidenceIsKept`, `ExclusionUntilReclaim` | `ReclaimsOnlyTheDead`, `EvidenceKept`, `MutualExclusion` |
| `EngineTyping`, `EngineInvariance` | `TypeOK` and `EngineInvariant` hold in every behaviour of `ApplyEngine` |
| `JournalCovers`, `MixtureIsGuarded` | `JournalCoversReplacements`, `MixedStateIsGuarded` |
| `OriginalsRecoverable` | `OriginalRecoverable` |
| `SeenEditsAreKept` | `SeenEditsSurvive` |
| `AnswersAreSound` | `ResultIsSound`: honest, all or nothing, clean means clean, accepted by the contract |
| `AccountSound` | `AccountIsSound`: the record refuses three kinds of answers, exactly; the headline is true |
| `EngineImplementsAtomicApply` | every behaviour of `ApplyEngine` is one of `AtomicApply` |
| `MixtureIsRecorded` | `AtomicApply`: old and new files are mixed only while there is evidence |
| `ManagerTyping`, `ManagerInvariance` | `TypeOK` and `ManagerInvariant` hold in every behaviour of `ManagerPhase` |
| `ContractKept`, `OriginalsStayBackedUp`, `EditsSurvive`, `AnswersAreExact` | `EngineContract`, `OriginalsAreBackedUp`, `ForeignEditsSurvive`, `AnswerIsExact` |
| `ManagerImplementsAtomicApply` | every behaviour of `ManagerPhase` is one of `AtomicApply` |
| `RunnerTyping`, `RunnerInvariance` | `RunnerTypeOK` and `RunnerInvariant` hold in every behaviour of `ProcessRunner` |
| `ConfirmationIsHonest` (init adopts), `GroupIsStopped` | `ConfirmedMeansGone`, `GroupDoesNotOutlive` |
| `ResolverInvariance` | `ResolverInvariant`, which includes types, holds in every behaviour of `Resolver` |
| `AnswersAreShared`, `BudgetIsKept` | `AnswersAndCacheAreSound`, `BudgetHolds` |
| `GlobalInvariance` | `GlobalInvariant`, which includes types, holds in every behaviour of `GlobalApply` |
| `StrayCommandsStop`, `SuccessAccountsForAll`, `LooksStayFresh` | `StrayStopsCommands`, `SuccessIsComplete`, `LooksAreFresh` |
| `ResultsAreAccepted` (plans spell versions as semver does) | `ResultAccepted` |
| `CheckRunInvariance` | `Control` and `ScreenKept`, which include types, hold in every behaviour of `CheckRun` |
| `PackagesAreEnded`, `ZeroExitIsDone`, `ScreenComesBack` | `PackagesEndOnce`, `ZeroMeansDone`, `ScreenIsGivenBack` |
| `RecordTellsTruth` | `RecordIsTrue` |
| `UpdatesInvariance` | `UpdatesInvariant` holds in every behaviour of `Updates` |
| `SelectionIsBestAlways` | `SelectionIsBest`: the highest version that passes every gate, narrower never further, refusals for a gate that matters |
| `ChecksSettle` | `Settled`: checks repeated without a change of the registry come to rest |
| `PolicyMeansWhatItSays` | `PolicyAsDocumented`: options compile to what is documented, excluded scopes stay out, no decision rests on an unknown manager |
| `HandOverIsTrueAlways` | `HandOverIsTrue` |
| `ValuesMoveAsSelected` | `OnlySelectedMoves` |
| `SourcedAlways`, `OperationsSourced` | `Sourced`; `OperationsMatchTheirSource` |
| `PeersHoldAlways` | `PeersHoldTogether`: what a rule protects goes together when blocking ends |
| `ExactAlways` | `ExecutionIsExact`: a manager is to run only where the disk leaves no doubt |

**The lock.** None of the lock's properties is inductive: that a reclaim destroys a
dead owner's record depends on which directory is where. `LockInvariant` says that
a directory is in one place (`OnePlacePerDirectory`), that the next directory a
process makes is new, that an owner file being written belongs to its writer, that
what was judged dead stays dead and without a journal (`JudgedDead`, from the lemma
`GoneForever`), and, while nothing was reclaimed, that the path leads to the
holder's directory (`PathIsHolders`), which gives mutual exclusion.

**The engine.** `EngineInvariant` follows the run: a target the loops work on exists
(`WellPlaced`); directory, lock and journal come before any replacement and go only
in cleanup (`JournalFirst`); a staged file at a target path is covered by the
journal in memory and, through it, on disk (`NewIsCovered`); cleanup without success
starts only when no file is new; success is decided on all files
(`SuccessIsWhole`). There is one lemma for each part, with one step for each action.
The refinement then shows each action to be one of `AtomicApply`'s or none: the
first `persistJournal` that succeeds is `Begin`, the renames are `Replace`, removing
the journal is `Forget`, and the three actions that answer are `Conclude`.

**The engine's answers.** What an answer says rests on more than `EngineInvariant`, and
it is added in two layers, each inductive on the ones before.
`FilesKept` is about the files alone: what was looked at last is what is there unless
somebody touched it (`Looked`, `Untouched`), original bytes are at the path or in the
backup until cleanup, and cleanup without success starts with them at the path
(`OriginalKept`), a run that gives up harmlessly tried no rename (`NothingTried`).
`AccountKept` is about what the run keeps in memory: it recovers only after an attempt
(`TriedBeforeRecovery`), outcomes that were settled stay true (`OutcomesRecorded`), at
each stretch it is known which artifacts are gone (`Tidy`), and the phases' statuses
agree with where the run is (`PhasesSay`). `SoundAnswer` derives `ResultIsSound` from both
for an answer that is made, `ResultStep` shows that later steps cannot falsify it.

**What a check run tells of an answer.** `AccountIsSound` relates an answer of the engine to
a record that is folded over the events made of it, so its proof has two parts. The first
knows nothing of runs. It says which of six kinds an answer may be of (`Known`: nothing to
change, barred, not staged, staged and untried, replaced, turned back), each a shape of
phases, files and recovery, and tells the events of each kind one by one: `Reached` is a
record that took a sequence, `Stands` what such a record holds, `Takes` that it takes one
more event (`TakesApply`, `TakesRecovery`, ...). The last event, with the results, is the one
a record may refuse, and `ToldExactly` shows that it does for `Refused` and for nothing
else. The second part is about runs: what the commit is past was tried (`RenamedSoFar`), a
run that replaced every file and found one changed stays short of a completed recovery
(`NotBack`), the folded phases say how far it got (`PhasesAre`), and what is told as
reverted was tried (`RevertedWasTried`). These four are `CourseKept`, inductive on
`FilesKept` and `AccountKept`. `AnswersKnown` follows for each action that answers: every
reading of the answer is `Known`. The proof attempt corrected the model: with three
files and more there was an answer that `Refused` did not name (a commit that lost the lock
with some files back and one failed), which the runs, with two files, could not show.

**The manager phases.** `ManagerInvariant` says that backups and phase file are
complete before the first command and until cleanup (`EvidenceComes`), that commands
run in order and each was seen to produce its lockfile before the next
(`CommandsInOrder`), that cleanup starts with every lockfile rewritten or with no
command started (`ClosingIsSafe`), and that bytes of others were observed as a
command's only where the code cannot tell (`ForeignIsBlurred`). The exact answers rest on
more, `AnswerInvariant`: snapshots hold what the last look accepted (`SnapshotsKept`); a
lockfile nobody else changed is original until its command runs and, after a failure,
original, named or still to be looked at (`LedgerKept`); and a command's stray leaves a
trace until the next look, which makes it a failure (`StraysAreSeen`), so none is left
when success is reported.

**The process runner.** `RunnerInvariant` says that a process the command started has
its parent among those, or the adopter (`FamilyTree`); that once the group was killed
or seen empty nobody in it runs, and nobody is in it while termination counts as
confirmed (`GroupIsDealtWith`); and that whoever ran at the listing and still exists
was read, or is yet to be (`CensusIsComplete`). When `Probe` confirms, a process of
the command in the snapshot would be in a new group, and no chain of parents leads
from it to the session: the set of the command's processes, with init, is closed
under parents. So it would be unattributed or have been killed and probed.

**The resolver.** `ResolverInvariant` says what a fetch may be between two of its steps
(`FetchKept`: a request is only out while time is left, a backoff only when it fits in
the budget of the pages); that the promise in flight for a package is the only fetch of
it that is not over (`FlightsKept`), which is what the removal at settling rests on;
that a dependency was told what the fetch it waits for answered, or, without one, what
the cache may hold (`DependenciesKept`); that whatever lies in the table or the map
was there before, or came from a successful fetch of that package without a token
(`EntriesKept`, for both stores, as reads move from one to the other in mid-run); and
that the database is closed by the failover or at the end, never by both (`ClosedOnce`).
There is a lemma for each operation of the cache and of a fetch, cited by the actions
that use it.

**Global updates.** `GlobalInvariant` says where the loop is (`LoopKept`: the operation it
is at has no item yet, operations without an item had no command, and none is started
after an unsafe one); that each item says what its operation's command and inspections
allow (`ItemsKept`, with the contract's own `ValidItem` where versions are spelled as
semver does, which the assumption of `ResultsAreAccepted` is for: the violation run shows
that it is needed); and what an inspection under way may have found (`LooksKept`): a
version the package had since it began, or one of another realm, and then the manager
was moved once before its inventory was read and again before its realm was. The loop
continues in four actions; `ContinueKept` shows once, for any results that are accounted
for, that it keeps the invariant.

**A check run.** `Control` says where the loops over packages are (`LoopKept`: who was
prepared, ended and reported while the run is at a package, or past all) and what the
engine was asked and has answered (`AnswerKept`: only updates of a write are approved,
the post-write command ran only after all were applied). `ScreenKept` says what the
renderer can be between two steps: suspended at least once while others own the terminal,
with neither frame nor timer then; failed, finalized or disposed at the end. Each
operation of the renderer has a lemma about all its outcomes, throws included.

**The record of a run.** What the record says at the end depends on what it can still
take, which `RecordKept` states. Before the write it is `Young`: exactly one phase is
active, those behind it are over, nothing has been said of results. After the engine's
answer it is `Closable`, with results that hide no changed file, if it took the answer; if
it refused it, it is `Stuck`: its phases tell of the write, so no end of the run that says
"not attempted" is accepted any more, or it never took the selection, and so names no
file. `emit` is called with sequences of events: `EmitTraced` and `EmissionTraced` give what
a sequence makes of record and screen, event by event, and what holds of all of them is
shown by `Induction`, over sets of numbers where the library's theorem is over predicates.
So `ResultsTold`: events before the results leave results and write as they were, whichever
is refused. The six kinds of answers the engine gives are then told one by one (`FullyTold`,
`StagedOver`, `LastOver`, ...), each either taken whole or refused at a known event.

**From options to files.** The invariant of `Updates` is short, the functions are not. What
five filters leave of a registry is one set (`Left`, and `PassesIsLeft`: the versions that
pass every gate), and a choice is its highest version above the current one, if there is any
(`Reaches`, `SelectReaches`). From there a smaller set never reaches further (`Nearer`,
`Narrower`), and a refusal names the filter that emptied the set, which, when it is open,
stops nothing (`SelectOpens`). `InOrder` and `RewrittenRises` say that writing a value in its
own shape raises it and admits what was chosen, x-ranges included. `UpdatesInvariant` then
carries this through the phases: what was picked are verdicts on the values as they still
are (`PicksKept`), and what was handed over was made of them (`HandedKept`), so that a write
does to a place what one selected dependency asked for (`WantedMoves`). `EvidenceSpeaks` and
`ToldOfOutcomes` do the same for the evidence before a write and the outcomes after it.

That checks come to rest (`ChecksSettle`) is a fact about one verdict after another. Where a
mode names no range, what passes every gate from the value that was written passed it from
the value before (`OpensBefore`, `FitsBefore`), and all of that was below the choice; an
x-range holds every stable version between its first and one it admits (`RangeIsFilled`), so
what is left is in the range already (`RestsAfterOne`). In default mode the first move may
follow a tag out of the range, but it ends in a value that admits a published version
(`MovedIsAnchored`), and from such a value on the range only narrows (`AdmitsLess`,
`RestsAnchored`). `Rested` says how far `calm` checks have brought a value, and
`RestInvariant` carries it: the decisions are the same in every check (`DecisionsStay`),
after an application every dependency that was selected has its new value at its place
(`PickIsWritten`), and one that was not its old one (`OthersStay`). The last needs
`OneMind`; that it does, and that a deprecated beginning of a range opens it again, was
found by attempting the proof, with a repository for each from TLC: the property had neither
condition before, and the three families the run had then did not break it.

**What options mean.** `PolicyAsDocumented` speaks of rules that are compiled, evaluated and
compared with a definition that knows neither. `Weighing` follows a record of what was seen
after each rule (`WeighingTraced`), so rules that are appended go on from there
(`WeighingBlock`). For the excluded scopes that is enough: the last rule that matches
excludes. For decisions without the manager, the evaluations with and without it are `Tied`:
alike but for what waits, and what waits stands behind what decided. For the options, rules
of legacy options leave no normal action and nothing undecided (`Plain`), so all that counts
is which exclusions stand (`Standing`); each option's rules come to what the option says
(`ModeGoes`, `IncludeGoes`, `ExcludeGoes`, and `PackageGoes`: in the compiled order the last
rule that matches is the documented first entry); and a layer keeps the rules in agreement
with what the layers gave (`Agrees`, `LayerKeeps`), while `packageMode` keeps the last word
until a later layer gives a mode (`Decided`), which `LegacyOptions` leaves out.

**A plan.** Three invariants, since the three theorems rest on different things.
`Sourced` says that occurrences are drawn from the second reading of the sources, one
source for each file, so that the declaration an operation expects is one of the source
whose hash it carries; nothing of what discovery had read before enters but the range the
target was resolved from (`DrawnFromSource`).

`PeerInvariant` follows the rounds of blocking: while they go on, what the evaluator is
given speaks of the same occurrences and names as the model (`NamesAgree`, `GivenAgrees`),
what is left of the operations are some of the first ones, each asking for the version its
trace selected (`OpsAgree`), and the signals are those of the operations that are left, of
which none is blocked when the rounds are over (`NoneBlocked`). `Unmet` and the lemmas on
peers then show that an operation whose provider is left where its range does not reach has
a signal that fails, which the last rule blocks: the projection of a range and the test
whether a version is in it are written apart in the code, and are shown to agree.

`ExactInvariant` adds what each reading found, as long as nobody edits (`ReadRightly`, over
`Surveyed`: what the walk reached, which boundaries it marked, which lockfiles belong to
them). That the longest path is the deepest directory (`owningBoundary`) is proved from
`DirsAssumption` for trees without directories of one letter, which is finding 9. A ready
target was concluded from a manager and a lockfile without a second candidate, and each
conclusion is taken back to the files: a boundary that was not read whole, or could hide
another manifest or lockfile, does not conclude.

Each attempt corrected its property. `ExecutionIsExact` asked for one manifest that names the
manager; the proof gave that all manifests of the boundary agree, and now it says so. It
counted lockfiles by where they lie, while a link to a lockfile of another boundary counts
there: such a link is left aside, and the instance contains one. `PeersHoldTogether` spoke of
providers outside the registry and of ranges the code cannot read, about which the signal is
unknown rather than failed, and forgot that a consumer of a catalog beside the provider is a
second provider; it now speaks of the one readable provider. None of these had a
counterexample among the repositories of the run as they were.

Only model-checked: liveness (`EveryRunEnds`, `EveryExecutionEnds`, `EveryCallSettles`,
`EveryApplyAnswers`, `EveryDependencySettles`, `EveryPlanAnswers`), which needs fairness
and ENABLED and is out of the prover's reach; and of `Planning`, `RefusedForCause`, which compares the whole of a plan with a contract that derives it again in some fifty
validators: the run compares them on every repository of its families.

## 5. What is not modelled, and what could follow

* **File writers** (`io/write`). Only their pure halves are reached by `check` and
  `apply`: what text a manifest has after a change, which the models have as "the new
  bytes". `writePackage`, which reads, backs up and writes by itself, is deprecated and
  only exported; a concurrent change between its read and its rename is lost.
* **Preflight of the engine**, which is one refusal in `ApplyEngine`: a sequence of
  reads before anything is written.
* **Construction of global plans and parsing of inventories** (`io/global.ts`): formats of
  other programs.
* **Parsing** of manifests, YAML, lockfiles, specifiers and globs; `semver` itself.
* **JSON schemas, input validation, canonical JSON** (`contracts`): each is a statement
  about single values; the rules that relate values are modelled.
* **The npm audit adapter and artifact verification's evidence** (`trust`): formats;
  the phase that runs the verifier is in `ManagerPhase`.
* **Layout**: tables, the interactive views (`tui`), colours, widths, wording.
* **CLI, configuration loading, addons, utilities**: plumbing; what options mean is in
  `Policy`, what addons may add is in `Updates` and when their hooks run in `CheckRun`.
* **macOS**: the process listing there is one call of `ps`, without a timeout.

A theorem that could follow: `RefusedForCause` for every repository, one validator of the
contract after the other.
