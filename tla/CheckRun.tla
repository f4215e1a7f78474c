------------------------------- MODULE CheckRun -------------------------------
(***************************************************************************)
(* A check run (commands/check/run-check.ts) from its options to its exit  *)
(* code: discovery, resolution, preparation of every package, one apply of *)
(* the approved ones, their completion, and the end of the record and of   *)
(* the screen.  Addon hooks, loading, planning and terminal writes may     *)
(* fail at every point; timers redraw the screen between any two steps.    *)
(*                                                                         *)
(* Packages are 1..N, each with one dependency in a file of its own.       *)
(***************************************************************************)
EXTENDS CheckReport, VisualRenderer

CONSTANT N

ASSUME NAssumption == N \in Nat \ {0}

VARIABLES
  pc,
  run,        \* options: [visual, recorded, write, strict]
  count,      \* packages found
  at,         \* the package a loop is at
  record,     \* the controller's snapshot
  screen,     \* the renderer
  fate,       \* what resolution made of each package
  prepared,   \* packages whose preparation ended: not approved, or approved
  selected,   \* packages whose update was chosen
  ended,      \* afterPackageEnd calls
  reported,   \* packages whose write result was reported
  answer,     \* the engine's answer, or what stands for none
  told,       \* did the record take the answer?
  failed,     \* did a completion throw?
  cache,      \* "none", "open" or "closed"
  command,    \* the post-write command: "none", "ok" or "failed"
  ret         \* the exit code

vars == <<pc, run, count, at, record, screen, fate, prepared, selected, ended,
          reported, answer, told, failed, cache, command, ret>>

work == <<fate, prepared, selected, ended, reported, answer, told, failed, command>>

Packages == 1..N
Found    == 1..count

NoAnswer == [kind |-> "none"]
PlanBlocked == [kind |-> "blocked"]
Executed == answer.kind = "executed"

Approved == {p \in Packages : prepared[p] = "approved"}
Updated  == {p \in Packages : fate[p] = "update"}
OwnerOf(ps) == [p \in ps |-> p]

----------------------------------------------------------------------------
(* What the apply engine may answer for the targets ts: one of each kind of *)
(* answer ApplyEngine gives.                                                *)

PhaseOrder == {"preflight", "lock", "stage", "precommit", "commit", "recovery",
               "inspect", "cleanup"}
Began(passed, others) ==
  [n \in PhaseOrder |-> IF n \in passed THEN "passed"
                        ELSE IF n \in DOMAIN others THEN others[n] ELSE "none"]
EngineAnswer(ops, phases, recovery, attempted) ==
  [kind |-> "executed", ops |-> ops, phases |-> phases, recovery |-> recovery,
   journal |-> recovery \in {"partial", "unknown"} /\ attempted # {},
   attempted |-> attempted, owner |-> OwnerOf(DOMAIN ops)]
Op(status, reason) == [status |-> status, reason |-> reason]
Staged == {"preflight", "lock", "stage", "precommit"}

Answers(ts) ==
  LET all(status, reason) == [p \in ts |-> Op(status, reason)]
      split(p, mine, others) == [q \in ts |-> IF q = p THEN mine ELSE others]
      first == CHOOSE p \in ts : \A q \in ts : p <= q IN
  {EngineAnswer(all("applied", "APPLIED"),
                Began(Staged \cup {"commit", "inspect", "cleanup"}, <<>>),
                "not-needed", ts),
   EngineAnswer(all("conflicted", "SOURCE_HASH_MISMATCH"),
                Began({}, [preflight |-> "failed"]), "not-needed", {}),
   EngineAnswer(all("unknown", "VCS_UNAVAILABLE"),
                Began({}, [preflight |-> "unknown"]), "unknown", {}),
   EngineAnswer(all("failed", "STAGING_FAILED"),
                Began({"preflight", "lock", "cleanup"}, [stage |-> "failed"]),
                "not-needed", {}),
   EngineAnswer(split(first, Op("reverted", "COMMIT_FAILED_REVERTED"),
                      Op("failed", "RUN_ABORTED")),
                Began(Staged \cup {"recovery", "inspect", "cleanup"},
                      [commit |-> "failed"]), "completed", {first}),
   EngineAnswer(split(first, Op("failed", "RECOVERY_FAILED"),
                      Op("conflicted", "SOURCE_CHANGED")),
                Began(Staged \cup {"inspect"},
                      [commit |-> "failed", recovery |-> "failed", cleanup |-> "unknown"]),
                "partial", {first})}

\* The files the engine changed and did not put back.
ChangedFiles ==
  IF ~Executed THEN {}
  ELSE {p \in answer.attempted : answer.ops[p].status # "reverted"}

LocalWriteFailed == answer = PlanBlocked \/ (Executed /\ WriteFailed(answer))
DidWrite == Executed /\ \E p \in reported : answer.ops[p].status = "applied"

----------------------------------------------------------------------------
(* The record and the screen *)

\* controller.emit of one event: what the record and the screen may come to.
Taken(m, e) ==
  IF ~m.ok \/ ~Accepts(m.record, e) THEN {[m EXCEPT !.ok = FALSE]}
  ELSE LET next == Reduce(m.record, e) IN
       {[m EXCEPT !.record = next, !.screen = r] :
          r \in IF run.visual /\ next # m.record THEN Observe(m.screen, next)
                ELSE {m.screen}}

\* controller.emit of every event in turn, until one is not accepted.
Emission(rec, scr, events) ==
  LET emitted == IF run.recorded THEN events ELSE <<>>
      after[i \in 0..Len(emitted)] ==
        IF i = 0 THEN {[record |-> rec, screen |-> scr, ok |-> TRUE]}
        ELSE UNION {Taken(m, emitted[i]) : m \in after[i - 1]}
  IN after[Len(emitted)]

\* writeDurable and writeDurableAsync, of something that may throw or not.
Durably(scr, mayThrow) ==
  IF run.visual
  THEN UNION {IF b.threw THEN {b}
              ELSE EndSuspension(b.r, record)
                     \cup (IF mayThrow THEN {Threw(r) : r \in CallbackFailed(b.r)} ELSE {}) :
              b \in BeginSuspension(scr, record)}
  ELSE {Ok(scr)} \cup (IF mayThrow THEN {Threw(scr)} ELSE {})

NotAttemptedResults(rec) ==
  ResultsRecorded(rec.owner,
    [p \in DOMAIN rec.owner |-> [outcome |-> "not-attempted", blocked |-> FALSE,
                                 notAttempted |-> TRUE, unknown |-> FALSE,
                                 reason |-> "none"]])

\* finalizeReadOnlyRun
FinalEvents(rec, code) ==
  (IF HasTerminalEvent(rec, "results-recorded") THEN <<>>
   ELSE <<NotAttemptedResults(rec)>>) \o <<RunCompleted(code)>>

\* Mutant: the active phase is left open.
FailedRecordOpen(rec) ==
  IF ~run.recorded \/ rec.exitCode # Null THEN rec ELSE Emit(rec, FinalEvents(rec, 2)).state

\* failReadOnlyRun; what it throws is swallowed.
FailedRecord(rec) ==
  LET active == {p \in PhaseNames \ {"complete"} : rec.phases[p] = "active"}
      closing == IF active = {} THEN <<>>
                 ELSE <<PhaseCompleted(CHOOSE p \in active : TRUE, "failed")>> IN
  IF ~run.recorded \/ rec.exitCode # Null THEN rec
  ELSE Emit(rec, closing \o FinalEvents(rec, 2)).state

\* An error reaches the catch of the run: the cache is closed, the screen
\* disposed, the record failed, and the exit code is 2.
Abort(rec, scr) ==
  /\ \E closed \in IF cache = "open" THEN {o.r : o \in Durably(scr, FALSE)} ELSE {scr} :
     \E r \in IF run.visual THEN Dispose(closed) ELSE {closed} :
       screen' = r
  /\ record' = FailedRecord(rec)
  /\ cache' = IF cache = "open" THEN "closed" ELSE cache
  /\ ret' = 2 /\ pc' = "done"
  /\ UNCHANGED <<run, count, at>>

\* Steps that end a phase of the run, or the run.
Goto(label, rec, scr) ==
  /\ pc' = label /\ record' = rec /\ screen' = scr
  /\ UNCHANGED <<run, count, cache, ret>>

----------------------------------------------------------------------------
Init ==
  /\ pc = "start" /\ count = 0 /\ at = 0
  /\ run \in {o \in [visual : BOOLEAN, recorded : BOOLEAN, write : BOOLEAN,
                     strict : BOOLEAN] : o.visual => o.recorded}
  /\ record = CreateCheckRunState(run.write)
  /\ \E cursor, compact \in IF run.visual THEN BOOLEAN ELSE {FALSE} :
       screen = NewRenderer(cursor, compact)
  /\ fate = [p \in Packages |-> "none"]
  /\ prepared = [p \in Packages |-> "no"]
  /\ selected = {} /\ ended = [p \in Packages |-> 0] /\ reported = {}
  /\ answer = NoAnswer /\ told = TRUE /\ failed = FALSE
  /\ cache = "none" /\ command = "none" /\ ret = Null

\* validateOptions may refuse the options; a visual run starts its renderer.
Begin ==
  /\ pc = "start"
  /\ \/ Abort(record, screen)
     \/ \E o \in IF run.visual THEN Start(screen, record) ELSE {Ok(screen)} :
          IF o.threw THEN Abort(record, o.r)
          ELSE Goto("load", record, o.r) /\ UNCHANGED at
  /\ UNCHANGED work

\* loadPackages: it may fail before it tells of its packages or after.
Load ==
  /\ pc = "load"
  /\ \/ Abort(record, screen)
     \/ \E n \in {0, N} :
        \E m \in Emission(record, screen,
                 <<[type |-> "packages-discovered", packages |-> n, declared |-> n],
                   [type |-> "repository-inspection-started"]>>) :
          \/ Abort(m.record, m.screen)
          \/ /\ count' = n /\ pc' = "inspect"
             /\ record' = m.record /\ screen' = m.screen
             /\ UNCHANGED <<run, at, cache, ret>>
  /\ UNCHANGED work

\* The renderer learns of the packages, the addons are set up.
Inspect ==
  /\ pc = "inspect"
  /\ \E o \in IF run.visual THEN SetRunMetadata(screen, record) ELSE {Ok(screen)} :
       IF o.threw \/ o.r.reported THEN Abort(record, o.r)
       ELSE \E m \in Emission(record, o.r,
                    <<[type |-> "repository-inspection-completed", status |-> "passed"]>>) :
            \E h \in Durably(m.screen, TRUE) :
              IF h.threw THEN Abort(m.record, h.r)
              ELSE /\ Goto(IF count = 0 THEN "empty" ELSE "loaded", m.record, h.r)
                   /\ UNCHANGED at
  /\ UNCHANGED work

\* The selection of the visual run: told to the record, then to the user.
Review(ps) ==
  UNION {LET written == IF m.ok THEN WriteReview(m.screen, m.record)
                        ELSE {Threw(m.screen)} IN
         {[record |-> m.record, screen |-> o.r, ok |-> ~o.threw /\ ~o.r.reported] :
            o \in written} :
         m \in Emission(record, screen, <<SelectionCompleted(OwnerOf(ps))>>)}

\* finalizeReadOnlyRun and finalizeVisualRun.
FinalizeRun(rec, scr, code, receipt) ==
  IF scr.reported THEN Abort(rec, scr)
  ELSE \E m \in Emission(rec, scr,
                         IF rec.exitCode # Null THEN <<>> ELSE FinalEvents(rec, code)) :
         IF ~m.ok \/ m.screen.reported THEN Abort(m.record, m.screen)
         ELSE \E o \in IF run.visual THEN Finalize(m.screen, m.record, receipt)
                       ELSE {Ok(m.screen)} :
                IF o.threw \/ o.r.reported THEN Abort(m.record, o.r)
                ELSE /\ record' = m.record /\ screen' = o.r
                     /\ ret' = code /\ pc' = "done"
                     /\ UNCHANGED <<run, count, at, cache>>

\* A run without packages.
Empty ==
  /\ pc = "empty"
  /\ \E m \in Emission(record, screen,
              <<[type |-> "resolution-completed", eligible |-> 0, unresolved |-> 0,
                 updates |-> 0, status |-> "passed"], SelectionCompleted(<<>>)>>) :
     \E o \in IF run.visual THEN WriteReview(m.screen, m.record) ELSE {Ok(m.screen)} :
       IF o.threw THEN Abort(m.record, o.r)
       ELSE FinalizeRun(m.record, o.r, IF run.strict THEN 2 ELSE 0, FALSE)
  /\ UNCHANGED work

\* afterPackagesLoaded; the cache is opened, and the resolution suspends the
\* screen until it ends.
Loaded ==
  /\ pc = "loaded"
  /\ \E h \in Durably(screen, TRUE) :
       IF h.threw THEN Abort(record, h.r)
       ELSE \E b \in IF run.visual THEN BeginSuspension(h.r, record) ELSE {Ok(h.r)} :
              /\ cache' = "open" /\ record' = record
              /\ screen' = b.r /\ pc' = IF b.threw THEN "raise" ELSE "launch"
              /\ at' = 1 /\ UNCHANGED <<run, count, ret>>
  /\ UNCHANGED work

\* beforePackageStart of the next package; its resolution begins.
Launch ==
  /\ pc = "launch"
  /\ \/ /\ at < count /\ at' = at + 1 /\ Goto("launch", record, screen)
     \/ at = count /\ Goto("resolve", record, screen) /\ UNCHANGED at
     \/ \E r \in IF run.visual THEN CallbackFailed(screen) ELSE {screen} : Abort(record, r)
  /\ UNCHANGED work

\* A package resolves to an update, to none, or to an error.
Resolve ==
  /\ pc = "resolve" /\ at > 0
  /\ \E f \in {"update", "current", "error"} : fate' = [fate EXCEPT ![at] = f]
  /\ at' = at - 1 /\ Goto("resolve", record, screen)
  /\ UNCHANGED <<prepared, selected, ended, reported, answer, told, failed, command>>

ResolutionEnds ==
  /\ pc = "resolve" /\ at = 0
  /\ \E o \in IF run.visual THEN EndSuspension(screen, record) ELSE {Ok(screen)} :
       IF o.threw THEN Abort(record, o.r)
       ELSE \E m \in Emission(record, o.r,
                  <<[type |-> "resolution-completed", status |-> "passed",
                     eligible |-> count, updates |-> Cardinality(Updated),
                     unresolved |-> Cardinality({p \in Found : fate[p] = "error"})]>>) :
              /\ at' = 1 /\ Goto("prepare", m.record, m.screen)
  /\ UNCHANGED work

----------------------------------------------------------------------------
(* Preparation *)

\* Mutant: nobody ends the packages prepared before the failure.
AbandonNone(ps) == UNCHANGED ended

\* completePreparedPackage with no result, of every package prepared so far:
\* whatever the hooks throw, every one is called.
Abandon(ps) ==
  ended' = [p \in Packages |-> IF p \in ps THEN ended[p] + 1 ELSE ended[p]]

PreparedSoFar == {p \in Packages : prepared[p] # "no"}

\* preparePackage: errors are shown, updates are selected, and the hook that
\* approves the write is asked.  When it throws, the package is ended in its
\* own catch and the others by prepareAllPackages.
Prepare ==
  /\ pc = "prepare" /\ at <= count
  /\ \/ \E o \in Durably(screen, FALSE), choose \in BOOLEAN, approve \in BOOLEAN :
          LET s == choose /\ fate[at] = "update"
              yes == s /\ run.write /\ approve IN
          /\ ~o.threw
          /\ selected' = IF s THEN selected \cup {at} ELSE selected
          /\ prepared' = [prepared EXCEPT ![at] = IF yes THEN "approved" ELSE "declined"]
          /\ at' = at + 1 /\ Goto("prepare", record, o.r)
          /\ UNCHANGED <<fate, ended, reported, answer, told, failed, command>>
     \/ \E o \in Durably(screen, fate[at] \in {"error", "update"}) :
          /\ o.threw
          /\ Abandon(PreparedSoFar \cup {at})
          /\ Abort(record, o.r)
          /\ UNCHANGED <<fate, prepared, selected, reported, answer, told, failed, command>>

\* A visual run that will not apply anything shows its selection now, if there
\* is evidence of it.  Nobody ends the packages when this throws.
Select ==
  /\ pc = "prepare" /\ at > count
  /\ IF run.visual /\ (~run.write \/ Approved = {})
     THEN \/ (screen.reported \/ selected # {}) /\ Abort(record, screen)
          \/ /\ ~screen.reported
             /\ \E m \in Review(IF run.write THEN {} ELSE selected) :
                  IF m.ok THEN Goto("told", m.record, m.screen) /\ UNCHANGED at
                  ELSE Abort(m.record, m.screen)
     ELSE Goto(IF Approved = {} THEN "told" ELSE "apply", record, screen) /\ UNCHANGED at
  /\ UNCHANGED work

----------------------------------------------------------------------------
(* The apply *)

\* applyLegacyCommandWrite throws before the engine runs: it cannot make a
\* plan, or the visual selection cannot be shown.
ApplyThrows ==
  /\ pc = "apply"
  /\ \/ Abort(record, screen)
     \/ run.visual /\ screen.reported /\ Abort(record, screen)
     \/ /\ run.visual /\ ~screen.reported
        /\ \E m \in Review(Approved) : ~m.ok /\ Abort(m.record, m.screen)
  /\ Abandon(PreparedSoFar)
  /\ UNCHANGED <<fate, prepared, selected, reported, answer, told, failed, command>>

\* The plan cannot be made of the selection: blocked, which a visual run throws.
ApplyBlocked ==
  /\ pc = "apply" /\ ~run.visual
  /\ answer' = PlanBlocked
  /\ Goto("told", record, screen)
  /\ UNCHANGED <<at, fate, prepared, selected, ended, reported, told, failed, command>>

ApplyBegins ==
  /\ pc = "apply"
  /\ IF run.visual
     THEN \E m \in Review(Approved) : m.ok /\ ~screen.reported /\ Goto("applying", m.record, m.screen)
     ELSE Goto("applying", record, screen)
  /\ UNCHANGED at /\ UNCHANGED work

ApplyEnds ==
  /\ pc = "applying"
  /\ answer' \in Answers(Approved)
  /\ Goto("told", record, screen)
  /\ UNCHANGED <<at, fate, prepared, selected, ended, reported, told, failed, command>>

\* A visual run has told its selection before the apply.
ToldSelection(owner) == IF run.visual THEN <<>> ELSE <<SelectionCompleted(owner)>>

\* emitVisualWriteResult and emitLocalWriteResult.
AccountOf(unbound) ==
  CASE answer = NoAnswer ->
         ToldSelection(<<>>) \o <<PhaseCompleted("preflight", "passed"),
           [type |-> "stage-completed", observationRequired |-> FALSE],
           ResultsRecorded(<<>>, <<>>)>>
    [] answer = PlanBlocked /\ unbound -> <<PhaseCompleted("review", "unknown")>>
    [] answer = PlanBlocked /\ ~unbound ->
         ToldSelection(OwnerOf(Approved)) \o <<PhaseCompleted("preflight", "blocked"),
           ResultsRecorded(OwnerOf(Approved),
             [p \in Approved |-> [outcome |-> "blocked", blocked |-> TRUE,
                notAttempted |-> TRUE, unknown |-> FALSE, reason |-> "none"]])>>
    [] Executed -> ToldSelection(answer.owner) \o ResultEvents(answer)

\* The record is told of the answer; what it throws is kept until the packages
\* are completed.  An error of the screen is thrown at once.
Tell ==
  /\ pc = "told"
  /\ IF screen.reported THEN Abort(record, screen) /\ UNCHANGED told
     ELSE \E unbound \in BOOLEAN :
          \E m \in Emission(record, screen,
                            IF run.write THEN AccountOf(unbound) ELSE <<>>) :
          \E b \in IF run.visual THEN BeginSuspension(m.screen, m.record) ELSE {Ok(m.screen)} :
            IF b.threw THEN Abort(m.record, b.r) /\ told' = m.ok
            ELSE told' = m.ok /\ at' = 1 /\ Goto("complete", m.record, b.r)
  /\ UNCHANGED <<fate, prepared, selected, ended, reported, answer, failed, command>>

----------------------------------------------------------------------------
(* Completion *)

\* completePreparedPackage: the result of an approved package is reported, its
\* hooks run; either may throw, the next package is completed all the same.
Complete ==
  /\ pc = "complete" /\ at <= count
  /\ ended' = [ended EXCEPT ![at] = @ + 1]
  /\ reported' = IF prepared[at] = "approved" THEN reported \cup {at} ELSE reported
  /\ \E throws \in BOOLEAN : failed' = (failed \/ throws)
  /\ at' = at + 1 /\ Goto("complete", record, screen)
  /\ UNCHANGED <<fate, prepared, selected, answer, told, command>>

\* Then what was kept is thrown, or afterPackagesEnd is called and a plain
\* read-only run tells its selection; the cache is closed.
CompletionEnds ==
  /\ pc = "complete" /\ at > count
  /\ \E o \in IF run.visual THEN EndSuspension(screen, record) ELSE {Ok(screen)} :
       IF o.threw \/ ~told \/ failed THEN Abort(record, o.r)
       ELSE \E h \in Durably(o.r, TRUE) :
            IF h.threw THEN Abort(record, h.r)
            ELSE \E m \in Emission(record, h.r,
                        IF run.write \/ run.visual THEN <<>>
                        ELSE <<SelectionCompleted(OwnerOf(Updated))>>) :
                 \E c \in Durably(m.screen, FALSE) :
                   /\ cache' = "closed" /\ pc' = "post"
                   /\ record' = m.record /\ screen' = c.r
                   /\ UNCHANGED <<run, count, at, ret>>
  /\ UNCHANGED work

\* --execute, --update and --install run only after a write that failed nowhere.
PostWrite ==
  /\ pc = "post"
  /\ IF run.write /\ DidWrite /\ ~LocalWriteFailed
     THEN \E ok \in BOOLEAN : \E o \in Durably(screen, FALSE) :
            /\ command' = IF ok THEN "ok" ELSE "failed"
            /\ IF o.threw THEN Abort(record, o.r)
               ELSE Goto("exit", record, o.r) /\ UNCHANGED at
     ELSE Goto("exit", record, screen) /\ UNCHANGED <<at, command>>
  /\ UNCHANGED <<fate, prepared, selected, ended, reported, answer, told, failed>>

\* Mutant: a failed write counts only under strict options.
ExitCodeLenient ==
  IF run.strict /\ (LocalWriteFailed \/ command = "failed") THEN 2 ELSE 0

\* resolveCheckExitCode
ExitCode ==
  CASE \/ run.strict /\ \E p \in Found : fate[p] = "error"
       \/ LocalWriteFailed
       \/ run.strict /\ command = "failed" -> 2
    [] OTHER -> IF run.strict /\ Updated # {} /\ ~run.write THEN 1 ELSE 0

Exit ==
  /\ pc = "exit"
  /\ FinalizeRun(record, screen, ExitCode, Executed)
  /\ UNCHANGED work

\* The error of a suspension that could not begin, while the cache is open.
Raise == pc = "raise" /\ Abort(record, screen) /\ UNCHANGED work

\* The scheduled frame: whenever the run waits.
Frame ==
  /\ pc # "done" /\ screen.pending
  /\ \E r \in FrameDue(screen, record) : screen' = r
  /\ UNCHANGED <<pc, run, count, at, record, cache, ret>> /\ UNCHANGED work

\* A signal: the screen is given back and the process ends.
Interrupt ==
  /\ run.visual /\ pc \notin {"start", "done"}
  /\ \E r \in Dispose(screen) : screen' = r
  /\ pc' = "done"
  /\ UNCHANGED <<run, count, at, record, cache, ret>> /\ UNCHANGED work

\* The command has returned, or the process is gone.
Done == pc = "done" /\ UNCHANGED vars

Next ==
  \/ Begin \/ Load \/ Inspect \/ Empty \/ Loaded \/ Launch \/ Resolve
  \/ ResolutionEnds \/ Prepare \/ Select \/ ApplyThrows \/ ApplyBlocked
  \/ ApplyBegins \/ ApplyEnds \/ Tell \/ Complete \/ CompletionEnds
  \/ PostWrite \/ Exit \/ Raise \/ Frame \/ Interrupt \/ Done

Spec == Init /\ [][Next]_vars

----------------------------------------------------------------------------
(* Properties *)

Returned == pc = "done" /\ ret # Null

\* afterPackageEnd is called once for every package whose preparation ended,
\* whatever hook, plan, apply or record fails after it; a run with a screen
\* may lose it, but never repeats it.
PackagesEndOnce ==
  /\ \A p \in Packages : ended[p] <= 1
  /\ Returned /\ ~run.visual => \A p \in PreparedSoFar : ended[p] = 1

\* Unless the screen failed or the record refused the engine's answer, the
\* record ends with the exit code of the command; and whatever happened, it
\* never says of a file the engine changed that it was not attempted.
RecordIsTrue ==
  Returned /\ run.recorded =>
    /\ told /\ screen.state # "failed" => record.exitCode = ret
    /\ \A p \in ChangedFiles \cap DOMAIN record.results :
         record.results[p].outcome # "not-attempted"

\* Exit code 0 of a write: every approved update was applied, its package told
\* and recorded; and the post-write command ran only after such an apply.
ZeroMeansDone ==
  LET applied == \A p \in Approved : Executed /\ answer.ops[p].status = "applied" IN
  /\ Returned /\ ret = 0 /\ run.write =>
       applied /\ reported = Approved /\ told /\ ~failed
  /\ command # "none" => applied

\* While others write to the terminal no frame is on it and none is scheduled;
\* and however the run ends, its renderer does not watch, has nothing
\* scheduled, and left no frame if the command succeeded.
ScreenIsGivenBack ==
  /\ screen.depth > 0 => ~screen.pending /\ ~screen.owned
  /\ pc = "done" /\ run.visual =>
       /\ ~screen.pending /\ ~screen.subscribed
       /\ ret \in {0, 1} => screen.state = "finalized" /\ ~screen.owned

\* plans/033-command-level-local-apply.md:296-299: after the apply returned,
\* every package is completed with its result, so that what was applied does
\* not disappear behind a later failure.
AppliedIsReported ==
  Returned => ChangedFiles \subseteq reported
=============================================================================
