------------------------------ MODULE RunModel ------------------------------
(***************************************************************************)
(* The record of a check run (commands/check/run-model.ts): the reducer    *)
(* that every event of a run goes through.  It is pure: Accepts says which *)
(* events it takes and Reduce what they change; an event it does not take  *)
(* makes `emit` throw a CheckRunInvariantError in the caller.              *)
(*                                                                         *)
(* Identifiers, paths and free text are model values, so the checks of     *)
(* their spelling hold; what the changes say of a dependency is left out.  *)
(***************************************************************************)
EXTENDS Integers, FiniteSets

WritePhases == {"preflight", "stage", "apply", "observe", "recover"}
PhaseNames  == {"discover", "inspect", "resolve", "review", "complete"}
                 \cup WritePhases
Ends        == {"passed", "skipped", "blocked", "failed", "unknown"}
PhaseStatus == {"pending", "active"} \cup Ends

OperationOutcome == {"applied", "skipped", "blocked", "not-attempted",
                     "failed", "reverted", "unknown"}
RecoveryStatus   == {"not-needed", "completed", "partial", "unknown"}
FinalStatus      == {"passed", "blocked", "failed", "unknown"}
Drift == {"SOURCE_CHANGED", "STAGED_SOURCE_CHANGED", "BACKUP_SOURCE_CHANGED"}

\* A run that has no exit code yet.
Null == -1

NoCounts == [packages |-> 0, declared |-> 0, eligible |-> 0, unresolved |-> 0,
             updates |-> 0, operations |-> 0, targets |-> 0]

\* owner gives the target of every selected operation; events are the terminal
\* events taken so far.
CreateCheckRunState(write) ==
  [write |-> write,
   phases |-> [p \in PhaseNames |-> IF p = "discover" THEN "active" ELSE "pending"],
   counts |-> NoCounts, owner |-> <<>>, results |-> <<>>,
   recovery |-> [executed |-> FALSE, status |-> "not-needed"],
   exitCode |-> Null, events |-> {}]

----------------------------------------------------------------------------
(* Terminal events: each has an identifier, and may be repeated unchanged. *)

Unidentified == {"repository-inspection-started", "diagnostics-recorded"}
TerminalEventId(e) ==
  IF e.type = "phase-completed" THEN <<e.type, e.phase>> ELSE <<e.type, "">>

Repeats(s, e) ==
  e.type \notin Unidentified
    /\ \E d \in s.events : TerminalEventId(d) = TerminalEventId(e)
TerminalDuplicate(s, e) == e.type \notin Unidentified /\ e \in s.events

HasTerminalEvent(s, type) == \E d \in s.events : d.type = type

IsOpen(s) ==
  s.exitCode = Null /\ s.phases["complete"] \in {"pending", "active"}

----------------------------------------------------------------------------
(* Phases *)

\* finishWithoutMutation: whatever has not begun is skipped.
Finish(ph) ==
  [p \in PhaseNames |-> IF p = "complete" THEN "active"
                        ELSE IF ph[p] = "pending" THEN "skipped" ELSE ph[p]]

AdvanceFromReview(ph, write) ==
  IF write THEN [ph EXCEPT !["preflight"] = "active"] ELSE Finish(ph)

After == [discover |-> "inspect", inspect |-> "resolve", resolve |-> "review",
          preflight |-> "stage", stage |-> "apply", recover |-> "observe",
          observe |-> "complete"]

CompleteAndAdvance(ph, p, status, write) ==
  LET done == [ph EXCEPT ![p] = status] IN
  CASE p = "apply" /\ status \in {"passed", "skipped"} ->
         [done EXCEPT !["recover"] = "skipped", !["observe"] = "active"]
    [] p = "apply" /\ status \notin {"passed", "skipped"} ->
         [done EXCEPT !["recover"] = "active"]
    [] p = "review" /\ status = "passed" -> AdvanceFromReview(done, write)
    [] p \in {"recover", "observe"} \/ (p # "review" /\ p # "apply" /\ status = "passed") ->
         [done EXCEPT ![After[p]] = "active"]
    [] OTHER -> Finish(done)

\* An inspection still running when the resolution ends was skipped.
ActivateResolution(ph) ==
  IF ph["inspect"] = "active"
  THEN [ph EXCEPT !["inspect"] = "skipped", !["resolve"] = "active"] ELSE ph

ApplyEnded(ph, e) ==
  LET done == [ph EXCEPT !["apply"] = e.status] IN
  IF e.recoveryRequired THEN [done EXCEPT !["recover"] = "active"]
  ELSE IF e.observationRequired
  THEN [done EXCEPT !["recover"] = "skipped", !["observe"] = "active"]
  ELSE Finish(done)

StageSkipped(ph, e) ==
  LET done == [ph EXCEPT !["stage"] = "skipped", !["apply"] = "skipped",
                         !["recover"] = "skipped"] IN
  IF e.observationRequired THEN [done EXCEPT !["observe"] = "active"]
  ELSE Finish(done)

----------------------------------------------------------------------------
(* Results *)

\* A receipt may not say two things at once.
OperationAllowed(r, write) ==
  /\ r.outcome \in {"applied", "reverted"} =>
       ~r.blocked /\ ~r.notAttempted /\ ~r.unknown
  /\ r.outcome = "applied" => write
  /\ r.outcome = "failed" => ~r.blocked /\ ~r.unknown
  /\ r.outcome = "blocked" => r.blocked
  /\ r.outcome = "not-attempted" => r.notAttempted
  /\ r.outcome = "unknown" => r.unknown
  /\ r.blocked => r.notAttempted

TargetAllowed(r) ==
  /\ r.outcome = "applied" => ~r.blocked /\ ~r.notAttempted /\ ~r.unknown
  /\ r.outcome = "blocked" => r.blocked
  /\ r.outcome = "not-attempted" => r.notAttempted
  /\ r.outcome = "unknown" => r.unknown
  /\ r.blocked => r.notAttempted

Members(owner, t) == {o \in DOMAIN owner : owner[o] = t}
Targets(owner)    == {owner[o] : o \in DOMAIN owner}

\* What a target's members say of it.
TargetOf(members, ops) ==
  LET outcomes == {ops[o].outcome : o \in members} IN
  [outcome |-> IF Cardinality(outcomes) = 1 THEN CHOOSE x \in outcomes : TRUE
               ELSE "mixed",
   blocked |-> \E o \in members : ops[o].blocked,
   notAttempted |-> \E o \in members : ops[o].notAttempted,
   unknown |-> \E o \in members : ops[o].unknown]

\* Totals count receipts, not outcomes, for the last three.
Outcomes(ops, outcome) == {o \in DOMAIN ops : ops[o].outcome = outcome}
Blocked(ops)      == {o \in DOMAIN ops : ops[o].blocked}
NotAttempted(ops) == {o \in DOMAIN ops : ops[o].notAttempted}
Unknown(ops)      == {o \in DOMAIN ops : ops[o].unknown}

NoObservationApplyFailure(ph) ==
  /\ ph["apply"] \in {"failed", "unknown"}
  /\ ph["preflight"] = "passed" /\ ph["stage"] = "passed"
  /\ ph["observe"] = "skipped" /\ ph["recover"] = "skipped"
NoObservationEarlyFailure(ph) ==
  /\ ph["apply"] = "skipped" /\ ph["preflight"] = "passed"
  /\ ph["stage"] \in {"blocked", "failed", "unknown"}
  /\ ph["observe"] = "skipped" /\ ph["recover"] = "skipped"
ZeroMutation(ph) ==
  NoObservationApplyFailure(ph) \/ NoObservationEarlyFailure(ph)

RetainedUnknown(s) ==
  /\ HasTerminalEvent(s, "recovery-recorded") /\ ~s.recovery.executed
  /\ s.recovery.status = "unknown"

\* A conflict found while others were already replaced, all put back.
RecoveredConflict(s, ops) ==
  /\ s.recovery.status = "completed" /\ Outcomes(ops, "reverted") # {}
  /\ Outcomes(ops, "blocked") # {}
  /\ \A o \in Outcomes(ops, "blocked") :
       ops[o].notAttempted /\ ops[o].blocked /\ ops[o].reason \in Drift

\* Nothing was replaced: every result is one of an operation never tried.
ZeroMutationCoherent(ph, ops) ==
  ZeroMutation(ph) =>
    /\ NotAttempted(ops) = DOMAIN ops
    /\ \A o \in DOMAIN ops : ops[o].outcome \in {"blocked", "failed", "unknown"}

AppliedCoherent(s, ops) ==
  IF RetainedUnknown(s)
  THEN /\ Unknown(ops) = DOMAIN ops /\ Outcomes(ops, "applied") = {}
       /\ \A o \in DOMAIN ops : ~ops[o].blocked /\ ~ops[o].notAttempted
       /\ Outcomes(ops, "failed") = {} /\ Outcomes(ops, "reverted") = {}
  ELSE /\ \A o \in DOMAIN ops :
            /\ ops[o].outcome \in {"applied", "skipped"}
            /\ ~ops[o].blocked /\ ~ops[o].notAttempted /\ ~ops[o].unknown
       /\ s.recovery.status = "not-needed"

SkippedCoherent(ph, ops) ==
  ph["apply"] = "skipped" /\ ~ZeroMutation(ph) =>
    LET causes == {p \in {"preflight", "stage"} : ph[p] \notin {"passed", "skipped"}}
        cause == IF "preflight" \in causes THEN ph["preflight"]
                 ELSE IF causes # {} THEN ph["stage"] ELSE "passed" IN
    /\ \A o \in DOMAIN ops :
         ops[o].outcome \notin {"applied", "reverted", "failed"}
    /\ NotAttempted(ops) = DOMAIN ops
    /\ cause = "blocked" => Blocked(ops) = DOMAIN ops
    /\ cause = "unknown" => Unknown(ops) = DOMAIN ops

RecoveryCoherent(s, ops, targets) ==
  LET ph == s.phases
      conflict == RecoveredConflict(s, ops)
      kept == RetainedUnknown(s) /\ ph["recover"] = "skipped"
      Forbidden(r) == \/ r.outcome = "blocked" /\ ~conflict
                      \/ r.outcome \in {"not-attempted", "unknown"}
                      \/ /\ r.notAttempted /\ r.outcome # "failed"
                         /\ ~(conflict /\ r.outcome = "blocked") IN
  /\ IF ph["recover"] = "skipped"
     THEN ~s.recovery.executed /\ (kept \/ s.recovery.status = "not-needed")
     ELSE HasTerminalEvent(s, "recovery-recorded") /\ s.recovery.executed
  /\ s.recovery.status = "partial" =>
       /\ ph["recover"] = "failed"
       /\ \E o \in DOMAIN ops :
            ops[o].outcome \in {"reverted", "failed", "unknown"}
  /\ s.recovery.status = "unknown" => ph["recover"] = "unknown" \/ kept
  /\ s.recovery.status = "completed" =>
       /\ ph["recover"] = "passed"
       /\ Outcomes(ops, "applied") = {} /\ Outcomes(ops, "skipped") = {}
       /\ Unknown(ops) = {} /\ (Blocked(ops) # {} => conflict)
       /\ \A o \in DOMAIN ops : ops[o].notAttempted =>
            ops[o].outcome = "failed" \/ (conflict /\ ops[o].outcome = "blocked")
       /\ \A t \in DOMAIN targets :
            targets[t].outcome # "applied" /\ ~Forbidden(targets[t])

\* assertResultPhaseCoherence: the results fit the phases the run went through.
ResultsFitPhases(s, ops, targets) ==
  LET ph == s.phases
      acts == {ph[p] : p \in WritePhases}
      recorded == HasTerminalEvent(s, "recovery-recorded") IN
  /\ ZeroMutationCoherent(ph, ops)
  /\ Outcomes(ops, "reverted") # {} =>
       ph["apply"] # "skipped" /\ ph["recover"] # "skipped" /\ recorded
  /\ IF ph["apply"] = "passed" /\ ph["observe"] = "passed" /\ ph["recover"] = "skipped"
     THEN AppliedCoherent(s, ops)
     ELSE /\ SkippedCoherent(ph, ops)
          /\ Outcomes(ops, "applied") # {} => ph["recover"] # "skipped" /\ recorded
          /\ Blocked(ops) # {} =>
               \/ "blocked" \in {ph["preflight"], ph["stage"], ph["apply"]}
               \/ ZeroMutation(ph) \/ RecoveredConflict(s, ops)
          /\ Outcomes(ops, "failed") # {} =>
               "failed" \in acts \/ s.recovery.status = "partial"
          /\ Unknown(ops) # {} =>
               \/ "unknown" \in acts \/ Blocked(ops) # {}
               \/ s.recovery.status \in {"partial", "unknown"}
          /\ RecoveryCoherent(s, ops, targets)
          /\ ph["observe"] = "unknown" => Unknown(ops) # {}
          /\ ph["observe"] = "failed" =>
               Outcomes(ops, "failed") # {} \/ Unknown(ops) # {}

\* copyAndValidateResults: every selected operation and target, once, and each
\* target says what its operations say.
ResultsAllowed(s, e) ==
  /\ \A o \in DOMAIN e.operations : OperationAllowed(e.operations[o], s.write)
  /\ DOMAIN e.operations = DOMAIN s.owner
  /\ DOMAIN e.targets = Targets(s.owner)
  /\ \A t \in DOMAIN e.targets :
       /\ TargetAllowed(e.targets[t])
       /\ e.targets[t] = TargetOf(Members(s.owner, t), e.operations)
  /\ ResultsFitPhases(s, e.operations, e.targets)

----------------------------------------------------------------------------
(* The end *)

Rank == [passed |-> 0, blocked |-> 1, failed |-> 2, unknown |-> 3]
Worst(statuses) == CHOOSE x \in statuses : \A y \in statuses : Rank[x] >= Rank[y]

FinalStatusOf(s, exitCode) ==
  LET ops == s.results
      bad == {"passed"}
        \cup ({s.phases[p] : p \in PhaseNames} \cap {"blocked", "failed", "unknown"})
        \cup (IF \E p \in {"discover", "resolve", "review"} : s.phases[p] = "skipped"
              THEN {"unknown"} ELSE {})
        \cup (IF Blocked(ops) # {} THEN {"blocked"} ELSE {})
        \cup (IF Outcomes(ops, "failed") # {} THEN {"failed"} ELSE {})
        \cup (IF Unknown(ops) # {} THEN {"unknown"} ELSE {})
        \cup (IF s.write /\ \E o \in NotAttempted(ops) : ops[o].outcome # "skipped"
              THEN {"blocked"} ELSE {})
        \cup (IF Outcomes(ops, "reverted") # {} THEN {"failed"} ELSE {})
        \cup (CASE s.recovery.status = "partial" -> {"failed"}
                [] s.recovery.status = "unknown" -> {"unknown"}
                [] OTHER -> {}) IN
  IF exitCode = 2 /\ Worst(bad) = "passed" THEN "failed" ELSE Worst(bad)

----------------------------------------------------------------------------
(* The reducer *)

\* Counts only grow, and later ones are bounded by earlier ones.
ResolutionAllowed(s, e) ==
  /\ ActivateResolution(s.phases)["resolve"] = "active"
  /\ e.eligible >= s.counts.eligible /\ e.unresolved >= s.counts.unresolved
  /\ e.updates >= s.counts.updates
  /\ e.eligible <= s.counts.declared /\ e.updates + e.unresolved <= e.eligible

SelectionAllowed(s, e) ==
  /\ Cardinality(DOMAIN e.owner) >= s.counts.operations
  /\ Cardinality(Targets(e.owner)) >= s.counts.targets
  /\ Cardinality(DOMAIN e.owner) <= s.counts.updates
  /\ s.phases["review"] = "active"

\* phase-completed: success of discover, resolve and review needs its facts.
PhaseAllowed(s, e) ==
  /\ e.phase # "complete"
  /\ ~(e.status = "passed" /\ e.phase \in {"discover", "resolve", "review"})
  /\ ~(e.phase = "stage" /\ e.status = "skipped" /\ s.counts.operations > 0)
  /\ IF e.phase = "resolve" THEN ActivateResolution(s.phases)["resolve"] = "active"
     ELSE s.phases[e.phase] = "active"

ApplyAllowed(s, e) ==
  /\ e.status \notin {"blocked", "skipped"}
  /\ e.recoveryRequired \/ e.status = "passed" => e.observationRequired
  /\ s.phases["apply"] = "active"

RecoveryAllowed(s, e) ==
  /\ s.phases["recover"] = IF e.executed THEN "active" ELSE "skipped"
  /\ e.status # "not-needed"
  /\ ~e.executed => e.status = "unknown" /\ ~e.paths

CompletionAllowed(s, e) ==
  /\ s.phases["complete"] = "active"
  /\ HasTerminalEvent(s, "results-recorded")
  /\ ~(e.exitCode = 1 /\ s.write)
  /\ e.exitCode \in {0, 1} => FinalStatusOf(s, e.exitCode) = "passed"

Accepts(s, e) ==
  IF Repeats(s, e) THEN TerminalDuplicate(s, e)
  ELSE IsOpen(s) /\
    CASE e.type = "packages-discovered" ->
           /\ s.phases["discover"] = "active"
           /\ e.packages >= s.counts.packages /\ e.declared >= s.counts.declared
      [] e.type \in {"repository-inspection-started",
                     "repository-inspection-completed"} ->
           s.phases["inspect"] = "active"
      [] e.type = "resolution-completed" -> ResolutionAllowed(s, e)
      [] e.type = "selection-completed" -> SelectionAllowed(s, e)
      [] e.type = "phase-completed" -> PhaseAllowed(s, e)
      [] e.type = "stage-completed" ->
           /\ s.phases["stage"] = "active"
           /\ s.counts.operations > 0 => e.observationRequired
      [] e.type = "apply-completed" -> ApplyAllowed(s, e)
      [] e.type = "diagnostics-recorded" -> TRUE
      [] e.type = "results-recorded" ->
           s.phases["complete"] = "active" /\ ResultsAllowed(s, e)
      [] e.type = "recovery-recorded" -> RecoveryAllowed(s, e)
      [] e.type = "run-completed" -> CompletionAllowed(s, e)

Changed(s, e) ==
  LET ph == s.phases IN
  CASE e.type = "packages-discovered" ->
         [s EXCEPT !.phases = CompleteAndAdvance(ph, "discover", "passed", s.write),
                   !.counts.packages = e.packages, !.counts.declared = e.declared]
    [] e.type = "repository-inspection-completed" ->
         [s EXCEPT !.phases = CompleteAndAdvance(ph, "inspect", e.status, s.write)]
    [] e.type = "resolution-completed" ->
         [s EXCEPT !.phases = CompleteAndAdvance(ActivateResolution(ph), "resolve",
                                                 e.status, s.write),
                   !.counts.eligible = e.eligible, !.counts.updates = e.updates,
                   !.counts.unresolved = e.unresolved]
    [] e.type = "selection-completed" ->
         [s EXCEPT !.phases = AdvanceFromReview([ph EXCEPT !["review"] = "passed"],
                                                s.write),
                   !.counts.operations = Cardinality(DOMAIN e.owner),
                   !.counts.targets = Cardinality(Targets(e.owner)),
                   !.owner = e.owner]
    [] e.type = "phase-completed" ->
         [s EXCEPT !.phases = CompleteAndAdvance(
            IF e.phase = "resolve" THEN ActivateResolution(ph) ELSE ph,
            e.phase, e.status, s.write)]
    [] e.type = "stage-completed" -> [s EXCEPT !.phases = StageSkipped(ph, e)]
    [] e.type = "apply-completed" -> [s EXCEPT !.phases = ApplyEnded(ph, e)]
    [] e.type = "results-recorded" -> [s EXCEPT !.results = e.operations]
    [] e.type = "recovery-recorded" ->
         [s EXCEPT !.recovery = [executed |-> e.executed, status |-> e.status]]
    [] e.type = "run-completed" ->
         [s EXCEPT !.phases["complete"] = FinalStatusOf(s, e.exitCode),
                   !.exitCode = e.exitCode]
    [] OTHER -> s

\* reduceCheckRun, for an event it accepts.
Reduce(s, e) ==
  IF TerminalDuplicate(s, e) THEN s
  ELSE IF e.type \in Unidentified THEN Changed(s, e)
  ELSE [Changed(s, e) EXCEPT !.events = @ \cup {e}]
=============================================================================
