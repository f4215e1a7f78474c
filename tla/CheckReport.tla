----------------------------- MODULE CheckReport -----------------------------
(***************************************************************************)
(* What a check run with `write` tells of the answer of an apply run: the  *)
(* events for its record (run-check.ts) and the receipt for its user       *)
(* (write-receipt.ts).                                                     *)
(*                                                                         *)
(* An answer is a record with the status and reason of every operation,    *)
(* the status of every phase ("none" if it never began), the recovery      *)
(* status, whether a journal was left, the targets whose replacement was   *)
(* attempted, and the target of every operation.                           *)
(***************************************************************************)
EXTENDS RunModel, Sequences

----------------------------------------------------------------------------
(* The events *)

PhaseCompleted(p, status) ==
  [type |-> "phase-completed", phase |-> p, status |-> status]
SelectionCompleted(owner) == [type |-> "selection-completed", owner |-> owner]
ResultsRecorded(owner, ops) ==
  [type |-> "results-recorded", operations |-> ops,
   targets |-> [t \in Targets(owner) |-> TargetOf(Members(owner, t), ops)]]
RecoveryRecorded(executed, status) ==
  [type |-> "recovery-recorded", executed |-> executed, status |-> status,
   paths |-> executed]
RunCompleted(exitCode) == [type |-> "run-completed", exitCode |-> exitCode]

Tried(a, o) == a.owner[o] \in a.attempted

\* operationModelResult
ModelResult(a, o) ==
  LET status == a.ops[o].status IN
  [outcome |-> IF status = "conflicted" THEN "blocked" ELSE status,
   blocked |-> status = "conflicted", notAttempted |-> ~Tried(a, o),
   unknown |-> status = "unknown", reason |-> a.ops[o].reason]

ModelResults(a) == [o \in DOMAIN a.ops |-> ModelResult(a, o)]

\* The instrumentation throws when the answer contradicts the attempts or hides
\* what an executed recovery did.
Reconciles(a) ==
  /\ \A o \in DOMAIN a.ops :
       /\ a.ops[o].status = "conflicted" => ~Tried(a, o)
       /\ a.ops[o].status = "applied" => Tried(a, o)
  /\ a.phases["recovery"] # "none" => a.recovery # "not-needed"

FoldedPhaseStatus(a, names) ==
  LET found == {a.phases[n] : n \in names} \ {"none"} IN
  CASE found = {} -> "skipped"
    [] "unknown" \in found -> "unknown"
    [] "failed" \in found /\ "unknown" \notin found -> "failed"
    [] "skipped" \in found /\ found \cap {"unknown", "failed"} = {} -> "skipped"
    [] OTHER -> "passed"

RecoveryPhaseStatus(status) ==
  CASE status = "completed" -> "passed" [] status = "partial" -> "failed"
    [] OTHER -> "unknown"

\* Git could not be asked, and nothing was begun: not a recovery problem.
CleanUnattemptedVcsUnknown(a) ==
  /\ a.phases["preflight"] = "unknown" /\ ~a.journal /\ a.attempted = {}
  /\ \A n \in DOMAIN a.phases \ {"preflight", "cleanup"} : a.phases[n] = "none"
  /\ a.phases["cleanup"] \in {"none", "passed"}
  /\ \A o \in DOMAIN a.ops :
       a.ops[o].status = "unknown" /\ a.ops[o].reason = "VCS_UNAVAILABLE"

RetainedCleanupEvidence(a) ==
  IF a.recovery = "unknown" /\ ~CleanUnattemptedVcsUnknown(a)
  THEN <<RecoveryRecorded(FALSE, "unknown")>> ELSE <<>>

\* Mutant: recovery evidence is recorded only when the recovery succeeded.
RecoveryEventsCompletedOnly(a) ==
  IF a.recovery = "completed"
  THEN <<RecoveryRecorded(TRUE, a.recovery), PhaseCompleted("recover", "passed")>>
  ELSE <<PhaseCompleted("recover", RecoveryPhaseStatus(a.recovery))>>

RecoveryEvents(a) ==
  <<RecoveryRecorded(TRUE, a.recovery),
    PhaseCompleted("recover", RecoveryPhaseStatus(a.recovery))>>

\* emitApplyPhases
ApplyPhaseEvents(a) ==
  LET conflicted == {o \in DOMAIN a.ops : a.ops[o].status = "conflicted"}
      preflight == IF a.phases["preflight"] = "failed" /\ conflicted # {}
                   THEN "blocked" ELSE a.phases["preflight"]
      folded == FoldedPhaseStatus(a, {"lock", "stage"})
      stage == IF folded = "failed" /\ conflicted = DOMAIN a.ops
               THEN "blocked" ELSE folded
      apply == FoldedPhaseStatus(a, {"precommit", "commit"})
      inspected == a.phases["inspect"] # "none"
      recovering == a.phases["recovery"] # "none"
      observe == IF inspected THEN <<PhaseCompleted("observe", a.phases["inspect"])>>
                 ELSE <<>>
      kept == RetainedCleanupEvidence(a) IN
  <<PhaseCompleted("preflight", preflight)>> \o
  CASE preflight # "passed" -> kept
    [] preflight = "passed" /\ stage = "skipped" ->
         <<[type |-> "stage-completed", observationRequired |-> inspected]>>
           \o observe \o kept
    [] preflight = "passed" /\ stage \notin {"passed", "skipped"} ->
         <<PhaseCompleted("stage", stage)>> \o kept
    [] preflight = "passed" /\ stage = "passed" /\ apply = "skipped" ->
         <<PhaseCompleted("stage", stage), PhaseCompleted("apply", apply)>>
           \o observe \o kept
    [] OTHER ->
         <<PhaseCompleted("stage", stage),
           [type |-> "apply-completed", status |-> apply,
            recoveryRequired |-> recovering, observationRequired |-> inspected]>>
           \o (IF recovering THEN RecoveryEvents(a) ELSE <<>>)
           \o observe \o (IF recovering THEN <<>> ELSE kept)

\* What an event makes of a record, if every event before it was accepted.
Emitted(acc, e) ==
  IF ~acc.ok \/ ~Accepts(acc.state, e) THEN [acc EXCEPT !.ok = FALSE]
  ELSE [acc EXCEPT !.state = Reduce(@, e)]

\* A record as far as it got, and whether every event was accepted.
Emit(s, events) ==
  LET after[i \in 0..Len(events)] ==
        IF i = 0 THEN [state |-> s, ok |-> TRUE] ELSE Emitted(after[i - 1], events[i])
  IN after[Len(events)]

\* The second half of emitLocalWriteResult and of emitVisualWriteResult, after
\* the selection.
ResultEvents(a) ==
  ApplyPhaseEvents(a) \o <<ResultsRecorded(a.owner, ModelResults(a))>>

EmitResult(s, a) ==
  IF Reconciles(a) THEN Emit(s, ResultEvents(a)) ELSE [state |-> s, ok |-> FALSE]

----------------------------------------------------------------------------
(* The receipt *)

BlockingStatus == {"conflicted", "failed", "unknown"}
Blocking(a) == {o \in DOMAIN a.ops : a.ops[o].status \in BlockingStatus}

\* Mutant: the receipt does not ask for cleanup and recovery.
RecoveryForgotten(a) == FALSE

\* hasRecoveryUncertainty
RecoveryUncertain(a) ==
  \/ a.phases["cleanup"] \in {"failed", "unknown", "skipped"} \/ a.journal
  \/ a.recovery \in {"completed", "partial"}
  \/ a.recovery = "unknown" /\
       ~(/\ Blocking(a) # {}
         /\ \A o \in Blocking(a) :
              ~Tried(a, o) /\ a.ops[o].reason \in Drift \cup {"VCS_UNAVAILABLE"})

NoFilesChanged(a) ==
  /\ \A o \in DOMAIN a.ops : a.ops[o].status \notin {"applied", "reverted"}
  /\ Blocking(a) # {} /\ \A o \in Blocking(a) : ~Tried(a, o)
  /\ ~RecoveryUncertain(a)

ReceiptVerdict(a) ==
  LET some(s) == \E o \in DOMAIN a.ops : a.ops[o].status = s IN
  CASE some("reverted") -> "partial"
    [] ~some("reverted") /\ Blocking(a) = {} -> "complete"
    [] ~some("reverted") /\ Blocking(a) # {} /\ some("applied") -> "partial"
    [] ~some("reverted") /\ ~some("applied") /\ NoFilesChanged(a) -> "safety-block"
    [] ~some("reverted") /\ ~some("applied") /\ Blocking(a) # {}
         /\ ~NoFilesChanged(a) -> IF some("unknown") THEN "unknown" ELSE "failed"

\* isBlockingWriteStatus for the exit code: a reverted write failed too.
WriteFailed(a) ==
  Blocking(a) # {} \/ \E o \in DOMAIN a.ops : a.ops[o].status = "reverted"
=============================================================================
