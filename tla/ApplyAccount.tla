---------------------------- MODULE ApplyAccount ----------------------------
(***************************************************************************)
(* `check --write`: the apply engine and what the check run tells of it.   *)
(* The command runs the engine on the files of a file-only plan every      *)
(* operation of which changes something, records its answer as events      *)
(* (CheckReport, RunModel), and prints a receipt.                          *)
(***************************************************************************)
EXTENDS ApplyEngine

Report == INSTANCE CheckReport

\* Each file stands for one operation on it.
Owner == [f \in Files |-> f]

\* The plan of a check run has no manager phases.
ChecksAnswer == result # NoResult /\ active = N /\ result.phases["manager"] = "none"

\* The engine's answer; a refusal is one of the lock, or one of the preflight,
\* which only the latter's phase shows.
Phases == {"preflight"} \cup PhaseName
LockRefused == result.phases["lock"] \in {"failed", "unknown"}
Answered(preflight, ph, ops) ==
  [ops |-> ops, phases |-> [n \in Phases |-> IF n = "preflight" THEN preflight ELSE ph[n]],
   recovery |-> result.recovery, journal |-> run, attempted |-> attempted,
   owner |-> Owner]
NoVcs == [f \in Files |-> [status |-> result.ops[f].status, reason |-> "VCS_UNAVAILABLE"]]
Readings ==
  {Answered("passed", result.phases, result.ops)}
    \cup (IF LockRefused
          THEN {Answered(result.phases["lock"], [n \in PhaseName |-> "none"], ops) :
                  ops \in {result.ops, NoVcs}}
          ELSE {})

\* The record of the run up to the engine's answer.
Before ==
  Report!Emit(Report!CreateCheckRunState(TRUE),
    <<[type |-> "packages-discovered", packages |-> N, declared |-> N],
      [type |-> "repository-inspection-completed", status |-> "passed"],
      [type |-> "resolution-completed", eligible |-> N, unresolved |-> 0,
       updates |-> N, status |-> "passed"],
      Report!SelectionCompleted(Owner)>>).state

\* The answers the record refuses: a file found changed beside others that were
\* replaced and are not all back; nothing replaced and a file that could not be
\* observed; a commit that lost the lock, whose recovery is not known to be
\* partial, and files that are told failed.
Refused(a) ==
  LET has(status, reason) == \E f \in Files : a.ops[f] = [status |-> status, reason |-> reason]
      conflicted == \E f \in Files : a.ops[f].status = "conflicted" IN
  \/ conflicted /\ a.recovery \in {"partial", "unknown"} /\ a.phases["commit"] # "none"
  \/ /\ a.attempted = {} /\ a.phases["preflight"] = "passed"
     /\ a.recovery = "not-needed" /\ has("unknown", "OBSERVATION_FAILED")
  \/ /\ a.phases["commit"] = "unknown" /\ a.recovery # "partial"
     /\ \E f \in Files : a.ops[f].status = "failed"

Accepted(a) ==
  LET told == Report!EmitResult(Before, a) IN
  told.ok /\ Report!Accepts(told.state,
               Report!RunCompleted(IF Report!WriteFailed(a) THEN 2 ELSE 0))

\* The record takes every event of every other answer the engine gives, and is
\* finalized with the exit code: emitVisualWriteResult and finalizeReadOnlyRun
\* throw in the cases above and never else.
AccountAccepted ==
  ChecksAnswer => \A a \in Readings : Accepted(a) <=> ~Refused(a)

\* The account of files that were changed is never thrown away:
\* docs/troubleshooting.md asks for the receipt first after a failed write.
EveryAccountAccepted ==
  ChecksAnswer => \A a \in Readings : Accepted(a)

\* The receipt's headline is true of the files nobody else touched: "no files
\* were changed" of a run that left nothing behind, "complete" of one that
\* replaced every file.
ReceiptIsTrue ==
  ChecksAnswer =>
    \A a \in Readings :
      /\ Report!NoFilesChanged(a) =>
           /\ \A f \in Files \ touched : file[f] = "orig"
           /\ \A f \in Files : stage[f] = "none" /\ backup[f] = "none"
           /\ ~run /\ lock \in {"none", "free"}
      /\ Report!ReceiptVerdict(a) = "complete" =>
           \A f \in Files \ touched : file[f] = "new"

\* The account of an apply is sound: the record takes it, and its headline is true.
AccountIsSound == AccountAccepted /\ ReceiptIsTrue
=============================================================================
