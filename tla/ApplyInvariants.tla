---------------------------- MODULE ApplyInvariants ----------------------------
(***************************************************************************)
(* What holds of every state of a run of the apply engine, beyond          *)
(* EngineInvariant: the parts of the inductive invariants that its answers *)
(* and the account of them rest on.  ApplyEngineProofs shows that they are *)
(* inductive, one after the other.                                         *)
(***************************************************************************)
EXTENDS ApplyAccount

----------------------------------------------------------------------------
(* What the commit leaves of the files                                    *)

\* Between a last look and its rename, what others put at the path is known to
\* be raced, and the backup is whole unless others changed it.
Looked ==
  pc \in {"replace", "restore"} =>
    /\ file[idx] \in External => idx \in raced
    /\ idx \notin tampered => backup[idx] = "ok"
    /\ pc = "restore" => idx \in attempted

\* What is at the path of a file nobody else touched comes from this run.
Untouched ==
  \A f \in Files \ touched :
    /\ file[f] \notin {"twin", "gone"}
    /\ f \notin attempted => file[f] = "orig"

\* Before cleanup the original bytes are somewhere; cleanup without success
\* starts only when they are at the path.
OriginalKept ==
  \A f \in Files \ touched :
    /\ exit = "none" /\ f \notin tampered =>
         file[f] \in {"orig", "restored"} \/ backup[f] = "ok"
    /\ exit \notin {"none", "success"} => file[f] \in {"orig", "restored"}

\* Why a run may clean up without having renamed anything.
Harmless == {"prepare", "unjournaled", "stage", "precommit", "zero"}

\* A run that ends harmlessly tried no rename.
NothingTried == exit \in Harmless => attempted = {}

\* The first layer.
FilesKept == Looked /\ Untouched /\ OriginalKept /\ NothingTried

----------------------------------------------------------------------------
(* What the run keeps in memory of them                                   *)

\* The run undoes what it did.
TurningBack == pc = "recovering" \/ pc \in Restoring \/ exit = "reverted"

\* Whoever recovers has tried a rename, and whoever is past a target has.
TriedBeforeRecovery ==
  /\ TurningBack => attempted # {}
  /\ pc = "check" /\ idx > 1 => attempted # {}
  /\ pc = "settle-replace" => attempted # {}

\* The outcomes kept until the answer stay true of the files meanwhile.
OutcomesRecorded ==
  /\ exit = "success" =>
       \A f \in Files \ touched : file[f] = IF f <= active THEN "new" ELSE "orig"
  /\ exit = "reverted" =>
       /\ recovery = "completed"
       /\ \A f \in Files :
            \/ outcome[f].status = "reverted"
            \/ outcome[f].status = "failed" /\ f \notin attempted
            \/ /\ outcome[f].status = "conflicted" /\ f \notin attempted
               /\ outcome[f].reason = err.reason /\ err.reason \in Conflict

\* Nothing is left of a target's temporary files.
Bare(t) == stage[t] = "none" /\ backup[t] = "none"

\* What is left on disk at each stretch of the run: what an answer without
\* recovery says is gone, is gone.
Tidy ==
  /\ \A t \in Files : t > active => Bare(t)
  /\ pc = "start" => lock = "none"
  /\ pc = "stage" => \A t \in Files : t >= idx => Bare(t)
  /\ pc \in Unstaged \cup {"fin-release", "released"}
       \/ exit \in {"prepare", "unjournaled"} =>
       ~run /\ disk = Empty
  /\ pc = "start" \/ exit = "prepare" \/ pc \in {"fin-journal", "released"} =>
       \A t \in Files : Bare(t)
  /\ pc = "fin-temp" /\ clean => \A t \in Files : t < idx => Bare(t)
  /\ pc = "fin-release" /\ clean => \A t \in Files : Bare(t)
  /\ pc = "released" => lock = "free"

\* Up to the last rename.
Forward == Early \cup {"check", "persist-replacing", "final-check", "replace",
                       "settle-replace"}

\* What the phases say of the run so far.
PhasesSay ==
  /\ pc \in Forward => phases["commit"] = "none"
  /\ pc \in Forward \cup {"observe"} \/ exit = "success" =>
       \A n \in PhaseName : phases[n] \notin {"failed", "unknown"}
  /\ TurningBack /\ err.reason \in Conflict => phases["commit"] = "failed"
  /\ pc = "inspect" /\ recovery = "completed" => phases["recovery"] = "passed"
  /\ exit = "reverted" =>
       phases["recovery"] = "passed" /\ phases["inspect"] = "passed"
  /\ pc = "start" => \A n \in PhaseName : phases[n] = "none"

\* The second layer.
AccountKept == TriedBeforeRecovery /\ OutcomesRecorded /\ Tidy /\ PhasesSay

\* The two layers and the answer's soundness, together with what the engine's
\* invariant says.
AnswersInvariant == EngineInvariant /\ FilesKept /\ AccountKept /\ ResultIsSound

----------------------------------------------------------------------------
(* The kinds of answers a check run gets                                  *)

Some(a, statuses) == \E f \in Files : a.ops[f].status \in statuses
Every(a, statuses) == \A f \in Files : a.ops[f].status \in statuses
NoneTried(a) == \A f \in Files : f \notin a.attempted

\* Every answer has its files, with a status and a reason for each.
Plain(a) ==
  /\ a.owner = Owner /\ DOMAIN a.ops = Files /\ a.attempted \subseteq Files
  /\ \A f \in Files : a.ops[f] = [status |-> a.ops[f].status, reason |-> a.ops[f].reason]

Begun(a, l, s, p, c, r, i) ==
  /\ a.phases["lock"] = l /\ a.phases["stage"] = s /\ a.phases["precommit"] = p
  /\ a.phases["commit"] = c /\ a.phases["recovery"] = r /\ a.phases["inspect"] = i

Each(a, status, reason) == \A f \in Files : a.ops[f] = [status |-> status, reason |-> reason]
Observed(a) ==
  \A f \in Files : \/ a.ops[f] = [status |-> "unknown", reason |-> "OBSERVATION_FAILED"]
                   \/ a.ops[f].status = "failed"

\* A run without files.
KindEmpty(a) ==
  /\ N = 0 /\ a.phases["preflight"] = "passed" /\ a.recovery = "not-needed"
  /\ Begun(a, "skipped", "none", "none", "none", "none", "passed")

\* Refused by the preflight.
KindBarred(a) ==
  /\ N > 0 /\ a.attempted = {}
  /\ Begun(a, "none", "none", "none", "none", "none", "none")
  /\ \/ /\ a.phases["preflight"] = "failed" /\ a.recovery = "not-needed"
        /\ Every(a, {"conflicted"})
     \/ /\ a.phases["preflight"] = "unknown" /\ a.recovery = "unknown"
        /\ Every(a, {"unknown"})

\* Refused by the lock, or given up while staging.
KindUnstaged(a) ==
  /\ N > 0 /\ a.attempted = {} /\ a.phases["preflight"] = "passed"
  /\ \/ /\ Begun(a, "failed", "none", "none", "none", "none", "none")
        /\ a.recovery = "not-needed" /\ Every(a, {"conflicted"})
     \/ /\ Begun(a, "unknown", "none", "none", "none", "none", "none")
        /\ a.recovery = "unknown" /\ Every(a, {"unknown"})
     \/ /\ Begun(a, "passed", "failed", "none", "none", "none", "none")
        /\ a.recovery \in {"not-needed", "unknown"} /\ Observed(a)

\* Given up before anything was replaced.
KindUntried(a) ==
  /\ N > 0 /\ a.attempted = {} /\ a.phases["preflight"] = "passed"
  /\ \E v \in {"failed", "unknown"} :
       /\ \/ Begun(a, "passed", "passed", v, "none", "none", "none")
          \/ Begun(a, "passed", "passed", "passed", v, "none", "none")
       /\ \/ a.recovery = "unknown" /\ Every(a, {"unknown"})
          \/ /\ a.recovery = "not-needed" /\ v = "unknown" /\ Every(a, {"unknown"})
             /\ \A f \in Files : a.ops[f].reason # "OBSERVATION_FAILED"
          \/ /\ a.recovery = "not-needed" /\ v = "failed"
             /\ Every(a, {"conflicted"}) \/ Observed(a)

\* Every file was replaced.
KindReplaced(a) ==
  /\ N > 0 /\ a.attempted = Files /\ a.phases["preflight"] = "passed"
  /\ Begun(a, "passed", "passed", "passed", "passed", "none", "passed")
  /\ \/ a.recovery = "not-needed" /\ Every(a, {"applied"})
     \/ a.recovery = "unknown" /\ Every(a, {"unknown"})

\* Turned back.
KindRecovered(a) ==
  /\ N > 0 /\ a.attempted # {} /\ a.phases["preflight"] = "passed"
  /\ \E c \in {"passed", "failed", "unknown"}, i \in {"passed", "unknown"} :
       /\ Begun(a, "passed", "passed", "passed", c, Report!RecoveryPhaseStatus(a.recovery), i)
       /\ i = "unknown" => Some(a, {"unknown"})
       /\ a.recovery = "completed" => c # "passed" /\ i = "passed"
       /\ a.recovery = "unknown" => Every(a, {"unknown"}) \/ c # "passed"
  /\ a.recovery \in {"completed", "partial", "unknown"}
  /\ \A f \in Files :
       /\ a.ops[f].status \in {"conflicted", "reverted", "failed", "unknown"}
       /\ a.ops[f].status = "conflicted" =>
            /\ f \notin a.attempted /\ a.ops[f].reason \in Conflict
            /\ a.phases["commit"] = "failed"
       /\ a.ops[f].status = "reverted" => f \in a.attempted
       /\ a.recovery = "completed" =>
            /\ a.ops[f].status # "unknown"
            /\ f \in a.attempted => a.ops[f].status = "reverted"

\* The kinds of answers a check run gets.
Known(a) ==
  /\ Plain(a)
  /\ \/ KindEmpty(a) \/ KindBarred(a) \/ KindUnstaged(a) \/ KindUntried(a)
     \/ KindReplaced(a) \/ KindRecovered(a)

----------------------------------------------------------------------------
(* What the course of a run tells of its answer                           *)

\* How far the run got, phase by phase.
Opened(ph, l, s, p) == ph["lock"] = l /\ ph["stage"] = s /\ ph["precommit"] = p
Went(ph, c, r, i) == ph["commit"] = c /\ ph["recovery"] = r /\ ph["inspect"] = i

\* A target the commit is past was tried, and is not what it was.
Renamed(k) == \A f \in 1..k : f \in attempted /\ file[f] \in {"new"} \cup External
Committing == {"check", "persist-replacing", "final-check", "replace"}
RenamedSoFar ==
  /\ pc \in Committing => Renamed(idx - 1)
  /\ pc = "settle-replace" => Renamed(idx)
  /\ pc = "observe" => Renamed(active)
  /\ exit = "success" => \A f \in 1..active : f \in attempted

\* A run that replaced every file and found one of them changed does not
\* recover completely.
Turned == {"recovering", "recover", "note-failure", "restore", "settle-restore", "inspect"}
Bad(k) == recovery \in {"partial", "unknown"} \/ \E f \in k..active : file[f] \in External
NotBack ==
  active = N /\ phases["manager"] = "none" /\ phases["commit"] = "passed" /\ TurningBack =>
    /\ \A f \in 1..active : f \in attempted
    /\ pc = "recovering" => \E f \in 1..active : file[f] \in External
    /\ pc = "recover" => Bad(idx)
    /\ pc \in {"restore", "settle-restore"} => Bad(idx + 1)
    /\ pc = "note-failure" \/ pc = "inspect" => recovery \in {"partial", "unknown"}
    /\ exit # "reverted"

\* The phases of a run without manager commands.
PhasesAre ==
  phases["manager"] = "none" =>
  /\ pc \in {"stage", "create-journal", "persist-staged"} =>
       Opened(phases, "passed", "none", "none") /\ Went(phases, "none", "none", "none")
  /\ pc = "precommit" =>
       Opened(phases, "passed", "passed", "none") /\ Went(phases, "none", "none", "none")
  /\ pc \in Committing \cup {"persist-committing", "settle-replace"} =>
       Opened(phases, "passed", "passed", "passed") /\ Went(phases, "none", "none", "none")
  /\ pc = "observe" =>
       Opened(phases, "passed", "passed", "passed") /\ Went(phases, "passed", "none", "none")
  /\ pc \in Turned \ {"inspect"} =>
       /\ Opened(phases, "passed", "passed", "passed")
       /\ \E c \in {"passed", "failed", "unknown"} : Went(phases, c, "none", "none")
  /\ pc = "inspect" =>
       /\ Opened(phases, "passed", "passed", "passed")
       /\ \E c \in {"passed", "failed", "unknown"} :
            Went(phases, c, Report!RecoveryPhaseStatus(recovery), "none")
  /\ exit \in {"unjournaled", "stage"} =>
       Opened(phases, "passed", "failed", "none") /\ Went(phases, "none", "none", "none")
  /\ exit = "precommit" =>
       /\ Opened(phases, "passed", "passed", Verdict(err.unknown))
       /\ Went(phases, "none", "none", "none")
  /\ exit = "zero" =>
       /\ Opened(phases, "passed", "passed", "passed")
       /\ Went(phases, Verdict(err.unknown), "none", "none")
  /\ exit = "success" =>
       Opened(phases, "passed", "passed", "passed") /\ Went(phases, "passed", "none", "passed")
  /\ exit = "reverted" =>
       /\ Opened(phases, "passed", "passed", "passed")
       /\ \E c \in {"passed", "failed", "unknown"} : Went(phases, c, "passed", "passed")
  /\ exit # "prepare" /\ ~manager.failed

\* What was turned back was tried.
RevertedWasTried ==
  exit = "reverted" => \A f \in Files : outcome[f].status = "reverted" => f \in attempted

CourseKept == RenamedSoFar /\ NotBack /\ PhasesAre /\ RevertedWasTried

\* What is answered is of a known kind.
AnswersKnown ==
  ChecksAnswer =>
    /\ \A a \in Readings : Known(a)
    /\ result.recovery = "unknown" => result.phases["cleanup"] = "unknown" \/ LockRefused
    /\ LockRefused => lock = "none" /\ ~run /\ attempted = {} /\ \A t \in Files : Bare(t)

AccountInvariant == AnswersInvariant /\ CourseKept /\ AnswersKnown
=============================================================================
