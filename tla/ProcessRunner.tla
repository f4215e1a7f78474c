--------------------------- MODULE ProcessRunner ---------------------------
(***************************************************************************)
(* One call of runResolvedProcess (commands/apply/process-runner.ts): a    *)
(* command is spawned as the leader of a process group of its own, with a  *)
(* marker in its environment, and supervised until it and whatever it      *)
(* started have stopped or the call has to say that it does not know.      *)
(*                                                                         *)
(* The processes run concurrently with the supervisor: they fork, leave    *)
(* the group, drop the marker, close or keep the output pipe, ignore       *)
(* SIGTERM and exit between any two of its steps.  SIGTERM is no step of   *)
(* its own, since a process may exit at any time; SIGKILL is.  Reading     *)
(* /proc is not atomic: the directory is listed, then entry after entry is *)
(* read.                                                                   *)
(***************************************************************************)

CONSTANTS
  Procs,    \* process identities
  Child,    \* the one that is spawned
  Session,  \* a process of the same user that was there before, as this one
  Pid1,     \* init
  Reaper    \* who adopts orphans: init, or a session manager

ASSUME RunnerAssumption ==
  /\ Child \in Procs
  /\ Session \notin Procs /\ Pid1 \notin Procs /\ Session # Pid1
  /\ Reaper \in {Session, Pid1}

VARIABLES
  stage,    \* where the supervisor is
  state,    \* of each process that was not there before the spawn; a dying one
            \* runs no more code and is not yet reaped
  group,    \* its process group: the child's, a new one, or an older one
  token,    \* the processes that have the marker in their environment
  pipe,     \* the processes that hold the command's output
  kin,      \* the processes the command started, itself included
  parent,   \* the parent of each process
  flags,    \* the local booleans of runResolvedProcess that are set
  todo,     \* entries of /proc that are listed and not yet read
  current,  \* finalProcesses: the processes read, with group and parent
  escaped,  \* the processes whose environment shows the marker
  present,  \* history: the command's processes alive when /proc was listed
  answer    \* the observation

processes == <<state, group, token, pipe, kin, parent>>
evidence == <<todo, current, escaped, present>>
runnerVars == <<stage, processes, flags, evidence, answer>>

Group == {"child", "own", "base"}
Parent == Procs \cup {Session, Pid1}
Flag == {"timedOut", "outputExceeded", "spawnError", "closed",
         "descendants", "groupSurvived", "unconfirmed"}
Observation == [termination : {"exit", "signal", "timeout", "unavailable",
                               "unknown"},
                reason : {"exited", "start-failed", "descendants", "output",
                          "timeout", "supervision", "changed"},
                confirmed : BOOLEAN]
NoAnswer == [termination |-> "none", reason |-> "none", confirmed |-> FALSE]
Seen == [group : Group, parent : Parent]

Exists(p) == state[p] \in {"alive", "dying"}
Alive(p)  == state[p] = "alive"
Existing  == {p \in Procs : Exists(p)}
GroupExists == \E p \in Procs : Exists(p) /\ group[p] = "child"

RunnerTypeOK ==
  /\ stage \in {"start", "waiting", "grace", "confirm", "census", "reading",
             "scanning", "escaped", "probe", "answered"}
  /\ state \in [Procs -> {"none", "alive", "dying", "gone"}]
  /\ group \in [Procs -> Group]
  /\ token \subseteq Procs /\ pipe \subseteq Procs /\ kin \subseteq Procs
  /\ parent \in [Procs -> Parent]
  /\ flags \subseteq Flag
  /\ todo \subseteq Procs /\ escaped \subseteq Procs /\ present \subseteq Procs
  /\ DOMAIN current \subseteq Procs
  /\ \A p \in DOMAIN current : current[p] \in Seen
  /\ answer \in Observation \cup {NoAnswer}
  /\ (answer = NoAnswer) = (stage # "answered")

RunnerInit ==
  /\ stage = "start"
  /\ state = [p \in Procs |-> "none"]
  /\ group = [p \in Procs |-> "own"]
  /\ token = {} /\ pipe = {} /\ kin = {}
  /\ parent = [p \in Procs |-> Pid1]
  /\ flags = {}
  /\ todo = {} /\ escaped = {} /\ present = {}
  /\ current = [p \in {} |-> 0]
  /\ answer = NoAnswer

Say(termination, reason, confirmed) ==
  /\ stage' = "answered"
  /\ answer' = [termination |-> termination, reason |-> reason,
                confirmed |-> confirmed]

Raise(raised) == flags' = flags \cup raised
If(condition, flag) == IF condition THEN {flag} ELSE {}

----------------------------------------------------------------------------
(* The supervisor *)

\* The executable changed, the platform cannot be observed, the baseline could
\* not be taken, or spawn threw.
Decline ==
  /\ stage = "start"
  /\ \E reason \in {"changed", "supervision", "start-failed"} :
       Say("unavailable", reason, TRUE)
  /\ UNCHANGED <<processes, flags, evidence>>

Spawn ==
  /\ stage = "start"
  /\ stage' = "waiting"
  /\ state' = [state EXCEPT ![Child] = "alive"]
  /\ group' = [group EXCEPT ![Child] = "child"]
  /\ parent' = [parent EXCEPT ![Child] = Session]
  /\ token' = {Child} /\ pipe' = {Child} /\ kin' = {Child}
  /\ UNCHANGED <<flags, evidence, answer>>

\* spawn returns a child without a pid and emits 'error'.
SpawnError ==
  /\ stage = "start"
  /\ stage' = "waiting"
  /\ Raise({"spawnError"})
  /\ UNCHANGED <<processes, evidence, answer>>

\* Mutant: the timer asks only whether the child is still there.
TimeoutOfChild ==
  /\ stage = "waiting"
  /\ Exists(Child)
  /\ Raise({"timedOut"})
  /\ stage' = "grace"
  /\ UNCHANGED <<processes, evidence, answer>>

Timeout ==
  /\ stage = "waiting"
  /\ Raise({"timedOut"})
  /\ stage' = "grace"
  /\ UNCHANGED <<processes, evidence, answer>>

\* More output than the limit, while somebody holds the pipe: before the first
\* event it triggers termination, later it only changes what is answered.
Overflow ==
  /\ stage \notin {"start", "answered"}
  /\ "outputExceeded" \notin flags
  /\ \E p \in Procs : Alive(p) /\ p \in pipe
  /\ Raise({"outputExceeded"})
  /\ stage' = IF stage = "waiting" THEN "grace" ELSE stage
  /\ UNCHANGED <<processes, evidence, answer>>

\* 'close': the child was reaped and nobody holds its output any more.  When
\* the group still has members they are given their grace period as well.
Close ==
  /\ stage = "waiting"
  /\ ~ Exists(Child)
  /\ \A p \in Procs : Exists(p) => p \notin pipe
  /\ Raise({"closed"} \cup If(GroupExists, "descendants"))
  /\ stage' = IF GroupExists THEN "grace" ELSE "census"
  /\ UNCHANGED <<processes, evidence, answer>>

Kill(victims) ==
  /\ state' = [p \in Procs |-> IF p \in victims /\ Exists(p) THEN "dying"
                               ELSE state[p]]
  /\ UNCHANGED <<group, token, pipe, kin, parent>>

\* Mutant: only the child itself is killed.
KillChild ==
  /\ stage = "grace"
  /\ Kill({Child})
  /\ stage' = "confirm"
  /\ UNCHANGED <<flags, evidence, answer>>

\* terminateProcessGroup(child.pid, 'SIGKILL') after the grace period.
KillGroup ==
  /\ stage = "grace"
  /\ Kill({p \in Procs : group[p] = "child"})
  /\ stage' = "confirm"
  /\ UNCHANGED <<flags, evidence, answer>>

\* confirmProcessGroupStopped: some attempt finds no group, or all find one.
Confirm ==
  /\ stage = "confirm"
  /\ Raise(If(GroupExists, "unconfirmed"))
  /\ stage' = "census"
  /\ UNCHANGED <<processes, evidence, answer>>

\* snapshotUserProcesses, the listing.
Census ==
  /\ stage = "census"
  /\ todo' = Existing
  /\ present' = {p \in kin : Alive(p)}
  /\ stage' = "reading"
  /\ UNCHANGED <<processes, flags, current, escaped, answer>>

\* One entry's stat, unless the process is gone by now.
ReadStat(p) ==
  /\ stage = "reading" /\ p \in todo
  /\ todo' = todo \ {p}
  /\ current' = IF Exists(p)
                THEN [q \in DOMAIN current \cup {p} |->
                        IF q = p THEN [group |-> group[p], parent |-> parent[p]]
                        ELSE current[q]]
                ELSE current
  /\ UNCHANGED <<stage, processes, flags, escaped, present, answer>>

\* processesWithEnvironmentToken, the listing.
Scan ==
  /\ stage = "reading" /\ todo = {}
  /\ todo' = Existing
  /\ stage' = "scanning"
  /\ UNCHANGED <<processes, flags, current, escaped, present, answer>>

\* One entry's environ; that of a dying process may be empty already.
ReadEnviron(p) ==
  /\ stage = "scanning" /\ p \in todo
  /\ todo' = todo \ {p}
  /\ \/ Exists(p) /\ p \in token /\ escaped' = escaped \cup {p}
     \/ ~ (Alive(p) /\ p \in token) /\ UNCHANGED escaped
  /\ UNCHANGED <<stage, processes, flags, current, present, answer>>

\* One of the two observers fails.
ObserverFails ==
  /\ stage \in {"census", "reading", "scanning"}
  /\ Say("unknown", "supervision", FALSE)
  /\ UNCHANGED <<processes, flags, evidence>>

\* isSupervisionTokenSurvivor: not the child, nor a stale member of its group.
TokenSurvivor(p) ==
  \/ "spawnError" \in flags \/ GroupExists
  \/ p # Child /\ (p \in DOMAIN current => current[p].group # "child")

\* Is the group still there?  Which carriers of the marker are survivors?
Judge ==
  /\ stage = "scanning" /\ todo = {}
  /\ escaped' = {p \in escaped : TokenSurvivor(p)}
  /\ Raise(If(GroupExists, "groupSurvived") \cup If(GroupExists, "unconfirmed")
             \cup If(GroupExists \/ escaped' # {}, "descendants"))
  /\ stage' = IF escaped' = {} THEN "probe" ELSE "escaped"
  /\ UNCHANGED <<processes, todo, current, present, answer>>

\* SIGKILL to each of them after the grace period.
KillEscaped ==
  /\ stage = "escaped"
  /\ Kill(escaped)
  /\ stage' = "probe"
  /\ UNCHANGED <<flags, evidence, answer>>

\* A set of processes that contains the parents of its members, as the
\* snapshot shows them.
ClosedUnderParents(S) ==
  \A q \in DOMAIN current : q \in S => current[q].parent \in S

\* hasBaselineAncestor: following the parents from p leads to the session.
HasBaselineAncestor(p) ==
  \A S \in SUBSET (Procs \cup {Session, Pid1}) :
    current[p].parent \in S /\ ClosedUnderParents(S) => Session \in S

\* isUnattributedProcessSurvivor.  None of Procs is in the baseline.
Unattributed(p) ==
  /\ p # Child /\ p \notin escaped
  /\ current[p].group # "base"
  /\ ~ HasBaselineAncestor(p)
  /\ current[p].group = "child" => "groupSurvived" \in flags

\* The order of the answers: the last part of runResolvedProcess.
Answer(descendants, confirmed) ==
  IF "spawnError" \in flags THEN Say("unavailable", "start-failed", confirmed)
  ELSE IF descendants THEN Say("unknown", "descendants", confirmed)
  ELSE IF "outputExceeded" \in flags THEN Say("unknown", "output", confirmed)
  ELSE IF "timedOut" \in flags THEN Say("timeout", "timeout", confirmed)
  ELSE \E end \in {"exit", "signal"} : Say(end, "exited", TRUE)

\* Mutant: killed is taken for gone.
ProbeHopefully ==
  /\ stage = "probe"
  /\ LET strange == \E p \in DOMAIN current : Unattributed(p)
     IN  Answer("descendants" \in flags \/ strange, "unconfirmed" \notin flags)
  /\ UNCHANGED <<processes, flags, evidence>>

\* The killed survivors are probed, the rest of the snapshot is judged, and the
\* call answers.
Probe ==
  /\ stage = "probe"
  /\ LET strange == \E p \in DOMAIN current : Unattributed(p)
         dead == \A p \in escaped : ~ Exists(p)
     IN  Answer("descendants" \in flags \/ strange,
                "unconfirmed" \notin flags /\ dead /\ ~ strange)
  /\ UNCHANGED <<processes, flags, evidence>>

----------------------------------------------------------------------------
(* The processes *)

\* They run until the call answers, whatever the supervisor does.
Meanwhile == /\ stage \notin {"start", "answered"}
             /\ UNCHANGED <<stage, flags, evidence, answer>>

Fork(p, q) ==
  /\ Meanwhile
  /\ Alive(p) /\ p \in kin /\ state[q] = "none"
  /\ state' = [state EXCEPT ![q] = "alive"]
  /\ group' = [group EXCEPT ![q] = group[p]]
  /\ parent' = [parent EXCEPT ![q] = p]
  /\ token' = IF p \in token THEN token \cup {q} ELSE token
  /\ pipe' = IF p \in pipe THEN pipe \cup {q} ELSE pipe
  /\ kin' = kin \cup {q}

\* setsid or setpgid; the child leads its session and cannot leave its group.
Detach(p) ==
  /\ Meanwhile
  /\ p # Child /\ Alive(p) /\ group[p] = "child"
  /\ group' = [group EXCEPT ![p] = "own"]
  /\ UNCHANGED <<state, token, pipe, kin, parent>>

\* exec with another environment.
Strip(p) ==
  /\ Meanwhile
  /\ Alive(p) /\ p \in token
  /\ token' = token \ {p}
  /\ UNCHANGED <<state, group, pipe, kin, parent>>

CloseOutput(p) ==
  /\ Meanwhile
  /\ Exists(p) /\ p \in pipe
  /\ pipe' = pipe \ {p}
  /\ UNCHANGED <<state, group, token, kin, parent>>

Exit(p) ==
  /\ Meanwhile
  /\ Alive(p)
  /\ state' = [state EXCEPT ![p] = "dying"]
  /\ UNCHANGED <<group, token, pipe, kin, parent>>

\* The process is reaped; its children are adopted.
Vanish(p) ==
  /\ Meanwhile
  /\ state[p] = "dying"
  /\ state' = [state EXCEPT ![p] = "gone"]
  /\ group' = [group EXCEPT ![p] = "own"]
  /\ token' = token \ {p} /\ pipe' = pipe \ {p}
  /\ parent' = [q \in Procs |-> IF Exists(q) /\ q # p /\ parent[q] = p
                                THEN Reaper ELSE parent[q]]
  /\ UNCHANGED kin

\* A process that has nothing to do with the command starts, in a group that
\* was there before or in one of its own, under this session or under init.
Appear(p) ==
  /\ Meanwhile
  /\ p # Child /\ state[p] = "none"
  /\ state' = [state EXCEPT ![p] = "alive"]
  /\ \E g \in {"own", "base"} : group' = [group EXCEPT ![p] = g]
  /\ \E q \in {Session, Pid1} : parent' = [parent EXCEPT ![p] = q]
  /\ UNCHANGED <<token, pipe, kin>>

Supervisor ==
  \/ Decline \/ Spawn \/ SpawnError \/ Timeout \/ Close \/ KillGroup \/ Confirm
  \/ Census \/ Scan \/ ObserverFails \/ Judge \/ KillEscaped \/ Probe
  \/ \E p \in Procs : ReadStat(p) \/ ReadEnviron(p)

Processes ==
  \/ Overflow
  \/ \E p \in Procs : \/ Detach(p) \/ Strip(p) \/ CloseOutput(p) \/ Exit(p)
                       \/ Vanish(p) \/ Appear(p)
                       \/ \E q \in Procs : Fork(p, q)

RunnerNext == Supervisor \/ Processes

RunnerSpec == RunnerInit /\ [][RunnerNext]_runnerVars

\* The supervisor's waits are timers, system calls, and an observer on macOS
\* that is taken to end.  The processes owe nothing.
FairRunnerSpec == RunnerSpec /\ WF_runnerVars(Supervisor)

----------------------------------------------------------------------------
(* Properties *)

\* When the observation says that termination is confirmed, nothing that the
\* command had running when the census began is still there, whether it stayed
\* in the group, left it, or dropped the marker on the way.  (With a session
\* manager as the adopter this fails: see StrippedIsUnconfirmed.)
ConfirmedMeansGone ==
  answer # NoAnswer =>
    (answer.confirmed => \A p \in present : ~ Exists(p))

\* Whatever the call answers, no member of the command's process group is left
\* running: a timeout, too much output and a child that leaves others behind
\* all end with a kill of the whole group.
GroupDoesNotOutlive ==
  answer # NoAnswer => \A p \in Procs : Alive(p) => group[p] # "child"

\* The call settles, whatever the processes do: a child that ignores SIGTERM, a
\* daemon that keeps the output open, a group that cannot be confirmed stopped.
EveryCallSettles == <>(stage = "answered")

\* process-runner.test.ts:251, "fails closed when a detached descendant strips
\* the supervision marker": such a descendant leaves termination unconfirmed.
StrippedIsUnconfirmed ==
  answer # NoAnswer =>
    ((\E p \in present : Alive(p) /\ p \notin token /\ group[p] = "own")
       => ~ answer.confirmed)

----------------------------------------------------------------------------
(* The inductive invariant *)

\* The group has been killed or was seen to be empty.
AfterGroup == {"census", "reading", "scanning", "escaped", "probe", "answered"}
\* The call will not answer that the command simply ended.
Tainted == \/ "timedOut" \in flags \/ "outputExceeded" \in flags
           \/ "descendants" \in flags

\* What the command started has its parent among what it started, or was
\* adopted; only that is in the child's group, and the child is nowhere else.
FamilyTree ==
  /\ stage = "start" => \A p \in Procs : state[p] = "none"
  /\ kin # {} => Child \in kin
  /\ \A p \in Procs : group[p] = "child" => Exists(p) /\ p \in kin
  /\ \A p \in kin : /\ group[p] # "base" /\ state[p] # "none"
                    /\ p # Child => parent[p] \in kin \cup {Reaper}
  /\ Exists(Child) => group[Child] = "child"

\* Once the group was dealt with nobody in it runs, and as long as termination
\* is confirmed nobody is in it.
GroupIsDealtWith ==
  /\ stage \in AfterGroup \cup {"confirm"} =>
       \A p \in Procs : Alive(p) => group[p] # "child"
  /\ stage \in AfterGroup /\ "unconfirmed" \notin flags => ~ GroupExists
  /\ stage \in {"grace", "confirm"} \/ "unconfirmed" \in flags => Tainted

\* Whoever ran at the listing and is still there is yet to be read or was read,
\* outside the child's group if termination is confirmed.
CensusIsComplete ==
  /\ present \subseteq kin
  /\ \A p \in DOMAIN current : state[p] # "none"
  /\ stage \notin AfterGroup \ {"census"} => present = {} /\ DOMAIN current = {}
  /\ stage = "census" => DOMAIN current = {} /\ present = {}
  /\ stage \in {"reading", "scanning", "escaped", "probe"} =>
       \A p \in present : Exists(p) =>
         p \in DOMAIN current \/ (stage = "reading" /\ p \in todo)
  /\ \A p \in DOMAIN current \cap kin :
       "unconfirmed" \notin flags /\ stage # "answered" =>
         /\ p # Child /\ current[p].group = "own"
         /\ current[p].parent \in kin \cup {Reaper}
  /\ stage = "probe" /\ escaped # {} => Tainted
  /\ stage = "escaped" => Tainted

RunnerInvariant == /\ FamilyTree
                   /\ GroupIsDealtWith
                   /\ CensusIsComplete
                   /\ Reaper = Pid1 => ConfirmedMeansGone
=============================================================================
