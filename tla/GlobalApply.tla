----------------------------- MODULE GlobalApply -----------------------------
(***************************************************************************)
(* applyGlobalPlan (commands/global-apply/index.ts): every manager of the  *)
(* plan is inspected; then, operation by operation, the manager is         *)
(* inspected again, the update command runs, and the manager is inspected  *)
(* a last time.  The result must pass assertGlobalApplyResult.             *)
(*                                                                         *)
(* The machine's global packages belong to everybody: others install       *)
(* packages, replace a manager or point it at another realm (its global    *)
(* directory) at any moment, also between the processes one inspection     *)
(* consists of.  A command may do less or other than it was asked, and     *)
(* one whose termination is unconfirmed may go on writing.                 *)
(***************************************************************************)
EXTENDS FiniteSetsExt, Integers

CONSTANTS
  Sizes,      \* a plan has operations 1..n, for a size n
  Managers,   \* the package managers, numbered by GLOBAL_MANAGER_RANK
  OneOutput,  \* those whose inventory shows the realm as well (Bun)
  Releases,   \* releases are 1..Releases, in the order of semver
  PlanStyles, \* how the versions of a plan may be spelled
  \* And, for plans of each size:
  Styles,     \* how a version may be spelled; "plain" is semver's way
  MaxEdits,   \* how often others change a package
  MaxMoves    \* how often others point a manager at another realm

ASSUME GlobalAssumption ==
  /\ Sizes \subseteq Nat \ {0} /\ Releases \in Nat \ {0}
  /\ MaxEdits \in [Sizes -> Nat] /\ MaxMoves \in [Sizes -> Nat]
  /\ Managers \subseteq Nat /\ IsFiniteSet(Managers) /\ Managers # {}
  /\ OneOutput \subseteq Managers
  /\ \A n \in Sizes : /\ PlanStyles \subseteq Styles[n]
                       /\ "plain" \in Styles[n] /\ "none" \notin Styles[n]

Realms == {"planned", "other"}
Missing == <<0, "none">>
\* semver.valid: the canonical spelling.  semver.gt compares releases.
Valid(version) == <<version[1], "plain">>
Newer(v, w) == v[1] > w[1]

VARIABLES
  plan,       \* of each operation: manager, expected and target version
  pinned,     \* the managers whose evidence the plan holds
  realm,      \* the realm each manager uses
  installed,  \* the version of each operation's package in each realm
  pc,         \* where applyGlobalPlan is
  at,         \* the operation it is at
  who,        \* the manager being inspected or run
  look,       \* what the inspection in progress has found
  seen,       \* preflight: the evidence about each manager
  items, commands,
  stray,      \* the operations whose command may still be running
  edits, moves,
  shown       \* history: the versions the current operation's package had in
              \* the planned realm since its command ended, or before it runs,
              \* since the immediate inspection began

Ops == DOMAIN plan
Size == Cardinality(Ops)
Version == (1 .. Releases) \X Styles[Size]
Installed == Version \cup {Missing}

world == <<realm, installed>>
effort == <<edits, moves>>
vars == <<plan, pinned, world, pc, at, who, look, seen, items, commands, stray,
          effort, shown>>

\* The evidence of an inspection, and the process it runs next.
Evidence == [status : {"confirmed", "failed"}, tool : BOOLEAN, realm : Realms,
             packages : [Ops -> Installed],
             next : {"version", "inventory", "realm", "done"}]
Blank == [status |-> "confirmed", tool |-> FALSE, realm |-> "other",
          packages |-> [o \in Ops |-> Missing], next |-> "version"]

Item(status, reason, version) ==
  [status |-> status, reason |-> reason, observed |-> version]
NoItem == Item("none", "none", Missing)

\* What the process runner may say of a command: an exit code or a signal is
\* only reported when the termination is confirmed.
Command == [termination : {"exit-0", "exit-1", "signal"}, confirmed : {TRUE}]
           \cup [termination : {"timeout", "unavailable", "unknown"},
                 confirmed : BOOLEAN]
NoCommand == [termination |-> "none", confirmed |-> FALSE]

InRealm(o) == installed[o]["planned"]
Planned == {plan[o].manager : o \in Ops}

TypeOK ==
  /\ pinned \subseteq Managers
  /\ realm \in [Managers -> Realms]
  /\ installed \in [Ops -> [Realms -> Installed]]
  /\ pc \in {"preflight", "immediate", "running", "observe", "answered", "thrown"}
  /\ at \in Ops /\ who \in Managers
  /\ look \in Evidence /\ seen \in [Managers -> Evidence]
  /\ \A o \in Ops :
       /\ items[o].status \in {"none", "applied", "skipped", "conflicted", "failed",
                               "unknown"}
       /\ items[o].observed \in Installed
       /\ commands[o] \in Command \cup {NoCommand}
  /\ stray \subseteq Ops
  /\ edits \in 0 .. MaxEdits[Size] /\ moves \in 0 .. MaxMoves[Size]
  /\ shown \subseteq Installed

\* A plan of createGlobalApplyPlan, sorted by manager, applied at a later time.
Init ==
  /\ \E n \in Sizes :
       plan \in [1 .. n -> [manager : Managers, expected : (1 .. Releases) \X PlanStyles,
                            target : (1 .. Releases) \X PlanStyles]]
  /\ \A o, p \in Ops : o < p => plan[o].manager <= plan[p].manager
  /\ pinned \in SUBSET Planned
  /\ realm = [m \in Managers |-> "planned"]
  /\ installed = [o \in Ops |-> [r \in Realms |->
                    IF r = "planned" THEN plan[o].expected ELSE Missing]]
  /\ pc = "preflight" /\ at = 1 /\ who = Min(Planned)
  /\ look = Blank /\ seen = [m \in Managers |-> Blank]
  /\ items = [o \in Ops |-> NoItem]
  /\ commands = [o \in Ops |-> NoCommand]
  /\ stray = {} /\ edits = 0 /\ moves = 0 /\ shown = {}

----------------------------------------------------------------------------
(* Inspecting a manager: inspectGlobalManager *)

Process(name) ==
  /\ pc \in {"preflight", "immediate", "observe"} /\ look.next = name
  /\ UNCHANGED <<plan, pinned, world, pc, at, who, seen, items, commands, stray,
                 effort, shown>>

\* A process fails or overruns, or what it prints is not understood.
InspectionFails ==
  /\ \E name \in {"version", "inventory", "realm"} : Process(name)
  /\ look' = [Blank EXCEPT !.status = "failed", !.next = "done"]

\* The executable is resolved and asked for its version; either may differ from
\* the plan's by now.
InspectVersion ==
  /\ Process("version")
  /\ \E planned \in BOOLEAN :
       look' = [look EXCEPT !.tool = planned, !.next = "inventory"]

InspectInventory ==
  LET found == [o \in Ops |-> IF plan[o].manager = who
                              THEN installed[o][realm[who]] ELSE Missing]
  IN  /\ Process("inventory")
      /\ look' = IF who \in OneOutput
                 THEN [look EXCEPT !.packages = found, !.realm = realm[who],
                                   !.next = "done"]
                 ELSE [look EXCEPT !.packages = found, !.next = "realm"]

InspectRealm ==
  /\ Process("realm")
  /\ look' = [look EXCEPT !.realm = realm[who], !.next = "done"]

----------------------------------------------------------------------------
(* Judging the evidence *)

\* Mutant: the realm is not compared.
MatchesTool(o, evidence) == plan[o].manager \in pinned /\ evidence.tool

\* The manager is the one the plan was made with, in the same realm.
Matches(o, evidence) ==
  plan[o].manager \in pinned /\ evidence.tool /\ evidence.realm = "planned"

\* preflightResult: an item, or none for an operation that is ready.
Preflight(o, evidence) ==
  LET version == evidence.packages[o]
  IN  IF evidence.status # "confirmed" THEN Item("unknown", "inventory", Missing)
      ELSE IF ~ Matches(o, evidence) THEN Item("unknown", "changed", Missing)
      ELSE IF version = Missing THEN Item("conflicted", "missing", Missing)
      ELSE IF version # plan[o].expected THEN Item("conflicted", "mismatch", version)
      ELSE IF Newer(plan[o].expected, plan[o].target)
           THEN Item("skipped", "downgrade", version)
      ELSE IF Valid(plan[o].expected) = Valid(plan[o].target)
           THEN Item("skipped", "no-change", version)
      ELSE NoItem

\* Mutant: an unconfirmed timeout is a timeout.
UnsafeEnd(command) == command.termination \in {"unknown", "unavailable"}

\* processUnsafe: after such a command no other may be started.
Unsafe(command) ==
  ~ command.confirmed \/ command.termination \in {"unknown", "unavailable"}

\* Mutant: a timeout is reported before the evidence is looked at.
TimeoutFirst(o, command, evidence) ==
  LET version == evidence.packages[o]
  IN  IF Unsafe(command) THEN Item("unknown", "unobservable", Missing)
      ELSE IF command.termination = "timeout" THEN Item("failed", "timeout", version)
      ELSE IF evidence.status # "confirmed" THEN Item("unknown", "inventory", Missing)
      ELSE IF ~ Matches(o, evidence) THEN Item("unknown", "changed", Missing)
      ELSE IF version = plan[o].target THEN Item("applied", "applied", version)
      ELSE IF version \notin {Missing, plan[o].expected}
           THEN Item("conflicted", "post-state", version)
      ELSE IF command.termination = "exit-0" /\ version = Missing
           THEN Item("failed", "missing", Missing)
      ELSE Item("failed", "command", version)

\* postCommandResult.
PostCommand(o, command, evidence) ==
  LET version == evidence.packages[o]
  IN  IF Unsafe(command) THEN Item("unknown", "unobservable", Missing)
      ELSE IF evidence.status # "confirmed" THEN Item("unknown", "inventory", Missing)
      ELSE IF ~ Matches(o, evidence) THEN Item("unknown", "changed", Missing)
      ELSE IF version = plan[o].target THEN Item("applied", "applied", version)
      ELSE IF version \notin {Missing, plan[o].expected}
           THEN Item("conflicted", "post-state", version)
      ELSE IF command.termination = "timeout" THEN Item("failed", "timeout", version)
      ELSE IF command.termination # "exit-0" THEN Item("failed", "command", version)
      ELSE IF version = Missing THEN Item("failed", "missing", Missing)
      ELSE Item("failed", "command", version)

\* validGlobalItemSemantics, for the items and commands this code makes.
ValidItem(o, item) ==
  LET expected == Valid(plan[o].expected)
      target == Valid(plan[o].target)
      ran == commands[o] # NoCommand
      confirmed == ran /\ ~ Unsafe(commands[o])
      version == item.observed
  IN  CASE item.status = "applied" ->
             confirmed /\ item.reason = "applied" /\ version = target
        [] item.status = "skipped" ->
             /\ ~ ran
             /\ \/ item.reason = "no-change" /\ expected = target /\ version = target
                \/ /\ item.reason = "downgrade" /\ Newer(expected, target)
                   /\ version = expected
        [] item.status = "conflicted" ->
             \/ item.reason = "missing" /\ ~ ran /\ version = Missing
             \/ item.reason = "mismatch" /\ ~ ran /\ version \notin {Missing, expected}
             \/ /\ item.reason = "post-state" /\ confirmed
                /\ version \notin {Missing, expected, target}
        [] item.status = "failed" ->
             /\ version # target /\ confirmed
             /\ \/ /\ item.reason = "missing" /\ version = Missing
                   /\ commands[o].termination = "exit-0"
                \/ /\ item.reason = "timeout" /\ version \in {Missing, expected}
                   /\ commands[o].termination = "timeout"
                \/ /\ item.reason = "command" /\ version \in {Missing, expected}
                   /\ commands[o].termination \in {"exit-0", "exit-1", "signal"}
        [] item.status = "unknown" ->
             /\ version = Missing
             /\ ran => (item.reason = "unobservable" <=> ~ confirmed)
        [] OTHER -> FALSE

\* Mutant: something applied is a success.
OutcomeOfApplied(results) ==
  LET with(status) == \E o \in Ops : results[o].status = status
  IN  IF with("applied") THEN "applied"
      ELSE IF with("unknown") THEN "unknown"
      ELSE IF with("failed") THEN "failed"
      ELSE IF with("conflicted") THEN "conflicted"
      ELSE "noop"

\* reconcileGlobalStatus.
Outcome(results) ==
  LET with(status) == \E o \in Ops : results[o].status = status
      good == with("applied") \/ with("skipped")
      bad == with("conflicted") \/ with("failed") \/ with("unknown")
  IN  IF good /\ bad THEN "partial"
      ELSE IF with("unknown") THEN "unknown"
      ELSE IF with("failed") THEN "failed"
      ELSE IF with("conflicted") THEN "conflicted"
      ELSE IF with("applied") THEN "applied"
      ELSE "noop"

----------------------------------------------------------------------------
(* The plan, operation by operation *)

Ready(results) == {o \in Ops : results[o] = NoItem}
\* Mutant: a manager that was just inspected is not inspected again.
InspectOnce(manager) ==
  who' = manager /\ look' = IF who = manager THEN look ELSE Blank
Inspect(manager) == who' = manager /\ look' = Blank
unsafeProcess == \E o \in Ops : commands[o] # NoCommand /\ Unsafe(commands[o])

\* The loop of applyGlobalPlan goes on to the next operation that is ready.
NextOperation(results) ==
  LET next == Min(Ready(results))
  IN  /\ Ready(results) # {} /\ ~ unsafeProcess
      /\ items' = results /\ at' = next
      /\ pc' = "immediate" /\ Inspect(plan[next].manager)
      /\ shown' = {InRealm(next)}

\* No operation is left, or those that are may not be started; createGlobalResult
\* returns the result or throws.
EndOfPlan(results) ==
  /\ Ready(results) = {} \/ unsafeProcess
  /\ items' = [o \in Ops |-> IF o \in Ready(results)
                             THEN Item("unknown", "unobservable", Missing)
                             ELSE results[o]]
  /\ pc' = IF \A o \in Ops : ValidItem(o, items'[o]) THEN "answered" ELSE "thrown"
  /\ UNCHANGED <<at, who, look, shown>>

Continue(results) ==
  /\ NextOperation(results) \/ EndOfPlan(results)
  /\ UNCHANGED <<plan, pinned, world, commands, stray, effort>>

\* Mutant: any other manager of the plan is next.
PreflightOther ==
  LET later == Planned \ {who}
  IN  /\ pc = "preflight" /\ look.next = "done" /\ later # {}
      /\ seen' = [seen EXCEPT ![who] = look]
      /\ Inspect(Min(later))
      /\ UNCHANGED <<plan, pinned, world, pc, at, items, commands, stray, effort,
                     shown>>

\* One more manager is inspected before anything runs.
PreflightNext ==
  LET later == {m \in Planned : m > who}
  IN  /\ pc = "preflight" /\ look.next = "done" /\ later # {}
      /\ seen' = [seen EXCEPT ![who] = look]
      /\ Inspect(Min(later))
      /\ UNCHANGED <<plan, pinned, world, pc, at, items, commands, stray, effort,
                     shown>>

\* All are: every operation is classified and the loop starts; the preflight
\* evidence is not used again.
PreflightDone ==
  /\ pc = "preflight" /\ look.next = "done" /\ ~ \E m \in Planned : m > who
  /\ seen' = [m \in Managers |-> Blank]
  /\ Continue([o \in Ops |->
        Preflight(o, IF plan[o].manager = who THEN look ELSE seen[plan[o].manager])])

\* The immediate inspection finds the operation changed.
GiveUp ==
  LET item == Preflight(at, look)
  IN  /\ pc = "immediate" /\ look.next = "done" /\ item # NoItem
      /\ Continue([items EXCEPT ![at] = item])
      /\ UNCHANGED seen

\* It finds everything as planned: the update command is started.
StartCommand ==
  /\ pc = "immediate" /\ look.next = "done" /\ Preflight(at, look) = NoItem
  /\ pc' = "running"
  /\ UNCHANGED <<plan, pinned, world, at, who, look, seen, items, commands, stray,
                 effort, shown>>

\* The runner answers.  A command it could not start or account for may still
\* run unless its termination is confirmed.
CommandEnds ==
  /\ pc = "running"
  /\ \E command \in Command :
       /\ commands' = [commands EXCEPT ![at] = command]
       /\ stray' \in {stray} \cup IF command.confirmed THEN {} ELSE {stray \cup {at}}
  /\ pc' = "observe" /\ Inspect(plan[at].manager)
  /\ shown' = {InRealm(at)}
  /\ UNCHANGED <<plan, pinned, world, at, seen, items, effort>>

\* The manager has been inspected after the command.
Observe ==
  /\ pc = "observe" /\ look.next = "done"
  /\ Continue([items EXCEPT ![at] = PostCommand(at, commands[at], look)])
  /\ UNCHANGED seen

----------------------------------------------------------------------------
(* The machine *)

Outside == /\ UNCHANGED <<plan, pinned, pc, at, who, look, seen, items, commands,
                          stray>>
           /\ shown' = IF pc \in {"immediate", "observe"}
                       THEN shown \cup {installed'[at]["planned"]} ELSE shown

Install(o, r) == /\ UNCHANGED realm
                 /\ \E version \in Installed \ {installed[o][r]} :
                      installed' = [installed EXCEPT ![o][r] = version]

\* The update command changes its package, to the target or to something else.
CommandWrites == /\ pc = "running" /\ Install(at, realm[who])
                 /\ UNCHANGED effort /\ Outside

\* So does one that was left running (it is not followed beyond the answer).
StrayWrites == /\ pc \notin {"answered", "thrown"}
               /\ \E o \in stray : Install(o, realm[plan[o].manager])
               /\ UNCHANGED effort /\ Outside

\* Others change a package.
OthersInstall == /\ pc \notin {"answered", "thrown"} /\ edits < MaxEdits[Size]
                 /\ edits' = edits + 1
                 /\ \E o \in Ops, r \in Realms : Install(o, r)
                 /\ UNCHANGED moves /\ Outside

\* Others point a manager at another realm, or back.
OthersMove ==
  /\ pc \notin {"answered", "thrown"} /\ moves < MaxMoves[Size] /\ moves' = moves + 1
  /\ \E m \in Planned : realm' = [realm EXCEPT ![m] = IF @ = "planned" THEN "other"
                                                      ELSE "planned"]
  /\ UNCHANGED <<installed, edits>> /\ Outside

Engine == \/ InspectionFails \/ InspectVersion \/ InspectInventory \/ InspectRealm
          \/ PreflightNext \/ PreflightDone \/ GiveUp \/ StartCommand \/ CommandEnds
          \/ Observe

Next == Engine \/ CommandWrites \/ StrayWrites \/ OthersInstall \/ OthersMove

Spec == Init /\ [][Next]_vars

\* Every process ends or is ended by its timeout, so that the engine always has
\* a step to take until it answers; nothing is owed by the others.
FairSpec == Spec /\ WF_vars(Engine)

----------------------------------------------------------------------------
(* Properties *)

\* createGlobalResult never throws: whatever the commands did and the
\* inspections saw, the result passes assertGlobalApplyResult, so that what was
\* changed is reported.
ResultAccepted == pc # "thrown"

\* Two moves of a manager's realm may pass between two of its outputs.
Trustworthy(o) == moves <= 1 \/ plan[o].manager \in OneOutput

\* What the engine says it observed after a command was so: the version was the
\* package's, in the planned realm, at some moment after the command ended.  The
\* realm is asked for after the inventory: two moves can deceive it, except
\* where one output holds both.  And an update command is started only for an
\* operation whose package was seen, since its immediate inspection began, with
\* the version the plan expects; and only to move it forward.
LooksAreFresh ==
  [][/\ (pc = "observe" /\ pc' # "observe" /\ items'[at].status # "unknown"
            /\ Trustworthy(at))
          => items'[at].observed \in shown
     /\ (pc = "immediate" /\ pc' = "running" /\ Trustworthy(at))
          => plan[at].expected \in shown /\ Newer(plan[at].target, plan[at].expected)]_vars

\* No update command runs while an earlier one may still be running.
StrayStopsCommands == pc = "running" => stray = {}

\* A result that says all is well accounts for every operation: its package was
\* observed at the target, or is newer and was left alone.
SuccessIsComplete ==
  (pc = "answered" /\ Outcome(items) \in {"applied", "noop"})
     => \A o \in Ops : /\ items[o].observed # Missing
                       /\ ~ Newer(plan[o].target, items[o].observed)

\* createGlobalResult asserts that its own result is valid (index.ts:593); a call
\* that has run a command must get past that assertion, or what it changed is
\* never reported.
ChangesAreReported == pc = "thrown" => \A o \in Ops : commands[o] = NoCommand

\* Every call ends.
EveryApplyAnswers == <>(pc \in {"answered", "thrown"})
=============================================================================
