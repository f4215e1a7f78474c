-------------------------- MODULE GlobalApplyProofs --------------------------
(***************************************************************************)
(* Theorems about GlobalApply, for plans of any size, any managers and any *)
(* number of changes made by others.                                       *)
(***************************************************************************)
EXTENDS GlobalApply, FiniteSetTheorems, WellFoundedInduction, TLAPS

-----------------------------------------------------------------------------
(* The invariant *)

PlanVersion == (1 .. Releases) \X PlanStyles
PlannedOperation == [manager : Managers, expected : PlanVersion, target : PlanVersion]
PlanKept == \E n \in Sizes : plan \in [1 .. n -> PlannedOperation]

Statuses == {"none", "applied", "skipped", "conflicted", "failed", "unknown"}
Reasons  == {"none", "inventory", "changed", "missing", "mismatch", "downgrade",
             "no-change", "unobservable", "applied", "post-state", "timeout",
             "command"}
Items == [status : Statuses, reason : Reasons, observed : Installed]
Commands == Command \cup {NoCommand}

Typing == /\ PlanKept /\ TypeOK
          /\ items \in [Ops -> Items] /\ commands \in [Ops -> Commands]

\* The loop is at an operation that is ready; nothing is started after a
\* command that may still be running.
LoopKept ==
  /\ \A o \in stray : commands[o] # NoCommand /\ ~commands[o].confirmed
  /\ pc \in {"immediate", "running"} => ~unsafeProcess
  /\ pc \in {"immediate", "running", "observe"} =>
       items[at] = NoItem /\ who = plan[at].manager
  /\ pc = "preflight" => \A o \in Ops : items[o] = NoItem
  /\ pc = "observe" => commands[at] # NoCommand
  /\ \A o \in Ops : items[o] = NoItem /\ (pc = "observe" => o # at) =>
       commands[o] = NoCommand
  /\ pc = "answered" => Ready(items) = {}

\* What the item of an operation says of it.
Accounted(o, item) ==
  /\ item.status # "none"
  /\ item.status = "applied" => item.observed = plan[o].target
  /\ item.status = "skipped" =>
       item.observed = plan[o].expected /\ ~Newer(plan[o].target, plan[o].expected)
  /\ PlanStyles = {"plain"} => ValidItem(o, item)

ItemsKept ==
  /\ \A o \in Ops : items[o] # NoItem => Accounted(o, items[o])
  /\ PlanStyles = {"plain"} => pc # "thrown"

\* What an inspection under way has found was so while it went on, unless the
\* manager was pointed to another realm and back between two of its outputs.
LooksKept ==
  /\ moves = 0 => \A m \in Managers : realm[m] = "planned"
  /\ pc \in {"immediate", "observe"} =>
       /\ InRealm(at) \in shown
       /\ look.next = "realm" =>
            /\ who \notin OneOutput
            /\ \/ look.packages[at] \in shown
               \/ moves > 0 /\ (realm[who] = "planned" => moves > 1)
       /\ look.next = "done" /\ look.status = "confirmed" /\ look.realm = "planned" =>
            \/ look.packages[at] \in shown
            \/ moves > 1 /\ who \notin OneOutput

GlobalInvariant == Typing /\ LoopKept /\ ItemsKept /\ LooksKept

-----------------------------------------------------------------------------
(* Numbers and plans *)

LEMMA MinOfNaturals ==
  ASSUME NEW S \in SUBSET Nat, S # {}
  PROVE  Min(S) \in S /\ \A x \in S : Min(S) <= x
<1> DEFINE less == {p \in Nat \X Nat : p[1] < p[2]}
<1>1. IsWellFoundedOn(less, Nat)
  BY NatLessThanWellFounded DEF OpToRel
<1>2. PICK x \in S : \A y \in S : ~ (<<y, x>> \in less)
  <2> HIDE DEF less
  <2> QED
    BY <1>1, WFMin
<1>3. ASSUME NEW y \in S PROVE x <= y
  <2>1. x \in Nat /\ y \in Nat /\ <<y, x>> \notin less
    BY <1>2
  <2>2. y < x => <<y, x>> \in less
    BY <2>1
  <2>3. QED
    BY <2>1, <2>2
<1>4. QED
  BY <1>3 DEF Min

LEMMA PlanFacts ==
  ASSUME PlanKept
  PROVE  /\ Ops # {} /\ Ops \in SUBSET Nat /\ 1 \in Ops
         /\ Size \in Sizes /\ Ops = 1 .. Size
         /\ plan \in [Ops -> PlannedOperation]
         /\ PlanVersion \subseteq Version
         /\ \A o \in Ops : /\ plan[o].manager \in Planned
                           /\ plan[o].expected \in PlanVersion
                           /\ plan[o].target \in PlanVersion
         /\ Planned # {} /\ Planned \subseteq Managers /\ Planned \in SUBSET Nat
<1>1. PICK n \in Sizes : plan \in [1 .. n -> PlannedOperation]
  BY DEF PlanKept
<1>2. n \in Nat /\ n > 0
  BY GlobalAssumption
<1>3. Ops = 1 .. n
  BY <1>1 DEF Ops
<1>4. Size = n
  BY <1>2, <1>3, FS_Interval DEF Size
<1>5. PlanVersion \subseteq Version
  BY <1>4, GlobalAssumption DEF PlanVersion, Version
<1>6. \A o \in Ops : plan[o] \in PlannedOperation
  BY <1>1, <1>3
<1>7. Planned # {} /\ Planned \subseteq Managers
  BY <1>2, <1>3, <1>6 DEF Planned, PlannedOperation
<1>8. \A o \in Ops : plan[o].manager \in Planned
  BY DEF Planned
<1>9. 1 \in Ops /\ Ops \in SUBSET Nat
  BY <1>2, <1>3
<1>10. QED
  BY <1>1, <1>3, <1>4, <1>5, <1>6, <1>7, <1>8, <1>9, GlobalAssumption DEF PlannedOperation

\* Nothing in a plan changes what its versions and evidence may be.
LEMMA SamePlan ==
  ASSUME plan' = plan
  PROVE  /\ Ops' = Ops /\ Size' = Size /\ Planned' = Planned
         /\ Version' = Version /\ Installed' = Installed /\ Items' = Items
         /\ Evidence' = Evidence /\ Blank' = Blank /\ PlanKept' = PlanKept
BY DEF Ops, Size, Planned, Version, Installed, Items, Evidence, Blank, PlanKept

LEMMA MissingIsNoVersion ==
  Missing \in Installed /\ Missing \notin PlanVersion
BY DEF Missing, Installed, PlanVersion

LEMMA BlankTyped == Blank \in Evidence /\ Blank.next = "version" /\ Blank.realm = "other"
BY MissingIsNoVersion DEF Blank, Evidence, Realms

-----------------------------------------------------------------------------
(* The judgements *)

LEMMA ItemTyped ==
  ASSUME NEW status \in Statuses, NEW reason \in Reasons, NEW version \in Installed
  PROVE  /\ Item(status, reason, version) \in Items
         /\ Item(status, reason, version).status = status
         /\ Item(status, reason, version).observed = version
         /\ status # "none" => Item(status, reason, version) # NoItem
BY DEF Item, Items, NoItem

LEMMA PreflightTyped ==
  ASSUME Typing, NEW o \in Ops, NEW evidence \in Evidence
  PROVE  Preflight(o, evidence) \in Items
<1>1. evidence.packages[o] \in Installed
  BY DEF Evidence
<1>2. NoItem \in Items
  BY MissingIsNoVersion DEF NoItem, Item, Items, Statuses, Reasons
<1>3. QED
  BY <1>1, <1>2, ItemTyped, MissingIsNoVersion DEF Preflight, Statuses, Reasons

LEMMA PostCommandTyped ==
  ASSUME Typing, NEW o \in Ops, NEW command, NEW evidence \in Evidence
  PROVE  /\ PostCommand(o, command, evidence) \in Items
         /\ PostCommand(o, command, evidence) # NoItem
<1>1. evidence.packages[o] \in Installed
  BY DEF Evidence
<1> DEFINE judged == Items \ {NoItem}
<1>2. \A status \in {"applied", "conflicted", "failed", "unknown"},
          reason \in Reasons, version \in Installed :
        Item(status, reason, version) \in judged
  BY ItemTyped DEF Statuses
<1>3. /\ \A reason \in {"unobservable", "inventory", "changed"} :
             Item("unknown", reason, Missing) \in judged
      /\ \A version \in Installed :
           /\ Item("applied", "applied", version) \in judged
           /\ Item("conflicted", "post-state", version) \in judged
           /\ \A reason \in {"timeout", "command", "missing"} :
                Item("failed", reason, version) \in judged
  BY <1>2, MissingIsNoVersion DEF Reasons
<1> HIDE DEF judged
<1>4. PostCommand(o, command, evidence) \in judged
  BY <1>1, <1>3, MissingIsNoVersion DEF PostCommand
<1>5. QED
  BY <1>4 DEF judged

-----------------------------------------------------------------------------
(* Types *)

Places == {"preflight", "immediate", "running", "observe", "answered", "thrown"}

LEMMA TypingFrom ==
  ASSUME Typing, plan' = plan, pinned' = pinned,
         realm' \in [Managers -> Realms],
         installed' \in [Ops -> [Realms -> Installed]],
         pc' \in Places, at' \in Ops, who' \in Managers, look' \in Evidence,
         seen' \in [Managers -> Evidence],
         items' \in [Ops -> Items], commands' \in [Ops -> Commands],
         stray' \subseteq Ops, shown' \subseteq Installed,
         edits' \in 0 .. MaxEdits[Size], moves' \in 0 .. MaxMoves[Size]
  PROVE  Typing'
<1>1. \A i \in Items : i.status \in Statuses /\ i.observed \in Installed
  BY DEF Items
<1>2. /\ \A o \in Ops : items'[o].status \in Statuses /\ items'[o].observed \in Installed
      /\ \A o \in Ops : commands'[o] \in Commands
  BY <1>1
<1>3. PlanKept' /\ items' \in [Ops' -> Items'] /\ commands' \in [Ops' -> Commands]
  BY SamePlan DEF Typing
<1>4. pinned' \subseteq Managers
  BY DEF Typing, TypeOK
<1>5. TypeOK'
  BY <1>2, <1>4, SamePlan DEF TypeOK, Commands, Statuses, Places
<1>6. QED
  BY <1>3, <1>5 DEF Typing, Commands

LEMMA TypingFacts ==
  ASSUME Typing
  PROVE  /\ pinned \subseteq Managers
         /\ realm \in [Managers -> Realms]
         /\ installed \in [Ops -> [Realms -> Installed]]
         /\ pc \in Places /\ at \in Ops /\ who \in Managers /\ look \in Evidence
         /\ seen \in [Managers -> Evidence]
         /\ items \in [Ops -> Items] /\ commands \in [Ops -> Commands]
         /\ stray \subseteq Ops /\ shown \subseteq Installed
         /\ edits \in 0 .. MaxEdits[Size] /\ moves \in 0 .. MaxMoves[Size]
         /\ MaxEdits[Size] \in Nat /\ MaxMoves[Size] \in Nat
         /\ \A o \in Ops : InRealm(o) \in Installed
         /\ \A o \in Ops : plan[o].manager \in Managers
<1>1. MaxEdits[Size] \in Nat /\ MaxMoves[Size] \in Nat
  BY PlanFacts, GlobalAssumption DEF Typing
<1>2. installed \in [Ops -> [Realms -> Installed]]
  BY DEF Typing, TypeOK
<1>3. \A o \in Ops : InRealm(o) \in Installed
  BY <1>2 DEF InRealm, Realms
<1>4. \A o \in Ops : plan[o].manager \in Managers
  BY PlanFacts DEF Typing
<1>5. QED
  BY <1>1, <1>2, <1>3, <1>4 DEF Typing, TypeOK, Places

LEMMA LookTyped ==
  ASSUME NEW evidence \in Evidence, NEW tool \in BOOLEAN, NEW where \in Realms,
         NEW packages \in [Ops -> Installed], NEW next \in {"inventory", "realm", "done"}
  PROVE  /\ [evidence EXCEPT !.tool = tool, !.next = next] \in Evidence
         /\ [evidence EXCEPT !.realm = where, !.next = next] \in Evidence
         /\ [evidence EXCEPT !.packages = packages, !.next = next] \in Evidence
         /\ [evidence EXCEPT !.packages = packages, !.realm = where, !.next = next]
              \in Evidence
         /\ [evidence EXCEPT !.status = "failed", !.next = next] \in Evidence
BY DEF Evidence

LEMMA ContinueTyped ==
  ASSUME Typing, NEW results \in [Ops -> Items], Continue(results),
         seen' \in [Managers -> Evidence]
  PROVE  Typing'
<1> USE TypingFacts
<1>1. UNCHANGED <<plan, pinned, realm, installed, commands, stray, edits, moves>>
  BY DEF Continue, world, effort
<1>2. CASE NextOperation(results)
  <2> DEFINE next == Min(Ready(results))
  <2>1. next \in Ops
    BY <1>2, MinOfNaturals, PlanFacts DEF NextOperation, Ready, Typing
  <2>2. /\ items' = results /\ at' = next /\ pc' = "immediate"
        /\ who' = plan[next].manager /\ look' = Blank /\ shown' = {InRealm(next)}
    BY <1>2 DEF NextOperation, Inspect
  <2>3. pc' \in Places
    BY <2>2 DEF Places
  <2> HIDE DEF next
  <2>4. at' \in Ops /\ who' \in Managers /\ look' \in Evidence /\ shown' \subseteq Installed
    BY <2>1, <2>2, BlankTyped
  <2>5. QED
    BY <1>1, <2>2, <2>3, <2>4, TypingFrom
<1>3. CASE EndOfPlan(results)
  <2>1. items' \in [Ops -> Items]
    BY <1>3, ItemTyped, MissingIsNoVersion DEF EndOfPlan, Statuses, Reasons
  <2>2. pc' \in Places /\ UNCHANGED <<at, who, look, shown>>
    BY <1>3 DEF EndOfPlan, Places
  <2>3. QED
    BY <1>1, <2>1, <2>2, TypingFrom
<1>4. QED
  BY <1>2, <1>3 DEF Continue

LEMMA InspectionTyped ==
  ASSUME Typing, InspectionFails \/ InspectVersion \/ InspectInventory \/ InspectRealm
  PROVE  Typing'
<1> USE TypingFacts
<1>1. UNCHANGED <<plan, pinned, realm, installed, pc, at, who, seen, items, commands,
                  stray, edits, moves, shown>>
  BY DEF InspectionFails, InspectVersion, InspectInventory, InspectRealm, Process,
     world, effort
<1>2. realm[who] \in Realms
  OBVIOUS
<1>3. look' \in Evidence
  <2>1. CASE InspectionFails
    BY <2>1, BlankTyped DEF InspectionFails, Evidence
  <2>2. CASE InspectVersion
    <3>1. PICK tool \in BOOLEAN : look' = [look EXCEPT !.tool = tool, !.next = "inventory"]
      BY <2>2 DEF InspectVersion
    <3>2. look.realm \in Realms /\ look.packages \in [Ops -> Installed]
      BY DEF Evidence
    <3>3. QED
      BY <3>1, <3>2, LookTyped
  <2>3. CASE InspectInventory
    <3> DEFINE found == [o \in Ops |-> IF plan[o].manager = who
                                       THEN installed[o][realm[who]] ELSE Missing]
    <3>1. found \in [Ops -> Installed]
      BY <1>2, MissingIsNoVersion
    <3>2. look' \in {[look EXCEPT !.packages = found, !.realm = realm[who],
                                  !.next = "done"],
                     [look EXCEPT !.packages = found, !.next = "realm"]}
      BY <2>3 DEF InspectInventory
    <3> HIDE DEF found
    <3>3. [look EXCEPT !.packages = found, !.realm = realm[who], !.next = "done"]
            \in Evidence
      BY <1>2, <3>1 DEF Evidence
    <3>4. [look EXCEPT !.packages = found, !.next = "realm"] \in Evidence
      BY <3>1 DEF Evidence
    <3>5. QED
      BY <3>2, <3>3, <3>4
  <2>4. CASE InspectRealm
    <3>1. look.packages \in [Ops -> Installed]
      BY DEF Evidence
    <3>2. QED
      BY <1>2, <2>4, <3>1, LookTyped DEF InspectRealm
  <2>5. QED
    BY <2>1, <2>2, <2>3, <2>4
<1>4. QED
  BY <1>1, <1>3, TypingFrom

LEMMA EngineTyped ==
  ASSUME Typing, Engine
  PROVE  Typing'
<1> USE TypingFacts
<1>1. CASE PreflightNext
  <2> DEFINE later == {m \in Planned : m > who}
  <2>1. Min(later) \in Managers
    BY <1>1, MinOfNaturals, PlanFacts DEF PreflightNext, Typing
  <2> HIDE DEF later
  <2>2. /\ UNCHANGED <<plan, pinned, realm, installed, pc, at, items, commands, stray,
                       edits, moves, shown>>
        /\ who' = Min(later) /\ look' = Blank /\ seen' = [seen EXCEPT ![who] = look]
    BY <1>1 DEF PreflightNext, Inspect, world, effort, later
  <2>3. QED
    BY <2>1, <2>2, BlankTyped, TypingFrom
<1>2. CASE PreflightDone
  <2> DEFINE evidence(o) == IF plan[o].manager = who THEN look
                            ELSE seen[plan[o].manager]
             results == [o \in Ops |-> Preflight(o, evidence(o))]
  <2>1. \A o \in Ops : evidence(o) \in Evidence
    OBVIOUS
  <2>2. results \in [Ops -> Items]
    <3> HIDE DEF evidence
    <3> QED
      BY <2>1, PreflightTyped
  <2>3. Continue(results) /\ seen' \in [Managers -> Evidence]
    BY <1>2, BlankTyped DEF PreflightDone
  <2> HIDE DEF results
  <2>4. QED
    BY <2>2, <2>3, ContinueTyped
<1>3. CASE GiveUp
  <2> DEFINE item == Preflight(at, look)
             results == [items EXCEPT ![at] = item]
  <2>1. item \in Items
    BY PreflightTyped
  <2>2. Continue(results) /\ seen' = seen
    BY <1>3 DEF GiveUp
  <2> HIDE DEF item
  <2>3. results \in [Ops -> Items]
    BY <2>1
  <2>4. QED
    BY <2>2, <2>3, ContinueTyped
<1>4. CASE StartCommand
  <2>1. UNCHANGED <<plan, pinned, realm, installed, at, who, look, seen, items, commands,
                    stray, edits, moves, shown>>
    BY <1>4 DEF StartCommand, world, effort
  <2>2. pc' \in Places
    BY <1>4 DEF StartCommand, Places
  <2>3. QED
    BY <2>1, <2>2, TypingFrom
<1>5. CASE CommandEnds
  <2>1. PICK command \in Command :
          /\ commands' = [commands EXCEPT ![at] = command]
          /\ stray' \in {stray} \cup IF command.confirmed THEN {} ELSE {stray \cup {at}}
    BY <1>5 DEF CommandEnds
  <2>2. commands' \in [Ops -> Commands] /\ stray' \subseteq Ops
    BY <2>1 DEF Commands
  <2>3. /\ UNCHANGED <<plan, pinned, realm, installed, at, seen, items, edits, moves>>
        /\ pc' = "observe" /\ who' = plan[at].manager /\ look' = Blank
        /\ shown' = {InRealm(at)}
    BY <1>5 DEF CommandEnds, Inspect, world, effort
  <2>4. pc' \in Places
    BY <2>3 DEF Places
  <2>5. QED
    BY <2>2, <2>3, <2>4, BlankTyped, TypingFrom
<1>6. CASE Observe
  <2> DEFINE item == PostCommand(at, commands[at], look)
             results == [items EXCEPT ![at] = item]
  <2>1. item \in Items
    BY PostCommandTyped
  <2>2. Continue(results) /\ seen' = seen
    BY <1>6 DEF Observe
  <2> HIDE DEF item
  <2>3. results \in [Ops -> Items]
    BY <2>1
  <2>4. QED
    BY <2>2, <2>3, ContinueTyped
<1>7. QED
  BY <1>1, <1>2, <1>3, <1>4, <1>5, <1>6, InspectionTyped DEF Engine

\* Steps of the machine: what they leave alone, and what they do.
Machine == CommandWrites \/ StrayWrites \/ OthersInstall \/ OthersMove

LEMMA MachineFacts ==
  ASSUME Typing, Machine
  PROVE  /\ UNCHANGED <<plan, pinned, pc, at, who, look, seen, items, commands, stray>>
         /\ pc \notin {"answered", "thrown"}
         /\ shown' = IF pc \in {"immediate", "observe"}
                     THEN shown \cup {installed'[at]["planned"]} ELSE shown
         /\ \/ /\ UNCHANGED <<realm, moves>> /\ edits' \in 0 .. MaxEdits[Size]
               /\ \E o \in Ops, r \in Realms, version \in Installed :
                    installed' = [installed EXCEPT ![o][r] = version]
            \/ /\ UNCHANGED <<installed, edits>> /\ moves' = moves + 1
               /\ moves < MaxMoves[Size]
               /\ \E m \in Managers :
                    realm' = [realm EXCEPT ![m] = IF @ = "planned" THEN "other"
                                                  ELSE "planned"]
<1> USE TypingFacts
<1>1. Planned \subseteq Managers /\ \A m \in Managers : realm[m] \in Realms
  BY PlanFacts DEF Typing
<1>2. CASE CommandWrites
  BY <1>1, <1>2 DEF CommandWrites, Install, Outside, effort
<1>3. CASE StrayWrites
  BY <1>1, <1>3 DEF StrayWrites, Install, Outside, effort
<1>4. CASE OthersInstall
  <2>1. edits' \in 0 .. MaxEdits[Size]
    BY <1>4 DEF OthersInstall
  <2>2. \E o \in Ops, r \in Realms, version \in Installed :
          installed' = [installed EXCEPT ![o][r] = version]
    BY <1>4 DEF OthersInstall, Install
  <2>3. QED
    BY <1>4, <2>1, <2>2 DEF OthersInstall, Install, Outside
<1>5. CASE OthersMove
  BY <1>1, <1>5 DEF OthersMove, Outside
<1>6. QED
  BY <1>2, <1>3, <1>4, <1>5 DEF Machine

LEMMA MachineTyped ==
  ASSUME Typing, Machine
  PROVE  Typing'
<1> USE TypingFacts
<1>1. installed' \in [Ops -> [Realms -> Installed]] /\ realm' \in [Managers -> Realms]
  BY MachineFacts DEF Realms
<1>2. edits' \in 0 .. MaxEdits[Size] /\ moves' \in 0 .. MaxMoves[Size]
  BY MachineFacts
<1>3. shown' \subseteq Installed
  BY <1>1, MachineFacts DEF Realms
<1>4. QED
  BY <1>1, <1>2, <1>3, MachineFacts, TypingFrom

-----------------------------------------------------------------------------
(* What the judgements say *)

LEMMA VersionFacts ==
  ASSUME NEW v \in PlanVersion, NEW w \in PlanVersion
  PROVE  /\ v # Missing
         /\ ~Newer(v, v) /\ (Newer(v, w) => ~Newer(w, v))
         /\ Valid(v) = Valid(w) => ~Newer(v, w)
         /\ Valid(v) # Valid(w) /\ ~Newer(v, w) => Newer(w, v)
         /\ PlanStyles = {"plain"} => Valid(v) = v
<1>1. v[1] \in Nat /\ w[1] \in Nat
  BY GlobalAssumption DEF PlanVersion
<1>2. PlanStyles = {"plain"} => v = <<v[1], "plain">>
  BY DEF PlanVersion
<1>3. Valid(v) = Valid(w) <=> v[1] = w[1]
  BY DEF Valid
<1>4. Valid(v) = <<v[1], "plain">>
  BY DEF Valid
<1>5. QED
  BY <1>1, <1>2, <1>3, <1>4, MissingIsNoVersion DEF Newer

LEMMA PreflightCases ==
  ASSUME NEW o, NEW evidence, NEW item, item = Preflight(o, evidence), item # NoItem
  PROVE  LET version == evidence.packages[o]
             expected == plan[o].expected
             target == plan[o].target
         IN  \/ item \in {Item("unknown", "inventory", Missing),
                         Item("unknown", "changed", Missing)}
             \/ item = Item("conflicted", "missing", Missing)
             \/ /\ item = Item("conflicted", "mismatch", version)
                /\ version \notin {Missing, expected}
             \/ /\ item = Item("skipped", "downgrade", expected)
                /\ Newer(expected, target)
             \/ /\ item = Item("skipped", "no-change", expected)
                /\ Valid(expected) = Valid(target)
<1> DEFINE version == evidence.packages[o]
           expected == plan[o].expected
           target == plan[o].target
<1>1. CASE evidence.status # "confirmed"
  BY <1>1 DEF Preflight
<1>2. CASE evidence.status = "confirmed" /\ ~Matches(o, evidence)
  BY <1>2 DEF Preflight
<1> DEFINE seems == evidence.status = "confirmed" /\ Matches(o, evidence)
<1>3. CASE seems /\ version = Missing
  BY <1>3 DEF Preflight
<1>4. CASE seems /\ version # Missing /\ version # expected
  BY <1>4 DEF Preflight
<1>5. CASE seems /\ version # Missing /\ version = expected /\ Newer(expected, target)
  BY <1>5 DEF Preflight
<1>6. CASE seems /\ version # Missing /\ version = expected /\ ~Newer(expected, target)
  BY <1>6 DEF Preflight
<1>7. QED
  BY <1>1, <1>2, <1>3, <1>4, <1>5, <1>6

LEMMA ReadyMeans ==
  ASSUME NEW o, NEW evidence \in Evidence, Preflight(o, evidence) = NoItem
  PROVE  /\ evidence.status = "confirmed" /\ evidence.realm = "planned"
         /\ evidence.packages[o] = plan[o].expected
         /\ ~Newer(plan[o].expected, plan[o].target)
         /\ Valid(plan[o].expected) # Valid(plan[o].target)
<1>1. \A status \in Statuses \ {"none"} : \A reason, version :
        Item(status, reason, version) # NoItem
  BY DEF Item, NoItem
<1>2. QED
  BY <1>1 DEF Preflight, Matches, Statuses

LEMMA PreflightAccounted ==
  ASSUME Typing, NEW o \in Ops, NEW evidence \in Evidence, commands[o] = NoCommand,
         NEW item, item = Preflight(o, evidence), item # NoItem
  PROVE  Accounted(o, item)
<1> DEFINE version == evidence.packages[o]
           expected == plan[o].expected
           target == plan[o].target
<1>1. expected \in PlanVersion /\ target \in PlanVersion
  BY PlanFacts DEF Typing
<1>2. /\ expected # Missing /\ (Newer(expected, target) => ~Newer(target, expected))
      /\ Valid(expected) = Valid(target) => ~Newer(target, expected)
      /\ PlanStyles = {"plain"} => Valid(expected) = expected /\ Valid(target) = target
  BY <1>1, VersionFacts
<1>3. CASE item \in {Item("unknown", "inventory", Missing),
                     Item("unknown", "changed", Missing)}
  <2>1. item.status = "unknown" /\ item.observed = Missing
    BY <1>3 DEF Item
  <2>2. QED
    BY <2>1 DEF Accounted, ValidItem
<1>4. CASE item = Item("conflicted", "missing", Missing)
  <2>1. item.status = "conflicted" /\ item.reason = "missing" /\ item.observed = Missing
    BY <1>4 DEF Item
  <2>2. QED
    BY <2>1 DEF Accounted, ValidItem
<1>5. CASE item = Item("conflicted", "mismatch", version)
           /\ version \notin {Missing, expected}
  <2>1. item.status = "conflicted" /\ item.reason = "mismatch" /\ item.observed = version
    BY <1>5 DEF Item
  <2>2. QED
    BY <1>2, <1>5, <2>1 DEF Accounted, ValidItem
<1>6. CASE item = Item("skipped", "downgrade", expected) /\ Newer(expected, target)
  <2>1. item.status = "skipped" /\ item.reason = "downgrade" /\ item.observed = expected
    BY <1>6 DEF Item
  <2>2. QED
    BY <1>2, <1>6, <2>1 DEF Accounted, ValidItem
<1>7. CASE item = Item("skipped", "no-change", expected)
           /\ Valid(expected) = Valid(target)
  <2>1. item.status = "skipped" /\ item.reason = "no-change" /\ item.observed = expected
    BY <1>7 DEF Item
  <2>2. QED
    BY <1>2, <1>7, <2>1 DEF Accounted, ValidItem
<1>8. QED
  BY <1>3, <1>4, <1>5, <1>6, <1>7, PreflightCases

LEMMA PostCommandCases ==
  ASSUME NEW o, NEW command \in Command, NEW evidence,
         NEW item, item = PostCommand(o, command, evidence)
  PROVE  LET version == evidence.packages[o]
             expected == plan[o].expected
             target == plan[o].target
         IN  \/ Unsafe(command) /\ item = Item("unknown", "unobservable", Missing)
             \/ /\ ~Unsafe(command)
                /\ item \in {Item("unknown", "inventory", Missing),
                            Item("unknown", "changed", Missing)}
             \/ /\ ~Unsafe(command) /\ evidence.status = "confirmed"
                /\ evidence.realm = "planned"
                /\ \/ item = Item("applied", "applied", version) /\ version = target
                   \/ /\ item = Item("conflicted", "post-state", version)
                      /\ version \notin {Missing, expected, target}
                   \/ /\ item = Item("failed", "timeout", version)
                      /\ version # target /\ version \in {Missing, expected}
                      /\ command.termination = "timeout"
                   \/ /\ item = Item("failed", "command", version)
                      /\ version # target /\ version \in {Missing, expected}
                      /\ command.termination \in {"exit-0", "exit-1", "signal"}
                   \/ /\ item = Item("failed", "missing", version)
                      /\ version # target /\ version = Missing
                      /\ command.termination = "exit-0"
<1>1. Unsafe(command) \/ command.termination \in {"exit-0", "exit-1", "signal", "timeout"}
  BY DEF Command, Unsafe
<1>2. CASE Unsafe(command)
  BY <1>2 DEF PostCommand
<1>3. CASE ~Unsafe(command) /\ evidence.status # "confirmed"
  BY <1>3 DEF PostCommand
<1>4. CASE ~Unsafe(command) /\ evidence.status = "confirmed" /\ ~Matches(o, evidence)
  BY <1>4 DEF PostCommand
<1> DEFINE version == evidence.packages[o]
           expected == plan[o].expected
           target == plan[o].target
<1>5. CASE ~Unsafe(command) /\ evidence.status = "confirmed" /\ Matches(o, evidence)
  <2>1. evidence.realm = "planned"
    BY <1>5 DEF Matches
  <2>2. CASE version = target
    BY <1>5, <2>1, <2>2 DEF PostCommand
  <2>3. CASE version # target /\ version \notin {Missing, expected}
    BY <1>5, <2>1, <2>3 DEF PostCommand
  <2>4. CASE version # target /\ version \in {Missing, expected}
    <3>1. CASE command.termination = "timeout"
      BY <1>5, <2>1, <2>4, <3>1 DEF PostCommand
    <3>2. CASE command.termination \in {"exit-1", "signal"}
      BY <1>5, <2>1, <2>4, <3>2 DEF PostCommand
    <3>3. CASE command.termination = "exit-0"
      BY <1>5, <2>1, <2>4, <3>3 DEF PostCommand
    <3>4. QED
      BY <1>1, <1>5, <3>1, <3>2, <3>3
  <2>5. QED
    BY <2>2, <2>3, <2>4
<1>6. QED
  BY <1>2, <1>3, <1>4, <1>5

LEMMA CommandIsSome ==
  ASSUME NEW command \in Command
  PROVE  command # NoCommand
<1>1. command.termination # "none"
  BY DEF Command
<1>2. QED
  BY <1>1 DEF NoCommand

LEMMA PostCommandAccounted ==
  ASSUME Typing, NEW o \in Ops, NEW evidence \in Evidence, commands[o] \in Command,
         NEW item, item = PostCommand(o, commands[o], evidence)
  PROVE  Accounted(o, item)
<1> DEFINE version == evidence.packages[o]
           expected == plan[o].expected
           target == plan[o].target
<1>1. /\ expected \in PlanVersion /\ target \in PlanVersion
      /\ PlanStyles = {"plain"} => Valid(expected) = expected /\ Valid(target) = target
  BY PlanFacts, VersionFacts DEF Typing
<1>2. commands[o] # NoCommand
  BY CommandIsSome
<1>3. CASE Unsafe(commands[o]) /\ item = Item("unknown", "unobservable", Missing)
  <2>1. item.status = "unknown" /\ item.reason = "unobservable" /\ item.observed = Missing
    BY <1>3 DEF Item
  <2>2. QED
    BY <1>2, <1>3, <2>1 DEF Accounted, ValidItem
<1>4. CASE /\ ~Unsafe(commands[o])
           /\ item \in {Item("unknown", "inventory", Missing),
                        Item("unknown", "changed", Missing)}
  <2>1. item.status = "unknown" /\ item.reason # "unobservable" /\ item.observed = Missing
    BY <1>4 DEF Item
  <2>2. QED
    BY <1>2, <1>4, <2>1 DEF Accounted, ValidItem
<1>5. CASE /\ ~Unsafe(commands[o])
           /\ item = Item("applied", "applied", version) /\ version = target
  <2>1. item.status = "applied" /\ item.reason = "applied" /\ item.observed = target
    BY <1>5 DEF Item
  <2>2. QED
    BY <1>1, <1>2, <1>5, <2>1 DEF Accounted, ValidItem
<1>6. CASE /\ ~Unsafe(commands[o])
           /\ item = Item("conflicted", "post-state", version)
           /\ version \notin {Missing, expected, target}
  <2>1. item.status = "conflicted" /\ item.reason = "post-state" /\ item.observed = version
    BY <1>6 DEF Item
  <2>2. QED
    BY <1>1, <1>2, <1>6, <2>1 DEF Accounted, ValidItem
<1>7. CASE /\ ~Unsafe(commands[o]) /\ item = Item("failed", "timeout", version)
           /\ version # target /\ version \in {Missing, expected}
           /\ commands[o].termination = "timeout"
  <2>1. item.status = "failed" /\ item.reason = "timeout" /\ item.observed = version
    BY <1>7 DEF Item
  <2>2. QED
    BY <1>1, <1>2, <1>7, <2>1 DEF Accounted, ValidItem
<1>8. CASE /\ ~Unsafe(commands[o]) /\ item = Item("failed", "command", version)
           /\ version # target /\ version \in {Missing, expected}
           /\ commands[o].termination \in {"exit-0", "exit-1", "signal"}
  <2>1. item.status = "failed" /\ item.reason = "command" /\ item.observed = version
    BY <1>8 DEF Item
  <2>2. QED
    BY <1>1, <1>2, <1>8, <2>1 DEF Accounted, ValidItem
<1>9. CASE /\ ~Unsafe(commands[o]) /\ item = Item("failed", "missing", version)
           /\ version # target /\ version = Missing
           /\ commands[o].termination = "exit-0"
  <2>1. item.status = "failed" /\ item.reason = "missing" /\ item.observed = version
    BY <1>9 DEF Item
  <2>2. QED
    BY <1>1, <1>2, <1>9, <2>1 DEF Accounted, ValidItem
<1>10. QED
  BY <1>3, <1>4, <1>5, <1>6, <1>7, <1>8, <1>9, PostCommandCases

\* What is accounted for stays so while the operation's command does.
LEMMA AccountedStays ==
  ASSUME NEW o, NEW item, Accounted(o, item), plan' = plan, commands'[o] = commands[o]
  PROVE  Accounted(o, item)'
BY DEF Accounted, ValidItem

-----------------------------------------------------------------------------
(* The loop, and the items *)

\* Results that Continue is called with: what is accounted for, and operations
\* whose command has not run.
Results(results) ==
  /\ results \in [Ops -> Items]
  /\ \A o \in Ops : results[o] # NoItem => Accounted(o, results[o])
  /\ \A o \in Ops : results[o] = NoItem => commands[o] = NoCommand

LEMMA ContinueKept ==
  ASSUME Typing, NEW results, Results(results), Continue(results),
         \A o \in stray : commands[o] # NoCommand /\ ~commands[o].confirmed
  PROVE  LoopKept' /\ ItemsKept'
<1>1. plan' = plan /\ commands' = commands /\ stray' = stray /\ Ops' = Ops
  BY SamePlan DEF Continue
<1>2. CASE NextOperation(results)
  <2> DEFINE next == Min(Ready(results))
  <2>1. next \in Ops /\ results[next] = NoItem
    BY <1>2, MinOfNaturals, PlanFacts DEF NextOperation, Ready, Typing
  <2>2. /\ items' = results /\ at' = next /\ pc' = "immediate"
        /\ who' = plan[next].manager /\ ~unsafeProcess
    BY <1>2 DEF NextOperation, Inspect
  <2> HIDE DEF next
  <2>3. ~unsafeProcess'
    BY <1>1, <2>2 DEF unsafeProcess, Unsafe
  <2>4. LoopKept'
    BY <1>1, <2>1, <2>2, <2>3 DEF LoopKept, Results, NoItem, NoCommand
  <2>5. ItemsKept'
    BY <1>1, <2>2, AccountedStays DEF ItemsKept, Results, NoItem
  <2>6. QED
    BY <2>4, <2>5
<1>3. CASE EndOfPlan(results)
  <2> DEFINE rest == Item("unknown", "unobservable", Missing)
  <2>1. /\ items' = [o \in Ops |-> IF o \in Ready(results) THEN rest ELSE results[o]]
        /\ pc' = IF \A o \in Ops : ValidItem(o, items'[o]) THEN "answered" ELSE "thrown"
    BY <1>3 DEF EndOfPlan
  <2>2. rest # NoItem /\ rest.status = "unknown" /\ rest.observed = Missing
    BY DEF Item, NoItem
  <2> HIDE DEF rest
  <2>3. ASSUME NEW o \in Ops PROVE items'[o] # NoItem /\ Accounted(o, items'[o])
    <3>1. CASE o \in Ready(results)
      <4>1. items'[o] = rest /\ commands[o] = NoCommand
        BY <2>1, <3>1 DEF Ready, Results
      <4>2. QED
        BY <2>2, <4>1 DEF Accounted, ValidItem
    <3>2. CASE o \notin Ready(results)
      BY <2>1, <3>2 DEF Ready, Results
    <3>3. QED
      BY <3>1, <3>2
  <2>4. PlanStyles = {"plain"} => pc' # "thrown"
    BY <2>1, <2>3 DEF Accounted
  <2>5. LoopKept'
    BY <1>1, <2>1, <2>3 DEF LoopKept, Ready, NoItem, NoCommand
  <2>6. ItemsKept'
    BY <1>1, <2>3, <2>4, AccountedStays DEF ItemsKept, NoItem
  <2>7. QED
    BY <2>5, <2>6
<1>4. QED
  BY <1>2, <1>3 DEF Continue

\* Steps that touch neither items nor commands, nor where the loop is.
LEMMA QuietKept ==
  ASSUME Typing, LoopKept, ItemsKept,
         UNCHANGED <<plan, items, commands, stray, pc, at>>, who' = who \/ pc = "preflight"
  PROVE  LoopKept' /\ ItemsKept'
<1>1. Ops' = Ops /\ (unsafeProcess' <=> unsafeProcess) /\ Ready(items)' = Ready(items)
  BY DEF Ops, unsafeProcess, Unsafe, Ready, NoItem, NoCommand
<1>2. LoopKept'
  BY <1>1 DEF LoopKept, NoItem, NoCommand
<1>3. ItemsKept'
  BY <1>1, AccountedStays DEF ItemsKept, NoItem
<1>4. QED
  BY <1>2, <1>3

LEMMA LoopStep ==
  ASSUME Typing, LoopKept, ItemsKept, [Next]_vars
  PROVE  LoopKept' /\ ItemsKept'
<1> USE TypingFacts
<1>1. CASE InspectionFails \/ InspectVersion \/ InspectInventory \/ InspectRealm
  BY <1>1, QuietKept DEF InspectionFails, InspectVersion, InspectInventory, InspectRealm,
     Process
<1>2. CASE PreflightNext
  BY <1>2, QuietKept DEF PreflightNext
<1>3. CASE PreflightDone
  <2> DEFINE evidence(o) == IF plan[o].manager = who THEN look
                            ELSE seen[plan[o].manager]
             results == [o \in Ops |-> Preflight(o, evidence(o))]
  <2>1. /\ Continue(results)
        /\ \A o \in Ops : evidence(o) \in Evidence /\ commands[o] = NoCommand
    BY <1>3 DEF PreflightDone, LoopKept
  <2>2. results \in [Ops -> Items] /\ \A o \in Ops : results[o] = Preflight(o, evidence(o))
    <3> HIDE DEF evidence
    <3> QED
      BY <2>1, PreflightTyped
  <2> HIDE DEF results, evidence
  <2>3. Results(results)
    BY <2>1, <2>2, PreflightAccounted DEF Results
  <2>4. QED
    BY <2>1, <2>3, ContinueKept DEF LoopKept
<1>4. CASE GiveUp
  <2> DEFINE results == [items EXCEPT ![at] = Preflight(at, look)]
  <2>1. Continue(results) /\ Preflight(at, look) # NoItem /\ pc = "immediate"
    BY <1>4 DEF GiveUp
  <2>2. commands[at] = NoCommand /\ Preflight(at, look) \in Items
    BY <2>1, PreflightTyped DEF LoopKept
  <2>3. Accounted(at, Preflight(at, look))
    BY <2>1, <2>2, PreflightAccounted
  <2>4. \A o \in Ops \ {at} : results[o] = items[o]
    OBVIOUS
  <2>5. results[at] = Preflight(at, look) /\ results \in [Ops -> Items]
    BY <2>2
  <2> HIDE DEF results
  <2>6. Results(results)
    BY <2>1, <2>3, <2>4, <2>5 DEF Results, LoopKept, ItemsKept
  <2>7. QED
    BY <2>1, <2>6, ContinueKept DEF LoopKept
<1>5. CASE StartCommand
  <2>1. UNCHANGED <<plan, items, commands, stray, at, who>> /\ pc = "immediate"
        /\ pc' = "running"
    BY <1>5 DEF StartCommand
  <2>2. Ops' = Ops /\ (unsafeProcess' <=> unsafeProcess)
    BY <2>1 DEF Ops, unsafeProcess, Unsafe, NoCommand
  <2>3. LoopKept'
    BY <2>1, <2>2 DEF LoopKept, NoItem, NoCommand
  <2>4. ItemsKept'
    BY <2>1, <2>2, AccountedStays DEF ItemsKept, NoItem
  <2>5. QED
    BY <2>3, <2>4
<1>6. CASE CommandEnds
  <2>1. PICK command \in Command :
          /\ commands' = [commands EXCEPT ![at] = command]
          /\ stray' \in {stray} \cup IF command.confirmed THEN {} ELSE {stray \cup {at}}
    BY <1>6 DEF CommandEnds
  <2>2. /\ UNCHANGED <<plan, items, at>> /\ pc = "running" /\ pc' = "observe"
        /\ who' = plan[at].manager /\ Ops' = Ops
    BY <1>6 DEF CommandEnds, Inspect, Ops
  <2>3. /\ commands'[at] = command /\ command # NoCommand
        /\ \A o \in Ops \ {at} : commands'[o] = commands[o]
    BY <2>1, CommandIsSome
  <2>4. \A o \in stray : FALSE
    BY <2>2 DEF LoopKept, unsafeProcess, Unsafe
  <2>5. \A o \in stray' : o = at /\ ~command.confirmed
    BY <2>1, <2>4
  <2>6. LoopKept'
    BY <2>2, <2>3, <2>5 DEF LoopKept, NoItem, NoCommand
  <2>7. ItemsKept'
    <3>1. \A o \in Ops : items[o] # NoItem => o # at
      BY <2>2 DEF LoopKept
    <3>2. QED
      BY <2>2, <2>3, <3>1, AccountedStays DEF ItemsKept, NoItem
  <2>8. QED
    BY <2>6, <2>7
<1>7. CASE Observe
  <2> DEFINE item == PostCommand(at, commands[at], look)
             results == [items EXCEPT ![at] = item]
  <2>1. Continue(results) /\ pc = "observe"
    BY <1>7 DEF Observe
  <2>2. commands[at] \in Command
    BY <2>1 DEF LoopKept, Commands
  <2>3. item \in Items /\ item # NoItem /\ Accounted(at, item)
    BY <2>2, PostCommandTyped, PostCommandAccounted
  <2> HIDE DEF item
  <2>4. results[at] = item /\ \A o \in Ops \ {at} : results[o] = items[o]
    OBVIOUS
  <2>5. results \in [Ops -> Items]
    BY <2>3
  <2> HIDE DEF results
  <2>6. Results(results)
    BY <2>1, <2>3, <2>4, <2>5 DEF Results, LoopKept, ItemsKept
  <2>7. QED
    BY <2>1, <2>6, ContinueKept DEF LoopKept
<1>8. CASE Machine
  BY <1>8, MachineFacts, QuietKept
<1>9. CASE UNCHANGED vars
  BY <1>9, QuietKept DEF vars
<1>10. QED
  BY <1>1, <1>2, <1>3, <1>4, <1>5, <1>6, <1>7, <1>8, <1>9 DEF Next, Engine, Machine

-----------------------------------------------------------------------------
(* Inspections *)

\* A new inspection: what the package's version is now was shown.
LEMMA NewLook ==
  ASSUME Typing, LooksKept, UNCHANGED <<realm, installed, moves>>,
         look' = Blank, pc' \in {"immediate", "observe"} => shown' = {InRealm(at')}
  PROVE  LooksKept'
BY BlankTyped DEF LooksKept, InRealm

LEMMA LooksStep ==
  ASSUME Typing, LoopKept, LooksKept, [Next]_vars
  PROVE  LooksKept'
<1> USE TypingFacts
<1>1. moves \in Nat
  OBVIOUS
<1> DEFINE inspecting == pc \in {"immediate", "observe"}
<1>2. inspecting => who = plan[at].manager
  BY DEF LoopKept
<1>3. ASSUME UNCHANGED <<realm, installed, moves, pc, at, who, shown>>,
             inspecting /\ look'.next = "realm" =>
               /\ who \notin OneOutput
               /\ \/ look'.packages[at] \in shown
                  \/ moves > 0 /\ (realm[who] = "planned" => moves > 1),
             inspecting /\ look'.next = "done" /\ look'.status = "confirmed"
                        /\ look'.realm = "planned" =>
               \/ look'.packages[at] \in shown
               \/ moves > 1 /\ who \notin OneOutput
      PROVE  LooksKept'
  BY <1>3 DEF LooksKept, InRealm
<1>4. CASE InspectionFails
  <2>1. UNCHANGED <<realm, installed, moves, pc, at, who, shown>>
    BY <1>4 DEF InspectionFails, Process, world, effort
  <2>2. look'.next = "done" /\ look'.status = "failed"
    BY <1>4 DEF InspectionFails, Blank
  <2>3. QED
    BY <1>3, <2>1, <2>2
<1>5. CASE InspectVersion
  <2>1. UNCHANGED <<realm, installed, moves, pc, at, who, shown>>
    BY <1>5 DEF InspectVersion, Process, world, effort
  <2>2. look'.next = "inventory"
    BY <1>5 DEF InspectVersion, Evidence
  <2>3. QED
    BY <1>3, <2>1, <2>2
<1>6. CASE InspectInventory
  <2> DEFINE found == [o \in Ops |-> IF plan[o].manager = who
                                     THEN installed[o][realm[who]] ELSE Missing]
  <2>1. UNCHANGED <<realm, installed, moves, pc, at, who, shown>>
    BY <1>6 DEF InspectInventory, Process, world, effort
  <2>2. inspecting => found[at] = installed[at][realm[who]]
    BY <1>2
  <2>3. /\ inspecting /\ realm[who] = "planned" => found[at] \in shown
        /\ realm[who] # "planned" => moves > 0
    BY <1>1, <2>2 DEF LooksKept, InRealm
  <2>4. look' = IF who \in OneOutput
                THEN [look EXCEPT !.packages = found, !.realm = realm[who],
                                  !.next = "done"]
                ELSE [look EXCEPT !.packages = found, !.next = "realm"]
    BY <1>6 DEF InspectInventory
  <2> HIDE DEF found
  <2>5. look'.packages = found
    BY <2>4 DEF Evidence
  <2>6. who \in OneOutput => look'.realm = realm[who] /\ look'.next = "done"
    BY <2>4 DEF Evidence
  <2>7. who \notin OneOutput => look'.next = "realm"
    BY <2>4 DEF Evidence
  <2>8. QED
    BY <1>3, <2>1, <2>3, <2>5, <2>6, <2>7
<1>7. CASE InspectRealm
  <2>1. /\ UNCHANGED <<realm, installed, moves, pc, at, who, shown>>
        /\ look.next = "realm"
    BY <1>7 DEF InspectRealm, Process, world, effort
  <2>2. look' = [look EXCEPT !.realm = realm[who], !.next = "done"]
    BY <1>7 DEF InspectRealm
  <2>3. /\ look'.packages = look.packages /\ look'.realm = realm[who]
        /\ look'.next = "done"
    BY <2>2 DEF Evidence
  <2>4. inspecting => /\ who \notin OneOutput
                      /\ \/ look.packages[at] \in shown
                         \/ moves > 0 /\ (realm[who] = "planned" => moves > 1)
    BY <2>1 DEF LooksKept
  <2>5. QED
    BY <1>3, <2>1, <2>3, <2>4
<1>8. CASE PreflightNext
  BY <1>8, NewLook DEF PreflightNext, Inspect, world, effort
<1>9. ASSUME NEW results, Continue(results)
      PROVE  LooksKept'
  <2>1. UNCHANGED <<plan, realm, installed, moves>>
    BY <1>9 DEF Continue, world, effort
  <2>2. CASE NextOperation(results)
    <3>1. at' = Min(Ready(results)) /\ look' = Blank
          /\ shown' = {InRealm(Min(Ready(results)))}
      BY <2>2 DEF NextOperation, Inspect
    <3>2. QED
      BY <2>1, <3>1, NewLook
  <2>3. CASE EndOfPlan(results)
    BY <2>1, <2>3 DEF EndOfPlan, LooksKept
  <2>4. QED
    BY <1>9, <2>2, <2>3 DEF Continue
<1>10. CASE PreflightDone \/ GiveUp \/ Observe
  BY <1>9, <1>10 DEF PreflightDone, GiveUp, Observe
<1>11. CASE StartCommand
  BY <1>11 DEF StartCommand, LooksKept, world, effort
<1>12. CASE CommandEnds
  <2>1. UNCHANGED <<realm, installed, moves, at>> /\ look' = Blank /\ shown' = {InRealm(at)}
    BY <1>12 DEF CommandEnds, Inspect, world, effort
  <2>2. QED
    BY <2>1, NewLook
<1>13. CASE Machine
  <2>1. /\ UNCHANGED <<pc, at, who, look>>
        /\ inspecting => shown' = shown \cup {InRealm(at)'}
    BY <1>13, MachineFacts DEF InRealm
  <2>2. CASE UNCHANGED <<realm, moves>>
    BY <2>1, <2>2 DEF LooksKept
  <2>3. CASE /\ UNCHANGED <<installed, edits>> /\ moves' = moves + 1
             /\ \E m \in Managers :
                  realm' = [realm EXCEPT ![m] = IF @ = "planned" THEN "other"
                                                ELSE "planned"]
    <3>1. moves' > 0 /\ (moves > 0 => moves' > 1)
      BY <1>1, <2>3
    <3>2. realm'[who] = "planned" => realm[who] = "planned" \/ moves > 0
      BY <1>1, <2>3 DEF LooksKept, Realms
    <3>3. realm'[who] = "planned" /\ moves > 0 => moves' > 1
      BY <3>1
    <3>4. inspecting /\ look.next = "realm" =>
            /\ who \notin OneOutput
            /\ \/ look.packages[at] \in shown'
               \/ moves' > 0 /\ (realm'[who] = "planned" => moves' > 1)
      BY <2>1, <3>1 DEF LooksKept
    <3>5. inspecting /\ look.next = "done" /\ look.status = "confirmed"
                     /\ look.realm = "planned" =>
            \/ look.packages[at] \in shown'
            \/ moves' > 1 /\ who \notin OneOutput
      BY <1>1, <2>1, <3>1 DEF LooksKept
    <3>6. moves' # 0
      BY <3>1
    <3>7. QED
      BY <2>1, <3>4, <3>5, <3>6 DEF LooksKept
  <2>4. QED
    BY <1>13, <2>2, <2>3, MachineFacts
<1>14. CASE UNCHANGED vars
  BY <1>14 DEF vars, world, effort, LooksKept, InRealm
<1>15. QED
  BY <1>4, <1>5, <1>6, <1>7, <1>8, <1>10, <1>11, <1>12, <1>13, <1>14
     DEF Next, Engine, Machine

-----------------------------------------------------------------------------
(* The theorems *)

LEMMA InitKept == Init => GlobalInvariant
<1> SUFFICES ASSUME Init PROVE GlobalInvariant
  OBVIOUS
<1>1. PlanKept
  BY DEF Init, PlanKept, PlannedOperation, PlanVersion
<1>2. Min(Planned) \in Managers
  BY <1>1, PlanFacts, MinOfNaturals
<1>3. NoItem \in Items
  BY MissingIsNoVersion DEF NoItem, Item, Items, Statuses, Reasons
<1>4. installed \in [Ops -> [Realms -> Installed]]
  BY <1>1, PlanFacts, MissingIsNoVersion DEF Init, Installed
<1>5. Typing
  <2>1. MaxEdits[Size] \in Nat /\ MaxMoves[Size] \in Nat
    BY <1>1, PlanFacts, GlobalAssumption
  <2>2. items \in [Ops -> Items] /\ commands \in [Ops -> Commands]
    BY <1>3 DEF Init, Commands
  <2>3. \A o \in Ops : /\ items[o].status \in {"none"} /\ items[o].observed \in Installed
                       /\ commands[o] = NoCommand
    BY MissingIsNoVersion DEF Init, NoItem, Item
  <2>4. pinned \subseteq Managers
    BY <1>1, PlanFacts DEF Init
  <2>5. edits \in 0 .. MaxEdits[Size] /\ moves \in 0 .. MaxMoves[Size]
    BY <2>1 DEF Init
  <2>6. realm \in [Managers -> Realms] /\ at \in Ops /\ who \in Managers
        /\ look \in Evidence /\ seen \in [Managers -> Evidence]
    BY <1>1, <1>2, BlankTyped, PlanFacts DEF Init, Realms
  <2>7. TypeOK
    BY <1>4, <2>3, <2>4, <2>5, <2>6 DEF TypeOK, Init
  <2>8. QED
    BY <1>1, <2>2, <2>7 DEF Typing
<1>6. LoopKept
  BY DEF Init, LoopKept
<1>7. ItemsKept
  BY DEF Init, ItemsKept
<1>8. LooksKept
  BY DEF Init, LooksKept
<1>9. QED
  BY <1>5, <1>6, <1>7, <1>8 DEF GlobalInvariant

\* The types, where the loop is, what the items say and what an inspection has
\* found, in every call of applyGlobalPlan (global-apply/index.ts).
THEOREM GlobalInvariance == Spec => []GlobalInvariant
<1>1. GlobalInvariant /\ [Next]_vars => GlobalInvariant'
  <2> SUFFICES ASSUME GlobalInvariant, [Next]_vars PROVE GlobalInvariant'
    OBVIOUS
  <2> USE DEF GlobalInvariant
  <2>1. Typing'
    <3>1. CASE Engine
      BY <3>1, EngineTyped
    <3>2. CASE Machine
      BY <3>2, MachineTyped
    <3>3. CASE UNCHANGED vars
      BY <3>3, TypingFacts, TypingFrom DEF vars, world, effort
    <3>4. QED
      BY <3>1, <3>2, <3>3 DEF Next, Machine
  <2>2. LoopKept' /\ ItemsKept'
    BY LoopStep
  <2>3. LooksKept'
    BY LooksStep
  <2>4. QED
    BY <2>1, <2>2, <2>3
<1>2. QED
  BY <1>1, InitKept, PTL DEF Spec

\* No update command is started while an earlier one may still be running
\* (processUnsafe ends the loop, index.ts).
THEOREM StrayCommandsStop == Spec => []StrayStopsCommands
<1>1. GlobalInvariant => StrayStopsCommands
  <2> SUFFICES ASSUME GlobalInvariant, pc = "running" PROVE stray = {}
    BY DEF StrayStopsCommands
  <2>1. ASSUME NEW o \in stray PROVE FALSE
    <3>1. o \in Ops
      BY TypingFacts DEF GlobalInvariant
    <3>2. QED
      BY <3>1 DEF GlobalInvariant, LoopKept, unsafeProcess, Unsafe
  <2>2. QED
    BY <2>1
<1>2. QED
  BY <1>1, GlobalInvariance, PTL

\* A result that says all is well accounts for every operation
\* (reconcileGlobalStatus, index.ts).
THEOREM SuccessAccountsForAll == Spec => []SuccessIsComplete
<1>1. GlobalInvariant => SuccessIsComplete
  <2> SUFFICES ASSUME GlobalInvariant, pc = "answered",
                      Outcome(items) \in {"applied", "noop"}, NEW o \in Ops
               PROVE  /\ items[o].observed # Missing
                      /\ ~Newer(plan[o].target, items[o].observed)
    BY DEF SuccessIsComplete
  <2>1. items[o] \in Items /\ items[o] # NoItem
    BY TypingFacts DEF GlobalInvariant, LoopKept, Ready
  <2>2. Accounted(o, items[o])
    BY <2>1 DEF GlobalInvariant, ItemsKept
  <2>3. items[o].status \notin {"conflicted", "failed", "unknown"}
    BY DEF Outcome
  <2>4. items[o].status \in {"applied", "skipped"}
    BY <2>1, <2>2, <2>3 DEF Items, Statuses, Accounted
  <2>5. plan[o].expected \in PlanVersion /\ plan[o].target \in PlanVersion
    BY PlanFacts DEF GlobalInvariant, Typing
  <2>6. plan[o].expected # Missing /\ plan[o].target # Missing
        /\ ~Newer(plan[o].target, plan[o].target)
    BY <2>5, VersionFacts
  <2>7. QED
    BY <2>2, <2>4, <2>6 DEF Accounted
<1>2. QED
  BY <1>1, GlobalInvariance, PTL

\* Where plans spell versions as semver does, the result always passes
\* assertGlobalApplyResult, and what was changed is reported (index.ts).
THEOREM ResultsAreAccepted ==
  ASSUME PlanStyles = {"plain"}
  PROVE  Spec => []ResultAccepted
<1>1. GlobalInvariant => ResultAccepted
  BY DEF GlobalInvariant, ItemsKept, ResultAccepted
<1>2. QED
  BY <1>1, GlobalInvariance, PTL

\* What is said to have been observed was so when it was looked for, and a
\* command is started only where the plan was just confirmed (inspectGlobalManager,
\* index.ts).
THEOREM LooksStayFresh == Spec => LooksAreFresh
<1> DEFINE Observed == (pc = "observe" /\ pc' # "observe" /\ items'[at].status # "unknown"
                          /\ Trustworthy(at)) => items'[at].observed \in shown
           Started == (pc = "immediate" /\ pc' = "running" /\ Trustworthy(at)) =>
                        /\ plan[at].expected \in shown
                        /\ Newer(plan[at].target, plan[at].expected)
<1>1. GlobalInvariant /\ [Next]_vars => Observed /\ Started
  <2> SUFFICES ASSUME GlobalInvariant, [Next]_vars PROVE Observed /\ Started
    OBVIOUS
  <2> USE DEF GlobalInvariant
  <2>1. Typing /\ LoopKept /\ LooksKept /\ at \in Ops /\ look \in Evidence /\ moves \in Nat
    BY TypingFacts
  <2>2. ASSUME Trustworthy(at), pc \in {"immediate", "observe"}, look.next = "done",
               look.status = "confirmed", look.realm = "planned"
        PROVE  look.packages[at] \in shown
    BY <2>1, <2>2 DEF LooksKept, LoopKept, Trustworthy
  <2>3. Observed
    <3> SUFFICES ASSUME pc = "observe", pc' # "observe", items'[at].status # "unknown",
                        Trustworthy(at)
                 PROVE  items'[at].observed \in shown
      OBVIOUS
    <3>1. Observe
      BY DEF Next, Engine, InspectionFails, InspectVersion, InspectInventory,
         InspectRealm, Process, PreflightNext, PreflightDone, GiveUp, StartCommand,
         CommandEnds, CommandWrites, StrayWrites, OthersInstall, OthersMove, Outside,
         vars
    <3> DEFINE item == PostCommand(at, commands[at], look)
               results == [items EXCEPT ![at] = item]
    <3>2. Continue(results) /\ look.next = "done"
      BY <3>1 DEF Observe
    <3>3. commands[at] \in Command
      BY <2>1, TypingFacts DEF LoopKept, Commands
    <3>4. item # NoItem
      BY <2>1, PostCommandTyped
    <3>5. item.status = "unknown" \/
            (look.status = "confirmed" /\ look.realm = "planned"
               /\ item.observed = look.packages[at])
      <4> HIDE DEF item
      <4>1. item = PostCommand(at, commands[at], look)
        BY DEF item
      <4>2. \A status, reason, version :
              /\ Item(status, reason, version).status = status
              /\ Item(status, reason, version).observed = version
        BY DEF Item
      <4>3. QED
        BY <3>3, <4>1, <4>2, PostCommandCases
    <3> HIDE DEF item
    <3>6. results[at] = item
      BY <2>1, TypingFacts
    <3>7. items'[at] = item
      BY <2>1, <3>2, <3>4, <3>6 DEF Continue, NextOperation, EndOfPlan, Ready
    <3>8. QED
      BY <2>2, <3>2, <3>5, <3>7
  <2>4. Started
    <3> SUFFICES ASSUME pc = "immediate", pc' = "running", Trustworthy(at)
                 PROVE  /\ plan[at].expected \in shown
                        /\ Newer(plan[at].target, plan[at].expected)
      OBVIOUS
    <3>1. StartCommand
      BY DEF Next, Engine, InspectionFails, InspectVersion, InspectInventory,
         InspectRealm, Process, PreflightNext, PreflightDone, GiveUp, Observe, Continue,
         NextOperation, EndOfPlan, CommandEnds, CommandWrites, StrayWrites,
         OthersInstall, OthersMove, Outside, vars
    <3>2. look.next = "done" /\ Preflight(at, look) = NoItem
      BY <3>1 DEF StartCommand
    <3>3. /\ look.status = "confirmed" /\ look.realm = "planned"
          /\ look.packages[at] = plan[at].expected
          /\ ~Newer(plan[at].expected, plan[at].target)
          /\ Valid(plan[at].expected) # Valid(plan[at].target)
      BY <2>1, <3>2, ReadyMeans
    <3>4. plan[at].expected \in PlanVersion /\ plan[at].target \in PlanVersion
      BY <2>1, PlanFacts DEF Typing
    <3>5. QED
      BY <2>2, <3>2, <3>3, <3>4, VersionFacts
  <2>5. QED
    BY <2>3, <2>4
<1>2. QED
  BY <1>1, GlobalInvariance, PTL DEF LooksAreFresh, Spec
=============================================================================
