--------------------------------- MODULE Updates ---------------------------------
(***************************************************************************)
(* From the options of a check to the values it leaves: the policy says    *)
(* which dependencies are looked at (Policy), the registry and the mode    *)
(* say where each may go (VersionFilter), an addon may add changes of its  *)
(* own, and what was selected is handed to the apply engine and read back  *)
(* (LegacyPlan).  A check may be run again, after the registry aged.       *)
(*                                                                         *)
(* A setup is a repository with its options: packages with their           *)
(* dependencies, the values at their places, the registry, the layers of   *)
(* the configuration, and what an addon adds to the selection of the first *)
(* package.                                                                *)
(***************************************************************************)
EXTENDS Policy, VersionFilter, LegacyPlan

CONSTANTS Setups,  \* the repositories
          Rounds   \* bound: checks in a row

\* Values, registries and options are well formed, and a name is spelled by one
\* pattern; a dependency is known to the registry, and what it was read from is
\* where a change of it is written.
ASSUME SetupsAssumption ==
  \A s \in Setups :
    /\ \A place \in DOMAIN s.value : s.value[place] \in Specs
    /\ \A name \in DOMAIN s.registry : s.registry[name] \in RegistryFacts
    /\ s.config \in LayerFacts /\ s.invocation \in LayerFacts
    /\ s.flags \in [workspaces : SUBSET Workspaces, catalogs : SUBSET Catalogs]
    /\ \A e, f \in ToSet(s.config.packageMode \o s.invocation.packageMode) :
         e.pattern.spells = f.pattern.spells /\ e.pattern.spells \in Names
           => e.pattern = f.pattern
    /\ s.opts \in [includeLocked : BOOLEAN, cooldown : BOOLEAN, force : BOOLEAN]
    /\ \A i \in DOMAIN s.packages :
         /\ Len(s.packages[i].deps) \in Nat
         /\ s.packages[i].manager \in Managers \cup {"unknown"}
         /\ \A j \in DOMAIN s.packages[i].deps :
              LET dep == s.packages[i].deps[j]  input == Input(s.packages[i].pkg, dep) IN
              /\ dep.place \in DOMAIN s.value /\ dep.resolves \in DOMAIN s.registry
              /\ input.reason = "none" => input.place = dep.place
    /\ \A k \in DOMAIN s.added : k \in Nat /\ s.added[k].to \in Specs

VARIABLES setup, value, registry, phase, round,
          calm,       \* checks since the registry changed that wrote all they selected
          decisions,  \* what the policy says of the dependencies
          picks,      \* what came of those it selected
          handed,     \* the selections, and what createLegacyPlan makes of them
          told        \* the outcomes the command reports

vars == <<setup, value, registry, phase, round, calm, decisions, picks, handed, told>>

----------------------------------------------------------------------------
PolicyLayers == Layers(setup.config, setup.invocation)
Rules        == Appended(Compile(PolicyLayers), setup.flags)

\* The dependencies, as their package and their number in it.
Deps == UNION {{i} \X DOMAIN setup.packages[i].deps : i \in DOMAIN setup.packages}
DepOf(d) == setup.packages[d[1]].deps[d[2]]

ContextOf(package, dep) ==
  [name |-> dep.name, resolves |-> dep.resolves, workspace |-> package.workspace,
   role |-> IF package.pkg.kind = "manifest" THEN "direct" ELSE "owner",
   catalog |-> package.catalog, manager |-> package.manager]

Nothing == [selections |-> <<>>, construction |-> CreateLegacyPlan({})]

Init ==
  /\ setup \in Setups
  /\ value = setup.value /\ registry = setup.registry
  /\ phase = "start" /\ round = 1 /\ calm = 0
  /\ decisions = <<>> /\ picks = <<>> /\ handed = Nothing /\ told = <<>>

\* evaluateRepositoryPolicy
Decide ==
  /\ phase = "start" /\ phase' = "decided"
  /\ decisions' = LET rules == Rules IN
       [d \in Deps |-> Evaluate(rules, ContextOf(setup.packages[d[1]], DepOf(d)))]
  /\ UNCHANGED <<setup, value, registry, round, calm, picks, handed, told>>

\* Mutant: dependencies the policy could not decide on are kept.
KeptUnlessSkipped(d) == decisions[d].status # "skipped"

\* applyPolicyToProjection, and dep.update: an exact value only moves on demand.
Kept(d) ==
  /\ decisions[d].status = "selected"
  /\ value[DepOf(d).place].shape \in Exact => setup.opts.includeLocked

Resolve ==
  /\ phase = "decided" /\ phase' = "resolved"
  /\ picks' = [d \in {e \in Deps : Kept(e)} |->
       Verdict(value[DepOf(d).place], registry[DepOf(d).resolves],
               decisions[d].mode, setup.opts)]
  /\ UNCHANGED <<setup, value, registry, round, calm, decisions, handed, told>>

Change(dep, pick) ==
  [name |-> dep.name, field |-> dep.field, parents |-> dep.parents,
   from |-> value[dep.place], to |-> pick.to, diff |-> pick.diff, facts |-> dep.facts]

\* The changes of a package, by the numbers of its dependencies; an addon may
\* add some to those of the first, with the numbers that follow.
ChangesOf(i) ==
  LET moving == {j \in DOMAIN setup.packages[i].deps :
                   <<i, j>> \in DOMAIN picks /\ picks[<<i, j>>].status = "selected"}
      last == Len(setup.packages[i].deps)
      more == IF i = 1 THEN {last + k : k \in DOMAIN setup.added} ELSE {}
  IN [j \in moving \cup more |->
        IF j \in moving THEN Change(DepOf(<<i, j>>), picks[<<i, j>>])
        ELSE setup.added[j - last]]

\* The packages that have changes, by their numbers.
SelectionsOf(changes) ==
  [i \in {k \in DOMAIN changes : DOMAIN changes[k] # {}} |->
     [package |-> i, pkg |-> setup.packages[i].pkg, changes |-> changes[i]]]

Handed(selections) ==
  [selections |-> selections, construction |-> CreateLegacyPlan(Projections(selections))]

Hand ==
  /\ phase = "resolved" /\ phase' = "handed"
  /\ handed' = Handed(SelectionsOf([i \in DOMAIN setup.packages |-> ChangesOf(i)]))
  /\ UNCHANGED <<setup, value, registry, round, calm, decisions, picks, told>>

\* Something is in the way of one change: nothing is written.
Block ==
  /\ phase = "handed" /\ phase' = "blocked"
  /\ handed.construction.blocked
  /\ told' = BlockedPackages(handed.selections, handed.construction.projections,
                             handed.construction.outcomes)
  /\ UNCHANGED <<setup, value, registry, round, calm, decisions, picks, handed>>

Wanted(place) == Requested(handed.construction.projections, place)

\* The answers of the apply engine to a plan: all is written, if every place
\* still has the value that is expected there, or nothing is.
EngineAnswers(plan) ==
  {[place \in plan |-> Outcome("applied", "APPLIED")] :
     p \in {q \in {plan} : \A place \in q : place \in DOMAIN value
                                              /\ value[place] = Wanted(place).from}}
    \cup {[place \in plan |-> Outcome("conflicted", "EXPECTED_VALUE_MISMATCH")],
          [place \in plan |-> Outcome("failed", "PREFLIGHT_FAILED")]}

Apply ==
  /\ phase = "handed" /\ ~handed.construction.blocked
  /\ \E result \in EngineAnswers(handed.construction.plan) :
       LET Written(place) == place \in DOMAIN result /\ result[place].status = "applied" IN
       /\ value' = [place \in DOMAIN value |->
                      IF Written(place) THEN Wanted(place).to ELSE value[place]]
       /\ told' = AppliedPackages(handed.selections, handed.construction.projections, result)
       /\ IF \A place \in DOMAIN result : result[place].status = "applied"
          THEN phase' = "applied" /\ calm' = calm + 1
          ELSE phase' = "failed" /\ calm' = calm
  /\ UNCHANGED <<setup, registry, round, decisions, picks, handed>>

Again ==
  /\ phase \in {"applied", "failed", "blocked"} /\ round < Rounds
  /\ phase' = "start" /\ round' = round + 1
  /\ decisions' = <<>> /\ picks' = <<>> /\ handed' = Nothing /\ told' = <<>>
  /\ UNCHANGED <<setup, value, registry, calm>>

\* Between two checks recent versions grow old.
Age ==
  /\ phase = "start" /\ \E name \in DOMAIN registry : registry[name].recent # {}
  /\ registry' = [name \in DOMAIN registry |-> [registry[name] EXCEPT !.recent = {}]]
  /\ calm' = 0
  /\ UNCHANGED <<setup, value, phase, round, decisions, picks, handed, told>>

Next == Decide \/ Resolve \/ Hand \/ Block \/ Apply \/ Again \/ Age

Spec == Init /\ [][Next]_vars

----------------------------------------------------------------------------
(* Properties of the policy *)

Contexts ==
  [name : Names, resolves : Names, workspace : Workspaces, role : Roles,
   catalog : Catalogs \cup {"none"}, manager : Managers \cup {"unknown"}]

\* The options compile to what their documentation says they do together: exact
\* names, then patterns in their order, then the mode, over all layers.
OptionsMean ==
  LET layers == PolicyLayers  rules == Compile(layers) IN
  LegacyOptions(layers) =>
    \A ctx \in Contexts :
      LET doc == DocumentedDecision(layers, ctx)  decision == Evaluate(rules, ctx) IN
         /\ (decision.status = "selected") <=> ~doc.excluded
         /\ decision.status = "selected" => decision.mode = doc.mode

\* What --exclude-workspace and --exclude-catalog name is never selected,
\* whatever the rules say.
ScopesAreExcluded ==
  LET rules == Rules IN
  \A ctx \in Contexts :
    (\/ ctx.workspace \in setup.flags.workspaces /\ ctx.role \in {"direct", "consumer"}
     \/ ctx.catalog \in setup.flags.catalogs)
      => Evaluate(rules, ctx).status # "selected"

\* A decision taken without knowing the package manager is the one every manager
\* would get, unless it rests on a legacy include.
DecidedForAll ==
  LET rules == Rules IN
  \A ctx \in {c \in Contexts : c.manager = "unknown"} :
    LET decision == Evaluate(rules, ctx) IN
    decision.status # "blocked" /\ decision.by # "legacy" =>
      \A manager \in Managers :
        LET known == Evaluate(rules, [ctx EXCEPT !.manager = manager]) IN
        known.action = decision.action /\ known.mode = decision.mode

\* The layers of options, compiled to rules and evaluated, decide as documented;
\* a scope that is excluded stays excluded; and missing evidence of the package
\* manager never decides (policy/compiler.ts, policy/matcher.ts, selection.ts).
PolicyAsDocumented ==
  phase = "start" /\ round = 1 => OptionsMean /\ ScopesAreExcluded /\ DecidedForAll

----------------------------------------------------------------------------
(* Properties of the selection *)

Questions ==
  [mode : {"default", "latest", "next", "newest", "major", "minor", "patch"},
   cooldown : BOOLEAN]

\* A narrower mode never goes further than a wider one, and a cooldown never
\* takes a dependency further; each question is answered by a version.
NarrowerIsNearer(spec, reg, opts) ==
  LET choice == [q \in Questions |->
                   Select(spec, reg, q.mode, [opts EXCEPT !.cooldown = q.cooldown]).target]
      To(mode, cooldown) ==
        LET target == choice[[mode |-> mode, cooldown |-> cooldown]] IN
        IF target = 0 THEN spec.at ELSE target
  IN \A cooldown \in BOOLEAN :
       /\ To("patch", cooldown) <= To("minor", cooldown)
       /\ To("minor", cooldown) <= To("major", cooldown)
       /\ \A mode \in {"default", "latest", "next", "newest"} :
            /\ To(mode, cooldown) <= To("major", cooldown)
            /\ To(mode, TRUE) <= To(mode, FALSE)

\* A version that passes every gate.
Passes(v, spec, reg, mode, opts) ==
  /\ v \in reg.published
  /\ v \notin reg.deprecated \/ spec.at \in reg.deprecated
  /\ opts.cooldown => v \notin reg.recent \cup reg.undated
  /\ Stable(v) \/ Releases[v].channel = Releases[spec.at].channel
  /\ CASE mode = "patch"  -> Diff(spec.at, v) \in {"none", "patch"}
       [] mode = "minor"  -> Diff(spec.at, v) # "major"
       [] mode = "latest" -> v = reg.latest
       [] mode = "ignore" -> FALSE
       [] mode = "next"   -> v = reg.next \/ (reg.next = 0 /\ v = reg.latest)
       [] mode \in {"major", "newest"} -> TRUE
       [] OTHER -> \/ Satisfies(v, spec)
                   \/ spec.shape \in Exact /\ opts.includeLocked
                   \/ v = reg.latest /\ spec.shape \notin Exact
                        /\ ~\E w \in OfChannel(reg.published, spec.at) : Satisfies(w, spec)

\* What is chosen is the highest version that passes every gate; if none is, none
\* that passes is above the current one.
Best(spec, reg, mode, opts, choice) ==
  LET passing == {v \in Versions : Passes(v, spec, reg, mode, opts)}
      reached == IF choice.target = 0 THEN spec.at ELSE choice.target
  IN (choice.target # 0 => choice.target \in passing) /\ \A v \in passing : v <= reached

\* Without the gate it names a refusal would have come out differently.
GateMatters(spec, reg, mode, opts, choice) ==
  LET without == CASE choice.reason = "DEPRECATED_CANDIDATE_BLOCKED" ->
                        [reg |-> [reg EXCEPT !.deprecated = {}], cooldown |-> opts.cooldown]
                   [] choice.reason \in {"MATURITY_CANDIDATE_BLOCKED", "MISSING_PUBLISH_TIME"} ->
                        [reg |-> reg, cooldown |-> FALSE]
                   [] choice.reason = "PRERELEASE_CHANNEL_BLOCKED" ->
                        [reg |-> [reg EXCEPT !.published = OfChannel(@, spec.at),
                                             !.latest = 0, !.next = 0],
                         cooldown |-> opts.cooldown]
                   [] OTHER -> [reg |-> [reg EXCEPT !.published = {}], cooldown |-> FALSE]
  IN choice.reason # "SELECTED" /\ choice.reason # "NO_VALID_VERSIONS" =>
       Select(spec, without.reg, mode, [opts EXCEPT !.cooldown = without.cooldown]).reason
         # choice.reason

\* Every dependency reaches the best version its mode and the gates allow, a
\* narrower mode never reaches further, a refusal names a gate that matters, and
\* a value that is rewritten admits what was chosen (io/resolve/version-filter.ts).
SelectionIsBest ==
  phase = "resolved" =>
    \A d \in DOMAIN picks :
      LET spec == value[DepOf(d).place]  reg == registry[DepOf(d).resolves]
          mode == decisions[d].mode      choice == Select(spec, reg, mode, setup.opts)
      IN /\ spec.shape \in Simple \cup XRanges =>
              /\ NarrowerIsNearer(spec, reg, setup.opts)
              /\ Best(spec, reg, mode, setup.opts, choice)
              /\ GateMatters(spec, reg, mode, setup.opts, choice)
         /\ picks[d].status = "selected" => Satisfies(choice.target, picks[d].to)

\* A value only moves if the policy selected a dependency at its place, and then
\* forward, in its own shape, and no further than the dependency's mode
\* (from the options to the file, over all checks).
OnlySelectedMoves ==
  [][setup.added = <<>> =>
       \A place \in DOMAIN value : value'[place] # value[place] =>
         LET from == value[place]  to == value'[place] IN
         /\ from.shape = to.shape /\ from.shape \in Simple \cup XRanges /\ from.at < to.at
         /\ \E d \in DOMAIN picks :
              /\ DepOf(d).place = place
              /\ decisions[d].status = "selected"
              /\ decisions[d].mode = "minor" => Major(from.at) = Major(to.at)
              /\ decisions[d].mode = "patch" => Diff(from.at, to.at) = "patch"
    ]_vars

\* What is selected at one place is one dependency, and under one mode.
OneMind ==
  \A d, e \in {x \in DOMAIN decisions : decisions[x].status = "selected"} :
    DepOf(d).place = DepOf(e).place =>
      DepOf(d).resolves = DepOf(e).resolves /\ decisions[d].mode = decisions[e].mode

\* A range x that begins at a deprecated version may hold better ones, but is
\* judged by its beginning.
BeginsDeprecated(spec, reg) == spec.shape \in XRanges /\ spec.at \in reg.deprecated

\* Checks repeated without a change of the registry come to rest: after one that
\* wrote all it selected nothing is selected any more, but of a range x whose
\* beginning is deprecated; in default mode after two, as a tag may lead to a range
\* that holds more.
Settled ==
  phase = "resolved" /\ setup.added = <<>> /\ OneMind =>
    \A d \in DOMAIN picks : picks[d].status = "selected" =>
      IF decisions[d].mode = "default" THEN calm < 2
      ELSE calm < 1 \/ BeginsDeprecated(value[DepOf(d).place], registry[DepOf(d).resolves])

----------------------------------------------------------------------------
(* Properties of the hand-over *)

\* Each selected change is told once, in its place; a change told applied is the
\* value its place now has, and nothing is applied where one is blocked
\* (commands/apply/legacy-plan.ts).
ToldIsTrue ==
  phase \in {"blocked", "applied", "failed"} =>
    /\ DOMAIN told = DOMAIN handed.selections
    /\ \A i \in DOMAIN told :
         LET selection == handed.selections[i] IN
         /\ told[i].package = selection.package
         /\ DOMAIN told[i].outcomes = DOMAIN selection.changes
         /\ \A j \in DOMAIN told[i].outcomes :
              LET change == selection.changes[j]
                  status == told[i].outcomes[j].status
              IN /\ status # "none"
                 /\ status = "applied" <=> phase = "applied"
                 /\ status = "applied" => value[Input(selection.pkg, change).place] = change.to

\* Evidence of a selection that is ready speaks of exactly the plan's operations,
\* and of each as every change of its place does (createSelectionEvidence).
EvidenceIsExact ==
  phase = "handed" =>
    LET construction == handed.construction IN
    construction.evidence.status = "ready" =>
      /\ ~construction.blocked
      /\ construction.evidence.operations = construction.plan
      /\ \A p, q \in construction.projections :
           p.input.place = q.input.place => Fact(p) = Fact(q)

\* What is handed over is what is told: the evidence before the apply, the outcomes after.
HandOverIsTrue == ToldIsTrue /\ EvidenceIsExact
=============================================================================
