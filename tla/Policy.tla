--------------------------------- MODULE Policy ---------------------------------
(***************************************************************************)
(* The policy of a run: which dependencies it looks at, and how far each   *)
(* may move.  The options of every source (defaults, configuration file,   *)
(* invocation) are compiled into one list of rules (policy/compiler.ts),   *)
(* which is evaluated for every occurrence of a dependency                 *)
(* (policy/matcher.ts).                                                    *)
(*                                                                         *)
(* A pattern is known by the names it matches and by the name it spells    *)
(* ("" if it spells none); one that is no regular expression is not valid. *)
(* A layer's `given` names the options it has.                             *)
(***************************************************************************)
EXTENDS Integers, Sequences, SequencesExt

CONSTANTS Names,       \* names of dependencies
          Workspaces,  \* paths of packages
          Catalogs,    \* ids of catalogs
          Managers     \* package managers

ASSUME PolicyAssumption == "unknown" \notin Managers /\ "none" \notin Catalogs

Roles  == {"direct", "owner", "consumer"}
Causes == {"global-ignore", "package-ignore", "include-default", "exclude-filter"}
PolicyModes == {"default", "major", "minor", "patch", "latest", "newest", "next"}

\* A rule of policyRules has selectors, an action or none, and a mode or none.
\* This one has no selectors; `effect` is the action of a legacy option, which
\* does more than include or exclude.
Broad(action, mode, effect) ==
  [names |-> Names, workspaces |-> Workspaces, roles |-> Roles,
   catalogs |-> Catalogs \cup {"none"}, manager |-> "any", resolved |-> FALSE,
   action |-> action, mode |-> mode, effect |-> effect]
For(names, action, effect) == [Broad(action, "none", effect) EXCEPT !.names = names]

\* What the validation of a layer lets pass.
Patterns == [names : SUBSET Names, spells : STRING, valid : BOOLEAN]
Entries  == [pattern : Patterns, mode : PolicyModes \cup {"ignore"}]
PolicyRules ==
  [names : SUBSET Names, workspaces : SUBSET Workspaces, roles : SUBSET Roles,
   catalogs : SUBSET (Catalogs \cup {"none"}), manager : Managers \cup {"any"},
   resolved : {FALSE}, action : {"none", "include", "exclude"},
   mode : PolicyModes \cup {"none"}, effect : {"none"}]
LayerFacts ==
  [given : SUBSET {"mode", "packageMode", "include", "exclude"},
   mode : PolicyModes \cup {"ignore"}, packageMode : Seq(Entries),
   include : Seq(Patterns), exclude : Seq(Patterns), rules : Seq(PolicyRules)]

----------------------------------------------------------------------------
(* compilePolicy *)

ModeRule(mode, clearsIgnore) ==
  CASE mode = "ignore" -> Broad("exclude", "none", "global-ignore")
    [] mode # "ignore" /\ clearsIgnore -> Broad("include", mode, "clear-global-ignore")
    [] OTHER -> Broad("none", mode, "none")

\* The entries of packageMode, those of earlier layers first; a pattern given
\* again keeps its place.
Entered(entries, e) ==
  IF \E i \in DOMAIN entries : entries[i].pattern = e.pattern
  THEN [i \in DOMAIN entries |-> IF entries[i].pattern = e.pattern THEN e ELSE entries[i]]
  ELSE Append(entries, e)

Merged(entries, more) ==
  LET merged[k \in 0..Len(more)] ==
        IF k = 0 THEN entries ELSE Entered(merged[k - 1], more[k])
  IN merged[Len(more)]

PackageModeRule(e, names) ==
  IF e.mode = "ignore"
  THEN [For(names, "exclude", "package-ignore") EXCEPT !.resolved = TRUE]
  ELSE [For(names, "include", "clear-any-ignore") EXCEPT !.resolved = TRUE, !.mode = e.mode]

\* The names an entry applies to as a pattern and as a name.  A pattern that is no
\* regular expression is left out: its rule applies to none.
Caught(e)  == IF e.pattern.valid THEN e.pattern.names ELSE {}
Spelled(e) == {e.pattern.spells} \cap Names

\* Mutant: the patterns are not reversed, so the last that matches wins.
PackageModeRulesInOrder(entries) ==
  [i \in DOMAIN entries |-> PackageModeRule(entries[i], Caught(entries[i]))]
    \o [i \in DOMAIN entries |-> PackageModeRule(entries[i], Spelled(entries[i]))]

\* compilePackageModes: the first pattern that matches is to win, and a name that
\* is spelled out before any pattern.
PackageModeRules(entries) ==
  LET last == Reverse(entries) IN
  [i \in DOMAIN entries |-> PackageModeRule(last[i], Caught(last[i]))]
    \o [i \in DOMAIN entries |-> PackageModeRule(entries[i], Spelled(entries[i]))]

\* compileFilters
IncludeRules(patterns) ==
  IF patterns = <<>> THEN <<Broad("include", "none", "include-reset")>>
  ELSE <<Broad("exclude", "none", "include-default")>>
         \o [i \in DOMAIN patterns |-> For(patterns[i].names, "include", "include-match")]
ExcludeRules(patterns) ==
  <<Broad("include", "none", "exclude-reset")>>
    \o [i \in DOMAIN patterns |-> For(patterns[i].names, "exclude", "exclude-filter")]

\* compileCompatibilityLayer, and the layer's policyRules
Compiled(s, layer) ==
  LET entries == IF "packageMode" \in layer.given
                 THEN Merged(s.entries, layer.packageMode) ELSE s.entries
      Part(option, rules) == IF option \in layer.given THEN rules ELSE <<>>
  IN [mode |-> IF "mode" \in layer.given THEN layer.mode ELSE s.mode,
      entries |-> entries,
      rules |-> s.rules
        \o Part("mode", <<ModeRule(layer.mode, s.mode = "ignore" /\ layer.mode # "ignore")>>)
        \o Part("packageMode", PackageModeRules(entries))
        \o Part("include", IncludeRules(layer.include))
        \o Part("exclude", ExcludeRules(layer.exclude))
        \o layer.rules]

\* compilePolicy: the layers come as defaults, config, invocation.
Compile(layers) ==
  LET compiled[k \in 0..Len(layers)] ==
        IF k = 0 THEN [mode |-> "default", entries |-> <<>>, rules |-> <<>>]
        ELSE Compiled(compiled[k - 1], layers[k])
  IN compiled[Len(layers)].rules

Layer(given, mode, packageMode, include, exclude, rules) ==
  [given |-> given, mode |-> mode, packageMode |-> packageMode, include |-> include,
   exclude |-> exclude, rules |-> rules]

\* createPolicyLayers: an include or exclude of the invocation takes the place of
\* the configured one.
Layers(config, invocation) ==
  <<Layer({"mode"}, "default", <<>>, <<>>, <<>>, <<>>),
    [config EXCEPT !.given = @ \ (invocation.given \cap {"include", "exclude"})],
    invocation>>

\* bindInvocationSelection: --exclude-workspace and --exclude-catalog come last.
Appended(rules, flags) ==
  LET workspace == [Broad("exclude", "none", "none") EXCEPT
                      !.workspaces = flags.workspaces, !.roles = {"direct", "consumer"}]
      catalog == [Broad("exclude", "none", "none") EXCEPT !.catalogs = flags.catalogs]
  IN rules \o <<workspace, catalog>>

----------------------------------------------------------------------------
(* evaluatePolicy *)

MatchesWithoutManager(rule, ctx) ==
  /\ (IF rule.resolved THEN ctx.resolves ELSE ctx.name) \in rule.names
  /\ ctx.workspace \in rule.workspaces
  /\ ctx.role \in rule.roles /\ ctx.catalog \in rule.catalogs

\* What the evaluation has seen: the last action and mode with their places, the
\* exclusions of legacy options that stand, and the rules it cannot judge
\* because the package manager is not known.
Unweighed ==
  [normal |-> [action |-> "include", at |-> 0], excluded |-> [c \in Causes |-> 0],
   included |-> 0, mode |-> "default", modeAt |-> 0, pending |-> {}]

Without(excluded, causes) == [c \in Causes |-> IF c \in causes THEN 0 ELSE excluded[c]]
Stand(excluded, causes)   == \E c \in causes : excluded[c] # 0

\* applyCompatibilityAction
Compatibly(s, effect, at) ==
  CASE effect = "include-default" -> [s EXCEPT !.excluded[effect] = at, !.included = 0]
    [] effect \in Causes \ {"include-default"} -> [s EXCEPT !.excluded[effect] = at]
    [] effect \in {"clear-global-ignore", "clear-any-ignore"} ->
         LET causes == {"global-ignore"}
                         \cup IF effect = "clear-any-ignore" THEN {"package-ignore"} ELSE {} IN
         [s EXCEPT !.excluded = Without(@, causes),
                   !.included = IF Stand(s.excluded, causes) THEN at ELSE @]
    [] effect \in {"include-match", "include-reset"} ->
         [s EXCEPT !.excluded = Without(@, {"include-default"}), !.included = at]
    [] OTHER -> [s EXCEPT !.excluded = Without(@, {"exclude-filter"}), !.included = at]

Acted(s, rule, at) ==
  CASE rule.action = "none" -> s
    [] rule.action # "none" /\ rule.effect = "none" ->
         [s EXCEPT !.normal = [action |-> rule.action, at |-> at]]
    [] OTHER -> Compatibly(s, rule.effect, at)

Moded(s, rule, at) ==
  IF rule.mode = "none" THEN s ELSE [s EXCEPT !.mode = rule.mode, !.modeAt = at]

Weighed(s, rule, at, ctx) ==
  CASE ~MatchesWithoutManager(rule, ctx) -> s
    [] MatchesWithoutManager(rule, ctx) /\ rule.manager # "any" /\ ctx.manager = "unknown" ->
         [s EXCEPT !.pending = @ \cup {[at |-> at, action |-> rule.action # "none",
                                         mode |-> rule.mode # "none"]}]
    [] MatchesWithoutManager(rule, ctx) /\ rule.manager \in {"any", ctx.manager} ->
         Moded(Acted(s, rule, at), rule, at)
    [] OTHER -> s

\* resolveAction: a legacy exclusion wins where it stands later; a legacy
\* inclusion only counts where nothing else decides.
Resolution(s) ==
  LET later == {c \in Causes : s.excluded[c] > s.normal.at}
      last  == CHOOSE c \in later : \A d \in later : s.excluded[d] <= s.excluded[c]
      acted == IF later = {} THEN s.normal ELSE [action |-> "exclude", at |-> s.excluded[last]]
  IN IF acted.at = 0 /\ s.included # 0
     THEN [action |-> "include", at |-> s.included, by |-> "legacy"]
     ELSE [action |-> acted.action, at |-> acted.at, by |-> "rule"]

\* A rule that cannot be judged might have decided.
Undecided(s, action) ==
  \E p \in s.pending : (p.action /\ action.at <= p.at) \/ (p.mode /\ s.modeAt <= p.at)

\* What it has seen after all rules.
Weighing(rules, ctx) ==
  LET seen[i \in 0..Len(rules)] ==
        IF i = 0 THEN Unweighed ELSE Weighed(seen[i - 1], rules[i], i, ctx)
  IN seen[Len(rules)]

Evaluate(rules, ctx) ==
  LET s == Weighing(rules, ctx)
      action == Resolution(s)
  IN [status |-> CASE Undecided(s, action) -> "blocked"
                   [] ~Undecided(s, action) /\ action.action = "exclude" -> "skipped"
                   [] OTHER -> "selected",
      action |-> action.action, by |-> action.by, mode |-> s.mode]

----------------------------------------------------------------------------
(* What the documentation promises *)

\* packageMode: exact names win, then the first pattern that matches, then mode.
DocumentedMode(entries, mode, name) ==
  LET exact == {i \in DOMAIN entries : entries[i].pattern.spells = name}
      loose == {i \in DOMAIN entries : entries[i].pattern.valid
                                         /\ name \in entries[i].pattern.names}
      Pick(places) == entries[CHOOSE i \in places : \A j \in places : i <= j].mode
  IN CASE exact # {} -> Pick(exact) [] exact = {} /\ loose # {} -> Pick(loose) [] OTHER -> mode

MatchesOne(patterns, name) == \E i \in DOMAIN patterns : name \in patterns[i].names

Excluded(include, exclude, mode, name) ==
  \/ mode = "ignore" \/ MatchesOne(exclude, name)
  \/ include # <<>> /\ ~MatchesOne(include, name)

Given(layers, option) ==
  {i \in DOMAIN layers : option \in layers[i].given}
Latest(layers, option) ==
  LET places == Given(layers, option) IN CHOOSE i \in places : \A j \in places : j <= i

\* Without rules of their own, and if a mode does not follow the packageMode of
\* an earlier layer, the layers come to what the options promise together.
LegacyOptions(layers) ==
  /\ \A i \in DOMAIN layers : layers[i].rules = <<>>
  /\ Given(layers, "packageMode") # {} =>
       Latest(layers, "mode") <= Latest(layers, "packageMode")

DocumentedDecision(layers, ctx) ==
  LET entries[k \in 0..Len(layers)] ==
        CASE k = 0 -> <<>>
          [] k # 0 /\ "packageMode" \in layers[k].given ->
               Merged(entries[k - 1], layers[k].packageMode)
          [] OTHER -> entries[k - 1]
      last == layers[Latest(layers, "mode")].mode
      mode == DocumentedMode(entries[Len(layers)], last, ctx.resolves)
      include == IF Given(layers, "include") = {} THEN <<>>
                 ELSE layers[Latest(layers, "include")].include
      exclude == IF Given(layers, "exclude") = {} THEN <<>>
                 ELSE layers[Latest(layers, "exclude")].exclude
  IN [excluded |-> Excluded(include, exclude, mode, ctx.name), mode |-> mode]
=============================================================================
