------------------------------- MODULE MCPlanning -------------------------------
(* Families of invocations: one varies the peers and the rules, one the catalogs *)
(* and the exclusions, one what the registry says of a version, one the manager  *)
(* and its lockfile, one what cannot be read, and one the edit of the user.      *)
EXTENDS Planning

MCDirs   == {".", "app", "lib", "x"}
MCWithin == [d \in MCDirs |-> {".", d}]
MCLength == [d \in MCDirs |-> IF d \in {".", "x"} THEN 1 ELSE 3]
MCLockManager ==
  [n \in {"package-lock.json", "npm-shrinkwrap.json", "pnpm-lock.yaml", "yarn.lock", "bun.lockb"} |->
     CASE n \in {"package-lock.json", "npm-shrinkwrap.json"} -> "npm" [] n = "pnpm-lock.yaml" -> "pnpm"
       [] n = "yarn.lock" -> "yarn" [] OTHER -> "bun"]
MCSupported == [npm |-> {11, 20}, pnpm |-> {10}, bun |-> {10}]

----------------------------------------------------------------------------
Spec_(kind, v) == [kind |-> kind, v |-> v]
Caret(v) == Spec_("caret", v)
Exact(v) == Spec_("exact", v)

In(section, name, spec) ==
  [section |-> section, name |-> name, protocol |-> "semver", spec |-> spec, catalog |-> "", secret |-> FALSE]
Dep(name, spec)  == In("dependencies", name, spec)
Through(name, catalog) ==
  [In("dependencies", name, Spec_("bad", 0)) EXCEPT !.protocol = "catalog", !.catalog = catalog]
Secret(e) == [e EXCEPT !.secret = TRUE]

Source(form, name, entries, workspaces, manager, engines, catalogs) ==
  [kind |-> "source", rev |-> 0, form |-> form, name |-> name, entries |-> entries,
   workspaces |-> workspaces, manager |-> manager, engines |-> engines, catalogs |-> catalogs]
Manifest(name, entries) == Source("object", name, entries, "absent", <<>>, <<>>, {})
Catalogs(catalogs) == Source("object", "", {}, "all", <<>>, <<>>, catalogs)
Catalog(name, entries) == [name |-> name, entries |-> entries]
Manager(name, version) == <<[name |-> name, version |-> version, valid |-> TRUE]>>
Lock(parse) == [kind |-> "lockfile", rev |-> 0, parse |-> parse]
NodeFile(says, range) == [kind |-> "runtime", rev |-> 0, says |-> says, range |-> range]

Root == <<".", "package.json">>
App  == <<"app", "package.json">>
Lib  == <<"lib", "package.json">>
Disk(files) == [files |-> files, links |-> <<>>, unavailable |-> {}, unreadable |-> {},
                versioned |-> MCDirs]

NoOpts == [recursive |-> TRUE, ignoreOthers |-> FALSE, includeLocked |-> TRUE,
           fields |-> DependencyFields, cooldown |-> 0, asOf |-> Unset, phases |-> {},
           verifyArgv |-> FALSE, verifyArtifacts |-> FALSE]

Facts == [known |-> TRUE, versions |-> Versions, deprecated |-> [v \in Versions |-> "absent"],
          signature |-> "present", provenance |-> "absent", published |-> 5,
          engine |-> "absent", engineRange |-> {}, peerState |-> "absent", peers |-> {},
          repository |-> "none"]
At(target, facts) == [status |-> "selected", target |-> target, artifact |-> TRUE, facts |-> facts]
Included == [action |-> "include", pending |-> "none"]
Excluded == [Included EXCEPT !.action = "exclude"]

MCNames == {"react", "dom", "tool", "npm", "pnpm", "yarn"}
Registry == [n \in MCNames |-> At(20, Facts)]
Plain(d) ==
  [disk |-> d, edits |-> {}, opts |-> NoOpts, registry |-> Registry,
   policy |-> [n \in MCNames |-> IF n \in {"npm", "pnpm", "yarn"} THEN Excluded ELSE Included], requests |-> <<>>, cohorts |-> {}, rules |-> <<>>,
   source |-> "config"]

----------------------------------------------------------------------------
(* Peers, the rules about them, and cohorts *)

Rule(id, family, state, name, effect) ==
  [id |-> id, family |-> family, state |-> state, reason |-> "any", name |-> name,
   workspace |-> "any", cohort |-> "any", effect |-> effect]
BlockPeers == Rule("peers", "peer", "fail", "any", "block")
RuleLists  == {<<BlockPeers>>, <<BlockPeers, Rule("dom", "peer", "any", "dom", "warn")>>}
Cohort(strategy) == [id |-> "pair", members |-> {"react", "dom"}, strategy |-> strategy]

Asks(name, range, optional) ==
  [Facts EXCEPT !.peerState = "present",
                !.peers = {[name |-> name, range |-> range, optional |-> optional]}]
PeerFacts(other) == {Facts} \cup {Asks(other, range, FALSE) : range \in {{10}, {20}}}

PeerDisk == Disk(Root :> Manifest("root", {Dep("react", Caret(10)), Dep("dom", Exact(11)),
                                            Dep("tool", Caret(10))}))
PeerSetups ==
  {[Plain(PeerDisk)
      EXCEPT !.registry = [Registry EXCEPT !["react"] = At(20, react), !["dom"] = At(20, dom),
                                           !["tool"] = At(20, tool)],
             !.rules = rules, !.cohorts = cohorts] :
     react \in PeerFacts("dom"), dom \in PeerFacts("tool"), tool \in PeerFacts("react"),
     rules \in RuleLists, cohorts \in {{}, {Cohort("same-version")}}}

----------------------------------------------------------------------------
(* The neighbourhood of a peer: other packages, overrides, optional peers *)

Neighbour(entries) == (Lib :> Manifest("lib", entries))
Overridden(spec) == In(OverrideField, "dom", spec)
NeighbourSetups ==
  {[Plain(Disk(Root :> Manifest("root", own) @@ Neighbour(other)))
      EXCEPT !.registry = [Registry EXCEPT !["react"] = At(20, Asks("dom", range, optional))],
             !.rules = <<BlockPeers>>, !.opts.fields = fields] :
     own \in {{Dep("react", Caret(10))} \cup e :
                e \in {{}, {Overridden(Exact(10))}, {In("devDependencies", "dom", Caret(10)), Dep("dom", Exact(11))},
                       {[Dep("dom", Exact(10)) EXCEPT !.protocol = "workspace"]}}},
     other \in {{}, {Dep("dom", Caret(10))}, {Overridden(Exact(10))}},
     range \in {{}, {10, 11}, {20, 21}}, optional \in BOOLEAN,
     fields \in {DependencyFields, DependencyFields \cup {OverrideField}}}

----------------------------------------------------------------------------
(* Catalogs, and the exclusions of the command line *)

Workspace == <<".", "pnpm-workspace.yaml">>
Yarn      == <<".", ".yarnrc.yml">>
OneCatalog == Workspace :> Catalogs({Catalog("default", {In("", "react", Caret(10))})})
TwoCatalogs == Workspace :> Catalogs({Catalog("default", {In("", "react", Caret(10))}),
                                      Catalog("legacy", {In("", "react", Exact(10))})})
SameNames == OneCatalog @@ (Yarn :> Catalogs({Catalog("default", {In("", "dom", Caret(10))})}))

Request(kind, value) == [kind |-> kind, value |-> value]
RequestLists == {<<>>, <<Request("workspace", "app")>>, <<Request("catalog", "default")>>,
                 <<Request("workspace", "lib"), Request("catalog", "legacy")>>,
                 <<Request("workspace", "nowhere")>>}
Pending(action, pending) == [action |-> action, pending |-> pending]

CatalogSetups ==
  {[Plain(Disk(catalogs @@ (App :> Manifest("app", app)) @@ (Lib :> Manifest("lib", lib))))
      EXCEPT !.requests = requests, !.policy["react"] = policy,
             !.registry = [Registry EXCEPT !["react"] = At(20, react)], !.rules = <<BlockPeers>>] :
     catalogs \in {OneCatalog, TwoCatalogs, SameNames},
     app \in {{Through("react", "default"), Dep("dom", Caret(10))}, {Secret(Dep("dom", Caret(10)))}},
     lib \in {{Through("react", "legacy"), Dep("dom", Caret(11))}},
     requests \in RequestLists,
     policy \in {Included, Pending("include", "action"), Pending("include", "mode"), Excluded},
     react \in {Facts, Asks("dom", {20}, FALSE), Asks("dom", {10}, FALSE)}}

----------------------------------------------------------------------------
(* What the registry says of the versions *)

Node(says, range) == <<".", ".nvmrc">> :> NodeFile(says, range)
Runtimes == {<<>>, Node("range", {1, 2}), Node("unsupported", {})}
Engines  == {<<>>, <<{1}>>, <<{2, 3}>>}
Engine_(text, range) == [Facts EXCEPT !.engine = text, !.engineRange = range]
RegistryFacts ==
  {Engine_("range", {1, 2}), Engine_("range", {2}), Engine_("range", {4}), Engine_("bad", {}),
   [Facts EXCEPT !.known = FALSE], [Facts EXCEPT !.versions = {}],
   [Facts EXCEPT !.deprecated = [v \in Versions |-> IF v = 20 THEN "present" ELSE "unknown"]],
   [Facts EXCEPT !.deprecated[10] = "present", !.signature = "unknown", !.provenance = "present"],
   [Facts EXCEPT !.published = 9], [Facts EXCEPT !.published = Unpublished],
   [Facts EXCEPT !.peerState = "absent", !.peers = {[name |-> "dom", range |-> {10}, optional |-> FALSE]}],
   [Facts EXCEPT !.repository = "one"]}
Verdicts == {At(20, Facts), At(21, Facts), At(10, Facts),
             [At(20, Facts) EXCEPT !.status = "blocked"], [At(20, Facts) EXCEPT !.status = "skipped"]}

FactSetups ==
  {[Plain(Disk(Root :> Source("object", "root", {Dep("react", spec), Dep("dom", Caret(20))}, "absent",
                              <<>>, engines, {}) @@ runtime))
      EXCEPT !.registry = [Registry EXCEPT !["react"] = react, !["dom"] = At(20, [Facts EXCEPT !.repository = "one"])],
             !.opts.cooldown = cooldown, !.opts.asOf = 10,
             !.rules = <<Rule("new", "maturity", "any", "any", "block"),
                         Rule("old", "target-deprecation", "fail", "any", "block")>>] :
     spec \in {Exact(10), Caret(10), Spec_("bad", 0)}, engines \in Engines, runtime \in Runtimes,
     react \in {At(20, f) : f \in RegistryFacts} \cup Verdicts, cooldown \in {0, 3}}

----------------------------------------------------------------------------
(* The manager and its lockfile *)

RootLocks == {<<>>, <<".", "package-lock.json">> :> Lock("parsed"), <<".", "pnpm-lock.yaml">> :> Lock("parsed"),
              <<".", "bun.lockb">> :> Lock("parsed"), <<".", "package-lock.json">> :> Lock("error"),
              <<".", "package-lock.json">> :> Lock("parsed") @@ <<".", "yarn.lock">> :> Lock("parsed")}
Managers_ == {<<>>, Manager("npm", 11), Manager("npm", 10), Manager("yarn", 10), Manager("npm", 20),
              <<[name |-> "npm", version |-> 0, valid |-> FALSE]>>}
AppBoundary ==
  {<<>>, <<"app", ".git">> :> [kind |-> "git"],
   <<"app", ".git">> :> [kind |-> "git"] @@ <<"app", "pnpm-lock.yaml">> :> Lock("parsed")}
Phases == {[phases |-> p, argv |-> a, artifacts |-> f] :
             p \in {{"install"}, {"sync-lockfile"}}, a \in BOOLEAN, f \in BOOLEAN}

ExecutionSetups ==
  {[Plain(Disk(Root :> Source("object", "root", {Dep("react", Caret(10))}, "absent", manager, <<>>, {})
                 @@ App :> Source("object", "app", {In("devDependencies", "dom", Exact(10))}, "absent",
                                  Manager("pnpm", 10), <<>>, {}) @@ lock @@ app))
      EXCEPT !.opts.phases = phase_.phases, !.opts.verifyArgv = phase_.argv,
             !.opts.verifyArtifacts = phase_.artifacts,
             !.policy["dom"] = policy.dom, !.policy["react"] = policy.react, !.policy["npm"] = policy.npm] :
     manager \in Managers_, lock \in RootLocks, app \in AppBoundary, phase_ \in Phases,
     policy \in {[react |-> Included, dom |-> Included, npm |-> Excluded], [react |-> Included, dom |-> Excluded, npm |-> Excluded],
                 [react |-> Excluded, dom |-> Excluded, npm |-> Excluded], [react |-> Included, dom |-> Excluded, npm |-> Included]}}

----------------------------------------------------------------------------
(* What lies beside the manifests, and what cannot be read *)

NpmRoot == Source("object", "root", {Dep("react", Caret(10))}, "absent", Manager("npm", 11), <<>>, {})
NpmLock == <<".", "package-lock.json">> :> Lock("parsed")
Hidden  == <<"lib", "lock">> :> Lock("parsed")   \* what a lockfile may be a link to
Broken  == Source("broken", "", {}, "absent", <<>>, <<>>, {})
Scalar  == [Broken EXCEPT !.form = "scalar"]
AppFiles ==
  {App :> Manifest("app", {Dep("dom", Caret(10))}), App :> Broken, App :> Scalar,
   App :> Source("object", "app", {Dep("dom", Caret(10))}, "packages", <<>>, <<{1}>>, {}),
   App :> Manifest("app", {Dep("dom", Caret(10))}) @@ <<"app", "package.yaml">> :> Manifest("app", {Dep("tool", Caret(10))}),
   App :> Manifest("app", {Dep("dom", Caret(10))}) @@ <<"app", "package.yaml">> :> Broken
     @@ <<"app", ".git">> :> [kind |-> "git"]}
RootFiles ==
  {<<>>, Workspace :> Broken, Workspace :> Catalogs({}) @@ Yarn :> Catalogs({}),
   Workspace :> [Catalogs({}) EXCEPT !.workspaces = "bad"]
     @@ <<"app", ".nvmrc">> :> NodeFile("unsupported", {}), Node("range", {1}) @@ <<".", ".node-version">> :> NodeFile("range", {2}),
   <<"app", ".git">> :> [kind |-> "git"] @@ <<"app", "package-lock.json">> :> Lock("parsed")}
Troubles ==
  {[links |-> <<>>, unavailable |-> {}, unreadable |-> {}, versioned |-> MCDirs],
   [links |-> <<>>, unavailable |-> {"app"}, unreadable |-> {}, versioned |-> {"."}],
   [links |-> <<>>, unavailable |-> {}, unreadable |-> {App, <<".", ".nvmrc">>, Workspace}, versioned |-> {"app"}],
   [links |-> <<".", "npm-shrinkwrap.json">> :> <<".", "package-lock.json">>, unavailable |-> {}, unreadable |-> {},
    versioned |-> {}],
   [links |-> <<".", "npm-shrinkwrap.json">> :> <<"app", "package-lock.json">>, unavailable |-> {}, unreadable |-> {},
    versioned |-> MCDirs],
   [links |-> <<".", "npm-shrinkwrap.json">> :> <<"lib", "lock">> @@ <<".", "yarn.lock">> :> <<"lib", "lock">>,
    unavailable |-> {}, unreadable |-> {<<".", "package-lock.json">>}, versioned |-> MCDirs],
   [links |-> <<".", "yarn.lock">> :> <<"lib", "gone">>, unavailable |-> {}, unreadable |-> {}, versioned |-> MCDirs]}

RepositorySetups ==
  {[Plain(trouble @@ [files |-> Root :> NpmRoot @@ NpmLock @@ Hidden @@ app @@ root])
      EXCEPT !.opts.phases = {"sync-lockfile"}, !.opts.ignoreOthers = others, !.opts.recursive = recursive] :
     app \in AppFiles, root \in RootFiles, trouble \in Troubles, others \in BOOLEAN, recursive \in BOOLEAN}

----------------------------------------------------------------------------
(* The user edits one file *)

Change(file, content) == [file |-> file, content |-> content]
Revised(content) == [content EXCEPT !.rev = 1]
EditDisk == Root :> NpmRoot @@ NpmLock @@ OneCatalog @@ App :> Manifest("app", {Through("react", "default"), Dep("dom", Caret(10))})
Edits ==
  {Change(Root, Revised(NpmRoot)), Change(Root, [NpmRoot EXCEPT !.entries = {Dep("react", Exact(11))}]),
   Change(Root, [NpmRoot EXCEPT !.entries = {Dep("dom", Caret(10))}]), Change(Root, [NpmRoot EXCEPT !.manager = Manager("npm", 10)]),
   Change(Root, Broken), Change(App, Manifest("react", {Dep("dom", Caret(11))})),
   Change(<<".", "package-lock.json">>, Revised(Lock("parsed"))), Change(<<".", "package-lock.json">>, Lock("error")),
   Change(Workspace, Catalogs({Catalog("default", {In("", "react", Caret(11))})})),
   Change(Workspace, Catalogs({Catalog("other", {In("", "react", Caret(10))})}))}

EditSetups ==
  {[Plain(Disk(EditDisk)) EXCEPT !.edits = {edit}, !.opts.phases = phases, !.requests = requests] :
     edit \in Edits, phases \in {{}, {"sync-lockfile"}},
     requests \in {<<>>, <<Request("workspace", "app")>>, <<Request("catalog", "default")>>}}

----------------------------------------------------------------------------
(* A directory with a name of one letter *)

OneLetterSetups ==
  {Plain(Disk(Root :> NpmRoot @@ NpmLock @@ <<"x", "package.json">> :> Manifest("x", {Dep("dom", Caret(10))})
                @@ <<"x", ".git">> :> [kind |-> "git"] @@ lock)) :
     lock \in {<<>>, <<"x", "pnpm-lock.yaml">> :> Lock("parsed")}}

MCSetups == PeerSetups \cup NeighbourSetups \cup CatalogSetups \cup FactSetups
              \cup ExecutionSetups \cup RepositorySetups \cup EditSetups
=================================================================================
