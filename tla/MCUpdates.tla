-------------------------------- MODULE MCUpdates --------------------------------
(* Families of repositories: one varies the options, one the registry and the    *)
(* values, one the places and what an addon adds, and two the repeated checks:   *)
(* versions that are deprecated, and dependencies that meet at one place.        *)
EXTENDS Updates

Release(major, minor, patch, channel) ==
  [major |-> major, minor |-> minor, patch |-> patch, channel |-> channel]
MCReleases ==
  <<Release(0, 1, 0, ""), Release(0, 2, 0, ""), Release(1, 0, 0, ""), Release(1, 0, 1, ""),
    Release(1, 1, 0, "alpha"), Release(1, 1, 0, ""), Release(1, 1, 1, ""),
    Release(2, 0, 0, "alpha"), Release(2, 0, 0, "beta"), Release(2, 0, 0, "")>>

Value(shape, at) == [shape |-> shape, at |-> at]
Registry(published, deprecated, recent, undated, latest, next) ==
  [published |-> published, deprecated |-> deprecated, recent |-> recent,
   undated |-> undated, latest |-> latest, next |-> next]
Plain == Registry({3, 4, 6, 7, 10}, {}, {}, {}, 6, 8)

NoOpts  == [includeLocked |-> FALSE, cooldown |-> FALSE, force |-> FALSE]
NoFlags == [workspaces |-> {}, catalogs |-> {}]
NoLayer == Layer({}, "default", <<>>, <<>>, <<>>, <<>>)

Manifest(file, label) == [kind |-> "manifest", file |-> file, label |-> label, catalogs |-> {}]
Dep(pkg, name, field, parents, facts) ==
  LET change == [name |-> name, field |-> field, parents |-> parents] IN
  [name |-> name, resolves |-> name, field |-> field, parents |-> parents, facts |-> facts,
   place |-> Input(pkg, change).place]
Package(pkg, workspace, catalog, manager, deps) ==
  [pkg |-> pkg, workspace |-> workspace, catalog |-> catalog, manager |-> manager, deps |-> deps]

Repository(packages, spec, reg, config, invocation, flags, opts, added) ==
  LET deps == UNION {ToSet(packages[i].deps) : i \in DOMAIN packages} IN
  [packages |-> packages, value |-> [place \in {d.place : d \in deps} |-> spec],
   registry |-> [name \in Names |-> reg], config |-> config, invocation |-> invocation,
   flags |-> flags, opts |-> opts, added |-> added]

One(manager) == LET pkg == Manifest("f", "p") IN
  <<Package(pkg, "w", "none", manager, <<Dep(pkg, "a", "dependencies", <<>>, "x")>>)>>

----------------------------------------------------------------------------
Spells(name) == [names |-> {name}, spells |-> name, valid |-> TRUE]
Every  == [names |-> Names, spells |-> "*", valid |-> TRUE]
Starting == [names |-> {"a"}, spells |-> "a*", valid |-> TRUE]
Broken == [names |-> {}, spells |-> "[", valid |-> FALSE]
Entry(pattern, mode) == [pattern |-> pattern, mode |-> mode]

PackageModes == {<<>>, <<Entry(Every, "patch"), Entry(Spells("a"), "ignore")>>,
                 <<Entry(Starting, "minor"), Entry(Every, "ignore"), Entry(Broken, "patch")>>}
Filters == {<<>>, <<Spells("a")>>}

RuleSets ==
  {<<>>, <<[For({"a"}, "exclude", "none") EXCEPT !.manager = "npm"]>>,
   <<[Broad("none", "minor", "none") EXCEPT !.manager = "pnpm"],
     [Broad("include", "none", "none") EXCEPT !.workspaces = {"w"}]>>,
   <<Broad("none", "patch", "none"), [For({"b"}, "include", "none") EXCEPT !.manager = "npm"],
     [Broad("exclude", "none", "none") EXCEPT !.roles = {"owner"}]>>}

Configs ==
  {Layer({"mode", "packageMode"}, mode, modes, <<>>, <<>>, <<>>) :
     mode \in {"default", "ignore"}, modes \in PackageModes}
    \cup {Layer({"packageMode", "exclude"}, "default", modes, <<>>, f, rules) :
            modes \in PackageModes, f \in Filters, rules \in RuleSets}
Invocations ==
  {NoLayer, Layer({"mode"}, "latest", <<>>, <<>>, <<>>, <<>>),
   Layer({"packageMode"}, "default", <<Entry(Spells("a"), "minor")>>, <<>>, <<>>, <<>>),
   Layer({"include"}, "default", <<>>, <<Spells("a")>>, <<>>, <<>>),
   Layer({"include", "exclude"}, "default", <<>>, <<>>, <<Spells("b")>>, <<>>)}

PolicySetups ==
  {Repository(One(manager), Value("caret", 3), Plain, config, invocation, flags, NoOpts, <<>>) :
     manager \in {"npm", "unknown"}, config \in Configs, invocation \in Invocations,
     flags \in {NoFlags, [workspaces |-> {"w"}, catalogs |-> {"c"}]}}

----------------------------------------------------------------------------
Values == {Value("caret", at) : at \in {1, 3, 5, 6, 8}} \cup {Value("tilde", at) : at \in {1, 3, 5}}
            \cup {Value("exact", at) : at \in {3, 8}}
            \cup {Value("eq", 6), Value("xmajor", 3), Value("xminor", 1), Value("xminor", 6),
                  Value("complex", 3), Value("invalid", 3), Value("latest", 3), Value("next", 3)}

Registries ==
  LET all == DOMAIN MCReleases IN
  {Registry(all, deprecated, {}, {}, latest, 8) :
     deprecated \in {{}, {10}, {3, 6}, all}, latest \in {0, 6, 9, 10}}
    \cup {Registry(published, {7}, recent, undated, 7, 0) :
            published \in {{}, {3, 4, 6, 7}, {5, 8, 9}, {1, 2, 3}, {3, 4, 6, 7, 10}},
            recent \in {{}, {4, 10}, {3, 4, 6, 7}}, undated \in {{}, {6}}}

Modes == {"default", "minor", "patch", "latest", "newest", "next"}

VersionSetups ==
  {Repository(One("npm"), spec, reg, NoLayer,
              Layer({"mode"}, mode, <<>>, <<>>, <<>>, <<>>), NoFlags,
              [includeLocked |-> TRUE, cooldown |-> reg.recent \cup reg.undated # {},
               force |-> FALSE], <<>>) :
     spec \in Values, reg \in Registries, mode \in Modes}

----------------------------------------------------------------------------
Catalog(file, name, names) ==
  [file |-> file, name |-> name, deps |-> [name : names, parents : {<<name>>}]]
Owner(catalogs) == [kind |-> "catalog", file |-> "k", label |-> "k", catalogs |-> catalogs]

Owners == {Owner({Catalog("k", "c", {"a"})}), Owner({Catalog("out", "c", {"a"})}),
           Owner({Catalog("k", "c", {"a"}), Catalog("k", "d", {"a"})})}

Addition(name, field, parents, to, diff) ==
  [name |-> name, field |-> field, parents |-> parents, from |-> Value("caret", 3),
   to |-> Value("caret", to), diff |-> diff, facts |-> "x"]
Additions ==
  {<<>>, <<Addition("a", "dependencies", <<>>, 7, "minor")>>,
   <<Addition("a", "dependencies", <<>>, 4, "patch")>>,
   <<Addition("b", "overrides", <<"a", "b">>, 7, "none")>>,
   <<Addition("b", "catalog", <<>>, 7, "minor")>>}

Seconds ==
  {[pkg |-> Manifest(file, label), catalog |-> "none", parents |-> <<>>, field |-> "dependencies"] :
     file \in {"f", "g", "out"}, label \in {"p", "q"}}
    \cup {[pkg |-> owner, catalog |-> "c", parents |-> parents, field |-> "catalog"] :
            owner \in Owners, parents \in {<<>>, <<"c">>}}

WriteSetups ==
  {Repository(<<Package(first, "w", "none", "npm",
                        <<Dep(first, "a", "dependencies", <<>>, "x"),
                          Dep(first, "b", "overrides", <<"a", "b">>, "x")>>),
                Package(second.pkg, "v", second.catalog, "npm",
                        <<Dep(second.pkg, "a", second.field, second.parents, facts)>>)>>,
              Value("caret", 3), Plain, NoLayer,
              Layer({"mode"}, "minor", <<>>, <<>>, <<>>, rules), NoFlags, NoOpts, added) :
     first \in {Manifest("f", "p")}, second \in Seconds, facts \in {"x", "y"},
     rules \in {<<>>, <<[Broad("none", "patch", "none") EXCEPT !.workspaces = {"v"}]>>},
     added \in Additions}

\* A floor that is deprecated; two dependencies of one place whose modes differ.
FloorSetups ==
  {Repository(One("npm"), spec, Registry({1, 2, 3, 4, 10}, deprecated, {}, {}, latest, 0), NoLayer,
              Layer({"mode"}, mode, <<>>, <<>>, <<>>, <<>>), NoFlags, NoOpts, <<>>) :
     spec \in Values, mode \in Modes, deprecated \in {{3}, {3, 10}, {4, 10}}, latest \in {4, 10}}

MeetingSetups ==
  {Repository(<<Package(pkg, "w", "none", "npm", <<Dep(pkg, "a", "dependencies", <<>>, "x")>>),
                Package(pkg, "v", "none", "npm", <<Dep(pkg, "a", "dependencies", <<>>, "x")>>)>>,
              spec, Registry({3, 6, 7}, {}, {}, {}, 6, 0), NoLayer,
              Layer({"mode"}, mode, <<>>, <<>>, <<>>,
                    <<[Broad("none", "patch", "none") EXCEPT !.workspaces = {"v"}]>>),
              NoFlags, NoOpts, <<>>) :
     pkg \in {Manifest("f", "p")}, spec \in {Value("caret", 3), Value("tilde", 3)},
     mode \in {"latest", "patch"}}

MCSetups == PolicySetups \cup VersionSetups \cup WriteSetups \cup FloorSetups \cup MeetingSetups
=============================================================================
