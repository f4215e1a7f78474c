------------------------------- MODULE Repository -------------------------------
(***************************************************************************)
(* What depfresh reads of a repository, and what it concludes from it      *)
(* (io/packages/discovery.ts, repository/model.ts, repository/evidence.ts, *)
(* contracts/repository-projection.ts).  Discovery, the parse of the       *)
(* sources, the walk for evidence and the conclusions read the disk one    *)
(* after another: every operator takes the disk it reads, and Planning     *)
(* applies them to the disk of the moment.                                 *)
(*                                                                         *)
(* A file is its directory and its name, the hash of a file is its         *)
(* content, and an identifier is the tuple the code hashes it from.  A     *)
(* disk has the content of each file, the directories that cannot be       *)
(* listed, the files that cannot be read, and for a lockfile that is a     *)
(* symbolic link the file it leads to.                                     *)
(***************************************************************************)
EXTENDS Integers, Sequences, FiniteSets, SequencesExt

CONSTANTS Dirs,        \* the directories, "." the root among them
          Within,      \* for each, the directories it lies in, itself included
          PathLength,  \* for each, the length of its path
          LockManager  \* for each name of a lockfile, the manager that writes it

\* The directories a directory lies in lie in one another, each with a longer path
\* than the one before it, but that "." is a path of one letter too.
ASSUME DirsAssumption ==
  /\ "." \in Dirs /\ PathLength["."] = 1
  /\ \A d \in Dirs :
       /\ {d, "."} \subseteq Within[d] /\ Within[d] \subseteq Dirs
       /\ PathLength[d] \in Nat \ {0}
       /\ \A e \in Within[d] :
            /\ Within[e] \subseteq Within[d]
            /\ e \notin {d, "."} => PathLength[e] < PathLength[d]
            /\ \A f \in Within[d] : e \in Within[f] \/ f \in Within[e]

ManifestNames  == {"package.json", "package.yaml"}
WorkspaceNames == {"pnpm-workspace.yaml", ".yarnrc.yml"}
RuntimeNames   == {".nvmrc", ".node-version", ".tool-versions"}
CatalogManager == [n \in WorkspaceNames \cup {"package.json"} |->
  CASE n = "pnpm-workspace.yaml" -> "pnpm" [] n = ".yarnrc.yml" -> "yarn" [] OTHER -> "bun"]

DependencyFields == {"dependencies", "devDependencies", "optionalDependencies", "peerDependencies"}
OverrideField    == "overrides"

FilesOf(disk) == DOMAIN disk.files \cup DOMAIN disk.links
Listed(disk)  == {f \in FilesOf(disk) : Within[f[1]] \cap disk.unavailable = {}}
Physical(disk, f) == IF f \in DOMAIN disk.links THEN disk.links[f] ELSE f
\* resolveContainedPath of a name inside the root: it leads to a file.
Contained(disk, f) ==
  LET p == Physical(disk, f) IN p \in DOMAIN disk.files /\ Within[p[1]] \cap disk.unavailable = {}
Readable(disk, f) == Contained(disk, f) /\ Physical(disk, f) \notin disk.unreadable
Content(disk, f) == disk.files[Physical(disk, f)]

----------------------------------------------------------------------------
(* Discovery: the manifests of the workspace, and the dependencies they declare *)

Marked(disk, d, manifests) ==
  \/ \E n \in WorkspaceNames \cup {".git"} : <<d, n>> \in FilesOf(disk)
  \/ \E f \in manifests : f[1] = d /\ Readable(disk, f) /\ Content(disk, f).form = "object"
                            /\ Content(disk, f).workspaces # "absent"

\* classifyWorkspaceBoundary: a package of a workspace of its own, not its root.
NestedDescendant(disk, f, manifests) ==
  /\ f[1] # "." /\ ~Marked(disk, f[1], {f})
  /\ \E d \in Within[f[1]] \ {".", f[1]} : Marked(disk, d, manifests)

Matched(disk, opts) ==
  {f \in Listed(disk) : f[2] \in ManifestNames /\ (opts.recursive \/ f[1] = ".")}

Loads(disk, f) == Readable(disk, f) /\ Content(disk, f).form # "broken"

\* The first manifest of each directory that loads, a package.yaml before a package.json.
LoadedManifests(disk, opts) ==
  LET matched == Matched(disk, opts)
      kept    == {f \in matched : ~(opts.ignoreOthers /\ NestedDescendant(disk, f, matched))}
  IN {f \in kept : Loads(disk, f) /\
        ~(f[2] = "package.json" /\ <<f[1], "package.yaml">> \in kept /\ Loads(disk, <<f[1], "package.yaml">>))}

\* shouldSkipDependency
Unresolvable == {"catalog", "file", "link", "git", "http"}
Locked(spec) == spec.kind \in {"exact", "workspace"}

Dependency(f, section, e, update) ==
  [id |-> <<"occurrence", f[1], f[2], section, e.name>>, name |-> e.name, protocol |-> e.protocol,
   spec |-> e.spec, update |-> update]

ManagerEntry(manager) ==
  [name |-> manager.name, protocol |-> "semver", secret |-> FALSE,
   spec |-> [kind |-> "exact", v |-> manager.version]]

DeclaredBy(disk, f, opts) ==
  LET c == Content(disk, f) IN
  IF c.form # "object" THEN {}
  ELSE {Dependency(f, e.section, e, ~Locked(e.spec) \/ opts.includeLocked) :
          e \in {x \in c.entries : x.section \in opts.fields /\ x.protocol \notin Unresolvable}}
       \cup {Dependency(f, "packageManager", ManagerEntry(c.manager[i]), TRUE) :
               i \in {j \in DOMAIN c.manager : c.manager[j].valid}}

\* loadCatalogs: those of the root; a workspace file that fails to load takes the others with it.
CatalogFiles(disk) == {f \in FilesOf(disk) : f[1] = "." /\ f[2] \in DOMAIN CatalogManager}
CatalogsLoad(disk) == \A f \in CatalogFiles(disk) : f[2] \in WorkspaceNames => Loads(disk, f)
CataloguedBy(disk, opts) ==
  IF ~opts.recursive \/ ~CatalogsLoad(disk) THEN {}
  ELSE UNION {UNION {{Dependency(f, catalog.name, e, ~Locked(e.spec) \/ opts.includeLocked) :
                        e \in catalog.entries} : catalog \in Content(disk, f).catalogs} :
                f \in {x \in CatalogFiles(disk) : Readable(disk, x) /\ Content(disk, x).form = "object"}}

\* discoverPackages
Discovered(disk, opts) ==
  LET loaded == LoadedManifests(disk, opts) IN
  [matched |-> Matched(disk, opts), loaded |-> loaded,
   names   |-> {Content(disk, f).name : f \in {x \in loaded : Content(disk, x).form = "object"}},
   deps    |-> (UNION {DeclaredBy(disk, f, opts) : f \in loaded}) \cup CataloguedBy(disk, opts)]

----------------------------------------------------------------------------
(* The sources, the packages, the catalogs and the occurrences *)

SourcePaths(disk, report) ==
  report.matched \cup {f \in FilesOf(disk) : f[1] = "." /\ f[2] \in WorkspaceNames}

\* parseSource
SourcesOf(disk, report) ==
  {[id |-> <<"source", f[1], f[2]>>, file |-> f, hash |-> Content(disk, f),
    state |-> IF Content(disk, f).form = "object" THEN "parsed" ELSE "error"] :
     f \in {x \in SourcePaths(disk, report) : Readable(disk, x)}}

SourceDiagnostics(disk, report) ==
  {<<"SOURCE_PARSE_FAILED", f[1], f[2]>> :
     f \in {x \in SourcePaths(disk, report) : ~Readable(disk, x) \/ Content(disk, x).form # "object"}}

Parsed(sources) == {s \in sources : s.state = "parsed"}

\* buildPackages
PackageId(f) == <<"package", f[1], f[2], "">>
PackagesOf(report, sources) ==
  {[id |-> PackageId(s.file), file |-> s.file, dir |-> s.file[1],
    name |-> IF s.state = "parsed" THEN s.hash.name ELSE s.file[1]] :
     s \in {x \in sources : x.file \in report.loaded}}

\* buildCatalogDefinitions
CatalogId(s, catalog) == <<"catalog", s.file[1], CatalogManager[s.file[2]], catalog.name>>
CatalogsOf(sources) ==
  UNION {{[id |-> CatalogId(s, catalog), file |-> s.file, name |-> catalog.name,
           manager |-> CatalogManager[s.file[2]],
           entries |-> {<<"occurrence", s.file[1], s.file[2], catalog.name, e.name>> : e \in catalog.entries}] :
             catalog \in s.hash.catalogs} :
           s \in {x \in Parsed(sources) : x.file[2] \in DOMAIN CatalogManager}}

NoCatalog == <<"catalog", "", "", "">>

Occurrence(owner, s, section, e, role, catalog, writeable) ==
  [id |-> <<"occurrence", s.file[1], s.file[2], section, e.name>>, owner |-> owner, file |-> s.file,
   section |-> section, name |-> e.name, role |-> role, protocol |-> e.protocol, spec |-> e.spec,
   catalog |-> catalog, writeable |-> writeable, secret |-> e.secret]

\* A reference to a catalog names one only when one has the name.
CatalogNamed(catalogs, name) ==
  LET named == {c.id : c \in {x \in catalogs : x.name = name}} IN
  IF Cardinality(named) = 1 THEN CHOOSE id \in named : TRUE ELSE NoCatalog

RoleOf(e) == IF e.section = OverrideField THEN "override"
             ELSE IF e.protocol = "catalog" THEN "catalog-consumer" ELSE "dependency"

\* collectManifestOccurrences
ManifestOccurrences(s, catalogs) ==
  {Occurrence(PackageId(s.file), s, e.section, e, RoleOf(e),
              IF RoleOf(e) = "catalog-consumer" THEN CatalogNamed(catalogs, e.catalog) ELSE NoCatalog,
              e.protocol \notin Unresolvable) : e \in s.hash.entries}
    \cup {Occurrence(PackageId(s.file), s, "packageManager", ManagerEntry(s.hash.manager[i]),
                     "package-manager", NoCatalog, TRUE) : i \in DOMAIN s.hash.manager}

CatalogOccurrences(s) ==
  UNION {{Occurrence(CatalogId(s, catalog), s, catalog.name, e, "catalog-owner", CatalogId(s, catalog), TRUE) :
            e \in catalog.entries} : catalog \in s.hash.catalogs}

OccurrencesOf(report, sources) ==
  LET catalogs == CatalogsOf(sources) IN
  (UNION {ManifestOccurrences(s, catalogs) : s \in {x \in Parsed(sources) : x.file \in report.loaded}})
    \cup UNION {CatalogOccurrences(s) : s \in {x \in Parsed(sources) : x.file[2] \in DOMAIN CatalogManager}}

CatalogDiagnostics(report, sources) ==
  LET catalogs == CatalogsOf(sources)
      named(e) == Cardinality({c \in catalogs : c.name = e.catalog})
  IN UNION {{<<IF named(e) > 1 THEN "CATALOG_REFERENCE_AMBIGUOUS" ELSE "CATALOG_REFERENCE_UNRESOLVED",
               s.file[1], s.file[2]>> :
               e \in {x \in s.hash.entries : RoleOf(x) = "catalog-consumer" /\ named(x) # 1}} :
             s \in {x \in Parsed(sources) : x.file \in report.loaded}}
=============================================================================
