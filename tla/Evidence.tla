-------------------------------- MODULE Evidence --------------------------------
(***************************************************************************)
(* What a repository says of itself beyond its dependencies                *)
(* (repository/evidence.ts): the boundaries inside it, the lockfiles and   *)
(* the runtimes of each, and a conclusion with a status for each kind of   *)
(* evidence; a conclusion that is not confirmed keeps a manager from being *)
(* run.                                                                    *)
(***************************************************************************)
EXTENDS Repository

----------------------------------------------------------------------------
(* Boundaries *)

EvidenceNames == ManifestNames \cup WorkspaceNames \cup RuntimeNames \cup DOMAIN LockManager \cup {".git"}

\* collectRepositoryCandidates
Walked(disk) ==
  [files |-> {f \in Listed(disk) : f[2] \in EvidenceNames}, unavailable |-> disk.unavailable]

\* collectManifests: the manifests among the sources are read once more.
ManifestsOf(disk, walk, sources) ==
  {[file |-> f, raw |-> Content(disk, f)] :
     f \in {x \in walk.files : /\ x[2] \in ManifestNames /\ Readable(disk, x)
                               /\ x \in {s.file : s \in sources}}}

Marker(kind, f) == [kind |-> kind, file |-> f]
MarkersOf(walk, manifests) ==
  {Marker("manifest-workspaces", m.file) :
     m \in {x \in manifests : x.raw.form = "object" /\ x.raw.workspaces # "absent"}}
    \cup {Marker(f[2], f) : f \in {x \in walk.files : x[2] \in WorkspaceNames \cup {".git"}}}

\* collectBoundaries
BoundariesIn(walk, manifests) ==
  LET markers == MarkersOf(walk, manifests) IN
  {[dir |-> d, markers |-> {m \in markers : m.file[1] = d},
    class |-> IF d = "." THEN "effective-root"
              ELSE IF \E m \in markers : m.file[1] = d /\ m.kind = ".git" THEN "nested-git"
              ELSE "nested-workspace"] :
     d \in {"."} \cup {m.file[1] : m \in markers}}

\* The longest path wins; between equal ones the order of the names, where "." comes first.
FirstByLength(dirs) ==
  LET longest == {d \in dirs : \A e \in dirs : PathLength[e] <= PathLength[d]} IN
  IF "." \in longest THEN "." ELSE CHOOSE d \in longest : TRUE

OwningBoundary(boundaries, d) == FirstByLength({b.dir : b \in boundaries} \cap Within[d])

----------------------------------------------------------------------------
(* Lockfiles and runtimes *)

\* A link that leads nowhere is left out.  Of the names of one physical file only one
\* is a lockfile: its own, or the only one.
LockNames(walk) == {f \in walk.files : f[2] \in DOMAIN LockManager}
LockCandidates(disk, walk) == {f \in LockNames(walk) : Contained(disk, f)}
Aliases(disk, walk, f) == {g \in LockCandidates(disk, walk) : Physical(disk, g) = Physical(disk, f)}
IsSelected(disk, walk, f) ==
  Aliases(disk, walk, f) = {f} \/ (f \notin DOMAIN disk.links /\ f \in DOMAIN disk.files)

ParseState(disk, f) ==
  CASE ~Readable(disk, f)   -> "unavailable"
    [] f[2] = "bun.lockb"   -> "unsupported"
    [] OTHER                -> Content(disk, f).parse

NoHash == [kind |-> "none"]

\* collectLockfiles
LockfilesOf(disk, walk, boundaries) ==
  {[id |-> <<"lockfile", f[1], f[2]>>, file |-> f, manager |-> LockManager[f[2]],
    boundary |-> OwningBoundary(boundaries, f[1]), state |-> ParseState(disk, f),
    hash |-> IF Readable(disk, f) THEN Content(disk, f) ELSE NoHash] :
     f \in {x \in LockCandidates(disk, walk) : IsSelected(disk, walk, x)}}

AliasConflicts(disk, walk, boundaries) ==
  {[boundary |-> OwningBoundary(boundaries, f[1]), file |-> f, manager |-> LockManager[f[2]]] :
     f \in {x \in LockCandidates(disk, walk) : \A g \in Aliases(disk, walk, x) : ~IsSelected(disk, walk, g)}}

LockfileDiagnostics(disk, walk, lockfiles) ==
  {<<"LOCKFILE_OUTSIDE_ROOT", f[1], f[2]>> : f \in LockNames(walk) \ LockCandidates(disk, walk)}
    \cup {<<"LOCKFILE_DUPLICATE_IDENTITY", f[1], f[2]>> :
            f \in {x \in LockCandidates(disk, walk) : ~IsSelected(disk, walk, x)}}
    \cup {<<CASE l.state = "unavailable" -> "LOCKFILE_UNAVAILABLE"
              [] l.state = "error"       -> "LOCKFILE_PARSE_FAILED"
              [] l.state = "unsupported" -> "LOCKFILE_UNSUPPORTED", l.file[1], l.file[2]>> :
            l \in {x \in lockfiles : x.state # "parsed"}}

Engine(b, m) ==
  [id |-> <<"runtime", m.file[1], m.file[2], "">>, file |-> m.file, boundary |-> b.dir,
   range |-> m.raw.engines[1], hash |-> NoHash]
RuntimeFile(disk, b, f) ==
  [id |-> <<"runtime", f[1], f[2], "">>, file |-> f, boundary |-> b.dir,
   range |-> Content(disk, f).range, hash |-> Content(disk, f)]

RuntimeFiles(disk, b) == {f \in FilesOf(disk) : f[1] = b.dir /\ f[2] \in RuntimeNames}

\* collectRuntimeDeclarations: what the manifests and the version files of a boundary name.
RuntimesOf(disk, boundaries, manifests) ==
  UNION {{Engine(b, m) : m \in {x \in manifests : x.file[1] = b.dir /\ x.raw.form = "object"
                                                    /\ x.raw.engines # <<>>}}
           \cup {RuntimeFile(disk, b, f) : f \in {x \in RuntimeFiles(disk, b) :
                   Readable(disk, x) /\ Content(disk, x).says = "range"}} : b \in boundaries}

RuntimeDiagnostics(disk, boundaries) ==
  LET files == UNION {RuntimeFiles(disk, b) : b \in boundaries} IN
  {<<"RUNTIME_DECLARATION_UNAVAILABLE", f[1], f[2]>> : f \in {x \in files : ~Readable(disk, x)}}
    \cup {<<"RUNTIME_DECLARATION_UNSUPPORTED", f[1], f[2]>> :
            f \in {x \in files : Readable(disk, x) /\ Content(disk, x).says = "unsupported"}}

----------------------------------------------------------------------------
(* Conclusions: of each boundary, one of each kind *)

Unavailable(walk, boundaries, b) == {d \in walk.unavailable : OwningBoundary(boundaries, d) = b.dir}

Conclusion(kind, b, status, values, sources, codes) ==
  [id |-> <<"evidence", b, kind, "">>, kind |-> kind, boundary |-> b, status |-> status,
   values |-> values, sources |-> sources, codes |-> codes]

DirectoryCodes(unavailable) == {<<"REPOSITORY_DIRECTORY_UNAVAILABLE", d, "">> : d \in unavailable}

\* What a marker declares; the file of a workspace is read here, not before.
Declaration(disk, m, manifests) ==
  CASE m.kind = "manifest-workspaces" ->
         (CHOOSE x \in manifests : x.file = m.file).raw.workspaces
    [] m.kind # "manifest-workspaces" /\ ~Readable(disk, m.file) -> "unreadable"
    [] OTHER -> LET c == Content(disk, m.file) IN
                IF c.form # "object" THEN "bad" ELSE c.workspaces

WorkspaceConclusion(disk, walk, boundaries, b, manifests) ==
  LET markers  == {m \in b.markers : m.kind # ".git"}
      said     == {<<m, Declaration(disk, m, manifests)>> : m \in markers}
      declared == {x[2] : x \in {y \in said : y[1].kind # ".yarnrc.yml"}}
      out      == Unavailable(walk, boundaries, b)
  IN Conclusion("workspace", b.dir,
       CASE (\E x \in said : x[2] = "unreadable") \/ (markers = {} /\ out # {}) -> "unavailable"
         [] \E x \in said : x[2] = "bad"                                        -> "unsupported"
         [] markers = {}                                                        -> "missing"
         [] Cardinality(declared) > 1                                           -> "ambiguous"
         [] OTHER                                                               -> "confirmed",
       {<<d>> : d \in declared}, {m.file : m \in markers},
       DirectoryCodes(out)
         \cup {<<IF x[2] = "bad" THEN "WORKSPACE_DECLARATION_UNSUPPORTED"
                 ELSE "WORKSPACE_DECLARATION_UNAVAILABLE", x[1].file[1], x[1].file[2]>> :
                 x \in {y \in said : y[2] \in {"bad", "unreadable"}}}
         \cup (IF Cardinality(declared) > 1 /\ {"bad", "unreadable"} \cap {x[2] : x \in said} = {}
               THEN {<<"WORKSPACE_DECLARATION_CONFLICT", b.dir, "">>} ELSE {}))

\* The managers the lockfiles of a boundary belong to.
LockedBy(lockfiles, aliases, b) ==
  {l.manager : l \in {x \in lockfiles : x.boundary = b.dir}}
    \cup {a.manager : a \in {x \in aliases : x.boundary = b.dir}}

NoVersionSaid == -1
ManagerConclusion(walk, boundaries, b, manifests, lockfiles, aliases) ==
  LET at       == {m \in manifests : m.file[1] = b.dir /\ m.raw.form = "object" /\ m.raw.manager # <<>>}
      said     == {m.raw.manager[1] : m \in at}
      locked   == LockedBy(lockfiles, aliases, b)
      names    == {x.name : x \in {y \in said : y.valid}}
      invalid  == {m \in at : ~m.raw.manager[1].valid}
      out      == Unavailable(walk, boundaries, b)
  IN Conclusion("package-manager", b.dir,
       IF invalid # {}      THEN "unsupported"
       ELSE IF at # {}      THEN IF Cardinality(said) > 1 THEN "ambiguous" ELSE "confirmed"
       ELSE IF out # {}     THEN "unavailable"
       ELSE IF locked = {}  THEN "missing"
       ELSE IF Cardinality(locked) = 1 THEN "confirmed" ELSE "ambiguous",
       IF at # {} THEN {<<x.name, IF x.valid THEN x.version ELSE NoVersionSaid>> : x \in said}
                         \cup {<<n, NoVersionSaid>> : n \in IF invalid # {} THEN locked ELSE {}}
       ELSE {<<n, NoVersionSaid>> : n \in locked},
       {m.file : m \in at}, DirectoryCodes(out)
         \cup {<<"PACKAGE_MANAGER_INVALID", m.file[1], m.file[2]>> : m \in invalid}
         \cup (IF names # {} /\ locked \ names # {}
               THEN {<<"PACKAGE_MANAGER_LOCKFILE_MISMATCH", b.dir, "">>} ELSE {}))

LockfileConclusion(walk, boundaries, b, lockfiles, aliases) ==
  LET mine  == {l \in lockfiles : l.boundary = b.dir}
      other == {a \in aliases : a.boundary = b.dir}
      out   == Unavailable(walk, boundaries, b)
  IN Conclusion("lockfile-selection", b.dir,
       IF out # {}        THEN "unavailable"
       ELSE IF other # {} THEN "ambiguous"
       ELSE IF mine = {}  THEN "missing"
       ELSE IF Cardinality(mine) > 1                        THEN "ambiguous"
       ELSE IF \A l \in mine : l.state = "parsed"           THEN "confirmed"
       ELSE IF \A l \in mine : l.state = "unavailable"      THEN "unavailable" ELSE "unsupported",
       {l.id : l \in mine} \cup {<<"alias", a.file[1], a.file[2]>> : a \in other},
       {l.file : l \in mine} \cup {a.file : a \in other}, DirectoryCodes(out))

RuntimeConclusion(walk, boundaries, b, runtimes, diagnostics) ==
  LET mine == {r \in runtimes : r.boundary = b.dir}
      out  == Unavailable(walk, boundaries, b)
      codes == {x \in diagnostics :
                  /\ x[1] \in {"RUNTIME_DECLARATION_UNAVAILABLE", "RUNTIME_DECLARATION_UNSUPPORTED"}
                  /\ OwningBoundary(boundaries, x[2]) = b.dir}
  IN Conclusion("runtime", b.dir,
       CASE out # {} \/ (\E x \in codes : x[1] = "RUNTIME_DECLARATION_UNAVAILABLE") -> "unavailable"
         [] codes # {}                                -> "unsupported"
         [] mine = {}                                 -> "missing"
         [] Cardinality({r.range : r \in mine}) > 1   -> "ambiguous"
         [] OTHER                                     -> "confirmed",
       {r.id : r \in mine}, {r.file : r \in mine}, DirectoryCodes(out) \cup codes)

RootConclusion(walk) ==
  Conclusion("root", ".", IF "." \in walk.unavailable THEN "unavailable" ELSE "confirmed", {}, {},
             DirectoryCodes(walk.unavailable \cap {"."}))

\* Each worktree is asked: the root, and the repositories nested in it.
VcsConclusion(disk, boundaries) ==
  LET worktrees == {b.dir : b \in {x \in boundaries : x.dir = "." \/ x.class = "nested-git"}} IN
  Conclusion("vcs", ".", IF worktrees \subseteq disk.versioned THEN "confirmed" ELSE "unavailable",
             {<<d>> : d \in worktrees}, {}, {<<"VCS_UNAVAILABLE", d, "">> : d \in worktrees \ disk.versioned})

Conclusions(disk, walk, manifests, boundaries, lockfiles, aliases, runtimes, diagnostics) ==
  {RootConclusion(walk), VcsConclusion(disk, boundaries)}
    \cup UNION {{WorkspaceConclusion(disk, walk, boundaries, b, manifests),
                 ManagerConclusion(walk, boundaries, b, manifests, lockfiles, aliases),
                 LockfileConclusion(walk, boundaries, b, lockfiles, aliases),
                 RuntimeConclusion(walk, boundaries, b, runtimes, diagnostics)} : b \in boundaries}

----------------------------------------------------------------------------
(* The projection of the repository *)

\* collectFingerprintSources: one hash for each path.
FingerprintSources(model) ==
  {<<x.file, x.hash>> : x \in model.sources}
    \cup {<<x.file, x.hash>> : x \in {y \in model.lockfiles \cup model.runtimes : y.hash # NoHash}}

SnapshotConflict(model) ==
  \E x, y \in FingerprintSources(model) : x[1] = y[1] /\ x[2] # y[2]

\* A risk of the plan: what it is, whether it blocks, and the occurrence it is about.
Risk(code, blocking, about) == [code |-> code, blocking |-> blocking, about |-> about]

EvidenceRisk ==
  [status \in {"ambiguous", "unavailable", "unsupported"} |->
     CASE status = "ambiguous"   -> "EVIDENCE_AMBIGUOUS"
       [] status = "unavailable" -> "EVIDENCE_UNAVAILABLE"
       [] status = "unsupported" -> "EVIDENCE_UNSUPPORTED"]

\* projectRepositoryRisks
RepositoryRisks(model) ==
  {Risk("OCCURRENCE_VALUE_REDACTED", TRUE, o.id) : o \in {x \in model.occs : x.secret}}
    \cup {Risk(EvidenceRisk[e.status], e.status = "ambiguous", e.id) :
            e \in {x \in model.evidence : x.status \notin {"confirmed", "missing"}}}
    \cup {Risk(d[1], TRUE, <<d[2], d[3]>>) : d \in model.diagnostics}
=============================================================================
