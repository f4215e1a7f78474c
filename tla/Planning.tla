-------------------------------- MODULE Planning --------------------------------
(***************************************************************************)
(* A run of "depfresh plan" (commands/plan/index.ts), from the options to  *)
(* the result.  The disk is read step by step, and the user may change a   *)
(* file between two of the steps; then versions are resolved, decisions    *)
(* taken and operations drawn up, signals evaluated until they block no    *)
(* further operation, the execution added, and the plan held to its        *)
(* contract: one that does not meet it is refused instead of returned.     *)
(*                                                                         *)
(* What the registry says of a name, and what the rules of the policy say  *)
(* of it, are given by the setup; Updates and Policy model how they come   *)
(* about.  Of occurrences and boundaries the model keeps no order: where   *)
(* the code takes the first one that has a reason, any of them may.        *)
(***************************************************************************)
EXTENDS PlanContract

\* The invocations looked at: the disk, at most one edit of it, the options, what
\* the registry and the policy say, and the exclusions of the command line.
CONSTANT Setups

\* A repository has finitely many files, each a directory and a name, and no link where
\* a file is; a version that is selected is one, and rules are given in an order.
ASSUME SetupsAssumption ==
  \A s \in Setups :
    /\ IsFiniteSet(FilesOf(s.disk))
    /\ \A f \in FilesOf(s.disk) : f = <<f[1], f[2]>> /\ f[1] \in Dirs
    /\ DOMAIN s.disk.files \cap DOMAIN s.disk.links = {}
    /\ \A n \in DOMAIN s.registry :
         LET of == s.registry[n] IN
         /\ of.status \in {"selected", "skipped", "blocked", "unknown"}
         /\ of.status = "selected" => of.target # NoVersion
    /\ s.rules \in Seq(ToSet(s.rules))

VARIABLES
  setup,      \* the invocation
  disk,       \* the files of the repository
  edits,      \* the edit the user has not made yet
  phase,      \* where the run is, or how it ended
  report,     \* what discovery found
  model,      \* the repository model, as far as it is built
  decisions,  \* for each occurrence, what the plan decides of it
  ops,        \* the operations, by the occurrence they change
  first,      \* the occurrences that had an operation before any was blocked
  given,      \* what the evaluator of the signals is given
  signals,    \* what it made of it last
  causal,     \* the signals that blocked an operation
  execution,  \* how the plan is to be carried out
  plan        \* the result

world == <<setup, disk, edits>>
read  == <<report, model>>
drawn == <<decisions, ops, first, given, signals, causal>>
vars  == <<world, phase, read, drawn, execution, plan>>

opts == setup.opts
Nothing == [kind |-> "none"]

\* The report and the repository model before anything is read.
NoReport == [matched |-> {}, loaded |-> {}, names |-> {}, deps |-> {}]
NoModel ==
  [sources |-> {}, packages |-> {}, catalogs |-> {}, occs |-> {}, diagnostics |-> {},
   walk |-> [files |-> {}, unavailable |-> {}], manifests |-> {}, boundaries |-> {},
   lockfiles |-> {}, aliases |-> {}, runtimes |-> {}, evidence |-> {}, links |-> <<>>,
   consumers |-> {}, policies |-> <<>>]

Init ==
  /\ setup \in Setups /\ disk = setup.disk /\ edits = setup.edits
  /\ phase = "options"
  /\ report = NoReport /\ model = NoModel
  /\ decisions = <<>> /\ ops = <<>> /\ first = {} /\ given = Nothing
  /\ signals = {} /\ causal = {} /\ execution = Nothing /\ plan = Nothing

Reading == {"options", "discover", "parse", "walk", "lockfiles", "runtimes", "conclude", "bind"}
Ended   == {"returned", "refused", "threw"}

\* The user changes a file while the plan reads.
Edit ==
  /\ phase \in Reading /\ edits # {}
  /\ \E e \in edits : disk' = [disk EXCEPT !.files[e.file] = e.content]
  /\ edits' = {}
  /\ UNCHANGED <<setup, phase, read, drawn, execution, plan>>

----------------------------------------------------------------------------
(* The options *)

Unset == -1

\* validatePhaseOptions, semanticAsOf, validateSignalConfiguration
OptionsHold ==
  /\ Cardinality(opts.phases) <= 1
  /\ opts.verifyArgv => opts.phases # {}
  /\ opts.verifyArtifacts => "install" \in opts.phases
  /\ opts.cooldown > 0 => opts.asOf # Unset
  /\ ConfigurationIsValid(setup.cohorts, setup.rules)

AsOf == IF opts.asOf = Unset THEN 0 ELSE opts.asOf
Mode == IF opts.phases = {} THEN "file-only" ELSE CHOOSE mode \in opts.phases : TRUE

CheckOptions ==
  /\ phase = "options"
  /\ phase' = IF OptionsHold THEN "discover" ELSE "threw"
  /\ UNCHANGED <<world, read, drawn, execution, plan>>

----------------------------------------------------------------------------
(* inspectRepositoryWithProjection: what is read, in the order it is read *)

Discover ==
  /\ phase = "discover" /\ phase' = "parse"
  /\ report' = Discovered(disk, opts)
  /\ UNCHANGED <<world, model, drawn, execution, plan>>

\* buildRepositoryModel: each source is read once, for its hash and for what it declares.
ParseSources ==
  /\ phase = "parse" /\ phase' = "walk"
  /\ LET sources == SourcesOf(disk, report) IN
     model' = [model EXCEPT
       !.sources = sources, !.packages = PackagesOf(report, sources),
       !.catalogs = CatalogsOf(sources), !.occs = OccurrencesOf(report, sources),
       !.diagnostics = SourceDiagnostics(disk, report) \cup CatalogDiagnostics(report, sources)]
  /\ UNCHANGED <<world, report, drawn, execution, plan>>

\* collectRepositoryEvidence
Walk ==
  /\ phase = "walk" /\ phase' = "lockfiles"
  /\ LET walk == Walked(disk)
         manifests == ManifestsOf(disk, walk, model.sources)
     IN model' = [model EXCEPT !.walk = walk, !.manifests = manifests,
                               !.boundaries = BoundariesIn(walk, manifests)]
  /\ UNCHANGED <<world, report, drawn, execution, plan>>

ReadLockfiles ==
  /\ phase = "lockfiles" /\ phase' = "runtimes"
  /\ LET lockfiles == LockfilesOf(disk, model.walk, model.boundaries) IN
     model' = [model EXCEPT
       !.diagnostics = @ \cup LockfileDiagnostics(disk, model.walk, lockfiles),
       !.lockfiles = lockfiles,
       !.aliases = AliasConflicts(disk, model.walk, model.boundaries)]
  /\ UNCHANGED <<world, report, drawn, execution, plan>>

ReadRuntimes ==
  /\ phase = "runtimes" /\ phase' = "conclude"
  /\ model' = [model EXCEPT
       !.diagnostics = @ \cup RuntimeDiagnostics(disk, model.boundaries),
       !.runtimes = RuntimesOf(disk, model.boundaries, model.manifests)]
  /\ UNCHANGED <<world, report, drawn, execution, plan>>

Conclude ==
  /\ phase = "conclude" /\ phase' = "bind"
  /\ LET evidence == Conclusions(disk, model.walk, model.manifests, model.boundaries, model.lockfiles,
                                 model.aliases, model.runtimes, model.diagnostics)
     IN model' = [model EXCEPT
       !.diagnostics = @ \cup UNION {e.codes : e \in evidence},
       !.evidence = evidence,
       !.links = [id \in IdsOf(model.packages) |->
                    OwningBoundary(model.boundaries, WithId(model.packages, id).dir)],
       !.consumers = {<<o.catalog, o.id>> :
         o \in {x \in model.occs : x.role = "catalog-consumer" /\ x.catalog # NoCatalog}}]
  /\ UNCHANGED <<world, report, drawn, execution, plan>>

----------------------------------------------------------------------------
(* The exclusions of the command line, and the policy *)

\* assertCurrentSource: the file is read again.
IsCurrent(file) ==
  Readable(disk, file) /\ \E s \in model.sources : s.file = file /\ s.hash = Content(disk, file)

Named(kind, value) ==
  IF kind = "workspace" THEN {x \in model.packages : x.dir = value}
  ELSE {x \in model.catalogs : x.name = value}

\* bindInvocationSelection: of a workspace exactly one package, of a catalog any.
Proven(request) ==
  LET named == Named(request.kind, request.value) IN
  /\ named # {} /\ (request.kind = "workspace" => Cardinality(named) = 1)
  /\ \A x \in named : IsCurrent(x.file)

RoleRule(o) == IF o.role = "catalog-consumer" THEN "consumer" ELSE "direct"

\* The rule of a request that matches an occurrence, if one does.
RulesFor(request, o) ==
  CASE request.kind = "workspace" /\ o.role # "catalog-owner" /\ WorkspaceOf(model, o.owner) = request.value ->
         <<<<"workspace", request.value, RoleRule(o)>>>>
    [] request.kind = "catalog" /\ o.catalog \in IdsOf(Named("catalog", request.value)) -> <<o.catalog>>
    [] OTHER -> <<>>

\* evaluateRepositoryPolicy, with the rules of the requests after all others: a rule
\* that waits for the manager to be known may still be the one that sets the mode.
PolicyOf(o) ==
  LET rule    == setup.policy[o.name]
      matched == FlattenSeq([i \in DOMAIN setup.requests |-> RulesFor(setup.requests[i], o)])
      action  == IF matched # <<>> THEN "exclude" ELSE rule.action
  IN [status |-> CASE rule.pending = "mode" \/ (rule.pending = "action" /\ matched = <<>>) -> "blocked"
                   [] OTHER -> IF action = "exclude" THEN "skipped" ELSE "selected",
      action |-> action, matched |-> matched]

Bind ==
  /\ phase = "bind"
  /\ phase' = IF \A i \in DOMAIN setup.requests : Proven(setup.requests[i]) THEN "resolve" ELSE "threw"
  /\ model' = [model EXCEPT
       !.policies = [id \in IdsOf(model.occs) |-> PolicyOf(WithId(model.occs, id))]]
  /\ UNCHANGED <<world, report, drawn, execution, plan>>

\* createSelectionReceipt
RequestReceipt(request) ==
  [kind |-> request.kind, value |-> request.value,
   entities |-> IdsOf(Named(request.kind, request.value)),
   occs |-> {o.id : o \in {x \in model.occs :
               \E rule \in ToSet(RulesFor(request, x)) : rule \in ToSet(model.policies[x.id].matched)}}]

IsWorkspaceRule(rule) == rule[1] = "workspace"
Receipt ==
  LET Matches(id, test) == \E rule \in ToSet(model.policies[id].matched) : IsWorkspaceRule(rule) = test
  IN [requests |-> [i \in DOMAIN setup.requests |-> RequestReceipt(setup.requests[i])],
      excluded |-> {id \in DOMAIN model.policies :
                      model.policies[id].status = "skipped" /\ model.policies[id].matched # <<>>},
      shared |-> {x[1] : x \in {y \in model.consumers :
                    /\ Matches(y[2], TRUE)
                    /\ \E id \in WithId(model.catalogs, y[1]).entries :
                         model.policies[id].status = "selected" /\ ~Matches(id, FALSE)}}]

----------------------------------------------------------------------------
(* Resolution *)

\* applyPolicyToProjection: the dependencies discovery found that the policy selects.
Projected == {d \in report.deps : d.id \in IdsOf(model.occs) /\ model.policies[d.id].status = "selected"}
Sensitive == {o.id : o \in {x \in model.occs : x.secret}}
Looked    == {d \in Projected : d.update /\ d.id \notin Sensitive}

Trace(status, reason, target) == [status |-> status, reason |-> reason, target |-> target]

\* What the registry answers; of a name it does not have it says nothing.
NoFacts == [known |-> FALSE, versions |-> {}, deprecated |-> [v \in Versions |-> "unknown"],
            signature |-> "unknown", provenance |-> "unknown", published |-> Unpublished,
            engine |-> "unknown", engineRange |-> {}, peerState |-> "unknown", peers |-> {},
            repository |-> "none"]
Unregistered == [status |-> "unknown", target |-> NoVersion, artifact |-> FALSE, facts |-> NoFacts]
Registered(name) == IF name \in DOMAIN setup.registry THEN setup.registry[name] ELSE Unregistered

IsPrivate(d) == d.name \in report.names /\ d.protocol # "workspace"

\* resolveDependency, from the version and the range that discovery read.
TraceOf(d) ==
  LET of == Registered(d.name) IN
  IF IsPrivate(d) THEN Trace("skipped", "PRIVATE_WORKSPACE_PACKAGE", NoVersion)
  ELSE IF ~of.facts.known THEN Trace("unknown", "REGISTRY_UNAVAILABLE", NoVersion)
  ELSE IF d.spec.kind \notin SpecKinds THEN Trace("skipped", "CURRENT_VERSION_INVALID", NoVersion)
  ELSE IF of.status # "selected" THEN Trace(of.status, "CANDIDATE_EXCLUDED", NoVersion)
  ELSE IF of.target = d.spec.v THEN Trace("unchanged", "CURRENT_VERSION_SELECTED", of.target)
  ELSE Trace("selected", "CANDIDATE_SELECTED", of.target)

NoTrace == Trace("none", "none", NoVersion)
NoSpec  == [kind |-> "bad", v |-> 0]

\* The dependency discovery found of an occurrence, if it found one.
Found(id) == {d \in Projected : d.id = id}
Asked(id) == {d \in Looked : d.id = id}
One(records) == CHOOSE x \in records : TRUE

Traces == [id \in IdsOf(model.occs) |-> IF Asked(id) = {} THEN NoTrace ELSE TraceOf(One(Asked(id)))]

\* recordResolutionMetadata: of those the registry was asked about, what it says of
\* the name and the version it was asked for.
Metadata == [id \in IdsOf(model.occs) |->
  IF Asked(id) = {} \/ IsPrivate(One(Asked(id))) THEN NoFacts ELSE Registered(One(Asked(id)).name).facts]
Currents == [id \in IdsOf(model.occs) |-> IF Asked(id) = {} THEN NoSpec ELSE One(Asked(id)).spec]

\* projectOccurrences: the text of a sensitive value is withheld.
Public(o) == IF o.secret THEN [o EXCEPT !.spec = NoSpec] ELSE o

\* A repository whose sources changed while they were read is not projected; of
\* another the signals are given what is known of it.
Gathered ==
  [occs |-> {Public(o) : o \in model.occs},
   paths |-> [id \in IdsOf(model.packages) \cup IdsOf(model.catalogs) |-> WorkspaceOf(model, id)],
   boundaries |-> [id \in IdsOf(model.packages) \cup IdsOf(model.catalogs) |-> LinkOf(model, id)],
   runtimes |-> {[id |-> r.id, boundary |-> r.boundary, range |-> r.range] : r \in model.runtimes},
   conclusions |-> {[id |-> e.id, boundary |-> e.boundary, status |-> e.status] :
                      e \in {x \in model.evidence : x.kind = "runtime"}},
   traces |-> Traces, meta |-> Metadata, current |-> Currents,
   cohorts |-> setup.cohorts, cohortSource |-> setup.source,
   rules |-> setup.rules, source |-> setup.source, asOf |-> AsOf, cooldown |-> opts.cooldown]

Resolve ==
  /\ phase = "resolve"
  /\ phase' = IF SnapshotConflict(model) THEN "threw" ELSE "decide"
  /\ given' = Gathered
  /\ UNCHANGED <<world, read, decisions, ops, first, signals, causal, execution, plan>>

----------------------------------------------------------------------------
(* Decisions and operations *)

\* planForInvocation: the first of the reasons that applies.
Verdict(o) ==
  LET policy == model.policies[o.id]
      trace  == given.traces[o.id]
  IN IF o.secret                         THEN <<"blocked", "SENSITIVE_VALUE_REDACTED">>
     ELSE IF policy.status = "blocked"   THEN <<"blocked", "POLICY_MANAGER_UNKNOWN">>
     ELSE IF policy.status = "skipped"   THEN <<"skipped", "POLICY_RULE_EXCLUDED">>
     ELSE IF o.role = "catalog-consumer" THEN <<"skipped", "CATALOG_CONSUMER_EXPLANATORY">>
     ELSE IF ~o.writeable                THEN <<"skipped", "OCCURRENCE_NOT_WRITEABLE">>
     ELSE IF \E d \in Found(o.id) : ~d.update THEN <<"skipped", "LOCKED_DECLARATION_EXCLUDED">>
     ELSE IF Found(o.id) = {}            THEN <<"skipped", "RESOLUTION_SCOPE_EXCLUDED">>
     ELSE IF trace = NoTrace             THEN <<"unknown", "RESOLUTION_TRACE_MISSING">>
     ELSE IF trace.status = "selected"   THEN <<"operation", trace.reason>>
     ELSE <<trace.status, trace.reason>>

Decision(o) ==
  LET policy == model.policies[o.id]
      trace  == given.traces[o.id]
  IN [status |-> Verdict(o)[1], reason |-> Verdict(o)[2], target |-> trace.target,
      policy |-> IF trace.status = "unchanged" THEN [policy EXCEPT !.status = "unchanged"] ELSE policy]

\* A mutant: what discovery read is expected.
OperationAsDiscovered(o) ==
  LET s == CHOOSE x \in model.sources : x.file = o.file
      d == One(Found(o.id))
  IN [file |-> o.file, section |-> o.section, name |-> o.name, hash |-> s.hash,
      expected |-> d.spec, requested |-> Rebuilt(d.spec, given.traces[o.id].target)]

\* resolvePhysicalValues: what the source declares is expected, and the range that
\* was resolved is written with the version found for it.
OperationOf(o) ==
  LET s == CHOOSE x \in model.sources : x.file = o.file
      d == One(Found(o.id))
  IN [file |-> o.file, section |-> o.section, name |-> o.name, hash |-> s.hash,
      expected |-> o.spec, requested |-> Rebuilt(d.spec, given.traces[o.id].target)]

Requested(operations) == [id \in DOMAIN operations |-> operations[id].requested]

Decide ==
  /\ phase = "decide" /\ phase' = "evaluate"
  /\ decisions' = [id \in IdsOf(model.occs) |-> Decision(WithId(model.occs, id))]
  /\ ops' = [id \in {x \in DOMAIN decisions' : decisions'[x].status = "operation"} |->
               OperationOf(WithId(model.occs, id))]
  /\ first' = DOMAIN ops'
  /\ signals' = EvaluateSignals(given, Requested(ops'), first')
  /\ UNCHANGED <<world, read, given, causal, execution, plan>>

----------------------------------------------------------------------------
(* Signals that block, until none blocks another operation *)

\* Mutants: one round only; and what is blocked already blocks once more.
NewlyBlockedOnce  == {id \in BlockedBy(signals) : causal = {} /\ decisions[id].status = "operation"}
NewlyBlockedAgain == BlockedBy(signals)

NewlyBlocked == {id \in BlockedBy(signals) : decisions[id].status = "operation"}

\* The blocked operations are dropped and nothing takes their place; the signals
\* that blocked them are kept, whatever the next evaluation says.
Block ==
  /\ phase = "evaluate" /\ NewlyBlocked # {}
  /\ causal' = causal \cup {s \in signals : s.effect = "block" /\ s.occs \cap NewlyBlocked # {}}
  /\ ops' = Restrict(ops, DOMAIN ops \ NewlyBlocked)
  /\ decisions' = [id \in DOMAIN decisions |->
       IF id \in NewlyBlocked
       THEN [decisions[id] EXCEPT !.status = "blocked", !.reason = "SIGNAL_POLICY_BLOCKED"]
       ELSE decisions[id]]
  /\ signals' = EvaluateSignals(given, Requested(ops'), first)
  /\ UNCHANGED <<world, phase, read, first, given, execution, plan>>

Settle ==
  /\ phase = "evaluate" /\ NewlyBlocked = {} /\ phase' = "execute"
  /\ UNCHANGED <<world, read, drawn, execution, plan>>

----------------------------------------------------------------------------
(* buildPlanExecution *)

\* What the plan says before its execution is known.
Draft ==
  [occs |-> given.occs, sources |-> model.sources, hashes |-> FingerprintSources(model),
   packages |-> model.packages, catalogs |-> model.catalogs,
   boundaries |-> {b.dir : b \in model.boundaries}, runtimes |-> model.runtimes,
   lockfiles |-> model.lockfiles, evidence |-> model.evidence, links |-> model.links,
   consumers |-> model.consumers, decisions |-> decisions, ops |-> ops,
   errors |-> {id \in DOMAIN decisions : decisions[id].status = "unknown"},
   signals |-> signals \cup causal, selection |-> Receipt]

\* evidenceReason, of a conclusion that is not confirmed.
EvidenceReason ==
  [missing     |-> [manager |-> "MANAGER_EVIDENCE_MISSING",     lockfile |-> "LOCKFILE_EVIDENCE_MISSING"],
   ambiguous   |-> [manager |-> "MANAGER_EVIDENCE_AMBIGUOUS",   lockfile |-> "LOCKFILE_EVIDENCE_AMBIGUOUS"],
   unavailable |-> [manager |-> "MANAGER_EVIDENCE_UNAVAILABLE", lockfile |-> "LOCKFILE_EVIDENCE_UNAVAILABLE"],
   unsupported |-> [manager |-> "MANAGER_EVIDENCE_UNSUPPORTED", lockfile |-> "LOCKFILE_EVIDENCE_UNSUPPORTED"]]

OperationReason(draft, id) ==
  IF ops[id].section \notin DependencyFields THEN "LOCKFILE_OCCURRENCE_UNSUPPORTED"
  ELSE IF ~ManagerCanWrite(draft, id) THEN "LOCKFILE_PROTOCOL_UNSUPPORTED" ELSE "none"

\* A mutant: one execution for the whole repository.
TargetedAtRoot == {"." : id \in DOMAIN ops}

\* affectedBoundaries
Targeted == {FirstByLength({b.dir : b \in model.boundaries} \cap Within[ops[id].file[1]]) : id \in DOMAIN ops}

ConclusionOf(kind, dir) == CHOOSE e \in model.evidence : e.kind = kind /\ e.boundary = dir
TargetOf(dir) ==
  LET manager == CHOOSE x \in ConclusionOf("package-manager", dir).values : TRUE
      l == WithId(model.lockfiles, CHOOSE x \in ConclusionOf("lockfile-selection", dir).values : TRUE)
  IN [boundary |-> dir, manager |-> manager[1], version |-> manager[2], lockfile |-> l.id, hash |-> l.hash]

ManagerReason(dir) ==
  LET e == ConclusionOf("package-manager", dir) IN
  IF e.status # "confirmed" THEN EvidenceReason[e.status].manager
  ELSE IF \E x \in e.values : x[2] = NoVersionSaid THEN "MANAGER_VERSION_MISSING" ELSE "none"

\* A mutant: a lockfile that could not be read will do.
LockfileReasonOfAny(dir) ==
  LET e == ConclusionOf("lockfile-selection", dir)
      l == WithId(model.lockfiles, TargetOf(dir).lockfile)
  IN IF e.status \notin {"confirmed", "unsupported"} THEN EvidenceReason[e.status].lockfile
     ELSE IF l.manager # TargetOf(dir).manager THEN "MANAGER_LOCKFILE_MISMATCH"
     ELSE "none"

LockfileReason(dir) ==
  LET e == ConclusionOf("lockfile-selection", dir)
      t == TargetOf(dir)
      l == WithId(model.lockfiles, t.lockfile)
  IN IF e.status # "confirmed" THEN EvidenceReason[e.status].lockfile
     ELSE IF l.manager # t.manager THEN "MANAGER_LOCKFILE_MISMATCH"
     ELSE IF AdapterFor(t.manager, t.version, l.file[2]) # "adapter"
          THEN AdapterFor(t.manager, t.version, l.file[2]) ELSE "none"

BoundaryReason(dir) == IF ManagerReason(dir) # "none" THEN ManagerReason(dir) ELSE LockfileReason(dir)

\* buildArtifactVerification
ArtifactBoundary(id, targets) ==
  FirstByLength({t.boundary : t \in targets} \cap Within[ops[id].file[1]])
ArtifactReason(id, targets) ==
  LET t == CHOOSE x \in targets : x.boundary = ArtifactBoundary(id, targets) IN
  IF t.manager # "npm" \/ t.version \notin Verifiable THEN "ARTIFACT_VERIFIER_UNSUPPORTED"
  ELSE IF ~setup.registry[ops[id].name].artifact THEN "ARTIFACT_INTEGRITY_UNAVAILABLE" ELSE "none"

Artifacts(targets) ==
  LET Key(id) == <<ArtifactBoundary(id, targets), ops[id].name, decisions[id].target>> IN
  {[boundary |-> key[1], package |-> key[2], version |-> key[3],
    occs |-> {id \in DOMAIN ops : Key(id) = key},
    signature |-> setup.registry[key[2]].facts.signature,
    provenance |-> setup.registry[key[2]].facts.provenance] : key \in {Key(id) : id \in DOMAIN ops}}

Execution(status, reason, targets, artifacts, verification) ==
  [mode |-> Mode, status |-> status, reason |-> reason, targets |-> targets,
   artifacts |-> artifacts, verification |-> verification]

\* The reasons of the first step that has any.
Obstacles(draft) ==
  LET of(reasons) == reasons \ {"none"}
      operations == of({OperationReason(draft, id) : id \in DOMAIN ops})
      boundaries == of({BoundaryReason(dir) : dir \in Targeted})
      targets    == {TargetOf(dir) : dir \in Targeted}
  IN CASE operations # {} -> operations
       [] operations = {} /\ boundaries # {} -> boundaries
       [] OTHER -> IF opts.verifyArtifacts THEN of({ArtifactReason(id, targets) : id \in DOMAIN ops}) ELSE {}

Ready ==
  LET targets == {TargetOf(dir) : dir \in Targeted} IN
  Execution("ready", "none", targets, IF opts.verifyArtifacts THEN <<Artifacts(targets)>> ELSE <<>>,
            opts.verifyArgv)

Execute ==
  /\ phase = "execute" /\ phase' = "check"
  /\ CASE Mode = "file-only" -> execution' = Execution("ready", "none", {}, <<>>, FALSE)
       [] Mode # "file-only" /\ ops = <<>> -> execution' = Execution("not-needed", "none", {}, <<>>, FALSE)
       [] OTHER -> LET obstacles == Obstacles(Draft) IN
                   IF obstacles = {} THEN execution' = Ready
                   ELSE \E reason \in obstacles : execution' = Execution("blocked", reason, {}, <<>>, FALSE)
  /\ UNCHANGED <<world, read, drawn, plan>>

----------------------------------------------------------------------------
(* The result *)

PlanRisks ==
  RepositoryRisks(model)
    \cup {Risk(decisions[id].reason, TRUE, id) :
            id \in {x \in DOMAIN decisions : decisions[x].status \in {"blocked", "unknown"}}}
    \cup (IF execution.status = "blocked" THEN {Risk(execution.reason, TRUE, <<"execution">>)} ELSE {})
    \cup {Risk(s.reason, s.effect = "block", <<"signal", s.family>>) :
            s \in {x \in signals \cup causal : x.state \in {"fail", "unknown"} \/ x.effect = "block"}}

ArtifactRecords ==
  IF execution.artifacts = <<>> THEN {} ELSE {ArtifactEvidence(a) : a \in execution.artifacts[1]}

Result ==
  Draft @@ [execution |-> execution, risks |-> PlanRisks,
            signalEvidence |-> EvidenceOf(signals \cup causal) \cup ArtifactRecords,
            capabilities |-> Capabilities(DOMAIN ops, execution)]

\* assertPlanResult refuses what does not meet the contract.
Check ==
  /\ phase = "check" /\ plan' = Result
  /\ phase' = IF Accepted(plan') THEN "returned" ELSE "refused"
  /\ UNCHANGED <<world, read, drawn, execution>>

----------------------------------------------------------------------------
Step == \/ CheckOptions \/ Discover \/ ParseSources \/ Walk \/ ReadLockfiles \/ ReadRuntimes
        \/ Conclude \/ Bind \/ Resolve \/ Decide \/ Block \/ Settle \/ Execute \/ Check

Next == Step \/ Edit

\* The program goes on; the user need not edit.
Spec == Init /\ [][Next]_vars /\ WF_vars(Step)
----------------------------------------------------------------------------
(* Properties *)

Drawn == phase \in {"execute", "check", "returned", "refused"}

\* The contradictions between a plan and its contract that are known: a peer that
\* blocked an operation moved after it; a sensitive value, or one whose policy
\* waits for the manager, in an excluded scope; an owner that waits, of a catalog
\* an excluded workspace shares; and the peers of a catalog entry nobody consumes.
Retracted  == causal \ signals # {}
Withheld   == \E o \in model.occs : /\ model.policies[o.id].matched # <<>>
                                    /\ o.secret \/ model.policies[o.id].status = "blocked"
Miscounted == Receipt.shared # SharedCatalogs(plan)
Unconsumed == \E o \in given.occs :
  /\ o.role = "catalog-owner" /\ Contexts(given, o) = {}
  /\ PeerPresence(given, o, FinalVersion(given, o)) = "present"
Contradicted == Retracted \/ Withheld \/ Miscounted \/ Unconsumed

\* And a declaration that changed after discovery read it.
Drifted == \E d \in report.deps, o \in model.occs : d.id = o.id /\ d.spec # o.spec

\* A plan is refused by its own contract for a known contradiction and for nothing
\* else: what the plan concludes and what the contract derives from it once more
\* (contracts/validate.ts) agree on every other repository.
RefusedForCause ==
  /\ phase = "refused"  => Contradicted \/ Drifted
  /\ phase = "returned" => ~Contradicted

\* Where a rule blocks what fails its peers, no operation is left whose target does
\* not go with where the plan leaves the one provider in its package, whatever
\* other operations were dropped on the way (the loop of planForInvocation).
BlocksPeers == setup.rules # <<>> /\ LET rule == Last(setup.rules) IN
  /\ rule.family = "peer" /\ rule.state = "fail" /\ rule.effect = "block"
  /\ \A selector \in {"reason", "name", "workspace", "cohort"} : rule[selector] = "any"

Beside(o, name) == {x \in given.occs : x.owner = o.owner /\ x.name = name}
After(o) == IF o.id \in DOMAIN ops THEN ops[o.id].requested ELSE o.spec
GoesWith(spec, range) ==
  \E v \in range :
    \/ v = spec.v
    \/ spec.kind = "caret" /\ v \notin Prereleases /\ v >= spec.v /\ Major(v) = Major(spec.v)

PeersHoldTogether ==
  Drawn /\ BlocksPeers =>
    \A o \in {x \in given.occs : x.id \in DOMAIN ops /\ x.role = "dependency" /\ IsRegistry(x)} :
      LET facts == setup.registry[o.name].facts IN
      facts.peerState = "present" /\ (\A p \in facts.peers : p.range # {}) =>
        \A p \in facts.peers : \A x \in Beside(o, p.name) :
          Beside(o, p.name) = {x} /\ x.role = "dependency" /\ IsProvider(x) /\ x.spec.kind \in SpecKinds
            /\ (\A y \in given.occs : y.name = p.name => y.role # "override")
          => GoesWith(After(x), p.range)

\* A manager is only to run where, as long as nobody edits, the disk itself leaves no
\* doubt: at the nearest boundary of every changed manifest all that name a manager
\* name one and its version, and one readable lockfile of that manager belongs to it.
\* Left aside are directories of one letter, links that lead nowhere, and links to a
\* lockfile that belongs to another boundary: that one counts there.
OneLetter == \E f \in FilesOf(disk) : \E d \in Within[f[1]] \ {"."} : PathLength[d] = 1

DeclaresWorkspaces(f) ==
  f \in report.matched /\ Readable(disk, f) /\ Content(disk, f).form = "object"
    /\ Content(disk, f).workspaces # "absent"
Marks(dir) ==
  \/ dir = "."
  \/ \E f \in FilesOf(disk) : f[1] = dir /\ (f[2] \in WorkspaceNames \cup {".git"} \/ DeclaresWorkspaces(f))
Nearest(dir) == LET marked == {d \in Within[dir] : Marks(d)}
                IN CHOOSE d \in marked : \A e \in marked : e \in Within[d]

IsLock(f) == f \in FilesOf(disk) /\ f[2] \in DOMAIN LockManager
Locks(dir) ==
  {f \in FilesOf(disk) : /\ IsLock(f) /\ Nearest(f[1]) = dir
                         /\ f \in DOMAIN disk.links => Contained(disk, f)
                         /\ LET p == Physical(disk, f) IN IsLock(p) => Nearest(p[1]) = dir}

\* The manifests of a directory that name a manager, and what they name.
Declaring(dir) ==
  {f \in FilesOf(disk) : f[1] = dir /\ f[2] \in ManifestNames /\ Readable(disk, f)
                            /\ Content(disk, f).form = "object" /\ Content(disk, f).manager # <<>>}
Declared(f) == Content(disk, f).manager[1]

ExecutionIsExact ==
  phase \in {"check", "returned", "refused"} /\ disk = setup.disk /\ ~OneLetter
    /\ execution.mode # "file-only" /\ execution.status = "ready" =>
      \A id \in DOMAIN ops : \E t \in execution.targets :
        /\ t.boundary = Nearest(ops[id].file[1])
        /\ Declaring(t.boundary) # {}
        /\ \A f \in Declaring(t.boundary) :
             Declared(f).valid /\ Declared(f).name = t.manager /\ Declared(f).version = t.version
        /\ Cardinality({Physical(disk, f) : f \in Locks(t.boundary)}) = 1
        /\ \E f \in Locks(t.boundary) :
             /\ Readable(disk, f) /\ Content(disk, f) = t.hash /\ t.hash.parse = "parsed"
             /\ LockManager[f[2]] = t.manager

\* An operation expects what the source with the recorded hash declares, though the
\* version was resolved from what discovery had read of the file before: applied to
\* that source it replaces the declaration it names.
Declares(content, op) ==
  \/ \E e \in content.entries : e.section = op.section /\ e.name = op.name /\ e.spec = op.expected
  \/ \E c \in content.catalogs : \E e \in c.entries :
       c.name = op.section /\ e.name = op.name /\ e.spec = op.expected
  \/ \E i \in DOMAIN content.manager :
       /\ op.section = "packageManager" /\ content.manager[i].name = op.name
       /\ content.manager[i].version = op.expected.v
OperationsMatchTheirSource == Drawn => \A id \in DOMAIN ops : Declares(ops[id].hash, ops[id])

\* Every plan comes to an answer: the rounds of blocking end.
EveryPlanAnswers == <>(phase \in Ended)

\* What the documentation says of blocking (docs/output-formats/inspect-plan.md): the
\* affected operation is removed and its cause retained; it does not fail the plan.
BlockingReturnsThePlan == phase = "refused" => causal = {}

\* What the documentation says of boundaries (docs/configuration/workspaces.md): packages
\* and lockfiles link to the nearest one.
NearestBoundary ==
  Drawn /\ disk = setup.disk =>
    LET Above(dir) == UNION {Within[b.dir] : b \in {y \in model.boundaries : y.dir \in Within[dir]}} IN
    /\ \A x \in model.packages : Within[model.links[x.id]] = Above(x.dir)
    /\ \A l \in model.lockfiles : Within[l.boundary] = Above(l.file[1])
=============================================================================
