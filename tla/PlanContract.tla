------------------------------ MODULE PlanContract ------------------------------
(***************************************************************************)
(* The contract a plan is held to before it is returned, and before it is  *)
(* applied (contracts/validate.ts): what a plan says twice it must say the *)
(* same, and what a plan concludes must follow again from what it records. *)
(*                                                                         *)
(* A plan has the projection of the repository, a decision for each        *)
(* occurrence, the operations by the occurrence they change, the signals   *)
(* with their evidence, the execution, and the receipt of the exclusions.  *)
(***************************************************************************)
EXTENDS Signals, Evidence

CONSTANTS Supported,  \* for each manager with a lockfile phase, the versions supported
          Verifiable  \* the versions of npm that verify artifacts

Unique(records)       == \A x, y \in records : x.id = y.id => x = y
IdsOf(records)        == {x.id : x \in records}
WithId(records, id)   == CHOOSE x \in records : x.id = id
LinkOf(p, owner)      == IF owner \in DOMAIN p.links THEN p.links[owner] ELSE "none"
WorkspaceOf(p, owner) ==
  IF owner \in IdsOf(p.packages) THEN WithId(p.packages, owner).dir ELSE "none"

Conclusive(p, kind, b) == {e \in p.evidence : e.kind = kind /\ e.boundary = b}

\* resolveManagerAdapter
LockfileNames == [npm |-> {"package-lock.json", "npm-shrinkwrap.json"}, pnpm |-> {"pnpm-lock.yaml"},
                  bun |-> {"bun.lock"}]
AdapterFor(manager, version, lockfile) ==
  CASE manager \notin DOMAIN LockfileNames                                  -> "MANAGER_UNSUPPORTED"
    [] lockfile = "bun.lockb"                                               -> "LOCKFILE_UNSUPPORTED"
    [] OTHER -> IF lockfile \notin LockfileNames[manager]     THEN "MANAGER_LOCKFILE_MISMATCH"
                ELSE IF version \notin Supported[manager] THEN "MANAGER_VERSION_UNSUPPORTED"
                ELSE "adapter"

----------------------------------------------------------------------------
(* References *)

\* hasValidExecutionReferences
TargetHolds(p, t) ==
  /\ t.boundary \in p.boundaries
  /\ \E l \in p.lockfiles :
       /\ l.id = t.lockfile /\ l.boundary = t.boundary /\ l.hash = t.hash
       /\ l.manager = t.manager /\ l.state = "parsed"
       /\ AdapterFor(t.manager, t.version, l.file[2]) = "adapter"
  /\ \E e \in Conclusive(p, "package-manager", t.boundary) :
       /\ Conclusive(p, "package-manager", t.boundary) = {e}
       /\ e.status = "confirmed" /\ e.values = {<<t.manager, t.version>>}
  /\ \E e \in Conclusive(p, "lockfile-selection", t.boundary) :
       /\ Conclusive(p, "lockfile-selection", t.boundary) = {e}
       /\ e.status = "confirmed" /\ e.values = {t.lockfile}

ExecutionReferencesHold(p) ==
  /\ \A t \in p.execution.targets : TargetHolds(p, t)
  /\ \A t, u \in p.execution.targets : t.lockfile = u.lockfile => t = u

\* hasValidReferences
ReferencesHold(p) ==
  /\ Unique(p.sources) /\ Unique(p.packages) /\ Unique(p.catalogs)
  /\ Unique(p.occs) /\ Unique(p.lockfiles) /\ Unique(p.evidence)
  /\ \A x, y \in p.hashes : x[1] = y[1] => x = y
  /\ \A s \in p.sources : <<s.file, s.hash>> \in p.hashes
  /\ \A x \in p.packages \cup p.catalogs : \E s \in p.sources : s.file = x.file
  /\ \A catalog \in p.catalogs : catalog.entries \subseteq IdsOf(p.occs)
  /\ \A o \in p.occs :
       /\ \E s \in p.sources : s.file = o.file
       /\ o.owner \in IdsOf(p.packages) \cup IdsOf(p.catalogs)
       /\ o.catalog \in IdsOf(p.catalogs) \cup {NoCatalog}
  /\ \A x \in p.runtimes \cup p.lockfiles \cup p.evidence : x.boundary \in p.boundaries
  /\ \A r \in p.risks : r.about[1] = "occurrence" => r.about \in IdsOf(p.occs)
  /\ \A id \in DOMAIN p.ops : <<p.ops[id].file, p.ops[id].hash>> \in {<<s.file, s.hash>> : s \in p.sources}
  /\ ExecutionReferencesHold(p)
  /\ \A x \in p.consumers : x[1] \in IdsOf(p.catalogs) /\ x[2] \in IdsOf(p.occs)
  /\ DOMAIN p.links \subseteq IdsOf(p.packages) /\ \A x \in DOMAIN p.links : p.links[x] \in p.boundaries

\* The decisions against the occurrences, the operations and the errors.
DecisionsHold(p) ==
  /\ DOMAIN p.decisions = IdsOf(p.occs)
  /\ DOMAIN p.ops = {id \in DOMAIN p.decisions : p.decisions[id].status = "operation"}
  /\ \A id \in DOMAIN p.ops :
       LET o == WithId(p.occs, id)  op == p.ops[id] IN
       /\ o.file = op.file /\ o.section = op.section /\ o.name = op.name /\ o.spec = op.expected
       /\ <<op.file, op.hash>> \in p.hashes
  /\ p.errors = {id \in DOMAIN p.decisions : p.decisions[id].status = "unknown"}

----------------------------------------------------------------------------
(* The receipt of the exclusions *)

WorkspaceRules(dir) == {<<"workspace", dir, "direct">>, <<"workspace", dir, "consumer">>}

EntitiesOf(p, request) ==
  IF request.kind = "workspace" THEN {x.id : x \in {y \in p.packages : y.dir = request.value}}
  ELSE {x.id : x \in {y \in p.catalogs : y.name = request.value}}

Affected(p, request) ==
  LET entities == EntitiesOf(p, request) IN
  {o \in p.occs : IF request.kind = "workspace" THEN o.owner \in entities /\ o.role # "catalog-owner"
                  ELSE o.catalog \in entities}

RuleFor(request, o) ==
  IF request.kind = "catalog" THEN o.catalog
  ELSE <<"workspace", request.value, IF o.role = "catalog-consumer" THEN "consumer" ELSE "direct">>

\* The rules of the requests that match an occurrence, in their order.
ExpectedRules(p, o) ==
  FlattenSeq([i \in DOMAIN p.selection.requests |->
                LET request == p.selection.requests[i] IN
                IF o \in Affected(p, request) THEN <<RuleFor(request, o)>> ELSE <<>>])

\* Catalogs an excluded workspace shares with what is still looked at.
SharedCatalogs(p) ==
  LET rules == [id \in IdsOf(p.occs) |-> ToSet(ExpectedRules(p, WithId(p.occs, id)))] IN
  {x[1] : x \in {y \in p.consumers :
     /\ \E rule \in rules[y[2]] : rule[1] = "workspace"
     /\ \E id \in WithId(p.catalogs, y[1]).entries :
          p.decisions[id].policy.action = "include" /\ ~\E rule \in rules[id] : rule[1] = "catalog"}}

\* hasValidSelectionSemantics
SelectionHolds(p) ==
  LET requests == p.selection.requests IN
  /\ \A i, j \in DOMAIN requests :
       /\ requests[i] = requests[j] => i = j
       /\ requests[i].kind = "catalog" /\ i < j => requests[j].kind = "catalog"
  /\ \A i \in DOMAIN requests :
       /\ requests[i].entities = EntitiesOf(p, requests[i]) /\ requests[i].entities # {}
       /\ requests[i].occs = IdsOf(Affected(p, requests[i]))
  /\ \A o \in p.occs :
       LET expected == ExpectedRules(p, o)  decision == p.decisions[o.id] IN
       /\ decision.policy.matched = expected
       /\ expected # <<>> => /\ decision.status = "skipped" /\ decision.reason = "POLICY_RULE_EXCLUDED"
                             /\ decision.policy.status = "skipped" /\ decision.policy.action = "exclude"
  /\ p.selection.excluded = {o.id : o \in {x \in p.occs : ExpectedRules(p, x) # <<>>}}
  /\ p.selection.shared = SharedCatalogs(p)

----------------------------------------------------------------------------
(* What the evidence of a signal must say, from the decisions and operations *)

\* expectedSignalTarget
ExpectedTarget(p, o) ==
  IF p.decisions[o.id].target # NoVersion THEN p.decisions[o.id].target ELSE ExactDeclared(o.spec)

\* hasValidTargetRegistryProjection
OfTarget(p, o, e) ==
  /\ e.version = ExpectedTarget(p, o)
  /\ e.status = IF e.version = NoVersion THEN "unknown" ELSE "observed"

\* signalEvaluationContexts
ContextsOf(p, o) ==
  IF o.role # "catalog-owner" THEN {o}
  ELSE {x \in p.occs : x.name = o.name /\ x.role = "catalog-consumer" /\ x.catalog = o.catalog}

\* projectPeerProvider: where the operations of the plan leave a provider.
Left(p, o) == RangeOf(IF o.id \in DOMAIN p.ops THEN p.ops[o.id].requested ELSE o.spec)
Projection(p, provider) ==
  LET owners == {x \in p.occs : /\ x.name = provider.name /\ x.role = "catalog-owner"
                                /\ x.catalog = provider.catalog}
  IN CASE provider.role # "catalog-consumer" -> [range |-> Left(p, provider), sources |-> {}]
       [] provider.role = "catalog-consumer" /\ owners = {} -> [range |-> {}, sources |-> {}]
       [] OTHER -> LET owner == CHOOSE x \in owners : TRUE IN
                   [range |-> Left(p, owner), sources |-> {owner.id}]

Alongside(p, context, o) ==
  \/ o.owner = context.owner
  \/ LinkOf(p, context.owner) # "none" /\ LinkOf(p, o.owner) = LinkOf(p, context.owner)

\* validatePeerEvidenceProjection
PeerProjectionHolds(p, o, e) ==
  \E context \in ContextsOf(p, o) :
    LET named     == {x \in p.occs : x.name = e.peer /\ Alongside(p, context, x)}
        own       == {x \in named : x.owner = context.owner /\ IsProvider(x)}
        near      == {x \in named : x.owner # context.owner /\ IsProvider(x)}
        overrides == {x \in named : x.role = "override"}
        projected == IF Cardinality(own) = 1 THEN Projection(p, CHOOSE x \in own : TRUE)
                     ELSE [range |-> {}, sources |-> {}]
    IN /\ e.subject = o.id /\ e.context = context.id
       /\ e.status = CASE overrides # {} \/ Cardinality(own) > 1 -> "conflicting"
                       [] own = {} -> IF near # {} THEN "unknown" ELSE "absent"
                       [] OTHER    -> IF projected.range # {} THEN "observed" ELSE "unknown"
       /\ e.provider = projected.range /\ e.providers = Cardinality(own)
       /\ e.near = Cardinality(near) /\ e.overrides = Cardinality(overrides)
       /\ e.sources = {o.id, context.id} \cup IdsOf(own \cup near \cup overrides) \cup projected.sources

\* validateRuntimeEvidenceProjection
RuntimeBoundaries(p, o) == {LinkOf(p, x.owner) : x \in ContextsOf(p, o) \cup {o}} \ {"none"}
RuntimeConclusions(p, o) == UNION {Conclusive(p, "runtime", b) : b \in RuntimeBoundaries(p, o)}
RuntimeProjectionHolds(p, o, e) ==
  LET declared == {r \in p.runtimes : r.boundary \in RuntimeBoundaries(p, o)}
      concluded == RuntimeConclusions(p, o)
  IN /\ e.version = ExpectedTarget(p, o)
     /\ e.sources = {o.id} \cup IdsOf(ContextsOf(p, o)) \cup IdsOf(declared) \cup IdsOf(concluded)
     /\ e.ranges = {<<r.id, r.range>> : r \in declared}
     /\ e.conclusions = {<<x.id, x.status>> : x \in concluded}

RuntimeIsComplete(p, o) ==
  /\ RuntimeBoundaries(p, o) # {}
  /\ \A b \in RuntimeBoundaries(p, o) :
       \E x \in Conclusive(p, "runtime", b) :
         Conclusive(p, "runtime", b) = {x} /\ x.status = "confirmed"

\* evaluateSerializedCohort
CohortVerdict(p, e) ==
  LET proposed == DOMAIN e.proposed
      NamesOf(ids) == {WithId(p.occs, id).name : id \in ids}
      Expected(id) == p.decisions[id].status = "operation" \/ p.decisions[id].reason = "SIGNAL_POLICY_BLOCKED"
  IN IF ~(/\ Cardinality(e.configured) >= 2 /\ NamesOf(proposed) = e.configured
          /\ \A id \in proposed : e.proposed[id] # NoVersion /\ e.proposed[id] = p.decisions[id].target
          /\ \A id \in proposed : (id \in e.candidates) <=> Expected(id))
     THEN "unknown"
     ELSE IF Aligned(e.strategy, proposed, e.proposed, e.candidates) THEN "aligned" ELSE "diverged"

----------------------------------------------------------------------------
(* Whether the reason of a signal follows from its evidence *)

Only(s, kind) == \E e \in s.evidence : s.evidence = {e} /\ e.kind = kind
TheOnly(s)    == CHOOSE e \in s.evidence : TRUE
OfKind(s, kind) == {e \in s.evidence : e.kind = kind}

\* SIGNAL_TRUTH: the family and the state of each reason.
SignalTruth ==
  LET Of(family, state, reasons) == {family} \X {state} \X reasons IN
  UNION {
    Of("runtime", "pass", {"RUNTIME_COMPATIBLE"}), Of("runtime", "warn", {"RUNTIME_PARTIAL_OVERLAP"}),
    Of("runtime", "fail", {"RUNTIME_INCOMPATIBLE"}), Of("runtime", "not-applicable", {"RUNTIME_UNCONSTRAINED"}),
    Of("runtime", "unknown", {"RUNTIME_EVIDENCE_UNKNOWN", "TARGET_ENGINE_UNKNOWN"}),
    Of("peer", "pass", {"PEER_COMPATIBLE"}), Of("peer", "warn", {"PEER_PARTIAL_OVERLAP"}),
    Of("peer", "fail", {"PEER_INCOMPATIBLE", "PEER_REQUIRED_MISSING"}),
    Of("peer", "not-applicable", {"PEER_OPTIONAL_MISSING", "PEER_METADATA_ABSENT"}),
    Of("peer", "unknown", {"PEER_EVIDENCE_UNKNOWN"}),
    Of("cohort", "pass", {"COHORT_ALIGNED"}), Of("cohort", "fail", {"COHORT_DIVERGED"}),
    Of("cohort", "unknown", {"COHORT_MEMBER_UNKNOWN"}), Of("cohort", "warn", {"COHORT_INFERRED_SUGGESTION"}),
    Of("release-channel", "pass", {"TARGET_STABLE"}), Of("release-channel", "warn", {"TARGET_PRERELEASE"}),
    Of("release-channel", "unknown", {"TARGET_VERSION_UNKNOWN"}),
    Of("maturity", "not-applicable", {"MATURITY_POLICY_DISABLED"}), Of("maturity", "pass", {"TARGET_MATURE"}),
    Of("maturity", "fail", {"TARGET_TOO_NEW"}), Of("maturity", "unknown", {"TARGET_TIME_UNKNOWN"}),
    Of("current-deprecation", "pass", {"CURRENT_NOT_DEPRECATED"}),
    Of("current-deprecation", "warn", {"CURRENT_DEPRECATED"}),
    Of("current-deprecation", "unknown", {"CURRENT_VERSION_UNKNOWN", "CURRENT_DEPRECATION_UNKNOWN"}),
    Of("target-deprecation", "pass", {"TARGET_NOT_DEPRECATED"}),
    Of("target-deprecation", "fail", {"TARGET_DEPRECATED"}),
    Of("target-deprecation", "unknown", {"TARGET_DEPRECATION_UNKNOWN"}),
    Of("signature-presence", "warn", {"SIGNATURE_PRESENT_UNVERIFIED", "SIGNATURE_METADATA_ABSENT"}),
    Of("signature-presence", "unknown", {"SIGNATURE_METADATA_UNKNOWN"}),
    Of("provenance-presence", "warn", {"PROVENANCE_PRESENT_UNVERIFIED", "PROVENANCE_METADATA_ABSENT"}),
    Of("provenance-presence", "unknown", {"PROVENANCE_METADATA_UNKNOWN"}),
    Of("evidence-completeness", "pass", {"REGISTRY_EVIDENCE_COMPLETE"}),
    Of("evidence-completeness", "unknown", {"REGISTRY_EVIDENCE_UNKNOWN"}),
    Of("evidence-staleness", "not-applicable", {"STALENESS_NOT_OBSERVED"})}

RuntimeTruth(p, s, o) ==
  /\ Only(s, "repository-runtime")
  /\ LET e == TheOnly(s)
         ranges == {x[2] : x \in e.ranges}
         complete == RuntimeIsComplete(p, o)
     IN /\ RuntimeProjectionHolds(p, o, e)
        /\ CASE s.reason = "RUNTIME_UNCONSTRAINED" ->
                  e.status = "absent" /\ e.engine.text = "absent" /\ complete
             [] s.reason = "RUNTIME_EVIDENCE_UNKNOWN" -> e.status \in {"unknown", "conflicting"}
             [] s.reason = "TARGET_ENGINE_UNKNOWN" ->
                  e.status = "unknown" /\ e.engine.text = "unknown" /\ complete
             [] OTHER ->
                  /\ e.status = "observed" /\ e.engine.range # {} /\ complete
                  /\ ranges # {} /\ {} \notin ranges /\ \A r, q \in ranges : Intersects(r, q)
                  /\ s.reason = IF \E r \in ranges : ~Intersects(r, e.engine.range) THEN "RUNTIME_INCOMPATIBLE"
                                ELSE IF \A r \in ranges : r \subseteq e.engine.range THEN "RUNTIME_COMPATIBLE"
                                ELSE "RUNTIME_PARTIAL_OVERLAP"

\* hasRecordedGraphAmbiguity
Ambiguous(e) ==
  \/ e.status = "conflicting" /\ (e.providers > 1 \/ e.overrides > 0)
  \/ e.status = "unknown" /\ e.providers = 0 /\ e.near > 0
  \/ e.status = "unknown" /\ e.providers = 1 /\ e.provider = {}

\* What the registry says of the peers of a target, beside the graph of the plan.
PeersRecorded(p, s, o) ==
  /\ Cardinality(s.evidence) = 2
  /\ \E r \in OfKind(s, "registry-version") :
       OfTarget(p, o, r) /\ r.status = "observed" /\ r.value = "present"
  /\ \E g \in OfKind(s, "planned-graph") : PeerProjectionHolds(p, o, g)

PeerReason(e) ==
  IF ~Intersects(e.provider, e.required) THEN "PEER_INCOMPATIBLE"
  ELSE IF e.provider \subseteq e.required THEN "PEER_COMPATIBLE" ELSE "PEER_PARTIAL_OVERLAP"

PeerTruth(p, s, o) ==
  CASE s.reason = "PEER_METADATA_ABSENT" ->
         /\ Only(s, "registry-version") /\ OfTarget(p, o, TheOnly(s))
         /\ TheOnly(s).status = "observed" /\ TheOnly(s).value = "absent"
    [] s.reason = "PEER_EVIDENCE_UNKNOWN" ->
         \/ Only(s, "registry-version") /\ OfTarget(p, o, TheOnly(s)) /\ TheOnly(s).value = "unknown"
         \/ PeersRecorded(p, s, o) /\ \E g \in OfKind(s, "planned-graph") : Ambiguous(g)
    [] s.reason \in {"PEER_REQUIRED_MISSING", "PEER_OPTIONAL_MISSING"} ->
         /\ PeersRecorded(p, s, o)
         /\ \E g \in OfKind(s, "planned-graph") :
              /\ g.status = "absent" /\ g.providers = 0 /\ g.near = 0 /\ g.overrides = 0
              /\ g.optional = (s.reason = "PEER_OPTIONAL_MISSING")
    [] OTHER ->
         /\ PeersRecorded(p, s, o)
         /\ \E g \in OfKind(s, "planned-graph") :
              /\ g.status = "observed" /\ g.providers = 1 /\ g.overrides = 0
              /\ g.required # {} /\ g.provider # {} /\ s.reason = PeerReason(g)

CohortTruth(p, s) ==
  IF s.reason = "COHORT_INFERRED_SUGGESTION"
  THEN Only(s, "inferred-cohort") /\ TheOnly(s).status = "observed"
  ELSE /\ Only(s, "explicit-cohort")
       /\ LET e == TheOnly(s)  verdict == CohortVerdict(p, e) IN
          CASE s.reason = "COHORT_ALIGNED"  -> e.status = "observed" /\ verdict = "aligned"
            [] s.reason = "COHORT_DIVERGED" -> e.status = "observed" /\ verdict = "diverged"
            [] OTHER                        -> e.status = "unknown" /\ verdict = "unknown"

MaturityTruth(s, e) ==
  CASE s.reason = "MATURITY_POLICY_DISABLED" -> e.cooldown = 0
    [] s.reason = "TARGET_TIME_UNKNOWN"      -> e.published = Unpublished /\ e.cooldown > 0
    [] OTHER -> /\ e.status = "observed" /\ e.published # Unpublished /\ e.cooldown > 0
                /\ (s.reason = "TARGET_MATURE") <=> e.published <= e.asOf - e.cooldown

CurrentTruth(s, o, e) ==
  LET current == ExactDeclared(o.spec) IN
  /\ e.fact = "deprecation-current"
  /\ e.version = current /\ (e.status = "observed") = (current # NoVersion)
  /\ (s.reason = "CURRENT_VERSION_UNKNOWN") <=> (current = NoVersion)
  /\ e.value = CASE s.reason = "CURRENT_NOT_DEPRECATED" -> "absent"
                 [] s.reason = "CURRENT_DEPRECATED"     -> "present"
                 [] OTHER                               -> "unknown"

PresenceTruth(s, e) ==
  /\ e.fact = s.family
  /\ s.reason = PassiveReason[s.family][e.value]
  /\ e.value # "unknown" => e.status = "observed"

\* The families that rest on one fact of the registry about the target.
FactTruth(p, s, o) ==
  /\ Only(s, "registry-version")
  /\ LET e == TheOnly(s) IN
     CASE s.family = "current-deprecation" -> CurrentTruth(s, o, e)
       [] s.family = "release-channel" ->
            /\ OfTarget(p, o, e)
            /\ s.reason = IF e.version = NoVersion THEN "TARGET_VERSION_UNKNOWN"
                          ELSE IF e.version \in Prereleases THEN "TARGET_PRERELEASE" ELSE "TARGET_STABLE"
       [] s.family = "target-deprecation" ->
            /\ OfTarget(p, o, e) /\ e.fact = "deprecation-target"
            /\ e.value = CASE s.reason = "TARGET_NOT_DEPRECATED" -> "absent"
                           [] s.reason = "TARGET_DEPRECATED"     -> "present"
                           [] OTHER                              -> "unknown"
            /\ s.reason # "TARGET_DEPRECATION_UNKNOWN" => e.version # NoVersion
       [] s.family = "maturity" -> OfTarget(p, o, e) /\ MaturityTruth(s, e)
       [] OTHER                 -> OfTarget(p, o, e) /\ PresenceTruth(s, e)

EvidenceTruth(p, s) ==
  CASE s.family = "cohort"                -> CohortTruth(p, s)
    [] s.family = "evidence-completeness" ->
         Only(s, "registry-version") /\ TheOnly(s).status = (IF s.state = "pass" THEN "observed" ELSE "unknown")
    [] s.family = "evidence-staleness"    -> Only(s, "clock") /\ TheOnly(s).status = "absent"
    [] OTHER -> LET o == WithId(p.occs, CHOOSE id \in s.occs : TRUE) IN
                CASE s.family = "runtime" -> RuntimeTruth(p, s, o)
                  [] s.family = "peer"    -> PeerTruth(p, s, o)
                  [] OTHER                -> FactTruth(p, s, o)

\* hasValidSignalSubject
SubjectHolds(p, s) ==
  IF s.family = "cohort"
  THEN /\ s.cohort # "none" /\ Cardinality(s.evidence) = 1
       /\ TheOnly(s).kind = "explicit-cohort" => TheOnly(s).subject = s.cohort
       /\ TheOnly(s).sources = s.occs
  ELSE /\ s.cohort = "none" /\ Cardinality(s.occs) = 1
       /\ \A id \in s.occs :
            /\ WithId(p.occs, id).name = s.name
            /\ WorkspaceOf(p, WithId(p.occs, id).owner) = s.workspace
            /\ \A e \in s.evidence : IF e.kind = "planned-graph" THEN id \in e.sources ELSE e.subject = id

\* defaultSignalEffect
EffectByDefault(s) ==
  CASE s.reason = "COHORT_INFERRED_SUGGESTION"                         -> "warn"
    [] s.family = "cohort" /\ s.state \in {"fail", "unknown"}          -> "block"
    [] OTHER -> IF s.state \in {"pass", "not-applicable"} THEN "none" ELSE "warn"

\* A rule changes nothing but the effect, and says so where it does.
EffectHolds(p, s) ==
  /\ s.reason = "COHORT_INFERRED_SUGGESTION" => s.effect = "warn" /\ s.matched = <<>> /\ s.override = <<>>
  /\ IF s.override = <<>> THEN s.effect = EffectByDefault(s)
     ELSE /\ s.matched # <<>> /\ s.override[1] = Last(s.matched)
          /\ s.override[3] = EffectByDefault(s) /\ s.override[4] = s.effect
          /\ s.effect # EffectByDefault(s)
  /\ s.effect = "block" => s.occs \cap DOMAIN p.ops = {}

SignalHolds(p, s) ==
  /\ s.occs # {} \/ s.cohort # "none"
  /\ s.occs \subseteq IdsOf(p.occs) /\ s.evidence \subseteq p.signalEvidence
  /\ <<s.family, s.state, s.reason>> \in SignalTruth
  /\ EvidenceTruth(p, s) /\ SubjectHolds(p, s) /\ EffectHolds(p, s)

\* hasValidPlanSignals
SignalsHold(p) ==
  /\ \A e \in p.signalEvidence :
       e.sources \subseteq IdsOf(p.occs) \cup IdsOf(p.runtimes) \cup IdsOf(p.evidence)
  /\ \A s \in p.signals : SignalHolds(p, s)
  /\ {id \in DOMAIN p.decisions : p.decisions[id].reason = "SIGNAL_POLICY_BLOCKED"}
       \subseteq UNION {s.occs : s \in {x \in p.signals : x.effect = "block"}}

----------------------------------------------------------------------------
(* The execution *)

\* isSupportedManagerOccurrence: the request is the expected value, rebuilt.
Rebuilt(spec, v) == [kind |-> spec.kind, v |-> v]
ManagerCanWrite(p, id) ==
  LET o == WithId(p.occs, id) IN
  /\ o.role = "dependency" /\ o.protocol \in {"semver", "npm"}
  /\ o.spec = p.ops[id].expected /\ p.decisions[id].target # NoVersion
  /\ o.spec.kind \in {"exact", "caret"} /\ p.ops[id].requested = Rebuilt(o.spec, p.decisions[id].target)

\* affectedBoundaryIds
BoundaryOfFile(dirs, file) == FirstByLength(dirs \cap Within[file[1]])
AffectedBoundaries(p) == {BoundaryOfFile(p.boundaries, p.ops[id].file) : id \in DOMAIN p.ops}

\* artifactEvidenceBase
ArtifactEvidence(a) ==
  [kind |-> "registry-artifact", status |-> "observed", sources |-> a.occs, package |-> a.package,
   version |-> a.version, signature |-> a.signature, provenance |-> a.provenance]

\* hasValidArtifactVerification
ArtifactsHold(p, artifacts) ==
  LET targets == {t.boundary : t \in p.execution.targets} IN
  /\ p.execution.mode = "install"
  /\ {a.boundary : a \in artifacts} = targets
  /\ \A t \in p.execution.targets : t.manager = "npm" /\ t.version \in Verifiable
  /\ \A a, b \in artifacts : a.boundary = b.boundary /\ a.package = b.package /\ a.version = b.version => a = b
  /\ \A a, b \in artifacts : a # b => a.occs \cap b.occs = {}
  /\ UNION {a.occs : a \in artifacts} = DOMAIN p.ops
  /\ \A a \in artifacts : \A id \in a.occs :
       /\ p.decisions[id].target = a.version /\ WithId(p.occs, id).name = a.package
       /\ BoundaryOfFile(targets, p.ops[id].file) = a.boundary
  /\ {ArtifactEvidence(a) : a \in artifacts} = {e \in p.signalEvidence : e.kind = "registry-artifact"}

\* Capabilities of a plan with operations that runs a manager.
ManagerCapabilities(execution) ==
  {"process-execute", "lockfile-write"}
    \cup (IF execution.mode = "install" THEN {"install"} ELSE {})
    \cup (IF execution.artifacts # <<>> THEN {"artifact-verify", "network-access"} ELSE {})
    \cup (IF execution.verification THEN {"verify-command"} ELSE {})

Capabilities(ops, execution) ==
  {"filesystem-read", "registry-read"}
    \cup (IF ops = {} THEN {} ELSE {"file-write"})
    \cup (IF ops # {} /\ execution.mode # "file-only" /\ execution.status = "ready"
          THEN ManagerCapabilities(execution) ELSE {})

\* hasValidPlanExecution
ExecutionHolds(p) ==
  LET x == p.execution
      bare == x.targets = {} /\ ~x.verification /\ x.artifacts = <<>>
  IN /\ p.capabilities = Capabilities(DOMAIN p.ops, x)
     /\ CASE x.mode = "file-only" -> x.status = "ready" /\ bare /\ x.reason = "none"
          [] x.mode # "file-only" /\ DOMAIN p.ops = {} -> x.status = "not-needed" /\ bare /\ x.reason = "none"
          [] x.mode # "file-only" /\ DOMAIN p.ops # {} /\ x.status = "blocked" -> bare /\ x.reason # "none"
          [] OTHER ->
               /\ x.status = "ready" /\ x.targets # {} /\ x.reason = "none"
               /\ \A i \in DOMAIN x.artifacts : ArtifactsHold(p, x.artifacts[i])
               /\ \A id \in DOMAIN p.ops :
                    p.ops[id].section \in DependencyFields /\ ManagerCanWrite(p, id)
               /\ {t.boundary : t \in x.targets} = AffectedBoundaries(p)
               /\ \A t, u \in x.targets : t.boundary = u.boundary => t = u

\* assertPlanResult
Accepted(p) ==
  ReferencesHold(p) /\ DecisionsHold(p) /\ SelectionHolds(p) /\ SignalsHold(p) /\ ExecutionHolds(p)
=============================================================================
