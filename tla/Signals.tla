--------------------------------- MODULE Signals ---------------------------------
(***************************************************************************)
(* The compatibility signals of a plan (signals/index.ts).  From what the  *)
(* registry and the repository say of every dependency, and from the       *)
(* operations the plan still holds, the evaluator derives signals, each    *)
(* with the evidence it rests on; the rules of the configuration give a    *)
(* signal its effect, and the effect "block" takes the operations of its   *)
(* subject out of the plan.                                                *)
(*                                                                         *)
(* A version is a number, ten times its major plus its minor; a range is   *)
(* the set of versions it admits, and the empty set is text that is no     *)
(* range.  An identifier that the code makes by hashing a signal or a      *)
(* piece of evidence is that signal or that evidence itself.  Of the facts *)
(* a registry has for each version only those of the target (and for the   *)
(* deprecation those of the current version) are read: the others are one  *)
(* value.  A case is what evaluatePlanSignals is given, but for operations.*)
(***************************************************************************)
EXTENDS Integers, Sequences, FiniteSets, SequencesExt

CONSTANTS Versions, Prereleases

NoVersion == 0
Major(v)  == v \div 10

\* The declarations that are understood; all others are "bad".
SpecKinds == {"exact", "workspace", "caret"}

\* What a declaration admits; a prerelease only where it is named.
RangeOf(spec) ==
  CASE spec.kind \in {"exact", "workspace"} -> {spec.v}
    [] spec.kind = "caret" ->
         {spec.v} \cup {w \in Versions \ Prereleases : Major(w) = Major(spec.v) /\ w >= spec.v}
    [] OTHER -> {}

Intersects(r, s) == r \cap s # {}

\* exactDeclaredVersion
ExactDeclared(spec) == IF spec.kind \in {"exact", "workspace"} THEN spec.v ELSE NoVersion

IsRegistry(o) == o.role # "catalog-consumer" /\ o.protocol \in {"semver", "npm", "jsr"}
IsProvider(o) ==
  IF o.role = "catalog-consumer" THEN o.protocol = "catalog"
  ELSE o.role = "dependency" /\ o.protocol \in {"semver", "npm", "jsr", "workspace"}

\* finalRegistryVersion
FinalVersion(c, o) ==
  IF c.traces[o.id].target # NoVersion THEN c.traces[o.id].target ELSE ExactDeclared(o.spec)

\* The places a dependency is looked at from: a catalog entry, from its consumers.
Contexts(c, o) ==
  IF o.role # "catalog-owner" THEN {o}
  ELSE {x \in c.occs : x.role = "catalog-consumer" /\ x.catalog = o.catalog /\ x.name = o.name}

----------------------------------------------------------------------------
(* Evidence *)

RegistryEvidence(o, version, fact, value) ==
  [kind |-> "registry-version", status |-> IF version = NoVersion THEN "unknown" ELSE "observed",
   subject |-> o.id, sources |-> {o.id}, version |-> version, fact |-> fact, value |-> value]

\* Evidence that is not about one version.
PlainEvidence(kind, o, status, sources, value) ==
  [kind |-> kind, status |-> status, subject |-> o.id, sources |-> sources, value |-> value]

MaturityEvidence(c, o, version, published) ==
  [kind |-> "registry-version", status |-> IF version = NoVersion THEN "unknown" ELSE "observed",
   subject |-> o.id, sources |-> {o.id}, version |-> version,
   published |-> published, asOf |-> c.asOf, cooldown |-> c.cooldown]

Unpublished == -1

----------------------------------------------------------------------------
(* Signals, before the rules *)

About(c, o, family, verdict, evidence) ==
  [family |-> family, state |-> verdict[1], reason |-> verdict[2], occs |-> {o.id},
   name |-> o.name, workspace |-> c.paths[o.owner], cohort |-> "none",
   evidence |-> evidence, kind |-> "plain"]

Completeness(c, o) ==
  LET complete == c.meta[o.id].known /\ c.meta[o.id].versions # {} IN
  {About(c, o, "evidence-completeness",
         IF complete THEN <<"pass", "REGISTRY_EVIDENCE_COMPLETE">>
         ELSE <<"unknown", "REGISTRY_EVIDENCE_UNKNOWN">>,
         {PlainEvidence("registry-version", o, IF complete THEN "observed" ELSE "unknown", {o.id},
                        IF complete THEN "available" ELSE "unavailable")}),
   About(c, o, "evidence-staleness", <<"not-applicable", "STALENESS_NOT_OBSERVED">>,
         {PlainEvidence("clock", o, "absent", {}, "not-recorded")})}

Channel(c, o, version) ==
  About(c, o, "release-channel",
        CASE version = NoVersion       -> <<"unknown", "TARGET_VERSION_UNKNOWN">>
          [] version \in Prereleases   -> <<"warn", "TARGET_PRERELEASE">>
          [] OTHER                     -> <<"pass", "TARGET_STABLE">>,
        {RegistryEvidence(o, version, "none", "none")})

Published(c, o, version) ==
  IF version = NoVersion \/ ~c.meta[o.id].known THEN Unpublished ELSE c.meta[o.id].published

Maturity(c, o, version) ==
  LET published == IF c.cooldown = 0 THEN Unpublished ELSE Published(c, o, version) IN
  About(c, o, "maturity",
        CASE c.cooldown = 0                      -> <<"not-applicable", "MATURITY_POLICY_DISABLED">>
          [] published = Unpublished             -> <<"unknown", "TARGET_TIME_UNKNOWN">>
          [] published <= c.asOf - c.cooldown    -> <<"pass", "TARGET_MATURE">>
          [] OTHER                               -> <<"fail", "TARGET_TOO_NEW">>,
        {MaturityEvidence(c, o, version, published)})

\* What the registry says of one version: "present", "absent" or "unknown".
Deprecation(c, o, version) ==
  IF version = NoVersion \/ ~c.meta[o.id].known THEN "unknown" ELSE c.meta[o.id].deprecated[version]

CurrentVersion(c, o) ==
  IF c.meta[o.id].known /\ ExactDeclared(c.current[o.id]) # NoVersion
  THEN ExactDeclared(c.current[o.id]) ELSE ExactDeclared(o.spec)

CurrentDeprecation(c, o) ==
  LET current == CurrentVersion(c, o)  presence == Deprecation(c, o, current) IN
  About(c, o, "current-deprecation",
        CASE presence = "absent"   -> <<"pass", "CURRENT_NOT_DEPRECATED">>
          [] presence = "present"  -> <<"warn", "CURRENT_DEPRECATED">>
          [] current = NoVersion   -> <<"unknown", "CURRENT_VERSION_UNKNOWN">>
          [] OTHER                 -> <<"unknown", "CURRENT_DEPRECATION_UNKNOWN">>,
        {RegistryEvidence(o, current, "deprecation-current", presence)})

TargetDeprecation(c, o, version) ==
  LET presence == Deprecation(c, o, version) IN
  About(c, o, "target-deprecation",
        CASE presence = "absent"   -> <<"pass", "TARGET_NOT_DEPRECATED">>
          [] presence = "present"  -> <<"fail", "TARGET_DEPRECATED">>
          [] OTHER                 -> <<"unknown", "TARGET_DEPRECATION_UNKNOWN">>,
        {RegistryEvidence(o, version, "deprecation-target", presence)})

Presence(c, o, version, value) ==
  IF version = NoVersion \/ ~c.meta[o.id].known THEN "unknown" ELSE value

PassiveReason == [family \in {"signature-presence", "provenance-presence"} |->
  IF family = "signature-presence"
  THEN [present |-> "SIGNATURE_PRESENT_UNVERIFIED", absent |-> "SIGNATURE_METADATA_ABSENT",
        unknown |-> "SIGNATURE_METADATA_UNKNOWN"]
  ELSE [present |-> "PROVENANCE_PRESENT_UNVERIFIED", absent |-> "PROVENANCE_METADATA_ABSENT",
        unknown |-> "PROVENANCE_METADATA_UNKNOWN"]]

\* A signature or a provenance that is there is not one that was verified: never "pass".
Passive(c, o, version, family, value) ==
  LET presence == Presence(c, o, version, value) IN
  About(c, o, family,
        <<IF presence = "unknown" THEN "unknown" ELSE "warn", PassiveReason[family][presence]>>,
        {RegistryEvidence(o, version, family, presence)})

----------------------------------------------------------------------------
(* The runtime the repository declares against the one the target asks for *)

BoundariesOf(c, o) == {c.boundaries[x.owner] : x \in Contexts(c, o) \cup {o}} \ {"none"}

\* A boundary has one conclusion about its runtime, and it is a confirmed one.
Concluded(boundaries, conclusions) ==
  /\ boundaries # {}
  /\ \A b \in boundaries : LET of == {x \in conclusions : x.boundary = b} IN
       Cardinality(of) = 1 /\ \A x \in of : x.status = "confirmed"

EngineOf(c, o, version) ==
  LET m == c.meta[o.id] IN
  IF version = NoVersion \/ ~m.known \/ m.engine = "bad"
  THEN [text |-> "unknown", range |-> {}] ELSE [text |-> m.engine, range |-> m.engineRange]

RuntimeFacts(c, o, version) ==
  LET boundaries == BoundariesOf(c, o)
      declared   == {r \in c.runtimes : r.boundary \in boundaries}
      conclusions == {x \in c.conclusions : x.boundary \in boundaries}
  IN [engine |-> EngineOf(c, o, version), declared |-> declared, conclusions |-> conclusions,
      settled |-> Concluded(boundaries, conclusions) /\ \A r \in declared : r.range # {},
      conflict |-> \E r, s \in declared : r.range # {} /\ s.range # {} /\ ~Intersects(r.range, s.range)]

RuntimeStatus(f, version) ==
  CASE ~f.settled                                  -> "unknown"
    [] f.conflict                                  -> "conflicting"
    [] f.declared = {} \/ version = NoVersion      -> "unknown"
    [] f.engine.text = "range"                     -> "observed"
    [] OTHER                                       -> f.engine.text

RuntimeVerdict(f, version) ==
  CASE version = NoVersion \/ f.declared = {} \/ ~f.settled \/ f.conflict ->
         <<"unknown", "RUNTIME_EVIDENCE_UNKNOWN">>
    [] f.engine.text = "absent"  -> <<"not-applicable", "RUNTIME_UNCONSTRAINED">>
    [] f.engine.text = "unknown" -> <<"unknown", "TARGET_ENGINE_UNKNOWN">>
    [] \E r \in f.declared : ~Intersects(r.range, f.engine.range) -> <<"fail", "RUNTIME_INCOMPATIBLE">>
    [] \A r \in f.declared : r.range \subseteq f.engine.range     -> <<"pass", "RUNTIME_COMPATIBLE">>
    [] OTHER -> <<"warn", "RUNTIME_PARTIAL_OVERLAP">>

RuntimeEvidence(c, o, version, f) ==
  [kind |-> "repository-runtime", status |-> RuntimeStatus(f, version), subject |-> o.id,
   sources |-> {o.id} \cup {x.id : x \in Contexts(c, o)} \cup {r.id : r \in f.declared}
                 \cup {x.id : x \in f.conclusions},
   version |-> version, engine |-> f.engine, ranges |-> {<<r.id, r.range>> : r \in f.declared},
   conclusions |-> {<<x.id, x.status>> : x \in f.conclusions}]

Runtime(c, o, version) ==
  LET f == RuntimeFacts(c, o, version) IN
  About(c, o, "runtime", RuntimeVerdict(f, version), {RuntimeEvidence(c, o, version, f)})

----------------------------------------------------------------------------
(* Peers: what the target asks of the other dependencies of the same package *)

\* What the registry says of the target's peers: a declaration that cannot be
\* read, or one that contradicts itself, is unknown.
PeerPresence(c, o, version) ==
  LET m == c.meta[o.id]  said == Presence(c, o, version, m.peerState) IN
  IF \/ said = "present" /\ (m.peers = {} \/ \E p \in m.peers : p.range = {})
     \/ said = "absent" /\ m.peers # {}
  THEN "unknown" ELSE said

\* finalProviderProjection: what the plan leaves a provider at.
ProviderAt(c, provider, requested) ==
  IF provider.role # "catalog-consumer"
  THEN [range |-> RangeOf(IF provider.id \in DOMAIN requested THEN requested[provider.id]
                          ELSE provider.spec), sources |-> {}]
  ELSE LET owners == {x \in c.occs : x.role = "catalog-owner" /\ x.catalog = provider.catalog
                                       /\ x.name = provider.name} IN
       IF owners = {} THEN [range |-> {}, sources |-> {}]
       ELSE LET owner == CHOOSE x \in owners : TRUE IN
            [range |-> RangeOf(IF owner.id \in DOMAIN requested THEN requested[owner.id]
                               ELSE owner.spec), sources |-> {owner.id}]

Neighbours(c, context, peer, test) ==
  LET boundary == c.boundaries[context.owner] IN
  {x \in c.occs : /\ x.name = peer
                  /\ \/ test = "own" /\ x.owner = context.owner /\ IsProvider(x)
                     \/ /\ test = "boundary" /\ x.owner # context.owner /\ IsProvider(x)
                        /\ boundary # "none" /\ c.boundaries[x.owner] = boundary
                     \/ /\ test = "override" /\ x.role = "override"
                        /\ \/ x.owner = context.owner
                           \/ boundary # "none" /\ c.boundaries[x.owner] = boundary}

GraphFacts(c, o, context, peer, requested) ==
  LET own == Neighbours(c, context, peer, "own") IN
  [own |-> own, near |-> Neighbours(c, context, peer, "boundary"),
   overrides |-> Neighbours(c, context, peer, "override"),
   provider |-> IF Cardinality(own) = 1
                THEN ProviderAt(c, CHOOSE x \in own : TRUE, requested)
                ELSE [range |-> {}, sources |-> {}]]

GraphStatus(g) ==
  CASE g.overrides # {} \/ Cardinality(g.own) > 1 -> "conflicting"
    [] g.own = {} -> IF g.near # {} THEN "unknown" ELSE "absent"
    [] OTHER      -> IF g.provider.range # {} THEN "observed" ELSE "unknown"

GraphSources(o, context, g) ==
  {o.id, context.id} \cup {x.id : x \in g.own \cup g.near \cup g.overrides} \cup g.provider.sources

GraphEvidence(o, context, p, g) ==
  [kind |-> "planned-graph", status |-> GraphStatus(g), subject |-> o.id, context |-> context.id,
   sources |-> GraphSources(o, context, g), peer |-> p.name, required |-> p.range,
   provider |-> g.provider.range, providers |-> Cardinality(g.own), near |-> Cardinality(g.near),
   overrides |-> Cardinality(g.overrides), optional |-> p.optional]

PeerVerdict(p, g) ==
  LET unclear == \/ g.overrides # {} \/ (g.own = {} /\ g.near # {})
                 \/ g.own # {} /\ (Cardinality(g.own) > 1 \/ g.provider.range = {})
  IN IF unclear THEN <<"unknown", "PEER_EVIDENCE_UNKNOWN">>
     ELSE IF g.own = {}
          THEN IF p.optional THEN <<"not-applicable", "PEER_OPTIONAL_MISSING">>
               ELSE <<"fail", "PEER_REQUIRED_MISSING">>
     ELSE IF ~Intersects(g.provider.range, p.range) THEN <<"fail", "PEER_INCOMPATIBLE">>
     ELSE IF g.provider.range \subseteq p.range THEN <<"pass", "PEER_COMPATIBLE">>
     ELSE <<"warn", "PEER_PARTIAL_OVERLAP">>

PeerOf(c, o, metadata, p, context, requested) ==
  LET g == GraphFacts(c, o, context, p.name, requested) IN
  About(c, o, "peer", PeerVerdict(p, g), {metadata, GraphEvidence(o, context, p, g)})

Peers(c, o, version, requested) ==
  LET presence == PeerPresence(c, o, version)
      metadata == RegistryEvidence(o, version, "peerMetadata", presence)
      contexts == Contexts(c, o)
  IN CASE presence = "absent" ->
            {About(c, o, "peer", <<"not-applicable", "PEER_METADATA_ABSENT">>, {metadata})}
       [] presence = "unknown" \/ contexts = {} ->
            {About(c, o, "peer", <<"unknown", "PEER_EVIDENCE_UNKNOWN">>, {metadata})}
       [] OTHER -> {PeerOf(c, o, metadata, x[1], x[2], requested) :
                      x \in c.meta[o.id].peers \X contexts}

----------------------------------------------------------------------------
(* Cohorts: dependencies that are to move together *)

Aligned(strategy, members, versions, candidates) ==
  CASE strategy = "update-together" -> Cardinality({m \in candidates : m \in members}) \in {0, Cardinality(members)}
    [] strategy = "same-version"    -> Cardinality({versions[m] : m \in members}) = 1
    [] strategy = "same-major"      -> Cardinality({Major(versions[m]) : m \in members}) = 1

CohortFacts(c, cohort) ==
  LET of == {o \in c.occs : IsRegistry(o) /\ o.name \in cohort.members}
      versions == [m \in {o.id : o \in of} |-> c.traces[m].target]
  IN [members |-> {o.id : o \in of}, versions |-> versions,
      complete |-> /\ cohort.members \subseteq {o.name : o \in of}
                   /\ \A o \in of : versions[o.id] # NoVersion]

ExplicitCohort(c, cohort, candidates) ==
  LET f == CohortFacts(c, cohort)
      aligned == f.complete /\ Aligned(cohort.strategy, f.members, f.versions, candidates)
  IN [family |-> "cohort",
      state  |-> IF ~f.complete THEN "unknown" ELSE IF aligned THEN "pass" ELSE "fail",
      reason |-> IF ~f.complete THEN "COHORT_MEMBER_UNKNOWN"
                 ELSE IF aligned THEN "COHORT_ALIGNED" ELSE "COHORT_DIVERGED",
      occs |-> f.members, name |-> "none", workspace |-> "none", cohort |-> cohort.id,
      evidence |->
        {[kind |-> "explicit-cohort", status |-> IF f.complete THEN "observed" ELSE "unknown",
          subject |-> cohort.id, sources |-> f.members, strategy |-> cohort.strategy,
          configured |-> cohort.members, source |-> c.cohortSource, proposed |-> f.versions,
          candidates |-> candidates \cap f.members]},
      kind |-> "explicit"]

\* Dependencies the registry says come from one repository.
InferredGroups(c) ==
  {g \in {{o \in c.occs : c.meta[o.id].known /\ c.meta[o.id].repository = r} :
            r \in {c.meta[o.id].repository : o \in c.occs} \ {"none"}} :
     Cardinality({o.name : o \in g}) >= 2}

InferredCohort(g) ==
  LET ids == {o.id : o \in g} IN
  [family |-> "cohort", state |-> "warn", reason |-> "COHORT_INFERRED_SUGGESTION",
   occs |-> ids, name |-> "none", workspace |-> "none", cohort |-> "inferred",
   evidence |-> {[kind |-> "inferred-cohort", status |-> "observed", group |-> ids,
                  sources |-> ids, names |-> {o.name : o \in g}]},
   kind |-> "inferred"]

----------------------------------------------------------------------------
(* The rules *)

RuleMatches(rule, s) ==
  \A selector \in {"family", "state", "reason", "name", "workspace", "cohort"} :
    rule[selector] \in {"any", s[selector]}

DefaultEffect(s) ==
  CASE s.kind = "inferred"                                        -> "warn"
    [] s.kind = "explicit" /\ s.state \in {"fail", "unknown"}     -> "block"
    [] s.kind = "plain" /\ s.state \in {"pass", "not-applicable"} -> "none"
    [] s.kind = "explicit" /\ s.state \in {"pass", "not-applicable"} -> "none"
    [] OTHER                                                      -> "warn"

\* The rules that match, in their order: none of them ever matches a suggestion.
Matching(s, rules) ==
  {i \in DOMAIN rules : s.kind # "inferred" /\ RuleMatches(rules[i], s)}
MatchedIds(s, rules) ==
  LET order == SetToSortSeq(Matching(s, rules), <) IN [k \in DOMAIN order |-> rules[order[k]].id]

\* applySignalPolicy: the last rule that matches wins.
EffectOf(s, rules) ==
  IF Matching(s, rules) = {} THEN DefaultEffect(s) ELSE rules[Max(Matching(s, rules))].effect

UnderPolicy(s, rules, source) ==
  [family |-> s.family, state |-> s.state, reason |-> s.reason, occs |-> s.occs, name |-> s.name,
   workspace |-> s.workspace, cohort |-> s.cohort, evidence |-> s.evidence,
   effect |-> EffectOf(s, rules), matched |-> MatchedIds(s, rules),
   override |-> IF Matching(s, rules) = {} \/ EffectOf(s, rules) = DefaultEffect(s) THEN <<>>
                ELSE <<Last(MatchedIds(s, rules)), source, DefaultEffect(s), EffectOf(s, rules)>>]

----------------------------------------------------------------------------
(* evaluatePlanSignals *)

SignalsOf(c, o, requested) ==
  LET version == FinalVersion(c, o) IN
  Completeness(c, o) \cup Peers(c, o, version, requested)
    \cup {Channel(c, o, version), Maturity(c, o, version), CurrentDeprecation(c, o),
          TargetDeprecation(c, o, version), Runtime(c, o, version),
          Passive(c, o, version, "signature-presence", c.meta[o.id].signature),
          Passive(c, o, version, "provenance-presence", c.meta[o.id].provenance)}

\* requested: the operations the plan holds, candidates: those it began with.
EvaluateSignals(c, requested, candidates) ==
  LET plain == UNION {SignalsOf(c, o, requested) : o \in {x \in c.occs : IsRegistry(x)}}
      all   == plain \cup {ExplicitCohort(c, cohort, candidates) : cohort \in c.cohorts}
                     \cup {InferredCohort(g) : g \in InferredGroups(c)}
  IN {UnderPolicy(s, c.rules, c.source) : s \in all}

BlockedBy(signals) == UNION {s.occs : s \in {x \in signals : x.effect = "block"}}

EvidenceOf(signals) == UNION {s.evidence : s \in signals}

\* validateSignalConfiguration
ConfigurationIsValid(cohorts, rules) ==
  /\ \A x, y \in cohorts : x.id = y.id => x = y
  /\ \A x \in cohorts : Cardinality(x.members) >= 2
  /\ \A i, j \in DOMAIN rules : rules[i].id = rules[j].id => i = j
  /\ \A i \in DOMAIN rules :
       /\ \E selector \in {"family", "state", "reason", "name", "workspace", "cohort"} :
            rules[i][selector] # "any"
       /\ rules[i].effect # "none"
       /\ rules[i].cohort \in {"any"} \cup {x.id : x \in cohorts}
=============================================================================
