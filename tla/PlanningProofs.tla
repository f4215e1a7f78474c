----------------------------- MODULE PlanningProofs -----------------------------
(***************************************************************************)
(* TLAPS proofs about Planning, for any repository and any setup that      *)
(* meets SetupsAssumption: what an operation expects, how the peers of a   *)
(* plan go together, and what a ready execution promises of the disk.      *)
(***************************************************************************)
EXTENDS Planning, FiniteSetTheorems, WellFoundedInduction, TLAPS

(* The repository model has the fields it had *)

\* The fields of a repository model (RepositoryModel), all of them set from the start.
Fields == {"sources", "packages", "catalogs", "occs", "diagnostics", "walk", "manifests",
           "boundaries", "lockfiles", "aliases", "runtimes", "evidence", "links", "consumers",
           "policies"}
IsModel(m) == m = [f \in Fields |-> m[f]]

\* A phase changes some fields of the model and leaves the others alone.
LEMMA Changed ==
  ASSUME NEW m, IsModel(m), NEW g \in Fields, NEW v
  PROVE  /\ IsModel([m EXCEPT ![g] = v])
         /\ [m EXCEPT ![g] = v][g] = v
         /\ \A f \in Fields \ {g} : [m EXCEPT ![g] = v][f] = m[f]
BY DEF IsModel

\* buildRepositoryModel keeps the fields and sets the sources and the occurrences.
LEMMA Parsing ==
  ASSUME IsModel(model), ParseSources
  PROVE  /\ IsModel(model)'
         /\ model'.sources = SourcesOf(disk, report)
         /\ model'.occs = OccurrencesOf(report, SourcesOf(disk, report))
BY DEF ParseSources, IsModel, Fields

\* The later readings leave the sources and the occurrences alone.
LEMMA Rest ==
  ASSUME IsModel(model), Walk \/ ReadLockfiles \/ ReadRuntimes \/ Conclude \/ Bind
  PROVE  /\ IsModel(model)'
         /\ model'.sources = model.sources
         /\ model'.occs = model.occs
BY DEF IsModel, Walk, ReadLockfiles, ReadRuntimes, Conclude, Bind, Fields


----------------------------------------------------------------------------
(* The operations and the sources they were drawn from *)

\* Every source is there once, every occurrence is declared by its source, and
\* every operation expects what the source of its hash declares.
Sourced ==
  /\ IsModel(model)
  /\ \A s, t \in model.sources : s.file = t.file => s = t
  /\ \A o \in model.occs : \E s \in model.sources :
       s.file = o.file /\ Declares(s.hash, [section |-> o.section, name |-> o.name, expected |-> o.spec])
  /\ \A id \in DOMAIN ops : Declares(ops[id].hash, ops[id])

\* collectManifestOccurrences: what a manifest is said to declare it declares.
LEMMA EntryDeclared ==
  ASSUME NEW s, NEW catalogs, NEW o \in ManifestOccurrences(s, catalogs)
  PROVE  /\ o.file = s.file
         /\ Declares(s.hash, [section |-> o.section, name |-> o.name, expected |-> o.spec])
<1>1. CASE \E e \in s.hash.entries : \E role, catalog, writeable :
             o = Occurrence(PackageId(s.file), s, e.section, e, role, catalog, writeable)
  BY <1>1 DEF Occurrence, Declares
<1>2. CASE \E i \in DOMAIN s.hash.manager :
             o = Occurrence(PackageId(s.file), s, "packageManager", ManagerEntry(s.hash.manager[i]),
                            "package-manager", NoCatalog, TRUE)
  BY <1>2 DEF Occurrence, ManagerEntry, Declares
<1> QED BY <1>1, <1>2 DEF ManifestOccurrences

\* The same of the entries of a catalog.
LEMMA CatalogDeclared ==
  ASSUME NEW s, NEW o \in CatalogOccurrences(s)
  PROVE  /\ o.file = s.file
         /\ Declares(s.hash, [section |-> o.section, name |-> o.name, expected |-> o.spec])
<1>1. PICK c \in s.hash.catalogs : \E e \in c.entries :
        o = Occurrence(CatalogId(s, c), s, c.name, e, "catalog-owner", CatalogId(s, c), TRUE)
  BY DEF CatalogOccurrences
<1>2. PICK e \in c.entries :
        o = Occurrence(CatalogId(s, c), s, c.name, e, "catalog-owner", CatalogId(s, c), TRUE)
  BY <1>1
<1> QED BY <1>2 DEF Occurrence, Declares

\* Every occurrence is declared by a source.
LEMMA OccurrencesDeclared ==
  ASSUME NEW r, NEW sources, NEW o \in OccurrencesOf(r, sources)
  PROVE  \E s \in sources : s.file = o.file
           /\ Declares(s.hash, [section |-> o.section, name |-> o.name, expected |-> o.spec])
<1>1. CASE \E s \in sources : o \in ManifestOccurrences(s, CatalogsOf(sources))
  BY <1>1, EntryDeclared
<1>2. CASE \E s \in sources : o \in CatalogOccurrences(s)
  BY <1>2, CatalogDeclared
<1> QED BY <1>1, <1>2 DEF OccurrencesOf, Parsed

\* A file is parsed once, so it is one source.
LEMMA OneOfEach ==
  ASSUME NEW d, NEW r, NEW s \in SourcesOf(d, r), NEW t \in SourcesOf(d, r), s.file = t.file
  PROVE  s = t
BY DEF SourcesOf

\* An identifier that is there names a record that has it.
LEMMA WithIdIs ==
  ASSUME NEW records, NEW id \in IdsOf(records)
  PROVE  WithId(records, id) \in records /\ WithId(records, id).id = id
BY DEF WithId, IdsOf

\* resolvePhysicalValues: an operation expects what the source of its hash declares.
LEMMA DrawnFromSource ==
  ASSUME Sourced, NEW o \in model.occs
  PROVE  Declares(OperationOf(o).hash, OperationOf(o))
<1>1. PICK s \in model.sources : s.file = o.file
        /\ Declares(s.hash, [section |-> o.section, name |-> o.name, expected |-> o.spec])
  BY DEF Sourced
<1>2. (CHOOSE x \in model.sources : x.file = o.file) = s
  BY <1>1 DEF Sourced
<1>3. /\ OperationOf(o).hash = s.hash /\ OperationOf(o).section = o.section
      /\ OperationOf(o).name = o.name /\ OperationOf(o).expected = o.spec
  BY <1>2 DEF OperationOf
<1> QED BY <1>1, <1>3 DEF Declares

\* The sources, the occurrences and the operations agree in every state of a plan run
\* (commands/plan/index.ts), whatever is edited while the repository is read.
THEOREM SourcedAlways == Spec => []Sourced
<1>1. Init => Sourced
  <2>1. IsModel(NoModel) /\ NoModel.sources = {} /\ NoModel.occs = {}
    BY DEF IsModel, NoModel, Fields
  <2> QED BY <2>1 DEF Init, Sourced
<1>2. Sourced /\ [Next]_vars => Sourced'
  <2> SUFFICES ASSUME Sourced, [Next]_vars PROVE Sourced'
    OBVIOUS
  <2>1. CASE /\ IsModel(model)' /\ model'.sources = model.sources /\ model'.occs = model.occs
             /\ ops' = ops
    BY <2>1 DEF Sourced, Declares
  <2>5. CASE Edit \/ CheckOptions \/ Discover \/ Settle \/ Execute \/ Check \/ UNCHANGED vars
    BY <2>5, <2>1 DEF Edit, CheckOptions, Discover, Settle, Execute, Check, vars, read, drawn,
       Sourced, IsModel
  <2>6. CASE Walk \/ ReadLockfiles \/ ReadRuntimes \/ Conclude \/ Bind
    BY <2>6, <2>1, Rest DEF Walk, ReadLockfiles, ReadRuntimes, Conclude, Bind, drawn, Sourced
  <2>7. CASE Resolve
    BY <2>7, <2>1 DEF Resolve, read, Sourced, IsModel
  <2>2. CASE ParseSources
    <3>1. ops' = ops
      BY <2>2 DEF ParseSources, drawn
    <3> QED BY <2>2, <3>1, Parsing, OccurrencesDeclared, OneOfEach DEF Sourced
  <2>3. CASE Decide
    <3>1. model' = model
      BY <2>3 DEF Decide, read
    <3>2. ASSUME NEW id \in DOMAIN ops' PROVE Declares(ops'[id].hash, ops'[id])
      <4>1. id \in IdsOf(model.occs) /\ ops'[id] = OperationOf(WithId(model.occs, id))
        BY <2>3 DEF Decide
      <4> QED BY <4>1, WithIdIs, DrawnFromSource
    <3> QED BY <3>1, <3>2 DEF Sourced
  <2>4. CASE Block
    BY <2>4 DEF Block, Restrict, Sourced, read
  <2> QED
    BY <2>2, <2>3, <2>4, <2>5, <2>6, <2>7 DEF Next, Step
<1> QED BY <1>1, <1>2, PTL DEF Spec

\* An operation expects what the source with the recorded hash declares: for every
\* repository and edit, resolvePhysicalValues never mixes two readings of a file.
THEOREM OperationsSourced == Spec => []OperationsMatchTheirSource
<1>1. Sourced => OperationsMatchTheirSource
  BY DEF Sourced, OperationsMatchTheirSource
<1> QED BY <1>1, SourcedAlways, PTL

----------------------------------------------------------------------------
(* What a peer signal rests on                                            *)

\* A target that asks for a peer its only provider does not meet.
Unmet(c, o, p, x, requested) ==
  /\ o \in c.occs /\ IsRegistry(o) /\ o.role = "dependency"
  /\ c.meta[o.id].known /\ c.meta[o.id].peerState = "present"
  /\ c.traces[o.id].target # NoVersion
  /\ p \in c.meta[o.id].peers /\ \A q \in c.meta[o.id].peers : q.range # {}
  /\ {y \in c.occs : y.owner = o.owner /\ y.name = p.name} = {x}
  /\ x.role = "dependency" /\ IsProvider(x)
  /\ \A y \in c.occs : y.name = p.name => y.role # "override"
  /\ ProviderAt(c, x, requested).range # {}
  /\ ~Intersects(ProviderAt(c, x, requested).range, p.range)

\* evaluatePeer: one provider that does not meet the range makes the verdict fail.
LEMMA OneProvider ==
  ASSUME NEW c, NEW o, NEW p, NEW x, NEW requested, Unmet(c, o, p, x, requested)
  PROVE  PeerVerdict(p, GraphFacts(c, o, o, p.name, requested)) = <<"fail", "PEER_INCOMPATIBLE">>
<1> DEFINE g == GraphFacts(c, o, o, p.name, requested)
<1>1. Neighbours(c, o, p.name, "own") = {x}
  BY Zenon DEF Unmet, Neighbours
<1>2. Neighbours(c, o, p.name, "override") = {}
  BY DEF Unmet, Neighbours
<1>3. Cardinality({x}) = 1
  BY FS_Singleton
<1>4. (CHOOSE y \in {x} : TRUE) = x
  OBVIOUS
<1>5. /\ g.own = {x} /\ g.overrides = {} /\ g.provider = ProviderAt(c, x, requested)
  BY <1>1, <1>2, <1>3, <1>4 DEF GraphFacts
<1>6. /\ g.provider.range # {} /\ ~Intersects(g.provider.range, p.range)
  BY <1>5 DEF Unmet
<1>7. g.overrides = {} /\ g.own # {} /\ ~(Cardinality(g.own) > 1) /\ g.provider.range # {}
  BY <1>3, <1>5, <1>6
<1> HIDE DEF g
<1>8. PeerVerdict(p, g) = <<"fail", "PEER_INCOMPATIBLE">>
  BY <1>6, <1>7 DEF PeerVerdict
<1> QED
  BY <1>8 DEF g

\* evaluateSignals has a failing peer signal about such a target.
LEMMA UnmetIsSignalled ==
  ASSUME NEW c, NEW o, NEW p, NEW x, NEW requested, Unmet(c, o, p, x, requested)
  PROVE  \E s \in SignalsOf(c, o, requested) :
           s.family = "peer" /\ s.state = "fail" /\ s.occs = {o.id} /\ s.kind = "plain"
<1> DEFINE version == FinalVersion(c, o)
           metadata == RegistryEvidence(o, version, "peerMetadata", "present")
           s == PeerOf(c, o, metadata, p, o, requested)
<1>1. PeerPresence(c, o, version) = "present"
  BY DEF Unmet, PeerPresence, Presence, FinalVersion
<1>2. Contexts(c, o) = {o}
  BY DEF Contexts, Unmet
<1>3. s \in Peers(c, o, version, requested)
  <2>1. Peers(c, o, version, requested) =
          {PeerOf(c, o, metadata, y[1], y[2], requested) : y \in c.meta[o.id].peers \X {o}}
    BY <1>1, <1>2 DEF Peers
  <2>2. <<p, o>> \in c.meta[o.id].peers \X {o}
    BY DEF Unmet
  <2> QED BY <2>1, <2>2
<1>4. s.family = "peer" /\ s.state = "fail" /\ s.occs = {o.id} /\ s.kind = "plain"
  BY OneProvider DEF PeerOf, About
<1> QED
  BY <1>3, <1>4 DEF SignalsOf

\* The effect of a signal is that of the last rule that matches it.
LEMMA LastRuleWins ==
  ASSUME NEW S, NEW rules \in Seq(S), rules # <<>>, NEW s, s.kind # "inferred", RuleMatches(Last(rules), s)
  PROVE  EffectOf(s, rules) = Last(rules).effect
<1>1. Len(rules) \in Nat /\ DOMAIN rules = 1..Len(rules) /\ Len(rules) # 0
  OBVIOUS
<1>2. Last(rules) = rules[Len(rules)]
  BY DEF Last
<1>3. Len(rules) \in Matching(s, rules) /\ \A i \in Matching(s, rules) : i \in 1..Len(rules)
  BY <1>1, <1>2 DEF Matching
<1>4. Max(Matching(s, rules)) = Len(rules)
  BY <1>1, <1>3 DEF Max
<1> QED
  BY <1>2, <1>3, <1>4 DEF EffectOf

\* A signal that a rule blocks blocks what it is about.
LEMMA BlockedSignal ==
  ASSUME NEW c, NEW S, c.rules \in Seq(S), c.rules # <<>>, NEW requested, NEW candidates,
         NEW o \in c.occs, IsRegistry(o), NEW s \in SignalsOf(c, o, requested),
         s.occs = {o.id}, s.kind = "plain", RuleMatches(Last(c.rules), s), Last(c.rules).effect = "block"
  PROVE  o.id \in BlockedBy(EvaluateSignals(c, requested, candidates))
<1>1. UnderPolicy(s, c.rules, c.source) \in EvaluateSignals(c, requested, candidates)
  BY DEF EvaluateSignals
<1>2. EffectOf(s, c.rules) = "block"
  BY LastRuleWins
<1>3. UnderPolicy(s, c.rules, c.source).occs = {o.id} /\ UnderPolicy(s, c.rules, c.source).effect = "block"
  BY <1>2 DEF UnderPolicy
<1> QED
  BY <1>1, <1>3 DEF BlockedBy

----------------------------------------------------------------------------
(* What holds of the operations and of what the signals are given         *)

\* From where the signals are given what they need, and from their first evaluation.
Informed  == phase \in {"decide", "evaluate", "execute", "check", "returned", "refused"}
Evaluated == phase \in {"evaluate", "execute", "check", "returned", "refused"}

\* An identifier ends in the name of the dependency.
NamesAgree ==
  /\ \A d \in report.deps : d.name = d.id[5]
  /\ \A o \in model.occs : o.name = o.id[5] /\ {"id", "name"} \subseteq DOMAIN o

\* A trace that selected a version rests on what the registry says of the name.
Traced(id) ==
  given.traces[id].status = "selected" =>
    /\ Asked(id) # {} /\ One(Asked(id)).spec.kind \in SpecKinds
    /\ given.traces[id].target # NoVersion
    /\ given.meta[id] = setup.registry[id[5]].facts /\ given.meta[id].known

\* What the signals are given of the registry is what it says of the name.
GivenAgrees ==
  Informed =>
    /\ given.rules = setup.rules
    /\ \A o \in given.occs : o.name = o.id[5]
    /\ \A id \in IdsOf(model.occs) : Traced(id) /\ given.traces[id].status # "operation"

\* The operations are what is decided to be one, and the signals are about them.
OpsAgree ==
  Evaluated =>
    /\ \A id \in DOMAIN decisions : "status" \in DOMAIN decisions[id]
    /\ DOMAIN ops = {id \in DOMAIN decisions : decisions[id].status = "operation"}
    /\ signals = EvaluateSignals(given, Requested(ops), first)
    /\ \A id \in DOMAIN ops :
         /\ id \in IdsOf(model.occs) /\ given.traces[id].status = "selected"
         /\ ops[id].requested.kind \in SpecKinds

\* Once the rounds are over no operation is blocked.
NoneBlocked == Drawn => DOMAIN ops \cap BlockedBy(signals) = {}

\* The inductive invariant of the rounds of blocking.
PeerInvariant ==
  setup \in Setups /\ IsModel(model) /\ NamesAgree /\ GivenAgrees /\ OpsAgree /\ NoneBlocked

\* It implies the property: an operation whose peer fails would be blocked.
LEMMA PeersHold ==
  ASSUME PeerInvariant
  PROVE  PeersHoldTogether
<1> SUFFICES ASSUME Drawn, BlocksPeers,
                    NEW o \in given.occs, o.id \in DOMAIN ops, o.role = "dependency", IsRegistry(o),
                    setup.registry[o.name].facts.peerState = "present",
                    \A p \in setup.registry[o.name].facts.peers : p.range # {},
                    NEW p \in setup.registry[o.name].facts.peers, NEW x \in Beside(o, p.name),
                    Beside(o, p.name) = {x}, x.role = "dependency", IsProvider(x), x.spec.kind \in SpecKinds,
                    \A y \in given.occs : y.name = p.name => y.role # "override",
                    ~GoesWith(After(x), p.range)
             PROVE  FALSE
  BY Zenon DEF PeersHoldTogether
<1>1. Informed /\ Evaluated
  BY DEF Drawn, Informed, Evaluated
<1>2. /\ given.rules = setup.rules /\ o.name = o.id[5]
      /\ o.id \in IdsOf(model.occs) /\ given.traces[o.id].status = "selected"
  BY <1>1 DEF PeerInvariant, GivenAgrees, OpsAgree
<1>3. /\ given.meta[o.id] = setup.registry[o.name].facts /\ given.meta[o.id].known
      /\ given.traces[o.id].target # NoVersion
  BY <1>1, <1>2 DEF PeerInvariant, GivenAgrees, Traced
<1>4. After(x).kind \in SpecKinds
  BY <1>1 DEF After, PeerInvariant, OpsAgree
<1>5. ProviderAt(given, x, Requested(ops)).range = RangeOf(After(x))
  BY DEF ProviderAt, After, Requested
<1>6. RangeOf(After(x)) # {} /\ ~Intersects(RangeOf(After(x)), p.range)
  BY <1>4 DEF RangeOf, Intersects, GoesWith, SpecKinds
<1>7. Unmet(given, o, p, x, Requested(ops))
  BY <1>3, <1>5, <1>6 DEF Unmet, Beside
<1>8. PICK s \in SignalsOf(given, o, Requested(ops)) :
        s.family = "peer" /\ s.state = "fail" /\ s.occs = {o.id} /\ s.kind = "plain"
  BY <1>7, UnmetIsSignalled
<1>9. /\ given.rules \in Seq(ToSet(setup.rules)) /\ given.rules # <<>>
      /\ Last(given.rules).effect = "block" /\ RuleMatches(Last(given.rules), s)
  BY <1>2, <1>8, SetupsAssumption DEF PeerInvariant, BlocksPeers, RuleMatches
<1>10. o.id \in BlockedBy(EvaluateSignals(given, Requested(ops), first))
  BY <1>8, <1>9, BlockedSignal
<1> QED
  BY <1>1, <1>10 DEF PeerInvariant, OpsAgree, NoneBlocked

----------------------------------------------------------------------------
(* The steps keep it                                                      *)

\* The dependencies discovery finds have the names their identifiers say.
LEMMA FoundNamed ==
  ASSUME NEW d, NEW o, NEW dep \in Discovered(d, o).deps
  PROVE  dep.name = dep.id[5]
<1>1. ASSUME NEW f, NEW section, NEW e, NEW update, dep = Dependency(f, section, e, update)
      PROVE  dep.name = dep.id[5]
  BY <1>1 DEF Dependency
<1>2. ASSUME NEW f, dep \in DeclaredBy(d, f, o) PROVE dep.name = dep.id[5]
  BY <1>1, <1>2 DEF DeclaredBy
<1>3. ASSUME dep \in CataloguedBy(d, o) PROVE dep.name = dep.id[5]
  BY <1>1, <1>3 DEF CataloguedBy
<1> QED
  BY <1>2, <1>3 DEF Discovered

\* So have the occurrences.
LEMMA OccurrencesNamed ==
  ASSUME NEW r, NEW sources, NEW o \in OccurrencesOf(r, sources)
  PROVE  o.name = o.id[5] /\ {"id", "name"} \subseteq DOMAIN o
<1>1. ASSUME NEW owner, NEW s, NEW section, NEW e, NEW role, NEW catalog, NEW writeable,
             o = Occurrence(owner, s, section, e, role, catalog, writeable)
      PROVE  o.name = o.id[5] /\ {"id", "name"} \subseteq DOMAIN o
  BY <1>1 DEF Occurrence
<1>2. ASSUME NEW s, NEW catalogs, o \in ManifestOccurrences(s, catalogs)
      PROVE  o.name = o.id[5] /\ {"id", "name"} \subseteq DOMAIN o
  BY <1>1, <1>2 DEF ManifestOccurrences
<1>3. ASSUME NEW s, o \in CatalogOccurrences(s) PROVE o.name = o.id[5] /\ {"id", "name"} \subseteq DOMAIN o
  <2>1. PICK c \in s.hash.catalogs : \E e \in c.entries :
          o = Occurrence(CatalogId(s, c), s, c.name, e, "catalog-owner", CatalogId(s, c), TRUE)
    BY <1>3 DEF CatalogOccurrences
  <2> QED BY <1>1, <2>1
<1> QED
  BY <1>2, <1>3 DEF OccurrencesOf

\* resolveDependency: a version is selected only of a name the registry answered for.
LEMMA TracesHold ==
  ASSUME setup \in Setups, NamesAgree, given' = Gathered,
         UNCHANGED <<report, model, setup>>, NEW id \in IdsOf(model.occs)
  PROVE  Traced(id)' /\ given'.traces[id].status # "operation"
<1> DEFINE d == One(Asked(id))
<1>1. /\ given'.traces[id] = IF Asked(id) = {} THEN NoTrace ELSE TraceOf(d)
      /\ given'.meta[id] = IF Asked(id) = {} \/ IsPrivate(d) THEN NoFacts ELSE Registered(d.name).facts
  BY DEF Gathered, Traces, Metadata
<1>2. Asked(id)' = Asked(id) /\ One(Asked(id))' = d
  BY DEF Asked, Looked, Projected, Sensitive, IdsOf, One
<1>3. ASSUME Asked(id) # {} PROVE d \in report.deps /\ d.id = id /\ d.name = id[5]
  BY <1>3 DEF Asked, One, Looked, Projected, NamesAgree
<1>4. CASE Asked(id) = {}
  BY <1>1, <1>4 DEF Traced, NoTrace, Trace
<1>5. CASE Asked(id) # {}
  <2>1. /\ given'.traces[id] = TraceOf(d)
        /\ given'.meta[id] = IF IsPrivate(d) THEN NoFacts ELSE Registered(d.name).facts
    BY <1>1, <1>5
  <2>2. Registered(d.name).status \in {"selected", "skipped", "blocked", "unknown"}
    BY SetupsAssumption DEF Registered, Unregistered
  <2>3. TraceOf(d).status # "operation"
    BY <2>2 DEF TraceOf, Trace
  <2>4. ASSUME TraceOf(d).status = "selected"
        PROVE  /\ ~IsPrivate(d) /\ Registered(d.name).facts.known /\ d.spec.kind \in SpecKinds
               /\ Registered(d.name).status = "selected" /\ TraceOf(d).target = Registered(d.name).target
    BY <2>2, <2>4 DEF TraceOf, Trace
  <2>5. Registered(d.name).status = "selected" =>
          /\ Registered(d.name) = setup.registry[d.name]
          /\ Registered(d.name).target # NoVersion
    BY SetupsAssumption DEF Registered, Unregistered
  <2> QED
    BY <1>2, <1>3, <1>5, <2>1, <2>3, <2>4, <2>5 DEF Traced
<1> QED BY <1>4, <1>5

\* Of an operation the dependency that was asked about is the one discovery found.
LEMMA DecidedRightly ==
  ASSUME Informed, GivenAgrees, NEW o \in model.occs, Decision(o).status = "operation"
  PROVE  /\ given.traces[o.id].status = "selected"
         /\ OperationOf(o).requested.kind \in SpecKinds
<1>1. o.id \in IdsOf(model.occs)
  BY DEF IdsOf
<1>2. Traced(o.id) /\ given.traces[o.id].status # "operation"
  BY <1>1 DEF GivenAgrees
<1>3. Verdict(o)[1] = "operation"
  BY DEF Decision
<1>4. given.traces[o.id].status = "selected" /\ ~(\E d \in Found(o.id) : ~d.update)
  BY <1>2, <1>3 DEF Verdict
<1>5. Asked(o.id) # {} /\ One(Asked(o.id)).spec.kind \in SpecKinds
  BY <1>2, <1>4 DEF Traced
<1>6. Found(o.id) = Asked(o.id)
  BY <1>4, <1>5 DEF Found, Asked, Looked
<1>7. OperationOf(o).requested.kind = One(Found(o.id)).spec.kind
  BY DEF OperationOf, Rebuilt
<1> QED
  BY <1>4, <1>5, <1>6, <1>7

\* From Resolve on nothing that was read or given changes.
LEMMA StillGiven ==
  ASSUME GivenAgrees, Informed, UNCHANGED <<report, model, setup, given>>
  PROVE  GivenAgrees'
<1>1. ASSUME NEW id \in IdsOf(model.occs)
      PROVE  Traced(id)' /\ given'.traces[id].status # "operation"
  <2>1. Asked(id)' = Asked(id) /\ One(Asked(id))' = One(Asked(id))
    BY DEF Asked, Looked, Projected, Sensitive, IdsOf, One
  <2> QED BY <2>1 DEF GivenAgrees, Traced
<1>2. IdsOf(model.occs)' = IdsOf(model.occs)
  BY DEF IdsOf
<1> QED
  BY <1>1, <1>2 DEF GivenAgrees

\* The decisions.
LEMMA DecideKeeps ==
  ASSUME PeerInvariant, Decide
  PROVE  PeerInvariant'
<1>1. UNCHANGED <<report, model, setup, given>> /\ Informed /\ phase' = "evaluate"
  BY DEF Decide, read, world, Informed
<1>2. GivenAgrees' /\ NamesAgree'
  BY <1>1, StillGiven DEF PeerInvariant, NamesAgree
<1>3. /\ \A id \in DOMAIN decisions' : "status" \in DOMAIN decisions'[id]
      /\ DOMAIN ops' = {id \in DOMAIN decisions' : decisions'[id].status = "operation"}
  BY DEF Decide, Decision
<1>4. signals' = EvaluateSignals(given', Requested(ops)', first')
  BY <1>1 DEF Decide, Requested
<1>5. ASSUME NEW id \in DOMAIN ops'
      PROVE  /\ id \in IdsOf(model.occs) /\ given.traces[id].status = "selected"
             /\ ops'[id].requested.kind \in SpecKinds
  <2> DEFINE o == WithId(model.occs, id)
  <2>1. id \in IdsOf(model.occs) /\ Decision(o).status = "operation" /\ ops'[id] = OperationOf(o)
    BY DEF Decide
  <2>2. o \in model.occs /\ o.id = id
    BY <2>1, WithIdIs
  <2> QED
    BY <1>1, <2>1, <2>2, DecidedRightly DEF PeerInvariant
<1>6. OpsAgree'
  BY <1>1, <1>3, <1>4, <1>5 DEF OpsAgree, IdsOf
<1> QED
  BY <1>1, <1>2, <1>6 DEF PeerInvariant, IsModel, NoneBlocked, Drawn

\* A round of blocking.
LEMMA BlockKeeps ==
  ASSUME PeerInvariant, Block
  PROVE  PeerInvariant'
<1>1. UNCHANGED <<report, model, setup, given, first, phase>> /\ Informed /\ Evaluated /\ ~Drawn
  BY DEF Block, read, world, Informed, Evaluated, Drawn
<1>2. GivenAgrees' /\ NamesAgree'
  BY <1>1, StillGiven DEF PeerInvariant, NamesAgree
<1>3. /\ DOMAIN ops' = DOMAIN ops \ NewlyBlocked /\ \A id \in DOMAIN ops' : ops'[id] = ops[id]
      /\ DOMAIN decisions' = DOMAIN decisions
      /\ \A id \in DOMAIN decisions :
           /\ "status" \in DOMAIN decisions'[id]
           /\ decisions'[id].status = IF id \in NewlyBlocked THEN "blocked" ELSE decisions[id].status
  BY <1>1 DEF Block, Restrict, PeerInvariant, OpsAgree
<1>4. DOMAIN ops' = {id \in DOMAIN decisions' : decisions'[id].status = "operation"}
  BY <1>1, <1>3 DEF PeerInvariant, OpsAgree
<1>5. signals' = EvaluateSignals(given', Requested(ops)', first')
  BY <1>1 DEF Block, Requested
<1>6. OpsAgree'
  BY <1>1, <1>3, <1>4, <1>5 DEF PeerInvariant, OpsAgree, IdsOf
<1> QED
  BY <1>1, <1>2, <1>6 DEF PeerInvariant, IsModel, NoneBlocked, Drawn

\* The last round.
LEMMA SettleKeeps ==
  ASSUME PeerInvariant, Settle
  PROVE  PeerInvariant'
<1>1. /\ UNCHANGED <<report, model, setup, given, first, ops, decisions, signals>>
      /\ Informed /\ Evaluated /\ phase' = "execute" /\ NewlyBlocked = {}
  BY DEF Settle, read, world, drawn, Informed, Evaluated
<1>2. GivenAgrees' /\ NamesAgree'
  BY <1>1, StillGiven DEF PeerInvariant, NamesAgree
<1>3. OpsAgree'
  BY <1>1 DEF PeerInvariant, OpsAgree, IdsOf, Requested
<1>4. DOMAIN ops \cap BlockedBy(signals) = {}
  BY <1>1 DEF PeerInvariant, OpsAgree, NewlyBlocked
<1>5. NoneBlocked'
  BY <1>1, <1>4 DEF NoneBlocked
<1> QED
  BY <1>1, <1>2, <1>3, <1>5 DEF PeerInvariant, IsModel

\* The steps after it, and the user.
LEMMA RestKeeps ==
  ASSUME PeerInvariant, UNCHANGED <<report, model, setup, given, first, ops, decisions, signals>>,
         \/ phase' = phase
         \/ Drawn /\ phase' \in {"execute", "check", "returned", "refused"}
         \/ ~Informed'
  PROVE  PeerInvariant'
<1>1. NamesAgree' /\ IsModel(model)' /\ setup' \in Setups
  BY DEF PeerInvariant, NamesAgree, IsModel
<1>2. CASE ~Informed'
  BY <1>1, <1>2 DEF PeerInvariant, Informed, Evaluated, Drawn, GivenAgrees, OpsAgree, NoneBlocked
<1>3. CASE Informed'
  <2>1. Informed /\ (Evaluated' => Evaluated) /\ (Drawn' => Drawn)
    BY <1>3 DEF Informed, Evaluated, Drawn
  <2>2. GivenAgrees'
    BY <2>1, StillGiven DEF PeerInvariant
  <2>3. OpsAgree' /\ NoneBlocked'
    BY <2>1 DEF PeerInvariant, OpsAgree, NoneBlocked, IdsOf, Requested
  <2> QED BY <1>1, <2>2, <2>3 DEF PeerInvariant
<1> QED BY <1>2, <1>3

\* Every step keeps the invariant.
LEMMA PeerStep ==
  ASSUME PeerInvariant, [Next]_vars
  PROVE  PeerInvariant'
<1>1. CASE Decide
  BY <1>1, DecideKeeps
<1>2. CASE Block
  BY <1>2, BlockKeeps
<1>3. CASE Settle
  BY <1>3, SettleKeeps
<1>4. CASE Edit \/ UNCHANGED vars
  <2>1. UNCHANGED <<report, model, setup, given, first, ops, decisions, signals, phase>>
    BY <1>4 DEF Edit, vars, world, read, drawn
  <2> QED BY <2>1, RestKeeps
<1>5. CASE Execute \/ Check
  <2>1. /\ UNCHANGED <<report, model, setup, given, first, ops, decisions, signals>>
        /\ Drawn /\ phase' \in {"execute", "check", "returned", "refused"}
    BY <1>5 DEF Execute, Check, world, read, drawn, Drawn
  <2> QED BY <2>1, RestKeeps
<1>6. CASE CheckOptions \/ Discover \/ ParseSources \/ Walk \/ ReadLockfiles \/ ReadRuntimes
             \/ Conclude \/ Bind
  <2>1. phase' \in {"discover", "threw", "parse", "walk", "lockfiles", "runtimes", "conclude", "bind",
                     "resolve"} /\ setup' = setup
    BY <1>6 DEF CheckOptions, Discover, ParseSources, Walk, ReadLockfiles, ReadRuntimes, Conclude, Bind,
                world
  <2>2. IsModel(model)' /\ \A o \in model'.occs : o.name = o.id[5] /\ {"id", "name"} \subseteq DOMAIN o
    <3>1. CASE CheckOptions \/ Discover
      BY <3>1 DEF CheckOptions, Discover, read, PeerInvariant, NamesAgree, IsModel
    <3>2. CASE ParseSources
      BY <3>2, Parsing, OccurrencesNamed DEF PeerInvariant
    <3>3. CASE Walk \/ ReadLockfiles \/ ReadRuntimes \/ Conclude \/ Bind
      BY <3>3, Rest DEF PeerInvariant, NamesAgree
    <3> QED BY <1>6, <3>1, <3>2, <3>3
  <2>3. \A d \in report'.deps : d.name = d.id[5]
    <3>1. CASE Discover
      BY <3>1, FoundNamed DEF Discover
    <3>2. CASE CheckOptions \/ ParseSources \/ Walk \/ ReadLockfiles \/ ReadRuntimes \/ Conclude \/ Bind
      BY <3>2 DEF CheckOptions, ParseSources, Walk, ReadLockfiles, ReadRuntimes, Conclude, Bind, read,
                  PeerInvariant, NamesAgree
    <3> QED BY <1>6, <3>1, <3>2
  <2> QED
    BY <2>1, <2>2, <2>3 DEF PeerInvariant, NamesAgree, GivenAgrees, OpsAgree, NoneBlocked,
       Informed, Evaluated, Drawn
<1>7. CASE Resolve
  <2>1. /\ UNCHANGED <<report, model, setup>> /\ phase' \in {"threw", "decide"} /\ given' = Gathered
    BY <1>7 DEF Resolve, read, world
  <2>2. given'.rules = setup.rules
    BY <2>1 DEF Gathered
  <2>3. \A o \in given'.occs : o.name = o.id[5]
    <3>1. given'.occs = {Public(o) : o \in model.occs}
      BY <2>1 DEF Gathered
    <3> QED BY <3>1 DEF Public, PeerInvariant, NamesAgree
  <2>4. ASSUME NEW id \in IdsOf(model.occs) PROVE Traced(id)' /\ given'.traces[id].status # "operation"
    BY <2>1, TracesHold DEF PeerInvariant
  <2>5. GivenAgrees'
    BY <2>1, <2>2, <2>3, <2>4 DEF GivenAgrees, IdsOf
  <2> QED
    BY <2>1, <2>5 DEF PeerInvariant, NamesAgree, IsModel, OpsAgree, NoneBlocked, Evaluated, Drawn
<1> QED
  BY <1>1, <1>2, <1>3, <1>4, <1>5, <1>6, <1>7 DEF Next, Step

\* Where a rule blocks what fails its peers, the operations a plan keeps go with their
\* one provider as the plan leaves it, for every registry, every set of rules before
\* that one and any number of rounds (the loop of planForInvocation).
THEOREM PeersHoldAlways == Spec => []PeersHoldTogether
<1>1. Init => PeerInvariant
  <2>1. IsModel(NoModel) /\ NoModel.occs = {} /\ NoReport.deps = {}
    BY DEF IsModel, NoModel, Fields, NoReport
  <2> QED
    BY <2>1 DEF Init, PeerInvariant, NamesAgree, GivenAgrees, OpsAgree, NoneBlocked, Informed, Evaluated, Drawn
<1>2. PeerInvariant /\ [Next]_vars => PeerInvariant'
  BY PeerStep
<1>3. PeerInvariant => PeersHoldTogether
  BY PeersHold
<1> QED BY <1>1, <1>2, <1>3, PTL DEF Spec

----------------------------------------------------------------------------
(* Directories: the longest of those one lies in is the deepest *)
\* No directory but "." on the way to d has a name of one letter.
Long(d) == \A x \in Within[d] \ {"."} : PathLength[x] # 1

\* What DirsAssumption says of one directory.
LEMMA DirFacts ==
  ASSUME NEW d \in Dirs
  PROVE  /\ "." \in Dirs /\ PathLength["."] = 1 /\ PathLength[d] \in Nat /\ PathLength[d] > 0
         /\ d \in Within[d] /\ "." \in Within[d] /\ Within[d] \subseteq Dirs
         /\ \A e \in Within[d] :
              /\ Within[e] \subseteq Within[d] /\ PathLength[e] \in Nat /\ PathLength[e] > 0
              /\ e # d /\ e # "." => PathLength[e] < PathLength[d]
              /\ \A f \in Within[d] : e \in Within[f] \/ f \in Within[e]
<1>1. Within[d] \subseteq Dirs
  BY DirsAssumption
<1> QED BY <1>1, DirsAssumption

\* Of directories one lies in, one is longest.
LEMMA LongestExists ==
  ASSUME NEW d \in Dirs, NEW S \in SUBSET Within[d], S # {}
  PROVE  \E x \in S : \A e \in S : PathLength[e] <= PathLength[x]
<1> DEFINE less == {p \in Nat \X Nat : p[1] < p[2]}
           M == {PathLength[d] - PathLength[x] : x \in S}
<1>1. IsWellFoundedOn(less, Nat)
  BY NatLessThanWellFounded DEF OpToRel
<1>2. \A x \in S : /\ PathLength[x] \in Nat /\ PathLength[d] \in Nat
                   /\ PathLength[x] <= PathLength[d]
  <2>1. ASSUME NEW x \in S PROVE /\ PathLength[x] \in Nat /\ PathLength[d] \in Nat
                                 /\ PathLength[x] <= PathLength[d]
    <3>1. x \in Within[d]
      OBVIOUS
    <3> QED BY <3>1, DirFacts
  <2> QED BY <2>1
<1>3. M \subseteq Nat /\ M # {}
  BY <1>2
<1>4. PICK m \in M : \A k \in M : ~ (<<k, m>> \in less)
  <2> HIDE DEF less, M
  <2> QED BY <1>1, <1>3, WFMin
<1>5. PICK x \in S : m = PathLength[d] - PathLength[x]
  BY <1>4
<1>6. ASSUME NEW e \in S PROVE PathLength[e] <= PathLength[x]
  <2>1. PathLength[d] - PathLength[e] \in M /\ PathLength[d] - PathLength[e] \in Nat /\ m \in Nat
    BY <1>2, <1>3, <1>4
  <2>2. ~(PathLength[d] - PathLength[e] < m)
    BY <1>4, <2>1
  <2> QED BY <1>2, <1>5, <2>2
<1> QED BY <1>6

\* Of the directories in S the one that lies in all others.
Deepest(x, S) == x \in S /\ \A e \in S : e \in Within[x]

\* Where no name has one letter, the longest path is the deepest directory.
LEMMA FirstIsDeepest ==
  ASSUME NEW d \in Dirs, Long(d), NEW S \in SUBSET Within[d], "." \in S
  PROVE  Deepest(FirstByLength(S), S)
<1> DEFINE longest == {x \in S : \A e \in S : PathLength[e] <= PathLength[x]}
           x == FirstByLength(S)
<1>1. longest # {}
  BY LongestExists
<1>2. x \in longest /\ (x # "." => "." \notin longest)
  BY <1>1 DEF FirstByLength
<1>3. x \in S /\ x \in Within[d] /\ \A e \in S : PathLength[e] <= PathLength[x]
  BY <1>2
<1> HIDE DEF x
<1>4. CASE x = "."
  <2>1. ASSUME NEW e \in S PROVE e = "."
    BY <1>3, <1>4, DirFacts DEF Long
  <2> QED BY <1>3, <1>4, <2>1, DirFacts DEF Deepest, x
<1>5. CASE x # "."
  <2>1. ASSUME NEW e \in S PROVE e \in Within[x]
    <3>1. e \in Within[d] /\ e \in Dirs /\ x \in Dirs
      BY <1>3, DirFacts
    <3>2. CASE e \in Within[x]
      BY <3>2
    <3>3. CASE x \in Within[e] /\ x # e
      BY <1>3, <1>5, <3>1, <3>3, DirFacts
    <3>4. CASE x = e
      BY <3>1, <3>4, DirFacts
    <3> QED BY <1>3, <3>1, <3>2, <3>3, <3>4, DirFacts
  <2> QED BY <1>3, <2>1 DEF Deepest, x
<1> QED BY <1>4, <1>5

\* There is one deepest directory at most.
LEMMA OneDeepest ==
  ASSUME NEW S \in SUBSET Dirs, NEW x, NEW y, Deepest(x, S), Deepest(y, S)
  PROVE  x = y
<1>1. x \in Dirs /\ y \in Dirs /\ x \in Within[y] /\ y \in Within[x]
  BY DEF Deepest
<1>2. PathLength[x] \in Nat /\ PathLength[y] \in Nat /\ PathLength[x] > 0 /\ PathLength[y] > 0
      /\ PathLength["."] = 1
  BY <1>1, DirFacts
<1>3. /\ x # y /\ x # "." => PathLength[x] < PathLength[y]
      /\ x # y /\ y # "." => PathLength[y] < PathLength[x]
  BY <1>1, DirFacts
<1> QED BY <1>2, <1>3

----------------------------------------------------------------------------
(* What the evidence rests on when the disk is as it was *)

\* The repository was read without an edit, and the model is what the disk says.
Surveyed ==
  /\ disk = setup.disk /\ setup \in Setups
  /\ report.matched = Matched(disk, opts)
  /\ model.sources = SourcesOf(disk, report)
  /\ model.walk = Walked(disk)
  /\ model.manifests = ManifestsOf(disk, model.walk, model.sources)
  /\ model.boundaries = BoundariesIn(model.walk, model.manifests)
  /\ model.lockfiles = LockfilesOf(disk, model.walk, model.boundaries)
  /\ model.aliases = AliasConflicts(disk, model.walk, model.boundaries)

\* The directories of the boundaries, and the directories that can be listed.
Bounds == {b.dir : b \in model.boundaries}
Reached(d) == Within[d] \cap disk.unavailable = {}

\* What SetupsAssumption says of the disk that was read.
LEMMA FilesAre ==
  ASSUME Surveyed
  PROVE  /\ IsFiniteSet(FilesOf(disk)) /\ DOMAIN disk.files \cap DOMAIN disk.links = {}
         /\ \A f \in FilesOf(disk) : f = <<f[1], f[2]>> /\ f[1] \in Dirs
BY SetupsAssumption DEF Surveyed

\* The files whose names mark a boundary are no manifests.
LEMMA MarkersAre ==
  ASSUME Surveyed, NEW f
  PROVE  f \in {m.file : m \in model.manifests} <=>
           /\ f \in Listed(disk) /\ f[2] \in ManifestNames /\ Readable(disk, f)
           /\ f \in report.matched
<1>1. f[2] \in ManifestNames => f[2] \notin WorkspaceNames /\ f[2] \in EvidenceNames
  BY DEF ManifestNames, WorkspaceNames, EvidenceNames
<1>2. f \in {s.file : s \in model.sources} <=> f \in SourcePaths(disk, report) /\ Readable(disk, f)
  <2>1. ASSUME f \in SourcePaths(disk, report), Readable(disk, f)
        PROVE  \E s \in model.sources : s.file = f
    <3> DEFINE s == [id |-> <<"source", f[1], f[2]>>, file |-> f, hash |-> Content(disk, f),
                     state |-> IF Content(disk, f).form = "object" THEN "parsed" ELSE "error"]
    <3>1. s \in model.sources /\ s.file = f
      BY <2>1 DEF Surveyed, SourcesOf
    <3> QED BY <3>1
  <2>2. ASSUME NEW s \in model.sources
        PROVE  s.file \in SourcePaths(disk, report) /\ Readable(disk, s.file)
    BY DEF Surveyed, SourcesOf
  <2> QED BY <2>1, <2>2
<1>3. f \in {m.file : m \in model.manifests} <=>
        /\ f \in model.walk.files /\ f[2] \in ManifestNames /\ Readable(disk, f)
        /\ f \in {s.file : s \in model.sources}
  <2> DEFINE S == {s.file : s \in model.sources}
  <2>1. model.manifests = {[file |-> x, raw |-> Content(disk, x)] :
          x \in {y \in model.walk.files : y[2] \in ManifestNames /\ Readable(disk, y) /\ y \in S}}
    BY DEF Surveyed, ManifestsOf
  <2> HIDE DEF S
  <2>2. ASSUME f \in model.walk.files, f[2] \in ManifestNames, Readable(disk, f), f \in S
        PROVE  \E m \in model.manifests : m.file = f
    <3> DEFINE m == [file |-> f, raw |-> Content(disk, f)]
    <3>1. m \in model.manifests /\ m.file = f
      BY <2>1, <2>2
    <3> QED BY <3>1
  <2>3. ASSUME NEW m \in model.manifests
        PROVE  /\ m.file \in model.walk.files /\ m.file[2] \in ManifestNames
               /\ Readable(disk, m.file) /\ m.file \in S
    BY <2>1
  <2>4. f \in {m.file : m \in model.manifests} <=>
          /\ f \in model.walk.files /\ f[2] \in ManifestNames /\ Readable(disk, f) /\ f \in S
    BY <2>2, <2>3
  <2> QED BY <2>4 DEF S
<1>4. model.walk.files = {x \in Listed(disk) : x[2] \in EvidenceNames}
  BY DEF Surveyed, Walked
<1> QED
  BY <1>1, <1>2, <1>3, <1>4 DEF SourcePaths

\* collectManifests reads what the source read.
LEMMA ManifestsAre ==
  ASSUME Surveyed, NEW m \in model.manifests
  PROVE  m.raw = Content(disk, m.file)
BY DEF Surveyed, ManifestsOf

\* collectBoundaries: the root and the directories of the markers.
LEMMA BoundsAre ==
  ASSUME Surveyed
  PROVE  Bounds = {"."} \cup {m.file[1] : m \in MarkersOf(model.walk, model.manifests)}
<1> DEFINE markers == MarkersOf(model.walk, model.manifests)
           S == {"."} \cup {m.file[1] : m \in markers}
<1>1. (\A b \in model.boundaries : b.dir \in S) /\ (\A d \in S : \E b \in model.boundaries : b.dir = d)
  <2>1. \E class : model.boundaries =
          {[dir |-> d, markers |-> {m \in markers : m.file[1] = d}, class |-> class[d]] : d \in S}
    <3> DEFINE class == [d \in S |->
          IF d = "." THEN "effective-root"
          ELSE IF \E m \in markers : m.file[1] = d /\ m.kind = ".git" THEN "nested-git"
          ELSE "nested-workspace"]
    <3>1. model.boundaries =
          {[dir |-> d, markers |-> {m \in markers : m.file[1] = d}, class |-> class[d]] : d \in S}
      BY DEF Surveyed, BoundariesIn
    <3> QED BY <3>1
  <2> HIDE DEF S, markers
  <2>2. PICK class : model.boundaries =
          {[dir |-> d, markers |-> {m \in markers : m.file[1] = d}, class |-> class[d]] : d \in S}
    BY <2>1
  <2>3. ASSUME NEW d \in S PROVE \E b \in model.boundaries : b.dir = d
    <3> DEFINE b == [dir |-> d, markers |-> {m \in markers : m.file[1] = d}, class |-> class[d]]
    <3>1. b \in model.boundaries /\ b.dir = d
      BY <2>2
    <3> QED BY <3>1
  <2>4. ASSUME NEW b \in model.boundaries PROVE b.dir \in S
    BY <2>2
  <2> QED BY <2>3, <2>4
<1> QED BY <1>1 DEF Bounds

\* A boundary is marked on the disk.
LEMMA BoundsAreMarked ==
  ASSUME Surveyed, NEW x \in Bounds
  PROVE  Marks(x)
<1>1. CASE x = "."
  BY <1>1 DEF Marks
<1>2. ASSUME NEW m \in model.manifests, m.file[1] = x, m.raw.form = "object",
             m.raw.workspaces # "absent"
      PROVE  Marks(x)
  <2>1. m.file \in FilesOf(disk) /\ m.file \in report.matched /\ Readable(disk, m.file)
    BY MarkersAre DEF Listed
  <2> QED BY <1>2, <2>1, ManifestsAre DEF Marks, DeclaresWorkspaces
<1>3. ASSUME NEW f \in model.walk.files, f[1] = x, f[2] \in WorkspaceNames \cup {".git"}
      PROVE  Marks(x)
  BY <1>3 DEF Marks, Surveyed, Walked, Listed
<1>4. \A m \in MarkersOf(model.walk, model.manifests) :
        \/ \E y \in model.manifests : m.file = y.file /\ y.raw.form = "object"
                                        /\ y.raw.workspaces # "absent"
        \/ \E f \in model.walk.files : m.file = f /\ f[2] \in WorkspaceNames \cup {".git"}
  BY DEF MarkersOf, Marker
<1> QED BY <1>1, <1>2, <1>3, <1>4, BoundsAre

\* A directory that is marked and can be listed is a boundary.
LEMMA MarkedAreBounds ==
  ASSUME Surveyed, NEW x, Marks(x), Reached(x)
  PROVE  x \in Bounds
<1>1. CASE x = "."
  BY <1>1, BoundsAre
<1>2. ASSUME NEW f \in FilesOf(disk), f[1] = x, f[2] \in WorkspaceNames \cup {".git"}
      PROVE  x \in Bounds
  <2>1. f \in model.walk.files
    BY <1>2 DEF Surveyed, Walked, Listed, EvidenceNames, Reached
  <2>2. Marker(f[2], f) \in MarkersOf(model.walk, model.manifests) /\ Marker(f[2], f).file[1] = x
    BY <1>2, <2>1 DEF MarkersOf, Marker
  <2> QED BY <2>2, BoundsAre
<1>3. ASSUME NEW f \in FilesOf(disk), f[1] = x, DeclaresWorkspaces(f)
      PROVE  x \in Bounds
  <2>1. f \in Listed(disk) /\ f[2] \in ManifestNames /\ Readable(disk, f) /\ f \in report.matched
    BY <1>3 DEF DeclaresWorkspaces, Surveyed, Matched
  <2>2. PICK m \in model.manifests : m.file = f
    BY <2>1, MarkersAre
  <2>3. m.raw.form = "object" /\ m.raw.workspaces # "absent"
    BY <1>3, <2>2, ManifestsAre DEF DeclaresWorkspaces
  <2>4. /\ Marker("manifest-workspaces", f) \in MarkersOf(model.walk, model.manifests)
        /\ Marker("manifest-workspaces", f).file[1] = x
    BY <1>3, <2>2, <2>3 DEF MarkersOf, Marker
  <2> QED BY <2>4, BoundsAre
<1> QED BY <1>1, <1>2, <1>3 DEF Marks

\* The nearest marked directory is the deepest.
LEMMA NearestIsDeepest ==
  ASSUME NEW d \in Dirs, Long(d)
  PROVE  Deepest(Nearest(d), {e \in Within[d] : Marks(e)})
<1> DEFINE S == {e \in Within[d] : Marks(e)}
<1>1. "." \in S /\ S \in SUBSET Within[d]
  BY DirFacts DEF Marks
<1>2. Deepest(FirstByLength(S), S)
  BY <1>1, FirstIsDeepest
<1>3. Nearest(d) = CHOOSE x \in S : \A e \in S : e \in Within[x]
  BY DEF Nearest
<1> HIDE DEF S
<1>4. Deepest(Nearest(d), S)
  BY <1>2, <1>3 DEF Deepest
<1> QED BY <1>4 DEF S

\* The boundary a directory is linked to.
LEMMA OwnerIs ==
  ASSUME Surveyed, NEW d \in Dirs, Long(d)
  PROVE  Deepest(OwningBoundary(model.boundaries, d), Bounds \cap Within[d])
<1>1. "." \in Bounds \cap Within[d] /\ Bounds \cap Within[d] \in SUBSET Within[d]
  BY BoundsAre, DirFacts
<1>2. Deepest(FirstByLength(Bounds \cap Within[d]), Bounds \cap Within[d])
  BY <1>1, FirstIsDeepest
<1> QED BY <1>2 DEF OwningBoundary, Bounds

\* findOwningBoundary: of a directory that can be listed it is the nearest marked one.
LEMMA OwnerIsNearest ==
  ASSUME Surveyed, NEW d \in Dirs, Long(d), Reached(d)
  PROVE  OwningBoundary(model.boundaries, d) = Nearest(d)
<1>1. {e \in Within[d] : Marks(e)} = Bounds \cap Within[d]
  <2>1. ASSUME NEW e \in Within[d], Marks(e) PROVE e \in Bounds
    <3>1. Reached(e)
      BY DirFacts DEF Reached
    <3> QED BY <2>1, <3>1, MarkedAreBounds
  <2> QED BY <2>1, BoundsAreMarked
<1>2. Bounds \cap Within[d] \in SUBSET Dirs
  BY DirFacts
<1> QED BY <1>1, <1>2, NearestIsDeepest, OwnerIs, OneDeepest

----------------------------------------------------------------------------
(* What the conclusions say of the disk *)

\* Where an image of a finite set has no two members, all its members are one.
LEMMA AtMostOne ==
  ASSUME NEW A, IsFiniteSet(A), NEW f, NEW S, S \subseteq {f[x] : x \in A},
         ~(Cardinality(S) > 1), NEW a \in S, NEW b \in S
  PROVE  a = b
<1> DEFINE B == {x \in A : f[x] \in S}
           g == [x \in B |-> f[x]]
<1>1. IsFiniteSet(B)
  BY FS_Subset
<1>2. g \in Surjection(B, S)
  BY DEF Surjection
<1>3. IsFiniteSet(S)
  BY <1>1, <1>2, FS_Surjection
<1>4. Cardinality(S) \in Nat
  BY <1>3, FS_CardinalityType
<1>5. {a, b} \in SUBSET S
  OBVIOUS
<1>6. IsFiniteSet({a}) /\ Cardinality({a}) = 1
  BY FS_Singleton
<1>7. a # b => Cardinality({a} \cup {b}) = 2
  <2>1. Cardinality({a} \cup {b}) = IF b \in {a} THEN Cardinality({a}) ELSE Cardinality({a}) + 1
    BY <1>6, FS_AddElement
  <2> QED BY <1>6, <2>1
<1>8. {a} \cup {b} = {a, b}
  OBVIOUS
<1>9. Cardinality({a, b}) <= Cardinality(S)
  BY <1>3, <1>5, FS_Subset
<1> QED BY <1>4, <1>7, <1>8, <1>9

\* The conclusions of a boundary.
ManagerAt(b)  == ManagerConclusion(model.walk, model.boundaries, b, model.manifests,
                                   model.lockfiles, model.aliases)
LockfileAt(b) == LockfileConclusion(model.walk, model.boundaries, b, model.lockfiles, model.aliases)

\* The manifests of a directory that name a manager.
Naming(dir) == {m \in model.manifests : /\ m.file[1] = dir /\ m.raw.form = "object"
                                        /\ m.raw.manager # <<>>}

\* concludeManager: a confirmed manager with a version is named by manifests that agree.
LEMMA ManagerHolds ==
  ASSUME Surveyed, NEW b, ManagerAt(b).status = "confirmed",
         \A x \in ManagerAt(b).values : x[2] # NoVersionSaid
  PROVE  /\ Naming(b.dir) # {}
         /\ \E x : /\ \A m \in Naming(b.dir) : m.raw.manager[1] = x /\ m.raw.manager[1].valid
                   /\ ManagerAt(b).values = {<<x.name, x.version>>}
<1> DEFINE at      == Naming(b.dir)
           said    == {m.raw.manager[1] : m \in at}
           locked  == LockedBy(model.lockfiles, model.aliases, b)
           invalid == {m \in at : ~m.raw.manager[1].valid}
           out     == Unavailable(model.walk, model.boundaries, b)
<1>1. ManagerAt(b).status =
        IF invalid # {}      THEN "unsupported"
        ELSE IF at # {}      THEN IF Cardinality(said) > 1 THEN "ambiguous" ELSE "confirmed"
        ELSE IF out # {}     THEN "unavailable"
        ELSE IF locked = {}  THEN "missing"
        ELSE IF Cardinality(locked) = 1 THEN "confirmed" ELSE "ambiguous"
  BY Zenon DEF ManagerAt, ManagerConclusion, Conclusion, Naming
<1>2. ManagerAt(b).values =
        IF at # {} THEN {<<x.name, IF x.valid THEN x.version ELSE NoVersionSaid>> : x \in said}
                         \cup {<<n, NoVersionSaid>> : n \in IF invalid # {} THEN locked ELSE {}}
        ELSE {<<n, NoVersionSaid>> : n \in locked}
  BY Zenon DEF ManagerAt, ManagerConclusion, Conclusion, Naming
<1> HIDE DEF at, said, locked, invalid, out
<1>3. at # {}
  <2> SUFFICES ASSUME at = {} PROVE FALSE
    OBVIOUS
  <2>1. locked # {} /\ ManagerAt(b).values = {<<n, NoVersionSaid>> : n \in locked}
    BY <1>1, <1>2
  <2>2. PICK n \in locked : TRUE
    BY <2>1
  <2>3. <<n, NoVersionSaid>> \in ManagerAt(b).values /\ <<n, NoVersionSaid>>[2] = NoVersionSaid
    BY <2>1
  <2> QED BY <2>3
<1>4. invalid = {} /\ ~(Cardinality(said) > 1)
  BY <1>1, <1>3
<1>5. \A y, z \in said : y = z
  <2> DEFINE f == [x \in FilesOf(disk) |-> Content(disk, x).manager[1]]
  <2>1. said \subseteq {f[x] : x \in FilesOf(disk)}
    <3>1. ASSUME NEW m \in model.manifests
          PROVE  m.file \in FilesOf(disk) /\ m.raw = Content(disk, m.file)
      BY MarkersAre, ManifestsAre DEF Listed
    <3> QED BY <3>1 DEF said, at, Naming
  <2> HIDE DEF f
  <2> QED BY <2>1, <1>4, FilesAre, AtMostOne
<1>6. PICK m \in at : TRUE
  BY <1>3
<1> DEFINE x == m.raw.manager[1]
<1>7. \A k \in at : k.raw.manager[1] = x
  BY <1>5 DEF said
<1>8. \A k \in at : k.raw.manager[1].valid
  BY <1>4, Zenon DEF invalid
<1>9. said = {x}
  BY <1>6, <1>7 DEF said
<1>10. x.valid
  BY <1>8
<1>11. ManagerAt(b).values = {<<x.name, x.version>>}
  BY <1>2, <1>3, <1>4, <1>9, <1>10
<1> QED BY <1>3, <1>7, <1>8, <1>11 DEF at

\* What is recorded of a lockfile, and of which.
LockRecord(f) ==
  [id |-> <<"lockfile", f[1], f[2]>>, file |-> f, manager |-> LockManager[f[2]],
   boundary |-> OwningBoundary(model.boundaries, f[1]), state |-> ParseState(disk, f),
   hash |-> IF Readable(disk, f) THEN Content(disk, f) ELSE NoHash]

\* collectLockfiles records the candidates that are selected.
LEMMA LockfilesAre ==
  ASSUME Surveyed
  PROVE  /\ \A l \in model.lockfiles : \E f \in LockCandidates(disk, model.walk) :
              IsSelected(disk, model.walk, f) /\ l = LockRecord(f)
         /\ \A f \in LockCandidates(disk, model.walk) :
              IsSelected(disk, model.walk, f) => LockRecord(f) \in model.lockfiles
<1>1. model.lockfiles = {LockRecord(f) : f \in {x \in LockCandidates(disk, model.walk) :
                                                   IsSelected(disk, model.walk, x)}}
  BY Zenon DEF Surveyed, LockfilesOf, LockRecord
<1> QED BY <1>1

\* A candidate is a lockfile in a directory that can be listed, and leads to a file.
LEMMA CandidatesAre ==
  ASSUME Surveyed, NEW f
  PROVE  f \in LockCandidates(disk, model.walk) <=>
           f \in FilesOf(disk) /\ Reached(f[1]) /\ IsLock(f) /\ Contained(disk, f)
BY DEF Surveyed, Walked, LockCandidates, LockNames, Listed, EvidenceNames, Reached, IsLock

\* concludeLockfile: a confirmed one is the only one, parsed, with nothing left out.
LEMMA LockfileHolds ==
  ASSUME Surveyed, NEW b, LockfileAt(b).status = "confirmed"
  PROVE  /\ Unavailable(model.walk, model.boundaries, b) = {}
         /\ \A a \in model.aliases : a.boundary # b.dir
         /\ \E l \in model.lockfiles : /\ l.boundary = b.dir /\ l.state = "parsed"
                                       /\ LockfileAt(b).values = {l.id}
                                       /\ \A k \in model.lockfiles : k.boundary = b.dir => k = l
<1> DEFINE mine  == {l \in model.lockfiles : l.boundary = b.dir}
           other == {a \in model.aliases : a.boundary = b.dir}
           out   == Unavailable(model.walk, model.boundaries, b)
<1>1. LockfileAt(b).status =
       IF out # {}        THEN "unavailable"
       ELSE IF other # {} THEN "ambiguous"
       ELSE IF mine = {}  THEN "missing"
       ELSE IF Cardinality(mine) > 1                        THEN "ambiguous"
       ELSE IF \A l \in mine : l.state = "parsed"           THEN "confirmed"
       ELSE IF \A l \in mine : l.state = "unavailable"      THEN "unavailable" ELSE "unsupported"
  BY Zenon DEF LockfileAt, LockfileConclusion, Conclusion
<1>2. LockfileAt(b).values = {l.id : l \in mine} \cup {<<"alias", a.file[1], a.file[2]>> : a \in other}
  BY Zenon DEF LockfileAt, LockfileConclusion, Conclusion
<1> HIDE DEF mine, other, out
<1>3. /\ out = {} /\ other = {} /\ mine # {} /\ ~(Cardinality(mine) > 1)
      /\ \A l \in mine : l.state = "parsed"
  BY <1>1
<1>4. \A k, l \in mine : k = l
  <2> DEFINE f == [x \in FilesOf(disk) |-> LockRecord(x)]
  <2>1. mine \subseteq {f[x] : x \in FilesOf(disk)}
    <3>1. ASSUME NEW l \in model.lockfiles PROVE \E x \in FilesOf(disk) : l = f[x]
      BY LockfilesAre, CandidatesAre
    <3> QED BY <3>1 DEF mine
  <2> HIDE DEF f
  <2> QED BY <2>1, <1>3, FilesAre, AtMostOne
<1>5. PICK l \in mine : TRUE
  BY <1>3
<1>6. LockfileAt(b).values = {l.id}
  BY <1>2, <1>3, <1>4
<1> QED BY <1>3, <1>4, <1>5, <1>6 DEF mine, other, out

----------------------------------------------------------------------------
(* A target and the disk *)

\* What a target promises of the disk at its boundary.
Managed(t) ==
  /\ Declaring(t.boundary) # {}
  /\ \A f \in Declaring(t.boundary) :
       Declared(f).valid /\ Declared(f).name = t.manager /\ Declared(f).version = t.version
\* And of its lockfile.
Lockfiled(t) ==
  /\ Cardinality({Physical(disk, f) : f \in Locks(t.boundary)}) = 1
  /\ \E f \in Locks(t.boundary) :
       /\ Readable(disk, f) /\ Content(disk, f) = t.hash /\ t.hash.parse = "parsed"
       /\ LockManager[f[2]] = t.manager

\* A source is reached, and if only the root was looked at it is in the root.
LEMMA SourceIsReached ==
  ASSUME Surveyed, NEW s \in model.sources
  PROVE  /\ s.file \in FilesOf(disk) /\ Reached(s.file[1])
         /\ s.file[1] = "." \/ opts.recursive
<1>1. s.file \in SourcePaths(disk, report) /\ Readable(disk, s.file)
  BY DEF Surveyed, SourcesOf
<1>2. CASE s.file \in report.matched
  BY <1>2 DEF Surveyed, Matched, Listed, Reached
<1>3. CASE s.file \in FilesOf(disk) /\ s.file[1] = "."
  <2>1. Physical(disk, s.file) \in FilesOf(disk)
    BY <1>1 DEF Readable, Contained, FilesOf
  <2>2. Physical(disk, s.file)[1] \in Dirs
    BY <2>1, FilesAre
  <2>3. "." \in Within[Physical(disk, s.file)[1]]
    BY <2>2, DirFacts
  <2>4. "." \notin disk.unavailable
    BY <1>1, <2>3 DEF Readable, Contained
  <2>5. Within["."] = {"."}
    <3>1. "." \in Dirs
      BY DirsAssumption
    <3>2. ASSUME NEW e \in Within["."], e # "." PROVE FALSE
      BY <3>1, <3>2, DirFacts
    <3> QED BY <3>1, <3>2, DirFacts
  <2> QED BY <1>3, <2>4, <2>5 DEF Reached
<1> QED BY <1>1, <1>2, <1>3 DEF SourcePaths

\* What a directory that can be listed lies in can be listed.
LEMMA ReachedWithin ==
  ASSUME Surveyed, NEW d \in Dirs, Reached(d), NEW e \in Within[d]
  PROVE  Reached(e)
BY DirFacts DEF Reached

\* A target of a confirmed manager has the manager the disk names.
LEMMA ManagedRightly ==
  ASSUME Surveyed, NEW b, b.dir \in Dirs, Reached(b.dir), b.dir = "." \/ opts.recursive,
         ManagerAt(b).status = "confirmed", \A x \in ManagerAt(b).values : x[2] # NoVersionSaid,
         NEW t, t.boundary = b.dir, <<t.manager, t.version>> \in ManagerAt(b).values
  PROVE  Managed(t)
<1>1. PICK x : /\ \A m \in Naming(b.dir) : m.raw.manager[1] = x /\ m.raw.manager[1].valid
               /\ ManagerAt(b).values = {<<x.name, x.version>>}
  BY ManagerHolds
<1>2. x.name = t.manager /\ x.version = t.version
  BY <1>1
<1>3. ASSUME NEW f \in Declaring(b.dir)
      PROVE  \E m \in Naming(b.dir) : m.file = f /\ m.raw = Content(disk, f)
  <2>1. f \in report.matched /\ f \in Listed(disk)
    BY DEF Declaring, Surveyed, Matched, Listed, Reached
  <2>2. PICK m \in model.manifests : m.file = f
    BY <2>1, MarkersAre DEF Declaring
  <2> QED BY <2>2, ManifestsAre DEF Naming, Declaring
<1>4. \A f \in Declaring(b.dir) :
        Declared(f).valid /\ Declared(f).name = t.manager /\ Declared(f).version = t.version
  <2>1. ASSUME NEW f \in Declaring(b.dir)
        PROVE  Declared(f).valid /\ Declared(f).name = t.manager /\ Declared(f).version = t.version
    <3>1. PICK m \in Naming(b.dir) : m.file = f /\ m.raw = Content(disk, f)
      BY <1>3
    <3>2. Declared(f) = m.raw.manager[1]
      BY <3>1 DEF Declared
    <3>3. Declared(f).valid
      BY <1>1, <3>2
    <3>4. Declared(f) = x
      BY <1>1, <3>2
    <3> QED BY <1>2, <3>3, <3>4
  <2> QED BY <2>1
<1>5. Declaring(b.dir) # {}
  <2>1. PICK m \in Naming(b.dir) : TRUE
    BY ManagerHolds
  <2>2. m.file \in Declaring(b.dir)
    BY <2>1, MarkersAre, ManifestsAre DEF Naming, Declaring, Listed
  <2> QED BY <2>2
<1> QED BY <1>4, <1>5 DEF Managed

\* The directory of a file has no name of one letter on its way.
LEMMA FilesAreLong ==
  ASSUME ~OneLetter, NEW f \in FilesOf(disk)
  PROVE  Long(f[1])
BY DEF OneLetter, Long

\* A directory on the way to a lockfile that cannot be listed belongs to the boundary
\* the lockfile would belong to.
LEMMA LocksAreListed ==
  ASSUME Surveyed, ~OneLetter, NEW T \in Dirs, Reached(T), T \in Bounds, NEW f \in FilesOf(disk),
         Nearest(f[1]) = T, \A u \in disk.unavailable : OwningBoundary(model.boundaries, u) # T
  PROVE  Reached(f[1])
<1> DEFINE d == f[1]
<1>1. d \in Dirs /\ Long(d)
  BY FilesAre, FilesAreLong
<1>2. Deepest(T, {e \in Within[d] : Marks(e)})
  BY <1>1, NearestIsDeepest
<1> SUFFICES ASSUME NEW u \in Within[d] \cap disk.unavailable PROVE FALSE
  BY DEF Reached
<1>3. u \in Dirs /\ Within[u] \subseteq Within[d] /\ T \in Within[d]
  BY <1>1, <1>2, DirFacts DEF Deepest
<1>4. Long(u)
  BY <1>1, <1>3 DEF Long
<1>5. u \notin Within[T]
  BY DEF Reached
<1>6. T \in Within[u]
  BY <1>1, <1>3, <1>5, DirFacts
<1>7. Deepest(T, Bounds \cap Within[u])
  <2>1. ASSUME NEW e \in Bounds \cap Within[u] PROVE e \in Within[T]
    BY <1>2, <1>3, <2>1, BoundsAreMarked DEF Deepest
  <2> QED BY <1>6, <2>1 DEF Deepest
<1>8. OwningBoundary(model.boundaries, u) = T
  <2>1. Bounds \cap Within[u] \in SUBSET Dirs
    BY <1>3, DirFacts
  <2>2. Deepest(OwningBoundary(model.boundaries, u), Bounds \cap Within[u])
    BY <1>3, <1>4, OwnerIs
  <2> QED BY <1>7, <2>1, <2>2, OneDeepest
<1> QED BY <1>8

\* A target of a confirmed lockfile has the one lockfile of its boundary.
LEMMA LockfiledRightly ==
  ASSUME Surveyed, ~OneLetter, NEW b, b.dir \in Dirs, Reached(b.dir), b.dir \in Bounds,
         LockfileAt(b).status = "confirmed", NEW t, t.boundary = b.dir,
         NEW l \in model.lockfiles, l.id \in LockfileAt(b).values,
         l.hash = t.hash, l.manager = t.manager
  PROVE  Lockfiled(t)
<1> DEFINE T == b.dir
<1>1. PICK k \in model.lockfiles :
        /\ k.boundary = T /\ k.state = "parsed" /\ LockfileAt(b).values = {k.id}
        /\ \A j \in model.lockfiles : j.boundary = T => j = k
  BY LockfileHolds
<1>2. \A u \in disk.unavailable : OwningBoundary(model.boundaries, u) # T
  BY LockfileHolds DEF Unavailable, Surveyed, Walked
<1>3. PICK g \in LockCandidates(disk, model.walk) :
        IsSelected(disk, model.walk, g) /\ k = LockRecord(g)
  BY LockfilesAre
<1>4. PICK h \in LockCandidates(disk, model.walk) :
        IsSelected(disk, model.walk, h) /\ l = LockRecord(h)
  BY LockfilesAre
<1>5. l = k
  <2>1. l.id = k.id
    BY <1>1
  <2>2. h[1] = g[1] /\ h[2] = g[2]
    BY <1>3, <1>4, <2>1 DEF LockRecord
  <2>3. h = <<h[1], h[2]>> /\ g = <<g[1], g[2]>>
    BY FilesAre, CandidatesAre
  <2>4. h = g
    BY <2>2, <2>3
  <2> QED BY <1>3, <1>4, <2>4
<1>6. /\ g \in FilesOf(disk) /\ g[1] \in Dirs /\ Long(g[1]) /\ Reached(g[1]) /\ IsLock(g)
      /\ Nearest(g[1]) = T
  <2>1. g \in FilesOf(disk) /\ g[1] \in Dirs /\ Long(g[1]) /\ Reached(g[1]) /\ IsLock(g)
    BY CandidatesAre, FilesAre, FilesAreLong
  <2>2. OwningBoundary(model.boundaries, g[1]) = T
    BY <1>1, <1>3 DEF LockRecord
  <2> QED BY <2>1, <2>2, OwnerIsNearest
<1>7. Readable(disk, g) /\ t.hash = Content(disk, g) /\ t.hash.parse = "parsed"
      /\ t.manager = LockManager[g[2]]
  <2>1. ParseState(disk, g) = "parsed"
    BY <1>1, <1>3 DEF LockRecord
  <2>2. Readable(disk, g) /\ Content(disk, g).parse = "parsed"
    BY <2>1 DEF ParseState
  <2> QED BY <1>3, <1>5, <2>2 DEF LockRecord
<1>8. \* A lockfile of the boundary that is recorded is this one.
      ASSUME NEW f \in LockCandidates(disk, model.walk), IsSelected(disk, model.walk, f),
             Nearest(f[1]) = T
      PROVE  f = g
  <2>1. f[1] \in Dirs /\ Long(f[1]) /\ Reached(f[1])
    BY CandidatesAre, FilesAre, FilesAreLong
  <2>2. LockRecord(f) \in model.lockfiles /\ LockRecord(f).boundary = T
    BY <1>8, <2>1, LockfilesAre, OwnerIsNearest DEF LockRecord
  <2>3. LockRecord(f) = k
    BY <1>1, <2>2
  <2> QED BY <1>3, <2>3 DEF LockRecord
<1>9. g \in Locks(T)
  <2> SUFFICES ASSUME IsLock(Physical(disk, g)), Physical(disk, g) # g PROVE FALSE
    BY <1>6, <1>7 DEF Locks, Readable
  <2> DEFINE p == Physical(disk, g)
  <2>1. g \in DOMAIN disk.links
    BY DEF Physical
  <2>2. p \in DOMAIN disk.files /\ p \notin DOMAIN disk.links /\ Physical(disk, p) = p
    BY <1>7, FilesAre DEF Readable, Contained, Physical
  <2>3. p \in LockCandidates(disk, model.walk)
    BY <1>7, <2>2, CandidatesAre DEF Readable, Contained, IsLock, Reached
  <2>4. p \in Aliases(disk, model.walk, g)
    BY <2>2, <2>3 DEF Aliases
  <2>5. Aliases(disk, model.walk, g) = {g}
    BY <1>3, <2>1 DEF IsSelected
  <2> QED BY <2>4, <2>5
<1>10. ASSUME NEW f \in Locks(T)
       PROVE  Physical(disk, f) = Physical(disk, g)
  <2>1. f \in FilesOf(disk) /\ IsLock(f) /\ Nearest(f[1]) = T
    BY DEF Locks
  <2>2. f \in LockCandidates(disk, model.walk)
    <3>1. Reached(f[1])
      BY <1>2, <2>1, LocksAreListed
    <3>2. Contained(disk, f)
      BY <2>1, <3>1 DEF Locks, FilesOf, Contained, Physical, Reached
    <3> QED BY <2>1, <3>1, <3>2, CandidatesAre
  <2>3. CASE IsSelected(disk, model.walk, f)
    BY <1>8, <2>1, <2>2, <2>3
  <2>4. CASE ~IsSelected(disk, model.walk, f)
    <3>1. f[1] \in Dirs /\ Long(f[1]) /\ Reached(f[1])
      BY <2>2, CandidatesAre, FilesAre, FilesAreLong
    <3>2. OwningBoundary(model.boundaries, f[1]) = T
      BY <2>1, <3>1, OwnerIsNearest
    <3>3. PICK a \in Aliases(disk, model.walk, f) : IsSelected(disk, model.walk, a)
      <4> SUFFICES ASSUME \A a \in Aliases(disk, model.walk, f) : ~IsSelected(disk, model.walk, a)
                   PROVE  FALSE
        OBVIOUS
      <4> DEFINE r == [boundary |-> OwningBoundary(model.boundaries, f[1]), file |-> f,
                       manager |-> LockManager[f[2]]]
      <4>1. r \in model.aliases /\ r.boundary = T
        BY <2>2, <3>2 DEF Surveyed, AliasConflicts
      <4> QED BY <4>1, LockfileHolds
    <3>4. a \in LockCandidates(disk, model.walk) /\ Physical(disk, a) = Physical(disk, f)
      BY <3>3 DEF Aliases
    <3>5. f \in Aliases(disk, model.walk, a)
      BY <2>2, <3>4 DEF Aliases
    <3>6. a \notin DOMAIN disk.links /\ Physical(disk, a) = a
      BY <2>4, <3>3, <3>5 DEF IsSelected, Physical
    <3>7. Nearest(a[1]) = T
      BY <3>4, <3>6, CandidatesAre DEF Locks
    <3>8. a = g
      BY <1>8, <3>3, <3>4, <3>7
    <3> QED BY <3>4, <3>8
  <2> QED BY <2>3, <2>4
<1>11. {Physical(disk, f) : f \in Locks(T)} = {Physical(disk, g)}
  BY <1>9, <1>10
<1> QED BY <1>7, <1>9, <1>11, FS_Singleton DEF Lockfiled

----------------------------------------------------------------------------
(* The conclusions a target is drawn from *)

\* The evidence has the two conclusions of every boundary, and no others of the kinds.
AllConcluded ==
  /\ \A b \in model.boundaries : ManagerAt(b) \in model.evidence /\ LockfileAt(b) \in model.evidence
  /\ \A e \in model.evidence :
       /\ e.kind = "package-manager" => \E b \in model.boundaries : e = ManagerAt(b)
       /\ e.kind = "lockfile-selection" => \E b \in model.boundaries : e = LockfileAt(b)

\* A conclusion is of its kind and its boundary, and has a status.
LEMMA StatusesAre ==
  ASSUME NEW b
  PROVE  /\ ManagerAt(b).kind = "package-manager" /\ ManagerAt(b).boundary = b.dir
         /\ LockfileAt(b).kind = "lockfile-selection" /\ LockfileAt(b).boundary = b.dir
         /\ ManagerAt(b).status \in {"confirmed", "missing", "ambiguous", "unavailable", "unsupported"}
         /\ LockfileAt(b).status \in {"confirmed", "missing", "ambiguous", "unavailable", "unsupported"}
BY DEF ManagerAt, LockfileAt, ManagerConclusion, LockfileConclusion, Conclusion

\* The conclusion of a kind about a boundary is the one drawn of it.
LEMMA ConclusionIs ==
  ASSUME AllConcluded, NEW dir \in Bounds
  PROVE  /\ \E b \in model.boundaries : b.dir = dir /\ ConclusionOf("package-manager", dir) = ManagerAt(b)
         /\ \E b \in model.boundaries : b.dir = dir /\ ConclusionOf("lockfile-selection", dir) = LockfileAt(b)
<1>1. PICK b \in model.boundaries : b.dir = dir
  BY DEF Bounds
<1>2. \E e \in model.evidence : e.kind = "package-manager" /\ e.boundary = dir
  BY <1>1, StatusesAre DEF AllConcluded
<1>3. \E e \in model.evidence : e.kind = "lockfile-selection" /\ e.boundary = dir
  BY <1>1, StatusesAre DEF AllConcluded
<1>4. LET e == ConclusionOf("package-manager", dir) IN
        e \in model.evidence /\ e.kind = "package-manager" /\ e.boundary = dir
  BY <1>2 DEF ConclusionOf
<1>5. LET e == ConclusionOf("lockfile-selection", dir) IN
        e \in model.evidence /\ e.kind = "lockfile-selection" /\ e.boundary = dir
  BY <1>3 DEF ConclusionOf
<1>6. PICK x \in model.boundaries : ConclusionOf("package-manager", dir) = ManagerAt(x)
  BY <1>4 DEF AllConcluded
<1>7. PICK y \in model.boundaries : ConclusionOf("lockfile-selection", dir) = LockfileAt(y)
  BY <1>5 DEF AllConcluded
<1>8. x.dir = dir /\ y.dir = dir
  BY <1>4, <1>5, <1>6, <1>7, StatusesAre
<1> QED BY <1>6, <1>7, <1>8

\* A boundary that nothing speaks against has both confirmed and of one manager.
LEMMA ReasonsAre ==
  ASSUME NEW dir, BoundaryReason(dir) = "none",
         ConclusionOf("package-manager", dir).status \in
           {"confirmed", "missing", "ambiguous", "unavailable", "unsupported"},
         ConclusionOf("lockfile-selection", dir).status \in
           {"confirmed", "missing", "ambiguous", "unavailable", "unsupported"}
  PROVE  /\ ConclusionOf("package-manager", dir).status = "confirmed"
         /\ \A x \in ConclusionOf("package-manager", dir).values : x[2] # NoVersionSaid
         /\ ConclusionOf("lockfile-selection", dir).status = "confirmed"
         /\ WithId(model.lockfiles, TargetOf(dir).lockfile).manager = TargetOf(dir).manager
<1> DEFINE e == ConclusionOf("package-manager", dir)
           f == ConclusionOf("lockfile-selection", dir)
<1>1. \A x \in {"missing", "ambiguous", "unavailable", "unsupported"} :
        EvidenceReason[x].manager # "none" /\ EvidenceReason[x].lockfile # "none"
  BY DEF EvidenceReason
<1>2. ManagerReason(dir) = "none" /\ LockfileReason(dir) = "none"
  BY DEF BoundaryReason
<1>3. e.status = "confirmed" /\ ~(\E x \in e.values : x[2] = NoVersionSaid)
  BY <1>1, <1>2 DEF ManagerReason
<1>4. f.status = "confirmed" /\ WithId(model.lockfiles, TargetOf(dir).lockfile).manager = TargetOf(dir).manager
  BY <1>1, <1>2 DEF LockfileReason
<1> QED BY <1>3, <1>4

\* Without an obstacle nothing speaks against any boundary.
LEMMA NoObstacle ==
  ASSUME NEW draft, Obstacles(draft) = {}, NEW dir \in Targeted
  PROVE  BoundaryReason(dir) = "none"
<1>1. {BoundaryReason(d) : d \in Targeted} \ {"none"} = {}
  BY Zenon DEF Obstacles
<1> QED BY <1>1

\* buildPlanExecution: without an obstacle every operation has its target.
LEMMA ReadyIsExact ==
  ASSUME Surveyed, AllConcluded, ~OneLetter, NEW draft, Obstacles(draft) = {}, NEW id \in DOMAIN ops,
         NEW s \in model.sources, s.file = ops[id].file
  PROVE  \E dir \in Targeted : /\ TargetOf(dir).boundary = Nearest(ops[id].file[1])
                               /\ Managed(TargetOf(dir)) /\ Lockfiled(TargetOf(dir))
<1> DEFINE d   == ops[id].file[1]
           dir == OwningBoundary(model.boundaries, d)
           t   == TargetOf(dir)
<1>1. d \in Dirs /\ Long(d) /\ Reached(d) /\ (d = "." \/ opts.recursive)
  BY SourceIsReached, FilesAre, FilesAreLong
<1>2. dir = Nearest(d) /\ dir \in Bounds /\ dir \in Within[d]
  BY <1>1, OwnerIsNearest, OwnerIs DEF Deepest
<1>3. dir \in Targeted
  BY DEF Targeted, OwningBoundary
<1>4. dir \in Dirs /\ Reached(dir) /\ (dir = "." \/ opts.recursive)
  <2>1. Within["."] = {"."}
    <3>1. "." \in Dirs
      BY DirsAssumption
    <3>2. ASSUME NEW e \in Within["."], e # "." PROVE FALSE
      BY <3>1, <3>2, DirFacts
    <3> QED BY <3>1, <3>2, DirFacts
  <2> HIDE DEF dir
  <2> QED BY <1>1, <1>2, <2>1, ReachedWithin, DirFacts
<1> HIDE DEF dir
<1>5. PICK b \in model.boundaries : b.dir = dir /\ ConclusionOf("package-manager", dir) = ManagerAt(b)
  BY <1>2, ConclusionIs
<1>6. PICK c \in model.boundaries : c.dir = dir /\ ConclusionOf("lockfile-selection", dir) = LockfileAt(c)
  BY <1>2, ConclusionIs
<1>7. /\ ManagerAt(b).status = "confirmed" /\ \A x \in ManagerAt(b).values : x[2] # NoVersionSaid
      /\ LockfileAt(c).status = "confirmed"
      /\ WithId(model.lockfiles, t.lockfile).manager = t.manager
  BY <1>3, <1>5, <1>6, NoObstacle, StatusesAre, ReasonsAre
<1>8. PICK x : ManagerAt(b).values = {<<x.name, x.version>>}
  BY <1>7, ManagerHolds
<1>9. t.manager = x.name /\ t.version = x.version /\ t.boundary = dir
  <2>1. (CHOOSE y \in {<<x.name, x.version>>} : TRUE) = <<x.name, x.version>>
    OBVIOUS
  <2> QED BY <1>5, <1>8, <2>1 DEF TargetOf
<1>10. Managed(t)
  BY <1>4, <1>5, <1>7, <1>8, <1>9, ManagedRightly
<1>11. PICK k \in model.lockfiles : LockfileAt(c).values = {k.id}
  BY <1>7, LockfileHolds
<1> DEFINE l == WithId(model.lockfiles, k.id)
<1>12. l \in model.lockfiles /\ l.id = k.id
  BY DEF WithId
<1>13. t.lockfile = l.id /\ t.hash = l.hash
  <2>1. (CHOOSE y \in {k.id} : TRUE) = k.id
    OBVIOUS
  <2> QED BY <1>6, <1>11, <2>1 DEF TargetOf
<1>14. l.manager = t.manager
  BY <1>7, <1>12, <1>13
<1>15. Lockfiled(t)
  BY <1>2, <1>4, <1>6, <1>7, <1>9, <1>11, <1>12, <1>13, <1>14, LockfiledRightly
<1> QED BY <1>2, <1>3, <1>9, <1>10, <1>15

----------------------------------------------------------------------------
(* The invariant *)

\* The phases after each of the readings.
AfterConclude == {"bind", "resolve", "decide", "evaluate", "execute", "check", "returned", "refused"}
AfterLocks    == {"runtimes", "conclude"} \cup AfterConclude
AfterWalk     == {"lockfiles"} \cup AfterLocks
AfterParse    == {"walk"} \cup AfterWalk
AfterDiscover == {"parse"} \cup AfterParse

\* What was read so far is what the disk says.
ReadSoFar ==
  /\ phase \in AfterDiscover => report.matched = Matched(disk, opts)
  /\ phase \in AfterParse    => model.sources = SourcesOf(disk, report)
  /\ phase \in AfterWalk     => /\ model.walk = Walked(disk)
                                /\ model.manifests = ManifestsOf(disk, model.walk, model.sources)
                                /\ model.boundaries = BoundariesIn(model.walk, model.manifests)
  /\ phase \in AfterLocks    => /\ model.lockfiles = LockfilesOf(disk, model.walk, model.boundaries)
                                /\ model.aliases = AliasConflicts(disk, model.walk, model.boundaries)

\* Operations come with the decisions, and each changes a source.
OpsFiled == /\ ~Evaluated => ops = <<>>
            /\ \A id \in DOMAIN ops : \E s \in model.sources : s.file = ops[id].file

\* As long as the disk is as it was, what was read is what it says.
ReadRightly ==
  /\ setup \in Setups
  /\ edits # {} => disk = setup.disk
  /\ disk = setup.disk => ReadSoFar
  /\ phase \in AfterConclude => AllConcluded

\* The steps that read change only what they read.
LEMMA WalkReads ==
  ASSUME IsModel(model), Walk
  PROVE  /\ model'.sources = model.sources
         /\ model'.walk = Walked(disk)
         /\ model'.manifests = ManifestsOf(disk, model'.walk, model'.sources)
         /\ model'.boundaries = BoundariesIn(model'.walk, model'.manifests)
BY DEF IsModel, Walk, Fields

\* Two models of one survey.
Surveys(m, n) ==
  /\ m.sources = n.sources /\ m.walk = n.walk /\ m.manifests = n.manifests /\ m.boundaries = n.boundaries

\* collectLockfiles.
LEMMA LocksRead ==
  ASSUME IsModel(model), ReadLockfiles
  PROVE  /\ Surveys(model', model)
         /\ model'.lockfiles = LockfilesOf(disk, model'.walk, model'.boundaries)
         /\ model'.aliases = AliasConflicts(disk, model'.walk, model'.boundaries)
BY DEF IsModel, ReadLockfiles, Fields, Surveys

\* The runtimes, the conclusions and the policy leave what was read before.
LEMMA RestReads ==
  ASSUME IsModel(model), ReadRuntimes \/ Conclude \/ Bind
  PROVE  /\ Surveys(model', model)
         /\ model'.lockfiles = model.lockfiles /\ model'.aliases = model.aliases
         /\ ~Conclude => model'.evidence = model.evidence
BY DEF IsModel, ReadRuntimes, Conclude, Bind, Fields, Surveys

\* A conclusion is of the kind it is made of.
LEMMA KindIs ==
  ASSUME NEW k, NEW b, NEW t, NEW v, NEW f, NEW c
  PROVE  Conclusion(k, b, t, v, f, c).kind = k
BY DEF Conclusion

\* collectRepositoryEvidence draws the conclusions of every boundary.
LEMMA ConcludeConcludes ==
  ASSUME IsModel(model), Conclude
  PROVE  AllConcluded'
<1> DEFINE E == Conclusions(disk, model.walk, model.manifests, model.boundaries, model.lockfiles,
                            model.aliases, model.runtimes, model.diagnostics)
<1>1. model'.evidence = E
  BY DEF Conclude, IsModel, Fields
<1>2. /\ model'.walk = model.walk /\ model'.manifests = model.manifests
      /\ model'.boundaries = model.boundaries /\ model'.lockfiles = model.lockfiles
      /\ model'.aliases = model.aliases
  BY RestReads DEF Surveys
<1>3. \A b \in model.boundaries : ManagerAt(b)' = ManagerAt(b) /\ LockfileAt(b)' = LockfileAt(b)
  BY <1>2 DEF ManagerAt, LockfileAt
<1>4. \A b \in model.boundaries : ManagerAt(b) \in E /\ LockfileAt(b) \in E
  BY DEF Conclusions, ManagerAt, LockfileAt
<1>5. ASSUME NEW e \in E
      PROVE  \/ e.kind \notin {"package-manager", "lockfile-selection"}
             \/ \E b \in model.boundaries : e = ManagerAt(b) \/ e = LockfileAt(b)
  <2>1. CASE e = RootConclusion(model.walk) \/ e = VcsConclusion(disk, model.boundaries)
    <3>1. \E k \in {"root", "vcs"} : \E t, v, f, c : e = Conclusion(k, ".", t, v, f, c)
      BY <2>1, Zenon DEF RootConclusion, VcsConclusion
    <3> QED BY <3>1, KindIs
  <2>2. ASSUME NEW b \in model.boundaries,
               \/ e = WorkspaceConclusion(disk, model.walk, model.boundaries, b, model.manifests)
               \/ e = RuntimeConclusion(model.walk, model.boundaries, b, model.runtimes, model.diagnostics)
        PROVE  e.kind \notin {"package-manager", "lockfile-selection"}
    <3>1. \E k \in {"workspace", "runtime"} : \E t, v, f, c : e = Conclusion(k, b.dir, t, v, f, c)
      BY <2>2, Zenon DEF WorkspaceConclusion, RuntimeConclusion
    <3> QED BY <3>1, KindIs
  <2> QED BY <2>1, <2>2 DEF Conclusions, ManagerAt, LockfileAt
<1> HIDE DEF E
<1>6. \A e \in E :
       /\ e.kind = "package-manager" => \E b \in model.boundaries : e = ManagerAt(b)
       /\ e.kind = "lockfile-selection" => \E b \in model.boundaries : e = LockfileAt(b)
  BY <1>5, StatusesAre
<1> QED BY <1>1, <1>2, <1>3, <1>4, <1>6 DEF AllConcluded

\* They stay while what they are drawn from stays.
LEMMA ConclusionsStay ==
  ASSUME AllConcluded, Surveys(model', model), model'.lockfiles = model.lockfiles,
         model'.aliases = model.aliases, model'.evidence = model.evidence
  PROVE  AllConcluded'
<1>1. \A b \in model.boundaries : ManagerAt(b)' = ManagerAt(b) /\ LockfileAt(b)' = LockfileAt(b)
  BY DEF ManagerAt, LockfileAt, Surveys
<1> QED BY <1>1 DEF AllConcluded, Surveys

\* Steps that read nothing go on with what was read.
LEMMA ReadingOver ==
  ASSUME ReadRightly, UNCHANGED <<world, report, model>>,
         \/ phase' = phase
         \/ phase \in AfterConclude /\ phase' \in AfterConclude
         \/ phase' \notin AfterDiscover
  PROVE  ReadRightly'
<1>1. phase' \in AfterConclude => phase \in AfterConclude
  BY DEF AfterDiscover, AfterParse, AfterWalk, AfterLocks
<1>2. phase \in AfterConclude => phase \in AfterDiscover \cap AfterParse \cap AfterWalk \cap AfterLocks
  BY DEF AfterDiscover, AfterParse, AfterWalk, AfterLocks
<1>3. phase' \notin AfterDiscover => phase' \notin AfterParse \cup AfterWalk \cup AfterLocks \cup AfterConclude
  BY DEF AfterDiscover, AfterParse, AfterWalk, AfterLocks
<1>4. ReadSoFar => ReadSoFar'
  BY <1>2, <1>3 DEF ReadSoFar, world, opts
<1>5. AllConcluded => AllConcluded'
  BY ConclusionsStay DEF Surveys
<1> QED BY <1>1, <1>4, <1>5 DEF ReadRightly, world

\* Every step keeps what was read right.
LEMMA ReadingStep ==
  ASSUME IsModel(model), ReadRightly, [Next]_vars
  PROVE  ReadRightly'
<1>1. CASE UNCHANGED vars
  BY <1>1, ReadingOver DEF vars, read
<1>2. CASE Edit
  <2>1. /\ edits # {} /\ edits' = {} /\ setup' = setup /\ phase' = phase /\ report' = report /\ model' = model
    BY <1>2 DEF Edit, read
  <2>2. disk' = setup'.disk => disk' = disk
    BY <2>1 DEF ReadRightly
  <2>3. AllConcluded => AllConcluded'
    BY <2>1, ConclusionsStay DEF Surveys
  <2>4. disk' = disk /\ ReadSoFar => ReadSoFar'
    BY <2>1 DEF ReadSoFar, opts
  <2> QED BY <2>1, <2>2, <2>3, <2>4 DEF ReadRightly
<1>3. CASE CheckOptions
  BY <1>3, ReadingOver DEF CheckOptions, read, AfterDiscover, AfterParse, AfterWalk, AfterLocks, AfterConclude
<1>4. CASE Resolve \/ Decide \/ Block \/ Settle \/ Execute \/ Check
  <2>1. UNCHANGED <<world, report, model>>
    BY <1>4 DEF Resolve, Decide, Block, Settle, Execute, Check, read
  <2>2. \/ phase \in AfterConclude /\ phase' \in AfterConclude
        \/ phase' \notin AfterDiscover
    BY <1>4 DEF Resolve, Decide, Block, Settle, Execute, Check, AfterDiscover, AfterParse, AfterWalk,
                AfterLocks, AfterConclude
  <2> QED BY <2>1, <2>2, ReadingOver
<1>5. CASE Discover
  <2>1. phase' = "parse" /\ UNCHANGED world /\ report'.matched = Matched(disk, opts)
    BY <1>5 DEF Discover, Discovered
  <2> QED BY <2>1 DEF ReadRightly, ReadSoFar, world, opts, AfterParse, AfterWalk, AfterLocks, AfterConclude
<1>6. CASE ParseSources
  <2>1. /\ phase = "parse" /\ phase' = "walk" /\ UNCHANGED <<world, report>>
        /\ model'.sources = SourcesOf(disk, report)
    BY <1>6, Parsing DEF ParseSources
  <2> QED BY <2>1 DEF ReadRightly, ReadSoFar, world, opts, AfterDiscover, AfterParse, AfterWalk, AfterLocks,
                      AfterConclude
<1>7. CASE Walk
  <2>1. phase = "walk" /\ phase' = "lockfiles" /\ UNCHANGED <<world, report>>
    BY <1>7 DEF Walk
  <2> QED BY <1>7, <2>1, WalkReads DEF ReadRightly, ReadSoFar, world, opts, AfterDiscover, AfterParse,
          AfterWalk, AfterLocks, AfterConclude
<1>8. CASE ReadLockfiles
  <2>1. phase = "lockfiles" /\ phase' = "runtimes" /\ UNCHANGED <<world, report>>
    BY <1>8 DEF ReadLockfiles
  <2> QED BY <1>8, <2>1, LocksRead DEF Surveys, ReadRightly, ReadSoFar, world, opts, AfterDiscover,
          AfterParse, AfterWalk, AfterLocks, AfterConclude
<1>9. CASE ReadRuntimes \/ Conclude \/ Bind
  <2>1. /\ phase \in {"runtimes", "conclude", "bind"} /\ UNCHANGED <<world, report>>
        /\ phase' \in {"conclude", "bind", "resolve", "threw"}
        /\ phase' \in AfterConclude /\ ~Conclude => phase \in AfterConclude
    BY <1>9 DEF ReadRuntimes, Conclude, Bind, AfterConclude
  <2>2. disk = setup.disk => ReadSoFar'
    BY <1>9, <2>1, RestReads DEF Surveys, ReadRightly, ReadSoFar, world, opts, AfterDiscover,
       AfterParse, AfterWalk, AfterLocks, AfterConclude
  <2>3. phase' \in AfterConclude => AllConcluded'
    <3>1. CASE Conclude
      BY <3>1, ConcludeConcludes
    <3>2. CASE ~Conclude
      BY <1>9, <2>1, <3>2, RestReads, ConclusionsStay DEF ReadRightly
    <3> QED BY <3>1, <3>2
  <2> QED BY <2>1, <2>2, <2>3 DEF ReadRightly, world
<1> QED
  BY <1>1, <1>2, <1>3, <1>4, <1>5, <1>6, <1>7, <1>8, <1>9 DEF Next, Step

\* Every operation changes a file that is among the sources.
LEMMA OpsFiledStep ==
  ASSUME Sourced, OpsFiled, [Next]_vars
  PROVE  OpsFiled'
<1>1. CASE Decide
  <2>1. model' = model /\ phase' = "evaluate"
    BY <1>1 DEF Decide, read
  <2>2. ASSUME NEW id \in DOMAIN ops' PROVE \E s \in model.sources : s.file = ops'[id].file
    <3>1. id \in IdsOf(model.occs) /\ ops'[id] = OperationOf(WithId(model.occs, id))
      BY <1>1 DEF Decide
    <3>2. WithId(model.occs, id) \in model.occs /\ ops'[id].file = WithId(model.occs, id).file
      BY <3>1, WithIdIs DEF OperationOf
    <3> QED BY <3>2 DEF Sourced
  <2> QED BY <2>1, <2>2 DEF OpsFiled, Evaluated
<1>2. CASE Block
  BY <1>2 DEF Block, Restrict, OpsFiled, read, Evaluated
<1>3. CASE Settle \/ Execute \/ Check \/ Edit \/ UNCHANGED vars
  <2>1. UNCHANGED <<ops, model>> /\ (Evaluated => Evaluated')
    BY <1>3 DEF Settle, Execute, Check, Edit, vars, drawn, read, Evaluated
  <2> QED BY <2>1 DEF OpsFiled
<1>4. CASE CheckOptions \/ Discover \/ ParseSources \/ Walk \/ ReadLockfiles \/ ReadRuntimes
             \/ Conclude \/ Bind \/ Resolve
  <2>1. ops' = ops /\ ~Evaluated
    BY <1>4 DEF CheckOptions, Discover, ParseSources, Walk, ReadLockfiles, ReadRuntimes, Conclude, Bind,
                Resolve, drawn, Evaluated
  <2> QED BY <2>1 DEF OpsFiled
<1> QED BY <1>1, <1>2, <1>3, <1>4 DEF Next, Step

\* What a ready execution promises, of every operation.
Exact ==
  \A id \in DOMAIN ops : \E t \in execution.targets :
    t.boundary = Nearest(ops[id].file[1]) /\ Managed(t) /\ Lockfiled(t)
\* When the property asks for it.
Asks == disk = setup.disk /\ ~OneLetter /\ execution.mode # "file-only" /\ execution.status = "ready"

\* The property, in these terms.
LEMMA ExactIs ==
  ExecutionIsExact <=> (phase \in {"check", "returned", "refused"} /\ Asks => Exact)
BY Zenon DEF ExecutionIsExact, Exact, Asks, Managed, Lockfiled

\* The fields of an execution.
LEMMA ExecutionFields ==
  \A s, r, t, a, v : /\ Execution(s, r, t, a, v).mode = Mode /\ Execution(s, r, t, a, v).status = s
                     /\ Execution(s, r, t, a, v).targets = t
BY DEF Execution

\* An execution that is ready is exact when it is drawn up.
LEMMA ExecuteIsExact ==
  ASSUME ReadRightly, OpsFiled, Execute, Asks'
  PROVE  Exact'
<1>1. UNCHANGED <<world, report, model, ops>> /\ phase = "execute"
  BY DEF Execute, read, drawn
<1>2. disk = setup.disk /\ ~OneLetter
  BY <1>1 DEF Asks, OneLetter, world
<1>3. Surveyed /\ AllConcluded
  BY <1>1, <1>2 DEF ReadRightly, ReadSoFar, Surveyed, AfterDiscover, AfterParse, AfterWalk, AfterLocks,
     AfterConclude
<1>4. \/ Mode = "file-only" /\ \E r, t, a, v : execution' = Execution("ready", r, t, a, v)
      \/ \E r, t, a, v : execution' = Execution("not-needed", r, t, a, v)
      \/ Obstacles(Draft) = {} /\ execution' = Ready
      \/ \E r, t, a, v : execution' = Execution("blocked", r, t, a, v)
  BY Zenon DEF Execute
<1>5. Obstacles(Draft) = {} /\ execution' = Ready
  <2>1. execution'.mode # "file-only" /\ execution'.status = "ready"
    BY DEF Asks
  <2>2. ASSUME NEW s, NEW r, NEW t, NEW a, NEW v, execution' = Execution(s, r, t, a, v)
        PROVE  Mode # "file-only" /\ s = "ready"
    BY <2>1, <2>2, ExecutionFields
  <2>3. ~(Mode = "file-only" /\ \E r, t, a, v : execution' = Execution("ready", r, t, a, v))
    BY <2>2, Zenon
  <2>4. ASSUME NEW s, s # "ready"
        PROVE  ~(\E r, t, a, v : execution' = Execution(s, r, t, a, v))
    BY <2>2, <2>4, Zenon
  <2>5. "not-needed" # "ready" /\ "blocked" # "ready"
    OBVIOUS
  <2> QED BY <1>4, <2>3, <2>4, <2>5, Zenon
<1>6. execution'.targets = {TargetOf(dir) : dir \in Targeted}
  BY <1>5 DEF Ready, Execution
<1>7. ASSUME NEW id \in DOMAIN ops
      PROVE  \E t \in execution'.targets :
               t.boundary = Nearest(ops[id].file[1]) /\ Managed(t) /\ Lockfiled(t)
  <2>1. PICK s \in model.sources : s.file = ops[id].file
    BY DEF OpsFiled
  <2> QED BY <1>2, <1>3, <1>5, <1>6, <2>1, ReadyIsExact
<1>8. \A d : Nearest(d)' = Nearest(d)
  BY <1>1 DEF Nearest, Marks, DeclaresWorkspaces, world
<1>9. \A d : Declaring(d)' = Declaring(d) /\ Locks(d)' = Locks(d)
  BY <1>1, <1>8 DEF Declaring, Locks, IsLock, world
<1>10. ASSUME NEW t PROVE Managed(t)' = Managed(t) /\ Lockfiled(t)' = Lockfiled(t)
  BY <1>1, <1>9 DEF Managed, Lockfiled, Declared, world
<1> QED BY <1>1, <1>7, <1>8, <1>10 DEF Exact

\* The inductive invariant of the execution.
ExactInvariant == Sourced /\ ReadRightly /\ OpsFiled /\ ExecutionIsExact

\* From the execution on nothing it rests on changes.
LEMMA ExactStays ==
  ASSUME ExecutionIsExact, UNCHANGED <<world, report, ops, execution>>,
         phase \in {"check", "returned", "refused"} \/ phase' \notin {"check", "returned", "refused"}
  PROVE  ExecutionIsExact'
<1>1. \A d : Nearest(d)' = Nearest(d)
  BY DEF Nearest, Marks, DeclaresWorkspaces, world
<1>2. \A d : Declaring(d)' = Declaring(d) /\ Locks(d)' = Locks(d)
  BY <1>1 DEF Declaring, Locks, IsLock, world
<1>3. ASSUME NEW t PROVE Managed(t)' = Managed(t) /\ Lockfiled(t)' = Lockfiled(t)
  BY <1>2 DEF Managed, Lockfiled, Declared, world
<1>4. Asks' = Asks
  BY DEF Asks, OneLetter, world
<1>5. Exact => Exact'
  BY <1>1, <1>3 DEF Exact
<1>6. ExecutionIsExact' <=> (phase' \in {"check", "returned", "refused"} /\ Asks' => Exact')
  BY Zenon DEF ExecutionIsExact, Exact, Asks, Managed, Lockfiled
<1> QED BY <1>4, <1>5, <1>6, ExactIs

\* Every step keeps the property.
LEMMA ExactStep ==
  ASSUME ExactInvariant, [Next]_vars
  PROVE  ExecutionIsExact'
<1>1. ExecutionIsExact' <=> (phase' \in {"check", "returned", "refused"} /\ Asks' => Exact')
  BY Zenon DEF ExecutionIsExact, Exact, Asks, Managed, Lockfiled
<1>2. CASE Execute
  BY <1>1, <1>2, ExecuteIsExact DEF ExactInvariant
<1>3. CASE Check \/ UNCHANGED vars
  <2>1. UNCHANGED <<world, report, ops, execution>>
        /\ (phase \in {"check", "returned", "refused"} \/ phase' \notin {"check", "returned", "refused"})
    BY <1>3 DEF Check, vars, read, drawn
  <2> QED BY <2>1, ExactStays DEF ExactInvariant
<1>4. CASE Edit \/ CheckOptions \/ Discover \/ ParseSources \/ Walk \/ ReadLockfiles \/ ReadRuntimes
             \/ Conclude \/ Bind \/ Resolve \/ Decide \/ Block \/ Settle
  <2>1. phase' \notin {"check", "returned", "refused"}
    BY <1>4 DEF Edit, Reading, CheckOptions, Discover, ParseSources, Walk, ReadLockfiles, ReadRuntimes,
                Conclude, Bind, Resolve, Decide, Block, Settle
  <2> QED BY <1>1, <2>1
<1> QED BY <1>2, <1>3, <1>4 DEF Next, Step

\* A ready execution (buildPlanExecution) runs a manager only where the disk that was
\* read leaves no doubt which, of which version and on which one lockfile, for every
\* tree of directories, every set of files and links, and any that cannot be read.
THEOREM ExactAlways == Spec => []ExecutionIsExact
<1>1. Init => ReadRightly /\ OpsFiled /\ ExecutionIsExact
  <2>1. ASSUME Init PROVE ReadRightly /\ OpsFiled
    BY <2>1 DEF Init, ReadRightly, ReadSoFar, OpsFiled, Evaluated, AfterDiscover, AfterParse, AfterWalk,
       AfterLocks, AfterConclude
  <2>2. Init => ExecutionIsExact
    BY ExactIs DEF Init
  <2> QED BY <2>1, <2>2
<1>2. Sourced /\ Sourced' /\ ReadRightly /\ OpsFiled /\ ExecutionIsExact /\ [Next]_vars
        => ReadRightly' /\ OpsFiled' /\ ExecutionIsExact'
  <2> SUFFICES ASSUME Sourced, ReadRightly, OpsFiled, ExecutionIsExact, [Next]_vars
               PROVE  ReadRightly' /\ OpsFiled' /\ ExecutionIsExact'
    OBVIOUS
  <2>1. ReadRightly'
    BY ReadingStep DEF Sourced
  <2> QED BY <2>1, OpsFiledStep, ExactStep DEF ExactInvariant
<1> QED BY <1>1, <1>2, SourcedAlways, PTL DEF Spec
=============================================================================
