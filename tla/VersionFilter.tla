------------------------------ MODULE VersionFilter ------------------------------
(***************************************************************************)
(* The choice of the version a dependency moves to: the filters of         *)
(* io/resolve/version-filter.ts, the shapes a value may have               *)
(* (utils/versions.ts), and what resolveDependency makes of the choice.    *)
(*                                                                         *)
(* A version is its place in Releases, the versions of all packages in the *)
(* order of semver; channel "" is a stable one.  A value of a manifest is  *)
(* a shape and the version it spells: an exact version, one behind =, ^ or *)
(* ~, an x-range (which spells its floor), a range of another form, the    *)
(* name of a dist-tag, or a text that is none of these.  What the registry *)
(* says of a package are the sets of its published versions, of those that *)
(* are deprecated, too recent or of no known time, and its two tags        *)
(* (0 for none).                                                           *)
(***************************************************************************)
EXTENDS Integers, Sequences, FiniteSets

CONSTANT Releases  \* a sequence of [major, minor, patch, channel]

Versions == DOMAIN Releases

Exact    == {"exact", "eq"}
XRanges  == {"xmajor", "xminor"}
Simple   == Exact \cup {"caret", "tilde"}
Tags     == {"latest", "next"}
Shapes   == Simple \cup XRanges \cup {"complex", "invalid"} \cup Tags

Major(v) == Releases[v].major
Minor(v) == Releases[v].minor
Stable(v) == Releases[v].channel = ""

\* semver.compare: a prerelease comes before the release of its core.
Before(r, s) ==
  \/ r.major < s.major
  \/ r.major = s.major /\ r.minor < s.minor
  \/ r.major = s.major /\ r.minor = s.minor /\ r.patch < s.patch
  \/ r.major = s.major /\ r.minor = s.minor /\ r.patch = s.patch /\ r.channel # ""

\* The version an x-range spells.
Floor(major, minor) == [major |-> major, minor |-> minor, patch |-> 0, channel |-> ""]

\* The releases are in order, and with them are those that x-ranges spell; no
\* x-range moves to major 0.
ASSUME ReleasesAssumption ==
  /\ Releases \in Seq([major : Nat, minor : Nat, patch : Nat, channel : STRING])
  /\ \A v, w \in Versions : v < w => Before(Releases[v], Releases[w])
  /\ \A v \in Versions :
       /\ \E w \in Versions : Releases[w] = Floor(Major(v), Minor(v))
       /\ Major(v) > 0 => \E w \in Versions : Releases[w] = Floor(Major(v), 0)

\* The values of manifests, and what is known of a package.
Specs ==
  {spec \in [shape : Shapes, at : Versions] :
     /\ spec.shape = "xmajor" => Releases[spec.at] = Floor(Major(spec.at), 0)
     /\ spec.shape = "xminor" => Releases[spec.at] = Floor(Major(spec.at), Minor(spec.at))}
RegistryFacts ==
  [published : SUBSET Versions, deprecated : SUBSET Versions, recent : SUBSET Versions,
   undated : SUBSET Versions, latest : Versions \cup {0}, next : Versions \cup {0}]

Top(versions) == CHOOSE v \in versions : \A w \in versions : w <= v

SameCore(v, w) ==
  Major(v) = Major(w) /\ Minor(v) = Minor(w) /\ Releases[v].patch = Releases[w].patch

\* semver.satisfies: a prerelease only counts beside one of the same core that
\* the range spells.
Satisfies(v, spec) ==
  LET floor == spec.at
      SameLeft == /\ Major(v) = Major(floor)
                  /\ Major(floor) = 0 => Minor(v) = Minor(floor)
                  /\ Major(floor) = 0 /\ Minor(floor) = 0 => SameCore(v, floor)
  IN /\ v >= floor
     /\ Stable(v) \/ (~Stable(floor) /\ SameCore(v, floor))
     /\ CASE spec.shape \in Exact -> v = floor
          [] spec.shape = "caret" -> SameLeft
          [] spec.shape \in {"tilde", "xminor"} ->
               Major(v) = Major(floor) /\ Minor(v) = Minor(floor)
          [] spec.shape = "xmajor" -> Major(v) = Major(floor)

\* rebuildXRange and applyVersionPrefix: the shape is kept.
Rewritten(spec, v) ==
  CASE spec.shape \in Simple -> [spec EXCEPT !.at = v]
    [] spec.shape = "xmajor" ->
         [spec EXCEPT !.at = CHOOSE w \in Versions : Releases[w] = Floor(Major(v), 0)]
    [] spec.shape = "xminor" ->
         [spec EXCEPT !.at = CHOOSE w \in Versions : Releases[w] = Floor(Major(v), Minor(v))]

\* getDiff
Diff(v, w) ==
  CASE v = w -> "none"
    [] v # w /\ Major(v) # Major(w) -> "major"
    [] v # w /\ Major(v) = Major(w) /\ Minor(v) # Minor(w) -> "minor"
    [] OTHER -> "patch"

----------------------------------------------------------------------------
(* selectVersionCandidate *)

Removed(before, after, current) == \E v \in before \ after : v > current

\* filterByChannel
OfChannel(versions, current) ==
  {v \in versions : Stable(v) \/ (~Stable(current)
                                    /\ Releases[v].channel = Releases[current].channel)}

\* The tag a mode looks at.
TagOf(mode, registry) ==
  IF mode = "next" /\ registry.next # 0 THEN registry.next ELSE registry.latest

\* filterByDistTag
Tagged(tag, versions) ==
  CASE tag = 0 -> [versions |-> {}, reason |-> "DIST_TAG_MISSING"]
    [] tag # 0 /\ tag \notin versions -> [versions |-> {}, reason |-> "DIST_TAG_NOT_ELIGIBLE"]
    [] OTHER -> [versions |-> {tag}, reason |-> "MODE_NO_MATCH"]

\* filterDefaultMode; a value of another form never comes here.
InDefaultMode(spec, registry, versions, includeLocked) ==
  LET within == {v \in versions : Satisfies(v, spec)} IN
  CASE spec.shape \in Exact ->
         [versions |-> IF includeLocked THEN versions ELSE versions \cap {spec.at},
          reason |-> "MODE_NO_MATCH"]
    [] spec.shape \notin Exact /\ within # {} ->
         [versions |-> within, reason |-> "MODE_NO_MATCH"]
    [] OTHER -> Tagged(registry.latest, versions)

\* filterByMode
InMode(mode, spec, registry, versions, includeLocked) ==
  LET Only(set) == [versions |-> set, reason |-> "MODE_NO_MATCH"] IN
  CASE mode \in {"latest", "next"}   -> Tagged(TagOf(mode, registry), versions)
    [] mode \in {"newest", "major"}  -> Only(versions)
    [] mode = "minor"  -> Only({v \in versions : Major(v) = Major(spec.at)})
    [] mode = "patch"  -> Only({v \in versions : Major(v) = Major(spec.at)
                                                   /\ Minor(v) = Minor(spec.at)})
    [] mode = "ignore" -> Only({})
    [] OTHER -> InDefaultMode(spec, registry, versions, includeLocked)

\* wasDistTagBlockedByChannel
TagOffChannel(mode, registry, versions) ==
  /\ mode \in {"latest", "next"} /\ TagOf(mode, registry) # 0
  /\ TagOf(mode, registry) \in registry.published \ versions

\* Mutant: a deprecated version passes.
LiveOnes(registry, versions, current) == versions

Live(registry, versions, current) ==
  IF current \in registry.deprecated THEN versions ELSE versions \ registry.deprecated

Mature(registry, versions, cooldown) ==
  IF cooldown THEN versions \ (registry.recent \cup registry.undated) ELSE versions

\* The reason filterByMaturity has for removing an upgrade.
Immature(registry, versions, cooldown, current) ==
  LET Upgrade(set) == cooldown /\ \E v \in versions \cap set : v > current IN
  CASE Upgrade(registry.undated) -> "MISSING_PUBLISH_TIME"
    [] ~Upgrade(registry.undated) /\ Upgrade(registry.recent) -> "MATURITY_CANDIDATE_BLOCKED"
    [] OTHER -> "none"

Choice(target, eligible, reason) == [target |-> target, eligible |-> eligible, reason |-> reason]

Stop(reason) == Choice(0, {}, reason)

\* The filters one after the other, from the last to the first; each one that
\* leaves nothing has its reason.  x is the question: value, registry, mode, opts.
Chosen(x, eligible, blocking) ==
  CASE eligible = {} -> Stop("DOWNGRADE_BLOCKED")
    [] eligible # {} /\ Top(eligible) = x.spec.at -> Choice(0, eligible, blocking)
    [] OTHER -> Choice(Top(eligible), eligible, "SELECTED")

OfMature(x, live, mature, blocking) ==
  LET maturity == Immature(x.registry, live, x.opts.cooldown, x.spec.at) IN
  CASE mature = {} /\ live \cap x.registry.undated # {} -> Stop("MISSING_PUBLISH_TIME")
    [] mature = {} /\ live \cap x.registry.undated = {} -> Stop("MATURITY_CANDIDATE_BLOCKED")
    [] OTHER -> Chosen(x, {v \in mature : v >= x.spec.at},
                       IF maturity = "none" THEN blocking ELSE maturity)

OfLive(x, moded, live, blocking) ==
  IF live = {} THEN Stop("DEPRECATED_CANDIDATE_BLOCKED")
  ELSE OfMature(x, live, Mature(x.registry, live, x.opts.cooldown),
                IF Removed(moded, live, x.spec.at) THEN "DEPRECATED_CANDIDATE_BLOCKED"
                ELSE blocking)

OfMode(x, channel, moded, blocking) ==
  CASE moded.versions = {} /\ TagOffChannel(x.mode, x.registry, channel) ->
         Stop("PRERELEASE_CHANNEL_BLOCKED")
    [] moded.versions = {} /\ ~TagOffChannel(x.mode, x.registry, channel) -> Stop(moded.reason)
    [] OTHER -> OfLive(x, moded.versions, Live(x.registry, moded.versions, x.spec.at), blocking)

InChannel(x, channel) ==
  IF channel = {} THEN Stop("PRERELEASE_CHANNEL_BLOCKED")
  ELSE OfMode(x, channel,
              InMode(x.mode, x.spec, x.registry, channel, x.opts.includeLocked),
              IF Removed(x.registry.published, channel, x.spec.at)
              THEN "PRERELEASE_CHANNEL_BLOCKED" ELSE "CURRENT_VERSION_SELECTED")

Select(spec, registry, mode, opts) ==
  CASE spec.shape \notin Simple \cup XRanges -> Stop("CURRENT_VERSION_INVALID")
    [] spec.shape \in Simple \cup XRanges /\ registry.published = {} -> Stop("NO_VALID_VERSIONS")
    [] OTHER -> InChannel([spec |-> spec, registry |-> registry, mode |-> mode, opts |-> opts],
                          OfChannel(registry.published, spec.at))

----------------------------------------------------------------------------
(* What resolveDependency makes of it *)

\* candidateTraceStatus
StatusOf(reason) ==
  CASE reason \in {"CURRENT_VERSION_SELECTED", "MODE_NO_MATCH"} -> "unchanged"
    [] reason = "CURRENT_VERSION_INVALID" -> "skipped"
    [] reason \in {"PRERELEASE_CHANNEL_BLOCKED", "DEPRECATED_CANDIDATE_BLOCKED",
                   "MATURITY_CANDIDATE_BLOCKED", "DOWNGRADE_BLOCKED"} -> "blocked"
    [] OTHER -> "unknown"

Trace(status, reason, spec) == [status |-> status, reason |-> reason, to |-> spec, diff |-> "none"]

\* Mutant: a range that admits the target is rewritten all the same.
AimedAlways(spec, target, rewritten, opts) ==
  [status |-> "selected", reason |-> "SELECTED", to |-> rewritten, diff |-> Diff(spec.at, target)]

\* A target that was found.
Aimed(spec, target, rewritten, opts) ==
  CASE spec.shape \in XRanges /\ Satisfies(target, spec) ->
         Trace("unchanged", "RANGE_ALREADY_SATISFIES_TARGET", spec)
    [] (spec.shape \notin XRanges \/ ~Satisfies(target, spec)) /\ rewritten = spec ->
         Trace("unchanged", "CURRENT_VALUE_SELECTED", spec)
    [] OTHER -> IF Diff(spec.at, target) = "none" /\ ~opts.force
                THEN Trace("unchanged", "NO_SEMANTIC_CHANGE", spec)
                ELSE [status |-> "selected", reason |-> "SELECTED", to |-> rewritten,
                      diff |-> Diff(spec.at, target)]

Answered(spec, choice, opts) ==
  IF choice.target = 0 THEN Trace(StatusOf(choice.reason), choice.reason, spec)
  ELSE Aimed(spec, choice.target, Rewritten(spec, choice.target), opts)

\* What comes of a dependency: its new value, or why it keeps the one it has.
Verdict(spec, registry, mode, opts) ==
  LET tagged == \/ spec.shape = "latest" /\ registry.latest # 0
                \/ spec.shape = "next" /\ registry.next # 0
  IN CASE mode = "ignore" -> Trace("skipped", "MODE_IGNORED", spec)
       [] mode # "ignore" /\ tagged -> Trace("skipped", "DYNAMIC_DIST_TAG", spec)
       [] mode # "ignore" /\ spec.shape = "complex" ->
            Trace("skipped", "COMPLEX_RANGE_UNSUPPORTED", spec)
       [] OTHER -> Answered(spec, Select(spec, registry, mode, opts), opts)
=============================================================================
