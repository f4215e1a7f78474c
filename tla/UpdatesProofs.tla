----------------------------- MODULE UpdatesProofs -----------------------------
(***************************************************************************)
(* Proofs about Updates, for every repository, registry and sequence of    *)
(* checks: the version that is chosen is the best one that every filter    *)
(* admits, what is written is what was chosen, what is told of it is true, *)
(* and the options of a run mean what is documented of them.               *)
(*                                                                         *)
(* The filters come first: what they leave is described by one set, and a  *)
(* choice is its highest version.  Then the value that is written, the     *)
(* hand-over to the apply engine, and an invariant that carries all this   *)
(* from the policy's decision to the last value told.  Then the decision   *)
(* itself: the rules that options are compiled to, in their order, against *)
(* the reading of the options layer by layer.  Last, checks repeated until *)
(* they come to rest.                                                      *)
(***************************************************************************)
EXTENDS Updates, TLAPS, WellFoundedInduction

----------------------------------------------------------------------------
(* Versions *)

\* Versions are the numbers from one on; what a release is made of has its types.
LEMMA ReleasesTyped ==
  /\ Versions \subseteq Nat \ {0}
  /\ \E n \in Nat : Versions = 1..n
  /\ \A v \in Versions : /\ Major(v) \in Nat /\ Minor(v) \in Nat
                         /\ Releases[v].patch \in Nat
                         /\ Stable(v) \in BOOLEAN
<1> DEFINE R == [major : Nat, minor : Nat, patch : Nat, channel : STRING]
<1>0. Releases \in Seq(R)
  BY ReleasesAssumption
<1> HIDE DEF R
<1>1. PICK n \in Nat : n = Len(Releases) /\ Versions = 1..n
  BY <1>0 DEF Versions
<1>2. \A v \in Versions : Releases[v] \in R
  BY <1>0 DEF Versions
<1> USE DEF R
<1>3. QED
  BY <1>1, <1>2 DEF Major, Minor, Stable

\* A set of numbers that holds one holds a least one.
LEMMA LeastNat ==
  ASSUME NEW S \in SUBSET Nat, S # {}
  PROVE  \E m \in S : \A k \in S : m <= k
<1> DEFINE less == {p \in Nat \X Nat : p[1] < p[2]}
<1>1. IsWellFoundedOn(less, Nat)
  BY NatLessThanWellFounded DEF OpToRel
<1>2. PICK m \in S : \A k \in S : ~(<<k, m>> \in less)
  <2> HIDE DEF less
  <2>1. QED
    BY <1>1, WFMin
<1>3. \A k \in S : k < m => <<k, m>> \in less
  OBVIOUS
<1> HIDE DEF less
<1>4. \A k \in S : ~(k < m)
  BY <1>2, <1>3
<1>5. QED
  BY <1>2, <1>4

\* Top of some versions is the highest of them.
LEMMA TopIs ==
  ASSUME NEW S \in SUBSET Versions, S # {}
  PROVE  Top(S) \in S /\ \A w \in S : w <= Top(S)
<1>1. PICK n \in Nat : Versions = 1..n
  BY ReleasesTyped
<1> DEFINE above == {k \in Nat : \A w \in S : w <= k}
<1>2. n \in above
  BY <1>1
<1>3. PICK m \in above : \A k \in above : m <= k
  <2>1. above \in SUBSET Nat
    OBVIOUS
  <2> HIDE DEF above
  <2>2. QED
    BY <1>2, <2>1, LeastNat
<1>4. m \in S
  <2>1. SUFFICES ASSUME m \notin S PROVE FALSE
    OBVIOUS
  <2>2. S \subseteq Nat \ {0} /\ m \in Nat
    BY ReleasesTyped
  <2>7. \A w \in S : w <= m
    BY <1>3
  <2>3. \A w \in S : w <= m - 1
    BY <2>1, <2>2, <2>7
  <2>4. m # 0
    <3>1. PICK w : w \in S
      OBVIOUS
    <3>2. w \in Nat /\ w # 0 /\ w <= m
      BY <2>2, <2>7, <3>1
    <3>3. QED
      BY <2>2, <3>2
  <2>5. m - 1 \in above
    BY <2>2, <2>3, <2>4
  <2>6. QED
    BY <1>3, <2>2, <2>5
<1>5. \E v \in S : \A w \in S : w <= v
  BY <1>4
<1>6. QED
  BY <1>5 DEF Top

----------------------------------------------------------------------------
(* The choice of a version *)

\* The versions that the mode, the deprecations and the cooldown leave.
Left(spec, reg, mode, opts) ==
  LET channel == OfChannel(reg.published, spec.at)
      moded == InMode(mode, spec, reg, channel, opts.includeLocked).versions
  IN {v \in Mature(reg, Live(reg, moded, spec.at), opts.cooldown) : v >= spec.at}

\* A choice is the highest version that is left, if that is above the value; else
\* nothing that is left is.
Reaches(spec, left, choice) ==
  /\ choice.target # 0 => choice.target \in left /\ choice.target > spec.at
  /\ \A v \in left : v <= IF choice.target = 0 THEN spec.at ELSE choice.target

\* The last filter: of what is left it takes the highest.
LEMMA ChosenReaches ==
  ASSUME NEW x, x.spec \in Specs, NEW e \in SUBSET Versions, NEW blocking,
         \A v \in e : v >= x.spec.at
  PROVE  Reaches(x.spec, e, Chosen(x, e, blocking))
<1>0. x.spec.at \in Nat /\ e \subseteq Nat \ {0}
  BY ReleasesTyped DEF Specs
<1>1. CASE e = {}
  BY <1>1 DEF Chosen, Reaches, Stop, Choice
<1>2. CASE e # {} /\ Top(e) = x.spec.at
  <2>1. \A w \in e : w <= x.spec.at
    BY <1>2, TopIs
  <2>2. Chosen(x, e, blocking).target = 0
    BY <1>2 DEF Chosen, Choice
  <2>3. QED
    BY <2>1, <2>2 DEF Reaches
<1>3. CASE e # {} /\ Top(e) # x.spec.at
  <2>1. Top(e) \in e /\ \A w \in e : w <= Top(e)
    BY <1>3, TopIs
  <2>2. Chosen(x, e, blocking).target = Top(e)
    BY <1>3 DEF Chosen, Choice
  <2>5. Top(e) >= x.spec.at /\ Top(e) # x.spec.at /\ Top(e) \in Nat
    BY <1>0, <1>3, <2>1
  <2>3. Top(e) > x.spec.at
    BY <1>0, <2>5
  <2>4. QED
    BY <1>0, <2>1, <2>2, <2>3 DEF Reaches
<1>4. QED
  BY <1>1, <1>2, <1>3

\* A filter that left nothing.
LEMMA StopReaches ==
  ASSUME NEW spec, NEW reason PROVE Reaches(spec, {}, Stop(reason))
BY DEF Reaches, Stop, Choice

\* A mode adds no version.
LEMMA ModeNarrows ==
  ASSUME NEW mode, NEW spec, NEW reg, NEW versions, NEW locked
  PROVE  InMode(mode, spec, reg, versions, locked).versions \subseteq versions
<1>1. \A tag : Tagged(tag, versions).versions \subseteq versions
  BY DEF Tagged
<1>2. InDefaultMode(spec, reg, versions, locked).versions \subseteq versions
  <2> DEFINE within == {v \in versions : Satisfies(v, spec)}
  <2>1. InDefaultMode(spec, reg, versions, locked) =
          CASE spec.shape \in Exact ->
                 [versions |-> IF locked THEN versions ELSE versions \cap {spec.at},
                  reason |-> "MODE_NO_MATCH"]
            [] spec.shape \notin Exact /\ within # {} ->
                 [versions |-> within, reason |-> "MODE_NO_MATCH"]
            [] OTHER -> Tagged(reg.latest, versions)
    BY DEF InDefaultMode
  <2>2. within \subseteq versions
    OBVIOUS
  <2> HIDE DEF within
  <2>3. QED
    BY <1>1, <2>1, <2>2
<1>3. CASE mode \in {"latest", "next", "newest", "major", "minor", "patch", "ignore"}
  BY <1>1, <1>3 DEF InMode
<1>4. CASE mode \notin {"latest", "next", "newest", "major", "minor", "patch", "ignore"}
  <2>1. InMode(mode, spec, reg, versions, locked) = InDefaultMode(spec, reg, versions, locked)
    BY <1>4 DEF InMode
  <2>2. QED
    BY <1>2, <2>1
<1>5. QED
  BY <1>3, <1>4

\* From the cooldown on.
LEMMA OfMatureReaches ==
  ASSUME NEW x, x.spec \in Specs, NEW live, NEW mature \in SUBSET Versions, NEW blocking
  PROVE  Reaches(x.spec, {v \in mature : v >= x.spec.at}, OfMature(x, live, mature, blocking))
<1>1. CASE mature = {}
  <2>1. \E reason : OfMature(x, live, mature, blocking) = Stop(reason)
    BY <1>1 DEF OfMature
  <2>2. {v \in mature : v >= x.spec.at} = {}
    BY <1>1
  <2>3. QED
    BY <2>1, <2>2, StopReaches
<1>2. CASE mature # {}
  <2> DEFINE e == {v \in mature : v >= x.spec.at}
  <2>1. \E b : OfMature(x, live, mature, blocking) = Chosen(x, e, b)
    BY <1>2 DEF OfMature
  <2>2. e \in SUBSET Versions /\ \A v \in e : v >= x.spec.at
    OBVIOUS
  <2> HIDE DEF e
  <2>3. Reaches(x.spec, e, OfMature(x, live, mature, blocking))
    BY <2>1, <2>2, ChosenReaches
  <2>4. QED
    BY <2>3 DEF e
<1>3. QED
  BY <1>1, <1>2

\* From the deprecations on.
LEMMA OfLiveReaches ==
  ASSUME NEW x, x.spec \in Specs, NEW moded, NEW live \in SUBSET Versions, NEW blocking
  PROVE  Reaches(x.spec, {v \in Mature(x.registry, live, x.opts.cooldown) : v >= x.spec.at},
                 OfLive(x, moded, live, blocking))
<1> DEFINE mature == Mature(x.registry, live, x.opts.cooldown)
<1>1. mature \subseteq live
  BY DEF Mature
<1>2. CASE live = {}
  <2>1. OfLive(x, moded, live, blocking) = Stop("DEPRECATED_CANDIDATE_BLOCKED")
    BY <1>2 DEF OfLive
  <2>2. {v \in mature : v >= x.spec.at} = {}
    BY <1>1, <1>2
  <2>3. QED
    BY <2>1, <2>2, StopReaches
<1>3. CASE live # {}
  <2>1. \E b : OfLive(x, moded, live, blocking) = OfMature(x, live, mature, b)
    BY <1>3 DEF OfLive
  <2>2. mature \in SUBSET Versions
    BY <1>1
  <2> HIDE DEF mature
  <2>3. Reaches(x.spec, {v \in mature : v >= x.spec.at}, OfLive(x, moded, live, blocking))
    BY <2>1, <2>2, OfMatureReaches
  <2>4. QED
    BY <2>3 DEF mature
<1>4. QED
  BY <1>2, <1>3

\* From the mode on.
LEMMA OfModeReaches ==
  ASSUME NEW x, x.spec \in Specs, NEW channel, NEW moded, moded.versions \in SUBSET Versions,
         NEW blocking
  PROVE  Reaches(x.spec,
           {v \in Mature(x.registry, Live(x.registry, moded.versions, x.spec.at),
                         x.opts.cooldown) : v >= x.spec.at},
           OfMode(x, channel, moded, blocking))
<1> DEFINE live == Live(x.registry, moded.versions, x.spec.at)
           mature == Mature(x.registry, live, x.opts.cooldown)
<1>1. live \subseteq moded.versions /\ mature \subseteq live
  BY DEF Mature, Live
<1>2. CASE moded.versions = {}
  <2>1. \E reason : OfMode(x, channel, moded, blocking) = Stop(reason)
    BY <1>2 DEF OfMode
  <2>2. {v \in mature : v >= x.spec.at} = {}
    BY <1>1, <1>2
  <2>3. QED
    BY <2>1, <2>2, StopReaches
<1>3. CASE moded.versions # {}
  <2>1. OfMode(x, channel, moded, blocking) = OfLive(x, moded.versions, live, blocking)
    BY <1>3 DEF OfMode
  <2>2. live \in SUBSET Versions
    BY <1>1
  <2> HIDE DEF live
  <2>3. Reaches(x.spec, {v \in Mature(x.registry, live, x.opts.cooldown) : v >= x.spec.at},
                OfMode(x, channel, moded, blocking))
    BY <2>1, <2>2, OfLiveReaches
  <2>4. QED
    BY <2>3 DEF live
<1>4. QED
  BY <1>2, <1>3

\* What the filters leave is what is chosen from: its highest, if above the value.
LEMMA SelectReaches ==
  ASSUME NEW spec \in Specs, NEW reg \in RegistryFacts, NEW mode, NEW opts,
         spec.shape \in Simple \cup XRanges
  PROVE  Reaches(spec, Left(spec, reg, mode, opts), Select(spec, reg, mode, opts))
<1> DEFINE x == [spec |-> spec, registry |-> reg, mode |-> mode, opts |-> opts]
           channel == OfChannel(reg.published, spec.at)
           moded == InMode(mode, spec, reg, channel, opts.includeLocked)
           left == {v \in Mature(reg, Live(reg, moded.versions, spec.at), opts.cooldown) :
                      v >= spec.at}
<1>0. Left(spec, reg, mode, opts) = left
  BY DEF Left
<1>1. channel \subseteq reg.published /\ reg.published \subseteq Versions
  BY DEF OfChannel, RegistryFacts
<1>2. moded.versions \subseteq channel
  BY ModeNarrows
<1>3. left \subseteq moded.versions
  BY DEF Mature, Live
<1>4. CASE channel = {}
  <2>1. left = {}
    BY <1>2, <1>3, <1>4
  <2>2. \E reason : Select(spec, reg, mode, opts) = Stop(reason)
    BY <1>4 DEF Select, InChannel
  <2>3. QED
    BY <1>0, <2>1, <2>2, StopReaches
<1>5. CASE channel # {}
  <2>1. x.spec = spec /\ x.registry = reg /\ x.opts = opts /\ x.mode = mode
    OBVIOUS
  <2>2. Select(spec, reg, mode, opts) = InChannel(x, channel)
    BY <1>1, <1>5 DEF Select
  <2> HIDE DEF x
  <2>3. PICK b : Select(spec, reg, mode, opts) = OfMode(x, channel, moded, b)
    BY <1>5, <2>1, <2>2 DEF InChannel
  <2>4. moded.versions \in SUBSET Versions
    BY <1>1, <1>2
  <2> HIDE DEF moded, channel
  <2>5. Reaches(x.spec,
          {v \in Mature(x.registry, Live(x.registry, moded.versions, x.spec.at),
                        x.opts.cooldown) : v >= x.spec.at},
          OfMode(x, channel, moded, b))
    BY <2>1, <2>4, OfModeReaches
  <2>6. QED
    BY <1>0, <2>1, <2>3, <2>5
<1>6. QED
  BY <1>4, <1>5

\* Where a choice leads: to its target, or nowhere.
Reached(spec, choice) == IF choice.target = 0 THEN spec.at ELSE choice.target

\* What is left is published.
LEMMA LeftVersions ==
  ASSUME NEW spec, NEW reg \in RegistryFacts, NEW mode, NEW opts
  PROVE  Left(spec, reg, mode, opts) \subseteq reg.published \cap Versions
<1> DEFINE channel == OfChannel(reg.published, spec.at)
           moded == InMode(mode, spec, reg, channel, opts.includeLocked).versions
<1>1. channel \subseteq reg.published /\ reg.published \subseteq Versions
  BY DEF OfChannel, RegistryFacts
<1>2. moded \subseteq channel
  BY ModeNarrows
<1>3. Left(spec, reg, mode, opts) \subseteq moded
  BY DEF Left, Mature, Live
<1>4. QED
  BY <1>1, <1>2, <1>3

\* A choice from fewer versions leads no further.
LEMMA Nearer ==
  ASSUME NEW spec \in Specs, NEW far \in SUBSET Versions, NEW near \in SUBSET far,
         NEW c, NEW d, Reaches(spec, near, c), Reaches(spec, far, d)
  PROVE  Reached(spec, c) <= Reached(spec, d)
<1>1. spec.at \in Nat /\ far \subseteq Nat
  BY ReleasesTyped DEF Specs
<1>2. CASE c.target = 0
  <2>1. d.target # 0 => d.target \in Nat /\ d.target > spec.at
    BY <1>1 DEF Reaches
  <2>2. QED
    BY <1>1, <1>2, <2>1 DEF Reached
<1>3. CASE c.target # 0
  <2>1. c.target \in far /\ c.target \in Nat
    BY <1>1, <1>3 DEF Reaches
  <2>2. QED
    BY <1>3, <2>1 DEF Reached, Reaches
<1>4. QED
  BY <1>2, <1>3

\* A mode that leaves less, or a cooldown, leaves less in the end.
LEMMA LeftNarrows ==
  ASSUME NEW spec, NEW reg, NEW opts, NEW m, NEW n,
         NEW c \in BOOLEAN, NEW d \in BOOLEAN, d => c,
         opts \in [includeLocked : BOOLEAN, cooldown : BOOLEAN, force : BOOLEAN],
         LET channel == OfChannel(reg.published, spec.at) IN
         InMode(m, spec, reg, channel, opts.includeLocked).versions
           \subseteq InMode(n, spec, reg, channel, opts.includeLocked).versions
  PROVE  Left(spec, reg, m, [opts EXCEPT !.cooldown = c])
           \subseteq Left(spec, reg, n, [opts EXCEPT !.cooldown = d])
<1> DEFINE channel == OfChannel(reg.published, spec.at)
           from == InMode(m, spec, reg, channel, opts.includeLocked).versions
           to == InMode(n, spec, reg, channel, opts.includeLocked).versions
<1>1. /\ [opts EXCEPT !.cooldown = c].cooldown = c
      /\ [opts EXCEPT !.cooldown = d].cooldown = d
      /\ [opts EXCEPT !.cooldown = c].includeLocked = opts.includeLocked
      /\ [opts EXCEPT !.cooldown = d].includeLocked = opts.includeLocked
  OBVIOUS
<1>2. Left(spec, reg, m, [opts EXCEPT !.cooldown = c])
        = {v \in Mature(reg, Live(reg, from, spec.at), c) : v >= spec.at}
  BY <1>1 DEF Left
<1>3. Left(spec, reg, n, [opts EXCEPT !.cooldown = d])
        = {v \in Mature(reg, Live(reg, to, spec.at), d) : v >= spec.at}
  BY <1>1 DEF Left
<1>4. from \subseteq to
  OBVIOUS
<1> HIDE DEF from, to
<1>5. Live(reg, from, spec.at) \subseteq Live(reg, to, spec.at)
  BY <1>4 DEF Live
<1>6. Mature(reg, Live(reg, from, spec.at), c) \subseteq Mature(reg, Live(reg, to, spec.at), d)
  BY <1>5 DEF Mature
<1>7. QED
  BY <1>2, <1>3, <1>6

\* patch leaves less than minor, and no mode more than major.
LEMMA ModesNarrow ==
  ASSUME NEW spec, NEW reg, NEW versions, NEW locked
  PROVE  LET Of(mode) == InMode(mode, spec, reg, versions, locked).versions IN
         /\ Of("major") = versions
         /\ Of("patch") \subseteq Of("minor") /\ Of("minor") \subseteq versions
         /\ \A mode : Of(mode) \subseteq versions
<1>1. InMode("major", spec, reg, versions, locked).versions = versions
  BY DEF InMode
<1>2. InMode("minor", spec, reg, versions, locked).versions
        = {v \in versions : Major(v) = Major(spec.at)}
  BY DEF InMode
<1>3. InMode("patch", spec, reg, versions, locked).versions
        = {v \in versions : Major(v) = Major(spec.at) /\ Minor(v) = Minor(spec.at)}
  BY DEF InMode
<1>4. QED
  BY <1>1, <1>2, <1>3, ModeNarrows

\* The first part of SelectionIsBest: the mode and the cooldown only ever narrow.
LEMMA Narrower ==
  ASSUME NEW spec \in Specs, NEW reg \in RegistryFacts, spec.shape \in Simple \cup XRanges,
         NEW opts \in [includeLocked : BOOLEAN, cooldown : BOOLEAN, force : BOOLEAN]
  PROVE  NarrowerIsNearer(spec, reg, opts)
<1> DEFINE choice == [q \in Questions |->
                        Select(spec, reg, q.mode, [opts EXCEPT !.cooldown = q.cooldown]).target]
           To(mode, cooldown) ==
             LET target == choice[[mode |-> mode, cooldown |-> cooldown]] IN
             IF target = 0 THEN spec.at ELSE target
           Far(mode, cooldown) ==
             Reached(spec, Select(spec, reg, mode, [opts EXCEPT !.cooldown = cooldown]))
           Modes == {"default", "latest", "next", "newest", "major", "minor", "patch"}
<1>1. \A mode \in Modes, cooldown \in BOOLEAN : To(mode, cooldown) = Far(mode, cooldown)
  <2>1. SUFFICES ASSUME NEW mode \in Modes, NEW cooldown \in BOOLEAN
                 PROVE  To(mode, cooldown) = Far(mode, cooldown)
    OBVIOUS
  <2> DEFINE q == [mode |-> mode, cooldown |-> cooldown]
  <2>2. q \in Questions /\ q.mode = mode /\ q.cooldown = cooldown
    BY DEF Questions
  <2> HIDE DEF q
  <2>3. choice[q] = Select(spec, reg, mode, [opts EXCEPT !.cooldown = cooldown]).target
    BY <2>2
  <2> HIDE DEF choice
  <2>4. QED
    BY <2>3 DEF Reached, q
<1>2. ASSUME NEW m, NEW n, NEW c \in BOOLEAN, NEW d \in BOOLEAN, d => c,
             LET channel == OfChannel(reg.published, spec.at) IN
             InMode(m, spec, reg, channel, opts.includeLocked).versions
               \subseteq InMode(n, spec, reg, channel, opts.includeLocked).versions
      PROVE  Far(m, c) <= Far(n, d)
  <2> DEFINE near == Left(spec, reg, m, [opts EXCEPT !.cooldown = c])
             far == Left(spec, reg, n, [opts EXCEPT !.cooldown = d])
  <2>1. near \subseteq far
    BY <1>2, LeftNarrows
  <2>2. far \in SUBSET Versions
    BY LeftVersions
  <2>3. Reaches(spec, near, Select(spec, reg, m, [opts EXCEPT !.cooldown = c]))
    BY SelectReaches
  <2>4. Reaches(spec, far, Select(spec, reg, n, [opts EXCEPT !.cooldown = d]))
    BY SelectReaches
  <2> HIDE DEF near, far
  <2>5. QED
    BY <2>1, <2>2, <2>3, <2>4, Nearer
<1>3. \A cooldown \in BOOLEAN :
        /\ Far("patch", cooldown) <= Far("minor", cooldown)
        /\ Far("minor", cooldown) <= Far("major", cooldown)
        /\ \A mode \in {"default", "latest", "next", "newest"} :
             /\ Far(mode, cooldown) <= Far("major", cooldown)
             /\ Far(mode, TRUE) <= Far(mode, FALSE)
  <2>1. SUFFICES ASSUME NEW cooldown \in BOOLEAN
                 PROVE  /\ Far("patch", cooldown) <= Far("minor", cooldown)
                        /\ Far("minor", cooldown) <= Far("major", cooldown)
                        /\ \A mode \in {"default", "latest", "next", "newest"} :
                             /\ Far(mode, cooldown) <= Far("major", cooldown)
                             /\ Far(mode, TRUE) <= Far(mode, FALSE)
    OBVIOUS
  <2> HIDE DEF Far
  <2>2. Far("patch", cooldown) <= Far("minor", cooldown)
    BY <1>2, ModesNarrow
  <2>3. \A mode : Far(mode, cooldown) <= Far("major", cooldown)
    BY <1>2, ModesNarrow
  <2>4. \A mode : Far(mode, TRUE) <= Far(mode, FALSE)
    BY <1>2
  <2>5. QED
    BY <2>2, <2>3, <2>4
<1> HIDE DEF To, Far
<1>4. \A cooldown \in BOOLEAN :
        /\ To("patch", cooldown) <= To("minor", cooldown)
        /\ To("minor", cooldown) <= To("major", cooldown)
        /\ \A mode \in {"default", "latest", "next", "newest"} :
             /\ To(mode, cooldown) <= To("major", cooldown)
             /\ To(mode, TRUE) <= To(mode, FALSE)
  BY <1>1, <1>3
<1>5. QED
  BY <1>4 DEF NarrowerIsNearer, To

\* What the filter by a dist-tag leaves.
LEMMA TaggedIs ==
  ASSUME NEW tag, NEW versions
  PROVE  \A v : v \in Tagged(tag, versions).versions <=> v = tag /\ tag # 0 /\ v \in versions
<1>1. CASE tag = 0
  BY <1>1 DEF Tagged
<1>2. CASE tag # 0 /\ tag \notin versions
  BY <1>2 DEF Tagged
<1>3. CASE tag # 0 /\ tag \in versions
  BY <1>3 DEF Tagged
<1>4. QED
  BY <1>1, <1>2, <1>3

\* What a mode leaves of the versions of the channel: the clause of Passes for it.
LEMMA ModePasses ==
  ASSUME NEW spec \in Specs, NEW reg \in RegistryFacts, spec.shape \in Simple \cup XRanges,
         NEW mode, NEW opts, NEW v \in Versions,
         v \in OfChannel(reg.published, spec.at)
  PROVE  v \in InMode(mode, spec, reg, OfChannel(reg.published, spec.at),
                      opts.includeLocked).versions
         <=> CASE mode = "patch"  -> Diff(spec.at, v) \in {"none", "patch"}
               [] mode = "minor"  -> Diff(spec.at, v) # "major"
               [] mode = "latest" -> v = reg.latest
               [] mode = "ignore" -> FALSE
               [] mode = "next"   -> v = reg.next \/ (reg.next = 0 /\ v = reg.latest)
               [] mode \in {"major", "newest"} -> TRUE
               [] OTHER -> \/ Satisfies(v, spec)
                           \/ spec.shape \in Exact /\ opts.includeLocked
                           \/ v = reg.latest /\ spec.shape \notin Exact
                                /\ ~\E w \in OfChannel(reg.published, spec.at) : Satisfies(w, spec)
<1> DEFINE channel == OfChannel(reg.published, spec.at)
           Among(m) == InMode(m, spec, reg, channel, opts.includeLocked).versions
<1>0. v # 0 /\ spec.at \in Versions /\ v \in channel
  BY ReleasesTyped DEF Specs
<1> HIDE DEF channel
<1>1. CASE mode = "patch"
  <2>1. v \in Among(mode) <=> Major(v) = Major(spec.at) /\ Minor(v) = Minor(spec.at)
    BY <1>0, <1>1 DEF InMode
  <2>2. Diff(spec.at, v) \in {"none", "patch"}
          <=> Major(v) = Major(spec.at) /\ Minor(v) = Minor(spec.at)
    BY DEF Diff
  <2>3. QED
    BY <1>1, <2>1, <2>2 DEF channel
<1>2. CASE mode = "minor"
  <2>1. v \in Among(mode) <=> Major(v) = Major(spec.at)
    BY <1>0, <1>2 DEF InMode
  <2>2. Diff(spec.at, v) # "major" <=> Major(v) = Major(spec.at)
    BY DEF Diff
  <2>3. QED
    BY <1>2, <2>1, <2>2 DEF channel
<1>3. CASE mode = "latest"
  <2>1. v \in Among(mode) <=> v \in Tagged(reg.latest, channel).versions
    BY <1>3 DEF InMode, TagOf
  <2>2. v \in Among(mode) <=> v = reg.latest
    BY <1>0, <2>1, TaggedIs
  <2>3. QED
    BY <1>3, <2>2 DEF channel
<1>4. CASE mode = "ignore"
  <2>1. v \notin Among(mode)
    BY <1>4 DEF InMode
  <2>2. QED
    BY <1>4, <2>1 DEF channel
<1>5. CASE mode = "next"
  <2>1. v \in Among(mode)
          <=> v \in Tagged(IF reg.next # 0 THEN reg.next ELSE reg.latest, channel).versions
    BY <1>5 DEF InMode, TagOf
  <2>2. v \in Among(mode) <=> v = reg.next \/ (reg.next = 0 /\ v = reg.latest)
    BY <1>0, <2>1, TaggedIs
  <2>3. QED
    BY <1>5, <2>2 DEF channel
<1>6. CASE mode \in {"major", "newest"}
  <2>1. v \in Among(mode)
    BY <1>0, <1>6 DEF InMode
  <2>2. QED
    BY <1>6, <2>1 DEF channel
<1>7. CASE mode \notin {"patch", "minor", "latest", "ignore", "next", "major", "newest"}
  <2> DEFINE within == {w \in channel : Satisfies(w, spec)}
  <2>1. Among(mode) = InDefaultMode(spec, reg, channel, opts.includeLocked).versions
    BY <1>7 DEF InMode
  <2>2. v \in Among(mode)
          <=> \/ Satisfies(v, spec)
              \/ spec.shape \in Exact /\ opts.includeLocked
              \/ v = reg.latest /\ spec.shape \notin Exact
                   /\ ~\E w \in channel : Satisfies(w, spec)
    <3>1. CASE spec.shape \in Exact
      <4>1. Among(mode) = IF opts.includeLocked THEN channel ELSE channel \cap {spec.at}
        BY <2>1, <3>1 DEF InDefaultMode
      <4>2. Satisfies(v, spec) <=> v = spec.at
        <5>1. v \in Nat /\ spec.at \in Nat
          BY ReleasesTyped DEF Specs
        <5>2. Satisfies(v, spec) => v = spec.at
          BY <3>1 DEF Satisfies, Exact
        <5>3. ASSUME v = spec.at PROVE Satisfies(v, spec)
          <6>1. v >= spec.at /\ SameCore(v, spec.at)
            BY <5>1, <5>3 DEF SameCore
          <6>2. Stable(v) \/ (~Stable(spec.at) /\ SameCore(v, spec.at))
            BY <5>3, <6>1
          <6>3. QED
            BY <3>1, <5>3, <6>1, <6>2 DEF Satisfies, Exact
        <5>4. QED
          BY <5>2, <5>3
      <4>3. QED
        BY <1>0, <3>1, <4>1, <4>2
    <3>2. CASE spec.shape \notin Exact /\ within # {}
      <4>1. Among(mode) = within
        BY <2>1, <3>2 DEF InDefaultMode
      <4>2. \E w \in channel : Satisfies(w, spec)
        BY <3>2
      <4>3. QED
        BY <1>0, <3>2, <4>1, <4>2
    <3>3. CASE spec.shape \notin Exact /\ within = {}
      <4>1. Among(mode) = Tagged(reg.latest, channel).versions
        BY <2>1, <3>3 DEF InDefaultMode
      <4>2. ~\E w \in channel : Satisfies(w, spec)
        BY <3>3
      <4>3. QED
        BY <1>0, <3>3, <4>1, <4>2, TaggedIs
    <3>4. QED
      BY <3>1, <3>2, <3>3
  <2> HIDE DEF Among
  <2>3. QED
    BY <1>7, <2>2 DEF channel, Among
<1>8. QED
  BY <1>1, <1>2, <1>3, <1>4, <1>5, <1>6, <1>7

\* From the value on, the filters leave exactly what passes every gate.
LEMMA PassesIsLeft ==
  ASSUME NEW spec \in Specs, NEW reg \in RegistryFacts, spec.shape \in Simple \cup XRanges,
         NEW mode, NEW opts, NEW v \in Versions, v >= spec.at
  PROVE  Passes(v, spec, reg, mode, opts) <=> v \in Left(spec, reg, mode, opts)
<1> DEFINE channel == OfChannel(reg.published, spec.at)
           moded == InMode(mode, spec, reg, channel, opts.includeLocked).versions
           OnMode ==
             CASE mode = "patch"  -> Diff(spec.at, v) \in {"none", "patch"}
               [] mode = "minor"  -> Diff(spec.at, v) # "major"
               [] mode = "latest" -> v = reg.latest
               [] mode = "ignore" -> FALSE
               [] mode = "next"   -> v = reg.next \/ (reg.next = 0 /\ v = reg.latest)
               [] mode \in {"major", "newest"} -> TRUE
               [] OTHER -> \/ Satisfies(v, spec)
                           \/ spec.shape \in Exact /\ opts.includeLocked
                           \/ v = reg.latest /\ spec.shape \notin Exact
                                /\ ~\E w \in OfChannel(reg.published, spec.at) : Satisfies(w, spec)
<1>1. Passes(v, spec, reg, mode, opts) <=>
        /\ v \in reg.published
        /\ v \notin reg.deprecated \/ spec.at \in reg.deprecated
        /\ opts.cooldown => v \notin reg.recent \cup reg.undated
        /\ Stable(v) \/ Releases[v].channel = Releases[spec.at].channel
        /\ OnMode
  BY DEF Passes
<1>2. v \in channel => (v \in moded <=> OnMode)
  BY ModePasses
<1>3. moded \subseteq channel
  BY ModeNarrows
<1>4. Left(spec, reg, mode, opts)
        = {w \in Mature(reg, Live(reg, moded, spec.at), opts.cooldown) : w >= spec.at}
  BY DEF Left
<1> HIDE DEF OnMode, moded
<1>5. v \in channel <=> /\ v \in reg.published
                        /\ Stable(v) \/ Releases[v].channel = Releases[spec.at].channel
  BY DEF OfChannel, Stable
<1>6. v \in Live(reg, moded, spec.at)
        <=> v \in moded /\ (v \notin reg.deprecated \/ spec.at \in reg.deprecated)
  BY DEF Live
<1>7. v \in Left(spec, reg, mode, opts)
        <=> /\ v \in Live(reg, moded, spec.at)
            /\ opts.cooldown => v \notin reg.recent \cup reg.undated
  BY <1>4 DEF Mature
<1> HIDE DEF channel
<1>8. QED
  BY <1>1, <1>2, <1>3, <1>5, <1>6, <1>7

\* The second part of SelectionIsBest: the highest version that passes is chosen.
LEMMA BestIsChosen ==
  ASSUME NEW spec \in Specs, NEW reg \in RegistryFacts, spec.shape \in Simple \cup XRanges,
         NEW mode, NEW opts
  PROVE  Best(spec, reg, mode, opts, Select(spec, reg, mode, opts))
<1> DEFINE choice == Select(spec, reg, mode, opts)
           left == Left(spec, reg, mode, opts)
           passing == {v \in Versions : Passes(v, spec, reg, mode, opts)}
           reached == IF choice.target = 0 THEN spec.at ELSE choice.target
<1>1. Reaches(spec, left, choice)
  BY SelectReaches
<1>2. left \subseteq Versions
  BY LeftVersions
<1>3. \A v \in left : v >= spec.at
  BY DEF Left
<1>4. spec.at \in Nat /\ Versions \subseteq Nat
  BY ReleasesTyped DEF Specs
<1> HIDE DEF choice, left
<1>5. \A v \in Versions : v >= spec.at =>
        (Passes(v, spec, reg, mode, opts) <=> v \in left)
  BY PassesIsLeft DEF left
<1>6. choice.target # 0 => choice.target \in passing
  <2>1. SUFFICES ASSUME choice.target # 0 PROVE choice.target \in passing
    OBVIOUS
  <2>2. choice.target \in left
    BY <1>1, <2>1 DEF Reaches
  <2>3. choice.target \in Versions /\ choice.target >= spec.at
    BY <1>2, <1>3, <2>2
  <2>4. QED
    BY <1>5, <2>2, <2>3
<1>7. \A v \in left : v <= reached
  BY <1>1 DEF Reaches
<1>8. reached \in Nat /\ spec.at <= reached
  <2>1. choice.target # 0 => choice.target \in Nat /\ choice.target > spec.at
    BY <1>1, <1>2, <1>4 DEF Reaches
  <2>2. QED
    BY <1>4, <2>1
<1>9. \A v \in passing : v <= reached
  <2>1. SUFFICES ASSUME NEW v \in Versions, Passes(v, spec, reg, mode, opts)
                 PROVE  v <= reached
    OBVIOUS
  <2> HIDE DEF reached
  <2>2. CASE v >= spec.at
    BY <1>5, <1>7, <2>1, <2>2
  <2>3. CASE ~(v >= spec.at)
    BY <1>4, <1>8, <2>3
  <2>4. QED
    BY <2>2, <2>3
<1>10. QED
  BY <1>6, <1>9 DEF Best, choice

----------------------------------------------------------------------------
(* The reason of a refusal *)

\* From the deprecations on: the reasons a refusal can have, and when it cannot.
LEMMA OfLiveReason ==
  ASSUME NEW x, NEW moded, NEW live, NEW blocking
  PROVE  LET reason == OfLive(x, moded, live, blocking).reason IN
         /\ reason \in {"DEPRECATED_CANDIDATE_BLOCKED", "MISSING_PUBLISH_TIME",
                        "MATURITY_CANDIDATE_BLOCKED", "DOWNGRADE_BLOCKED", "SELECTED", blocking}
         /\ live = moded /\ moded # {} /\ blocking # "DEPRECATED_CANDIDATE_BLOCKED"
              => reason # "DEPRECATED_CANDIDATE_BLOCKED"
         /\ ~x.opts.cooldown
              /\ blocking \notin {"MISSING_PUBLISH_TIME", "MATURITY_CANDIDATE_BLOCKED"}
              => reason \notin {"MISSING_PUBLISH_TIME", "MATURITY_CANDIDATE_BLOCKED"}
<1> DEFINE b == IF Removed(moded, live, x.spec.at) THEN "DEPRECATED_CANDIDATE_BLOCKED"
                ELSE blocking
           mature == Mature(x.registry, live, x.opts.cooldown)
           upgradable == {v \in mature : v >= x.spec.at}
           maturity == Immature(x.registry, live, x.opts.cooldown, x.spec.at)
           c == IF maturity = "none" THEN b ELSE maturity
<1>1. maturity \in {"none", "MISSING_PUBLISH_TIME", "MATURITY_CANDIDATE_BLOCKED"}
  BY DEF Immature
<1>2. ~x.opts.cooldown => maturity = "none" /\ mature = live
  BY DEF Immature, Mature
<1>3. live = moded => b = blocking
  BY DEF Removed
<1>4. b \in {"DEPRECATED_CANDIDATE_BLOCKED", blocking}
  OBVIOUS
<1>5. \A d : Chosen(x, upgradable, d).reason \in {"DOWNGRADE_BLOCKED", "SELECTED", d}
  <2> HIDE DEF upgradable
  <2>1. QED
    BY DEF Chosen, Stop, Choice
<1>6. CASE live = {}
  <2>1. OfLive(x, moded, live, blocking).reason = "DEPRECATED_CANDIDATE_BLOCKED"
    BY <1>6 DEF OfLive, Stop, Choice
  <2>2. QED
    BY <1>6, <2>1
<1>7. CASE live # {}
  <2>1. OfLive(x, moded, live, blocking) = OfMature(x, live, mature, b)
    BY <1>7 DEF OfLive
  <2> HIDE DEF b, mature, maturity, upgradable
  <2>2. CASE mature = {}
    <3>1. OfMature(x, live, mature, b).reason
            \in {"MISSING_PUBLISH_TIME", "MATURITY_CANDIDATE_BLOCKED"}
      BY <2>2 DEF OfMature, Stop, Choice
    <3>2. x.opts.cooldown
      BY <1>2, <1>7, <2>2
    <3>3. QED
      BY <2>1, <3>1, <3>2
  <2>3. CASE mature # {}
    <3>1. OfMature(x, live, mature, b) = Chosen(x, upgradable, c)
      BY <2>3 DEF OfMature, maturity, upgradable
    <3>2. OfLive(x, moded, live, blocking).reason \in {"DOWNGRADE_BLOCKED", "SELECTED", c}
      BY <1>5, <2>1, <3>1
    <3>3. QED
      BY <1>1, <1>2, <1>3, <1>4, <3>2
  <2>4. QED
    BY <2>2, <2>3
<1>8. QED
  BY <1>6, <1>7

\* A mode that leaves nothing blames no gate.
LEMMA ModeReason ==
  ASSUME NEW mode, NEW spec, NEW reg, NEW versions, NEW locked
  PROVE  InMode(mode, spec, reg, versions, locked).reason
           \in {"MODE_NO_MATCH", "DIST_TAG_MISSING", "DIST_TAG_NOT_ELIGIBLE"}
<1> DEFINE reasons == {"MODE_NO_MATCH", "DIST_TAG_MISSING", "DIST_TAG_NOT_ELIGIBLE"}
<1>1. \A tag : Tagged(tag, versions).reason \in reasons
  BY DEF Tagged
<1>2. InDefaultMode(spec, reg, versions, locked).reason \in reasons
  <2> DEFINE within == {v \in versions : Satisfies(v, spec)}
  <2>1. InDefaultMode(spec, reg, versions, locked) =
          CASE spec.shape \in Exact ->
                 [versions |-> IF locked THEN versions ELSE versions \cap {spec.at},
                  reason |-> "MODE_NO_MATCH"]
            [] spec.shape \notin Exact /\ within # {} ->
                 [versions |-> within, reason |-> "MODE_NO_MATCH"]
            [] OTHER -> Tagged(reg.latest, versions)
    BY DEF InDefaultMode
  <2> HIDE DEF within
  <2>2. QED
    BY <1>1, <2>1
<1>3. CASE mode \in {"latest", "next", "newest", "major", "minor", "patch", "ignore"}
  BY <1>1, <1>3 DEF InMode
<1>4. CASE mode \notin {"latest", "next", "newest", "major", "minor", "patch", "ignore"}
  <2>1. InMode(mode, spec, reg, versions, locked) = InDefaultMode(spec, reg, versions, locked)
    BY <1>4 DEF InMode
  <2>2. QED
    BY <1>2, <2>1
<1>5. QED
  BY <1>3, <1>4

\* A gate that is open stops nothing.
OpenGates(spec, reg, opts, reason) ==
  /\ reg.published = {} => reason = "NO_VALID_VERSIONS"
  /\ OfChannel(reg.published, spec.at) = reg.published => reason # "PRERELEASE_CHANNEL_BLOCKED"
  /\ reg.deprecated = {} => reason # "DEPRECATED_CANDIDATE_BLOCKED"
  /\ ~opts.cooldown => reason \notin {"MISSING_PUBLISH_TIME", "MATURITY_CANDIDATE_BLOCKED"}

\* No refusal names a gate that is open (selectVersionCandidate).
LEMMA SelectOpens ==
  ASSUME NEW spec, NEW reg, NEW mode, NEW opts, spec.shape \in Simple \cup XRanges
  PROVE  OpenGates(spec, reg, opts, Select(spec, reg, mode, opts).reason)
<1> DEFINE x == [spec |-> spec, registry |-> reg, mode |-> mode, opts |-> opts]
           channel == OfChannel(reg.published, spec.at)
           moded == InMode(mode, spec, reg, channel, opts.includeLocked)
           live == Live(reg, moded.versions, spec.at)
           b == IF Removed(reg.published, channel, spec.at)
                THEN "PRERELEASE_CHANNEL_BLOCKED" ELSE "CURRENT_VERSION_SELECTED"
<1>1. channel \subseteq reg.published
  BY DEF OfChannel
<1>2. channel = reg.published => b = "CURRENT_VERSION_SELECTED"
  BY DEF Removed
<1>3. b \in {"PRERELEASE_CHANNEL_BLOCKED", "CURRENT_VERSION_SELECTED"}
  OBVIOUS
<1>4. channel = reg.published => ~TagOffChannel(mode, reg, channel)
  BY DEF TagOffChannel
<1>5. reg.deprecated = {} => live = moded.versions
  BY DEF Live
<1>6. moded.reason \in {"MODE_NO_MATCH", "DIST_TAG_MISSING", "DIST_TAG_NOT_ELIGIBLE"}
  BY ModeReason
<1>7. CASE reg.published = {}
  <2>1. Select(spec, reg, mode, opts).reason = "NO_VALID_VERSIONS"
    BY <1>7 DEF Select, Stop, Choice
  <2>2. QED
    BY <2>1 DEF OpenGates
<1>8. CASE reg.published # {} /\ channel = {}
  <2>1. Select(spec, reg, mode, opts).reason = "PRERELEASE_CHANNEL_BLOCKED"
    BY <1>8 DEF Select, InChannel, Stop, Choice
  <2>2. QED
    BY <1>8, <2>1 DEF OpenGates
<1>9. CASE reg.published # {} /\ channel # {}
  <2>1. x.spec = spec /\ x.registry = reg /\ x.opts = opts /\ x.mode = mode
    OBVIOUS
  <2>2. Select(spec, reg, mode, opts) = InChannel(x, channel)
    BY <1>9 DEF Select
  <2> HIDE DEF x
  <2>3. Select(spec, reg, mode, opts) = OfMode(x, channel, moded, b)
    BY <1>9, <2>1, <2>2 DEF InChannel
  <2> HIDE DEF moded, channel, b, live
  <2>4. CASE moded.versions = {}
    <3>1. Select(spec, reg, mode, opts).reason
            \in {moded.reason} \cup (IF TagOffChannel(mode, reg, channel)
                                     THEN {"PRERELEASE_CHANNEL_BLOCKED"} ELSE {})
      BY <2>1, <2>3, <2>4 DEF OfMode, Stop, Choice
    <3>2. QED
      BY <1>4, <1>6, <1>9, <3>1 DEF OpenGates, channel
  <2>5. CASE moded.versions # {}
    <3>1. Select(spec, reg, mode, opts) = OfLive(x, moded.versions, live, b)
      BY <2>1, <2>3, <2>5 DEF OfMode, live
    <3> DEFINE reason == OfLive(x, moded.versions, live, b).reason
    <3>2. /\ reason \in {"DEPRECATED_CANDIDATE_BLOCKED", "MISSING_PUBLISH_TIME",
                         "MATURITY_CANDIDATE_BLOCKED", "DOWNGRADE_BLOCKED", "SELECTED", b}
          /\ live = moded.versions /\ moded.versions # {} /\ b # "DEPRECATED_CANDIDATE_BLOCKED"
               => reason # "DEPRECATED_CANDIDATE_BLOCKED"
          /\ ~x.opts.cooldown /\ b \notin {"MISSING_PUBLISH_TIME", "MATURITY_CANDIDATE_BLOCKED"}
               => reason \notin {"MISSING_PUBLISH_TIME", "MATURITY_CANDIDATE_BLOCKED"}
      BY OfLiveReason
    <3> HIDE DEF reason
    <3>3. channel = reg.published => reason # "PRERELEASE_CHANNEL_BLOCKED"
      BY <1>2, <3>2
    <3>4. reg.deprecated = {} => reason # "DEPRECATED_CANDIDATE_BLOCKED"
      BY <1>3, <1>5, <2>5, <3>2
    <3>5. ~opts.cooldown => reason \notin {"MISSING_PUBLISH_TIME", "MATURITY_CANDIDATE_BLOCKED"}
      BY <1>3, <2>1, <3>2
    <3>6. Select(spec, reg, mode, opts).reason = reason
      BY <3>1 DEF reason
    <3>7. QED
      BY <1>9, <3>3, <3>4, <3>5, <3>6 DEF OpenGates, channel
  <2>6. QED
    BY <2>4, <2>5
<1>10. QED
  BY <1>7, <1>8, <1>9

\* The third part of SelectionIsBest: without its gate a refusal has another reason.
LEMMA GateMattersAlways ==
  ASSUME NEW spec, NEW reg \in RegistryFacts, NEW mode, spec.shape \in Simple \cup XRanges,
         NEW opts \in [includeLocked : BOOLEAN, cooldown : BOOLEAN, force : BOOLEAN]
  PROVE  GateMatters(spec, reg, mode, opts, Select(spec, reg, mode, opts))
<1> DEFINE reason == Select(spec, reg, mode, opts).reason
           without == CASE reason = "DEPRECATED_CANDIDATE_BLOCKED" ->
                             [reg |-> [reg EXCEPT !.deprecated = {}], cooldown |-> opts.cooldown]
                        [] reason \in {"MATURITY_CANDIDATE_BLOCKED", "MISSING_PUBLISH_TIME"} ->
                             [reg |-> reg, cooldown |-> FALSE]
                        [] reason = "PRERELEASE_CHANNEL_BLOCKED" ->
                             [reg |-> [reg EXCEPT !.published = OfChannel(@, spec.at),
                                                  !.latest = 0, !.next = 0],
                              cooldown |-> opts.cooldown]
                        [] OTHER -> [reg |-> [reg EXCEPT !.published = {}], cooldown |-> FALSE]
           again == Select(spec, without.reg, mode, [opts EXCEPT !.cooldown = without.cooldown])
<1>1. SUFFICES ASSUME reason # "SELECTED", reason # "NO_VALID_VERSIONS"
               PROVE  again.reason # reason
  BY DEF GateMatters
<1>2. OpenGates(spec, without.reg, [opts EXCEPT !.cooldown = without.cooldown], again.reason)
  <2> HIDE DEF without
  <2>1. QED
    BY SelectOpens
<1> HIDE DEF again, reason
<1>3. CASE reason = "DEPRECATED_CANDIDATE_BLOCKED"
  <2>1. without.reg.deprecated = {}
    BY <1>3 DEF RegistryFacts
  <2>2. QED
    BY <1>2, <1>3, <2>1 DEF OpenGates
<1>4. CASE reason \in {"MATURITY_CANDIDATE_BLOCKED", "MISSING_PUBLISH_TIME"}
  <2>1. [opts EXCEPT !.cooldown = without.cooldown].cooldown = FALSE
    BY <1>4
  <2>2. QED
    BY <1>2, <1>4, <2>1 DEF OpenGates
<1>5. CASE reason = "PRERELEASE_CHANNEL_BLOCKED"
  <2>1. without.reg.published = OfChannel(reg.published, spec.at)
    BY <1>5 DEF RegistryFacts
  <2>2. OfChannel(OfChannel(reg.published, spec.at), spec.at) = OfChannel(reg.published, spec.at)
    BY DEF OfChannel
  <2> HIDE DEF without
  <2>3. QED
    BY <1>2, <1>5, <2>1, <2>2 DEF OpenGates
<1>6. CASE reason \notin {"DEPRECATED_CANDIDATE_BLOCKED", "MATURITY_CANDIDATE_BLOCKED",
                          "MISSING_PUBLISH_TIME", "PRERELEASE_CHANNEL_BLOCKED"}
  <2>1. without.reg.published = {}
    BY <1>6 DEF RegistryFacts
  <2> HIDE DEF without
  <2>2. QED
    BY <1>1, <1>2, <2>1 DEF OpenGates
<1>7. QED
  BY <1>3, <1>4, <1>5, <1>6

----------------------------------------------------------------------------
(* The value that is written *)

\* The numbers of versions are in the order of their majors and minors.
LEMMA InOrder ==
  ASSUME NEW v \in Versions, NEW w \in Versions
  PROVE  /\ v < w => Before(Releases[v], Releases[w])
         /\ v \in Nat /\ w \in Nat
         /\ Major(v) < Major(w) => v < w
         /\ Major(v) = Major(w) /\ Minor(v) < Minor(w) => v < w
<1>1. \A a, b \in Versions : a < b => Before(Releases[a], Releases[b])
  BY ReleasesAssumption
<1>2. /\ v \in Nat /\ w \in Nat /\ Major(v) \in Nat /\ Major(w) \in Nat
      /\ Minor(v) \in Nat /\ Minor(w) \in Nat
  BY ReleasesTyped
<1>3. ~(v < w) => v = w \/ w < v
  BY <1>2
<1>4. w < v => Major(w) < Major(v) \/ (Major(w) = Major(v) /\ Minor(w) <= Minor(v))
  <2>1. SUFFICES ASSUME w < v
                 PROVE  Major(w) < Major(v) \/ (Major(w) = Major(v) /\ Minor(w) <= Minor(v))
    OBVIOUS
  <2>2. Before(Releases[w], Releases[v])
    BY <1>1, <2>1
  <2>3. \/ Major(w) < Major(v)
        \/ Major(w) = Major(v) /\ (Minor(w) < Minor(v) \/ Minor(w) = Minor(v))
    BY <2>2, Zenon DEF Before, Major, Minor
  <2>4. QED
    BY <1>2, <2>3
<1>5. v < w => Before(Releases[v], Releases[w])
  BY <1>1
<1>6. Major(v) < Major(w) => v < w
  <2>1. SUFFICES ASSUME Major(v) < Major(w), ~(v < w) PROVE FALSE
    OBVIOUS
  <2>2. CASE v = w
    <3>1. Major(v) = Major(w)
      BY <2>2
    <3>2. QED
      BY <1>2, <2>1, <3>1
  <2>3. CASE w < v
    BY <1>2, <1>4, <2>1, <2>3
  <2>4. QED
    BY <1>3, <2>1, <2>2, <2>3
<1>7. Major(v) = Major(w) /\ Minor(v) < Minor(w) => v < w
  <2>1. SUFFICES ASSUME Major(v) = Major(w), Minor(v) < Minor(w), ~(v < w) PROVE FALSE
    OBVIOUS
  <2>2. CASE v = w
    <3>1. Minor(v) = Minor(w)
      BY <2>2
    <3>2. QED
      BY <1>2, <2>1, <3>1
  <2>3. CASE w < v
    BY <1>2, <1>4, <2>1, <2>3
  <2>4. QED
    BY <1>3, <2>1, <2>2, <2>3
<1>8. QED
  BY <1>2, <1>5, <1>6, <1>7

\* What the version an x-range spells is made of.
LEMMA FloorFields ==
  ASSUME NEW v, NEW m, NEW n, Releases[v] = Floor(m, n)
  PROVE  Major(v) = m /\ Minor(v) = n /\ Releases[v].patch = 0 /\ Stable(v)
<1>1. /\ Floor(m, n).major = m /\ Floor(m, n).minor = n /\ Floor(m, n).patch = 0
      /\ Floor(m, n).channel = ""
  BY DEF Floor
<1>2. Releases[v].major = m /\ Releases[v].minor = n /\ Releases[v].patch = 0
      /\ Releases[v].channel = ""
  BY <1>1
<1>3. Stable(v)
  BY <1>2, Zenon DEF Stable
<1>4. QED
  BY <1>2, <1>3 DEF Major, Minor

\* A stable version is not below the one its x-range spells.
LEMMA AboveItsFloor ==
  ASSUME NEW v \in Versions, Stable(v), NEW w \in Versions,
         \/ Releases[w] = Floor(Major(v), Minor(v))
         \/ Releases[w] = Floor(Major(v), 0)
  PROVE  v >= w
<1>1. /\ Major(w) = Major(v) /\ Minor(w) \in {Minor(v), 0} /\ Releases[w].patch = 0
  BY FloorFields
<1>2. /\ Major(v) \in Nat /\ Minor(v) \in Nat /\ Releases[v].patch \in Nat
      /\ v \in Nat /\ w \in Nat
  BY ReleasesTyped
<1>3. ~Before(Releases[v], Releases[w])
  <2>1. ~(Major(v) < Major(w)) /\ ~(Minor(v) < Minor(w))
    BY <1>1, <1>2
  <2>2. ~(Releases[v].patch < Releases[w].patch)
    BY <1>1, <1>2
  <2>3. QED
    BY <2>1, <2>2, Zenon DEF Before, Major, Minor, Stable
<1>4. QED
  BY <1>2, <1>3, InOrder

\* What a value that is rewritten to the version v becomes.
Rises(spec, v, to) ==
  /\ to \in Specs /\ to.shape = spec.shape /\ to.at > spec.at
  /\ Satisfies(v, to) /\ Major(to.at) = Major(v)
  /\ spec.shape \in Simple => to.at = v
  /\ spec.shape \in XRanges =>
       Major(v) # Major(spec.at) \/ (spec.shape = "xminor" /\ Minor(v) # Minor(spec.at))

\* What a value is made of.
LEMMA SpecFields ==
  ASSUME NEW spec \in Specs
  PROVE  /\ spec \in [shape : Shapes, at : Versions]
         /\ spec.at \in Versions /\ spec.shape \in Shapes
<1>1. spec \in [shape : Shapes, at : Versions]
  BY DEF Specs
<1>2. spec.at \in Versions /\ spec.shape \in Shapes
  BY <1>1
<1>3. QED
  BY <1>1, <1>2

\* An exact value, or one behind = ^ ~, takes the version itself.
LEMMA SimpleRises ==
  ASSUME NEW spec \in Specs, spec.shape \in Simple, NEW v \in Versions, v > spec.at
  PROVE  Rises(spec, v, Rewritten(spec, v))
<1> DEFINE to == [shape |-> spec.shape, at |-> v]
<1>1. Rewritten(spec, v) = to
  BY SpecFields DEF Rewritten, Simple, Exact
<1>2. to.shape = spec.shape /\ to.at = v
  OBVIOUS
<1>3. to \in Specs
  BY SpecFields DEF Specs, Simple, Exact
<1>4. SameCore(v, v) /\ v >= v
  BY ReleasesTyped DEF SameCore
<1> HIDE DEF to
<1>5. Satisfies(v, to)
  <2>1. spec.shape \in Exact \/ spec.shape = "caret" \/ spec.shape = "tilde"
    BY DEF Simple
  <2>2. CASE spec.shape \in Exact
    BY <1>2, <1>4, <2>2 DEF Satisfies, Exact
  <2>3. CASE spec.shape = "caret"
    BY <1>2, <1>4, <2>3 DEF Satisfies, Exact, SameCore
  <2>4. CASE spec.shape = "tilde"
    BY <1>2, <1>4, <2>4 DEF Satisfies, Exact
  <2>5. QED
    BY <2>1, <2>2, <2>3, <2>4
<1>6. QED
  BY <1>1, <1>2, <1>3, <1>5 DEF Rises, Simple, Exact, XRanges

\* An x-range of a major moves to the major of the version.
LEMMA MajorRangeRises ==
  ASSUME NEW spec \in Specs, spec.shape = "xmajor", NEW v \in Versions, v > spec.at,
         Stable(v), ~Satisfies(v, spec)
  PROVE  Rises(spec, v, Rewritten(spec, v))
<1>1. spec.at \in Versions /\ Releases[spec.at] = Floor(Major(spec.at), 0)
  BY SpecFields DEF Specs
<1>2. /\ Major(v) \in Nat /\ Major(spec.at) \in Nat /\ v \in Nat /\ spec.at \in Nat
  BY <1>1, ReleasesTyped
<1>3. Major(v) # Major(spec.at)
  BY <1>2 DEF Satisfies, Exact
<1>4. Major(v) > Major(spec.at)
  BY <1>1, <1>2, <1>3, InOrder
<1> DEFINE w == CHOOSE w \in Versions : Releases[w] = Floor(Major(v), 0)
<1>5. w \in Versions /\ Releases[w] = Floor(Major(v), 0)
  <2>1. Major(v) > 0
    BY <1>2, <1>4
  <2>2. \E u \in Versions : Releases[u] = Floor(Major(v), 0)
    BY <2>1, ReleasesAssumption
  <2>3. QED
    BY <2>2
<1> DEFINE to == [shape |-> "xmajor", at |-> w]
<1>6. Rewritten(spec, v) = to
  BY SpecFields DEF Rewritten, Simple, Exact
<1> HIDE DEF w
<1>7. to.shape = "xmajor" /\ to.at = w
  OBVIOUS
<1>8. Major(w) = Major(v) /\ v >= w
  BY <1>5, FloorFields, AboveItsFloor
<1>9. to \in Specs
  BY <1>5, <1>8 DEF Specs, Shapes, XRanges
<1> HIDE DEF to
<1>10. Satisfies(v, to)
  BY <1>7, <1>8 DEF Satisfies, Exact
<1>11. w > spec.at
  BY <1>1, <1>2, <1>4, <1>5, <1>8, InOrder
<1>12. QED
  BY <1>3, <1>6, <1>7, <1>8, <1>9, <1>10, <1>11 DEF Rises, Simple, Exact

\* An x-range of a minor moves to the minor of the version.
LEMMA MinorRangeRises ==
  ASSUME NEW spec \in Specs, spec.shape = "xminor", NEW v \in Versions, v > spec.at,
         Stable(v), ~Satisfies(v, spec)
  PROVE  Rises(spec, v, Rewritten(spec, v))
<1>1. spec.at \in Versions /\ Releases[spec.at] = Floor(Major(spec.at), Minor(spec.at))
  BY SpecFields DEF Specs
<1>2. /\ Major(v) \in Nat /\ Major(spec.at) \in Nat /\ v \in Nat /\ spec.at \in Nat
      /\ Minor(v) \in Nat /\ Minor(spec.at) \in Nat
  BY <1>1, ReleasesTyped
<1>3. Major(v) # Major(spec.at) \/ Minor(v) # Minor(spec.at)
  BY <1>2 DEF Satisfies, Exact
<1>4. Major(v) > Major(spec.at) \/ (Major(v) = Major(spec.at) /\ Minor(v) > Minor(spec.at))
  BY <1>1, <1>2, <1>3, InOrder
<1> DEFINE w == CHOOSE w \in Versions : Releases[w] = Floor(Major(v), Minor(v))
<1>5. w \in Versions /\ Releases[w] = Floor(Major(v), Minor(v))
  <2>1. \E u \in Versions : Releases[u] = Floor(Major(v), Minor(v))
    BY ReleasesAssumption
  <2>2. QED
    BY <2>1
<1> DEFINE to == [shape |-> "xminor", at |-> w]
<1>6. Rewritten(spec, v) = to
  BY SpecFields DEF Rewritten, Simple, Exact
<1> HIDE DEF w
<1>7. to.shape = "xminor" /\ to.at = w
  OBVIOUS
<1>8. Major(w) = Major(v) /\ Minor(w) = Minor(v) /\ v >= w
  BY <1>5, FloorFields, AboveItsFloor
<1>9. to \in Specs
  BY <1>5, <1>8 DEF Specs, Shapes, XRanges
<1> HIDE DEF to
<1>10. Satisfies(v, to)
  BY <1>7, <1>8 DEF Satisfies, Exact
<1>11. w > spec.at
  BY <1>1, <1>2, <1>4, <1>5, <1>8, InOrder
<1>12. QED
  BY <1>3, <1>6, <1>7, <1>8, <1>9, <1>10, <1>11 DEF Rises, Simple, Exact

\* rebuildXRange and applyVersionPrefix: the new value admits the version, in the
\* shape of the old one and above it.
LEMMA RewrittenRises ==
  ASSUME NEW spec \in Specs, spec.shape \in Simple \cup XRanges,
         NEW v \in Versions, v > spec.at, Stable(v) \/ ~Stable(spec.at),
         spec.shape \in XRanges => ~Satisfies(v, spec)
  PROVE  Rises(spec, v, Rewritten(spec, v))
<1>1. CASE spec.shape \in Simple
  BY <1>1, SimpleRises
<1>2. CASE spec.shape \in XRanges
  <2>1. Stable(spec.at)
    BY <1>2, FloorFields DEF Specs, XRanges
  <2>2. QED
    BY <1>2, <2>1, MajorRangeRises, MinorRangeRises DEF XRanges
<1>3. QED
  BY <1>1, <1>2

----------------------------------------------------------------------------
(* What comes of a dependency *)

\* What is left of the published versions passed the channel and the mode.
LEMMA LeftIsOf ==
  ASSUME NEW spec, NEW reg, NEW mode, NEW opts, NEW v \in Left(spec, reg, mode, opts)
  PROVE  /\ v \in OfChannel(reg.published, spec.at)
         /\ mode \in {"minor", "patch"} => Major(v) = Major(spec.at)
         /\ mode = "patch" => Minor(v) = Minor(spec.at)
<1> DEFINE channel == OfChannel(reg.published, spec.at)
           moded == InMode(mode, spec, reg, channel, opts.includeLocked).versions
<1>1. v \in moded
  BY DEF Left, Mature, Live
<1> HIDE DEF channel
<1>2. moded \subseteq channel
  BY ModeNarrows
<1>3. mode = "minor" => moded = {u \in channel : Major(u) = Major(spec.at)}
  BY DEF InMode
<1>4. mode = "patch" => moded = {u \in channel : Major(u) = Major(spec.at)
                                                  /\ Minor(u) = Minor(spec.at)}
  BY DEF InMode
<1> HIDE DEF moded
<1>5. v \in channel
  BY <1>1, <1>2
<1>6. QED
  BY <1>1, <1>3, <1>4, <1>5 DEF channel

\* What a choice keeps of its mode and its channel.
LEMMA ChoiceMoves ==
  ASSUME NEW spec \in Specs, NEW reg \in RegistryFacts, NEW mode, NEW opts,
         Select(spec, reg, mode, opts).target # 0
  PROVE  LET v == Select(spec, reg, mode, opts).target IN
         /\ spec.shape \in Simple \cup XRanges
         /\ v \in Versions /\ v > spec.at /\ (Stable(v) \/ ~Stable(spec.at))
         /\ mode \in {"minor", "patch"} => Major(v) = Major(spec.at)
         /\ mode = "patch" => Minor(v) = Minor(spec.at)
<1> DEFINE choice == Select(spec, reg, mode, opts)
<1>1. spec.shape \in Simple \cup XRanges
  <2>1. SUFFICES ASSUME spec.shape \notin Simple \cup XRanges PROVE FALSE
    OBVIOUS
  <2>2. choice = Stop("CURRENT_VERSION_INVALID")
    BY <2>1, Zenon DEF Select
  <2>3. QED
    BY <2>2 DEF Stop, Choice
<1>2. Reaches(spec, Left(spec, reg, mode, opts), choice)
  BY <1>1, SelectReaches
<1> HIDE DEF choice
<1>3. choice.target # 0
  BY DEF choice
<1>4. choice.target \in Left(spec, reg, mode, opts) /\ choice.target > spec.at
  BY <1>2, <1>3 DEF Reaches
<1>5. choice.target \in Versions
  BY <1>4, LeftVersions
<1>6. /\ choice.target \in OfChannel(reg.published, spec.at)
      /\ mode \in {"minor", "patch"} => Major(choice.target) = Major(spec.at)
      /\ mode = "patch" => Minor(choice.target) = Minor(spec.at)
  BY <1>4, LeftIsOf
<1>7. Stable(choice.target) \/ ~Stable(spec.at)
  BY <1>6 DEF OfChannel
<1>8. QED
  BY <1>1, <1>4, <1>5, <1>6, <1>7 DEF choice

\* A trace selects nothing.
LEMMA TraceIs ==
  ASSUME NEW status, NEW reason, NEW spec, status # "selected"
  PROVE  Trace(status, reason, spec).status # "selected"
BY DEF Trace

\* A target only becomes a selected value as the value rewritten to it.
LEMMA AimedSelects ==
  ASSUME NEW spec, NEW target, NEW rewritten, NEW opts,
         Aimed(spec, target, rewritten, opts).status = "selected"
  PROVE  /\ Aimed(spec, target, rewritten, opts).to = rewritten
         /\ spec.shape \in XRanges => ~Satisfies(target, spec)
<1> DEFINE aimed == Aimed(spec, target, rewritten, opts)
<1>1. spec.shape \in XRanges => ~Satisfies(target, spec)
  <2>1. SUFFICES ASSUME spec.shape \in XRanges /\ Satisfies(target, spec) PROVE FALSE
    OBVIOUS
  <2>2. aimed = Trace("unchanged", "RANGE_ALREADY_SATISFIES_TARGET", spec)
    BY <2>1, Zenon DEF Aimed
  <2>3. QED
    BY <2>2, TraceIs
<1>2. rewritten # spec
  <2>1. SUFFICES ASSUME rewritten = spec PROVE FALSE
    OBVIOUS
  <2>2. aimed = Trace("unchanged", "CURRENT_VALUE_SELECTED", spec)
    BY <1>1, <2>1, Zenon DEF Aimed
  <2>3. QED
    BY <2>2, TraceIs
<1>3. aimed = IF Diff(spec.at, target) = "none" /\ ~opts.force
              THEN Trace("unchanged", "NO_SEMANTIC_CHANGE", spec)
              ELSE [status |-> "selected", reason |-> "SELECTED", to |-> rewritten,
                    diff |-> Diff(spec.at, target)]
  BY <1>1, <1>2, Zenon DEF Aimed
<1>4. aimed = [status |-> "selected", reason |-> "SELECTED", to |-> rewritten,
               diff |-> Diff(spec.at, target)]
  <2>1. SUFFICES ASSUME Diff(spec.at, target) = "none" /\ ~opts.force PROVE FALSE
    BY <1>3
  <2>2. aimed = Trace("unchanged", "NO_SEMANTIC_CHANGE", spec)
    BY <1>3, <2>1
  <2>3. QED
    BY <2>2, TraceIs
<1>5. aimed.to = rewritten
  BY <1>4
<1>6. QED
  BY <1>1, <1>5

\* A selected verdict rewrites the value to a version that was chosen.
LEMMA VerdictSelects ==
  ASSUME NEW spec \in Specs, NEW reg \in RegistryFacts, NEW mode, NEW opts,
         Verdict(spec, reg, mode, opts).status = "selected"
  PROVE  LET v == Select(spec, reg, mode, opts).target IN
         /\ v # 0 /\ Verdict(spec, reg, mode, opts).to = Rewritten(spec, v)
         /\ spec.shape \in XRanges => ~Satisfies(v, spec)
<1> DEFINE verdict == Verdict(spec, reg, mode, opts)
           choice == Select(spec, reg, mode, opts)
           tagged == \/ spec.shape = "latest" /\ reg.latest # 0
                     \/ spec.shape = "next" /\ reg.next # 0
<1>1. mode # "ignore"
  <2>1. SUFFICES ASSUME mode = "ignore" PROVE FALSE
    OBVIOUS
  <2>2. verdict = Trace("skipped", "MODE_IGNORED", spec)
    BY <2>1, Zenon DEF Verdict
  <2>3. QED
    BY <2>2, TraceIs
<1>2. ~tagged
  <2>1. SUFFICES ASSUME tagged PROVE FALSE
    OBVIOUS
  <2>2. spec.shape # "complex"
    BY <2>1
  <2>3. verdict = Trace("skipped", "DYNAMIC_DIST_TAG", spec)
    BY <1>1, <2>1, <2>2, Zenon DEF Verdict
  <2>4. QED
    BY <2>3, TraceIs
<1>3. spec.shape # "complex"
  <2>1. SUFFICES ASSUME spec.shape = "complex" PROVE FALSE
    OBVIOUS
  <2>2. verdict = Trace("skipped", "COMPLEX_RANGE_UNSUPPORTED", spec)
    BY <1>1, <1>2, <2>1, Zenon DEF Verdict
  <2>3. QED
    BY <2>2, TraceIs
<1>4. verdict = Answered(spec, choice, opts)
  BY <1>1, <1>2, <1>3, Zenon DEF Verdict
<1> HIDE DEF choice
<1>5. choice.target # 0
  <2>1. SUFFICES ASSUME choice.target = 0 PROVE FALSE
    OBVIOUS
  <2>2. verdict = Trace(StatusOf(choice.reason), choice.reason, spec)
    BY <1>4, <2>1 DEF Answered
  <2>3. StatusOf(choice.reason) # "selected"
    BY DEF StatusOf
  <2>4. QED
    BY <2>2, <2>3, TraceIs
<1>6. verdict = Aimed(spec, choice.target, Rewritten(spec, choice.target), opts)
  BY <1>4, <1>5 DEF Answered
<1> HIDE DEF verdict
<1>7. verdict.status = "selected"
  BY DEF verdict
<1>8. verdict.to = Rewritten(spec, choice.target)
        /\ (spec.shape \in XRanges => ~Satisfies(choice.target, spec))
  BY <1>6, <1>7, AimedSelects
<1>9. QED
  BY <1>5, <1>8 DEF choice, verdict

\* A value as a dependency with the mode may have it next.
Moves(mode, from, to) ==
  /\ to \in Specs /\ from.shape = to.shape /\ from.shape \in Simple \cup XRanges
  /\ from.at < to.at
  /\ mode = "minor" => Major(from.at) = Major(to.at)
  /\ mode = "patch" => Diff(from.at, to.at) = "patch"

\* What a selected verdict writes: a value the mode allows, that admits the choice.
LEMMA VerdictMoves ==
  ASSUME NEW spec \in Specs, NEW reg \in RegistryFacts, NEW mode, NEW opts,
         Verdict(spec, reg, mode, opts).status = "selected"
  PROVE  LET to == Verdict(spec, reg, mode, opts).to IN
         /\ Moves(mode, spec, to)
         /\ Satisfies(Select(spec, reg, mode, opts).target, to)
<1> DEFINE v == Select(spec, reg, mode, opts).target
           to == Verdict(spec, reg, mode, opts).to
<1>1. v # 0 /\ to = Rewritten(spec, v) /\ (spec.shape \in XRanges => ~Satisfies(v, spec))
  BY VerdictSelects
<1>2. /\ spec.shape \in Simple \cup XRanges
      /\ v \in Versions /\ v > spec.at /\ (Stable(v) \/ ~Stable(spec.at))
      /\ mode \in {"minor", "patch"} => Major(v) = Major(spec.at)
      /\ mode = "patch" => Minor(v) = Minor(spec.at)
  BY <1>1, ChoiceMoves
<1> HIDE DEF v, to
<1>3. Rises(spec, v, to)
  BY <1>1, <1>2, RewrittenRises
<1>4. spec.at \in Versions /\ spec.at \in Nat /\ v \in Nat
  BY <1>2, SpecFields, ReleasesTyped
<1>5. to \in Specs /\ to.shape = spec.shape /\ to.at > spec.at /\ Major(to.at) = Major(v)
  BY <1>3 DEF Rises
<1>6. spec.at < to.at
  <2>1. to.at \in Nat
    BY <1>5, SpecFields, ReleasesTyped
  <2>2. QED
    BY <1>4, <1>5, <2>1
<1>7. mode = "minor" => Major(spec.at) = Major(to.at)
  BY <1>2, <1>5
<1>8. mode = "patch" => Diff(spec.at, to.at) = "patch"
  <2>1. SUFFICES ASSUME mode = "patch" PROVE Diff(spec.at, to.at) = "patch"
    OBVIOUS
  <2>2. Major(v) = Major(spec.at) /\ Minor(v) = Minor(spec.at)
    BY <1>2, <2>1
  <2>3. spec.shape \notin XRanges
    BY <1>3, <2>2 DEF Rises
  <2>4. to.at = v
    BY <1>2, <1>3, <2>3 DEF Rises
  <2>5. v # spec.at
    BY <1>2, <1>4
  <2>6. QED
    BY <2>2, <2>4, <2>5 DEF Diff
<1>9. Moves(mode, spec, to)
  BY <1>2, <1>5, <1>6, <1>7, <1>8 DEF Moves
<1>10. Satisfies(v, to)
  BY <1>3 DEF Rises
<1>11. QED
  BY <1>9, <1>10 DEF v, to

----------------------------------------------------------------------------
(* What is handed over *)

\* A selection has its number from its package.
Numbered(selections) == \A i \in DOMAIN selections : selections[i].package = i

\* The projections are those of the changes of the selections.
LEMMA ProjectionsAre ==
  ASSUME NEW selections
  PROVE  /\ \A i \in DOMAIN selections : \A j \in DOMAIN selections[i].changes :
              Projection(selections[i], j) \in Projections(selections)
         /\ \A p \in Projections(selections) :
              \E i \in DOMAIN selections : \E j \in DOMAIN selections[i].changes :
                p = Projection(selections[i], j)
BY DEF Projections

\* What a projection is made of.
LEMMA ProjectionFields ==
  ASSUME NEW selection, NEW j
  PROVE  /\ Projection(selection, j).package = selection.package
         /\ Projection(selection, j).number = j
         /\ Projection(selection, j).change = selection.changes[j]
         /\ Projection(selection, j).input = Input(selection.pkg, selection.changes[j])
BY DEF Projection

\* Package and number tell projections apart.
LEMMA ProjectionIsOne ==
  ASSUME NEW selections, Numbered(selections),
         NEW i \in DOMAIN selections, NEW j \in DOMAIN selections[i].changes,
         NEW p \in Projections(selections), p.package = selections[i].package, p.number = j
  PROVE  p = Projection(selections[i], j)
<1>1. PICK k \in DOMAIN selections : \E l \in DOMAIN selections[k].changes :
        p = Projection(selections[k], l)
  BY ProjectionsAre
<1>2. PICK l \in DOMAIN selections[k].changes : p = Projection(selections[k], l)
  BY <1>1
<1>3. p.package = selections[k].package /\ p.number = l
  BY <1>2, ProjectionFields
<1>4. k = i /\ l = j
  BY <1>3 DEF Numbered
<1>5. QED
  BY <1>2, <1>4

\* Every change is told the outcome of its projection.
LEMMA ToldIsOfEach ==
  ASSUME NEW selections, Numbered(selections),
         NEW outcomes, DOMAIN outcomes = Projections(selections)
  PROVE  LET list == Told(selections, outcomes) IN
         /\ DOMAIN list = DOMAIN selections
         /\ \A i \in DOMAIN selections :
              /\ list[i].package = selections[i].package
              /\ DOMAIN list[i].outcomes = DOMAIN selections[i].changes
              /\ \A j \in DOMAIN selections[i].changes :
                   list[i].outcomes[j] = outcomes[Projection(selections[i], j)]
<1> DEFINE list == Told(selections, outcomes)
           Mine(i, j) == CHOOSE p \in DOMAIN outcomes :
                           p.package = selections[i].package /\ p.number = j
           Outcomes(i) == [j \in DOMAIN selections[i].changes |-> outcomes[Mine(i, j)]]
<1>1. list = [i \in DOMAIN selections |-> [package |-> selections[i].package,
                                             outcomes |-> Outcomes(i)]]
  BY DEF Told
<1>2. ASSUME NEW i \in DOMAIN selections, NEW j \in DOMAIN selections[i].changes
      PROVE  Mine(i, j) = Projection(selections[i], j)
  <2>1. Projection(selections[i], j) \in DOMAIN outcomes
    BY ProjectionsAre
  <2>2. /\ Projection(selections[i], j).package = selections[i].package
        /\ Projection(selections[i], j).number = j
    BY ProjectionFields
  <2>3. \E p \in DOMAIN outcomes : p.package = selections[i].package /\ p.number = j
    BY <2>1, <2>2
  <2>4. Mine(i, j) \in DOMAIN outcomes /\ Mine(i, j).package = selections[i].package
          /\ Mine(i, j).number = j
    BY <2>3
  <2> HIDE DEF Mine
  <2>5. Mine(i, j) \in Projections(selections)
    BY <2>4
  <2>6. QED
    BY <2>4, <2>5, ProjectionIsOne
<1> HIDE DEF list, Mine
<1>3. ASSUME NEW i \in DOMAIN selections
      PROVE  /\ list[i].package = selections[i].package
             /\ list[i].outcomes = Outcomes(i)
  BY <1>1
<1>4. ASSUME NEW i \in DOMAIN selections
      PROVE  /\ DOMAIN Outcomes(i) = DOMAIN selections[i].changes
             /\ \A j \in DOMAIN selections[i].changes :
                  Outcomes(i)[j] = outcomes[Projection(selections[i], j)]
  BY <1>2
<1> HIDE DEF Outcomes
<1>5. DOMAIN list = DOMAIN selections
  BY <1>1
<1>6. ASSUME NEW i \in DOMAIN selections
      PROVE  /\ list[i].package = selections[i].package
             /\ DOMAIN list[i].outcomes = DOMAIN selections[i].changes
             /\ \A j \in DOMAIN selections[i].changes :
                  list[i].outcomes[j] = outcomes[Projection(selections[i], j)]
  BY <1>3, <1>4
<1>7. QED
  BY <1>5, <1>6 DEF list

\* What is told of what was handed over, in a phase that a command ends in.
ToldOf(selections, list, end, values) ==
  /\ DOMAIN list = DOMAIN selections
  /\ \A i \in DOMAIN list :
       /\ list[i].package = selections[i].package
       /\ DOMAIN list[i].outcomes = DOMAIN selections[i].changes
       /\ \A j \in DOMAIN list[i].outcomes :
            LET change == selections[i].changes[j]
                status == list[i].outcomes[j].status
            IN /\ status # "none"
               /\ status = "applied" <=> end = "applied"
               /\ status = "applied" =>
                    values[Input(selections[i].pkg, change).place] = change.to

\* What is told is true if the outcome of every projection is.
LEMMA ToldOfOutcomes ==
  ASSUME NEW selections, Numbered(selections), NEW end, NEW values,
         NEW outcomes, DOMAIN outcomes = Projections(selections),
         \A p \in Projections(selections) :
           /\ outcomes[p].status # "none"
           /\ outcomes[p].status = "applied" <=> end = "applied"
           /\ outcomes[p].status = "applied" => values[p.input.place] = p.change.to
  PROVE  ToldOf(selections, Told(selections, outcomes), end, values)
<1> DEFINE list == Told(selections, outcomes)
<1>1. /\ DOMAIN list = DOMAIN selections
      /\ \A i \in DOMAIN selections :
           /\ list[i].package = selections[i].package
           /\ DOMAIN list[i].outcomes = DOMAIN selections[i].changes
           /\ \A j \in DOMAIN selections[i].changes :
                list[i].outcomes[j] = outcomes[Projection(selections[i], j)]
  BY ToldIsOfEach
<1>2. ASSUME NEW i \in DOMAIN selections, NEW j \in DOMAIN selections[i].changes
      PROVE  LET change == selections[i].changes[j]
                 status == outcomes[Projection(selections[i], j)].status
             IN /\ status # "none"
                /\ status = "applied" <=> end = "applied"
                /\ status = "applied" =>
                     values[Input(selections[i].pkg, change).place] = change.to
  BY ProjectionsAre, ProjectionFields
<1> HIDE DEF list
<1>3. QED
  BY <1>1, <1>2 DEF ToldOf, list

\* What createLegacyPlan constructs.
LEMMA ConstructionIs ==
  ASSUME NEW projections
  PROVE  LET construction == CreateLegacyPlan(projections)
             disputed == Disputed(projections) IN
         /\ construction.projections = projections
         /\ construction.plan = PlacesOf(projections) \ disputed
         /\ construction.outcomes =
              [p \in projections |-> BlockedOutcome(projections, disputed, p)]
         /\ construction.evidence =
              Evidence(projections, PlacesOf(projections), construction.outcomes)
BY DEF CreateLegacyPlan, Construction, WithEvidence

\* A construction is blocked by two values for one place, or by a change without place.
LEMMA BlockedIs ==
  ASSUME NEW projections
  PROVE  CreateLegacyPlan(projections).blocked
           <=> Disputed(projections) # {} \/ \E p \in projections : ~Supported(p)
<1>1. CreateLegacyPlan(projections).blocked
        = (Disputed(projections) # {} \/ \E p \in projections : ~Supported(p))
  BY DEF CreateLegacyPlan, Construction, WithEvidence
<1>2. QED
  BY <1>1, Zenon

\* What an outcome is made of.
LEMMA OutcomeIs ==
  ASSUME NEW status, NEW reason
  PROVE  Outcome(status, reason).status = status /\ Outcome(status, reason).reason = reason
BY DEF Outcome

\* What a change is told that is not written.
LEMMA BlockedOutcomeIs ==
  ASSUME NEW projections, NEW disputed, NEW p
  PROVE  BlockedOutcome(projections, disputed, p).status \in {"failed", "conflicted", "none"}
<1> DEFINE unsupported == {q.package : q \in {r \in projections : ~Supported(r)}}
<1>1. CASE ~Supported(p)
  <2>1. BlockedOutcome(projections, disputed, p) = Outcome("failed", p.input.reason)
    BY <1>1, Zenon DEF BlockedOutcome
  <2>2. QED
    BY <2>1, OutcomeIs
<1>2. CASE Supported(p) /\ p.input.place \in disputed
  <2>1. BlockedOutcome(projections, disputed, p) = Outcome("conflicted", "AMBIGUOUS_OCCURRENCE")
    BY <1>2, Zenon DEF BlockedOutcome
  <2>2. QED
    BY <2>1, OutcomeIs
<1>3. CASE Supported(p) /\ p.input.place \notin disputed
  <2> DEFINE rest ==
        CASE p.package \in unsupported -> Outcome("failed", "UNSUPPORTED_WRITE_SOURCE")
          [] p.package \notin unsupported /\ disputed # {} -> Outcome("failed", "WRITE_FAILED")
          [] p.package \notin unsupported /\ disputed = {} /\ unsupported # {} ->
               Outcome("failed", "UNSUPPORTED_WRITE_SOURCE")
          [] OTHER -> Outcome("none", "none")
  <2>1. BlockedOutcome(projections, disputed, p) = rest
    BY <1>3, Zenon DEF BlockedOutcome
  <2> HIDE DEF unsupported
  <2>2. rest \in {Outcome("failed", "UNSUPPORTED_WRITE_SOURCE"),
                  Outcome("failed", "WRITE_FAILED"), Outcome("none", "none")}
    <3>1. CASE p.package \in unsupported
      BY <3>1
    <3>2. CASE p.package \notin unsupported /\ disputed # {}
      BY <3>2
    <3>3. CASE p.package \notin unsupported /\ disputed = {} /\ unsupported # {}
      BY <3>3
    <3>4. CASE p.package \notin unsupported /\ disputed = {} /\ unsupported = {}
      BY <3>4
    <3>5. QED
      BY <3>1, <3>2, <3>3, <3>4
  <2> HIDE DEF rest
  <2>3. QED
    BY <2>1, <2>2, OutcomeIs
<1>4. QED
  BY <1>1, <1>2, <1>3

\* A blocked command tells every change something else than applied
\* (projectBlockedPackages).
LEMMA BlockedIsTold ==
  ASSUME NEW selections, Numbered(selections), NEW values
  PROVE  LET construction == CreateLegacyPlan(Projections(selections)) IN
         ToldOf(selections,
                BlockedPackages(selections, construction.projections, construction.outcomes),
                "blocked", values)
<1> DEFINE P == Projections(selections)
           construction == CreateLegacyPlan(P)
           written(p) == IF construction.outcomes[p].status # "none"
                         THEN construction.outcomes[p] ELSE Outcome("failed", "WRITE_FAILED")
           outcomes == [p \in P |-> written(p)]
<1>1. /\ construction.projections = P
      /\ construction.outcomes = [p \in P |-> BlockedOutcome(P, Disputed(P), p)]
  BY ConstructionIs
<1>2. BlockedPackages(selections, construction.projections, construction.outcomes)
        = Told(selections, outcomes)
  BY <1>1, Zenon DEF BlockedPackages
<1>3. ASSUME NEW p \in P
      PROVE  written(p).status \notin {"none", "applied"}
  <2> HIDE DEF construction, P
  <2>1. construction.outcomes[p].status \in {"failed", "conflicted", "none"}
    BY <1>1, BlockedOutcomeIs
  <2>2. QED
    BY <2>1, OutcomeIs
<1> HIDE DEF construction, P, written
<1>4. DOMAIN outcomes = P /\ \A p \in P : outcomes[p] = written(p)
  OBVIOUS
<1> HIDE DEF outcomes
<1>5. \A p \in P :
        /\ outcomes[p].status # "none"
        /\ outcomes[p].status = "applied" <=> "blocked" = "applied"
        /\ outcomes[p].status = "applied" => values[p.input.place] = p.change.to
  BY <1>3, <1>4
<1>6. ToldOf(selections, Told(selections, outcomes), "blocked", values)
  BY <1>4, <1>5, ToldOfOutcomes DEF P
<1>7. QED
  BY <1>2, <1>6 DEF construction, P

----------------------------------------------------------------------------
(* What is planned *)

\* A plan that is not blocked has every change at its place, and writes its value.
LEMMA PlannedPlaces ==
  ASSUME NEW projections, ~CreateLegacyPlan(projections).blocked
  PROVE  /\ CreateLegacyPlan(projections).plan = PlacesOf(projections)
         /\ \A p \in projections : Supported(p) /\ p.input.place \in PlacesOf(projections)
         /\ \A p \in projections : Requested(projections, p.input.place).to = p.change.to
<1>1. Disputed(projections) = {} /\ \A p \in projections : Supported(p)
  BY BlockedIs
<1>2. CreateLegacyPlan(projections).plan = PlacesOf(projections)
  <2>1. CreateLegacyPlan(projections).plan = PlacesOf(projections) \ Disputed(projections)
    BY ConstructionIs, Zenon
  <2>2. QED
    BY <1>1, <2>1
<1>3. \A p \in projections : p.input.place \in PlacesOf(projections)
  BY <1>1 DEF PlacesOf
<1>4. ASSUME NEW p \in projections
      PROVE  Requested(projections, p.input.place).to = p.change.to
  <2> DEFINE S == At(projections, p.input.place)
             q == CHOOSE r \in S : TRUE
  <2>1. p \in S
    BY <1>1 DEF At
  <2>2. q \in S
    BY <2>1
  <2>3. Pair(p) = Pair(q)
    <3>1. SUFFICES ASSUME Pair(p) # Pair(q) PROVE FALSE
      OBVIOUS
    <3>2. p.input.place \in Disputed(projections)
      BY <1>3, <2>1, <2>2, <3>1, Zenon DEF Disputed
    <3>3. QED
      BY <1>1, <3>2
  <2>4. Requested(projections, p.input.place) = q.change
    BY Zenon DEF Requested
  <2>5. q.change.to = p.change.to
    BY <2>3 DEF Pair
  <2>6. QED
    BY <2>4, <2>5
<1>5. QED
  BY <1>1, <1>2, <1>3, <1>4

\* The answers of the engine, by their names.
Accepted(plan) == [place \in plan |-> Outcome("applied", "APPLIED")]
Refusals(plan) == {[place \in plan |-> Outcome("conflicted", "EXPECTED_VALUE_MISMATCH")],
                   [place \in plan |-> Outcome("failed", "PREFLIGHT_FAILED")]}

\* The engine writes all where everything is as expected, or refuses all.
LEMMA AnswersAre ==
  ASSUME NEW plan, NEW result \in EngineAnswers(plan)
  PROVE  \/ /\ result = Accepted(plan)
            /\ \A place \in plan : place \in DOMAIN value /\ value[place] = Wanted(place).from
         \/ result \in Refusals(plan)
BY Zenon DEF EngineAnswers, Accepted, Refusals

\* The outcomes of an answer, place by place.
LEMMA AnswerStatus ==
  ASSUME NEW plan
  PROVE  /\ DOMAIN Accepted(plan) = plan
         /\ \A place \in plan : Accepted(plan)[place].status = "applied"
         /\ \A result \in Refusals(plan) :
              /\ DOMAIN result = plan
              /\ \A place \in plan : result[place].status \in {"conflicted", "failed"}
<1>1. DOMAIN Accepted(plan) = plan
        /\ \A place \in plan : Accepted(plan)[place] = Outcome("applied", "APPLIED")
  BY DEF Accepted
<1>2. ASSUME NEW result \in Refusals(plan)
      PROVE  /\ DOMAIN result = plan
             /\ \A place \in plan :
                  result[place] \in {Outcome("conflicted", "EXPECTED_VALUE_MISMATCH"),
                                     Outcome("failed", "PREFLIGHT_FAILED")}
  <2>1. CASE result = [place \in plan |-> Outcome("conflicted", "EXPECTED_VALUE_MISMATCH")]
    BY <2>1
  <2>2. CASE result = [place \in plan |-> Outcome("failed", "PREFLIGHT_FAILED")]
    BY <2>2
  <2>3. QED
    BY <2>1, <2>2 DEF Refusals
<1>3. QED
  BY <1>1, <1>2, OutcomeIs

\* An applied command tells every change what became of its place
\* (projectAppliedPackages).
LEMMA AppliedIsTold ==
  ASSUME NEW selections, Numbered(selections), NEW values, NEW end,
         ~CreateLegacyPlan(Projections(selections)).blocked,
         NEW result, DOMAIN result = CreateLegacyPlan(Projections(selections)).plan,
         \A place \in DOMAIN result :
           /\ result[place].status # "none"
           /\ result[place].status = "applied" <=> end = "applied"
           /\ result[place].status = "applied" =>
                values[place] = Requested(Projections(selections), place).to
  PROVE  ToldOf(selections,
                AppliedPackages(selections,
                                CreateLegacyPlan(Projections(selections)).projections, result),
                end, values)
<1> DEFINE P == Projections(selections)
           read(p) == IF p.input.place \in DOMAIN result
                      THEN Outcome(result[p.input.place].status,
                                   Reason(result[p.input.place].reason))
                      ELSE Outcome("failed", "WRITE_FAILED")
           outcomes == [p \in P |-> read(p)]
<1>1. CreateLegacyPlan(P).projections = P
  BY ConstructionIs
<1>2. AppliedPackages(selections, CreateLegacyPlan(P).projections, result)
        = Told(selections, outcomes)
  BY <1>1, Zenon DEF AppliedPackages
<1>3. ASSUME NEW p \in P
      PROVE  /\ p.input.place \in DOMAIN result
             /\ Requested(P, p.input.place).to = p.change.to
  BY PlannedPlaces
<1>4. ASSUME NEW p \in P
      PROVE  read(p).status = result[p.input.place].status
  <2>1. read(p) = Outcome(result[p.input.place].status, Reason(result[p.input.place].reason))
    BY <1>3
  <2> HIDE DEF read
  <2>2. QED
    BY <2>1, OutcomeIs
<1> HIDE DEF read
<1>5. DOMAIN outcomes = P /\ \A p \in P : outcomes[p] = read(p)
  OBVIOUS
<1> HIDE DEF outcomes
<1>6. ASSUME NEW p \in P
      PROVE  /\ outcomes[p].status # "none"
             /\ outcomes[p].status = "applied" <=> end = "applied"
             /\ outcomes[p].status = "applied" => values[p.input.place] = p.change.to
  <2> DEFINE place == p.input.place
  <2>1. place \in DOMAIN result /\ Requested(P, place).to = p.change.to
    BY <1>3
  <2>2. outcomes[p].status = result[place].status
    BY <1>4, <1>5
  <2> HIDE DEF place
  <2>3. /\ result[place].status # "none"
        /\ result[place].status = "applied" <=> end = "applied"
        /\ result[place].status = "applied" => values[place] = Requested(P, place).to
    BY <2>1
  <2>4. QED
    BY <2>1, <2>2, <2>3 DEF place
<1>7. ToldOf(selections, Told(selections, outcomes), end, values)
  BY <1>5, <1>6, ToldOfOutcomes DEF P
<1>8. QED
  BY <1>2, <1>7 DEF P

----------------------------------------------------------------------------
(* The evidence of the selection *)

\* Evidence that is ready: nothing is blocked, its operations are the plan's, and the
\* changes of a place agree (createSelectionEvidence).
LEMMA EvidenceSpeaks ==
  ASSUME NEW projections,
         CreateLegacyPlan(projections).evidence.status = "ready"
  PROVE  LET construction == CreateLegacyPlan(projections) IN
         /\ ~construction.blocked
         /\ construction.evidence.operations = construction.plan
         /\ \A p, q \in projections : p.input.place = q.input.place => Fact(p) = Fact(q)
<1> DEFINE construction == CreateLegacyPlan(projections)
           outcomes == construction.outcomes
           places == PlacesOf(projections)
           doubts == UNION {Doubts(projections, place) : place \in places}
           Refused == \E p \in projections : outcomes[p].reason = "UNSUPPORTED_WRITE_SOURCE"
           Unheard == \E p \in projections : ~Supported(p)
<1>1. \A reasons : Unavailable(reasons).status = "unavailable"
  BY DEF Unavailable
<1>2. construction.evidence = Evidence(projections, places, outcomes)
  BY ConstructionIs, Zenon
<1>3. construction.evidence.status = "ready"
  OBVIOUS
<1>4. Evidence(projections, places, outcomes)
        = CASE Refused -> Unavailable({"UNSUPPORTED_WRITE_SOURCE"})
            [] (\A p \in projections : outcomes[p].reason # "UNSUPPORTED_WRITE_SOURCE")
                 /\ Unheard -> Unavailable({"UNBOUND_OPERATION"})
            [] OTHER -> IF doubts # {} THEN Unavailable(doubts) ELSE Ready(places)
  BY Zenon DEF Evidence
<1>5. (\A p \in projections : outcomes[p].reason # "UNSUPPORTED_WRITE_SOURCE") <=> ~Refused
  OBVIOUS
<1> HIDE DEF construction, outcomes, places, doubts, Refused, Unheard
<1>6. ~Refused /\ ~Unheard /\ doubts = {} /\ construction.evidence = Ready(places)
  <2>1. CASE Refused
    BY <1>1, <1>2, <1>3, <1>4, <1>5, <2>1
  <2>2. CASE ~Refused /\ Unheard
    BY <1>1, <1>2, <1>3, <1>4, <1>5, <2>2
  <2>3. CASE ~Refused /\ ~Unheard
    BY <1>1, <1>2, <1>3, <1>4, <1>5, <2>3
  <2>4. QED
    BY <2>1, <2>2, <2>3
<1>7. \A p \in projections : Supported(p) /\ p.input.place \in places
  BY <1>6 DEF Unheard, places, PlacesOf
<1>8. ASSUME NEW p \in projections, NEW q \in projections, p.input.place = q.input.place
      PROVE  Fact(p) = Fact(q)
  <2> DEFINE place == p.input.place
             S == At(projections, place)
  <2>1. p \in S /\ q \in S
    BY <1>7, <1>8 DEF At
  <2>2. place \in places /\ Doubts(projections, place) = {}
    BY <1>6, <1>7 DEF doubts
  <2>3. Doubts(projections, place)
          = CASE \E r \in S : r.change.diff \notin Semantic -> {"UNBOUND_OPERATION"}
              [] (\A r \in S : r.change.diff \in Semantic)
                   /\ (\E r, t \in S : Fact(r) # Fact(t))
                   -> {"INCONSISTENT_SELECTION_EVIDENCE"}
              [] OTHER -> {}
    BY Zenon DEF Doubts
  <2> HIDE DEF S, place
  <2>4. \A r, t \in S : Fact(r) = Fact(t)
    <3>1. SUFFICES ASSUME \E r, t \in S : Fact(r) # Fact(t) PROVE FALSE
      OBVIOUS
    <3>2. CASE \E r \in S : r.change.diff \notin Semantic
      BY <2>2, <2>3, <3>2
    <3>3. CASE \A r \in S : r.change.diff \in Semantic
      BY <2>2, <2>3, <3>1, <3>3
    <3>4. QED
      BY <3>2, <3>3
  <2>5. QED
    BY <2>1, <2>4
<1>9. Disputed(projections) = {}
  <2>1. SUFFICES ASSUME NEW place \in Disputed(projections) PROVE FALSE
    OBVIOUS
  <2>2. PICK p \in projections, q \in projections :
          p.input.place = place /\ q.input.place = place /\ Pair(p) # Pair(q)
    BY <2>1 DEF Disputed, At
  <2>3. Fact(p) = Fact(q)
    BY <1>8, <2>2
  <2>4. p.change.from = q.change.from /\ p.change.to = q.change.to
    <3>1. /\ Fact(p).from = p.change.from /\ Fact(p).to = p.change.to
          /\ Fact(q).from = q.change.from /\ Fact(q).to = q.change.to
      BY DEF Fact
    <3>2. QED
      BY <2>3, <3>1
  <2>5. QED
    BY <2>2, <2>4 DEF Pair
<1>10. ~construction.blocked
  BY <1>6, <1>9, BlockedIs DEF construction, Unheard
<1>11. construction.evidence.operations = construction.plan
  <2>1. construction.plan = places
    BY <1>10, PlannedPlaces DEF construction, places
  <2>2. Ready(places).operations = places
    BY DEF Ready
  <2>3. QED
    BY <1>6, <2>1, <2>2
<1>12. QED
  BY <1>8, <1>10, <1>11 DEF construction

----------------------------------------------------------------------------
(* The invariant *)

\* Values and registry stay well formed.
ValuesKept ==
  /\ setup \in Setups
  /\ DOMAIN value = DOMAIN setup.value /\ \A place \in DOMAIN value : value[place] \in Specs
  /\ DOMAIN registry = DOMAIN setup.registry
  /\ \A name \in DOMAIN registry : registry[name] \in RegistryFacts
\* Until the values are written, a pick is the verdict on what its place has.
PicksKept ==
  phase \in {"resolved", "handed"} =>
    \A d \in DOMAIN picks :
      /\ d \in Deps /\ decisions[d].status = "selected"
      /\ picks[d] = Verdict(value[DepOf(d).place], registry[DepOf(d).resolves],
                            decisions[d].mode, setup.opts)
\* The changes of all packages.
Changes == [i \in DOMAIN setup.packages |-> ChangesOf(i)]
\* What was handed over is what the picks and the addon came to.
HandedKept == phase = "handed" => handed = Handed(SelectionsOf(Changes))

\* The inductive invariant.
UpdatesInvariant == ValuesKept /\ PicksKept /\ HandedKept /\ ToldIsTrue

\* A dependency has a value, an entry of the registry, and the place it was read from.
LEMMA DepIsKnown ==
  ASSUME ValuesKept, NEW d \in Deps
  PROVE  /\ d[1] \in DOMAIN setup.packages /\ d[2] \in DOMAIN setup.packages[d[1]].deps
         /\ d = <<d[1], d[2]>>
         /\ value[DepOf(d).place] \in Specs /\ registry[DepOf(d).resolves] \in RegistryFacts
         /\ LET input == Input(setup.packages[d[1]].pkg, DepOf(d)) IN
            input.reason = "none" => input.place = DepOf(d).place
<1>1. PICK i \in DOMAIN setup.packages : d \in {i} \X DOMAIN setup.packages[i].deps
  BY DEF Deps
<1>2. d[1] = i /\ d[2] \in DOMAIN setup.packages[i].deps /\ d = <<d[1], d[2]>>
  BY <1>1
<1>3. setup \in Setups
  BY DEF ValuesKept
<1>4. LET dep == setup.packages[i].deps[d[2]]  input == Input(setup.packages[i].pkg, dep) IN
        /\ dep.place \in DOMAIN setup.value /\ dep.resolves \in DOMAIN setup.registry
        /\ input.reason = "none" => input.place = dep.place
  BY <1>2, <1>3, SetupsAssumption
<1>5. QED
  BY <1>2, <1>4 DEF ValuesKept, DepOf

\* collectInput looks at the name, the field and the parents only.
LEMMA InputReads ==
  ASSUME NEW pkg, NEW c, NEW d, c.name = d.name, c.field = d.field, c.parents = d.parents
  PROVE  Input(pkg, c) = Input(pkg, d)
<1> DEFINE M(x) == CatalogMatches(pkg, x)
           P(x) == {Place(m.file, <<m.name, x.name>>) : m \in M(x)}
           body(matches, places, path, name) ==
             LET owner == CHOOSE m \in matches : Place(m.file, <<m.name, name>>) \in places IN
             CASE pkg.kind = "manifest" /\ pkg.file \notin Contained ->
                    Collected(Nowhere, "UNSUPPORTED_WRITE_SOURCE", "")
               [] pkg.kind = "manifest" /\ pkg.file \in Contained ->
                    Collected(Place(pkg.file, path), "none", pkg.label)
               [] pkg.kind = "catalog" /\ \E m \in matches : m.file \notin Contained ->
                    Collected(Nowhere, "UNSUPPORTED_WRITE_SOURCE", "")
               [] OTHER ->
                    CASE places = {} -> Collected(Nowhere, "OCCURRENCE_NOT_FOUND", "")
                      [] Cardinality(places) > 1 ->
                           Collected(Nowhere, "AMBIGUOUS_OCCURRENCE", "")
                      [] OTHER -> Collected(CHOOSE p \in places : TRUE, "none", owner.name)
<1>1. \A x : Input(pkg, x) = body(M(x), P(x), ManifestPath(x), x.name)
  BY Zenon DEF Input, CatalogPath
<1>2. ManifestPath(c) = ManifestPath(d)
  BY DEF ManifestPath
<1>3. M(c) = M(d)
  BY DEF CatalogMatches
<1>4. P(c) = P(d)
  <2> HIDE DEF M
  <2>1. QED
    BY <1>3
<1> HIDE DEF M, P, body
<1>5. QED
  BY <1>1, <1>2, <1>3, <1>4

\* The selections are numbered by their packages.
LEMMA SelectionsNumbered ==
  ASSUME NEW changes
  PROVE  /\ Numbered(SelectionsOf(changes))
         /\ \A i \in DOMAIN SelectionsOf(changes) :
              /\ i \in DOMAIN changes
              /\ SelectionsOf(changes)[i].pkg = setup.packages[i].pkg
              /\ SelectionsOf(changes)[i].changes = changes[i]
<1> DEFINE K == {k \in DOMAIN changes : DOMAIN changes[k] # {}}
           item(i) == [package |-> i, pkg |-> setup.packages[i].pkg, changes |-> changes[i]]
<1>1. SelectionsOf(changes) = [i \in K |-> item(i)]
  BY DEF SelectionsOf
<1>2. \A i : item(i).package = i /\ item(i).pkg = setup.packages[i].pkg
               /\ item(i).changes = changes[i]
  OBVIOUS
<1>3. K \subseteq DOMAIN changes
  OBVIOUS
<1> HIDE DEF K, item
<1>4. QED
  BY <1>1, <1>2, <1>3 DEF Numbered

\* A change of a package is that of a dependency the policy selected, or an addon's.
LEMMA ChangeIs ==
  ASSUME ValuesKept, NEW i \in DOMAIN setup.packages, NEW j \in DOMAIN ChangesOf(i)
  PROVE  \/ /\ <<i, j>> \in DOMAIN picks /\ picks[<<i, j>>].status = "selected"
            /\ ChangesOf(i)[j] = Change(DepOf(<<i, j>>), picks[<<i, j>>])
         \/ \E k \in DOMAIN setup.added : ChangesOf(i)[j] = setup.added[k]
<1> DEFINE moving == {l \in DOMAIN setup.packages[i].deps :
                        <<i, l>> \in DOMAIN picks /\ picks[<<i, l>>].status = "selected"}
           last == Len(setup.packages[i].deps)
           more == IF i = 1 THEN {last + k : k \in DOMAIN setup.added} ELSE {}
           item(l) == IF l \in moving THEN Change(DepOf(<<i, l>>), picks[<<i, l>>])
                      ELSE setup.added[l - last]
<1>1. ChangesOf(i) = [l \in moving \cup more |-> item(l)]
  BY DEF ChangesOf
<1>2. CASE j \in moving
  BY <1>1, <1>2
<1>3. CASE j \notin moving
  <2>1. j \in more /\ ChangesOf(i)[j] = setup.added[j - last]
    BY <1>1, <1>3
  <2>2. PICK k \in DOMAIN setup.added : j = last + k
    BY <2>1
  <2>3. j - last \in DOMAIN setup.added
    <3>1. last \in Nat /\ k \in Nat
      BY <2>2, SetupsAssumption DEF ValuesKept
    <3>2. j - last = k
      BY <2>2, <3>1
    <3>3. QED
      BY <2>2, <3>2
  <2>4. QED
    BY <2>1, <2>3
<1>4. QED
  BY <1>2, <1>3

\* What the plan writes is what came of a dependency that is read there, or an addon's.
LEMMA WantedIs ==
  ASSUME ValuesKept, PicksKept, HandedKept, phase = "handed",
         NEW place \in handed.construction.plan
  PROVE  \/ \E d \in DOMAIN picks :
              /\ d \in Deps /\ picks[d].status = "selected"
              /\ DepOf(d).place = place /\ Wanted(place).to = picks[d].to
         \/ \E k \in DOMAIN setup.added : Wanted(place) = setup.added[k]
<1> DEFINE selections == SelectionsOf(Changes)
           P == Projections(selections)
<1>1. handed.construction = CreateLegacyPlan(P)
  BY DEF HandedKept, Handed
<1> HIDE DEF P
<1>2. handed.construction.projections = P /\ place \in PlacesOf(P)
  BY <1>1, ConstructionIs
<1>3. PICK p \in P : Supported(p) /\ p.input.place = place /\ Wanted(place) = p.change
  <2> DEFINE S == At(P, place)
  <2>1. PICK q \in P : Supported(q) /\ q.input.place = place
    BY <1>2 DEF PlacesOf
  <2>2. q \in S
    BY <2>1 DEF At
  <2>3. (CHOOSE r \in S : TRUE) \in S
    BY <2>2
  <2>4. Wanted(place) = (CHOOSE r \in S : TRUE).change
    BY <1>2 DEF Wanted, Requested
  <2>5. \A r \in S : r \in P /\ Supported(r) /\ r.input.place = place
    BY DEF At
  <2> HIDE DEF S
  <2>6. QED
    BY <2>3, <2>4, <2>5
<1>4. PICK i \in DOMAIN selections : \E j \in DOMAIN selections[i].changes :
        p = Projection(selections[i], j)
  BY ProjectionsAre DEF P
<1>5. PICK j \in DOMAIN selections[i].changes : p = Projection(selections[i], j)
  BY <1>4
<1>6. /\ i \in DOMAIN Changes /\ selections[i].changes = Changes[i]
      /\ selections[i].pkg = setup.packages[i].pkg
  BY SelectionsNumbered
<1> HIDE DEF selections
<1>7. i \in DOMAIN setup.packages /\ Changes[i] = ChangesOf(i)
  BY <1>6 DEF Changes
<1>8. j \in DOMAIN ChangesOf(i) /\ p.change = ChangesOf(i)[j]
        /\ p.input = Input(setup.packages[i].pkg, ChangesOf(i)[j])
  BY <1>5, <1>6, <1>7, ProjectionFields
<1>9. CASE \E k \in DOMAIN setup.added : ChangesOf(i)[j] = setup.added[k]
  BY <1>3, <1>8, <1>9
<1>10. CASE /\ <<i, j>> \in DOMAIN picks /\ picks[<<i, j>>].status = "selected"
            /\ ChangesOf(i)[j] = Change(DepOf(<<i, j>>), picks[<<i, j>>])
  <2> DEFINE d == <<i, j>>
             dep == DepOf(d)
             change == Change(dep, picks[d])
  <2>1. d \in Deps /\ d[1] = i
    BY <1>10 DEF PicksKept
  <2>2. change.name = dep.name /\ change.field = dep.field /\ change.parents = dep.parents
          /\ change.to = picks[d].to
    BY DEF Change
  <2>3. /\ d \in DOMAIN picks /\ picks[d].status = "selected" /\ ChangesOf(i)[j] = change
    BY <1>10
  <2> HIDE DEF d, dep, change
  <2>4. Input(setup.packages[i].pkg, change) = Input(setup.packages[i].pkg, dep)
    BY <2>2, InputReads
  <2>5. Input(setup.packages[i].pkg, dep).reason = "none"
          => Input(setup.packages[i].pkg, dep).place = dep.place
    BY <2>1, DepIsKnown DEF dep
  <2>6. dep.place = place
    BY <1>3, <1>8, <2>3, <2>4, <2>5 DEF Supported
  <2>7. Wanted(place).to = picks[d].to
    BY <1>3, <1>8, <2>2, <2>3
  <2>8. QED
    BY <2>1, <2>3, <2>6, <2>7 DEF dep
<1>11. QED
  BY <1>7, <1>8, <1>9, <1>10, ChangeIs

\* An operation of the plan moves its value as its dependency may.
LEMMA WantedMoves ==
  ASSUME ValuesKept, PicksKept, HandedKept, phase = "handed",
         NEW place \in handed.construction.plan
  PROVE  /\ Wanted(place).to \in Specs
         /\ setup.added = <<>> =>
              \E d \in DOMAIN picks :
                /\ DepOf(d).place = place /\ decisions[d].status = "selected"
                /\ Moves(decisions[d].mode, value[place], Wanted(place).to)
<1>1. ASSUME NEW d \in DOMAIN picks, d \in Deps, picks[d].status = "selected",
             DepOf(d).place = place, Wanted(place).to = picks[d].to
      PROVE  /\ decisions[d].status = "selected"
             /\ Moves(decisions[d].mode, value[place], Wanted(place).to)
  <2> DEFINE spec == value[DepOf(d).place]
             reg == registry[DepOf(d).resolves]
             verdict == Verdict(spec, reg, decisions[d].mode, setup.opts)
  <2>1. decisions[d].status = "selected" /\ picks[d] = verdict
    BY DEF PicksKept
  <2>2. spec \in Specs /\ reg \in RegistryFacts
    BY <1>1, DepIsKnown
  <2>3. verdict.status = "selected"
    BY <1>1, <2>1
  <2>4. Moves(decisions[d].mode, spec, verdict.to)
    BY <2>2, <2>3, VerdictMoves
  <2> HIDE DEF verdict
  <2>5. verdict.to = Wanted(place).to /\ spec = value[place]
    BY <1>1, <2>1
  <2>6. QED
    BY <2>1, <2>4, <2>5
<1>2. CASE \E k \in DOMAIN setup.added : Wanted(place) = setup.added[k]
  <2>1. PICK k \in DOMAIN setup.added : Wanted(place) = setup.added[k]
    BY <1>2
  <2>2. setup.added[k].to \in Specs
    BY SetupsAssumption DEF ValuesKept
  <2>3. setup.added # <<>>
    BY <2>1
  <2>4. QED
    BY <2>1, <2>2, <2>3
<1>3. CASE \E d \in DOMAIN picks :
             /\ d \in Deps /\ picks[d].status = "selected"
             /\ DepOf(d).place = place /\ Wanted(place).to = picks[d].to
  <2>1. PICK d \in DOMAIN picks :
          /\ d \in Deps /\ picks[d].status = "selected"
          /\ DepOf(d).place = place /\ Wanted(place).to = picks[d].to
    BY <1>3
  <2>2. /\ decisions[d].status = "selected"
        /\ Moves(decisions[d].mode, value[place], Wanted(place).to)
    BY <1>1, <2>1
  <2>3. Wanted(place).to \in Specs
    BY <2>2 DEF Moves
  <2>4. QED
    BY <2>1, <2>2, <2>3
<1>4. QED
  BY <1>2, <1>3, WantedIs

----------------------------------------------------------------------------
(* The steps *)

\* The invariant holds at the start, and every action keeps it.
LEMMA InitKeeps == Init => UpdatesInvariant
<1> SUFFICES ASSUME Init PROVE UpdatesInvariant
  OBVIOUS
<1>1. phase = "start" /\ setup \in Setups /\ value = setup.value /\ registry = setup.registry
  BY DEF Init
<1>2. ValuesKept
  BY <1>1, SetupsAssumption DEF ValuesKept
<1>3. QED
  BY <1>1, <1>2 DEF UpdatesInvariant, PicksKept, HandedKept, ToldIsTrue

\* evaluateRepositoryPolicy comes before any pick.
LEMMA DecideKeeps == UpdatesInvariant /\ Decide => UpdatesInvariant'
<1> SUFFICES ASSUME UpdatesInvariant, Decide PROVE UpdatesInvariant'
  OBVIOUS
<1>1. phase' = "decided" /\ UNCHANGED <<setup, value, registry>>
  BY DEF Decide
<1>2. ValuesKept'
  BY <1>1 DEF UpdatesInvariant, ValuesKept
<1>3. QED
  BY <1>1, <1>2 DEF UpdatesInvariant, PicksKept, HandedKept, ToldIsTrue

\* resolveDependency picks what the verdict is.
LEMMA ResolveKeeps == UpdatesInvariant /\ Resolve => UpdatesInvariant'
<1> SUFFICES ASSUME UpdatesInvariant, Resolve PROVE UpdatesInvariant'
  OBVIOUS
<1>1. phase' = "resolved" /\ UNCHANGED <<setup, value, registry, decisions>>
  BY DEF Resolve
<1>2. ValuesKept'
  BY <1>1 DEF UpdatesInvariant, ValuesKept
<1>3. PicksKept'
  <2> DEFINE verdict(d) == Verdict(value[DepOf(d).place], registry[DepOf(d).resolves],
                                   decisions[d].mode, setup.opts)
  <2>1. picks' = [d \in {e \in Deps : Kept(e)} |-> verdict(d)]
    BY DEF Resolve
  <2>2. Deps' = Deps /\ \A d : DepOf(d)' = DepOf(d)
    BY <1>1 DEF Deps, DepOf
  <2>3. \A d : verdict(d)' = verdict(d)
    BY <1>1, <2>2
  <2> HIDE DEF verdict
  <2>4. ASSUME NEW d \in DOMAIN picks'
        PROVE  d \in Deps /\ decisions[d].status = "selected" /\ picks'[d] = verdict(d)
    BY <2>1, <2>4 DEF Kept
  <2>5. QED
    BY <1>1, <2>2, <2>3, <2>4 DEF PicksKept, verdict
<1>4. QED
  BY <1>1, <1>2, <1>3 DEF UpdatesInvariant, HandedKept, ToldIsTrue

\* The changes come from the setup, the picks and the values only.
LEMMA ChangesStay ==
  ASSUME UNCHANGED <<setup, picks, value>>
  PROVE  Handed(SelectionsOf(Changes))' = Handed(SelectionsOf(Changes))
<1>1. \A d : DepOf(d)' = DepOf(d)
  BY DEF DepOf
<1>2. \A dep, pick : Change(dep, pick)' = Change(dep, pick)
  BY DEF Change
<1>3. \A i : ChangesOf(i)' = ChangesOf(i)
  BY <1>1, <1>2 DEF ChangesOf
<1>4. Changes' = Changes
  BY <1>3 DEF Changes
<1>5. \A changes : SelectionsOf(changes)' = SelectionsOf(changes)
  BY DEF SelectionsOf
<1>6. SelectionsOf(Changes)' = SelectionsOf(Changes)
  BY <1>4, <1>5 DEF SelectionsOf
<1>7. QED
  BY <1>6 DEF Handed

\* createLegacyPlan is given what the picks came to.
LEMMA HandKeeps == UpdatesInvariant /\ Hand => UpdatesInvariant'
<1> SUFFICES ASSUME UpdatesInvariant, Hand PROVE UpdatesInvariant'
  OBVIOUS
<1>1. /\ phase = "resolved" /\ phase' = "handed"
      /\ UNCHANGED <<setup, value, registry, decisions, picks>>
      /\ handed' = Handed(SelectionsOf(Changes))
  BY DEF Hand, Changes
<1>2. ValuesKept'
  BY <1>1 DEF UpdatesInvariant, ValuesKept
<1>3. PicksKept'
  <2>1. Deps' = Deps /\ \A d : DepOf(d)' = DepOf(d)
    BY <1>1 DEF Deps, DepOf
  <2>2. PicksKept /\ phase \in {"resolved", "handed"}
    BY <1>1 DEF UpdatesInvariant
  <2>3. QED
    BY <1>1, <2>1, <2>2, Zenon DEF PicksKept
<1>4. Handed(SelectionsOf(Changes))' = Handed(SelectionsOf(Changes))
  BY <1>1, ChangesStay
<1>5. HandedKept'
  BY <1>1, <1>4, Zenon DEF HandedKept
<1>6. QED
  BY <1>1, <1>2, <1>3, <1>5 DEF UpdatesInvariant, ToldIsTrue

\* What was handed over: the selections, and their construction.
LEMMA HandedIs ==
  ASSUME HandedKept, phase = "handed"
  PROVE  LET selections == SelectionsOf(Changes) IN
         /\ handed.selections = selections /\ Numbered(selections)
         /\ handed.construction = CreateLegacyPlan(Projections(selections))
BY SelectionsNumbered DEF HandedKept, Handed

\* A blocked command leaves the values, and tells the truth.
LEMMA BlockKeeps == UpdatesInvariant /\ Block => UpdatesInvariant'
<1> SUFFICES ASSUME UpdatesInvariant, Block PROVE UpdatesInvariant'
  OBVIOUS
<1> DEFINE selections == SelectionsOf(Changes)
<1>1. /\ phase = "handed" /\ phase' = "blocked"
      /\ UNCHANGED <<setup, value, registry, handed>>
      /\ told' = BlockedPackages(handed.selections, handed.construction.projections,
                                 handed.construction.outcomes)
  BY DEF Block
<1>2. ValuesKept'
  BY <1>1 DEF UpdatesInvariant, ValuesKept
<1>3. ToldIsTrue'
  <2>1. /\ handed.selections = selections /\ Numbered(selections)
        /\ handed.construction = CreateLegacyPlan(Projections(selections))
    BY <1>1, HandedIs DEF UpdatesInvariant
  <2> HIDE DEF selections
  <2>2. ToldOf(selections, told', "blocked", value')
    BY <1>1, <2>1, BlockedIsTold
  <2>3. ToldOf(handed'.selections, told', phase', value')
    BY <1>1, <2>1, <2>2
  <2>4. ToldOf(handed.selections, told, phase, value)'
    BY <2>3 DEF ToldOf
  <2>5. QED
    BY <2>4, Zenon DEF ToldIsTrue, ToldOf
<1>4. QED
  BY <1>1, <1>2, <1>3 DEF UpdatesInvariant, PicksKept, HandedKept

\* What an application does to the values, and what it tells.
LEMMA ApplyDoes ==
  ASSUME UpdatesInvariant, Apply
  PROVE  /\ phase = "handed" /\ phase' \in {"applied", "failed"}
         /\ UNCHANGED <<setup, registry, decisions, picks, handed>>
         /\ DOMAIN value' = DOMAIN value
         /\ \A place \in DOMAIN value :
              \/ value'[place] = value[place]
              \/ place \in handed.construction.plan /\ value'[place] = Wanted(place).to
         /\ ToldOf(handed.selections, told', phase', value')
         /\ phase' = "applied" => calm' = calm + 1
         /\ phase' = "failed" =>
              calm' = calm /\ \A place \in DOMAIN value : value'[place] = value[place]
<1> DEFINE selections == SelectionsOf(Changes)
           plan == handed.construction.plan
<1>1. /\ phase = "handed" /\ ~handed.construction.blocked
      /\ UNCHANGED <<setup, registry, decisions, picks, handed>>
  BY DEF Apply
<1>2. PICK result \in EngineAnswers(plan) :
        /\ value' = [place \in DOMAIN value |->
                       IF place \in DOMAIN result /\ result[place].status = "applied"
                       THEN Wanted(place).to ELSE value[place]]
        /\ told' = AppliedPackages(handed.selections, handed.construction.projections, result)
        /\ IF \A place \in DOMAIN result : result[place].status = "applied"
           THEN phase' = "applied" /\ calm' = calm + 1
           ELSE phase' = "failed" /\ calm' = calm
  BY Zenon DEF Apply
<1>3. /\ handed.selections = selections /\ Numbered(selections)
      /\ handed.construction = CreateLegacyPlan(Projections(selections))
  BY <1>1, HandedIs DEF UpdatesInvariant
<1>4. \A place : Wanted(place) = Requested(Projections(selections), place)
  BY <1>3, ConstructionIs DEF Wanted
<1> HIDE DEF selections, plan
<1>5. \/ /\ result = Accepted(plan)
         /\ \A place \in plan : place \in DOMAIN value
      \/ result \in Refusals(plan)
  BY AnswersAre
<1>6. /\ DOMAIN result = plan
      /\ \A place \in plan : result[place].status \in {"applied", "conflicted", "failed"}
      /\ \A place \in plan : result[place].status = "applied" <=> phase' = "applied"
      /\ phase' \in {"applied", "failed"}
      /\ phase' = "applied" => \A place \in plan : place \in DOMAIN value
  <2>1. CASE result = Accepted(plan) /\ \A place \in plan : place \in DOMAIN value
    <3>1. DOMAIN result = plan /\ \A place \in plan : result[place].status = "applied"
      BY <2>1, AnswerStatus
    <3>2. phase' = "applied"
      BY <1>2, <3>1
    <3>3. QED
      BY <2>1, <3>1, <3>2
  <2>2. CASE result \in Refusals(plan)
    <3>1. DOMAIN result = plan
            /\ \A place \in plan : result[place].status \in {"conflicted", "failed"}
      BY <2>2, AnswerStatus
    <3>2. CASE plan = {}
      BY <1>2, <3>1, <3>2
    <3>3. CASE plan # {}
      <4>1. phase' = "failed"
        BY <1>2, <3>1, <3>3
      <4>2. QED
        BY <3>1, <4>1
    <3>4. QED
      BY <3>2, <3>3
  <2>3. QED
    BY <1>5, <2>1, <2>2
<1>7. /\ DOMAIN value' = DOMAIN value
      /\ \A place \in DOMAIN value :
           value'[place] = IF place \in plan /\ result[place].status = "applied"
                           THEN Wanted(place).to ELSE value[place]
  BY <1>2, <1>6
<1>8. ToldOf(selections,
             AppliedPackages(selections,
                             CreateLegacyPlan(Projections(selections)).projections, result),
             phase', value')
  <2>1. \A place \in DOMAIN result :
          /\ result[place].status # "none"
          /\ result[place].status = "applied" <=> phase' = "applied"
          /\ result[place].status = "applied" =>
               value'[place] = Requested(Projections(selections), place).to
    BY <1>4, <1>6, <1>7
  <2>2. DOMAIN result = CreateLegacyPlan(Projections(selections)).plan
    BY <1>3, <1>6 DEF plan
  <2>3. ~CreateLegacyPlan(Projections(selections)).blocked
    BY <1>1, <1>3
  <2>4. Numbered(selections)
    BY <1>3
  <2>5. QED
    BY <2>1, <2>2, <2>3, <2>4, AppliedIsTold
<1>9. ToldOf(handed.selections, told', phase', value')
  BY <1>2, <1>3, <1>8
<1>10. /\ phase' = "applied" => calm' = calm + 1
       /\ phase' = "failed" => calm' = calm
  BY <1>2
<1>11. QED
  BY <1>1, <1>6, <1>7, <1>9, <1>10 DEF plan

\* An application writes well formed values, and tells the truth.
LEMMA ApplyKeeps == UpdatesInvariant /\ Apply => UpdatesInvariant'
<1> SUFFICES ASSUME UpdatesInvariant, Apply PROVE UpdatesInvariant'
  OBVIOUS
<1>1. /\ phase = "handed" /\ phase' \in {"applied", "failed"}
      /\ UNCHANGED <<setup, registry, decisions, picks, handed>>
      /\ DOMAIN value' = DOMAIN value
      /\ \A place \in DOMAIN value :
           \/ value'[place] = value[place]
           \/ place \in handed.construction.plan /\ value'[place] = Wanted(place).to
      /\ ToldOf(handed.selections, told', phase', value')
  BY ApplyDoes
<1>2. \A place \in handed.construction.plan : Wanted(place).to \in Specs
  BY <1>1, WantedMoves DEF UpdatesInvariant
<1>3. ValuesKept'
  BY <1>1, <1>2 DEF UpdatesInvariant, ValuesKept
<1>4. ToldIsTrue'
  <2>1. ToldOf(handed.selections, told, phase, value)'
    BY <1>1 DEF ToldOf
  <2>2. QED
    BY <2>1, Zenon DEF ToldIsTrue, ToldOf
<1>5. QED
  BY <1>1, <1>3, <1>4 DEF UpdatesInvariant, PicksKept, HandedKept

\* Another check starts from nothing.
LEMMA AgainKeeps == UpdatesInvariant /\ Again => UpdatesInvariant'
<1> SUFFICES ASSUME UpdatesInvariant, Again PROVE UpdatesInvariant'
  OBVIOUS
<1>1. phase' = "start" /\ UNCHANGED <<setup, value, registry>>
  BY DEF Again
<1>2. ValuesKept'
  BY <1>1 DEF UpdatesInvariant, ValuesKept
<1>3. QED
  BY <1>1, <1>2 DEF UpdatesInvariant, PicksKept, HandedKept, ToldIsTrue

\* A registry that aged is well formed.
LEMMA AgeKeeps == UpdatesInvariant /\ Age => UpdatesInvariant'
<1> SUFFICES ASSUME UpdatesInvariant, Age PROVE UpdatesInvariant'
  OBVIOUS
<1>1. /\ phase = "start" /\ phase' = "start" /\ UNCHANGED <<setup, value>>
      /\ registry' = [name \in DOMAIN registry |-> [registry[name] EXCEPT !.recent = {}]]
  BY DEF Age
<1>2. \A reg \in RegistryFacts : [reg EXCEPT !.recent = {}] \in RegistryFacts
  BY DEF RegistryFacts
<1>3. DOMAIN registry' = DOMAIN registry
        /\ \A name \in DOMAIN registry : registry'[name] \in RegistryFacts
  BY <1>1, <1>2 DEF UpdatesInvariant, ValuesKept
<1>4. ValuesKept'
  BY <1>1, <1>3 DEF UpdatesInvariant, ValuesKept
<1>5. QED
  BY <1>1, <1>4 DEF UpdatesInvariant, PicksKept, HandedKept, ToldIsTrue

\* A step that changes nothing.
LEMMA IdleKeeps == UpdatesInvariant /\ UNCHANGED vars => UpdatesInvariant'
<1> SUFFICES ASSUME UpdatesInvariant, UNCHANGED vars PROVE UpdatesInvariant'
  OBVIOUS
<1>1. UNCHANGED <<setup, value, registry, phase, decisions, picks, handed, told>>
  BY DEF vars
<1>2. ValuesKept'
  BY <1>1 DEF UpdatesInvariant, ValuesKept
<1>3. PicksKept'
  BY <1>1 DEF UpdatesInvariant, PicksKept, Deps, DepOf
<1>4. Handed(SelectionsOf(Changes))' = Handed(SelectionsOf(Changes))
  BY <1>1, ChangesStay
<1>5. HandedKept'
  BY <1>1, <1>4, Zenon DEF UpdatesInvariant, HandedKept
<1>6. ToldIsTrue'
  BY <1>1, Zenon DEF UpdatesInvariant, ToldIsTrue
<1>7. QED
  BY <1>2, <1>3, <1>5, <1>6 DEF UpdatesInvariant

\* Over all checks: picks are the verdicts on the values as they are, what is handed
\* over comes from them, and what is told of it is true (checkCommand).
THEOREM UpdatesInvariance == Spec => []UpdatesInvariant
<1>1. Init => UpdatesInvariant
  BY InitKeeps
<1>2. UpdatesInvariant /\ [Next]_vars => UpdatesInvariant'
  BY DecideKeeps, ResolveKeeps, HandKeeps, BlockKeeps, ApplyKeeps, AgainKeeps, AgeKeeps,
     IdleKeeps, Zenon DEF Next
<1>3. QED
  BY <1>1, <1>2, PTL DEF Spec

\* A verdict has all that SelectionIsBest promises.
LEMMA InvariantSelects == UpdatesInvariant => SelectionIsBest
<1> SUFFICES ASSUME UpdatesInvariant, phase = "resolved", NEW d \in DOMAIN picks
             PROVE  LET spec == value[DepOf(d).place]  reg == registry[DepOf(d).resolves]
                        mode == decisions[d].mode
                        choice == Select(spec, reg, mode, setup.opts)
                    IN /\ spec.shape \in Simple \cup XRanges =>
                            /\ NarrowerIsNearer(spec, reg, setup.opts)
                            /\ Best(spec, reg, mode, setup.opts, choice)
                            /\ GateMatters(spec, reg, mode, setup.opts, choice)
                       /\ picks[d].status = "selected" => Satisfies(choice.target, picks[d].to)
  BY Zenon DEF SelectionIsBest
<1> DEFINE spec == value[DepOf(d).place]
           reg == registry[DepOf(d).resolves]
           mode == decisions[d].mode
           opts == setup.opts
<1>1. d \in Deps /\ picks[d] = Verdict(spec, reg, mode, opts)
  BY DEF UpdatesInvariant, PicksKept
<1>2. spec \in Specs /\ reg \in RegistryFacts
  BY <1>1, DepIsKnown DEF UpdatesInvariant
<1>3. opts \in [includeLocked : BOOLEAN, cooldown : BOOLEAN, force : BOOLEAN]
  BY SetupsAssumption DEF UpdatesInvariant, ValuesKept
<1> HIDE DEF spec, reg, mode, opts
<1>4. spec.shape \in Simple \cup XRanges =>
        /\ NarrowerIsNearer(spec, reg, opts)
        /\ Best(spec, reg, mode, opts, Select(spec, reg, mode, opts))
        /\ GateMatters(spec, reg, mode, opts, Select(spec, reg, mode, opts))
  BY <1>2, <1>3, Narrower, BestIsChosen, GateMattersAlways
<1>5. picks[d].status = "selected" =>
        Satisfies(Select(spec, reg, mode, opts).target, picks[d].to)
  BY <1>1, <1>2, VerdictMoves
<1>6. QED
  BY <1>4, <1>5, Zenon DEF spec, reg, mode, opts

\* Every dependency reaches the best version its mode and the gates allow, a narrower
\* mode never reaches further, a refusal names a gate that matters, and a value that
\* is rewritten admits what was chosen (selectVersionCandidate, resolveDependency).
THEOREM SelectionIsBestAlways == Spec => []SelectionIsBest
<1>1. QED
  BY UpdatesInvariance, InvariantSelects, PTL

\* A construction that was handed over has the evidence EvidenceIsExact promises.
LEMMA InvariantTells == UpdatesInvariant => HandOverIsTrue
<1> SUFFICES ASSUME UpdatesInvariant PROVE EvidenceIsExact
  BY DEF UpdatesInvariant, HandOverIsTrue
<1> SUFFICES ASSUME phase = "handed" PROVE
      LET construction == handed.construction IN
      construction.evidence.status = "ready" =>
        /\ ~construction.blocked
        /\ construction.evidence.operations = construction.plan
        /\ \A p, q \in construction.projections :
             p.input.place = q.input.place => Fact(p) = Fact(q)
  BY Zenon DEF EvidenceIsExact
<1> DEFINE P == Projections(SelectionsOf(Changes))
<1>1. handed.construction = CreateLegacyPlan(P)
  BY HandedIs DEF UpdatesInvariant
<1> HIDE DEF P
<1>2. CreateLegacyPlan(P).projections = P
  BY ConstructionIs
<1>3. QED
  BY <1>1, <1>2, EvidenceSpeaks

\* What is handed over is what is told: the evidence speaks of the plan's operations,
\* and every change is told what became of its place (commands/apply/legacy-plan.ts).
THEOREM HandOverIsTrueAlways == Spec => []HandOverIsTrue
<1>1. QED
  BY UpdatesInvariance, InvariantTells, PTL

\* A value only moves in Apply.
LEMMA OthersKeepValues == [Next]_vars => Apply \/ UNCHANGED value
BY DEF Next, vars, Decide, Resolve, Hand, Block, Again, Age

\* Without an addon's changes a value only moves where the policy selected a
\* dependency: forward, in its shape, as far as the mode allows.
THEOREM ValuesMoveAsSelected == Spec => OnlySelectedMoves
<1> DEFINE Body ==
      setup.added = <<>> =>
        \A place \in DOMAIN value : value'[place] # value[place] =>
          LET from == value[place]  to == value'[place] IN
          /\ from.shape = to.shape /\ from.shape \in Simple \cup XRanges /\ from.at < to.at
          /\ \E d \in DOMAIN picks :
               /\ DepOf(d).place = place
               /\ decisions[d].status = "selected"
               /\ decisions[d].mode = "minor" => Major(from.at) = Major(to.at)
               /\ decisions[d].mode = "patch" => Diff(from.at, to.at) = "patch"
<1>1. UpdatesInvariant /\ [Next]_vars => Body
  <2> SUFFICES ASSUME UpdatesInvariant, [Next]_vars, setup.added = <<>>,
                      NEW place \in DOMAIN value, value'[place] # value[place]
               PROVE  LET from == value[place]  to == value'[place] IN
                      /\ from.shape = to.shape /\ from.shape \in Simple \cup XRanges
                      /\ from.at < to.at
                      /\ \E d \in DOMAIN picks :
                           /\ DepOf(d).place = place
                           /\ decisions[d].status = "selected"
                           /\ decisions[d].mode = "minor" => Major(from.at) = Major(to.at)
                           /\ decisions[d].mode = "patch" => Diff(from.at, to.at) = "patch"
    BY Zenon
  <2>1. Apply
    BY OthersKeepValues
  <2>2. /\ phase = "handed"
        /\ place \in handed.construction.plan /\ value'[place] = Wanted(place).to
    BY <2>1, ApplyDoes
  <2>3. \E d \in DOMAIN picks :
          /\ DepOf(d).place = place /\ decisions[d].status = "selected"
          /\ Moves(decisions[d].mode, value[place], Wanted(place).to)
    BY <2>2, WantedMoves DEF UpdatesInvariant
  <2>4. PICK d \in DOMAIN picks :
          /\ DepOf(d).place = place /\ decisions[d].status = "selected"
          /\ Moves(decisions[d].mode, value[place], value'[place])
    BY <2>2, <2>3
  <2>5. LET from == value[place]  to == value'[place] IN
        /\ from.shape = to.shape /\ from.shape \in Simple \cup XRanges /\ from.at < to.at
        /\ decisions[d].mode = "minor" => Major(from.at) = Major(to.at)
        /\ decisions[d].mode = "patch" => Diff(from.at, to.at) = "patch"
    BY <2>4, Zenon DEF Moves
  <2>6. QED
    BY <2>4, <2>5, Zenon
<1>2. UpdatesInvariant /\ [Next]_vars => [Body]_vars
  BY <1>1, Zenon
<1>3. QED
  BY <1>2, UpdatesInvariance, PTL DEF Spec, OnlySelectedMoves

----------------------------------------------------------------------------
(* The evaluation of rules, one by one *)

\* What holds of zero and of each number after one it holds of.
LEMMA Induction ==
  ASSUME NEW S \in SUBSET Nat, 0 \in S, \A k \in S : k + 1 \in S, NEW n \in Nat
  PROVE  n \in S
<1> DEFINE less == {p \in Nat \X Nat : p[1] < p[2]}
<1>1. IsWellFoundedOn(less, Nat)
  BY NatLessThanWellFounded DEF OpToRel
<1>2. SUFFICES ASSUME n \notin S PROVE FALSE
  OBVIOUS
<1>3. PICK x \in Nat \ S : \A y \in Nat \ S : ~ (<<y, x>> \in less)
  <2> HIDE DEF less
  <2>1. Nat \ S # {} /\ Nat \ S \subseteq Nat
    BY <1>2
  <2>2. QED
    BY <1>1, <2>1, WFMin
<1>4. x # 0 /\ x - 1 \in Nat
  BY <1>3
<1>5. <<x - 1, x>> \in less
  BY <1>4
<1>6. x - 1 \in S
  BY <1>3, <1>4, <1>5
<1>7. QED
  BY <1>3, <1>4, <1>6

Effects ==
  Causes \cup {"none", "clear-global-ignore", "clear-any-ignore", "include-match",
               "include-reset", "exclude-reset"}

\* Rules as they are compiled: only those of policyRules ask for a manager.
RuleFacts ==
  {r \in [names : SUBSET Names, workspaces : SUBSET Workspaces, roles : SUBSET Roles,
          catalogs : SUBSET (Catalogs \cup {"none"}), manager : Managers \cup {"any"},
          resolved : BOOLEAN, action : {"none", "include", "exclude"},
          mode : PolicyModes \cup {"none"}, effect : Effects] :
     r.manager # "any" => r.effect = "none"}

\* f[i] is what the evaluation has seen after the first i rules.
IsWeighing(f, rules, ctx, n) ==
  f = [i \in 0..n |-> IF i = 0 THEN Unweighed ELSE Weighed(f[i - 1], rules[i], i, ctx)]

\* There is a record of what the evaluation has seen after each rule.
LEMMA WeighingExists ==
  ASSUME NEW rules, NEW ctx, NEW n \in Nat
  PROVE  \E f : IsWeighing(f, rules, ctx, n)
<1> DEFINE Has == {k \in Nat : \E f : IsWeighing(f, rules, ctx, k)}
           Step(s, i) == Weighed(s, rules[i], i, ctx)
<1>1. 0 \in Has
  <2> DEFINE f == [i \in 0..0 |-> Unweighed]
  <2>1. f = [i \in 0..0 |-> IF i = 0 THEN Unweighed ELSE Step(f[i - 1], i)]
    <3> HIDE DEF Step
    <3> QED OBVIOUS
  <2> HIDE DEF f
  <2>2. IsWeighing(f, rules, ctx, 0)
    BY <2>1 DEF IsWeighing
  <2>3. QED
    BY <2>2
<1>2. ASSUME NEW k \in Has PROVE k + 1 \in Has
  <2>1. PICK f : IsWeighing(f, rules, ctx, k)
    OBVIOUS
  <2> DEFINE g == [i \in 0..(k + 1) |-> IF i <= k THEN f[i] ELSE Step(f[k], k + 1)]
  <2>2. \A i \in 0..k : f[i] = IF i = 0 THEN Unweighed ELSE Step(f[i - 1], i)
    BY <2>1 DEF IsWeighing
  <2> HIDE DEF Step
  <2>3. \A i \in 0..(k + 1) : g[i] = IF i = 0 THEN Unweighed ELSE Step(g[i - 1], i)
    BY <2>2
  <2>4. g = [i \in 0..(k + 1) |-> IF i = 0 THEN Unweighed ELSE Step(g[i - 1], i)]
    BY <2>3
  <2> HIDE DEF g
  <2>5. IsWeighing(g, rules, ctx, k + 1)
    BY <2>4 DEF IsWeighing, Step
  <2>6. QED
    BY <2>5
<1> HIDE DEF Has
<1>3. Has \in SUBSET Nat
  BY DEF Has
<1>4. n \in Has
  BY <1>1, <1>2, <1>3, Induction
<1>5. QED
  BY <1>4 DEF Has

\* Weighing follows such a record to its end.
LEMMA WeighingTraced ==
  ASSUME NEW rules, NEW ctx, Len(rules) \in Nat
  PROVE  \E f : /\ f[0] = Unweighed
                /\ \A i \in 1..Len(rules) : f[i] = Weighed(f[i - 1], rules[i], i, ctx)
                /\ Weighing(rules, ctx) = f[Len(rules)]
<1> DEFINE h == CHOOSE f : IsWeighing(f, rules, ctx, Len(rules))
           Step(s, i) == Weighed(s, rules[i], i, ctx)
<1>1. IsWeighing(h, rules, ctx, Len(rules))
  BY WeighingExists
<1>2. Weighing(rules, ctx) = h[Len(rules)]
  BY DEF Weighing, IsWeighing
<1> HIDE DEF h
<1>3. \A i \in 0..Len(rules) : h[i] = IF i = 0 THEN Unweighed ELSE Step(h[i - 1], i)
  BY <1>1 DEF IsWeighing
<1> HIDE DEF Step
<1>4. h[0] = Unweighed
  <2>1. 0 \in 0..Len(rules)
    OBVIOUS
  <2>2. QED
    BY ONLY <1>3, <2>1, Zenon
<1>5. \A i \in 1..Len(rules) : h[i] = Step(h[i - 1], i)
  <2>1. \A i \in 1..Len(rules) : i \in 0..Len(rules) /\ i # 0
    OBVIOUS
  <2>2. QED
    BY <1>3, <2>1
<1>6. QED
  BY <1>2, <1>4, <1>5 DEF Step

\* Rules that follow others go on from what those have made.
LEMMA WeighingBlock ==
  ASSUME NEW T, NEW a \in Seq(T), NEW b \in Seq(T), NEW ctx
  PROVE  \E f : /\ f[0] = Weighing(a, ctx) /\ f[Len(b)] = Weighing(a \o b, ctx)
                /\ \A k \in 1..Len(b) : f[k] = Weighed(f[k - 1], b[k], Len(a) + k, ctx)
<1> DEFINE all == a \o b
           n == Len(a)
           m == Len(b)
<1>1. /\ n \in Nat /\ m \in Nat /\ Len(all) = n + m
      /\ \A i \in 1..n : all[i] = a[i]
      /\ \A i \in 1..m : all[n + i] = b[i]
  OBVIOUS
<1> HIDE DEF all, n, m
<1>2. PICK f : /\ f[0] = Unweighed
               /\ \A i \in 1..n : f[i] = Weighed(f[i - 1], a[i], i, ctx)
               /\ Weighing(a, ctx) = f[n]
  BY <1>1, WeighingTraced DEF n
<1>3. PICK g : /\ g[0] = Unweighed
               /\ \A i \in 1..(n + m) : g[i] = Weighed(g[i - 1], all[i], i, ctx)
               /\ Weighing(all, ctx) = g[n + m]
  <2>1. Len(all) \in Nat
    BY <1>1
  <2>2. \E g : /\ g[0] = Unweighed
               /\ \A i \in 1..Len(all) : g[i] = Weighed(g[i - 1], all[i], i, ctx)
               /\ Weighing(all, ctx) = g[Len(all)]
    BY <2>1, WeighingTraced
  <2>3. QED
    BY <1>1, <2>2
<1> DEFINE same == {k \in Nat : k <= n => f[k] = g[k]}
<1>4. n \in same
  <2>1. 0 \in same
    BY <1>2, <1>3
  <2>2. ASSUME NEW k \in same PROVE k + 1 \in same
    <3>1. SUFFICES ASSUME k + 1 <= n PROVE f[k + 1] = g[k + 1]
      OBVIOUS
    <3>2. k + 1 \in 1..n /\ k + 1 \in 1..(n + m) /\ (k + 1) - 1 = k /\ f[k] = g[k]
      BY <1>1, <3>1
    <3>3. f[k + 1] = Weighed(f[k], a[k + 1], k + 1, ctx)
      BY <1>2, <3>2
    <3>4. g[k + 1] = Weighed(g[k], all[k + 1], k + 1, ctx)
      BY <1>3, <3>2
    <3>5. QED
      BY <1>1, <3>2, <3>3, <3>4
  <2> HIDE DEF same
  <2>3. same \in SUBSET Nat
    BY DEF same
  <2>4. QED
    BY <1>1, <2>1, <2>2, <2>3, Induction
<1> DEFINE h == [k \in 0..m |-> g[n + k]]
<1>5. h[0] = Weighing(a, ctx) /\ h[m] = Weighing(all, ctx)
  BY <1>1, <1>2, <1>3, <1>4
<1>6. ASSUME NEW k \in 1..m PROVE h[k] = Weighed(h[k - 1], b[k], n + k, ctx)
  <2>1. n + k \in 1..(n + m) /\ (n + k) - 1 = n + (k - 1) /\ k - 1 \in 0..m /\ k \in 0..m
    BY <1>1
  <2>2. g[n + k] = Weighed(g[(n + k) - 1], all[n + k], n + k, ctx)
    BY <1>3, <2>1
  <2>3. h[k] = g[n + k] /\ h[k - 1] = g[n + (k - 1)] /\ all[n + k] = b[k]
    BY <1>1, <2>1
  <2>4. QED
    BY <2>1, <2>2, <2>3
<1> HIDE DEF h
<1>7. /\ h[0] = Weighing(a, ctx) /\ h[Len(b)] = Weighing(a \o b, ctx)
      /\ \A k \in 1..Len(b) : h[k] = Weighed(h[k - 1], b[k], Len(a) + k, ctx)
  <2>1. h[0] = Weighing(a, ctx) /\ h[Len(b)] = Weighing(a \o b, ctx)
    BY <1>5 DEF all, m
  <2>2. \A k \in 1..Len(b) : h[k] = Weighed(h[k - 1], b[k], Len(a) + k, ctx)
    BY <1>6 DEF n, m
  <2>3. QED
    BY <2>1, <2>2
<1>8. QED
  BY <1>7

\* One more rule.
LEMMA WeighingNext ==
  ASSUME NEW T, NEW rules \in Seq(T), NEW r \in T, NEW ctx
  PROVE  Weighing(Append(rules, r), ctx)
           = Weighed(Weighing(rules, ctx), r, Len(rules) + 1, ctx)
<1> DEFINE b == <<r>>
<1>1. b \in Seq(T) /\ Len(b) = 1 /\ b[1] = r /\ rules \o b = Append(rules, r)
  OBVIOUS
<1> HIDE DEF b
<1>2. PICK f : /\ f[0] = Weighing(rules, ctx) /\ f[Len(b)] = Weighing(rules \o b, ctx)
               /\ \A k \in 1..Len(b) : f[k] = Weighed(f[k - 1], b[k], Len(rules) + k, ctx)
  <2>1. \A c \in Seq(T) :
          \E f : /\ f[0] = Weighing(rules, ctx) /\ f[Len(c)] = Weighing(rules \o c, ctx)
                 /\ \A k \in 1..Len(c) : f[k] = Weighed(f[k - 1], c[k], Len(rules) + k, ctx)
    BY WeighingBlock
  <2>2. QED
    BY <1>1, <2>1
<1>3. f[1] = Weighed(f[0], r, Len(rules) + 1, ctx)
  BY <1>1, <1>2
<1>4. QED
  BY <1>1, <1>2, <1>3

States ==
  [normal : [action : {"include", "exclude"}, at : Nat], excluded : [Causes -> Nat],
   included : Nat, mode : PolicyModes, modeAt : Nat,
   pending : SUBSET [at : Nat, action : BOOLEAN, mode : BOOLEAN]]

\* What n rules can have left.
LeftBy(s, n) ==
  /\ s \in States /\ s.normal.at <= n /\ s.modeAt <= n
  /\ \A p \in s.pending : p.at <= n

\* An action changes neither mode nor what waits, and only a rule of policyRules
\* sets the normal action.
LEMMA ActedTyped ==
  ASSUME NEW s \in States, NEW rule \in RuleFacts, NEW at \in Nat
  PROVE  /\ Acted(s, rule, at) \in States
         /\ Acted(s, rule, at).mode = s.mode /\ Acted(s, rule, at).modeAt = s.modeAt
         /\ Acted(s, rule, at).pending = s.pending
         /\ Acted(s, rule, at).normal
              = IF rule.action # "none" /\ rule.effect = "none"
                THEN [action |-> rule.action, at |-> at] ELSE s.normal
<1>1. CASE rule.action = "none"
  BY <1>1 DEF Acted
<1>2. CASE rule.action # "none" /\ rule.effect = "none"
  BY <1>2 DEF Acted, States, RuleFacts
<1>3. CASE rule.action # "none" /\ rule.effect # "none"
  <2> DEFINE e == rule.effect
             t == Compatibly(s, e, at)
  <2>1. Acted(s, rule, at) = t
    BY <1>3 DEF Acted
  <2>2. /\ t \in States /\ t.mode = s.mode /\ t.modeAt = s.modeAt
        /\ t.pending = s.pending /\ t.normal = s.normal
    <3>1. \A causes : Without(s.excluded, causes) \in [Causes -> Nat]
      BY DEF Without, States
    <3>2. CASE e = "include-default"
      BY <3>2 DEF Compatibly, States, Causes
    <3>3. CASE e \in Causes \ {"include-default"}
      <4>1. t = [s EXCEPT !.excluded[e] = at]
        <5>1. e \in {"global-ignore", "package-ignore", "exclude-filter"}
          BY <3>3 DEF Causes
        <5>2. CASE e = "global-ignore"
          BY <5>2 DEF Compatibly, Causes
        <5>3. CASE e = "package-ignore"
          BY <5>3 DEF Compatibly, Causes
        <5>4. CASE e = "exclude-filter"
          BY <5>4 DEF Compatibly, Causes
        <5>5. QED
          BY <5>1, <5>2, <5>3, <5>4
      <4> HIDE DEF t
      <4>2. QED
        BY <3>3, <4>1 DEF States, Causes
    <3>4. CASE e \in {"clear-global-ignore", "clear-any-ignore"}
      <4> DEFINE causes == {"global-ignore"}
                             \cup IF e = "clear-any-ignore" THEN {"package-ignore"} ELSE {}
      <4>1. t = [s EXCEPT !.excluded = Without(@, causes),
                          !.included = IF Stand(s.excluded, causes) THEN at ELSE @]
        BY <3>4 DEF Compatibly, Causes
      <4> HIDE DEF causes, t
      <4>2. QED
        BY <3>1, <4>1 DEF States
    <3>5. CASE e \in {"include-match", "include-reset"}
      <4>1. t = [s EXCEPT !.excluded = Without(@, {"include-default"}), !.included = at]
        BY <3>5 DEF Compatibly, Causes
      <4> HIDE DEF t
      <4>2. QED
        BY <3>1, <4>1 DEF States
    <3>6. CASE e = "exclude-reset"
      <4>1. t = [s EXCEPT !.excluded = Without(@, {"exclude-filter"}), !.included = at]
        BY <3>6 DEF Compatibly, Causes
      <4> HIDE DEF t
      <4>2. QED
        BY <3>1, <4>1 DEF States
    <3>7. QED
      BY <1>3, <3>2, <3>3, <3>4, <3>5, <3>6 DEF RuleFacts, Effects
  <2>3. QED
    BY <1>3, <2>1, <2>2
<1>4. QED
  BY <1>1, <1>2, <1>3

\* A mode changes nothing else.
LEMMA ModedTyped ==
  ASSUME NEW s \in States, NEW rule \in RuleFacts, NEW at \in Nat
  PROVE  /\ Moded(s, rule, at) \in States
         /\ Moded(s, rule, at).normal = s.normal /\ Moded(s, rule, at).excluded = s.excluded
         /\ Moded(s, rule, at).included = s.included
         /\ Moded(s, rule, at).pending = s.pending
         /\ rule.mode = "none" => Moded(s, rule, at) = s
         /\ rule.mode # "none" => /\ Moded(s, rule, at).mode = rule.mode
                                  /\ Moded(s, rule, at).modeAt = at
BY DEF Moded, States, RuleFacts

\* A rule is taken into account, or kept for later since the manager is not known.
Taken(s, rule, at)  == Moded(Acted(s, rule, at), rule, at)
Waiting(rule, at) == [at |-> at, action |-> rule.action # "none", mode |-> rule.mode # "none"]
Waits(s, rule, at) == [s EXCEPT !.pending = @ \cup {Waiting(rule, at)}]

\* What becomes of a rule: not for this dependency, taken, or kept for later.
LEMMA WeighedCases ==
  ASSUME NEW s, NEW rule \in RuleFacts, NEW at, NEW ctx,
         ctx.manager \in Managers \cup {"unknown"}
  PROVE  /\ ~MatchesWithoutManager(rule, ctx) => Weighed(s, rule, at, ctx) = s
         /\ MatchesWithoutManager(rule, ctx) /\ rule.manager = "any"
              => Weighed(s, rule, at, ctx) = Taken(s, rule, at)
         /\ MatchesWithoutManager(rule, ctx) /\ rule.manager # "any" /\ ctx.manager = "unknown"
              => Weighed(s, rule, at, ctx) = Waits(s, rule, at)
         /\ MatchesWithoutManager(rule, ctx) /\ rule.manager # "any"
              /\ ctx.manager # "unknown"
              => Weighed(s, rule, at, ctx) \in {s, Taken(s, rule, at)}
<1> DEFINE matches == MatchesWithoutManager(rule, ctx)
           taken == Taken(s, rule, at)
           waits == Waits(s, rule, at)
<1>1. Weighed(s, rule, at, ctx)
        = CASE ~matches -> s
            [] matches /\ rule.manager # "any" /\ ctx.manager = "unknown" -> waits
            [] matches /\ rule.manager \in {"any", ctx.manager} -> taken
            [] OTHER -> s
  BY DEF Weighed, Taken, Waits, Waiting
<1>2. rule.manager # "any" => rule.manager \in Managers /\ rule.manager # "unknown"
  BY PolicyAssumption DEF RuleFacts
<1>3. matches \in BOOLEAN
  BY DEF MatchesWithoutManager
<1> HIDE DEF taken, waits, matches
<1>4. /\ ~matches => Weighed(s, rule, at, ctx) = s
      /\ matches /\ rule.manager = "any" => Weighed(s, rule, at, ctx) = taken
      /\ matches /\ rule.manager # "any" /\ ctx.manager = "unknown"
           => Weighed(s, rule, at, ctx) = waits
      /\ matches /\ rule.manager # "any" /\ ctx.manager # "unknown"
           => Weighed(s, rule, at, ctx) \in {s, taken}
  BY <1>1, <1>2, <1>3
<1>5. QED
  BY <1>4 DEF taken, waits, matches

\* One rule more leaves what one rule more may leave.
LEMMA WeighedReaches ==
  ASSUME NEW n \in Nat, NEW s, LeftBy(s, n), NEW rule \in RuleFacts, NEW ctx,
         ctx.manager \in Managers \cup {"unknown"}
  PROVE  LeftBy(Weighed(s, rule, n + 1, ctx), n + 1)
<1> DEFINE matches == MatchesWithoutManager(rule, ctx)
           t == Weighed(s, rule, n + 1, ctx)
           p == Waiting(rule, n + 1)
<1>1. s \in States /\ n + 1 \in Nat
  BY DEF LeftBy
<1>2. CASE t = s
  BY <1>2 DEF LeftBy, States
<1>3. CASE t = Taken(s, rule, n + 1)
  <2> DEFINE a == Acted(s, rule, n + 1)
  <2>1. /\ a \in States /\ a.mode = s.mode /\ a.modeAt = s.modeAt /\ a.pending = s.pending
        /\ a.normal = IF rule.action # "none" /\ rule.effect = "none"
                      THEN [action |-> rule.action, at |-> n + 1] ELSE s.normal
    BY <1>1, ActedTyped
  <2> HIDE DEF a
  <2>2. /\ t \in States /\ t.normal = a.normal /\ t.pending = s.pending
        /\ (t = a \/ t.modeAt = n + 1)
    BY <1>1, <1>3, <2>1, ModedTyped DEF a, Taken
  <2>3. t.normal.at <= n + 1
    BY <2>1, <2>2 DEF LeftBy, States
  <2>4. t.modeAt <= n + 1
    BY <2>1, <2>2 DEF LeftBy, States
  <2>5. \A q \in t.pending : q.at <= n + 1
    BY <1>1, <2>2 DEF LeftBy, States
  <2>6. QED
    BY <2>2, <2>3, <2>4, <2>5 DEF LeftBy
<1>4. CASE t = Waits(s, rule, n + 1)
  <2>1. p \in [at : Nat, action : BOOLEAN, mode : BOOLEAN] /\ p.at = n + 1
    BY DEF Waiting
  <2>2. t \in States /\ t.normal = s.normal /\ t.modeAt = s.modeAt
          /\ t.pending = s.pending \cup {p}
    BY <1>1, <1>4, <2>1 DEF States, Waits
  <2> HIDE DEF t, p
  <2>3. s.normal.at <= n + 1 /\ s.modeAt <= n + 1
    BY <1>1 DEF LeftBy, States
  <2>4. \A q \in s.pending : q.at <= n + 1
    BY <1>1 DEF LeftBy, States
  <2>5. QED
    BY <2>1, <2>2, <2>3, <2>4 DEF LeftBy, t
<1>5. t = s \/ t = Taken(s, rule, n + 1)
        \/ t = Waits(s, rule, n + 1)
  BY WeighedCases
<1>6. QED
  BY <1>2, <1>3, <1>4, <1>5

\* Before the first rule.
LEMMA UnweighedReached == LeftBy(Unweighed, 0)
BY DEF Unweighed, LeftBy, States, PolicyModes

\* All rules leave what so many may leave.
LEMMA WeighingReached ==
  ASSUME NEW rules \in Seq(RuleFacts), NEW ctx, ctx.manager \in Managers \cup {"unknown"}
  PROVE  LeftBy(Weighing(rules, ctx), Len(rules))
<1> DEFINE n == Len(rules)
<1>1. n \in Nat /\ \A i \in 1..n : rules[i] \in RuleFacts
  OBVIOUS
<1>2. PICK f : /\ f[0] = Unweighed
               /\ \A i \in 1..n : f[i] = Weighed(f[i - 1], rules[i], i, ctx)
               /\ Weighing(rules, ctx) = f[n]
  BY <1>1, WeighingTraced
<1> HIDE DEF n
<1> DEFINE S == {k \in Nat : k <= n => LeftBy(f[k], k)}
<1>3. 0 \in S
  BY <1>2, UnweighedReached
<1>4. ASSUME NEW k \in S PROVE k + 1 \in S
  <2>1. SUFFICES ASSUME k + 1 <= n PROVE LeftBy(f[k + 1], k + 1)
    OBVIOUS
  <2>2. k + 1 \in 1..n /\ (k + 1) - 1 = k /\ LeftBy(f[k], k) /\ rules[k + 1] \in RuleFacts
    BY <1>1, <2>1
  <2>3. f[k + 1] = Weighed(f[k], rules[k + 1], k + 1, ctx)
    BY <1>2, <2>2
  <2>4. QED
    BY <2>2, <2>3, WeighedReaches
<1> HIDE DEF S
<1>5. S \in SUBSET Nat
  BY DEF S
<1>6. n \in S
  BY <1>1, <1>3, <1>4, <1>5, Induction
<1>7. LeftBy(f[n], n)
  BY <1>1, <1>6 DEF S
<1>8. QED
  BY <1>2, <1>7 DEF n

\* Of some exclusions there is a latest.
LEMMA LatestCause ==
  ASSUME NEW excluded \in [Causes -> Nat], NEW later \in SUBSET Causes, later # {}
  PROVE  \E c \in later : \A d \in later : excluded[d] <= excluded[c]
<1> DEFINE above == {n \in Nat : \A d \in later : excluded[d] <= n}
<1>1. above # {}
  <2> DEFINE n == excluded["global-ignore"] + excluded["package-ignore"]
                    + excluded["include-default"] + excluded["exclude-filter"]
  <2>1. n \in Nat /\ \A c \in Causes : excluded[c] <= n
    BY DEF Causes
  <2>2. QED
    BY <2>1
<1>2. PICK u \in above : \A n \in above : u <= n
  <2> HIDE DEF above
  <2>1. above \subseteq Nat
    BY DEF above
  <2>2. QED
    BY <1>1, <2>1, LeastNat
<1>3. PICK c \in later : excluded[c] >= u
  <2>1. CASE u = 0
    BY <2>1
  <2>2. CASE u # 0
    <3>1. u - 1 \in Nat /\ ~(u <= u - 1)
      BY <2>2
    <3>2. u - 1 \notin above
      BY <1>2, <3>1
    <3>3. PICK d \in later : ~(excluded[d] <= u - 1)
      BY <3>1, <3>2
    <3>4. QED
      BY <3>1, <3>3
  <2>3. QED
    BY <2>1, <2>2
<1>4. QED
  BY <1>2, <1>3

\* resolveAction, by what stands.
LEMMA ResolutionIs ==
  ASSUME NEW s \in States
  PROVE  /\ (\E c \in Causes : s.excluded[c] > s.normal.at)
              => /\ Resolution(s).action = "exclude" /\ Resolution(s).by = "rule"
                 /\ \E c \in Causes : /\ s.excluded[c] > s.normal.at
                                      /\ Resolution(s).at = s.excluded[c]
         /\ ~(\E c \in Causes : s.excluded[c] > s.normal.at)
              /\ ~(s.normal.at = 0 /\ s.included # 0)
              => Resolution(s) = [action |-> s.normal.action, at |-> s.normal.at, by |-> "rule"]
         /\ ~(\E c \in Causes : s.excluded[c] > s.normal.at)
              /\ s.normal.at = 0 /\ s.included # 0
              => Resolution(s) = [action |-> "include", at |-> s.included, by |-> "legacy"]
<1> DEFINE later == {c \in Causes : s.excluded[c] > s.normal.at}
           last  == CHOOSE c \in later : \A d \in later : s.excluded[d] <= s.excluded[c]
           acted == IF later = {} THEN s.normal ELSE [action |-> "exclude", at |-> s.excluded[last]]
<1>1. Resolution(s) = IF acted.at = 0 /\ s.included # 0
                      THEN [action |-> "include", at |-> s.included, by |-> "legacy"]
                      ELSE [action |-> acted.action, at |-> acted.at, by |-> "rule"]
  BY DEF Resolution
<1>2. s.excluded \in [Causes -> Nat] /\ s.normal \in [action : {"include", "exclude"}, at : Nat]
  BY DEF States
<1>3. ASSUME later # {} PROVE last \in later /\ s.excluded[last] > s.normal.at
  <2>1. \E c \in later : \A d \in later : s.excluded[d] <= s.excluded[c]
    BY <1>2, <1>3, LatestCause
  <2>2. last \in later
    BY <2>1
  <2>3. QED
    BY <2>2
<1>4. CASE later # {}
  <2> HIDE DEF last
  <2>1. acted = [action |-> "exclude", at |-> s.excluded[last]]
    BY <1>4
  <2>2. last \in Causes /\ s.excluded[last] > s.normal.at /\ s.excluded[last] # 0
    BY <1>2, <1>3, <1>4
  <2>3. Resolution(s) = [action |-> "exclude", at |-> s.excluded[last], by |-> "rule"]
    BY <1>1, <2>1, <2>2
  <2>4. QED
    BY <1>4, <2>2, <2>3
<1>5. CASE later = {}
  <2>1. acted = s.normal
    BY <1>5
  <2> HIDE DEF acted
  <2>2. QED
    BY <1>1, <1>5, <2>1
<1>6. QED
  BY <1>4, <1>5

\* The verdict, by what was seen.
LEMMA EvaluateIs ==
  ASSUME NEW rules, NEW ctx
  PROVE  LET s == Weighing(rules, ctx)  action == Resolution(s) IN
         /\ Evaluate(rules, ctx).action = action.action
         /\ Evaluate(rules, ctx).by = action.by
         /\ Evaluate(rules, ctx).mode = s.mode
         /\ Evaluate(rules, ctx).status = "blocked" <=> Undecided(s, action)
         /\ Evaluate(rules, ctx).status = "selected"
              <=> ~Undecided(s, action) /\ action.action # "exclude"
<1> DEFINE s == Weighing(rules, ctx)
           action == Resolution(s)
           status == CASE Undecided(s, action) -> "blocked"
                       [] ~Undecided(s, action) /\ action.action = "exclude" -> "skipped"
                       [] OTHER -> "selected"
<1>1. Evaluate(rules, ctx)
        = [status |-> status, action |-> action.action, by |-> action.by, mode |-> s.mode]
  BY DEF Evaluate
<1>2. Undecided(s, action) \in BOOLEAN
  BY DEF Undecided
<1> HIDE DEF s, action
<1>3. /\ status = "blocked" <=> Undecided(s, action)
      /\ status = "selected" <=> ~Undecided(s, action) /\ action.action # "exclude"
  BY <1>2
<1> HIDE DEF status
<1>4. QED
  BY <1>1, <1>3 DEF s, action

----------------------------------------------------------------------------
(* Excluded scopes *)

\* A rule of no manager, with no legacy effect, that excludes and matches: after
\* it something excludes.
LEMMA LastExcludes ==
  ASSUME NEW n \in Nat, NEW s, LeftBy(s, n), NEW rule \in RuleFacts, NEW ctx,
         ctx.manager \in Managers \cup {"unknown"},
         rule.manager = "any", rule.action = "exclude", rule.effect = "none",
         MatchesWithoutManager(rule, ctx)
  PROVE  LET t == Weighed(s, rule, n + 1, ctx) IN
         t.normal = [action |-> "exclude", at |-> n + 1]
<1>1. s \in States /\ n + 1 \in Nat
  BY DEF LeftBy
<1> DEFINE a == Acted(s, rule, n + 1)
<1>2. a \in States /\ a.normal = [action |-> "exclude", at |-> n + 1]
  BY <1>1, ActedTyped
<1>3. Weighed(s, rule, n + 1, ctx) = Moded(a, rule, n + 1)
  BY WeighedCases DEF Taken
<1>4. Moded(a, rule, n + 1).normal = a.normal
  BY <1>1, <1>2, ModedTyped
<1>5. QED
  BY <1>2, <1>3, <1>4

\* Where something excludes, nothing is selected.
LEMMA NotSelected ==
  ASSUME NEW rules \in Seq(RuleFacts), NEW ctx, ctx.manager \in Managers \cup {"unknown"},
         Weighing(rules, ctx).normal.action = "exclude",
         Weighing(rules, ctx).normal.at # 0
  PROVE  Evaluate(rules, ctx).status # "selected"
<1> DEFINE s == Weighing(rules, ctx)
<1>1. s \in States
  BY WeighingReached DEF LeftBy
<1>2. Resolution(s).action = "exclude"
  <2> HIDE DEF s
  <2>1. s.normal.action = "exclude" /\ s.normal.at # 0
    BY DEF s
  <2>2. QED
    BY <1>1, <2>1, ResolutionIs
<1>3. QED
  BY <1>2, EvaluateIs

Flags == [workspaces : SUBSET Workspaces, catalogs : SUBSET Catalogs]

WorkspaceRule(flags) ==
  [Broad("exclude", "none", "none") EXCEPT
     !.workspaces = flags.workspaces, !.roles = {"direct", "consumer"}]
CatalogRule(flags) == [Broad("exclude", "none", "none") EXCEPT !.catalogs = flags.catalogs]

\* The rules of excluded scopes exclude, for every manager.
LEMMA ScopeRules ==
  ASSUME NEW flags \in Flags
  PROVE  /\ WorkspaceRule(flags) \in RuleFacts /\ CatalogRule(flags) \in RuleFacts
         /\ \A r \in {WorkspaceRule(flags), CatalogRule(flags)} :
              r.manager = "any" /\ r.action = "exclude" /\ r.effect = "none" /\ r.mode = "none"
BY DEF WorkspaceRule, CatalogRule, Broad, RuleFacts, Flags, Roles, Effects

\* They come last.
LEMMA AppendedAre ==
  ASSUME NEW rules \in Seq(RuleFacts), NEW flags \in Flags
  PROVE  Appended(rules, flags)
           = Append(Append(rules, WorkspaceRule(flags)), CatalogRule(flags))
<1> DEFINE w == WorkspaceRule(flags)
           c == CatalogRule(flags)
<1>1. Appended(rules, flags) = rules \o <<w, c>>
  BY DEF Appended, WorkspaceRule, CatalogRule
<1>2. w \in RuleFacts /\ c \in RuleFacts
  BY ScopeRules
<1> HIDE DEF w, c
<1>3. rules \o <<w, c>> = Append(Append(rules, w), c)
  BY <1>2
<1>4. QED
  BY <1>1, <1>3 DEF w, c

\* What an excluded scope holds is not selected, whatever rules come before.
LEMMA ScopesNotSelected ==
  ASSUME NEW rules \in Seq(RuleFacts), NEW flags \in Flags, NEW ctx \in Contexts,
         \/ ctx.workspace \in flags.workspaces /\ ctx.role \in {"direct", "consumer"}
         \/ ctx.catalog \in flags.catalogs
  PROVE  Evaluate(Appended(rules, flags), ctx).status # "selected"
<1> DEFINE w == WorkspaceRule(flags)
           c == CatalogRule(flags)
           n == Len(rules)
           s == Weighing(rules, ctx)
           t == Weighing(Append(rules, w), ctx)
           u == Weighing(Append(Append(rules, w), c), ctx)
<1>1. w \in RuleFacts /\ c \in RuleFacts /\ n \in Nat
  BY ScopeRules
<1>2. ctx.manager \in Managers \cup {"unknown"}
  BY DEF Contexts
<1>3. /\ Append(rules, w) \in Seq(RuleFacts) /\ Len(Append(rules, w)) = n + 1
      /\ Append(Append(rules, w), c) \in Seq(RuleFacts)
      /\ Len(Append(Append(rules, w), c)) = n + 2
  <2> HIDE DEF w, c
  <2>1. QED
    BY <1>1
<1>4. t = Weighed(s, w, n + 1, ctx)
  <2> HIDE DEF w
  <2>1. QED
    BY <1>1, WeighingNext
<1>5. u = Weighed(t, c, n + 2, ctx)
  <2> HIDE DEF w, c
  <2>1. Weighing(Append(Append(rules, w), c), ctx)
          = Weighed(Weighing(Append(rules, w), ctx), c, Len(Append(rules, w)) + 1, ctx)
    BY <1>1, <1>3, WeighingNext
  <2>2. Len(Append(rules, w)) + 1 = n + 2
    BY <1>1, <1>3
  <2>3. QED
    BY <2>1, <2>2
<1>6. LeftBy(s, n) /\ LeftBy(t, n + 1)
  <2> HIDE DEF w
  <2>1. LeftBy(t, Len(Append(rules, w)))
    BY <1>2, <1>3, WeighingReached
  <2>2. LeftBy(s, n)
    BY <1>2, WeighingReached
  <2>3. QED
    BY <1>3, <2>1, <2>2
<1>7. u.normal.action = "exclude" /\ u.normal.at # 0
  <2>1. CASE ctx.catalog \in flags.catalogs
    <3>1. MatchesWithoutManager(c, ctx)
      BY <2>1 DEF MatchesWithoutManager, CatalogRule, Broad, Contexts
    <3> HIDE DEF w, c, s, t, u, n
    <3>2. c.manager = "any" /\ c.action = "exclude" /\ c.effect = "none"
      BY ScopeRules DEF c
    <3>3. Weighed(t, c, (n + 1) + 1, ctx).normal = [action |-> "exclude", at |-> (n + 1) + 1]
      BY <1>1, <1>2, <1>6, <3>1, <3>2, LastExcludes
    <3>4. (n + 1) + 1 = n + 2 /\ n + 2 # 0
      BY <1>1
    <3>5. QED
      BY <1>5, <3>3, <3>4
  <2>2. CASE ctx.workspace \in flags.workspaces /\ ctx.role \in {"direct", "consumer"}
               /\ ctx.catalog \notin flags.catalogs
    <3>1. MatchesWithoutManager(w, ctx)
      BY <2>2 DEF MatchesWithoutManager, WorkspaceRule, Broad, Contexts
    <3>2. ~MatchesWithoutManager(c, ctx)
      BY <2>2 DEF MatchesWithoutManager, CatalogRule, Broad, Contexts
    <3> HIDE DEF w, c, s, t, u, n
    <3>3. w.manager = "any" /\ w.action = "exclude" /\ w.effect = "none"
      BY ScopeRules DEF w
    <3>4. t.normal = [action |-> "exclude", at |-> n + 1]
      BY <1>1, <1>2, <1>4, <1>6, <3>1, <3>3, LastExcludes
    <3>5. u = t
      BY <1>1, <1>2, <1>5, <3>2, WeighedCases
    <3>6. QED
      BY <1>1, <3>4, <3>5
  <2>3. QED
    BY <2>1, <2>2
<1>8. Evaluate(Append(Append(rules, w), c), ctx).status # "selected"
  <2> HIDE DEF w, c
  <2>1. QED
    BY <1>2, <1>3, <1>7, NotSelected
<1>9. QED
  BY <1>8, AppendedAre

----------------------------------------------------------------------------
(* Decisions without a manager *)

\* What the rules a known manager decides on may change.
Tied(u, k) ==
  /\ u.excluded = k.excluded /\ u.included = k.included
  /\ \/ k.normal = u.normal
     \/ \E p \in u.pending : p.action /\ p.at = k.normal.at /\ u.normal.at < p.at
  /\ \/ k.mode = u.mode
     \/ \E p \in u.pending : p.mode /\ u.modeAt < p.at

\* What a rule does to the legacy exclusions depends on these alone.
LEMMA ActedAlike ==
  ASSUME NEW s \in States, NEW t \in States, NEW rule \in RuleFacts, NEW at \in Nat,
         s.excluded = t.excluded, s.included = t.included
  PROVE  /\ Acted(s, rule, at).excluded = Acted(t, rule, at).excluded
         /\ Acted(s, rule, at).included = Acted(t, rule, at).included
<1>1. CASE rule.action = "none"
  BY <1>1 DEF Acted
<1>2. CASE rule.action # "none" /\ rule.effect = "none"
  BY <1>2 DEF Acted, States, RuleFacts
<1>3. CASE rule.action # "none" /\ rule.effect # "none"
  <2> DEFINE e == rule.effect
             x == Compatibly(s, e, at)
             y == Compatibly(t, e, at)
  <2>1. Acted(s, rule, at) = x /\ Acted(t, rule, at) = y
    BY <1>3 DEF Acted
  <2>2. x.excluded = y.excluded /\ x.included = y.included
    <3>2. CASE e = "include-default"
      BY <3>2 DEF Compatibly, States, Causes
    <3>3. CASE e \in {"global-ignore", "package-ignore", "exclude-filter"}
      <4>1. x = [s EXCEPT !.excluded[e] = at] /\ y = [t EXCEPT !.excluded[e] = at]
        <5>2. CASE e = "global-ignore"
          BY <5>2 DEF Compatibly, Causes
        <5>3. CASE e = "package-ignore"
          BY <5>3 DEF Compatibly, Causes
        <5>4. CASE e = "exclude-filter"
          BY <5>4 DEF Compatibly, Causes
        <5>5. QED
          BY <3>3, <5>2, <5>3, <5>4
      <4> HIDE DEF x, y
      <4>2. QED
        BY <3>3, <4>1 DEF States, Causes
    <3>4. CASE e \in {"clear-global-ignore", "clear-any-ignore"}
      <4> DEFINE causes == {"global-ignore"}
                             \cup IF e = "clear-any-ignore" THEN {"package-ignore"} ELSE {}
      <4>1. /\ x = [s EXCEPT !.excluded = Without(@, causes),
                             !.included = IF Stand(s.excluded, causes) THEN at ELSE @]
            /\ y = [t EXCEPT !.excluded = Without(@, causes),
                             !.included = IF Stand(t.excluded, causes) THEN at ELSE @]
        BY <3>4 DEF Compatibly, Causes
      <4> HIDE DEF causes, x, y
      <4>2. QED
        BY <4>1 DEF States
    <3>5. CASE e \in {"include-match", "include-reset"}
      <4>1. /\ x = [s EXCEPT !.excluded = Without(@, {"include-default"}), !.included = at]
            /\ y = [t EXCEPT !.excluded = Without(@, {"include-default"}), !.included = at]
        BY <3>5 DEF Compatibly, Causes
      <4> HIDE DEF x, y
      <4>2. QED
        BY <4>1 DEF States
    <3>6. CASE e = "exclude-reset"
      <4>1. /\ x = [s EXCEPT !.excluded = Without(@, {"exclude-filter"}), !.included = at]
            /\ y = [t EXCEPT !.excluded = Without(@, {"exclude-filter"}), !.included = at]
        BY <3>6 DEF Compatibly, Causes
      <4> HIDE DEF x, y
      <4>2. QED
        BY <4>1 DEF States
    <3>7. QED
      BY <1>3, <3>2, <3>3, <3>4, <3>5, <3>6 DEF RuleFacts, Effects, Causes
  <2>3. QED
    BY <2>1, <2>2
<1>4. QED
  BY <1>1, <1>2, <1>3

\* A rule keeps apart only what waits for a manager.
LEMMA TiedStep ==
  ASSUME NEW n \in Nat, NEW u, NEW k, LeftBy(u, n), LeftBy(k, n), Tied(u, k),
         NEW rule \in RuleFacts, NEW ctx \in Contexts, ctx.manager = "unknown",
         NEW manager \in Managers
  PROVE  Tied(Weighed(u, rule, n + 1, ctx),
              Weighed(k, rule, n + 1, [ctx EXCEPT !.manager = manager]))
<1> DEFINE known == [ctx EXCEPT !.manager = manager]
           v == Weighed(u, rule, n + 1, ctx)
           l == Weighed(k, rule, n + 1, known)
           Took(s) == Taken(s, rule, n + 1)
           p == Waiting(rule, n + 1)
<1>1. u \in States /\ k \in States /\ n + 1 \in Nat
  BY DEF LeftBy
<1>2. known.manager = manager /\ manager # "unknown"
  BY PolicyAssumption DEF Contexts
<1>3. MatchesWithoutManager(rule, known) <=> MatchesWithoutManager(rule, ctx)
  BY DEF MatchesWithoutManager, Contexts
<1>4. ctx.manager \in Managers \cup {"unknown"} /\ known.manager \in Managers \cup {"unknown"}
  BY <1>2
<1>5. ASSUME NEW s \in States
      PROVE  /\ Took(s) \in States /\ Took(s).pending = s.pending
             /\ Took(s).normal = IF rule.action # "none" /\ rule.effect = "none"
                                  THEN [action |-> rule.action, at |-> n + 1] ELSE s.normal
             /\ Took(s).excluded = Acted(s, rule, n + 1).excluded
             /\ Took(s).included = Acted(s, rule, n + 1).included
             /\ rule.mode = "none" => Took(s).mode = s.mode /\ Took(s).modeAt = s.modeAt
             /\ rule.mode # "none" => Took(s).mode = rule.mode /\ Took(s).modeAt = n + 1
  <2> DEFINE a == Acted(s, rule, n + 1)
  <2>1. /\ a \in States /\ a.mode = s.mode /\ a.modeAt = s.modeAt /\ a.pending = s.pending
        /\ a.normal = IF rule.action # "none" /\ rule.effect = "none"
                      THEN [action |-> rule.action, at |-> n + 1] ELSE s.normal
    BY <1>1, ActedTyped
  <2> HIDE DEF a
  <2>2. QED
    BY <1>1, <2>1, ModedTyped DEF a, Taken
<1>6. CASE ~MatchesWithoutManager(rule, ctx)
  <2>1. v = u /\ l = k
    <3> HIDE DEF known
    <3>1. v = u
      BY <1>4, <1>6, WeighedCases
    <3>2. l = k
      BY <1>3, <1>4, <1>6, WeighedCases
    <3>3. QED
      BY <3>1, <3>2
  <2>2. QED
    BY <2>1
<1>7. CASE MatchesWithoutManager(rule, ctx) /\ rule.manager = "any"
  <2>1. v = Took(u) /\ l = Took(k)
    BY <1>3, <1>4, <1>7, WeighedCases
  <2>2. v.excluded = l.excluded /\ v.included = l.included
    BY <1>1, <1>5, <2>1, ActedAlike DEF Tied
  <2>3. /\ v.pending = u.pending
        /\ \/ v.normal = l.normal
           \/ v.normal = u.normal /\ l.normal = k.normal
        /\ \/ v.mode = l.mode
           \/ v.mode = u.mode /\ v.modeAt = u.modeAt /\ l.mode = k.mode
    <3> HIDE DEF v, l, Took
    <3>1. QED
      BY <1>1, <1>5, <2>1
  <2> HIDE DEF v, l
  <2>4. Tied(v, l)
    BY <2>2, <2>3, Zenon DEF Tied
  <2>5. QED
    BY <2>4 DEF v, l
<1>8. CASE MatchesWithoutManager(rule, ctx) /\ rule.manager # "any"
  <2>1. v = Waits(u, rule, n + 1)
    BY <1>4, <1>8, WeighedCases
  <2>2. l = k \/ l = Took(k)
    <3> HIDE DEF known
    <3>1. known.manager # "unknown" /\ MatchesWithoutManager(rule, known)
      BY <1>2, <1>3, <1>8
    <3>2. l \in {k, Took(k)}
      BY <1>4, <1>8, <3>1, WeighedCases
    <3>3. QED
      BY <3>2
  <2>3. rule.effect = "none" /\ rule.action \in {"none", "include", "exclude"}
    BY <1>8 DEF RuleFacts
  <2>4. /\ v.pending = u.pending \cup {p} /\ v.normal = u.normal /\ v.mode = u.mode
        /\ v.modeAt = u.modeAt /\ v.excluded = u.excluded /\ v.included = u.included
    <3> HIDE DEF v
    <3>1. QED
      BY <1>1, <2>1 DEF States, Waits
  <2>5. l.excluded = k.excluded /\ l.included = k.included
    <3>1. Acted(k, rule, n + 1).excluded = k.excluded
            /\ Acted(k, rule, n + 1).included = k.included
      BY <1>1, <2>3 DEF Acted, States
    <3>2. QED
      BY <1>1, <1>5, <2>2, <3>1
  <2>6. \/ l.normal = k.normal
        \/ p.action /\ l.normal.at = n + 1
    <3>1. CASE rule.action = "none"
      <4> HIDE DEF l, Took
      <4>1. QED
        BY <1>1, <1>5, <2>2, <3>1
    <3>2. CASE rule.action # "none"
      <4>1. p.action
        BY <3>2 DEF Waiting
      <4> HIDE DEF l, Took, p
      <4>2. Took(k).normal = [action |-> rule.action, at |-> n + 1]
        BY <1>1, <1>5, <2>3, <3>2
      <4>3. QED
        BY <2>2, <4>1, <4>2
    <3>3. QED
      BY <3>1, <3>2
  <2>7. \/ l.mode = k.mode
        \/ p.mode
    <3> HIDE DEF l, Took
    <3>1. QED
      BY <1>1, <1>5, <2>2 DEF Waiting
  <2>8. p.at = n + 1 /\ u.normal.at < n + 1 /\ u.modeAt < n + 1
    BY <1>1 DEF LeftBy, States, Waiting
  <2> HIDE DEF v, l, p
  <2>9. \/ l.normal = v.normal
        \/ \E q \in v.pending : q.action /\ q.at = l.normal.at /\ v.normal.at < q.at
    BY <2>4, <2>6, <2>8 DEF Tied
  <2>10. \/ l.mode = v.mode
         \/ \E q \in v.pending : q.mode /\ v.modeAt < q.at
    BY <2>4, <2>7, <2>8 DEF Tied
  <2>11. Tied(v, l)
    <3>1. v.excluded = l.excluded /\ v.included = l.included
      BY <2>4, <2>5 DEF Tied
    <3>2. QED
      BY <2>9, <2>10, <3>1 DEF Tied
  <2>12. QED
    BY <2>11 DEF v, l
<1>9. QED
  BY <1>6, <1>7, <1>8

\* So do all rules.
LEMMA WeighingTied ==
  ASSUME NEW rules \in Seq(RuleFacts), NEW ctx \in Contexts, ctx.manager = "unknown",
         NEW manager \in Managers
  PROVE  Tied(Weighing(rules, ctx), Weighing(rules, [ctx EXCEPT !.manager = manager]))
<1> DEFINE n == Len(rules)
           known == [ctx EXCEPT !.manager = manager]
<1>1. n \in Nat /\ \A i \in 1..n : rules[i] \in RuleFacts
  OBVIOUS
<1>2. ctx.manager \in Managers \cup {"unknown"} /\ known.manager \in Managers \cup {"unknown"}
  BY DEF Contexts
<1>3. PICK f : /\ f[0] = Unweighed
               /\ \A i \in 1..n : f[i] = Weighed(f[i - 1], rules[i], i, ctx)
               /\ Weighing(rules, ctx) = f[n]
  BY <1>1, WeighingTraced
<1>4. PICK g : /\ g[0] = Unweighed
               /\ \A i \in 1..n : g[i] = Weighed(g[i - 1], rules[i], i, known)
               /\ Weighing(rules, known) = g[n]
  BY <1>1, WeighingTraced
<1> HIDE DEF n, known
<1> DEFINE S == {k \in Nat : k <= n => /\ LeftBy(f[k], k) /\ LeftBy(g[k], k)
                                        /\ Tied(f[k], g[k])}
<1>5. 0 \in S
  <2>1. Tied(Unweighed, Unweighed)
    BY DEF Tied
  <2>2. QED
    BY <1>3, <1>4, <2>1, UnweighedReached
<1>6. ASSUME NEW k \in S PROVE k + 1 \in S
  <2>1. SUFFICES ASSUME k + 1 <= n
                 PROVE  /\ LeftBy(f[k + 1], k + 1) /\ LeftBy(g[k + 1], k + 1)
                        /\ Tied(f[k + 1], g[k + 1])
    OBVIOUS
  <2>2. /\ k + 1 \in 1..n /\ (k + 1) - 1 = k /\ rules[k + 1] \in RuleFacts
        /\ LeftBy(f[k], k) /\ LeftBy(g[k], k) /\ Tied(f[k], g[k])
    BY <1>1, <2>1
  <2>3. f[k + 1] = Weighed(f[k], rules[k + 1], k + 1, ctx)
    BY <1>3, <2>2
  <2>4. g[k + 1] = Weighed(g[k], rules[k + 1], k + 1, known)
    BY <1>4, <2>2
  <2>5. LeftBy(f[k + 1], k + 1) /\ LeftBy(g[k + 1], k + 1)
    BY <1>2, <2>2, <2>3, <2>4, WeighedReaches
  <2>6. Tied(f[k + 1], g[k + 1])
    BY <2>2, <2>3, <2>4, TiedStep DEF known
  <2>7. QED
    BY <2>5, <2>6
<1> HIDE DEF S
<1>7. S \in SUBSET Nat
  BY DEF S
<1>8. n \in S
  BY <1>1, <1>5, <1>6, <1>7, Induction
<1>9. Tied(f[n], g[n])
  BY <1>1, <1>8 DEF S
<1>10. QED
  BY <1>3, <1>4, <1>9 DEF known

\* A decision that does not wait is the one with any manager.
LEMMA DecidesForAll ==
  ASSUME NEW rules \in Seq(RuleFacts), NEW ctx \in Contexts, ctx.manager = "unknown",
         NEW manager \in Managers,
         Evaluate(rules, ctx).status # "blocked", Evaluate(rules, ctx).by # "legacy"
  PROVE  LET known == Evaluate(rules, [ctx EXCEPT !.manager = manager]) IN
         known.action = Evaluate(rules, ctx).action /\ known.mode = Evaluate(rules, ctx).mode
<1> DEFINE other == [ctx EXCEPT !.manager = manager]
           u == Weighing(rules, ctx)
           k == Weighing(rules, other)
<1>1. ctx.manager \in Managers \cup {"unknown"} /\ other.manager \in Managers \cup {"unknown"}
  BY DEF Contexts
<1>2. u \in States /\ k \in States
  BY <1>1, WeighingReached DEF LeftBy
<1>3. Tied(u, k)
  BY WeighingTied
<1>4. ~Undecided(u, Resolution(u)) /\ Resolution(u).by # "legacy"
  BY EvaluateIs
<1> HIDE DEF u, k
<1>5. k.mode = u.mode
  <2>1. \A p \in u.pending : p.mode => ~(u.modeAt <= p.at)
    BY <1>4 DEF Undecided
  <2>2. \A p \in u.pending : p.at \in Nat /\ u.modeAt \in Nat
    BY <1>2 DEF States
  <2>3. ~\E p \in u.pending : p.mode /\ u.modeAt < p.at
    BY <2>1, <2>2
  <2>4. QED
    BY <1>3, <2>3, Zenon DEF Tied
<1>6. Resolution(k).action = Resolution(u).action
  <2>1. /\ u.normal \in [action : {"include", "exclude"}, at : Nat]
        /\ k.normal \in [action : {"include", "exclude"}, at : Nat]
        /\ u.excluded \in [Causes -> Nat] /\ u.included \in Nat
        /\ k.excluded = u.excluded /\ k.included = u.included
    BY <1>2, <1>3 DEF States, Tied
  <2>2. CASE k.normal = u.normal
    <3>1. CASE \E c \in Causes : u.excluded[c] > u.normal.at
      <4>1. Resolution(u).action = "exclude"
        BY <1>2, <3>1, ResolutionIs
      <4>2. Resolution(k).action = "exclude"
        BY <1>2, <2>1, <2>2, <3>1, ResolutionIs
      <4>3. QED
        BY <4>1, <4>2
    <3>2. CASE ~\E c \in Causes : u.excluded[c] > u.normal.at
      <4>1. ~(u.normal.at = 0 /\ u.included # 0)
        BY <1>2, <1>4, <3>2, ResolutionIs
      <4>2. Resolution(u).action = u.normal.action
        BY <1>2, <3>2, <4>1, ResolutionIs
      <4>3. Resolution(k).action = k.normal.action
        BY <1>2, <2>1, <2>2, <3>2, <4>1, ResolutionIs
      <4>4. QED
        BY <2>2, <4>2, <4>3
    <3>3. QED
      BY <3>1, <3>2
  <2>3. CASE k.normal # u.normal
    <3>1. PICK p \in u.pending : p.action /\ p.at = k.normal.at /\ u.normal.at < p.at
      BY <1>3, <2>3 DEF Tied
    <3>2. ~(Resolution(u).at <= p.at)
      BY <1>4, <3>1 DEF Undecided
    <3>3. p.at \in Nat
      BY <1>2 DEF States
    <3>4. PICK c \in Causes : u.excluded[c] > u.normal.at /\ Resolution(u).at = u.excluded[c]
      <4>1. SUFFICES ASSUME ~\E c \in Causes : u.excluded[c] > u.normal.at PROVE FALSE
        BY <1>2, ResolutionIs
      <4>2. ~(u.normal.at = 0 /\ u.included # 0)
        BY <1>2, <1>4, <4>1, ResolutionIs
      <4>3. Resolution(u).at = u.normal.at
        BY <1>2, <4>1, <4>2, ResolutionIs
      <4>4. QED
        BY <2>1, <3>1, <3>2, <3>3, <4>3
    <3>5. k.excluded[c] > k.normal.at
      BY <2>1, <3>1, <3>2, <3>3, <3>4
    <3>6. Resolution(k).action = "exclude"
      BY <1>2, <3>5, ResolutionIs
    <3>7. Resolution(u).action = "exclude"
      BY <1>2, <3>4, ResolutionIs
    <3>8. QED
      BY <3>6, <3>7
  <2>4. QED
    BY <2>2, <2>3
<1>7. QED
  BY <1>5, <1>6, EvaluateIs DEF u, k

----------------------------------------------------------------------------
(* Compiling *)

IsMerged(f, entries, more, n) ==
  f = [k \in 0..n |-> IF k = 0 THEN entries ELSE Entered(f[k - 1], more[k])]

\* There is a record of the entries after each that is merged.
LEMMA MergedExists ==
  ASSUME NEW entries, NEW more, NEW n \in Nat
  PROVE  \E f : IsMerged(f, entries, more, n)
<1> DEFINE Has == {k \in Nat : \E f : IsMerged(f, entries, more, k)}
           Step(s, i) == Entered(s, more[i])
<1>1. 0 \in Has
  <2> DEFINE f == [i \in 0..0 |-> entries]
  <2>1. f = [i \in 0..0 |-> IF i = 0 THEN entries ELSE Step(f[i - 1], i)]
    <3> HIDE DEF Step
    <3> QED OBVIOUS
  <2> HIDE DEF f
  <2>2. IsMerged(f, entries, more, 0)
    BY <2>1 DEF IsMerged
  <2>3. QED
    BY <2>2
<1>2. ASSUME NEW k \in Has PROVE k + 1 \in Has
  <2>1. PICK f : IsMerged(f, entries, more, k)
    OBVIOUS
  <2> DEFINE g == [i \in 0..(k + 1) |-> IF i <= k THEN f[i] ELSE Step(f[k], k + 1)]
  <2>2. \A i \in 0..k : f[i] = IF i = 0 THEN entries ELSE Step(f[i - 1], i)
    BY <2>1 DEF IsMerged
  <2> HIDE DEF Step
  <2>3. \A i \in 0..(k + 1) : g[i] = IF i = 0 THEN entries ELSE Step(g[i - 1], i)
    BY <2>2
  <2>4. g = [i \in 0..(k + 1) |-> IF i = 0 THEN entries ELSE Step(g[i - 1], i)]
    BY <2>3
  <2> HIDE DEF g
  <2>5. IsMerged(g, entries, more, k + 1)
    BY <2>4 DEF IsMerged, Step
  <2>6. QED
    BY <2>5
<1> HIDE DEF Has
<1>3. Has \in SUBSET Nat
  BY DEF Has
<1>4. n \in Has
  BY <1>1, <1>2, <1>3, Induction
<1>5. QED
  BY <1>4 DEF Has

\* Merged follows such a record to its end.
LEMMA MergedTraced ==
  ASSUME NEW entries, NEW more, Len(more) \in Nat
  PROVE  \E f : /\ f[0] = entries
                /\ \A k \in 1..Len(more) : f[k] = Entered(f[k - 1], more[k])
                /\ Merged(entries, more) = f[Len(more)]
<1> DEFINE h == CHOOSE f : IsMerged(f, entries, more, Len(more))
           Step(s, i) == Entered(s, more[i])
<1>1. IsMerged(h, entries, more, Len(more))
  BY MergedExists
<1>2. Merged(entries, more) = h[Len(more)]
  BY DEF Merged, IsMerged
<1> HIDE DEF h
<1>3. \A i \in 0..Len(more) : h[i] = IF i = 0 THEN entries ELSE Step(h[i - 1], i)
  BY <1>1 DEF IsMerged
<1> HIDE DEF Step
<1>4. h[0] = entries
  <2>1. 0 \in 0..Len(more)
    OBVIOUS
  <2>2. QED
    BY ONLY <1>3, <2>1, Zenon
<1>5. \A i \in 1..Len(more) : h[i] = Step(h[i - 1], i)
  <2>1. \A i \in 1..Len(more) : i \in 0..Len(more) /\ i # 0
    OBVIOUS
  <2>2. QED
    BY <1>3, <2>1
<1>6. QED
  BY <1>2, <1>4, <1>5 DEF Step

PatternsOf(entries) == {entries[i].pattern : i \in DOMAIN entries}

\* No pattern stands twice.
Distinct(entries) ==
  \A i, j \in DOMAIN entries : entries[i].pattern = entries[j].pattern => i = j

\* An entry takes the place of its pattern, or comes last.
LEMMA EnteredIs ==
  ASSUME NEW entries \in Seq(Entries), NEW e \in Entries
  PROVE  /\ Entered(entries, e) \in Seq(Entries)
         /\ PatternsOf(Entered(entries, e)) = PatternsOf(entries) \cup {e.pattern}
         /\ Distinct(entries) => Distinct(Entered(entries, e))
<1> DEFINE n == Len(entries)
           all == Entered(entries, e)
<1>1. n \in Nat /\ DOMAIN entries = 1..n /\ \A i \in 1..n : entries[i] \in Entries
  OBVIOUS
<1>2. CASE \E i \in DOMAIN entries : entries[i].pattern = e.pattern
  <2>1. all = [i \in 1..n |-> IF entries[i].pattern = e.pattern THEN e ELSE entries[i]]
    BY <1>1, <1>2 DEF Entered
  <2> HIDE DEF all, n
  <2>2. DOMAIN all = 1..n /\ \A i \in 1..n : all[i] \in Entries
                               /\ all[i].pattern = entries[i].pattern
    BY <1>1, <2>1
  <2>3. all \in Seq(Entries)
    BY <1>1, <2>1, <2>2
  <2>4. PatternsOf(all) = PatternsOf(entries) \cup {e.pattern}
    BY <1>1, <1>2, <2>2 DEF PatternsOf
  <2>5. Distinct(entries) => Distinct(all)
    BY <1>1, <2>2 DEF Distinct
  <2>6. QED
    BY <2>3, <2>4, <2>5 DEF all
<1>3. CASE ~\E i \in DOMAIN entries : entries[i].pattern = e.pattern
  <2>1. all = Append(entries, e)
    BY <1>3 DEF Entered
  <2>2. /\ all \in Seq(Entries) /\ DOMAIN all = 1..(n + 1) /\ all[n + 1] = e
        /\ \A i \in 1..n : all[i] = entries[i]
    BY <1>1, <2>1
  <2> HIDE DEF all, n
  <2>3. PatternsOf(all) = PatternsOf(entries) \cup {e.pattern}
    <3>1. \A i \in 1..(n + 1) : i \in 1..n \/ i = n + 1
      BY <1>1
    <3>2. \A i \in 1..n : i \in 1..(n + 1)
      BY <1>1
    <3>3. n + 1 \in 1..(n + 1)
      BY <1>1
    <3>4. QED
      BY <1>1, <2>2, <3>1, <3>2, <3>3 DEF PatternsOf
  <2>4. Distinct(entries) => Distinct(all)
    <3>1. \A i \in 1..(n + 1) : i \in 1..n \/ i = n + 1
      BY <1>1
    <3>2. \A i \in 1..n : all[i].pattern # all[n + 1].pattern
      BY <1>1, <1>3, <2>2
    <3>3. QED
      BY <1>1, <2>2, <3>1, <3>2 DEF Distinct
  <2>5. QED
    BY <2>2, <2>3, <2>4 DEF all
<1>4. QED
  BY <1>2, <1>3

\* All entries: no pattern is lost, added or doubled.
LEMMA MergedIs ==
  ASSUME NEW entries \in Seq(Entries), NEW more \in Seq(Entries), Distinct(entries)
  PROVE  /\ Merged(entries, more) \in Seq(Entries) /\ Distinct(Merged(entries, more))
         /\ PatternsOf(Merged(entries, more)) = PatternsOf(entries) \cup PatternsOf(more)
<1> DEFINE n == Len(more)
<1>1. n \in Nat /\ DOMAIN more = 1..n /\ \A i \in 1..n : more[i] \in Entries
  OBVIOUS
<1>2. PICK f : /\ f[0] = entries
               /\ \A k \in 1..n : f[k] = Entered(f[k - 1], more[k])
               /\ Merged(entries, more) = f[n]
  BY <1>1, MergedTraced
<1> HIDE DEF n
<1> DEFINE Upto(k) == {more[i].pattern : i \in 1..k}
           S == {k \in Nat : k <= n => /\ f[k] \in Seq(Entries) /\ Distinct(f[k])
                                       /\ PatternsOf(f[k]) = PatternsOf(entries) \cup Upto(k)}
<1>3. Upto(0) = {} /\ \A k \in Nat : Upto(k + 1) = Upto(k) \cup {more[k + 1].pattern}
  <2>1. ASSUME NEW k \in Nat PROVE Upto(k + 1) = Upto(k) \cup {more[k + 1].pattern}
    <3>1. \A i \in 1..(k + 1) : i \in 1..k \/ i = k + 1
      OBVIOUS
    <3>2. \A i \in 1..k : i \in 1..(k + 1)
      OBVIOUS
    <3>3. k + 1 \in 1..(k + 1)
      OBVIOUS
    <3>4. QED
      BY <3>1, <3>2, <3>3
  <2>2. QED
    BY <2>1
<1> HIDE DEF Upto
<1>4. 0 \in S
  BY <1>2, <1>3
<1>5. ASSUME NEW k \in S PROVE k + 1 \in S
  <2>1. SUFFICES ASSUME k + 1 <= n
                 PROVE  /\ f[k + 1] \in Seq(Entries) /\ Distinct(f[k + 1])
                        /\ PatternsOf(f[k + 1]) = PatternsOf(entries) \cup Upto(k + 1)
    OBVIOUS
  <2>2. /\ k + 1 \in 1..n /\ (k + 1) - 1 = k /\ more[k + 1] \in Entries
        /\ f[k] \in Seq(Entries) /\ Distinct(f[k])
        /\ PatternsOf(f[k]) = PatternsOf(entries) \cup Upto(k)
    BY <1>1, <2>1
  <2>3. f[k + 1] = Entered(f[k], more[k + 1])
    BY <1>2, <2>2
  <2>4. k \in Nat /\ Upto(k + 1) = Upto(k) \cup {more[k + 1].pattern}
    BY <1>3
  <2>5. /\ Entered(f[k], more[k + 1]) \in Seq(Entries)
        /\ Distinct(Entered(f[k], more[k + 1]))
        /\ PatternsOf(Entered(f[k], more[k + 1])) = PatternsOf(f[k]) \cup {more[k + 1].pattern}
    BY <2>2, EnteredIs
  <2>6. QED
    BY <2>2, <2>3, <2>4, <2>5
<1> HIDE DEF S
<1>6. S \in SUBSET Nat
  BY DEF S
<1>7. n \in S
  BY <1>1, <1>4, <1>5, <1>6, Induction
<1>8. Upto(n) = PatternsOf(more)
  BY <1>1 DEF Upto, PatternsOf
<1>9. f[n] \in Seq(Entries) /\ Distinct(f[n])
        /\ PatternsOf(f[n]) = PatternsOf(entries) \cup Upto(n)
  BY <1>1, <1>7 DEF S
<1>10. QED
  BY <1>2, <1>8, <1>9

\* Rules without selectors are rules.
LEMMA BroadTyped ==
  ASSUME NEW action \in {"none", "include", "exclude"}, NEW mode \in PolicyModes \cup {"none"},
         NEW effect \in Effects
  PROVE  Broad(action, mode, effect) \in RuleFacts
BY DEF Broad, RuleFacts, Roles

\* So are those for names, as they are compiled.
LEMMA BroadIs ==
  ASSUME NEW action \in {"none", "include", "exclude"}, NEW mode \in PolicyModes \cup {"none"},
         NEW effect \in Effects, NEW names \in SUBSET Names, NEW resolved \in BOOLEAN
  PROVE  /\ Broad(action, mode, effect) \in RuleFacts
         /\ For(names, action, effect) \in RuleFacts
         /\ [For(names, action, effect) EXCEPT !.resolved = resolved] \in RuleFacts
         /\ [For(names, action, effect) EXCEPT !.resolved = resolved, !.mode = mode] \in RuleFacts
BY DEF Broad, For, RuleFacts, Roles

\* Some of the effects.
LEMMA EffectNames ==
  /\ Causes \subseteq Effects
  /\ {"none", "clear-global-ignore", "clear-any-ignore", "include-match", "include-reset",
      "exclude-reset"} \subseteq Effects
BY DEF Effects

\* The rule of mode is a rule.
LEMMA ModeRuleTyped ==
  ASSUME NEW mode \in PolicyModes \cup {"ignore"}, NEW clears \in BOOLEAN
  PROVE  ModeRule(mode, clears) \in RuleFacts
<1>1. CASE mode = "ignore"
  <2>1. ModeRule(mode, clears) = Broad("exclude", "none", "global-ignore")
    BY <1>1 DEF ModeRule
  <2>2. QED
    BY <2>1 DEF Broad, RuleFacts, Roles, Effects, Causes
<1>2. CASE mode # "ignore" /\ clears
  <2>1. ModeRule(mode, clears) = Broad("include", mode, "clear-global-ignore")
    BY <1>2 DEF ModeRule
  <2>2. mode \in PolicyModes \cup {"none"}
    BY <1>2
  <2>3. QED
    BY <2>1, <2>2, BroadTyped, EffectNames
<1>3. CASE mode # "ignore" /\ ~clears
  <2>1. ModeRule(mode, clears) = Broad("none", mode, "none")
    BY <1>3 DEF ModeRule
  <2>2. QED
    BY <1>3, <2>1 DEF Broad, RuleFacts, Roles, Effects
<1>4. QED
  BY <1>1, <1>2, <1>3

\* The rule of an entry is a rule.
LEMMA PackageModeRuleTyped ==
  ASSUME NEW e \in Entries, NEW names \in SUBSET Names
  PROVE  PackageModeRule(e, names) \in RuleFacts
<1>1. CASE e.mode = "ignore"
  BY <1>1, BroadIs, EffectNames DEF PackageModeRule, Causes
<1>2. CASE e.mode # "ignore"
  <2>1. e.mode \in PolicyModes
    BY <1>2 DEF Entries
  <2>2. QED
    BY <1>2, <2>1, BroadIs, EffectNames DEF PackageModeRule
<1>3. QED
  BY <1>1, <1>2

\* The rules of packageMode, one by one.
LEMMA PackageModeRulesAre ==
  ASSUME NEW entries \in Seq(Entries)
  PROVE  LET n == Len(entries)  rules == PackageModeRules(entries) IN
         /\ rules \in Seq(RuleFacts) /\ Len(rules) = n + n
         /\ \A i \in 1..n :
              /\ rules[i] = PackageModeRule(entries[(n - i) + 1], Caught(entries[(n - i) + 1]))
              /\ rules[n + i] = PackageModeRule(entries[i], Spelled(entries[i]))
<1> DEFINE n == Len(entries)
           last == Reverse(entries)
           loose == [i \in DOMAIN entries |-> PackageModeRule(last[i], Caught(last[i]))]
           exact == [i \in DOMAIN entries |-> PackageModeRule(entries[i], Spelled(entries[i]))]
<1>1. n \in Nat /\ DOMAIN entries = 1..n /\ \A i \in 1..n : entries[i] \in Entries
  OBVIOUS
<1>2. \A i \in 1..n : last[i] = entries[(n - i) + 1] /\ (n - i) + 1 \in 1..n
  BY <1>1 DEF Reverse
<1>3. \A e \in Entries : Caught(e) \in SUBSET Names /\ Spelled(e) \in SUBSET Names
  BY DEF Entries, Patterns, Caught, Spelled
<1>4. PackageModeRules(entries) = loose \o exact
  BY DEF PackageModeRules
<1> HIDE DEF last, n
<1>5. loose \in Seq(RuleFacts) /\ Len(loose) = n
        /\ \A i \in 1..n : loose[i] = PackageModeRule(last[i], Caught(last[i]))
  <2>1. \A i \in 1..n : PackageModeRule(last[i], Caught(last[i])) \in RuleFacts
    BY <1>1, <1>2, <1>3, PackageModeRuleTyped
  <2>2. loose = [i \in 1..n |-> PackageModeRule(last[i], Caught(last[i]))]
    BY <1>1
  <2> HIDE DEF loose
  <2>3. QED
    BY <1>1, <2>1, <2>2
<1>6. exact \in Seq(RuleFacts) /\ Len(exact) = n
        /\ \A i \in 1..n : exact[i] = PackageModeRule(entries[i], Spelled(entries[i]))
  <2>1. \A i \in 1..n : PackageModeRule(entries[i], Spelled(entries[i])) \in RuleFacts
    BY <1>1, <1>3, PackageModeRuleTyped
  <2>2. exact = [i \in 1..n |-> PackageModeRule(entries[i], Spelled(entries[i]))]
    BY <1>1
  <2> HIDE DEF exact
  <2>3. QED
    BY <1>1, <2>1, <2>2
<1> HIDE DEF loose, exact
<1> DEFINE rules == loose \o exact
<1>7. /\ rules \in Seq(RuleFacts) /\ Len(rules) = n + n
      /\ \A i \in 1..n : rules[i] = loose[i] /\ rules[n + i] = exact[i]
  BY <1>1, <1>5, <1>6
<1> HIDE DEF rules
<1>8. \A i \in 1..n :
        /\ rules[i] = PackageModeRule(entries[(n - i) + 1], Caught(entries[(n - i) + 1]))
        /\ rules[n + i] = PackageModeRule(entries[i], Spelled(entries[i]))
  BY <1>2, <1>5, <1>6, <1>7
<1>9. QED
  BY <1>4, <1>7, <1>8 DEF rules, n

\* The rules of a filter: one for all, then one for each pattern.
LEMMA FilterRules ==
  ASSUME NEW patterns \in Seq(Patterns), NEW r \in RuleFacts,
         NEW action \in {"include", "exclude"}, NEW effect \in Effects
  PROVE  LET rules == <<r>> \o [i \in DOMAIN patterns |-> For(patterns[i].names, action, effect)]
         IN /\ rules \in Seq(RuleFacts) /\ Len(rules) = Len(patterns) + 1 /\ rules[1] = r
            /\ \A i \in 1..Len(patterns) : rules[i + 1] = For(patterns[i].names, action, effect)
<1> DEFINE n == Len(patterns)
           each == [i \in DOMAIN patterns |-> For(patterns[i].names, action, effect)]
<1>1. n \in Nat /\ DOMAIN patterns = 1..n /\ \A i \in 1..n : patterns[i] \in Patterns
  OBVIOUS
<1>2. \A i \in 1..n : For(patterns[i].names, action, effect) \in RuleFacts
  BY <1>1, BroadIs DEF Patterns
<1>3. each = [i \in 1..n |-> For(patterns[i].names, action, effect)]
  BY <1>1
<1> HIDE DEF each, n
<1>4. /\ each \in Seq(RuleFacts) /\ Len(each) = n
      /\ \A i \in 1..n : each[i] = For(patterns[i].names, action, effect)
  BY <1>1, <1>2, <1>3
<1> DEFINE rules == <<r>> \o each
<1>5. /\ rules \in Seq(RuleFacts) /\ Len(rules) = n + 1 /\ rules[1] = r
      /\ \A i \in 1..n : rules[i + 1] = each[i]
  BY <1>1, <1>4
<1> HIDE DEF rules
<1>6. \A i \in 1..n : rules[i + 1] = For(patterns[i].names, action, effect)
  BY <1>4, <1>5
<1>7. QED
  BY <1>5, <1>6 DEF rules, each, n

----------------------------------------------------------------------------
(* The rules of a layer *)

CompileStates ==
  [mode : PolicyModes \cup {"ignore"}, entries : Seq(Entries), rules : Seq(RuleFacts)]

Uncompiled == [mode |-> "default", entries |-> <<>>, rules |-> <<>>]

\* The rules of include are rules.
LEMMA IncludeRulesTyped ==
  ASSUME NEW patterns \in Seq(Patterns)
  PROVE  IncludeRules(patterns) \in Seq(RuleFacts)
<1>1. CASE patterns = <<>>
  <2> DEFINE r == Broad("include", "none", "include-reset")
  <2>1. r \in RuleFacts
    BY BroadTyped, EffectNames
  <2>2. IncludeRules(patterns) = <<r>>
    BY <1>1 DEF IncludeRules
  <2> HIDE DEF r
  <2>3. QED
    BY <2>1, <2>2
<1>2. CASE patterns # <<>>
  <2> DEFINE r == Broad("exclude", "none", "include-default")
  <2>1. r \in RuleFacts
    BY BroadTyped, EffectNames DEF Causes
  <2>2. IncludeRules(patterns)
          = <<r>> \o [i \in DOMAIN patterns |-> For(patterns[i].names, "include", "include-match")]
    BY <1>2 DEF IncludeRules
  <2> HIDE DEF r
  <2>3. QED
    BY <2>1, <2>2, FilterRules, EffectNames
<1>3. QED
  BY <1>1, <1>2

\* The rules of exclude are rules.
LEMMA ExcludeRulesTyped ==
  ASSUME NEW patterns \in Seq(Patterns)
  PROVE  ExcludeRules(patterns) \in Seq(RuleFacts)
<1> DEFINE r == Broad("include", "none", "exclude-reset")
<1>1. r \in RuleFacts
  BY BroadTyped, EffectNames
<1>2. ExcludeRules(patterns)
        = <<r>> \o [i \in DOMAIN patterns |-> For(patterns[i].names, "exclude", "exclude-filter")]
  BY DEF ExcludeRules
<1> HIDE DEF r
<1>3. "exclude-filter" \in Effects
  BY EffectNames DEF Causes
<1>4. QED
  BY <1>1, <1>2, <1>3, FilterRules

\* The rules a layer adds, part by part.
Part(layer, option, rules) == IF option \in layer.given THEN rules ELSE <<>>
EntriesAfter(c, layer) ==
  IF "packageMode" \in layer.given THEN Merged(c.entries, layer.packageMode) ELSE c.entries
ModePart(c, layer) ==
  Part(layer, "mode", <<ModeRule(layer.mode, c.mode = "ignore" /\ layer.mode # "ignore")>>)
PackagePart(c, layer) ==
  Part(layer, "packageMode", PackageModeRules(EntriesAfter(c, layer)))
IncludePart(layer) == Part(layer, "include", IncludeRules(layer.include))
ExcludePart(layer) == Part(layer, "exclude", ExcludeRules(layer.exclude))

\* The entries after a layer, and their patterns.
LEMMA EntriesTyped ==
  ASSUME NEW c \in CompileStates, NEW layer \in LayerFacts, Distinct(c.entries)
  PROVE  /\ EntriesAfter(c, layer) \in Seq(Entries) /\ Distinct(EntriesAfter(c, layer))
         /\ PatternsOf(EntriesAfter(c, layer))
              = PatternsOf(c.entries)
                  \cup (IF "packageMode" \in layer.given THEN PatternsOf(layer.packageMode)
                        ELSE {})
<1>1. c.entries \in Seq(Entries) /\ layer.packageMode \in Seq(Entries)
  BY DEF CompileStates, LayerFacts
<1>2. CASE "packageMode" \in layer.given
  <2>1. EntriesAfter(c, layer) = Merged(c.entries, layer.packageMode)
    BY <1>2 DEF EntriesAfter
  <2>2. QED
    BY <1>1, <1>2, <2>1, MergedIs
<1>3. CASE "packageMode" \notin layer.given
  <2>1. EntriesAfter(c, layer) = c.entries
    BY <1>3 DEF EntriesAfter
  <2>2. PatternsOf(c.entries) \cup {} = PatternsOf(c.entries)
    OBVIOUS
  <2>3. QED
    BY <1>1, <1>3, <2>1, <2>2
<1>4. QED
  BY <1>2, <1>3

\* Every part is made of rules.
LEMMA PartsTyped ==
  ASSUME NEW c \in CompileStates, NEW layer \in LayerFacts, Distinct(c.entries)
  PROVE  /\ ModePart(c, layer) \in Seq(RuleFacts) /\ PackagePart(c, layer) \in Seq(RuleFacts)
         /\ IncludePart(layer) \in Seq(RuleFacts) /\ ExcludePart(layer) \in Seq(RuleFacts)
<1>1. <<>> \in Seq(RuleFacts)
  OBVIOUS
<1>2. ModePart(c, layer) \in Seq(RuleFacts)
  <2> DEFINE r == ModeRule(layer.mode, c.mode = "ignore" /\ layer.mode # "ignore")
  <2>1. r \in RuleFacts
    <3>1. layer.mode \in PolicyModes \cup {"ignore"}
      BY DEF LayerFacts
    <3>2. (c.mode = "ignore" /\ layer.mode # "ignore") \in BOOLEAN
      OBVIOUS
    <3>3. QED
      BY <3>1, <3>2, ModeRuleTyped
  <2>2. ModePart(c, layer) = IF "mode" \in layer.given THEN <<r>> ELSE <<>>
    BY DEF ModePart, Part
  <2> HIDE DEF r
  <2>3. QED
    BY <1>1, <2>1, <2>2
<1>3. PackagePart(c, layer) \in Seq(RuleFacts)
  <2>1. PackageModeRules(EntriesAfter(c, layer)) \in Seq(RuleFacts)
    BY EntriesTyped, PackageModeRulesAre
  <2>2. QED
    BY <1>1, <2>1 DEF PackagePart, Part
<1>4. IncludePart(layer) \in Seq(RuleFacts)
  <2>1. IncludeRules(layer.include) \in Seq(RuleFacts)
    BY IncludeRulesTyped DEF LayerFacts
  <2>2. QED
    BY <1>1, <2>1 DEF IncludePart, Part
<1>5. ExcludePart(layer) \in Seq(RuleFacts)
  <2>1. ExcludeRules(layer.exclude) \in Seq(RuleFacts)
    BY ExcludeRulesTyped DEF LayerFacts
  <2>2. QED
    BY <1>1, <2>1 DEF ExcludePart, Part
<1>6. QED
  BY <1>2, <1>3, <1>4, <1>5

\* A layer adds its parts in this order.
LEMMA CompiledIs ==
  ASSUME NEW c \in CompileStates, NEW layer \in LayerFacts, Distinct(c.entries)
  PROVE  LET d == Compiled(c, layer) IN
         /\ d \in CompileStates /\ Distinct(d.entries)
         /\ d.mode = (IF "mode" \in layer.given THEN layer.mode ELSE c.mode)
         /\ d.entries = EntriesAfter(c, layer)
         /\ d.rules = c.rules \o ModePart(c, layer) \o PackagePart(c, layer)
                        \o IncludePart(layer) \o ExcludePart(layer) \o layer.rules
<1> DEFINE d == Compiled(c, layer)
           mode == IF "mode" \in layer.given THEN layer.mode ELSE c.mode
           rules == c.rules \o ModePart(c, layer) \o PackagePart(c, layer)
                      \o IncludePart(layer) \o ExcludePart(layer) \o layer.rules
<1>1. d = [mode |-> mode, entries |-> EntriesAfter(c, layer), rules |-> rules]
  BY DEF Compiled, ModePart, PackagePart, IncludePart, ExcludePart, Part, EntriesAfter
<1>2. mode \in PolicyModes \cup {"ignore"} /\ c.rules \in Seq(RuleFacts)
  BY DEF CompileStates, LayerFacts
<1>3. layer.rules \in Seq(RuleFacts)
  <2>1. PolicyRules \subseteq RuleFacts
    BY DEF PolicyRules, RuleFacts, Effects
  <2>2. layer.rules \in Seq(PolicyRules)
    BY DEF LayerFacts
  <2>3. QED
    BY <2>1, <2>2
<1>4. rules \in Seq(RuleFacts)
  BY <1>2, <1>3, PartsTyped
<1>5. EntriesAfter(c, layer) \in Seq(Entries) /\ Distinct(EntriesAfter(c, layer))
  BY EntriesTyped
<1> HIDE DEF d, mode, rules
<1>6. /\ d \in CompileStates /\ Distinct(d.entries) /\ d.mode = mode
      /\ d.entries = EntriesAfter(c, layer) /\ d.rules = rules
  BY <1>1, <1>2, <1>4, <1>5 DEF CompileStates
<1>7. QED
  BY <1>6 DEF d, mode, rules

\* Before the first layer.
LEMMA UncompiledTyped == Uncompiled \in CompileStates /\ Distinct(Uncompiled.entries)
BY DEF Uncompiled, CompileStates, Distinct, PolicyModes

\* Three layers, one after the other.
LEMMA CompileIs ==
  ASSUME NEW x, NEW y, NEW z
  PROVE  Compile(<<x, y, z>>) = Compiled(Compiled(Compiled(Uncompiled, x), y), z).rules
<1> DEFINE layers == <<x, y, z>>
           IsIt(f) == f = [k \in 0..Len(layers) |->
                             IF k = 0 THEN Uncompiled ELSE Compiled(f[k - 1], layers[k])]
           h == CHOOSE f : IsIt(f)
           one == Compiled(Uncompiled, x)
           two == Compiled(one, y)
           three == Compiled(two, z)
<1>1. Compile(layers) = h[Len(layers)].rules
  BY DEF Compile, Uncompiled
<1>2. Len(layers) = 3 /\ layers[1] = x /\ layers[2] = y /\ layers[3] = z
  OBVIOUS
<1>3. \E f : IsIt(f)
  <2> DEFINE f == [k \in 0..3 |-> IF k = 0 THEN Uncompiled ELSE IF k = 1 THEN one
                                  ELSE IF k = 2 THEN two ELSE three]
  <2>1. f[0] = Uncompiled /\ f[1] = one /\ f[2] = two /\ f[3] = three
    OBVIOUS
  <2>2. \A k \in 0..3 : k = 0 \/ k = 1 \/ k = 2 \/ k = 3
    OBVIOUS
  <2>3. one = Compiled(Uncompiled, layers[1]) /\ two = Compiled(one, layers[2])
          /\ three = Compiled(two, layers[3])
    BY <1>2
  <2> HIDE DEF layers, one, two, three
  <2>4. \A k \in 0..3 : f[k] = IF k = 0 THEN Uncompiled ELSE Compiled(f[k - 1], layers[k])
    BY <2>1, <2>2, <2>3
  <2>5. f = [k \in 0..3 |-> IF k = 0 THEN Uncompiled ELSE Compiled(f[k - 1], layers[k])]
    BY <2>4
  <2> HIDE DEF f
  <2>6. IsIt(f)
    BY <1>2, <2>5
  <2>7. QED
    BY <2>6
<1>4. IsIt(h)
  BY <1>3
<1> HIDE DEF h
<1>5. \A k \in 0..3 : h[k] = IF k = 0 THEN Uncompiled ELSE Compiled(h[k - 1], layers[k])
  BY <1>2, <1>4
<1> HIDE DEF layers
<1>6. h[0] = Uncompiled /\ h[1] = Compiled(h[0], x) /\ h[2] = Compiled(h[1], y)
        /\ h[3] = Compiled(h[2], z)
  BY <1>2, <1>5
<1>7. QED
  BY <1>1, <1>2, <1>6 DEF layers

----------------------------------------------------------------------------
(* What the rules of legacy options do *)

\* The causes that stand, and what an effect makes of them.
Standing(s) == {c \in Causes : s.excluded[c] # 0}
Upon(causes, effect) ==
  IF effect \in Causes THEN causes \cup {effect}
  ELSE IF effect = "clear-global-ignore" THEN causes \ {"global-ignore"}
  ELSE IF effect = "clear-any-ignore" THEN causes \ {"global-ignore", "package-ignore"}
  ELSE IF effect \in {"include-match", "include-reset"} THEN causes \ {"include-default"}
  ELSE causes \ {"exclude-filter"}

\* What is cleared does not stand.
LEMMA WithoutStands ==
  ASSUME NEW s \in States, NEW t \in States, NEW causes, t.excluded = Without(s.excluded, causes)
  PROVE  Standing(t) = Standing(s) \ causes
BY DEF Standing, Without, States

\* An action changes what stands as its effect says.
LEMMA ActedStands ==
  ASSUME NEW s \in States, NEW rule \in RuleFacts, NEW at \in Nat \ {0}
  PROVE  Standing(Acted(s, rule, at))
           = IF rule.action = "none" \/ rule.effect = "none" THEN Standing(s)
             ELSE Upon(Standing(s), rule.effect)
<1> DEFINE e == rule.effect
           t == Acted(s, rule, at)
<1>1. CASE rule.action = "none"
  BY <1>1 DEF Acted
<1>2. CASE rule.action # "none" /\ e = "none"
  <2>1. t.excluded = s.excluded
    BY <1>2 DEF Acted, States
  <2>2. QED
    BY <1>2, <2>1 DEF Standing
<1>3. CASE rule.action # "none" /\ e # "none"
  <2>1. t = Compatibly(s, e, at)
    BY <1>3 DEF Acted
  <2>2. t \in States
    BY ActedTyped
  <2>3. CASE e \in Causes
    <3>1. t.excluded = [s.excluded EXCEPT ![e] = at]
      <4>1. CASE e = "include-default"
        BY <2>1, <4>1 DEF Compatibly, States, Causes
      <4>2. CASE e = "global-ignore"
        BY <2>1, <4>2 DEF Compatibly, States, Causes
      <4>3. CASE e = "package-ignore"
        BY <2>1, <4>3 DEF Compatibly, States, Causes
      <4>4. CASE e = "exclude-filter"
        BY <2>1, <4>4 DEF Compatibly, States, Causes
      <4>5. QED
        BY <2>3, <4>1, <4>2, <4>3, <4>4 DEF Causes
    <3> HIDE DEF t, e
    <3>2. \A c \in Causes : t.excluded[c] = IF c = e THEN at ELSE s.excluded[c]
      BY <2>3, <3>1 DEF States
    <3>3. Standing(t) = Standing(s) \cup {e}
      BY <2>3, <3>2 DEF Standing
    <3>4. QED
      BY <1>3, <2>3, <3>3 DEF Upon, t, e
  <2>4. CASE e = "clear-global-ignore"
    <3>1. t.excluded = Without(s.excluded, {"global-ignore"})
      <4>1. Without(s.excluded, {"global-ignore"} \cup {}) = Without(s.excluded, {"global-ignore"})
        BY DEF Without
      <4>2. QED
        BY <2>1, <2>4, <4>1 DEF Compatibly, States, Causes
    <3>2. Standing(t) = Standing(s) \ {"global-ignore"}
      BY <2>2, <3>1, WithoutStands
    <3>3. Upon(Standing(s), e) = Standing(s) \ {"global-ignore"}
      BY <2>4 DEF Upon, Causes
    <3>4. QED
      BY <1>3, <3>2, <3>3
  <2>5. CASE e = "clear-any-ignore"
    <3>1. t.excluded = Without(s.excluded, {"global-ignore", "package-ignore"})
      <4>1. {"global-ignore"} \cup {"package-ignore"} = {"global-ignore", "package-ignore"}
        OBVIOUS
      <4>2. QED
        BY <2>1, <2>5, <4>1 DEF Compatibly, States, Causes
    <3>2. Standing(t) = Standing(s) \ {"global-ignore", "package-ignore"}
      BY <2>2, <3>1, WithoutStands
    <3>3. Upon(Standing(s), e) = Standing(s) \ {"global-ignore", "package-ignore"}
      BY <2>5 DEF Upon, Causes
    <3>4. QED
      BY <1>3, <3>2, <3>3
  <2>6. CASE e \in {"include-match", "include-reset"}
    <3>1. t.excluded = Without(s.excluded, {"include-default"})
      BY <2>1, <2>6 DEF Compatibly, States, Causes
    <3>2. Standing(t) = Standing(s) \ {"include-default"}
      BY <2>2, <3>1, WithoutStands
    <3>3. Upon(Standing(s), e) = Standing(s) \ {"include-default"}
      BY <2>6 DEF Upon, Causes
    <3>4. QED
      BY <1>3, <3>2, <3>3
  <2>7. CASE e = "exclude-reset"
    <3>1. t.excluded = Without(s.excluded, {"exclude-filter"})
      BY <2>1, <2>7 DEF Compatibly, States, Causes
    <3>2. Standing(t) = Standing(s) \ {"exclude-filter"}
      BY <2>2, <3>1, WithoutStands
    <3>3. Upon(Standing(s), e) = Standing(s) \ {"exclude-filter"}
      BY <2>7 DEF Upon, Causes
    <3>4. QED
      BY <1>3, <3>2, <3>3
  <2>8. QED
    BY <1>3, <2>3, <2>4, <2>5, <2>6, <2>7 DEF RuleFacts, Effects
<1>4. QED
  BY <1>1, <1>2, <1>3

\* Rules of legacy options alone leave no normal action and nothing undecided.
Plain(s) ==
  s \in States /\ s.pending = {} /\ s.normal = [action |-> "include", at |-> 0]
Legacy(rule) ==
  rule \in RuleFacts /\ rule.manager = "any" /\ (rule.action = "none" \/ rule.effect # "none")

\* A rule of legacy options that matches does what its effect and its mode say.
LEMMA LegacyStep ==
  ASSUME NEW s, Plain(s), NEW rule, Legacy(rule), NEW at \in Nat \ {0}, NEW ctx \in Contexts
  PROVE  LET t == Weighed(s, rule, at, ctx) IN
         /\ Plain(t)
         /\ ~MatchesWithoutManager(rule, ctx) => t = s
         /\ MatchesWithoutManager(rule, ctx)
              => /\ t.mode = (IF rule.mode = "none" THEN s.mode ELSE rule.mode)
                 /\ Standing(t) = IF rule.action = "none" THEN Standing(s)
                                  ELSE Upon(Standing(s), rule.effect)
<1> DEFINE t == Weighed(s, rule, at, ctx)
           a == Acted(s, rule, at)
<1>1. /\ s \in States /\ rule \in RuleFacts /\ at \in Nat
      /\ ctx.manager \in Managers \cup {"unknown"}
  BY DEF Plain, Legacy, Contexts
<1>2. CASE ~MatchesWithoutManager(rule, ctx)
  BY <1>1, <1>2, WeighedCases
<1>3. CASE MatchesWithoutManager(rule, ctx)
  <2>1. t = Moded(a, rule, at)
    BY <1>1, <1>3, WeighedCases DEF Legacy, Taken
  <2>2. a \in States /\ a.mode = s.mode /\ a.pending = s.pending /\ a.normal = s.normal
    <3>1. /\ a \in States /\ a.mode = s.mode /\ a.pending = s.pending
          /\ a.normal = IF rule.action # "none" /\ rule.effect = "none"
                        THEN [action |-> rule.action, at |-> at] ELSE s.normal
      BY <1>1, ActedTyped
    <3>2. rule.action = "none" \/ rule.effect # "none"
      BY DEF Legacy
    <3> HIDE DEF a
    <3>3. QED
      BY <3>1, <3>2
  <2>3. Standing(a) = IF rule.action = "none" THEN Standing(s)
                      ELSE Upon(Standing(s), rule.effect)
    BY <1>1, ActedStands DEF Legacy
  <2> HIDE DEF a
  <2>4. /\ t \in States /\ t.normal = a.normal /\ t.pending = a.pending
        /\ t.excluded = a.excluded
        /\ t.mode = IF rule.mode = "none" THEN a.mode ELSE rule.mode
    BY <1>1, <2>1, <2>2, ModedTyped
  <2> HIDE DEF t
  <2>5. Standing(t) = Standing(a)
    BY <2>4 DEF Standing
  <2>6. Plain(t)
    BY <2>2, <2>4 DEF Plain
  <2>7. QED
    BY <1>3, <2>2, <2>3, <2>4, <2>5, <2>6 DEF t
<1>4. QED
  BY <1>2, <1>3

\* A rule without selectors matches, one for names matches those.
LEMMA BroadMatches ==
  ASSUME NEW action, NEW mode, NEW effect, NEW ctx \in Contexts
  PROVE  LET r == Broad(action, mode, effect) IN
         /\ MatchesWithoutManager(r, ctx) /\ r.manager = "any"
         /\ r.action = action /\ r.mode = mode /\ r.effect = effect
BY DEF Broad, MatchesWithoutManager, Contexts

LEMMA ForMatches ==
  ASSUME NEW names, NEW action, NEW effect, NEW ctx \in Contexts
  PROVE  LET r == For(names, action, effect) IN
         /\ MatchesWithoutManager(r, ctx) <=> ctx.name \in names
         /\ r.manager = "any" /\ r.action = action /\ r.mode = "none" /\ r.effect = effect
BY DEF For, Broad, MatchesWithoutManager, Contexts

\* The rule of an entry matches by the name the dependency resolves to.
LEMMA PackageModeRuleMatches ==
  ASSUME NEW e, NEW names, NEW ctx \in Contexts
  PROVE  LET r == PackageModeRule(e, names) IN
         /\ MatchesWithoutManager(r, ctx) <=> ctx.resolves \in names
         /\ r.manager = "any"
         /\ IF e.mode = "ignore"
            THEN r.action = "exclude" /\ r.mode = "none" /\ r.effect = "package-ignore"
            ELSE r.action = "include" /\ r.mode = e.mode /\ r.effect = "clear-any-ignore"
<1>1. CASE e.mode = "ignore"
  BY <1>1 DEF PackageModeRule, For, Broad, MatchesWithoutManager, Contexts
<1>2. CASE e.mode # "ignore"
  BY <1>2 DEF PackageModeRule, For, Broad, MatchesWithoutManager, Contexts
<1>3. QED
  BY <1>1, <1>2

\* One rule of legacy options takes s to t.
Follow(s, rule, t, ctx) ==
  /\ Plain(s) /\ Plain(t)
  /\ ~MatchesWithoutManager(rule, ctx) => t = s
  /\ MatchesWithoutManager(rule, ctx)
       => /\ t.mode = (IF rule.mode = "none" THEN s.mode ELSE rule.mode)
          /\ Standing(t) = IF rule.action = "none" THEN Standing(s)
                           ELSE Upon(Standing(s), rule.effect)

\* Some of them do so one after the other.
Goes(s, rules, ctx, t) ==
  \E f : /\ f[0] = s /\ f[Len(rules)] = t
         /\ \A k \in 1..Len(rules) : Follow(f[k - 1], rules[k], f[k], ctx)

\* Weighing takes such a step.
LEMMA LegacyFollow ==
  ASSUME NEW s, Plain(s), NEW rule, Legacy(rule), NEW at \in Nat \ {0}, NEW ctx \in Contexts
  PROVE  Follow(s, rule, Weighed(s, rule, at, ctx), ctx)
BY LegacyStep DEF Follow

\* Weighing more of them takes such steps one after the other.
LEMMA LegacyGoes ==
  ASSUME NEW a \in Seq(RuleFacts), NEW b \in Seq(RuleFacts), NEW ctx \in Contexts,
         Plain(Weighing(a, ctx)), \A i \in 1..Len(b) : Legacy(b[i])
  PROVE  /\ Goes(Weighing(a, ctx), b, ctx, Weighing(a \o b, ctx))
         /\ Plain(Weighing(a \o b, ctx))
<1> DEFINE m == Len(b)
           n == Len(a)
<1>1. m \in Nat /\ n \in Nat
  OBVIOUS
<1>2. PICK f : /\ f[0] = Weighing(a, ctx) /\ f[m] = Weighing(a \o b, ctx)
               /\ \A k \in 1..m : f[k] = Weighed(f[k - 1], b[k], n + k, ctx)
  BY WeighingBlock
<1>3. \A k \in 1..m : Legacy(b[k])
  OBVIOUS
<1> HIDE DEF m, n
<1> DEFINE S == {k \in Nat : k <= m => Plain(f[k])}
<1>4. ASSUME NEW k \in 1..m, Plain(f[k - 1]) PROVE Follow(f[k - 1], b[k], f[k], ctx)
  <2>1. n + k \in Nat \ {0} /\ Legacy(b[k])
    BY <1>1, <1>3
  <2>2. Follow(f[k - 1], b[k], Weighed(f[k - 1], b[k], n + k, ctx), ctx)
    BY <1>4, <2>1, LegacyFollow
  <2>3. QED
    BY <1>2, <2>2
<1>5. 0 \in S
  BY <1>2
<1>6. ASSUME NEW k \in S PROVE k + 1 \in S
  <2>1. SUFFICES ASSUME k + 1 <= m PROVE Plain(f[k + 1])
    OBVIOUS
  <2>2. k + 1 \in 1..m /\ (k + 1) - 1 = k /\ Plain(f[k])
    BY <1>1, <2>1
  <2>3. Follow(f[k], b[k + 1], f[k + 1], ctx)
    BY <1>4, <2>2
  <2>4. QED
    BY <2>3 DEF Follow
<1> HIDE DEF S
<1>7. S \in SUBSET Nat
  BY DEF S
<1>8. \A k \in 0..m : Plain(f[k])
  <2>1. \A k \in Nat : k \in S
    BY <1>5, <1>6, <1>7, Induction
  <2>2. QED
    BY <1>1, <2>1 DEF S
<1>9. \A k \in 1..m : Follow(f[k - 1], b[k], f[k], ctx)
  <2>1. \A k \in 1..m : k - 1 \in 0..m
    BY <1>1
  <2>2. QED
    BY <1>4, <1>8, <2>1
<1>10. Goes(Weighing(a, ctx), b, ctx, Weighing(a \o b, ctx))
  BY <1>2, <1>9 DEF Goes, m
<1>11. m \in 0..m
  BY <1>1
<1>12. QED
  BY <1>2, <1>8, <1>10, <1>11

\* One rule for all, then one for each pattern, with one and the same effect.
IsFilter(rules, patterns, allow, first, action, then) ==
  /\ Len(rules) = Len(patterns) + 1 /\ rules[1] = Broad(allow, "none", first)
  /\ \A i \in 1..Len(patterns) : rules[i + 1] = For(patterns[i].names, action, then)
  /\ {allow, action} \subseteq {"include", "exclude"}
  /\ \A c : Upon(Upon(c, then), then) = Upon(c, then)

\* A filter comes to its first effect, and to its second where a pattern matches.
LEMMA PatternsGo ==
  ASSUME NEW patterns \in Seq(Patterns), NEW rules, NEW allow, NEW first, NEW action, NEW then,
         IsFilter(rules, patterns, allow, first, action, then),
         NEW s, NEW t, NEW ctx \in Contexts, Goes(s, rules, ctx, t)
  PROVE  /\ Plain(t) /\ t.mode = s.mode
         /\ Standing(t) = IF MatchesOne(patterns, ctx.name)
                          THEN Upon(Upon(Standing(s), first), then)
                          ELSE Upon(Standing(s), first)
<1> DEFINE n == Len(patterns)
<1>1. n \in Nat /\ DOMAIN patterns = 1..n
  OBVIOUS
<1>2. PICK f : /\ f[0] = s /\ f[n + 1] = t
               /\ \A k \in 1..(n + 1) : Follow(f[k - 1], rules[k], f[k], ctx)
  BY DEF Goes, IsFilter
<1>3. /\ \A i \in 1..n : rules[i + 1] = For(patterns[i].names, action, then)
      /\ rules[1] = Broad(allow, "none", first)
      /\ allow # "none" /\ action # "none"
      /\ \A c : Upon(Upon(c, then), then) = Upon(c, then)
  BY DEF IsFilter
<1> HIDE DEF n
<1> DEFINE one == Upon(Standing(s), first)
           Met(k) == \E i \in 1..k : ctx.name \in patterns[i].names
           S == {k \in Nat : k <= n => /\ f[k + 1].mode = s.mode
                                       /\ Standing(f[k + 1])
                                            = IF Met(k) THEN Upon(one, then) ELSE one}
<1>4. 0 \in S
  <2>1. 1 \in 1..(n + 1) /\ 1 - 1 = 0
    BY <1>1
  <2>2. Follow(s, rules[1], f[1], ctx)
    BY <1>2, <2>1
  <2>3. /\ MatchesWithoutManager(rules[1], ctx) /\ rules[1].action = allow
        /\ rules[1].mode = "none" /\ rules[1].effect = first
    BY <1>3, BroadMatches
  <2>4. f[1].mode = s.mode /\ Standing(f[1]) = one
    BY <1>3, <2>2, <2>3 DEF Follow
  <2>5. ~Met(0)
    OBVIOUS
  <2> HIDE DEF Met, one
  <2>6. QED
    BY <2>4, <2>5
<1>5. ASSUME NEW k \in S PROVE k + 1 \in S
  <2>1. SUFFICES ASSUME k + 1 <= n
                 PROVE  /\ f[(k + 1) + 1].mode = s.mode
                        /\ Standing(f[(k + 1) + 1]) = IF Met(k + 1) THEN Upon(one, then) ELSE one
    OBVIOUS
  <2>2. /\ k + 1 \in 1..n /\ (k + 1) + 1 \in 1..(n + 1) /\ ((k + 1) + 1) - 1 = k + 1
        /\ f[k + 1].mode = s.mode
        /\ Standing(f[k + 1]) = IF Met(k) THEN Upon(one, then) ELSE one
    BY <1>1, <2>1
  <2> DEFINE r == rules[(k + 1) + 1]
             names == patterns[k + 1].names
             u == f[(k + 1) + 1]
  <2>3. Follow(f[k + 1], r, u, ctx)
    BY <1>2, <2>2
  <2>4. r = For(names, action, then)
    BY <1>3, <2>2
  <2> HIDE DEF r, names
  <2>5. /\ MatchesWithoutManager(r, ctx) <=> ctx.name \in names
        /\ r.action = action /\ r.mode = "none" /\ r.effect = then
    <3> DEFINE q == For(names, action, then)
    <3>1. /\ MatchesWithoutManager(q, ctx) <=> ctx.name \in names
          /\ q.action = action /\ q.mode = "none" /\ q.effect = then
      BY ForMatches
    <3> HIDE DEF q
    <3>2. q = r
      BY <2>4 DEF q
    <3>3. QED
      BY <3>1, <3>2
  <2>6. Met(k + 1) <=> Met(k) \/ ctx.name \in names
    <3>1. \A i \in 1..(k + 1) : i \in 1..k \/ i = k + 1
      OBVIOUS
    <3>2. \A i \in 1..k : i \in 1..(k + 1)
      OBVIOUS
    <3>3. k + 1 \in 1..(k + 1)
      OBVIOUS
    <3>4. QED
      BY <3>1, <3>2, <3>3 DEF names
  <2> HIDE DEF u, one, Met
  <2>7. CASE ctx.name \in names
    <3>1. u.mode = s.mode /\ Standing(u) = Upon(Standing(f[k + 1]), then)
      BY <1>3, <2>2, <2>3, <2>5, <2>7 DEF Follow
    <3>2. Upon(Standing(f[k + 1]), then) = Upon(one, then)
      BY <1>3, <2>2
    <3>3. QED
      BY <2>6, <2>7, <3>1, <3>2 DEF u
  <2>8. CASE ctx.name \notin names
    <3>1. u = f[k + 1]
      BY <2>3, <2>5, <2>8 DEF Follow
    <3>2. QED
      BY <2>2, <2>6, <2>8, <3>1 DEF u
  <2>9. QED
    BY <2>7, <2>8
<1> HIDE DEF S
<1>6. S \in SUBSET Nat
  BY DEF S
<1>7. n \in S
  BY <1>1, <1>4, <1>5, <1>6, Induction
<1>8. t.mode = s.mode /\ Standing(t) = IF Met(n) THEN Upon(one, then) ELSE one
  BY <1>1, <1>2, <1>7 DEF S
<1>9. Met(n) <=> MatchesOne(patterns, ctx.name)
  BY <1>1 DEF MatchesOne
<1>10. Plain(t)
  <2>1. n + 1 \in 1..(n + 1)
    BY <1>1
  <2>2. QED
    BY <1>2, <2>1 DEF Follow
<1> HIDE DEF Met
<1>11. QED
  BY <1>8, <1>9, <1>10

\* include: what no pattern matches is excluded, as long as there is one.
LEMMA IncludeGoes ==
  ASSUME NEW patterns \in Seq(Patterns), NEW s, NEW t, NEW ctx \in Contexts,
         Goes(s, IncludeRules(patterns), ctx, t)
  PROVE  /\ Plain(t) /\ t.mode = s.mode
         /\ Standing(t) \ {"include-default"} = Standing(s) \ {"include-default"}
         /\ "include-default" \in Standing(t)
              <=> patterns # <<>> /\ ~MatchesOne(patterns, ctx.name)
<1>1. CASE patterns = <<>>
  <2> DEFINE r == Broad("include", "none", "include-reset")
             rules == <<r>>
  <2>1. IncludeRules(patterns) = rules
    BY <1>1 DEF IncludeRules
  <2>2. Len(rules) = 1 /\ rules[1] = r
    OBVIOUS
  <2>3. /\ MatchesWithoutManager(r, ctx) /\ r.action = "include"
        /\ r.mode = "none" /\ r.effect = "include-reset"
    BY BroadMatches
  <2> HIDE DEF rules, r
  <2>4. PICK f : /\ f[0] = s /\ f[1] = t
                 /\ \A k \in 1..1 : Follow(f[k - 1], rules[k], f[k], ctx)
    BY <2>1, <2>2 DEF Goes
  <2>5. Follow(s, r, t, ctx)
    <3>1. 1 \in 1..1 /\ 1 - 1 = 0
      OBVIOUS
    <3>2. QED
      BY <2>2, <2>4, <3>1
  <2>6. Plain(t) /\ t.mode = s.mode /\ Standing(t) = Upon(Standing(s), "include-reset")
    BY <2>3, <2>5 DEF Follow
  <2>7. Upon(Standing(s), "include-reset") = Standing(s) \ {"include-default"}
    BY DEF Upon, Causes
  <2>8. QED
    BY <1>1, <2>6, <2>7
<1>2. CASE patterns # <<>>
  <2> DEFINE r == Broad("exclude", "none", "include-default")
             rules == IncludeRules(patterns)
  <2>1. rules = <<r>> \o [i \in DOMAIN patterns |->
                            For(patterns[i].names, "include", "include-match")]
    BY <1>2 DEF IncludeRules
  <2>2. r \in RuleFacts
    BY BroadTyped, EffectNames DEF Causes
  <2>3. r = Broad("exclude", "none", "include-default")
    OBVIOUS
  <2>4. Goes(s, rules, ctx, t)
    OBVIOUS
  <2> HIDE DEF rules, r
  <2>5. Len(rules) = Len(patterns) + 1 /\ rules[1] = r
          /\ \A i \in 1..Len(patterns) :
               rules[i + 1] = For(patterns[i].names, "include", "include-match")
    BY <2>1, <2>2, FilterRules, EffectNames
  <2>6. \A c : /\ Upon(c, "include-match") = c \ {"include-default"}
               /\ Upon(c, "include-default") = c \cup {"include-default"}
    BY DEF Upon, Causes
  <2>7. \A c : Upon(Upon(c, "include-match"), "include-match") = Upon(c, "include-match")
    BY <2>6
  <2>8. /\ Plain(t) /\ t.mode = s.mode
        /\ Standing(t) = IF MatchesOne(patterns, ctx.name)
                         THEN Upon(Upon(Standing(s), "include-default"), "include-match")
                         ELSE Upon(Standing(s), "include-default")
    <3>1. IsFilter(rules, patterns, "exclude", "include-default", "include", "include-match")
      BY <2>3, <2>5, <2>7 DEF IsFilter
    <3>2. QED
      BY <2>4, <3>1, PatternsGo
  <2>9. QED
    BY <1>2, <2>6, <2>8
<1>3. QED
  BY <1>1, <1>2

\* exclude: what a pattern matches is excluded.
LEMMA ExcludeGoes ==
  ASSUME NEW patterns \in Seq(Patterns), NEW s, NEW t, NEW ctx \in Contexts,
         Goes(s, ExcludeRules(patterns), ctx, t)
  PROVE  /\ Plain(t) /\ t.mode = s.mode
         /\ Standing(t) \ {"exclude-filter"} = Standing(s) \ {"exclude-filter"}
         /\ "exclude-filter" \in Standing(t) <=> MatchesOne(patterns, ctx.name)
<1> DEFINE r == Broad("include", "none", "exclude-reset")
           rules == ExcludeRules(patterns)
<1>1. rules = <<r>> \o [i \in DOMAIN patterns |->
                          For(patterns[i].names, "exclude", "exclude-filter")]
  BY DEF ExcludeRules
<1>2. r \in RuleFacts
  BY BroadTyped, EffectNames
<1>3. r = Broad("include", "none", "exclude-reset")
  OBVIOUS
<1>4. Goes(s, rules, ctx, t)
  OBVIOUS
<1>5. "exclude-filter" \in Effects
  BY EffectNames DEF Causes
<1> HIDE DEF rules, r
<1>6. Len(rules) = Len(patterns) + 1 /\ rules[1] = r
        /\ \A i \in 1..Len(patterns) :
             rules[i + 1] = For(patterns[i].names, "exclude", "exclude-filter")
  BY <1>1, <1>2, <1>5, FilterRules
<1>7. \A c : /\ Upon(c, "exclude-reset") = c \ {"exclude-filter"}
             /\ Upon(c, "exclude-filter") = c \cup {"exclude-filter"}
  BY DEF Upon, Causes
<1>8. \A c : Upon(Upon(c, "exclude-filter"), "exclude-filter") = Upon(c, "exclude-filter")
  BY <1>7
<1>9. /\ Plain(t) /\ t.mode = s.mode
      /\ Standing(t) = IF MatchesOne(patterns, ctx.name)
                       THEN Upon(Upon(Standing(s), "exclude-reset"), "exclude-filter")
                       ELSE Upon(Standing(s), "exclude-reset")
  <2>1. IsFilter(rules, patterns, "include", "exclude-reset", "exclude", "exclude-filter")
    BY <1>3, <1>6, <1>8 DEF IsFilter
  <2>2. QED
    BY <1>4, <2>1, PatternsGo
<1>10. QED
  BY <1>7, <1>9

\* mode: ignore excludes until it is cleared, another mode is remembered.
LEMMA ModeGoes ==
  ASSUME NEW mode \in PolicyModes \cup {"ignore"}, NEW clears \in BOOLEAN,
         NEW s, NEW t, NEW ctx \in Contexts,
         Goes(s, <<ModeRule(mode, clears)>>, ctx, t)
  PROVE  /\ Plain(t)
         /\ Standing(t) \ {"global-ignore"} = Standing(s) \ {"global-ignore"}
         /\ "global-ignore" \in Standing(t)
              <=> mode = "ignore" \/ (~clears /\ "global-ignore" \in Standing(s))
         /\ t.mode = IF mode = "ignore" THEN s.mode ELSE mode
<1> DEFINE r == ModeRule(mode, clears)
           rules == <<r>>
<1>1. Len(rules) = 1 /\ rules[1] = r
  OBVIOUS
<1> HIDE DEF r
<1>2. PICK f : /\ f[0] = s /\ f[1] = t
               /\ \A k \in 1..1 : Follow(f[k - 1], rules[k], f[k], ctx)
  BY <1>1 DEF Goes, r
<1> HIDE DEF rules
<1>3. Follow(s, r, t, ctx)
  <2>1. 1 \in 1..1 /\ 1 - 1 = 0
    OBVIOUS
  <2>2. QED
    BY <1>1, <1>2, <2>1
<1>4. Plain(t)
  BY <1>3 DEF Follow
<1>5. CASE mode = "ignore"
  <2>1. r = Broad("exclude", "none", "global-ignore")
    BY <1>5 DEF ModeRule, r
  <2>2. /\ MatchesWithoutManager(r, ctx) /\ r.action = "exclude"
        /\ r.mode = "none" /\ r.effect = "global-ignore"
    BY <2>1, BroadMatches
  <2>3. t.mode = s.mode /\ Standing(t) = Upon(Standing(s), "global-ignore")
    BY <1>3, <2>2 DEF Follow
  <2>4. Upon(Standing(s), "global-ignore") = Standing(s) \cup {"global-ignore"}
    BY DEF Upon, Causes
  <2>5. QED
    BY <1>4, <1>5, <2>3, <2>4
<1>6. CASE mode # "ignore"
  <2>1. mode # "none"
    BY <1>6 DEF PolicyModes
  <2>2. CASE clears
    <3>1. r = Broad("include", mode, "clear-global-ignore")
      BY <1>6, <2>2 DEF ModeRule, r
    <3>2. /\ MatchesWithoutManager(r, ctx) /\ r.action = "include"
          /\ r.mode = mode /\ r.effect = "clear-global-ignore"
      BY <3>1, BroadMatches
    <3>3. t.mode = mode /\ Standing(t) = Upon(Standing(s), "clear-global-ignore")
      BY <1>3, <2>1, <3>2 DEF Follow
    <3>4. Upon(Standing(s), "clear-global-ignore") = Standing(s) \ {"global-ignore"}
      BY DEF Upon, Causes
    <3>5. QED
      BY <1>4, <1>6, <2>2, <3>3, <3>4
  <2>3. CASE ~clears
    <3>1. r = Broad("none", mode, "none")
      BY <1>6, <2>3 DEF ModeRule, r
    <3>2. /\ MatchesWithoutManager(r, ctx) /\ r.action = "none"
          /\ r.mode = mode
      BY <3>1, BroadMatches
    <3>3. t.mode = mode /\ Standing(t) = Standing(s)
      BY <1>3, <2>1, <3>2 DEF Follow
    <3>4. QED
      BY <1>4, <1>6, <2>3, <3>3
  <2>4. QED
    BY <2>2, <2>3
<1>7. QED
  BY <1>5, <1>6

\* What a mode of packageMode comes to, and what it leaves alone.
Follows(s, mode) ==
  IF mode = "ignore" THEN "package-ignore" \in Standing(s)
  ELSE /\ "global-ignore" \notin Standing(s) /\ "package-ignore" \notin Standing(s)
       /\ s.mode = mode
Others(s) == Standing(s) \ {"global-ignore", "package-ignore"}

\* A rule that applies a mode.
Sets(rule, mode) ==
  IF mode = "ignore"
  THEN rule.action = "exclude" /\ rule.mode = "none" /\ rule.effect = "package-ignore"
  ELSE rule.action = "include" /\ rule.mode = mode /\ rule.effect = "clear-any-ignore"

\* A rule that applies a mode makes the dependency follow it.
LEMMA SetsStep ==
  ASSUME NEW mode \in PolicyModes \cup {"ignore"}, NEW rule, Sets(rule, mode), NEW ctx,
         NEW s, NEW t, Follow(s, rule, t, ctx)
  PROVE  /\ MatchesWithoutManager(rule, ctx) => Follows(t, mode) /\ Others(t) = Others(s)
         /\ ~MatchesWithoutManager(rule, ctx) => t = s
<1>1. CASE ~MatchesWithoutManager(rule, ctx)
  BY <1>1 DEF Sets, Follow
<1>2. CASE MatchesWithoutManager(rule, ctx) /\ mode = "ignore"
  <2>1. Standing(t) = Upon(Standing(s), "package-ignore")
    BY <1>2 DEF Sets, Follow
  <2>2. Upon(Standing(s), "package-ignore") = Standing(s) \cup {"package-ignore"}
    BY DEF Upon, Causes
  <2>3. Follows(t, mode) /\ Others(t) = Others(s)
    BY <1>2, <2>1, <2>2 DEF Follows, Others
  <2>4. QED
    BY <1>2, <2>3
<1>3. CASE MatchesWithoutManager(rule, ctx) /\ mode # "ignore"
  <2>1. mode # "none"
    BY <1>3 DEF PolicyModes
  <2>2. Standing(t) = Upon(Standing(s), "clear-any-ignore") /\ t.mode = mode
    BY <1>3, <2>1 DEF Sets, Follow
  <2>3. Upon(Standing(s), "clear-any-ignore")
          = Standing(s) \ {"global-ignore", "package-ignore"}
    BY DEF Upon, Causes
  <2>4. Follows(t, mode) /\ Others(t) = Others(s)
    BY <1>3, <2>2, <2>3 DEF Follows, Others
  <2>5. QED
    BY <1>3, <2>4
<1>4. QED
  BY <1>1, <1>2, <1>3

\* Of many, the last that applies decides.
AreHits(rules, mode, ctx, hits) ==
  \A i \in 1..Len(rules) : /\ mode[i] \in PolicyModes \cup {"ignore"}
                           /\ Sets(rules[i], mode[i])
                           /\ MatchesWithoutManager(rules[i], ctx) <=> i \in hits

LEMMA HitsGo ==
  ASSUME NEW rules \in Seq(RuleFacts), NEW mode, NEW ctx, NEW hits \in SUBSET (1..Len(rules)),
         AreHits(rules, mode, ctx, hits), NEW s, NEW t, Goes(s, rules, ctx, t)
  PROVE  /\ hits = {} => t = s
         /\ Others(t) = Others(s)
         /\ \A j \in hits : (\A i \in hits : i <= j) => Follows(t, mode[j])
<1> DEFINE m == Len(rules)
           Decides(j, k) == j \in hits /\ j <= k /\ \A i \in hits : i <= k => i <= j
<1>1. m \in Nat
  OBVIOUS
<1>2. PICK f : /\ f[0] = s /\ f[m] = t
               /\ \A k \in 1..m : Follow(f[k - 1], rules[k], f[k], ctx)
  BY DEF Goes
<1>3. \A i \in 1..m : /\ mode[i] \in PolicyModes \cup {"ignore"}
                      /\ Sets(rules[i], mode[i])
                      /\ MatchesWithoutManager(rules[i], ctx) <=> i \in hits
  BY DEF AreHits
<1>4. hits \subseteq 1..m
  OBVIOUS
<1> HIDE DEF m
<1> DEFINE S == {k \in Nat : k <= m => /\ (\A i \in hits : ~(i <= k)) => f[k] = s
                                       /\ Others(f[k]) = Others(s)
                                       /\ \A j \in hits : Decides(j, k) => Follows(f[k], mode[j])}
<1>5. 0 \in S
  <2>1. \A j \in hits : ~Decides(j, 0)
    BY <1>1, <1>4
  <2> HIDE DEF Decides
  <2>2. QED
    BY <1>2, <2>1
<1>6. ASSUME NEW k \in S PROVE k + 1 \in S
  <2> DEFINE u == f[k + 1]
  <2>1. SUFFICES ASSUME k + 1 <= m
                 PROVE  /\ (\A i \in hits : ~(i <= k + 1)) => u = s
                        /\ Others(u) = Others(s)
                        /\ \A j \in hits : Decides(j, k + 1) => Follows(u, mode[j])
    OBVIOUS
  <2>2. /\ k + 1 \in 1..m /\ (k + 1) - 1 = k /\ k <= m
        /\ (\A i \in hits : ~(i <= k)) => f[k] = s
        /\ Others(f[k]) = Others(s)
        /\ \A j \in hits : Decides(j, k) => Follows(f[k], mode[j])
    BY <1>1, <2>1
  <2>3. Follow(f[k], rules[k + 1], u, ctx)
    BY <1>2, <2>2
  <2>4. /\ mode[k + 1] \in PolicyModes \cup {"ignore"}
        /\ Sets(rules[k + 1], mode[k + 1])
        /\ MatchesWithoutManager(rules[k + 1], ctx) <=> k + 1 \in hits
    BY <1>3, <2>2
  <2>5. /\ k + 1 \in hits => Follows(u, mode[k + 1]) /\ Others(u) = Others(f[k])
        /\ k + 1 \notin hits => u = f[k]
    <3>1. /\ MatchesWithoutManager(rules[k + 1], ctx)
               => Follows(u, mode[k + 1]) /\ Others(u) = Others(f[k])
          /\ ~MatchesWithoutManager(rules[k + 1], ctx) => u = f[k]
      <4> DEFINE r == rules[k + 1]
                 here == mode[k + 1]
      <4>1. here \in PolicyModes \cup {"ignore"} /\ Sets(r, here) /\ Follow(f[k], r, u, ctx)
        BY <2>3, <2>4
      <4> HIDE DEF r, here, u
      <4>2. /\ MatchesWithoutManager(r, ctx) => Follows(u, here) /\ Others(u) = Others(f[k])
            /\ ~MatchesWithoutManager(r, ctx) => u = f[k]
        BY <4>1, SetsStep
      <4>3. QED
        BY <4>2 DEF r, here
    <3>2. QED
      BY <2>4, <3>1
  <2> HIDE DEF u
  <2>6. CASE k + 1 \in hits
    <3>1. \A j \in hits : Decides(j, k + 1) => j = k + 1
      BY <1>1, <1>4, <2>6
    <3>2. ~(\A i \in hits : ~(i <= k + 1))
      BY <1>1, <2>6
    <3> HIDE DEF Decides
    <3>3. QED
      BY <2>2, <2>5, <2>6, <3>1, <3>2
  <2>7. CASE k + 1 \notin hits
    <3>1. \A i \in hits : i <= k + 1 => i <= k
      BY <1>1, <1>4, <2>7
    <3>2. \A i \in hits : i <= k => i <= k + 1
      BY <1>1, <1>4
    <3>3. \A j \in hits : Decides(j, k + 1) => Decides(j, k)
      BY <3>1, <3>2
    <3> HIDE DEF Decides
    <3>4. QED
      BY <2>2, <2>5, <2>7, <3>1, <3>2, <3>3
  <2>8. QED
    BY <2>6, <2>7
<1> HIDE DEF S
<1>7. S \in SUBSET Nat
  BY DEF S
<1>8. m \in S
  BY <1>1, <1>5, <1>6, <1>7, Induction
<1>9. /\ (\A i \in hits : ~(i <= m)) => f[m] = s
      /\ Others(f[m]) = Others(s)
      /\ \A j \in hits : Decides(j, m) => Follows(f[m], mode[j])
  BY <1>1, <1>8 DEF S
<1>10. \A i \in hits : i <= m
  BY <1>1, <1>4
<1>11. \A j \in hits : (\A i \in hits : i <= j) => Decides(j, m)
  BY <1>10
<1>12. QED
  BY <1>2, <1>9, <1>10, <1>11

\* Does packageMode say anything of a name?
Speaks(pattern, name) ==
  pattern.spells = name \/ (pattern.valid /\ name \in pattern.names)
MatchedBy(entries, name) == \E p \in PatternsOf(entries) : Speaks(p, name)

\* A name is spelled by one pattern only.
SpelledOnce(patterns) ==
  \A p, q \in patterns : p.spells = q.spells /\ p.spells \in Names => p = q

\* The documented mode is that of the first entry that spells the name, or else of
\* the first whose pattern matches it.
LEMMA DocumentedModeIs ==
  ASSUME NEW entries \in Seq(Entries), NEW name, NEW mode
  PROVE  /\ ~MatchedBy(entries, name) => DocumentedMode(entries, mode, name) = mode
         /\ MatchedBy(entries, name) =>
              \E i \in DOMAIN entries :
                /\ DocumentedMode(entries, mode, name) = entries[i].mode
                /\ \/ /\ entries[i].pattern.spells = name
                      /\ \A j \in DOMAIN entries : entries[j].pattern.spells = name => i <= j
                   \/ /\ \A j \in DOMAIN entries : entries[j].pattern.spells # name
                      /\ entries[i].pattern.valid /\ name \in entries[i].pattern.names
                      /\ \A j \in DOMAIN entries :
                           entries[j].pattern.valid /\ name \in entries[j].pattern.names
                             => i <= j
<1> DEFINE exact == {i \in DOMAIN entries : entries[i].pattern.spells = name}
           loose == {i \in DOMAIN entries : entries[i].pattern.valid
                                              /\ name \in entries[i].pattern.names}
           Lowest(places) == CHOOSE i \in places : \A j \in places : i <= j
           Pick(places) == entries[Lowest(places)].mode
<1>1. DocumentedMode(entries, mode, name)
        = CASE exact # {} -> Pick(exact)
            [] exact = {} /\ loose # {} -> Pick(loose)
            [] OTHER -> mode
  BY DEF DocumentedMode
<1>2. MatchedBy(entries, name) <=> exact # {} \/ loose # {}
  BY DEF MatchedBy, PatternsOf, Speaks
<1>3. exact \subseteq Nat /\ loose \subseteq Nat
  OBVIOUS
<1>4. \A places \in SUBSET Nat : places # {} =>
        Lowest(places) \in places /\ \A j \in places : Lowest(places) <= j
  <2>1. SUFFICES ASSUME NEW places \in SUBSET Nat, places # {}
                 PROVE  Lowest(places) \in places /\ \A j \in places : Lowest(places) <= j
    OBVIOUS
  <2>2. \E i \in places : \A j \in places : i <= j
    BY <2>1, LeastNat
  <2>3. QED
    BY <2>2
<1> HIDE DEF Lowest
<1>5. CASE exact # {}
  <2>1. DocumentedMode(entries, mode, name) = Pick(exact)
    <3> HIDE DEF Pick, exact, loose
    <3>1. QED
      BY <1>1, <1>5
  <2>2. Lowest(exact) \in exact /\ \A j \in exact : Lowest(exact) <= j
    <3> HIDE DEF exact
    <3>1. QED
      BY <1>3, <1>4, <1>5
  <2>3. QED
    BY <1>2, <1>5, <2>1, <2>2
<1>6. CASE exact = {} /\ loose # {}
  <2>1. DocumentedMode(entries, mode, name) = Pick(loose)
    <3> HIDE DEF Pick, exact, loose
    <3>1. QED
      BY <1>1, <1>6
  <2>2. Lowest(loose) \in loose /\ \A j \in loose : Lowest(loose) <= j
    <3> HIDE DEF loose
    <3>1. QED
      BY <1>3, <1>4, <1>6
  <2>3. \A j \in DOMAIN entries : entries[j].pattern.spells # name
    BY <1>6
  <2>4. QED
    BY <1>2, <1>6, <2>1, <2>2, <2>3
<1>7. CASE exact = {} /\ loose = {}
  <2> HIDE DEF Pick, exact, loose
  <2>1. QED
    BY <1>1, <1>2, <1>7
<1>8. QED
  BY <1>5, <1>6, <1>7

\* packageMode: the rules, in the order they are compiled, come to the documented mode.
LEMMA PackageGoes ==
  ASSUME NEW entries \in Seq(Entries), Distinct(entries), SpelledOnce(PatternsOf(entries)),
         NEW ctx \in Contexts, NEW s, NEW t, Goes(s, PackageModeRules(entries), ctx, t)
  PROVE  /\ Others(t) = Others(s)
         /\ ~MatchedBy(entries, ctx.resolves) => t = s
         /\ MatchedBy(entries, ctx.resolves)
              => \A mode : Follows(t, DocumentedMode(entries, mode, ctx.resolves))
<1> DEFINE n == Len(entries)
           rules == PackageModeRules(entries)
           name == ctx.resolves
           EntryOf(i) == IF i <= n THEN entries[(n - i) + 1] ELSE entries[i - n]
           Reach(i) == IF i <= n THEN Caught(EntryOf(i)) ELSE Spelled(EntryOf(i))
           mode == [i \in 1..(n + n) |-> EntryOf(i).mode]
           hits == {i \in 1..(n + n) : name \in Reach(i)}
<1>1. n \in Nat /\ DOMAIN entries = 1..n /\ \A i \in 1..n : entries[i] \in Entries
  OBVIOUS
<1>2. /\ rules \in Seq(RuleFacts) /\ Len(rules) = n + n
      /\ \A i \in 1..n :
           /\ rules[i] = PackageModeRule(entries[(n - i) + 1], Caught(entries[(n - i) + 1]))
           /\ rules[n + i] = PackageModeRule(entries[i], Spelled(entries[i]))
  BY PackageModeRulesAre
<1>3. Goes(s, rules, ctx, t) /\ name \in Names
  BY DEF Contexts
<1> HIDE DEF rules, n, name
<1>4. ASSUME NEW i \in 1..(n + n)
      PROVE  /\ EntryOf(i) \in Entries /\ rules[i] = PackageModeRule(EntryOf(i), Reach(i))
             /\ i <= n => (n - i) + 1 \in 1..n /\ EntryOf(i) = entries[(n - i) + 1]
             /\ ~(i <= n) => i - n \in 1..n /\ EntryOf(i) = entries[i - n]
  <2>1. CASE i <= n
    <3>1. i \in 1..n /\ (n - i) + 1 \in 1..n
      BY <1>1, <2>1
    <3>2. QED
      BY <1>1, <1>2, <2>1, <3>1
  <2>2. CASE ~(i <= n)
    <3>1. i - n \in 1..n /\ n + (i - n) = i
      BY <1>1, <2>2
    <3>2. QED
      BY <1>1, <1>2, <2>2, <3>1
  <2>3. QED
    BY <2>1, <2>2
<1>5. AreHits(rules, mode, ctx, hits)
  <2>1. SUFFICES ASSUME NEW i \in 1..(n + n)
                 PROVE  /\ mode[i] \in PolicyModes \cup {"ignore"}
                        /\ Sets(rules[i], mode[i])
                        /\ MatchesWithoutManager(rules[i], ctx) <=> i \in hits
    BY <1>2 DEF AreHits
  <2> DEFINE e == EntryOf(i)
             names == Reach(i)
             r == PackageModeRule(e, names)
  <2>2. e \in Entries /\ rules[i] = r
    BY <1>4
  <2>3. mode[i] = e.mode /\ (i \in hits <=> name \in names)
    OBVIOUS
  <2> HIDE DEF e, names, mode, hits
  <2>4. /\ MatchesWithoutManager(r, ctx) <=> ctx.resolves \in names
        /\ IF e.mode = "ignore"
           THEN r.action = "exclude" /\ r.mode = "none" /\ r.effect = "package-ignore"
           ELSE r.action = "include" /\ r.mode = e.mode /\ r.effect = "clear-any-ignore"
    BY PackageModeRuleMatches
  <2> HIDE DEF r
  <2>5. e.mode \in PolicyModes \cup {"ignore"}
    BY <2>2 DEF Entries
  <2>6. QED
    BY <2>2, <2>3, <2>4, <2>5 DEF Sets, name
<1>6. hits \in SUBSET (1..Len(rules))
  BY <1>2
<1>7. /\ hits = {} => t = s
      /\ Others(t) = Others(s)
      /\ \A j \in hits : (\A i \in hits : i <= j) => Follows(t, mode[j])
  <2> HIDE DEF hits, mode
  <2>1. QED
    BY <1>2, <1>3, <1>5, <1>6, HitsGo
<1>8. \A i \in 1..n : /\ name \in Caught(entries[i])
                           <=> entries[i].pattern.valid /\ name \in entries[i].pattern.names
                      /\ name \in Spelled(entries[i]) <=> entries[i].pattern.spells = name
  BY <1>3 DEF Caught, Spelled
<1>9. ASSUME NEW i \in hits PROVE MatchedBy(entries, name)
  <2>1. i \in 1..(n + n) /\ name \in Reach(i)
    OBVIOUS
  <2>2. CASE i <= n
    <3>1. (n - i) + 1 \in 1..n /\ name \in Caught(entries[(n - i) + 1])
      BY <1>4, <2>1, <2>2
    <3>2. QED
      BY <1>1, <1>8, <3>1 DEF MatchedBy, PatternsOf, Speaks
  <2>3. CASE ~(i <= n)
    <3>1. i - n \in 1..n /\ name \in Spelled(entries[i - n])
      BY <1>4, <2>1, <2>3
    <3>2. QED
      BY <1>1, <1>8, <3>1 DEF MatchedBy, PatternsOf, Speaks
  <2>4. QED
    BY <2>2, <2>3
<1>10. ASSUME MatchedBy(entries, name), NEW other
       PROVE  Follows(t, DocumentedMode(entries, other, name))
  <2>1. PICK k \in 1..n :
          /\ DocumentedMode(entries, other, name) = entries[k].mode
          /\ \/ /\ entries[k].pattern.spells = name
                /\ \A j \in 1..n : entries[j].pattern.spells = name => k <= j
             \/ /\ \A j \in 1..n : entries[j].pattern.spells # name
                /\ entries[k].pattern.valid /\ name \in entries[k].pattern.names
                /\ \A j \in 1..n :
                     entries[j].pattern.valid /\ name \in entries[j].pattern.names => k <= j
    <3> DEFINE Is(k) ==
          /\ DocumentedMode(entries, other, name) = entries[k].mode
          /\ \/ /\ entries[k].pattern.spells = name
                /\ \A j \in DOMAIN entries : entries[j].pattern.spells = name => k <= j
             \/ /\ \A j \in DOMAIN entries : entries[j].pattern.spells # name
                /\ entries[k].pattern.valid /\ name \in entries[k].pattern.names
                /\ \A j \in DOMAIN entries :
                     entries[j].pattern.valid /\ name \in entries[j].pattern.names => k <= j
    <3>1. \E k \in DOMAIN entries : Is(k)
      BY <1>10, DocumentedModeIs
    <3>2. QED
      BY <1>1, <3>1
  <2>2. CASE entries[k].pattern.spells = name
    <3>1. n + k \in 1..(n + n) /\ ~(n + k <= n) /\ (n + k) - n = k
      BY <1>1
    <3>2. n + k \in hits /\ mode[n + k] = entries[k].mode
      BY <1>8, <2>2, <3>1
    <3>3. ASSUME NEW i \in hits PROVE i <= n + k
      <4>1. SUFFICES ASSUME ~(i <= n) PROVE i <= n + k
        BY <1>1
      <4>2. i - n \in 1..n /\ name \in Spelled(entries[i - n])
        BY <1>4, <4>1
      <4>3. entries[i - n].pattern.spells = name
        BY <1>8, <4>2
      <4>4. entries[i - n].pattern = entries[k].pattern
        BY <1>1, <1>3, <2>2, <4>2, <4>3 DEF SpelledOnce, PatternsOf
      <4>5. i - n = k
        BY <1>1, <4>2, <4>4 DEF Distinct
      <4>6. QED
        BY <1>1, <4>5
    <3> HIDE DEF hits, mode
    <3>4. QED
      BY <1>7, <2>1, <3>2, <3>3
  <2>3. CASE entries[k].pattern.spells # name
    <3>1. /\ \A j \in 1..n : entries[j].pattern.spells # name
          /\ entries[k].pattern.valid /\ name \in entries[k].pattern.names
          /\ \A j \in 1..n :
               entries[j].pattern.valid /\ name \in entries[j].pattern.names => k <= j
      BY <2>1, <2>3
    <3> DEFINE i0 == (n - k) + 1
    <3>2. i0 \in 1..(n + n) /\ i0 <= n /\ (n - i0) + 1 = k
      BY <1>1
    <3> HIDE DEF i0
    <3>3. i0 \in hits /\ mode[i0] = entries[k].mode
      BY <1>8, <3>1, <3>2
    <3>4. ASSUME NEW i \in hits PROVE i <= i0
      <4>1. i \in 1..(n + n) /\ name \in Reach(i)
        OBVIOUS
      <4>2. CASE ~(i <= n)
        <5>1. i - n \in 1..n /\ name \in Spelled(entries[i - n])
          BY <1>4, <4>1, <4>2
        <5>2. QED
          BY <1>8, <3>1, <5>1
      <4>3. CASE i <= n
        <5>1. (n - i) + 1 \in 1..n /\ name \in Caught(entries[(n - i) + 1])
          BY <1>4, <4>1, <4>3
        <5>2. k <= (n - i) + 1
          BY <1>8, <3>1, <5>1
        <5>3. QED
          BY <1>1, <4>1, <5>2 DEF i0
      <4>4. QED
        BY <4>2, <4>3
    <3> HIDE DEF hits, mode
    <3>5. QED
      BY <1>7, <2>1, <3>3, <3>4
  <2>4. QED
    BY <2>2, <2>3
<1> HIDE DEF hits
<1>11. ~MatchedBy(entries, name) => hits = {}
  BY <1>9
<1>12. QED
  BY <1>7, <1>10, <1>11 DEF name

\* All these are rules of legacy options.
LEMMA FiltersLegacy ==
  ASSUME NEW patterns \in Seq(Patterns)
  PROVE  /\ \A i \in 1..Len(IncludeRules(patterns)) : Legacy(IncludeRules(patterns)[i])
         /\ \A i \in 1..Len(ExcludeRules(patterns)) : Legacy(ExcludeRules(patterns)[i])
<1> DEFINE n == Len(patterns)
<1>1. n \in Nat /\ DOMAIN patterns = 1..n /\ \A i \in 1..n : patterns[i].names \in SUBSET Names
  <2>1. n \in Nat /\ DOMAIN patterns = 1..n /\ \A i \in 1..n : patterns[i] \in Patterns
    OBVIOUS
  <2>2. QED
    BY <2>1 DEF Patterns
<1>2. \A action \in {"include", "exclude"}, effect \in Effects \ {"none"} :
        /\ Legacy(Broad(action, "none", effect))
        /\ \A names \in SUBSET Names : Legacy(For(names, action, effect))
  <2>1. SUFFICES ASSUME NEW action \in {"include", "exclude"}, NEW effect \in Effects \ {"none"},
                        NEW names \in SUBSET Names
                 PROVE  /\ Legacy(Broad(action, "none", effect))
                        /\ Legacy(For(names, action, effect))
    <3>1. Names \in SUBSET Names
      OBVIOUS
    <3>2. QED
      BY <3>1, Zenon
  <2>2. Broad(action, "none", effect) \in RuleFacts /\ For(names, action, effect) \in RuleFacts
    BY BroadIs
  <2>3. /\ Broad(action, "none", effect).manager = "any"
        /\ Broad(action, "none", effect).effect # "none"
        /\ For(names, action, effect).manager = "any"
        /\ For(names, action, effect).effect # "none"
    BY DEF Broad, For
  <2>4. QED
    BY <2>2, <2>3 DEF Legacy
<1>3. /\ "include-default" \in Effects \ {"none"} /\ "exclude-filter" \in Effects \ {"none"}
      /\ "include-match" \in Effects \ {"none"} /\ "include-reset" \in Effects \ {"none"}
      /\ "exclude-reset" \in Effects \ {"none"}
  BY DEF Effects, Causes
<1>4. ASSUME NEW rules, NEW r, NEW action \in {"include", "exclude"},
             NEW effect \in Effects \ {"none"}, Legacy(r), r \in RuleFacts,
             rules = <<r>> \o [i \in DOMAIN patterns |-> For(patterns[i].names, action, effect)]
      PROVE  \A i \in 1..Len(rules) : Legacy(rules[i])
  <2>1. /\ Len(rules) = n + 1 /\ rules[1] = r
        /\ \A i \in 1..n : rules[i + 1] = For(patterns[i].names, action, effect)
    BY <1>4, FilterRules
  <2>2. SUFFICES ASSUME NEW i \in 1..(n + 1) PROVE Legacy(rules[i])
    BY <2>1
  <2> HIDE DEF n
  <2>3. CASE i = 1
    BY <1>4, <2>1, <2>3
  <2>4. CASE i # 1
    <3>1. i - 1 \in 1..n /\ (i - 1) + 1 = i
      BY <1>1, <2>4
    <3>2. rules[i] = For(patterns[i - 1].names, action, effect)
      BY <2>1, <3>1
    <3>3. QED
      BY <1>1, <1>2, <3>1, <3>2
  <2>5. QED
    BY <2>3, <2>4
<1>5. \A action \in {"include", "exclude"}, effect \in Effects :
        Broad(action, "none", effect) \in RuleFacts
  BY BroadTyped
<1>6. \A i \in 1..Len(ExcludeRules(patterns)) : Legacy(ExcludeRules(patterns)[i])
  <2> DEFINE r == Broad("include", "none", "exclude-reset")
             rules == ExcludeRules(patterns)
  <2>1. rules = <<r>> \o [i \in DOMAIN patterns |->
                            For(patterns[i].names, "exclude", "exclude-filter")]
    BY DEF ExcludeRules
  <2>2. Legacy(r) /\ r \in RuleFacts
    BY <1>2, <1>3, <1>5
  <2> HIDE DEF r, rules
  <2>3. "exclude-filter" \in Effects \ {"none"}
    BY <1>3
  <2>4. \A i \in 1..Len(rules) : Legacy(rules[i])
    BY <1>4, <2>1, <2>2, <2>3
  <2>5. QED
    BY <2>4 DEF rules
<1>7. CASE patterns = <<>>
  <2> DEFINE r == Broad("include", "none", "include-reset")
             rules == <<r>>
  <2>1. IncludeRules(patterns) = rules
    BY <1>7 DEF IncludeRules
  <2>2. Legacy(r)
    BY <1>2, <1>3
  <2> HIDE DEF r
  <2>3. Len(rules) = 1 /\ rules[1] = r /\ \A i \in 1..1 : i = 1
    OBVIOUS
  <2> HIDE DEF rules
  <2>4. QED
    BY <2>1, <2>2, <2>3, <1>6
<1>8. CASE patterns # <<>>
  <2> DEFINE r == Broad("exclude", "none", "include-default")
             rules == IncludeRules(patterns)
  <2>1. rules = <<r>> \o [i \in DOMAIN patterns |->
                            For(patterns[i].names, "include", "include-match")]
    BY <1>8 DEF IncludeRules
  <2>2. Legacy(r) /\ r \in RuleFacts
    BY <1>2, <1>3, <1>5
  <2> HIDE DEF r, rules
  <2>3. "include-match" \in Effects \ {"none"}
    BY <1>3
  <2>4. \A i \in 1..Len(rules) : Legacy(rules[i])
    BY <1>4, <2>1, <2>2, <2>3
  <2>5. QED
    BY <1>6, <2>4 DEF rules
<1>9. QED
  BY <1>6, <1>7, <1>8

LEMMA ModesLegacy ==
  ASSUME NEW mode \in PolicyModes \cup {"ignore"}, NEW clears \in BOOLEAN
  PROVE  Legacy(ModeRule(mode, clears))
<1>1. ModeRule(mode, clears) \in RuleFacts
  BY ModeRuleTyped
<1>2. CASE mode = "ignore"
  BY <1>1, <1>2 DEF ModeRule, Legacy, Broad
<1>3. CASE mode # "ignore" /\ clears
  BY <1>1, <1>3 DEF ModeRule, Legacy, Broad
<1>4. CASE mode # "ignore" /\ ~clears
  BY <1>1, <1>4 DEF ModeRule, Legacy, Broad
<1>5. QED
  BY <1>2, <1>3, <1>4

LEMMA PackageModesLegacy ==
  ASSUME NEW entries \in Seq(Entries)
  PROVE  \A i \in 1..Len(PackageModeRules(entries)) : Legacy(PackageModeRules(entries)[i])
<1> DEFINE n == Len(entries)
           rules == PackageModeRules(entries)
<1>1. n \in Nat /\ \A i \in 1..n : entries[i] \in Entries /\ (n - i) + 1 \in 1..n
  OBVIOUS
<1>2. /\ Len(rules) = n + n
      /\ \A i \in 1..n :
           /\ rules[i] = PackageModeRule(entries[(n - i) + 1], Caught(entries[(n - i) + 1]))
           /\ rules[n + i] = PackageModeRule(entries[i], Spelled(entries[i]))
  BY PackageModeRulesAre
<1> HIDE DEF n, rules
<1>3. ASSUME NEW e \in Entries, NEW names \in SUBSET Names
      PROVE  Legacy(PackageModeRule(e, names))
  <2>1. PackageModeRule(e, names) \in RuleFacts
    BY PackageModeRuleTyped
  <2>2. CASE e.mode = "ignore"
    BY <2>1, <2>2 DEF PackageModeRule, Legacy, For, Broad
  <2>3. CASE e.mode # "ignore"
    BY <2>1, <2>3 DEF PackageModeRule, Legacy, For, Broad
  <2>4. QED
    BY <2>2, <2>3
<1>4. \A e \in Entries : Caught(e) \in SUBSET Names /\ Spelled(e) \in SUBSET Names
  BY DEF Entries, Patterns, Caught, Spelled
<1>5. ASSUME NEW i \in 1..(n + n) PROVE Legacy(rules[i])
  <2>1. CASE i <= n
    <3>1. i \in 1..n
      BY <1>1, <2>1
    <3>2. QED
      BY <1>1, <1>2, <1>3, <1>4, <3>1
  <2>2. CASE ~(i <= n)
    <3>1. i - n \in 1..n /\ n + (i - n) = i
      BY <1>1, <2>2
    <3>2. QED
      BY <1>1, <1>2, <1>3, <1>4, <3>1
  <2>3. QED
    BY <2>1, <2>2
<1>6. QED
  BY <1>2, <1>5 DEF rules

----------------------------------------------------------------------------
(* What the parts of a layer do *)

\* What mode does, if the layer gives it.
LEMMA ModePartGoes ==
  ASSUME NEW a \in Seq(RuleFacts), NEW ctx \in Contexts, Plain(Weighing(a, ctx)),
         NEW c \in CompileStates, NEW layer \in LayerFacts, Distinct(c.entries)
  PROVE  LET s == Weighing(a, ctx)  t == Weighing(a \o ModePart(c, layer), ctx) IN
         /\ Plain(t)
         /\ "mode" \notin layer.given => t = s
         /\ "mode" \in layer.given =>
              /\ Standing(t) \ {"global-ignore"} = Standing(s) \ {"global-ignore"}
              /\ "global-ignore" \in Standing(t)
                   <=> layer.mode = "ignore"
                         \/ (c.mode # "ignore" /\ "global-ignore" \in Standing(s))
              /\ t.mode = IF layer.mode = "ignore" THEN s.mode ELSE layer.mode
<1> DEFINE clears == c.mode = "ignore" /\ layer.mode # "ignore"
           r == ModeRule(layer.mode, clears)
           rules == <<r>>
<1>1. ModePart(c, layer) = IF "mode" \in layer.given THEN rules ELSE <<>>
  BY DEF ModePart, Part
<1>2. CASE "mode" \notin layer.given
  <2>1. a \o <<>> = a
    OBVIOUS
  <2>2. QED
    BY <1>1, <1>2, <2>1
<1>3. CASE "mode" \in layer.given
  <2>1. layer.mode \in PolicyModes \cup {"ignore"} /\ clears \in BOOLEAN
    BY DEF LayerFacts
  <2>2. r \in RuleFacts /\ Legacy(r)
    BY <2>1, ModeRuleTyped, ModesLegacy
  <2> HIDE DEF r, clears
  <2>3. rules \in Seq(RuleFacts) /\ \A i \in 1..Len(rules) : Legacy(rules[i])
    BY <2>2
  <2> DEFINE s == Weighing(a, ctx)
             t == Weighing(a \o rules, ctx)
  <2>4. Goes(s, rules, ctx, t) /\ Plain(t)
    <3> HIDE DEF rules
    <3>1. QED
      BY <2>3, LegacyGoes
  <2>5. Goes(s, <<ModeRule(layer.mode, clears)>>, ctx, t)
    BY <2>4 DEF r
  <2> HIDE DEF s, t, rules
  <2>6. /\ Standing(t) \ {"global-ignore"} = Standing(s) \ {"global-ignore"}
        /\ "global-ignore" \in Standing(t)
             <=> layer.mode = "ignore" \/ (~clears /\ "global-ignore" \in Standing(s))
        /\ t.mode = IF layer.mode = "ignore" THEN s.mode ELSE layer.mode
    BY <2>1, <2>5, ModeGoes
  <2>7. QED
    BY <1>1, <1>3, <2>4, <2>6 DEF s, t, clears
<1>4. QED
  BY <1>2, <1>3

\* What packageMode does, if the layer gives it.
LEMMA PackagePartGoes ==
  ASSUME NEW a \in Seq(RuleFacts), NEW ctx \in Contexts, Plain(Weighing(a, ctx)),
         NEW c \in CompileStates, NEW layer \in LayerFacts, Distinct(c.entries),
         SpelledOnce(PatternsOf(EntriesAfter(c, layer)))
  PROVE  LET s == Weighing(a, ctx)  t == Weighing(a \o PackagePart(c, layer), ctx)
             entries == EntriesAfter(c, layer) IN
         /\ Plain(t)
         /\ "packageMode" \notin layer.given => t = s
         /\ Others(t) = Others(s)
         /\ ~MatchedBy(entries, ctx.resolves) => t = s
         /\ "packageMode" \in layer.given /\ MatchedBy(entries, ctx.resolves)
              => \A mode : Follows(t, DocumentedMode(entries, mode, ctx.resolves))
<1> DEFINE entries == EntriesAfter(c, layer)
           rules == PackageModeRules(entries)
<1>1. PackagePart(c, layer) = IF "packageMode" \in layer.given THEN rules ELSE <<>>
  BY DEF PackagePart, Part
<1>2. entries \in Seq(Entries) /\ Distinct(entries) /\ SpelledOnce(PatternsOf(entries))
  BY EntriesTyped
<1> HIDE DEF entries
<1>3. CASE "packageMode" \notin layer.given
  <2>1. a \o <<>> = a
    OBVIOUS
  <2>2. QED
    BY <1>1, <1>3, <2>1 DEF entries
<1>4. CASE "packageMode" \in layer.given
  <2>1. rules \in Seq(RuleFacts) /\ \A i \in 1..Len(rules) : Legacy(rules[i])
    BY <1>2, PackageModesLegacy, PackageModeRulesAre
  <2> DEFINE s == Weighing(a, ctx)
             t == Weighing(a \o rules, ctx)
  <2>2. Goes(s, rules, ctx, t) /\ Plain(t)
    <3> HIDE DEF rules
    <3>1. QED
      BY <2>1, LegacyGoes
  <2>3. Goes(s, PackageModeRules(entries), ctx, t)
    BY <2>2
  <2> HIDE DEF s, t, rules
  <2>4. /\ Others(t) = Others(s)
        /\ ~MatchedBy(entries, ctx.resolves) => t = s
        /\ MatchedBy(entries, ctx.resolves)
             => \A mode : Follows(t, DocumentedMode(entries, mode, ctx.resolves))
    BY <1>2, <2>3, PackageGoes
  <2>5. QED
    BY <1>1, <1>4, <2>2, <2>4 DEF s, t, entries
<1>5. QED
  BY <1>3, <1>4

\* What include does, if the layer gives it.
LEMMA IncludePartGoes ==
  ASSUME NEW a \in Seq(RuleFacts), NEW ctx \in Contexts, Plain(Weighing(a, ctx)),
         NEW layer \in LayerFacts
  PROVE  LET s == Weighing(a, ctx)  t == Weighing(a \o IncludePart(layer), ctx) IN
         /\ Plain(t) /\ t.mode = s.mode
         /\ "include" \notin layer.given => t = s
         /\ Standing(t) \ {"include-default"} = Standing(s) \ {"include-default"}
         /\ "include" \in layer.given =>
              ("include-default" \in Standing(t)
                 <=> layer.include # <<>> /\ ~MatchesOne(layer.include, ctx.name))
<1> DEFINE rules == IncludeRules(layer.include)
<1>1. IncludePart(layer) = IF "include" \in layer.given THEN rules ELSE <<>>
  BY DEF IncludePart, Part
<1>2. layer.include \in Seq(Patterns)
  BY DEF LayerFacts
<1>3. CASE "include" \notin layer.given
  <2>1. a \o <<>> = a
    OBVIOUS
  <2>2. QED
    BY <1>1, <1>3, <2>1
<1>4. CASE "include" \in layer.given
  <2>1. rules \in Seq(RuleFacts) /\ \A i \in 1..Len(rules) : Legacy(rules[i])
    BY <1>2, IncludeRulesTyped, FiltersLegacy
  <2> DEFINE s == Weighing(a, ctx)
             t == Weighing(a \o rules, ctx)
  <2>2. Goes(s, rules, ctx, t)
    <3> HIDE DEF rules
    <3>1. QED
      BY <2>1, LegacyGoes
  <2> HIDE DEF s, t
  <2>3. /\ Plain(t) /\ t.mode = s.mode
        /\ Standing(t) \ {"include-default"} = Standing(s) \ {"include-default"}
        /\ "include-default" \in Standing(t)
             <=> layer.include # <<>> /\ ~MatchesOne(layer.include, ctx.name)
    BY <1>2, <2>2, IncludeGoes
  <2>4. QED
    BY <1>1, <1>4, <2>3 DEF s, t
<1>5. QED
  BY <1>3, <1>4

\* What exclude does, if the layer gives it.
LEMMA ExcludePartGoes ==
  ASSUME NEW a \in Seq(RuleFacts), NEW ctx \in Contexts, Plain(Weighing(a, ctx)),
         NEW layer \in LayerFacts
  PROVE  LET s == Weighing(a, ctx)  t == Weighing(a \o ExcludePart(layer), ctx) IN
         /\ Plain(t) /\ t.mode = s.mode
         /\ "exclude" \notin layer.given => t = s
         /\ Standing(t) \ {"exclude-filter"} = Standing(s) \ {"exclude-filter"}
         /\ "exclude" \in layer.given =>
              ("exclude-filter" \in Standing(t) <=> MatchesOne(layer.exclude, ctx.name))
<1> DEFINE rules == ExcludeRules(layer.exclude)
<1>1. ExcludePart(layer) = IF "exclude" \in layer.given THEN rules ELSE <<>>
  BY DEF ExcludePart, Part
<1>2. layer.exclude \in Seq(Patterns)
  BY DEF LayerFacts
<1>3. CASE "exclude" \notin layer.given
  <2>1. a \o <<>> = a
    OBVIOUS
  <2>2. QED
    BY <1>1, <1>3, <2>1
<1>4. CASE "exclude" \in layer.given
  <2>1. rules \in Seq(RuleFacts) /\ \A i \in 1..Len(rules) : Legacy(rules[i])
    BY <1>2, ExcludeRulesTyped, FiltersLegacy
  <2> DEFINE s == Weighing(a, ctx)
             t == Weighing(a \o rules, ctx)
  <2>2. Goes(s, rules, ctx, t)
    <3> HIDE DEF rules
    <3>1. QED
      BY <2>1, LegacyGoes
  <2> HIDE DEF s, t
  <2>3. /\ Plain(t) /\ t.mode = s.mode
        /\ Standing(t) \ {"exclude-filter"} = Standing(s) \ {"exclude-filter"}
        /\ "exclude-filter" \in Standing(t) <=> MatchesOne(layer.exclude, ctx.name)
    BY <1>2, <2>2, ExcludeGoes
  <2>4. QED
    BY <1>1, <1>4, <2>3 DEF s, t
<1>5. QED
  BY <1>3, <1>4

\* What the rules of some layers have come to, for one dependency.
Agrees(c, s, include, exclude, ctx) ==
  /\ Plain(s)
  /\ "exclude-filter" \in Standing(s) <=> MatchesOne(exclude, ctx.name)
  /\ "include-default" \in Standing(s) <=> include # <<>> /\ ~MatchesOne(include, ctx.name)
  /\ ~MatchedBy(c.entries, ctx.resolves) =>
       /\ "package-ignore" \notin Standing(s)
       /\ "global-ignore" \in Standing(s) <=> c.mode = "ignore"
       /\ c.mode # "ignore" => s.mode = c.mode

\* packageMode has had the last word.
Decided(c, s, ctx) ==
  MatchedBy(c.entries, ctx.resolves) =>
    \A mode : Follows(s, DocumentedMode(c.entries, mode, ctx.resolves))

\* One layer more, and the rules still agree with what the layers gave; packageMode has
\* the last word from the layer that gives it to the next that gives a mode.
LEMMA LayerKeeps ==
  ASSUME NEW c \in CompileStates, NEW layer \in LayerFacts, NEW ctx \in Contexts,
         NEW include, NEW exclude,
         Distinct(c.entries), SpelledOnce(PatternsOf(EntriesAfter(c, layer))),
         layer.rules = <<>>, Agrees(c, Weighing(c.rules, ctx), include, exclude, ctx)
  PROVE  LET d == Compiled(c, layer)  t == Weighing(d.rules, ctx) IN
         /\ Agrees(d, t, IF "include" \in layer.given THEN layer.include ELSE include,
                 IF "exclude" \in layer.given THEN layer.exclude ELSE exclude, ctx)
         /\ "packageMode" \in layer.given => Decided(d, t, ctx)
         /\ /\ "packageMode" \notin layer.given /\ "mode" \notin layer.given
            /\ Decided(c, Weighing(c.rules, ctx), ctx)
            => Decided(d, t, ctx)
<1> DEFINE d == Compiled(c, layer)
           a0 == c.rules
           a1 == a0 \o ModePart(c, layer)
           a2 == a1 \o PackagePart(c, layer)
           a3 == a2 \o IncludePart(layer)
           a4 == a3 \o ExcludePart(layer)
           s0 == Weighing(a0, ctx)
           s1 == Weighing(a1, ctx)
           s2 == Weighing(a2, ctx)
           s3 == Weighing(a3, ctx)
           t == Weighing(a4, ctx)
           entries == EntriesAfter(c, layer)
           name == ctx.resolves
           inc == IF "include" \in layer.given THEN layer.include ELSE include
           exc == IF "exclude" \in layer.given THEN layer.exclude ELSE exclude
<1>1. /\ ModePart(c, layer) \in Seq(RuleFacts) /\ PackagePart(c, layer) \in Seq(RuleFacts)
      /\ IncludePart(layer) \in Seq(RuleFacts) /\ ExcludePart(layer) \in Seq(RuleFacts)
  BY PartsTyped
<1>2. a0 \in Seq(RuleFacts)
  BY DEF CompileStates
<1>3. /\ a1 \in Seq(RuleFacts) /\ a2 \in Seq(RuleFacts) /\ a3 \in Seq(RuleFacts)
      /\ a4 \in Seq(RuleFacts)
  BY <1>1, <1>2
<1>4. /\ d.mode = (IF "mode" \in layer.given THEN layer.mode ELSE c.mode)
      /\ d.entries = entries /\ d.rules = a4
  <2>1. d.rules = a4 \o layer.rules /\ d.entries = entries
          /\ d.mode = (IF "mode" \in layer.given THEN layer.mode ELSE c.mode)
    BY CompiledIs
  <2>2. a4 \o <<>> = a4
    BY <1>3
  <2>3. QED
    BY <2>1, <2>2
<1>5. /\ Plain(s0)
      /\ "exclude-filter" \in Standing(s0) <=> MatchesOne(exclude, ctx.name)
      /\ "include-default" \in Standing(s0)
           <=> include # <<>> /\ ~MatchesOne(include, ctx.name)
      /\ ~MatchedBy(c.entries, name) =>
           /\ "package-ignore" \notin Standing(s0)
           /\ "global-ignore" \in Standing(s0) <=> c.mode = "ignore"
           /\ c.mode # "ignore" => s0.mode = c.mode
  BY DEF Agrees
<1>6. /\ Plain(s1)
      /\ "mode" \notin layer.given => s1 = s0
      /\ "mode" \in layer.given =>
           /\ Standing(s1) \ {"global-ignore"} = Standing(s0) \ {"global-ignore"}
           /\ "global-ignore" \in Standing(s1)
                <=> layer.mode = "ignore"
                      \/ (c.mode # "ignore" /\ "global-ignore" \in Standing(s0))
           /\ s1.mode = IF layer.mode = "ignore" THEN s0.mode ELSE layer.mode
  <2> HIDE DEF a0
  <2>1. QED
    BY <1>2, <1>5, ModePartGoes
<1> HIDE DEF a1
<1>7. /\ Plain(s2)
      /\ "packageMode" \notin layer.given => s2 = s1
      /\ Others(s2) = Others(s1)
      /\ ~MatchedBy(entries, name) => s2 = s1
      /\ "packageMode" \in layer.given /\ MatchedBy(entries, name)
           => \A mode : Follows(s2, DocumentedMode(entries, mode, name))
  BY <1>3, <1>6, PackagePartGoes
<1> HIDE DEF a2
<1>8. /\ Plain(s3) /\ s3.mode = s2.mode
      /\ "include" \notin layer.given => s3 = s2
      /\ Standing(s3) \ {"include-default"} = Standing(s2) \ {"include-default"}
      /\ "include" \in layer.given =>
           ("include-default" \in Standing(s3)
              <=> layer.include # <<>> /\ ~MatchesOne(layer.include, ctx.name))
  BY <1>3, <1>7, IncludePartGoes
<1> HIDE DEF a3
<1>9. /\ Plain(t) /\ t.mode = s3.mode
      /\ "exclude" \notin layer.given => t = s3
      /\ Standing(t) \ {"exclude-filter"} = Standing(s3) \ {"exclude-filter"}
      /\ "exclude" \in layer.given =>
           ("exclude-filter" \in Standing(t) <=> MatchesOne(layer.exclude, ctx.name))
  BY <1>3, <1>8, ExcludePartGoes
<1>10. ~MatchedBy(entries, name) => ~MatchedBy(c.entries, name)
  <2>1. PatternsOf(c.entries) \subseteq PatternsOf(entries)
    BY EntriesTyped
  <2>2. QED
    BY <2>1 DEF MatchedBy
<1>11. layer.mode # "ignore" /\ "mode" \in layer.given => d.mode # "ignore"
  BY <1>4
<1> HIDE DEF a0, a4, s0, s1, s2, s3, t, d, entries, name
<1>12. /\ "exclude-filter" \in Standing(t) <=> MatchesOne(exc, ctx.name)
       /\ "include-default" \in Standing(t) <=> inc # <<>> /\ ~MatchesOne(inc, ctx.name)
  <2>1. /\ "exclude-filter" \in Standing(s3) <=> "exclude-filter" \in Standing(s0)
        /\ "include-default" \in Standing(s2) <=> "include-default" \in Standing(s0)
    BY <1>6, <1>7, <1>8 DEF Others
  <2>2. "exclude-filter" \in Standing(t) <=> MatchesOne(exc, ctx.name)
    BY <1>5, <1>9, <2>1
  <2>3. "include-default" \in Standing(t) <=> "include-default" \in Standing(s3)
    BY <1>9
  <2>4. "include-default" \in Standing(s3) <=> inc # <<>> /\ ~MatchesOne(inc, ctx.name)
    <3>1. CASE "include" \in layer.given
      BY <1>8, <3>1
    <3>2. CASE "include" \notin layer.given
      BY <1>5, <1>8, <2>1, <3>2
    <3>3. QED
      BY <3>1, <3>2
  <2>5. QED
    BY <2>2, <2>3, <2>4
<1>13. /\ "package-ignore" \in Standing(t) <=> "package-ignore" \in Standing(s2)
       /\ "global-ignore" \in Standing(t) <=> "global-ignore" \in Standing(s2)
       /\ t.mode = s2.mode
  BY <1>8, <1>9
<1>14. ASSUME ~MatchedBy(d.entries, ctx.resolves)
       PROVE  /\ "package-ignore" \notin Standing(t)
              /\ "global-ignore" \in Standing(t) <=> d.mode = "ignore"
              /\ d.mode # "ignore" => t.mode = d.mode
  <2>1. /\ s2 = s1
        /\ "package-ignore" \notin Standing(s0)
        /\ "global-ignore" \in Standing(s0) <=> c.mode = "ignore"
        /\ c.mode # "ignore" => s0.mode = c.mode
    BY <1>4, <1>5, <1>7, <1>10, <1>14 DEF name
  <2>2. CASE "mode" \in layer.given
    BY <1>4, <1>6, <1>13, <2>1, <2>2
  <2>3. CASE "mode" \notin layer.given
    BY <1>4, <1>6, <1>13, <2>1, <2>3
  <2>4. QED
    BY <2>2, <2>3
<1>15. Agrees(d, t, inc, exc, ctx)
  <2> HIDE DEF inc, exc
  <2>1. QED
    BY <1>9, <1>12, <1>14 DEF Agrees
<1>16. \A mode : Follows(s2, mode) <=> Follows(t, mode)
  BY <1>13 DEF Follows
<1>17. "packageMode" \in layer.given => Decided(d, t, ctx)
  BY <1>4, <1>7, <1>16 DEF Decided, name
<1>18. /\ "packageMode" \notin layer.given /\ "mode" \notin layer.given /\ Decided(c, s0, ctx)
       => Decided(d, t, ctx)
  <2>1. SUFFICES ASSUME "packageMode" \notin layer.given, "mode" \notin layer.given,
                        Decided(c, s0, ctx)
                 PROVE  Decided(d, t, ctx)
    OBVIOUS
  <2>2. entries = c.entries /\ s2 = s0
    BY <1>6, <1>7, <2>1 DEF entries, EntriesAfter
  <2>3. QED
    BY <1>4, <1>16, <2>1, <2>2 DEF Decided
<1>19. d.rules = a4
  BY <1>4
<1>20. QED
  BY <1>15, <1>17, <1>18, <1>19 DEF d, t, inc, exc, s0, a0

\* Without a layer nothing was given and nothing stands.
LEMMA UncompiledAgrees ==
  ASSUME NEW ctx \in Contexts
  PROVE  Agrees(Uncompiled, Weighing(Uncompiled.rules, ctx), <<>>, <<>>, ctx)
<1> DEFINE rules == Uncompiled.rules
<1>1. rules = <<>> /\ Len(rules) = 0
  BY DEF Uncompiled
<1>2. Weighing(rules, ctx) = Unweighed
  <2> HIDE DEF rules
  <2>1. Len(rules) \in Nat
    BY <1>1
  <2>2. \E f : f[0] = Unweighed /\ Weighing(rules, ctx) = f[Len(rules)]
    BY <2>1, WeighingTraced
  <2>3. QED
    BY <1>1, <2>2
<1>3. Plain(Unweighed) /\ Unweighed.mode = "default" /\ Standing(Unweighed) = {}
  BY UnweighedReached DEF Unweighed, Plain, Standing, LeftBy
<1>4. Uncompiled.mode = "default"
  BY DEF Uncompiled
<1>5. ~MatchesOne(<<>>, ctx.name)
  BY DEF MatchesOne
<1> HIDE DEF rules
<1>6. Agrees(Uncompiled, Unweighed, <<>>, <<>>, ctx)
  BY <1>3, <1>4, <1>5 DEF Agrees
<1>7. QED
  BY <1>2, <1>6 DEF rules

\* An option comes from the last layer that gives it.
LEMMA LatestIs ==
  ASSUME NEW x, NEW y, NEW z, NEW option
  PROVE  LET layers == <<x, y, z>> IN
         /\ Given(layers, option) = {} <=> option \notin x.given \cup y.given \cup z.given
         /\ option \in z.given => Latest(layers, option) = 3
         /\ option \notin z.given /\ option \in y.given => Latest(layers, option) = 2
         /\ option \notin z.given /\ option \notin y.given /\ option \in x.given
              => Latest(layers, option) = 1
<1> DEFINE layers == <<x, y, z>>
           places == Given(layers, option)
<1>1. DOMAIN layers = {1, 2, 3} /\ layers[1] = x /\ layers[2] = y /\ layers[3] = z
  OBVIOUS
<1> HIDE DEF layers
<1>2. places = {i \in {1, 2, 3} : option \in layers[i].given}
  BY <1>1 DEF Given
<1>3. /\ 1 \in places <=> option \in x.given
      /\ 2 \in places <=> option \in y.given
      /\ 3 \in places <=> option \in z.given
      /\ \A i \in places : i = 1 \/ i = 2 \/ i = 3
  BY <1>1, <1>2
<1>4. Latest(layers, option) = CHOOSE i \in places : \A j \in places : j <= i
  BY DEF Latest
<1> HIDE DEF places
<1>5. \A i, k \in places :
        (\A j \in places : j <= i) /\ (\A j \in places : j <= k) => i = k
  BY <1>3
<1>6. ASSUME NEW i \in places, \A j \in places : j <= i
      PROVE  Latest(layers, option) = i
  <2> DEFINE k == CHOOSE k \in places : \A j \in places : j <= k
  <2>1. k \in places /\ \A j \in places : j <= k
    BY <1>6
  <2> HIDE DEF k
  <2>2. k = i
    BY <1>5, <1>6, <2>1
  <2>3. QED
    BY <1>4, <2>2 DEF k
<1>7. option \in z.given => Latest(layers, option) = 3
  BY <1>3, <1>6
<1>8. option \notin z.given /\ option \in y.given => Latest(layers, option) = 2
  BY <1>3, <1>6
<1>9. option \notin z.given /\ option \notin y.given /\ option \in x.given
        => Latest(layers, option) = 1
  BY <1>3, <1>6
<1>10. Given(layers, option) = {} <=> option \notin x.given \cup y.given \cup z.given
  BY <1>3 DEF places
<1>11. QED
  BY <1>7, <1>8, <1>9, <1>10 DEF layers

\* Three layers after each other.
After(x, y, z) == Compiled(Compiled(Compiled(Uncompiled, x), y), z)
IncludeOf(layer, include) == IF "include" \in layer.given THEN layer.include ELSE include
ExcludeOf(layer, exclude) == IF "exclude" \in layer.given THEN layer.exclude ELSE exclude

\* All its patterns are from the layers.
From(c, x, y, z) ==
  PatternsOf(c.entries)
    \subseteq PatternsOf(x.packageMode) \cup PatternsOf(y.packageMode)
                \cup PatternsOf(z.packageMode)

\* The states on the way through three layers.
LEMMA AfterTyped ==
  ASSUME NEW x \in LayerFacts, NEW y \in LayerFacts, NEW z \in LayerFacts
  PROVE  LET one == Compiled(Uncompiled, x)  two == Compiled(one, y)  three == Compiled(two, z)
         IN /\ one \in CompileStates /\ Distinct(one.entries)
            /\ one.entries = EntriesAfter(Uncompiled, x)
            /\ one.mode = (IF "mode" \in x.given THEN x.mode ELSE "default")
            /\ two \in CompileStates /\ Distinct(two.entries)
            /\ two.entries = EntriesAfter(one, y)
            /\ two.mode = (IF "mode" \in y.given THEN y.mode ELSE one.mode)
            /\ three \in CompileStates /\ Distinct(three.entries)
            /\ three.entries = EntriesAfter(two, z)
            /\ three.mode = (IF "mode" \in z.given THEN z.mode ELSE two.mode)
            /\ From(one, x, y, z) /\ From(two, x, y, z) /\ From(three, x, y, z)
<1> DEFINE one == Compiled(Uncompiled, x)
           two == Compiled(one, y)
           three == Compiled(two, z)
<1>1. Uncompiled \in CompileStates /\ Distinct(Uncompiled.entries)
        /\ Uncompiled.mode = "default" /\ PatternsOf(Uncompiled.entries) = {}
  <2>1. PatternsOf(Uncompiled.entries) = {} /\ Uncompiled.mode = "default"
    BY DEF Uncompiled, PatternsOf
  <2>2. QED
    BY <2>1, UncompiledTyped
<1>2. /\ one \in CompileStates /\ Distinct(one.entries)
      /\ one.entries = EntriesAfter(Uncompiled, x)
      /\ one.mode = (IF "mode" \in x.given THEN x.mode ELSE "default")
  BY <1>1, CompiledIs
<1>3. PatternsOf(one.entries) \subseteq PatternsOf(x.packageMode)
  BY <1>1, <1>2, EntriesTyped
<1> HIDE DEF one
<1>4. /\ two \in CompileStates /\ Distinct(two.entries)
      /\ two.entries = EntriesAfter(one, y)
      /\ two.mode = (IF "mode" \in y.given THEN y.mode ELSE one.mode)
  BY <1>2, CompiledIs
<1>5. PatternsOf(two.entries) \subseteq PatternsOf(one.entries) \cup PatternsOf(y.packageMode)
  BY <1>2, <1>4, EntriesTyped
<1> HIDE DEF two
<1>6. /\ three \in CompileStates /\ Distinct(three.entries)
      /\ three.entries = EntriesAfter(two, z)
      /\ three.mode = (IF "mode" \in z.given THEN z.mode ELSE two.mode)
  BY <1>4, CompiledIs
<1>7. PatternsOf(three.entries) \subseteq PatternsOf(two.entries) \cup PatternsOf(z.packageMode)
  BY <1>4, <1>6, EntriesTyped
<1> HIDE DEF three
<1>8. From(one, x, y, z) /\ From(two, x, y, z) /\ From(three, x, y, z)
  BY <1>3, <1>5, <1>7 DEF From
<1>9. QED
  BY <1>2, <1>4, <1>6, <1>8 DEF one, two, three

\* The documented decision, by the states of the compiler.
LEMMA DocumentedIs ==
  ASSUME NEW x \in LayerFacts, NEW y \in LayerFacts, NEW z \in LayerFacts, NEW ctx,
         "mode" \in x.given
  PROVE  LET c == After(x, y, z)
             mode == DocumentedMode(c.entries, c.mode, ctx.resolves)
             include == IncludeOf(z, IncludeOf(y, IncludeOf(x, <<>>)))
             exclude == ExcludeOf(z, ExcludeOf(y, ExcludeOf(x, <<>>)))
         IN DocumentedDecision(<<x, y, z>>, ctx)
              = [excluded |-> Excluded(include, exclude, mode, ctx.name), mode |-> mode]
<1> DEFINE layers == <<x, y, z>>
           Step(was, layer) == IF "packageMode" \in layer.given
                               THEN Merged(was, layer.packageMode) ELSE was
           IsIt(f) == f = [k \in 0..Len(layers) |->
                             CASE k = 0 -> <<>>
                               [] k # 0 /\ "packageMode" \in layers[k].given ->
                                    Merged(f[k - 1], layers[k].packageMode)
                               [] OTHER -> f[k - 1]]
           h == CHOOSE f : IsIt(f)
           one == Compiled(Uncompiled, x)
           two == Compiled(one, y)
           three == Compiled(two, z)
           last == layers[Latest(layers, "mode")].mode
           include == IF Given(layers, "include") = {} THEN <<>>
                      ELSE layers[Latest(layers, "include")].include
           exclude == IF Given(layers, "exclude") = {} THEN <<>>
                      ELSE layers[Latest(layers, "exclude")].exclude
           mode == DocumentedMode(h[Len(layers)], last, ctx.resolves)
<1>1. DocumentedDecision(layers, ctx)
        = [excluded |-> Excluded(include, exclude, mode, ctx.name), mode |-> mode]
  BY DEF DocumentedDecision
<1>2. Len(layers) = 3 /\ layers[1] = x /\ layers[2] = y /\ layers[3] = z
  OBVIOUS
<1>3. /\ one.entries = Step(<<>>, x) /\ two.entries = Step(one.entries, y)
      /\ three.entries = Step(two.entries, z)
      /\ three.mode = (IF "mode" \in z.given THEN z.mode
                       ELSE IF "mode" \in y.given THEN y.mode ELSE x.mode)
  <2>1. /\ one.entries = EntriesAfter(Uncompiled, x)
        /\ one.mode = (IF "mode" \in x.given THEN x.mode ELSE "default")
        /\ two.entries = EntriesAfter(one, y)
        /\ two.mode = (IF "mode" \in y.given THEN y.mode ELSE one.mode)
        /\ three.entries = EntriesAfter(two, z)
        /\ three.mode = (IF "mode" \in z.given THEN z.mode ELSE two.mode)
    BY AfterTyped
  <2>2. Uncompiled.entries = <<>>
    BY DEF Uncompiled
  <2> HIDE DEF one, two, three
  <2>3. QED
    BY <2>1, <2>2 DEF EntriesAfter
<1>4. h[Len(layers)] = three.entries
  <2> DEFINE first == one.entries
             second == two.entries
             third == three.entries
             Next4(f, k) == IF k = 0 THEN <<>> ELSE Step(f[k - 1], layers[k])
  <2>1. \A f : IsIt(f) <=> f = [k \in 0..3 |-> Next4(f, k)]
    <3>1. \A f : \A k \in 0..3 :
            (CASE k = 0 -> <<>>
               [] k # 0 /\ "packageMode" \in layers[k].given ->
                    Merged(f[k - 1], layers[k].packageMode)
               [] OTHER -> f[k - 1])
            = Next4(f, k)
      <4> HIDE DEF layers
      <4>1. QED
        OBVIOUS
    <3> HIDE DEF layers
    <3>2. QED
      BY <1>2, <3>1
  <2> HIDE DEF one, two, three, IsIt
  <2>2. \E f : IsIt(f)
    <3> DEFINE f == [k \in 0..3 |-> IF k = 0 THEN <<>> ELSE IF k = 1 THEN first
                                    ELSE IF k = 2 THEN second ELSE third]
    <3>1. f[0] = <<>> /\ f[1] = first /\ f[2] = second /\ f[3] = third
      OBVIOUS
    <3>2. \A k \in 0..3 : k = 0 \/ k = 1 \/ k = 2 \/ k = 3
      OBVIOUS
    <3>3. first = Step(<<>>, layers[1]) /\ second = Step(first, layers[2])
            /\ third = Step(second, layers[3])
      BY <1>2, <1>3
    <3> HIDE DEF layers, first, second, third, Step
    <3>4. \A k \in 0..3 : f[k] = Next4(f, k)
      BY <3>1, <3>2, <3>3
    <3>5. f = [k \in 0..3 |-> Next4(f, k)]
      BY <3>4
    <3> HIDE DEF f, Next4
    <3>6. IsIt(f)
      BY <2>1, <3>5
    <3>7. QED
      BY <3>6
  <2>3. IsIt(h)
    BY <2>2
  <2> HIDE DEF h
  <2>4. \A k \in 0..3 : h[k] = Next4(h, k)
    <3>1. h = [k \in 0..3 |-> Next4(h, k)]
      BY <2>1, <2>3
    <3> HIDE DEF Next4
    <3>2. QED
      BY <3>1
  <2> HIDE DEF layers, Step
  <2>5. h[0] = <<>> /\ h[1] = Step(h[0], x) /\ h[2] = Step(h[1], y) /\ h[3] = Step(h[2], z)
    BY <1>2, <2>4
  <2>6. QED
    BY <1>2, <1>3, <2>5
<1> HIDE DEF h, one, two
<1>5. last = three.mode
  <2>1. /\ "mode" \in z.given => Latest(layers, "mode") = 3
        /\ "mode" \notin z.given /\ "mode" \in y.given => Latest(layers, "mode") = 2
        /\ "mode" \notin z.given /\ "mode" \notin y.given => Latest(layers, "mode") = 1
    BY LatestIs
  <2> HIDE DEF layers, three
  <2>2. QED
    BY <1>2, <1>3, <2>1
<1>6. include = IncludeOf(z, IncludeOf(y, IncludeOf(x, <<>>)))
  <2>1. /\ Given(layers, "include") = {} <=> "include" \notin x.given \cup y.given \cup z.given
        /\ "include" \in z.given => Latest(layers, "include") = 3
        /\ "include" \notin z.given /\ "include" \in y.given => Latest(layers, "include") = 2
        /\ "include" \notin z.given /\ "include" \notin y.given /\ "include" \in x.given
             => Latest(layers, "include") = 1
    BY LatestIs
  <2> HIDE DEF layers
  <2>2. QED
    BY <1>2, <2>1 DEF IncludeOf
<1>7. exclude = ExcludeOf(z, ExcludeOf(y, ExcludeOf(x, <<>>)))
  <2>1. /\ Given(layers, "exclude") = {} <=> "exclude" \notin x.given \cup y.given \cup z.given
        /\ "exclude" \in z.given => Latest(layers, "exclude") = 3
        /\ "exclude" \notin z.given /\ "exclude" \in y.given => Latest(layers, "exclude") = 2
        /\ "exclude" \notin z.given /\ "exclude" \notin y.given /\ "exclude" \in x.given
             => Latest(layers, "exclude") = 1
    BY LatestIs
  <2> HIDE DEF layers
  <2>2. QED
    BY <1>2, <2>1 DEF ExcludeOf
<1>8. mode = DocumentedMode(three.entries, three.mode, ctx.resolves)
  BY <1>4, <1>5
<1>9. three = After(x, y, z)
  BY DEF After, three, two, one
<1> HIDE DEF three, mode, include, exclude, layers
<1>10. QED
  BY <1>1, <1>6, <1>7, <1>8, <1>9 DEF layers

\* The rules of three layers without rules of their own agree with what was given.
LEMMA ThreeLayersAgree ==
  ASSUME NEW x \in LayerFacts, NEW y \in LayerFacts, NEW z \in LayerFacts,
         NEW ctx \in Contexts, LegacyOptions(<<x, y, z>>),
         SpelledOnce(PatternsOf(x.packageMode) \cup PatternsOf(y.packageMode)
                       \cup PatternsOf(z.packageMode))
  PROVE  LET c == After(x, y, z)  s == Weighing(c.rules, ctx)
             include == IncludeOf(z, IncludeOf(y, IncludeOf(x, <<>>)))
             exclude == ExcludeOf(z, ExcludeOf(y, ExcludeOf(x, <<>>)))
         IN Agrees(c, s, include, exclude, ctx) /\ Decided(c, s, ctx)
<1> DEFINE layers == <<x, y, z>>
           one == Compiled(Uncompiled, x)
           two == Compiled(one, y)
           three == Compiled(two, z)
           inc1 == IncludeOf(x, <<>>)
           inc2 == IncludeOf(y, inc1)
           inc3 == IncludeOf(z, inc2)
           exc1 == ExcludeOf(x, <<>>)
           exc2 == ExcludeOf(y, exc1)
           exc3 == ExcludeOf(z, exc2)
           all == PatternsOf(x.packageMode) \cup PatternsOf(y.packageMode)
                    \cup PatternsOf(z.packageMode)
           Seen(c) == Weighing(c.rules, ctx)
<1>1. layers[1] = x /\ layers[2] = y /\ layers[3] = z /\ DOMAIN layers = {1, 2, 3}
  OBVIOUS
<1>2. x.rules = <<>> /\ y.rules = <<>> /\ z.rules = <<>>
  <2> HIDE DEF layers
  <2>1. \A i \in DOMAIN layers : layers[i].rules = <<>>
    BY DEF LegacyOptions, layers
  <2>2. QED
    BY <1>1, <2>1
<1>3. /\ one \in CompileStates /\ Distinct(one.entries)
      /\ one.entries = EntriesAfter(Uncompiled, x)
      /\ two \in CompileStates /\ Distinct(two.entries)
      /\ two.entries = EntriesAfter(one, y)
      /\ three.entries = EntriesAfter(two, z)
      /\ PatternsOf(one.entries) \cup PatternsOf(two.entries) \cup PatternsOf(three.entries)
           \subseteq all
  <2>1. /\ one \in CompileStates /\ Distinct(one.entries)
        /\ one.entries = EntriesAfter(Uncompiled, x)
        /\ one.mode = (IF "mode" \in x.given THEN x.mode ELSE "default")
        /\ two \in CompileStates /\ Distinct(two.entries)
        /\ two.entries = EntriesAfter(one, y)
        /\ two.mode = (IF "mode" \in y.given THEN y.mode ELSE one.mode)
        /\ three \in CompileStates /\ Distinct(three.entries)
        /\ three.entries = EntriesAfter(two, z)
        /\ three.mode = (IF "mode" \in z.given THEN z.mode ELSE two.mode)
    BY AfterTyped
  <2>2. From(one, x, y, z) /\ From(two, x, y, z) /\ From(three, x, y, z)
    BY AfterTyped
  <2> HIDE DEF one, two, three
  <2>3. QED
    BY <2>1, <2>2 DEF From
<1>4. /\ SpelledOnce(PatternsOf(EntriesAfter(Uncompiled, x)))
      /\ SpelledOnce(PatternsOf(EntriesAfter(one, y)))
      /\ SpelledOnce(PatternsOf(EntriesAfter(two, z)))
  <2>0. SpelledOnce(all)
    OBVIOUS
  <2> HIDE DEF one, two, three, all
  <2>1. \A part \in SUBSET all : SpelledOnce(part)
    BY <2>0 DEF SpelledOnce
  <2>2. QED
    BY <1>3, <2>1
<1> HIDE DEF all
<1>5. /\ Agrees(one, Seen(one), inc1, exc1, ctx)
      /\ "packageMode" \in x.given => Decided(one, Seen(one), ctx)
  <2>1. Uncompiled \in CompileStates /\ Distinct(Uncompiled.entries)
    BY UncompiledTyped
  <2>2. Agrees(Uncompiled, Weighing(Uncompiled.rules, ctx), <<>>, <<>>, ctx)
    BY UncompiledAgrees
  <2>3. QED
    BY <1>2, <1>4, <2>1, <2>2, LayerKeeps DEF IncludeOf, ExcludeOf
<1> HIDE DEF one, inc1, exc1
<1>6. /\ Agrees(two, Seen(two), inc2, exc2, ctx)
      /\ "packageMode" \in y.given => Decided(two, Seen(two), ctx)
      /\ "packageMode" \notin y.given /\ "mode" \notin y.given /\ Decided(one, Seen(one), ctx)
           => Decided(two, Seen(two), ctx)
  BY <1>2, <1>3, <1>4, <1>5, LayerKeeps DEF IncludeOf, ExcludeOf
<1> HIDE DEF two, inc2, exc2
<1>7. /\ Agrees(three, Seen(three), inc3, exc3, ctx)
      /\ "packageMode" \in z.given => Decided(three, Seen(three), ctx)
      /\ "packageMode" \notin z.given /\ "mode" \notin z.given /\ Decided(two, Seen(two), ctx)
           => Decided(three, Seen(three), ctx)
  BY <1>2, <1>3, <1>4, <1>6, LayerKeeps DEF IncludeOf, ExcludeOf
<1> HIDE DEF three, inc3, exc3
<1>8. Decided(three, Seen(three), ctx)
  <2> DEFINE places == Given(layers, "packageMode")
  <2>1. places # {} => Latest(layers, "mode") <= Latest(layers, "packageMode")
    BY DEF LegacyOptions
  <2>2. /\ places = {} <=> "packageMode" \notin x.given \cup y.given \cup z.given
        /\ "packageMode" \in z.given => Latest(layers, "packageMode") = 3
        /\ "packageMode" \notin z.given /\ "packageMode" \in y.given
             => Latest(layers, "packageMode") = 2
        /\ "packageMode" \notin z.given /\ "packageMode" \notin y.given
             /\ "packageMode" \in x.given => Latest(layers, "packageMode") = 1
    BY LatestIs
  <2>3. /\ "mode" \in z.given => Latest(layers, "mode") = 3
        /\ "mode" \notin z.given /\ "mode" \in y.given => Latest(layers, "mode") = 2
    BY LatestIs
  <2> HIDE DEF layers, places, Seen
  <2>4. CASE "packageMode" \in z.given
    BY <1>7, <2>4
  <2>5. CASE "packageMode" \notin z.given /\ "packageMode" \in y.given
    <3>1. "mode" \notin z.given
      BY <2>1, <2>2, <2>3, <2>5
    <3>2. QED
      BY <1>6, <1>7, <2>5, <3>1
  <2>6. CASE "packageMode" \notin z.given /\ "packageMode" \notin y.given
               /\ "packageMode" \in x.given
    <3>1. "mode" \notin z.given /\ "mode" \notin y.given
      BY <2>1, <2>2, <2>3, <2>6
    <3>2. QED
      BY <1>5, <1>6, <1>7, <2>6, <3>1
  <2>7. CASE "packageMode" \notin z.given /\ "packageMode" \notin y.given
               /\ "packageMode" \notin x.given
    <3>1. three.entries = <<>>
      BY <1>3, <2>7 DEF EntriesAfter, Uncompiled
    <3>2. QED
      BY <3>1 DEF Decided, MatchedBy, PatternsOf
  <2>8. QED
    BY <2>4, <2>5, <2>6, <2>7
<1>9. three = After(x, y, z)
  BY DEF After, three, two, one
<1>10. QED
  BY <1>7, <1>8, <1>9 DEF inc1, inc2, inc3, exc1, exc2, exc3

\* What stands is what excludes.
LEMMA PlainDecision ==
  ASSUME NEW rules, NEW ctx, Plain(Weighing(rules, ctx))
  PROVE  /\ Evaluate(rules, ctx).status = "selected" <=> Standing(Weighing(rules, ctx)) = {}
         /\ Evaluate(rules, ctx).mode = Weighing(rules, ctx).mode
<1> DEFINE s == Weighing(rules, ctx)
           action == Resolution(s)
<1>1. /\ Evaluate(rules, ctx).mode = s.mode
      /\ Evaluate(rules, ctx).status = "selected"
           <=> ~Undecided(s, action) /\ action.action # "exclude"
  BY EvaluateIs
<1>2. s \in States /\ s.pending = {} /\ s.normal.action = "include" /\ s.normal.at = 0
  BY DEF Plain
<1> HIDE DEF s
<1>3. ~Undecided(s, action)
  BY <1>2 DEF Undecided
<1>4. \A c \in Causes : s.excluded[c] > s.normal.at <=> s.excluded[c] # 0
  BY <1>2 DEF States
<1>5. (\E c \in Causes : s.excluded[c] > s.normal.at) <=> Standing(s) # {}
  BY <1>4 DEF Standing
<1>6. CASE Standing(s) # {}
  <2>1. action.action = "exclude"
    BY <1>2, <1>5, <1>6, ResolutionIs
  <2>2. QED
    BY <1>1, <1>6, <2>1 DEF s
<1>7. CASE Standing(s) = {}
  <2>1. action.action # "exclude"
    BY <1>2, <1>5, <1>7, ResolutionIs
  <2>2. QED
    BY <1>1, <1>3, <1>7, <2>1 DEF s
<1>8. QED
  BY <1>6, <1>7

\* Rules that agree with what was given decide as documented.
LEMMA AgreesDecides ==
  ASSUME NEW c, NEW ctx, NEW include, NEW exclude,
         Agrees(c, Weighing(c.rules, ctx), include, exclude, ctx),
         Decided(c, Weighing(c.rules, ctx), ctx), c.entries \in Seq(Entries)
  PROVE  LET mode == DocumentedMode(c.entries, c.mode, ctx.resolves)
             decision == Evaluate(c.rules, ctx) IN
         /\ decision.status = "selected" <=> ~Excluded(include, exclude, mode, ctx.name)
         /\ decision.status = "selected" => decision.mode = mode
<1> DEFINE s == Weighing(c.rules, ctx)
           mode == DocumentedMode(c.entries, c.mode, ctx.resolves)
           status == Evaluate(c.rules, ctx).status
<1>1. /\ Plain(s)
      /\ "exclude-filter" \in Standing(s) <=> MatchesOne(exclude, ctx.name)
      /\ "include-default" \in Standing(s)
           <=> include # <<>> /\ ~MatchesOne(include, ctx.name)
      /\ ~MatchedBy(c.entries, ctx.resolves) =>
           /\ "package-ignore" \notin Standing(s)
           /\ "global-ignore" \in Standing(s) <=> c.mode = "ignore"
           /\ c.mode # "ignore" => s.mode = c.mode
  BY DEF Agrees
<1>2. /\ status = "selected" <=> Standing(s) = {}
      /\ Evaluate(c.rules, ctx).mode = s.mode
  BY <1>1, PlainDecision
<1>3. Standing(s) = {} <=> /\ "exclude-filter" \notin Standing(s)
                           /\ "include-default" \notin Standing(s)
                           /\ "package-ignore" \notin Standing(s)
                           /\ "global-ignore" \notin Standing(s)
  <2> HIDE DEF s
  <2>1. QED
    BY DEF Standing, Causes
<1>4. /\ mode = "ignore" <=> "package-ignore" \in Standing(s) \/ "global-ignore" \in Standing(s)
      /\ mode # "ignore" => s.mode = mode
  <2>1. CASE MatchedBy(c.entries, ctx.resolves)
    <3>1. Follows(s, mode)
      BY <2>1 DEF Decided
    <3> HIDE DEF s, mode
    <3>2. QED
      BY <3>1 DEF Follows
  <2>2. CASE ~MatchedBy(c.entries, ctx.resolves)
    <3>1. mode = c.mode
      BY <2>2, DocumentedModeIs
    <3> HIDE DEF s, mode
    <3>2. QED
      BY <1>1, <2>2, <3>1
  <2>3. QED
    BY <2>1, <2>2
<1>5. Excluded(include, exclude, mode, ctx.name)
        <=> \/ mode = "ignore" \/ "exclude-filter" \in Standing(s)
            \/ "include-default" \in Standing(s)
  BY <1>1 DEF Excluded
<1> HIDE DEF s, mode, status
<1>6. /\ status = "selected" <=> ~Excluded(include, exclude, mode, ctx.name)
      /\ status = "selected" => Evaluate(c.rules, ctx).mode = mode
  BY <1>2, <1>3, <1>4, <1>5
<1>7. QED
  BY <1>6 DEF mode, status

----------------------------------------------------------------------------
(* The options of a repository *)

\* The layers of a repository are as they are validated.
LEMMA LayersTyped ==
  ASSUME setup \in Setups
  PROVE  \E x, y, z \in LayerFacts :
           /\ PolicyLayers = <<x, y, z>> /\ "mode" \in x.given
           /\ SpelledOnce(PatternsOf(x.packageMode) \cup PatternsOf(y.packageMode)
                            \cup PatternsOf(z.packageMode))
<1> DEFINE x == Layer({"mode"}, "default", <<>>, <<>>, <<>>, <<>>)
           config == setup.config
           z == setup.invocation
           dropped == z.given \cap {"include", "exclude"}
           y == [config EXCEPT !.given = @ \ dropped]
<1>1. /\ config \in LayerFacts /\ z \in LayerFacts
      /\ \A e, f \in ToSet(config.packageMode \o z.packageMode) :
           e.pattern.spells = f.pattern.spells /\ e.pattern.spells \in Names
             => e.pattern = f.pattern
  BY SetupsAssumption
<1>2. PolicyLayers = <<x, y, z>>
  BY DEF PolicyLayers, Layers
<1>3. x \in LayerFacts /\ "mode" \in x.given /\ x.packageMode = <<>>
  BY DEF Layer, LayerFacts, PolicyModes
<1> HIDE DEF config, z, x, dropped
<1>4. y \in LayerFacts /\ y.packageMode = config.packageMode
  BY <1>1 DEF LayerFacts
<1> HIDE DEF y
<1>5. SpelledOnce(PatternsOf(x.packageMode) \cup PatternsOf(y.packageMode)
                    \cup PatternsOf(z.packageMode))
  <2> DEFINE a == config.packageMode
             b == z.packageMode
             all == a \o b
  <2>1. a \in Seq(Entries) /\ b \in Seq(Entries)
    BY <1>1 DEF LayerFacts
  <2> HIDE DEF a, b
  <2>2. /\ Len(a) \in Nat /\ Len(b) \in Nat /\ DOMAIN all = 1..(Len(a) + Len(b))
        /\ DOMAIN a = 1..Len(a) /\ DOMAIN b = 1..Len(b)
        /\ \A i \in 1..Len(a) : all[i] = a[i]
        /\ \A i \in 1..Len(b) : all[Len(a) + i] = b[i]
    BY <2>1
  <2> HIDE DEF all
  <2>3. /\ \A i \in DOMAIN a : a[i] \in ToSet(all)
        /\ \A i \in DOMAIN b : b[i] \in ToSet(all)
    <3>1. \A i \in DOMAIN a : i \in DOMAIN all /\ all[i] = a[i]
      BY <2>2
    <3>2. \A i \in DOMAIN b : Len(a) + i \in DOMAIN all /\ all[Len(a) + i] = b[i]
      BY <2>2
    <3>3. ToSet(all) = {all[i] : i \in DOMAIN all}
      BY DEF ToSet
    <3>4. QED
      BY <3>1, <3>2, <3>3
  <2>4. PatternsOf(x.packageMode) = {}
    BY <1>3 DEF PatternsOf
  <2>5. \A p \in PatternsOf(a) \cup PatternsOf(b) : \E e \in ToSet(all) : p = e.pattern
    BY <2>3 DEF PatternsOf
  <2>6. \A e, f \in ToSet(all) : e.pattern.spells = f.pattern.spells
          /\ e.pattern.spells \in Names => e.pattern = f.pattern
    BY <1>1 DEF all, a, b
  <2>7. SpelledOnce(PatternsOf(a) \cup PatternsOf(b))
    BY <2>5, <2>6 DEF SpelledOnce
  <2>8. PatternsOf(x.packageMode) \cup PatternsOf(y.packageMode) \cup PatternsOf(z.packageMode)
          = PatternsOf(a) \cup PatternsOf(b)
    BY <1>4, <2>4 DEF a, b
  <2>9. QED
    BY <2>7, <2>8
<1>6. QED
  BY <1>1, <1>2, <1>3, <1>4, <1>5

\* The options of a repository decide as documented.
LEMMA OptionsDecide == ASSUME setup \in Setups PROVE OptionsMean
<1>1. PICK x, y, z \in LayerFacts :
        /\ PolicyLayers = <<x, y, z>> /\ "mode" \in x.given
        /\ SpelledOnce(PatternsOf(x.packageMode) \cup PatternsOf(y.packageMode)
                         \cup PatternsOf(z.packageMode))
  BY LayersTyped
<1> DEFINE layers == <<x, y, z>>
           c == After(x, y, z)
           include == IncludeOf(z, IncludeOf(y, IncludeOf(x, <<>>)))
           exclude == ExcludeOf(z, ExcludeOf(y, ExcludeOf(x, <<>>)))
<1>2. Compile(layers) = c.rules
  BY CompileIs DEF After
<1>3. c.entries \in Seq(Entries)
  <2>1. c \in CompileStates
    BY AfterTyped DEF After
  <2> HIDE DEF c
  <2>2. QED
    BY <2>1 DEF CompileStates
<1>4. SUFFICES ASSUME LegacyOptions(layers), NEW ctx \in Contexts
               PROVE  LET doc == DocumentedDecision(layers, ctx)
                          decision == Evaluate(c.rules, ctx) IN
                      /\ (decision.status = "selected") <=> ~doc.excluded
                      /\ decision.status = "selected" => decision.mode = doc.mode
  BY <1>1, <1>2 DEF OptionsMean
<1> DEFINE mode == DocumentedMode(c.entries, c.mode, ctx.resolves)
<1>5. DocumentedDecision(layers, ctx)
        = [excluded |-> Excluded(include, exclude, mode, ctx.name), mode |-> mode]
  BY <1>1, DocumentedIs
<1>6. Agrees(c, Weighing(c.rules, ctx), include, exclude, ctx)
        /\ Decided(c, Weighing(c.rules, ctx), ctx)
  BY <1>1, <1>4, ThreeLayersAgree
<1> HIDE DEF c, include, exclude, layers
<1>7. LET decision == Evaluate(c.rules, ctx) IN
      /\ decision.status = "selected" <=> ~Excluded(include, exclude, mode, ctx.name)
      /\ decision.status = "selected" => decision.mode = mode
  BY <1>3, <1>6, AgreesDecides
<1> HIDE DEF mode
<1>8. QED
  BY <1>5, <1>7

\* The rules of a repository.
LEMMA RulesTyped ==
  ASSUME setup \in Setups
  PROVE  /\ Compile(PolicyLayers) \in Seq(RuleFacts) /\ setup.flags \in Flags
         /\ Rules \in Seq(RuleFacts)
<1>1. PICK x, y, z \in LayerFacts : PolicyLayers = <<x, y, z>>
  BY LayersTyped
<1>2. Compile(PolicyLayers) = After(x, y, z).rules
  BY <1>1, CompileIs DEF After
<1>3. After(x, y, z) \in CompileStates
  BY AfterTyped DEF After
<1>4. Compile(PolicyLayers) \in Seq(RuleFacts)
  BY <1>2, <1>3 DEF CompileStates
<1>5. setup.flags \in Flags
  BY SetupsAssumption DEF Flags
<1>6. Rules \in Seq(RuleFacts)
  <2> DEFINE rules == Compile(PolicyLayers)
             flags == setup.flags
             w == WorkspaceRule(flags)
             r == CatalogRule(flags)
  <2>1. Rules = Append(Append(rules, w), r)
    BY <1>4, <1>5, AppendedAre DEF Rules
  <2>2. w \in RuleFacts /\ r \in RuleFacts
    BY <1>5, ScopeRules
  <2> HIDE DEF rules, w, r
  <2>3. rules \in Seq(RuleFacts)
    BY <1>4 DEF rules
  <2>4. QED
    BY <2>1, <2>2, <2>3
<1>7. QED
  BY <1>4, <1>5, <1>6

\* The three promises of the policy, for the options of any repository.
LEMMA PolicyHolds ==
  ASSUME setup \in Setups
  PROVE  OptionsMean /\ ScopesAreExcluded /\ DecidedForAll
<1>1. OptionsMean
  BY OptionsDecide
<1>2. ScopesAreExcluded
  <2>1. Rules = Appended(Compile(PolicyLayers), setup.flags)
    BY DEF Rules
  <2>2. Compile(PolicyLayers) \in Seq(RuleFacts) /\ setup.flags \in Flags
    BY RulesTyped
  <2>3. QED
    BY <2>1, <2>2, ScopesNotSelected DEF ScopesAreExcluded
<1>3. DecidedForAll
  <2>1. Rules \in Seq(RuleFacts)
    BY RulesTyped
  <2> DEFINE rules == Rules
  <2>2. rules \in Seq(RuleFacts)
    BY <2>1
  <2> HIDE DEF rules
  <2>3. SUFFICES ASSUME NEW ctx \in Contexts, ctx.manager = "unknown",
                        Evaluate(rules, ctx).status # "blocked",
                        Evaluate(rules, ctx).by # "legacy", NEW manager \in Managers
                 PROVE  LET known == Evaluate(rules, [ctx EXCEPT !.manager = manager]) IN
                        /\ known.action = Evaluate(rules, ctx).action
                        /\ known.mode = Evaluate(rules, ctx).mode
    BY DEF DecidedForAll, rules
  <2>4. QED
    BY <2>2, <2>3, DecidesForAll
<1>4. QED
  BY <1>1, <1>2, <1>3

\* For all layers of options and every dependency: the rules compiled from the options
\* select what is documented, in the documented mode; an excluded scope is never
\* selected; and what is decided without the package manager is decided alike with any
\* (policy/compiler.ts, policy/matcher.ts, selection.ts).
THEOREM PolicyMeansWhatItSays == Spec => []PolicyAsDocumented
<1>1. Init => setup \in Setups
  BY DEF Init
<1>2. setup \in Setups /\ [Next]_vars => (setup \in Setups)'
  BY DEF Next, vars, Decide, Resolve, Hand, Block, Apply, Again, Age
<1>3. setup \in Setups => PolicyAsDocumented
  BY PolicyHolds DEF PolicyAsDocumented
<1>4. QED
  BY <1>1, <1>2, <1>3, PTL DEF Spec

----------------------------------------------------------------------------
(* Checks that come to rest *)

\* Passes without its last clause, and that clause.
Opens(v, spec, reg, opts) ==
  /\ v \in reg.published
  /\ v \notin reg.deprecated \/ spec.at \in reg.deprecated
  /\ opts.cooldown => v \notin reg.recent \cup reg.undated
  /\ Stable(v) \/ Releases[v].channel = Releases[spec.at].channel
Fits(v, spec, reg, mode, opts) ==
  CASE mode = "patch"  -> Diff(spec.at, v) \in {"none", "patch"}
    [] mode = "minor"  -> Diff(spec.at, v) # "major"
    [] mode = "latest" -> v = reg.latest
    [] mode = "ignore" -> FALSE
    [] mode = "next"   -> v = reg.next \/ (reg.next = 0 /\ v = reg.latest)
    [] mode \in {"major", "newest"} -> TRUE
    [] OTHER -> \/ Satisfies(v, spec)
                \/ spec.shape \in Exact /\ opts.includeLocked
                \/ v = reg.latest /\ spec.shape \notin Exact
                     /\ ~\E w \in OfChannel(reg.published, spec.at) : Satisfies(w, spec)

\* The value admits a version of its channel.
Anchored(spec, reg) == \E w \in OfChannel(reg.published, spec.at) : Satisfies(w, spec)

\* A version passes if it opens every gate and fits the mode.
LEMMA PassesBoth ==
  ASSUME NEW v, NEW spec, NEW reg, NEW mode, NEW opts
  PROVE  Passes(v, spec, reg, mode, opts)
           <=> Opens(v, spec, reg, opts) /\ Fits(v, spec, reg, mode, opts)
BY Zenon DEF Passes, Opens, Fits

\* What fits each mode.
LEMMA FitsIs ==
  ASSUME NEW v, NEW spec, NEW reg, NEW opts
  PROVE  /\ Fits(v, spec, reg, "patch", opts)
              <=> Major(v) = Major(spec.at) /\ Minor(v) = Minor(spec.at)
         /\ Fits(v, spec, reg, "minor", opts) <=> Major(v) = Major(spec.at)
         /\ Fits(v, spec, reg, "latest", opts) <=> v = reg.latest
         /\ Fits(v, spec, reg, "next", opts)
              <=> v = reg.next \/ (reg.next = 0 /\ v = reg.latest)
         /\ Fits(v, spec, reg, "major", opts) /\ Fits(v, spec, reg, "newest", opts)
         /\ Fits(v, spec, reg, "default", opts)
              <=> \/ Satisfies(v, spec)
                  \/ spec.shape \in Exact /\ opts.includeLocked
                  \/ v = reg.latest /\ spec.shape \notin Exact /\ ~Anchored(spec, reg)
<1>1. /\ Diff(spec.at, v) \in {"none", "patch"}
           <=> Major(v) = Major(spec.at) /\ Minor(v) = Minor(spec.at)
      /\ Diff(spec.at, v) # "major" <=> Major(v) = Major(spec.at)
  BY DEF Diff
<1>2. QED
  BY <1>1, Zenon DEF Fits, Anchored

\* A value moves: the version c passes, none above it does, and it becomes to.
Moved(spec, reg, mode, opts, c, to) ==
  /\ spec.shape \in Simple \cup XRanges
  /\ c \in Versions /\ c > spec.at /\ Passes(c, spec, reg, mode, opts)
  /\ \A v \in Versions : v > spec.at /\ Passes(v, spec, reg, mode, opts) => v <= c
  /\ Rises(spec, c, to)
  /\ spec.shape \in XRanges => ~Satisfies(c, spec)

\* What a selected verdict does.
LEMMA SelectedMoves ==
  ASSUME NEW spec \in Specs, NEW reg \in RegistryFacts, NEW mode, NEW opts,
         Verdict(spec, reg, mode, opts).status = "selected"
  PROVE  Moved(spec, reg, mode, opts, Select(spec, reg, mode, opts).target,
               Verdict(spec, reg, mode, opts).to)
<1> DEFINE choice == Select(spec, reg, mode, opts)
           c == choice.target
           to == Verdict(spec, reg, mode, opts).to
           left == Left(spec, reg, mode, opts)
<1>1. c # 0 /\ to = Rewritten(spec, c) /\ (spec.shape \in XRanges => ~Satisfies(c, spec))
  BY VerdictSelects
<1>2. /\ spec.shape \in Simple \cup XRanges
      /\ c \in Versions /\ c > spec.at /\ (Stable(c) \/ ~Stable(spec.at))
  BY <1>1, ChoiceMoves
<1>3. Reaches(spec, left, choice)
  BY <1>2, SelectReaches
<1> HIDE DEF c, to, left
<1>4. Rises(spec, c, to)
  BY <1>1, <1>2, RewrittenRises
<1>5. c \in left /\ \A v \in left : v <= c
  BY <1>1, <1>3 DEF Reaches, c
<1>6. spec.at \in Nat /\ Versions \subseteq Nat
  BY SpecFields, ReleasesTyped
<1>7. Passes(c, spec, reg, mode, opts)
  <2>1. c >= spec.at
    BY <1>2, <1>6
  <2>2. QED
    BY <1>2, <1>5, <2>1, PassesIsLeft DEF left
<1>8. ASSUME NEW v \in Versions, v > spec.at, Passes(v, spec, reg, mode, opts)
      PROVE  v <= c
  <2>1. v >= spec.at
    BY <1>6, <1>8
  <2>2. v \in left
    BY <1>2, <1>8, <2>1, PassesIsLeft DEF left
  <2>3. QED
    BY <1>5, <2>2
<1>9. QED
  BY <1>1, <1>2, <1>4, <1>7, <1>8 DEF Moved, c, to

\* The value that is written: at the version itself, or at the one an x-range begins
\* with, which is stable.
LEMMA MovedTo ==
  ASSUME NEW spec \in Specs, NEW reg, NEW mode, NEW opts, NEW c, NEW to,
         Moved(spec, reg, mode, opts, c, to)
  PROVE  /\ to \in Specs /\ to.shape = spec.shape /\ to.at > spec.at
         /\ spec.at \in Nat /\ to.at \in Nat /\ c \in Nat /\ c >= to.at
         /\ Satisfies(c, to) /\ Major(to.at) = Major(c)
         /\ Minor(to.at) = Minor(c) \/ Minor(to.at) = Minor(spec.at)
         /\ to.at = c \/ (to.shape \in XRanges /\ Stable(to.at) /\ Stable(spec.at) /\ Stable(c))
<1>1. /\ to \in Specs /\ to.shape = spec.shape /\ to.at > spec.at
      /\ Satisfies(c, to) /\ Major(to.at) = Major(c)
      /\ spec.shape \in Simple => to.at = c
      /\ spec.shape \in Simple \cup XRanges /\ c \in Versions
      /\ Passes(c, spec, reg, mode, opts)
  BY DEF Moved, Rises
<1>2. /\ spec.at \in Versions /\ to.at \in Versions /\ Versions \subseteq Nat
  BY <1>1, SpecFields, ReleasesTyped
<1>3. c >= to.at
  BY <1>1, <1>2 DEF Satisfies
<1>4. CASE spec.shape \in Simple
  BY <1>1, <1>2, <1>3, <1>4
<1>5. CASE spec.shape = "xmajor"
  <2>1. /\ Releases[spec.at] = Floor(Major(spec.at), 0)
        /\ Releases[to.at] = Floor(Major(to.at), 0)
    BY <1>1, <1>5 DEF Specs
  <2>2. Minor(spec.at) = 0 /\ Minor(to.at) = 0 /\ Stable(spec.at) /\ Stable(to.at)
    BY <2>1, FloorFields
  <2>3. Stable(c)
    BY <1>1, <2>2 DEF Passes, Stable
  <2>4. QED
    BY <1>1, <1>2, <1>3, <1>5, <2>2, <2>3 DEF XRanges
<1>6. CASE spec.shape = "xminor"
  <2>1. /\ Releases[spec.at] = Floor(Major(spec.at), Minor(spec.at))
        /\ Releases[to.at] = Floor(Major(to.at), Minor(to.at))
    BY <1>1, <1>6 DEF Specs
  <2>2. Stable(spec.at) /\ Stable(to.at)
    BY <2>1, FloorFields
  <2>3. Minor(to.at) = Minor(c)
    BY <1>1, <1>6 DEF Satisfies, Exact
  <2>4. Stable(c)
    BY <1>1, <2>2 DEF Passes, Stable
  <2>5. QED
    BY <1>1, <1>2, <1>3, <1>6, <2>2, <2>3, <2>4 DEF XRanges
<1>7. QED
  BY <1>1, <1>4, <1>5, <1>6 DEF XRanges

\* What opens the gates from the value that was written opened them before.
LEMMA OpensBefore ==
  ASSUME NEW spec, NEW to, NEW reg, NEW opts, NEW c, NEW d,
         Opens(c, spec, reg, opts), Opens(d, to, reg, opts),
         to.at = c \/ (Stable(to.at) /\ to.at \notin reg.deprecated)
  PROVE  Opens(d, spec, reg, opts)
<1>1. CASE to.at = c
  BY <1>1, Zenon DEF Opens, Stable
<1>2. CASE Stable(to.at) /\ to.at \notin reg.deprecated
  BY <1>2, Zenon DEF Opens, Stable
<1>3. QED
  BY <1>1, <1>2

\* What is in an x-range: all stable versions from its beginning to one that is.
LEMMA RangeIsFilled ==
  ASSUME NEW spec \in Specs, spec.shape \in XRanges, NEW c \in Versions, Satisfies(c, spec),
         NEW d \in Versions, Stable(d), d > spec.at, d <= c
  PROVE  Satisfies(d, spec)
<1>1. spec.at \in Versions /\ spec.at \in Nat /\ c \in Nat /\ d \in Nat
  BY SpecFields, ReleasesTyped
<1>2. /\ Major(d) \in Nat /\ Minor(d) \in Nat /\ Major(c) \in Nat /\ Minor(c) \in Nat
      /\ Major(spec.at) \in Nat /\ Minor(spec.at) \in Nat
  BY <1>1, ReleasesTyped
<1>3. Major(c) = Major(spec.at) /\ (spec.shape = "xminor" => Minor(c) = Minor(spec.at))
  BY DEF Satisfies, XRanges, Exact
<1>4. /\ ~(Major(d) < Major(spec.at))
      /\ ~(Major(d) = Major(spec.at) /\ Minor(d) < Minor(spec.at))
  <2>1. ~(d < spec.at)
    BY <1>1
  <2>2. QED
    BY <1>1, <2>1, InOrder
<1>5. ~(Major(c) < Major(d)) /\ ~(Major(c) = Major(d) /\ Minor(c) < Minor(d))
  <2>1. ~(c < d)
    BY <1>1
  <2>2. QED
    BY <2>1, InOrder
<1>6. Major(d) = Major(spec.at) /\ (spec.shape = "xminor" => Minor(d) = Minor(spec.at))
  BY <1>2, <1>3, <1>4, <1>5
<1>7. d >= spec.at
  BY <1>1
<1>8. QED
  BY <1>6, <1>7 DEF Satisfies, XRanges, Exact

\* A range ^ or ~ that begins at a version another admits, admits no more.
LEMMA AdmitsLess ==
  ASSUME NEW spec \in Specs, NEW to \in Specs, spec.shape \in {"caret", "tilde"},
         to.shape = spec.shape, Satisfies(to.at, spec), NEW d \in Versions, Satisfies(d, to)
  PROVE  Satisfies(d, spec)
<1>1. spec.at \in Nat /\ to.at \in Nat /\ d \in Nat
  BY SpecFields, ReleasesTyped
<1>2. d >= spec.at
  BY <1>1 DEF Satisfies
<1>3. Stable(d) \/ (~Stable(spec.at) /\ SameCore(d, spec.at))
  BY DEF Satisfies, SameCore
<1>4. CASE spec.shape = "caret"
  BY <1>2, <1>3, <1>4 DEF Satisfies, SameCore, Exact
<1>5. CASE spec.shape = "tilde"
  BY <1>2, <1>3, <1>5 DEF Satisfies, Exact
<1>6. QED
  BY <1>4, <1>5

\* A mode that names no range: what fits it after the value moved, fitted it before.
LEMMA FitsBefore ==
  ASSUME NEW spec, NEW to, NEW reg, NEW opts, NEW c, NEW d, c # 0, d # 0, c # d,
         NEW mode \in PolicyModes \ {"default"},
         Fits(c, spec, reg, mode, opts), Fits(d, to, reg, mode, opts),
         Major(to.at) = Major(c),
         Minor(to.at) = Minor(c) \/ Minor(to.at) = Minor(spec.at)
  PROVE  Fits(d, spec, reg, mode, opts)
<1>1. mode \in {"patch", "minor", "latest", "next", "major", "newest"}
  BY DEF PolicyModes
<1>2. CASE mode = "patch"
  BY <1>2, FitsIs
<1>3. CASE mode = "minor"
  BY <1>3, FitsIs
<1>4. CASE mode = "latest"
  BY <1>4, FitsIs
<1>5. CASE mode = "next"
  <2>1. /\ c = reg.next \/ (reg.next = 0 /\ c = reg.latest)
        /\ d = reg.next \/ (reg.next = 0 /\ d = reg.latest)
    BY <1>5, FitsIs
  <2>2. QED
    BY <2>1
<1>6. CASE mode \in {"major", "newest"}
  BY <1>6, FitsIs
<1>7. QED
  BY <1>1, <1>2, <1>3, <1>4, <1>5, <1>6

\* In a mode that names no range a value that moved is not moved again, unless it is
\* an x-range whose beginning is deprecated.
LEMMA RestsAfterOne ==
  ASSUME NEW spec \in Specs, NEW reg \in RegistryFacts, NEW opts,
         NEW mode \in PolicyModes \ {"default"}, NEW c, NEW d, NEW to, NEW next,
         Moved(spec, reg, mode, opts, c, to), Moved(to, reg, mode, opts, d, next)
  PROVE  BeginsDeprecated(to, reg)
<1>1. SUFFICES ASSUME ~BeginsDeprecated(to, reg) PROVE FALSE
  OBVIOUS
<1>2. /\ to \in Specs /\ to.shape = spec.shape /\ to.at > spec.at
      /\ spec.at \in Nat /\ to.at \in Nat /\ c \in Nat
      /\ Satisfies(c, to) /\ Major(to.at) = Major(c)
      /\ Minor(to.at) = Minor(c) \/ Minor(to.at) = Minor(spec.at)
      /\ to.at = c \/ (to.shape \in XRanges /\ Stable(to.at))
  BY MovedTo
<1>3. /\ d \in Versions /\ d \in Nat /\ d > to.at /\ c \in Versions /\ c # 0 /\ d # 0
      /\ Passes(c, spec, reg, mode, opts) /\ Passes(d, to, reg, mode, opts)
      /\ \A v \in Versions : v > spec.at /\ Passes(v, spec, reg, mode, opts) => v <= c
      /\ to.shape \in XRanges => ~Satisfies(d, to)
  BY ReleasesTyped DEF Moved
<1>4. /\ Opens(c, spec, reg, opts) /\ Fits(c, spec, reg, mode, opts)
      /\ Opens(d, to, reg, opts) /\ Fits(d, to, reg, mode, opts)
  BY <1>3, PassesBoth
<1>5. to.at = c \/ (Stable(to.at) /\ to.at \notin reg.deprecated)
  BY <1>1, <1>2 DEF BeginsDeprecated
<1>6. Opens(d, spec, reg, opts)
  BY <1>4, <1>5, OpensBefore
<1>7. d <= c
  <2>1. CASE d = c
    BY <1>2, <2>1
  <2>2. CASE d # c
    <3>1. Fits(d, spec, reg, mode, opts)
      BY <1>2, <1>3, <1>4, <2>2, FitsBefore
    <3>2. d > spec.at
      BY <1>2, <1>3
    <3>3. QED
      BY <1>3, <1>6, <3>1, <3>2, PassesBoth
  <2>3. QED
    BY <2>1, <2>2
<1>8. CASE to.at = c
  BY <1>2, <1>3, <1>7, <1>8
<1>9. CASE to.shape \in XRanges /\ Stable(to.at)
  <2>1. Stable(d)
    BY <1>4, <1>9, Zenon DEF Opens, Stable
  <2>2. Satisfies(d, to)
    BY <1>2, <1>3, <1>7, <1>9, <2>1, RangeIsFilled
  <2>3. QED
    BY <1>3, <1>9, <2>2
<1>10. QED
  BY <1>2, <1>8, <1>9

\* A value that moved admits a version of its channel.
LEMMA MovedIsAnchored ==
  ASSUME NEW spec \in Specs, NEW reg, NEW mode, NEW opts, NEW c, NEW to,
         Moved(spec, reg, mode, opts, c, to)
  PROVE  Anchored(to, reg)
<1>1. /\ Satisfies(c, to)
      /\ to.at = c \/ (to.shape \in XRanges /\ Stable(to.at) /\ Stable(spec.at) /\ Stable(c))
  BY MovedTo
<1>2. c \in reg.published
  BY DEF Moved, Passes
<1>3. c \in OfChannel(reg.published, to.at)
  <2>1. CASE to.at = c
    BY <1>2, <2>1 DEF OfChannel
  <2>2. CASE Stable(c)
    BY <1>2, <2>2 DEF OfChannel
  <2>3. QED
    BY <1>1, <2>1, <2>2
<1>4. QED
  BY <1>1, <1>3 DEF Anchored

\* In default mode an x-range that admits a version of its channel is not moved, and
\* another value that does is moved once.
LEMMA RestsAnchored ==
  ASSUME NEW spec \in Specs, NEW reg \in RegistryFacts, NEW opts, NEW c, NEW to,
         Anchored(spec, reg), Moved(spec, reg, "default", opts, c, to)
  PROVE  /\ spec.shape \notin XRanges
         /\ \A d, next : ~Moved(to, reg, "default", opts, d, next)
<1>1. /\ to \in Specs /\ to.shape = spec.shape /\ to.at > spec.at
      /\ spec.at \in Nat /\ to.at \in Nat /\ c \in Nat
      /\ to.at = c \/ to.shape \in XRanges
  BY MovedTo
<1>2. /\ spec.shape \in Simple \cup XRanges
      /\ c \in Versions /\ c > spec.at /\ Passes(c, spec, reg, "default", opts)
      /\ \A v \in Versions : v > spec.at /\ Passes(v, spec, reg, "default", opts) => v <= c
      /\ spec.shape \in XRanges => ~Satisfies(c, spec)
  BY DEF Moved
<1>3. /\ Opens(c, spec, reg, opts)
      /\ Satisfies(c, spec) \/ (spec.shape \in Exact /\ opts.includeLocked)
  BY <1>2, PassesBoth, FitsIs, Zenon
<1>4. spec.shape \notin XRanges
  BY <1>2, <1>3 DEF XRanges, Exact
<1>5. ASSUME NEW d, NEW next, Moved(to, reg, "default", opts, d, next) PROVE FALSE
  <2>1. /\ d \in Versions /\ d \in Nat /\ d > to.at /\ Passes(d, to, reg, "default", opts)
    BY <1>5, ReleasesTyped DEF Moved
  <2>2. to.at = c
    BY <1>1, <1>4
  <2>3. Anchored(to, reg)
    BY MovedIsAnchored
  <2>4. /\ Opens(d, to, reg, opts)
        /\ Satisfies(d, to) \/ (to.shape \in Exact /\ opts.includeLocked)
    BY <2>1, <2>3, PassesBoth, FitsIs, Zenon
  <2>5. Opens(d, spec, reg, opts)
    BY <1>3, <2>2, <2>4, OpensBefore
  <2>6. Satisfies(d, spec) \/ (spec.shape \in Exact /\ opts.includeLocked)
    <3>1. CASE spec.shape \in Exact
      <4>1. opts.includeLocked
        <5>1. Satisfies(c, spec) => c = spec.at
          BY <3>1 DEF Satisfies, Exact
        <5>2. c # spec.at
          BY <1>1, <1>2
        <5>3. QED
          BY <1>3, <5>1, <5>2, Zenon
      <4>2. QED
        BY <3>1, <4>1, Zenon
    <3>2. CASE spec.shape \in {"caret", "tilde"}
      <4>1. Satisfies(d, to) /\ Satisfies(to.at, spec)
        BY <1>1, <1>3, <2>2, <2>4, <3>2 DEF Exact
      <4>2. QED
        BY <1>1, <2>1, <3>2, <4>1, AdmitsLess
    <3>3. QED
      BY <1>2, <1>4, <3>1, <3>2 DEF Simple
  <2>7. Passes(d, spec, reg, "default", opts)
    BY <2>5, <2>6, PassesBoth, FitsIs, Zenon
  <2>8. d > spec.at
    BY <1>1, <2>1
  <2>9. d <= c
    BY <1>2, <2>1, <2>7, <2>8
  <2>10. QED
    BY <1>1, <2>1, <2>2, <2>9
<1>6. QED
  BY <1>4, <1>5

\* What a value has come to after n checks that wrote all they selected: what is still
\* selected of it.
Rested(spec, reg, mode, opts, n) ==
  Verdict(spec, reg, mode, opts).status = "selected" =>
    IF mode = "default" THEN n = 0 \/ (n = 1 /\ Anchored(spec, reg))
    ELSE n = 0 \/ BeginsDeprecated(spec, reg)

\* A check that writes what it selected takes a value one step on; of a value it did
\* not select nothing will be.
LEMMA CheckRests ==
  ASSUME NEW spec \in Specs, NEW reg \in RegistryFacts, NEW mode \in PolicyModes, NEW opts,
         NEW n \in Nat, Rested(spec, reg, mode, opts, n)
  PROVE  LET verdict == Verdict(spec, reg, mode, opts) IN
         /\ verdict.status # "selected" => Rested(spec, reg, mode, opts, n + 1)
         /\ verdict.status = "selected" => Rested(verdict.to, reg, mode, opts, n + 1)
<1> DEFINE verdict == Verdict(spec, reg, mode, opts)
           to == verdict.to
           again == Verdict(to, reg, mode, opts)
           c == Select(spec, reg, mode, opts).target
           d == Select(to, reg, mode, opts).target
<1>1. verdict.status # "selected" => Rested(spec, reg, mode, opts, n + 1)
  BY DEF Rested
<1>2. ASSUME verdict.status = "selected" PROVE Rested(to, reg, mode, opts, n + 1)
  <2>1. Moved(spec, reg, mode, opts, c, to)
    BY <1>2, SelectedMoves
  <2> HIDE DEF c, verdict
  <2>2. to \in Specs
    BY <2>1, MovedTo
  <2> HIDE DEF to
  <2>3. again.status = "selected" => Moved(to, reg, mode, opts, d, again.to)
    BY <2>2, SelectedMoves
  <2> HIDE DEF d
  <2>4. CASE mode # "default"
    <3>1. again.status = "selected" => BeginsDeprecated(to, reg)
      BY <2>1, <2>2, <2>3, <2>4, RestsAfterOne
    <3> HIDE DEF again
    <3>2. QED
      BY <2>4, <3>1 DEF Rested, again
  <2>5. CASE mode = "default"
    <3>1. Anchored(to, reg)
      BY <2>1, MovedIsAnchored
    <3>2. n = 0 \/ (n = 1 /\ Anchored(spec, reg))
      BY <1>2, <2>5 DEF Rested, verdict
    <3>3. n = 1 => again.status # "selected"
      BY <2>1, <2>3, <2>5, <3>2, RestsAnchored
    <3> HIDE DEF again
    <3>4. QED
      BY <2>5, <3>1, <3>2, <3>3 DEF Rested, again
  <2>6. QED
    BY <2>4, <2>5
<1>3. QED
  BY <1>1, <1>2 DEF verdict, to

\* Of what rests after its checks nothing more is selected than Settled says.
LEMMA RestedSettles ==
  ASSUME NEW spec, NEW reg, NEW mode, NEW opts, NEW n \in Nat,
         Rested(spec, reg, mode, opts, n), Verdict(spec, reg, mode, opts).status = "selected"
  PROVE  IF mode = "default" THEN n < 2 ELSE n < 1 \/ BeginsDeprecated(spec, reg)
BY DEF Rested

\* What the policy decides; it is the same in every check.
Decisions == [d \in Deps |-> Evaluate(Rules, ContextOf(setup.packages[d[1]], DepOf(d)))]
Wants(d)  == Decisions[d].status = "selected"
ModeOf(d) == Decisions[d].mode
\* The dependencies of one place agree.
Agreed ==
  \A d, e \in Deps : Wants(d) /\ Wants(e) /\ DepOf(d).place = DepOf(e).place =>
    DepOf(d).resolves = DepOf(e).resolves /\ ModeOf(d) = ModeOf(e)
\* An exact value only moves on demand.
May(spec) == spec.shape \in Exact => setup.opts.includeLocked

\* Every dependency that may move has come as far as the calm checks bring it.
RestsAt(values, reg, n) ==
  setup.added = <<>> /\ Agreed =>
    \A d \in Deps : Wants(d) /\ May(values[DepOf(d).place]) =>
      Rested(values[DepOf(d).place], reg[DepOf(d).resolves], ModeOf(d), setup.opts, n)

CalmKept    == calm \in Nat /\ RestsAt(value, registry, calm)
DecidedKept == phase \in {"decided", "resolved", "handed"} => decisions = Decisions
PickedKept  ==
  phase \in {"resolved", "handed"} =>
    DOMAIN picks = {d \in Deps : Wants(d) /\ May(value[DepOf(d).place])}

\* The inductive invariant.
RestInvariant == UpdatesInvariant /\ CalmKept /\ DecidedKept /\ PickedKept

\* The policy's decisions come from the setup only.
LEMMA DecisionsStay ==
  ASSUME setup' = setup
  PROVE  /\ Deps' = Deps /\ Decisions' = Decisions /\ Agreed' = Agreed
         /\ \A d : DepOf(d)' = DepOf(d)
         /\ \A d : Wants(d)' = Wants(d)
         /\ \A spec : May(spec)' = May(spec)
         /\ \A values, reg, n : RestsAt(values, reg, n)' = RestsAt(values, reg, n)
<1>1. Deps' = Deps /\ \A d : DepOf(d)' = DepOf(d)
  BY DEF Deps, DepOf
<1>2. Rules' = Rules
  BY DEF Rules, PolicyLayers
<1>3. Decisions' = Decisions
  BY <1>1, <1>2 DEF Decisions
<1>4. \A d : Wants(d)' = Wants(d) /\ ModeOf(d)' = ModeOf(d)
  BY <1>3 DEF Wants, ModeOf
<1>5. Agreed' = Agreed
  BY <1>1, <1>4 DEF Agreed
<1>6. \A spec : May(spec)' = May(spec)
  BY DEF May
<1>7. \A values, reg, n : RestsAt(values, reg, n)' = RestsAt(values, reg, n)
  BY <1>1, <1>4, <1>5, <1>6, Zenon DEF RestsAt
<1>8. QED
  BY <1>1, <1>3, <1>4, <1>5, <1>6, <1>7

\* The mode of a dependency is one of the policy.
LEMMA ModeIsOf ==
  ASSUME setup \in Setups, NEW d \in Deps
  PROVE  ModeOf(d) \in PolicyModes
<1> DEFINE ctx == ContextOf(setup.packages[d[1]], DepOf(d))
<1>1. d[1] \in DOMAIN setup.packages
  BY DEF Deps
<1>2. setup.packages[d[1]].manager \in Managers \cup {"unknown"}
  BY <1>1, SetupsAssumption
<1>3. ctx.manager \in Managers \cup {"unknown"}
  BY <1>2 DEF ContextOf
<1>4. Decisions[d] = Evaluate(Rules, ctx)
  BY DEF Decisions
<1> HIDE DEF ctx
<1>5. Rules \in Seq(RuleFacts)
  BY RulesTyped
<1>6. LeftBy(Weighing(Rules, ctx), Len(Rules))
  BY <1>3, <1>5, WeighingReached
<1>7. Evaluate(Rules, ctx).mode = Weighing(Rules, ctx).mode
  BY EvaluateIs
<1>8. QED
  BY <1>4, <1>6, <1>7 DEF ModeOf, LeftBy, States

\* At the start nothing is calm; and nothing is after the registry aged.
LEMMA NoneCalm == ASSUME NEW values, NEW reg PROVE RestsAt(values, reg, 0)
BY DEF RestsAt, Rested

\* The parts of a step that leaves values, registry and calm as they are.
LEMMA CalmStays ==
  ASSUME CalmKept, UNCHANGED <<setup, value, registry, calm>>
  PROVE  CalmKept'
<1>1. RestsAt(value, registry, calm)' = RestsAt(value, registry, calm)
  <2>1. RestsAt(value, registry, calm)' = RestsAt(value', registry', calm')
    BY DecisionsStay
  <2>2. QED
    BY <2>1
<1>2. QED
  BY <1>1, Zenon DEF CalmKept

\* The invariant holds at the start.
LEMMA RestInit == Init => RestInvariant
<1> SUFFICES ASSUME Init PROVE RestInvariant
  OBVIOUS
<1>1. phase = "start" /\ calm = 0
  BY DEF Init
<1>2. CalmKept
  BY <1>1, NoneCalm DEF CalmKept
<1>3. QED
  BY <1>1, <1>2, InitKeeps DEF RestInvariant, DecidedKept, PickedKept

\* evaluateRepositoryPolicy decides as in every check.
LEMMA RestDecide == RestInvariant /\ Decide => RestInvariant'
<1> SUFFICES ASSUME RestInvariant, Decide PROVE RestInvariant'
  OBVIOUS
<1>1. phase' = "decided" /\ UNCHANGED <<setup, value, registry, calm>>
  BY DEF Decide
<1>2. decisions' = Decisions
  BY DEF Decide, Decisions
<1>3. DecidedKept'
  BY <1>1, <1>2, DecisionsStay, Zenon DEF DecidedKept
<1>4. CalmKept'
  BY <1>1, CalmStays DEF RestInvariant
<1>5. QED
  BY <1>1, <1>3, <1>4, DecideKeeps DEF RestInvariant, PickedKept

\* resolveDependency is asked of every dependency that may move.
LEMMA RestResolve == RestInvariant /\ Resolve => RestInvariant'
<1> SUFFICES ASSUME RestInvariant, Resolve PROVE RestInvariant'
  OBVIOUS
<1>1. /\ phase = "decided" /\ phase' = "resolved"
      /\ UNCHANGED <<setup, value, registry, calm, decisions>>
      /\ DOMAIN picks' = {d \in Deps : Kept(d)}
  BY DEF Resolve
<1>2. decisions = Decisions
  BY <1>1 DEF RestInvariant, DecidedKept
<1>3. \A d : Kept(d) <=> Wants(d) /\ May(value[DepOf(d).place])
  BY <1>2, Zenon DEF Kept, Wants, May
<1>4. DOMAIN picks' = {d \in Deps : Wants(d) /\ May(value[DepOf(d).place])}
  BY <1>1, <1>3
<1>5. PickedKept'
  <2>1. {d \in Deps : Wants(d) /\ May(value[DepOf(d).place])}'
          = {d \in Deps : Wants(d) /\ May(value[DepOf(d).place])}
    BY <1>1, DecisionsStay
  <2>2. QED
    BY <1>4, <2>1, Zenon DEF PickedKept
<1>6. DecidedKept'
  BY <1>1, <1>2, DecisionsStay DEF DecidedKept
<1>7. CalmKept'
  BY <1>1, CalmStays DEF RestInvariant
<1>8. QED
  BY <1>5, <1>6, <1>7, ResolveKeeps DEF RestInvariant

\* Handing over changes nothing of it.
LEMMA RestHand == RestInvariant /\ Hand => RestInvariant'
<1> SUFFICES ASSUME RestInvariant, Hand PROVE RestInvariant'
  OBVIOUS
<1>1. /\ phase = "resolved" /\ phase' = "handed"
      /\ UNCHANGED <<setup, value, registry, calm, decisions, picks>>
  BY DEF Hand
<1>2. /\ decisions = Decisions
      /\ DOMAIN picks = {d \in Deps : Wants(d) /\ May(value[DepOf(d).place])}
  BY <1>1 DEF RestInvariant, DecidedKept, PickedKept
<1>3. {d \in Deps : Wants(d) /\ May(value[DepOf(d).place])}'
        = {d \in Deps : Wants(d) /\ May(value[DepOf(d).place])}
  BY <1>1, DecisionsStay
<1>4. PickedKept'
  BY <1>1, <1>2, <1>3, Zenon DEF PickedKept
<1>5. DecidedKept'
  BY <1>1, <1>2, DecisionsStay DEF DecidedKept
<1>6. CalmKept'
  BY <1>1, CalmStays DEF RestInvariant
<1>7. QED
  BY <1>4, <1>5, <1>6, HandKeeps DEF RestInvariant

\* So do a blocked command and another check.
LEMMA RestBlock == RestInvariant /\ Block => RestInvariant'
<1> SUFFICES ASSUME RestInvariant, Block PROVE RestInvariant'
  OBVIOUS
<1>1. phase' = "blocked" /\ UNCHANGED <<setup, value, registry, calm>>
  BY DEF Block
<1>2. CalmKept'
  BY <1>1, CalmStays DEF RestInvariant
<1>3. QED
  BY <1>1, <1>2, BlockKeeps DEF RestInvariant, DecidedKept, PickedKept

LEMMA RestAgain == RestInvariant /\ Again => RestInvariant'
<1> SUFFICES ASSUME RestInvariant, Again PROVE RestInvariant'
  OBVIOUS
<1>1. phase' = "start" /\ UNCHANGED <<setup, value, registry, calm>>
  BY DEF Again
<1>2. CalmKept'
  BY <1>1, CalmStays DEF RestInvariant
<1>3. QED
  BY <1>1, <1>2, AgainKeeps DEF RestInvariant, DecidedKept, PickedKept

\* After the registry aged the count begins anew.
LEMMA RestAge == RestInvariant /\ Age => RestInvariant'
<1> SUFFICES ASSUME RestInvariant, Age PROVE RestInvariant'
  OBVIOUS
<1>1. phase = "start" /\ phase' = "start" /\ calm' = 0
  BY DEF Age
<1>2. RestsAt(value, registry, calm)'
  <2>1. setup' = setup
    BY DEF Age
  <2>2. RestsAt(value, registry, calm)' = RestsAt(value', registry', calm')
    BY <2>1, DecisionsStay
  <2>3. QED
    BY <1>1, <2>2, NoneCalm
<1>3. CalmKept'
  BY <1>1, <1>2 DEF CalmKept
<1>4. QED
  BY <1>1, <1>3, AgeKeeps DEF RestInvariant, DecidedKept, PickedKept

LEMMA RestIdle == RestInvariant /\ UNCHANGED vars => RestInvariant'
<1> SUFFICES ASSUME RestInvariant, UNCHANGED vars PROVE RestInvariant'
  OBVIOUS
<1>1. UNCHANGED <<setup, value, registry, phase, calm, decisions, picks>>
  BY DEF vars
<1>2. CalmKept'
  BY <1>1, CalmStays DEF RestInvariant
<1>3. DecidedKept'
  BY <1>1, DecisionsStay DEF RestInvariant, DecidedKept
<1>4. {d \in Deps : Wants(d) /\ May(value[DepOf(d).place])}'
        = {d \in Deps : Wants(d) /\ May(value[DepOf(d).place])}
  BY <1>1, DecisionsStay
<1>5. PickedKept'
  BY <1>1, <1>4, Zenon DEF RestInvariant, PickedKept
<1>6. QED
  BY <1>2, <1>3, <1>5, IdleKeeps DEF RestInvariant

\* What rests has settled.
LEMMA InvariantSettles == RestInvariant => Settled
<1> SUFFICES ASSUME RestInvariant, phase = "resolved", setup.added = <<>>, OneMind,
                    NEW d \in DOMAIN picks, picks[d].status = "selected"
             PROVE  IF decisions[d].mode = "default" THEN calm < 2
                    ELSE calm < 1 \/ BeginsDeprecated(value[DepOf(d).place],
                                                      registry[DepOf(d).resolves])
  BY Zenon DEF Settled
<1> DEFINE spec == value[DepOf(d).place]
           reg == registry[DepOf(d).resolves]
<1>1. /\ decisions = Decisions
      /\ DOMAIN picks = {e \in Deps : Wants(e) /\ May(value[DepOf(e).place])}
      /\ calm \in Nat /\ RestsAt(value, registry, calm)
  BY DEF RestInvariant, DecidedKept, PickedKept, CalmKept
<1>2. d \in Deps /\ Wants(d) /\ May(spec)
  BY <1>1
<1>3. DOMAIN Decisions = Deps
  BY DEF Decisions
<1>4. Agreed
  BY <1>1, <1>3 DEF OneMind, Agreed, Wants, ModeOf
<1>5. Rested(spec, reg, ModeOf(d), setup.opts, calm)
  BY <1>1, <1>2, <1>4 DEF RestsAt
<1>6. picks[d] = Verdict(spec, reg, decisions[d].mode, setup.opts)
  BY DEF RestInvariant, UpdatesInvariant, PicksKept
<1>7. decisions[d].mode = ModeOf(d)
  BY <1>1 DEF ModeOf
<1> HIDE DEF spec, reg
<1>8. Verdict(spec, reg, ModeOf(d), setup.opts).status = "selected"
  BY <1>6, <1>7
<1>9. IF ModeOf(d) = "default" THEN calm < 2 ELSE calm < 1 \/ BeginsDeprecated(spec, reg)
  BY <1>1, <1>5, <1>8, RestedSettles
<1>10. QED
  BY <1>7, <1>9 DEF spec, reg

\* A dependency that was selected is a change of its package.
LEMMA PickIsChange ==
  ASSUME ValuesKept, PicksKept, phase = "handed",
         NEW d \in DOMAIN picks, picks[d].status = "selected"
  PROVE  LET selections == SelectionsOf(Changes) IN
         /\ d[1] \in DOMAIN selections /\ d[2] \in DOMAIN selections[d[1]].changes
         /\ selections[d[1]].changes[d[2]] = Change(DepOf(d), picks[d])
         /\ selections[d[1]].pkg = setup.packages[d[1]].pkg
<1> DEFINE i == d[1]
           j == d[2]
           moving == {l \in DOMAIN setup.packages[i].deps :
                        <<i, l>> \in DOMAIN picks /\ picks[<<i, l>>].status = "selected"}
           last == Len(setup.packages[i].deps)
           more == IF i = 1 THEN {last + k : k \in DOMAIN setup.added} ELSE {}
           item(l) == IF l \in moving THEN Change(DepOf(<<i, l>>), picks[<<i, l>>])
                      ELSE setup.added[l - last]
           selections == SelectionsOf(Changes)
<1>1. d \in Deps
  BY DEF PicksKept
<1>2. i \in DOMAIN setup.packages /\ j \in DOMAIN setup.packages[i].deps /\ d = <<i, j>>
  BY <1>1, DepIsKnown
<1>3. j \in moving
  BY <1>2
<1>4. ChangesOf(i) = [l \in moving \cup more |-> item(l)]
  BY DEF ChangesOf
<1>5. item(j) = Change(DepOf(d), picks[d])
  BY <1>2, <1>3
<1> HIDE DEF moving, more, item
<1>6. j \in DOMAIN ChangesOf(i) /\ ChangesOf(i)[j] = Change(DepOf(d), picks[d])
  BY <1>3, <1>4, <1>5
<1>7. i \in DOMAIN Changes /\ Changes[i] = ChangesOf(i)
  BY <1>2 DEF Changes
<1>8. i \in DOMAIN selections
  <2> DEFINE changes == Changes
             K == {k \in DOMAIN changes : DOMAIN changes[k] # {}}
             part(k) == [package |-> k, pkg |-> setup.packages[k].pkg, changes |-> changes[k]]
  <2>1. selections = [k \in K |-> part(k)]
    BY DEF SelectionsOf
  <2>2. i \in K
    BY <1>6, <1>7
  <2> HIDE DEF K, part, selections
  <2>3. QED
    BY <2>1, <2>2
<1>9. selections[i].pkg = setup.packages[i].pkg /\ selections[i].changes = Changes[i]
  BY <1>8, SelectionsNumbered
<1> HIDE DEF selections, i, j
<1>10. QED
  BY <1>6, <1>7, <1>8, <1>9 DEF selections, i, j

\* After an application that wrote all, the place of a dependency that was selected has
\* its new value.
LEMMA PickIsWritten ==
  ASSUME UpdatesInvariant, Apply, phase' = "applied",
         NEW d \in DOMAIN picks, picks[d].status = "selected"
  PROVE  value'[DepOf(d).place] = picks[d].to
<1> DEFINE selections == SelectionsOf(Changes)
           i == d[1]
           j == d[2]
           dep == DepOf(d)
           change == Change(dep, picks[d])
           pkg == setup.packages[i].pkg
<1>1. /\ phase = "handed" /\ ToldOf(handed.selections, told', "applied", value')
      /\ ~handed.construction.blocked
  BY ApplyDoes DEF Apply
<1>2. /\ handed.selections = selections
      /\ handed.construction = CreateLegacyPlan(Projections(selections))
  BY <1>1, HandedIs DEF UpdatesInvariant
<1>3. /\ i \in DOMAIN selections /\ j \in DOMAIN selections[i].changes
      /\ selections[i].changes[j] = change /\ selections[i].pkg = pkg
  BY <1>1, PickIsChange DEF UpdatesInvariant
<1>4. d \in Deps
  BY <1>1 DEF UpdatesInvariant, PicksKept
<1>5. Input(pkg, dep).reason = "none" => Input(pkg, dep).place = dep.place
  BY <1>4, DepIsKnown DEF UpdatesInvariant
<1>6. change.name = dep.name /\ change.field = dep.field /\ change.parents = dep.parents
        /\ change.to = picks[d].to
  BY DEF Change
<1> HIDE DEF selections, i, j, dep, change, pkg
<1>7. Input(pkg, change) = Input(pkg, dep)
  BY <1>6, InputReads
<1>8. Input(pkg, change).reason = "none"
  <2> DEFINE p == Projection(selections[i], j)
  <2>1. p \in Projections(selections) /\ p.input = Input(pkg, change)
    BY <1>3, ProjectionsAre, ProjectionFields
  <2> HIDE DEF p
  <2>2. ~CreateLegacyPlan(Projections(selections)).blocked
    BY <1>1, <1>2
  <2>3. Supported(p)
    BY <2>1, <2>2, BlockedIs
  <2>4. QED
    BY <2>1, <2>3 DEF Supported
<1>9. value'[Input(pkg, change).place] = change.to
  BY <1>1, <1>2, <1>3 DEF ToldOf
<1>10. QED
  BY <1>5, <1>6, <1>7, <1>8, <1>9 DEF dep

\* The place of a dependency has a value.
LEMMA PlaceIsKnown ==
  ASSUME ValuesKept, NEW d \in Deps
  PROVE  DepOf(d).place \in DOMAIN value
<1>1. /\ d[1] \in DOMAIN setup.packages /\ d[2] \in DOMAIN setup.packages[d[1]].deps
      /\ setup \in Setups
  BY DepIsKnown DEF ValuesKept
<1>2. DepOf(d).place \in DOMAIN setup.value
  BY <1>1, SetupsAssumption DEF DepOf
<1>3. QED
  BY <1>2 DEF ValuesKept

\* An application keeps the shapes of the values, if no addon adds to it.
LEMMA ShapesStay ==
  ASSUME UpdatesInvariant, Apply, setup.added = <<>>, NEW place \in DOMAIN value
  PROVE  value'[place].shape = value[place].shape
<1>1. \/ value'[place] = value[place]
      \/ place \in handed.construction.plan /\ value'[place] = Wanted(place).to
  BY ApplyDoes
<1>2. CASE place \in handed.construction.plan /\ value'[place] = Wanted(place).to
  <2>1. phase = "handed"
    BY DEF Apply
  <2>2. \E d \in DOMAIN picks : Moves(decisions[d].mode, value[place], Wanted(place).to)
    BY <1>2, <2>1, WantedMoves DEF UpdatesInvariant
  <2>3. QED
    BY <1>2, <2>2 DEF Moves
<1>3. QED
  BY <1>1, <1>2

\* And every other dependency its old one, if those of a place agree.
LEMMA OthersStay ==
  ASSUME RestInvariant, Apply, setup.added = <<>>, Agreed,
         NEW d \in DOMAIN picks, picks[d].status # "selected"
  PROVE  value'[DepOf(d).place] = value[DepOf(d).place]
<1> DEFINE place == DepOf(d).place
<1>1. phase = "handed"
  BY DEF Apply
<1>2. UpdatesInvariant /\ ValuesKept /\ PicksKept /\ HandedKept
  BY DEF RestInvariant, UpdatesInvariant
<1>3. decisions = Decisions /\ \A e \in DOMAIN picks : e \in Deps /\ Wants(e)
  BY <1>1 DEF RestInvariant, DecidedKept, PickedKept
<1>4. place \in DOMAIN value
  BY <1>2, <1>3, PlaceIsKnown
<1>5. SUFFICES ASSUME value'[place] # value[place] PROVE FALSE
  OBVIOUS
<1>6. place \in handed.construction.plan
  BY <1>2, <1>4, <1>5, ApplyDoes
<1>7. PICK e \in DOMAIN picks : picks[e].status = "selected" /\ DepOf(e).place = place
  BY <1>1, <1>2, <1>6, WantedIs
<1>8. DepOf(e).resolves = DepOf(d).resolves /\ ModeOf(e) = ModeOf(d)
  BY <1>3, <1>7 DEF Agreed
<1>9. \A x \in DOMAIN picks :
        picks[x] = Verdict(value[DepOf(x).place], registry[DepOf(x).resolves], ModeOf(x),
                           setup.opts)
  BY <1>1, <1>2, <1>3 DEF PicksKept, ModeOf
<1>10. picks[e] = picks[d]
  BY <1>7, <1>8, <1>9
<1>11. QED
  BY <1>7, <1>10

\* An application takes every dependency that may move one step on, or leaves all.
LEMMA RestApply == RestInvariant /\ Apply => RestInvariant'
<1> SUFFICES ASSUME RestInvariant, Apply PROVE RestInvariant'
  OBVIOUS
<1>1. /\ phase = "handed" /\ phase' \in {"applied", "failed"}
      /\ UNCHANGED <<setup, registry, decisions, picks>>
      /\ phase' = "applied" => calm' = calm + 1
      /\ phase' = "failed" =>
           calm' = calm /\ \A place \in DOMAIN value : value'[place] = value[place]
  BY ApplyDoes DEF RestInvariant
<1>2. /\ UpdatesInvariant /\ ValuesKept /\ setup \in Setups
      /\ calm \in Nat /\ RestsAt(value, registry, calm) /\ decisions = Decisions
      /\ DOMAIN picks = {d \in Deps : Wants(d) /\ May(value[DepOf(d).place])}
      /\ \A d \in DOMAIN picks :
           picks[d] = Verdict(value[DepOf(d).place], registry[DepOf(d).resolves],
                              decisions[d].mode, setup.opts)
  BY <1>1 DEF RestInvariant, UpdatesInvariant, ValuesKept, CalmKept, DecidedKept, PickedKept,
              PicksKept
<1>3. RestsAt(value', registry, calm')
  <2>1. SUFFICES ASSUME setup.added = <<>>, Agreed, NEW d \in Deps, Wants(d),
                        May(value'[DepOf(d).place])
                 PROVE  Rested(value'[DepOf(d).place], registry[DepOf(d).resolves], ModeOf(d),
                               setup.opts, calm')
    BY Zenon DEF RestsAt
  <2> DEFINE place == DepOf(d).place
             spec == value[place]
             reg == registry[DepOf(d).resolves]
             mode == ModeOf(d)
             verdict == Verdict(spec, reg, mode, setup.opts)
  <2>2. place \in DOMAIN value
    BY <1>2, PlaceIsKnown
  <2>3. spec \in Specs /\ reg \in RegistryFacts /\ mode \in PolicyModes
    BY <1>2, DepIsKnown, ModeIsOf
  <2>4. value'[place].shape = spec.shape
    BY <1>2, <2>1, <2>2, ShapesStay
  <2>5. May(spec)
    BY <2>1, <2>4 DEF May
  <2>6. d \in DOMAIN picks /\ picks[d] = verdict
    BY <1>2, <2>1, <2>5 DEF ModeOf
  <2>7. Rested(spec, reg, mode, setup.opts, calm)
    BY <1>2, <2>1, <2>5 DEF RestsAt
  <2>8. /\ verdict.status # "selected" => Rested(spec, reg, mode, setup.opts, calm + 1)
        /\ verdict.status = "selected" => Rested(verdict.to, reg, mode, setup.opts, calm + 1)
    BY <1>2, <2>3, <2>7, CheckRests
  <2> HIDE DEF spec, verdict
  <2>9. CASE phase' = "failed"
    <3>1. value'[place] = spec /\ calm' = calm
      BY <1>1, <2>2, <2>9 DEF spec
    <3>2. QED
      BY <2>7, <3>1
  <2>10. CASE phase' = "applied"
    <3>1. CASE verdict.status = "selected"
      <4>1. value'[place] = verdict.to
        BY <1>2, <2>6, <2>10, <3>1, PickIsWritten
      <4>2. QED
        BY <1>1, <2>8, <2>10, <3>1, <4>1
    <3>2. CASE verdict.status # "selected"
      <4>1. value'[place] = spec
        BY <2>1, <2>6, <3>2, OthersStay DEF spec
      <4>2. QED
        BY <1>1, <2>8, <2>10, <3>2, <4>1
    <3>3. QED
      BY <3>1, <3>2
  <2>11. QED
    BY <1>1, <2>9, <2>10
<1>4. calm' \in Nat
  BY <1>1, <1>2
<1>5. CalmKept'
  <2>1. RestsAt(value, registry, calm)' = RestsAt(value', registry', calm')
    BY <1>1, DecisionsStay
  <2>2. RestsAt(value', registry', calm')
    BY <1>1, <1>3
  <2>3. QED
    BY <1>4, <2>1, <2>2, Zenon DEF CalmKept
<1>6. QED
  BY <1>1, <1>5, ApplyKeeps DEF RestInvariant, DecidedKept, PickedKept

\* From one check to the next.
LEMMA RestSteps == Spec => []RestInvariant
<1>1. RestInvariant /\ [Next]_vars => RestInvariant'
  BY RestDecide, RestResolve, RestHand, RestBlock, RestApply, RestAgain, RestAge, RestIdle,
     Zenon DEF Next
<1>2. QED
  BY RestInit, <1>1, PTL DEF Spec

\* Checks repeated without a change of the registry come to rest, in every repository
\* whose dependencies of one place agree: after a check that wrote all it selected the
\* next one selects nothing more, in default mode the one after that; but for a range x
\* that begins at a deprecated version (resolveDependency, io/resolve/version-filter.ts).
THEOREM ChecksSettle == Spec => []Settled
<1>1. QED
  BY RestSteps, InvariantSettles, PTL
=============================================================================
