---------------------------- MODULE CheckRunProofs ----------------------------
(***************************************************************************)
(* Proofs about CheckRun, for every number of packages: every package is   *)
(* ended once, exit code 0 means that the write is done, the screen is     *)
(* given back, and the record tells the truth.                             *)
(*                                                                         *)
(* Control says where the packages and the engine's answer are at every    *)
(* step, ScreenKept where the renderer is: both are inductive together.    *)
(* On them stands RecordKept, which says what the record can still become: *)
(* an emission is a sequence of events, so its lemmas follow the record    *)
(* from event to event.                                                    *)
(***************************************************************************)
EXTENDS CheckRun, TLAPS, FiniteSetTheorems, SequenceTheorems, WellFoundedInduction

----------------------------------------------------------------------------
(* The renderer, operation by operation                                     *)

\* A renderer of a run that is not over: its fields, and what they say together.
Rendered(r) ==
  /\ DOMAIN r = {"state", "cursor", "compact", "depth", "pending", "owned", "subscribed",
                 "reported", "discovered", "durable"}
  /\ r.state \in {"idle", "live", "review-written", "failed"}
  /\ r.depth \in Nat
  /\ r.cursor \in BOOLEAN /\ r.compact \in BOOLEAN /\ r.pending \in BOOLEAN
  /\ r.owned \in BOOLEAN /\ r.subscribed \in BOOLEAN /\ r.reported \in BOOLEAN
  /\ r.discovered \in BOOLEAN
  /\ r.depth > 0 => ~r.pending /\ ~r.owned
  /\ r.state = "failed" => ~r.pending /\ ~r.subscribed
  /\ r.reported => r.state = "failed"

\* An operation on r that threw: it failed the renderer.
Broke(o, r) ==
  o.threw = TRUE /\ Rendered(o.r) /\ o.r.state = "failed" /\ o.r.depth = r.depth

\* One that did not throw: r with some fields changed, whatever facts it notes.
Wrote(o, r, changes) ==
  /\ o.threw = FALSE /\ DOMAIN o.r = DOMAIN r
  /\ \A k \in DOMAIN r \ {"durable"} :
       o.r[k] = IF k \in DOMAIN changes THEN changes[k] ELSE r[k]

\* One that did not throw and only redrew the frame.
Redrew(o, r) ==
  /\ o.threw = FALSE /\ Rendered(o.r) /\ o.r.depth = r.depth
  /\ o.r.state = r.state /\ o.r.pending = r.pending /\ o.r.reported = r.reported

\* How a renderer is left: nothing is scheduled, nothing watched.
Left(r) == ~r.pending /\ ~r.subscribed /\ (r.depth > 0 => ~r.owned)

\* A run's end that was written.
Ended(o) ==
  /\ o.threw = FALSE /\ Left(o.r) /\ o.r.state = "finalized"
  /\ o.r.owned = FALSE /\ o.r.reported = FALSE

LEMMA OutcomeFields ==
  ASSUME NEW r
  PROVE  /\ Ok(r).r = r /\ Ok(r).threw = FALSE
         /\ Threw(r).r = r /\ Threw(r).threw = TRUE
BY DEF Ok, Threw

LEMMA FailRendered ==
  ASSUME NEW r, Rendered(r), NEW internal \in BOOLEAN, NEW q \in Fail(r, internal)
  PROVE  /\ Rendered(q) /\ q.state = "failed" /\ q.depth = r.depth
         /\ q.owned => r.owned
BY DEF Fail, Rendered

LEMMA FailureRendered ==
  ASSUME NEW r, Rendered(r), NEW o \in ContractFailure(r) \cup InternalFailure(r)
  PROVE  Broke(o, r)
<1>1. PICK internal \in BOOLEAN : \E q \in Fail(r, internal) : o = Threw(q)
  BY DEF ContractFailure, InternalFailure
<1>2. PICK q \in Fail(r, internal) : o = Threw(q)
  BY <1>1
<1>3. o.r = q
  BY <1>2, OutcomeFields
<1>4. o.threw = TRUE
  BY <1>2, OutcomeFields
<1>5. Rendered(q) /\ q.state = "failed" /\ q.depth = r.depth
  BY FailRendered
<1>6. QED
  BY <1>3, <1>4, <1>5 DEF Broke

LEMMA WrittenFields ==
  ASSUME NEW r, Rendered(r), NEW facts, NEW changes, NEW o \in Written(r, facts, changes)
  PROVE  Broke(o, r) \/ Wrote(o, r, changes)
<1> DEFINE noted == [r EXCEPT !.durable = @ \cup Fresh(r, facts)]
<1>1. Rendered(noted) /\ noted.depth = r.depth
  BY DEF Rendered
<1>2. \A left \in {r.owned, FALSE} :
        Rendered([noted EXCEPT !.owned = left]) /\ [noted EXCEPT !.owned = left].depth = r.depth
  BY <1>1 DEF Rendered
<1>3. /\ DOMAIN With(noted, changes) = DOMAIN r
      /\ \A k \in DOMAIN r \ {"durable"} :
           With(noted, changes)[k] = IF k \in DOMAIN changes THEN changes[k] ELSE r[k]
  BY DEF With, Rendered
<1> HIDE DEF noted
<1>4. CASE Contradicts(r, facts)
  BY <1>4, FailureRendered DEF Written
<1>5. CASE o = Ok(With(noted, changes))
  <2>1. o.r = With(noted, changes)
    BY <1>5, OutcomeFields
  <2>2. o.threw = FALSE
    BY <1>5, OutcomeFields
  <2>3. QED
    BY <1>3, <2>1, <2>2 DEF Wrote
<1>6. ASSUME NEW left \in {r.owned, FALSE}, o \in InternalFailure([noted EXCEPT !.owned = left])
      PROVE  Broke(o, r)
  BY <1>2, <1>6, FailureRendered DEF Broke
<1>7. QED
  BY <1>4, <1>5, <1>6 DEF Written, noted

LEMMA RenderLatestRendered ==
  ASSUME NEW r, Rendered(r), NEW s, NEW o \in RenderLatest(r, s)
  PROVE  (Broke(o, r) /\ Operational(r)) \/ Redrew(o, r)
<1>1. CASE ~Operational(r) \/ r.depth > 0
  <2>1. o = Ok(r)
    BY <1>1 DEF RenderLatest
  <2>2. o.r = r /\ o.threw = FALSE
    BY <2>1, OutcomeFields
  <2>3. QED
    BY <2>2 DEF Redrew
<1>2. CASE Operational(r) /\ ~(r.depth > 0)
  <2> DEFINE changes == [owned |-> FrameShown(r, s)]
  <2>1. o \in Written(r, TerminalPhases(s.phases, s.exitCode # Null), changes)
    BY <1>2 DEF RenderLatest
  <2>2. /\ DOMAIN changes = {"owned"} /\ changes["owned"] = FrameShown(r, s)
        /\ FrameShown(r, s) \in BOOLEAN
    BY DEF FrameShown
  <2> HIDE DEF changes
  <2>3. CASE Wrote(o, r, changes)
    <3>1. /\ o.r.state = r.state /\ o.r.cursor = r.cursor /\ o.r.compact = r.compact
          /\ o.r.depth = r.depth /\ o.r.pending = r.pending /\ o.r.subscribed = r.subscribed
          /\ o.r.reported = r.reported /\ o.r.discovered = r.discovered
          /\ o.r.owned = FrameShown(r, s)
      BY <2>2, <2>3 DEF Rendered, Wrote
    <3>2. QED
      BY <1>2, <2>2, <2>3, <3>1 DEF Rendered, Redrew, Wrote
  <2>4. Broke(o, r) \/ Wrote(o, r, changes)
    BY <2>1, WrittenFields
  <2>5. QED
    BY <1>2, <2>3, <2>4
<1>3. QED
  BY <1>1, <1>2

LEMMA ObserveRendered ==
  ASSUME NEW r, Rendered(r), NEW s, NEW q \in Observe(r, s)
  PROVE  Rendered(q) /\ q.depth = r.depth
<1>1. CASE ~Operational(r) \/ r.depth > 0
  BY <1>1 DEF Observe
<1>2. CASE Operational(r) /\ ~(r.depth > 0) /\ r.cursor
  BY <1>2 DEF Observe, Rendered, Operational
<1>3. CASE Operational(r) /\ ~(r.depth > 0) /\ ~r.cursor
  <2>1. PICK o \in RenderLatest(r, s) : q = o.r
    BY <1>3 DEF Observe
  <2>2. QED
    BY <2>1, RenderLatestRendered DEF Broke, Redrew
<1>4. QED
  BY <1>1, <1>2, <1>3

LEMMA FrameRendered ==
  ASSUME NEW r, Rendered(r), NEW s, NEW q \in FrameDue(r, s)
  PROVE  Rendered(q) /\ q.depth = r.depth /\ (r.state = "idle" => q.state = "idle")
<1> DEFINE calm == [r EXCEPT !.pending = FALSE]
<1>1. Rendered(calm) /\ calm.depth = r.depth /\ calm.state = r.state
  BY DEF Rendered
<1>2. PICK o \in RenderLatest(calm, s) : q = o.r
  BY DEF FrameDue
<1> HIDE DEF calm
<1>3. QED
  BY <1>1, <1>2, RenderLatestRendered DEF Broke, Redrew, Operational

LEMMA BeginRendered ==
  ASSUME NEW r, Rendered(r), NEW s, NEW o \in BeginSuspension(r, s)
  PROVE  \/ Broke(o, r)
         \/ o.threw = FALSE /\ Rendered(o.r) /\ o.r.depth = r.depth + 1
<1>1. CASE ~Operational(r)
  BY <1>1, FailureRendered DEF BeginSuspension
<1>2. CASE Operational(r) /\ r.depth > 0
  <2> DEFINE deeper == [r EXCEPT !.depth = @ + 1]
  <2>1. o = Ok(deeper)
    BY <1>2 DEF BeginSuspension
  <2>2. Rendered(deeper) /\ deeper.depth = r.depth + 1
    BY <1>2 DEF Rendered
  <2> HIDE DEF deeper
  <2>3. o.r = deeper
    BY <2>1, OutcomeFields
  <2>4. o.threw = FALSE
    BY <2>1, OutcomeFields
  <2>5. QED
    BY <2>2, <2>3, <2>4
<1>3. CASE Operational(r) /\ ~(r.depth > 0)
  <2> DEFINE calm == [r EXCEPT !.pending = FALSE]
             changes == [owned |-> FALSE, depth |-> 1]
  <2>1. Rendered(calm) /\ calm.depth = r.depth /\ calm.depth = 0 /\ ~calm.pending
    BY <1>3 DEF Rendered
  <2>2. DOMAIN changes = {"owned", "depth"} /\ changes["owned"] = FALSE /\ changes["depth"] = 1
    OBVIOUS
  <2>3. o \in Written(calm, TerminalPhases(s.phases, s.exitCode # Null), changes)
    BY <1>3 DEF BeginSuspension
  <2> HIDE DEF calm, changes
  <2>4. CASE Wrote(o, calm, changes)
    <3>1. /\ o.r.state = calm.state /\ o.r.cursor = calm.cursor /\ o.r.compact = calm.compact
          /\ o.r.depth = 1 /\ o.r.pending = calm.pending /\ o.r.subscribed = calm.subscribed
          /\ o.r.reported = calm.reported /\ o.r.discovered = calm.discovered
          /\ o.r.owned = FALSE /\ DOMAIN o.r = DOMAIN calm
      BY <2>1, <2>2, <2>4 DEF Rendered, Wrote
    <3>2. Rendered(o.r)
      <4>1. o.r.depth \in Nat /\ ~o.r.pending /\ ~o.r.owned
        BY <2>1, <3>1
      <4>2. QED
        BY <2>1, <3>1, <4>1 DEF Rendered
    <3>3. o.threw = FALSE
      BY <2>4 DEF Wrote
    <3>4. QED
      BY <2>1, <3>1, <3>2, <3>3
  <2>5. Broke(o, calm) \/ Wrote(o, calm, changes)
    BY <2>1, <2>3, WrittenFields
  <2>6. QED
    BY <2>1, <2>4, <2>5 DEF Broke
<1>4. QED
  BY <1>1, <1>2, <1>3

LEMMA EndRendered ==
  ASSUME NEW r, Rendered(r), r.depth > 0, NEW s, NEW o \in EndSuspension(r, s)
  PROVE  /\ Rendered(o.r) /\ o.r.depth = r.depth - 1
         /\ \/ o.threw = TRUE /\ o.r.state = "failed"
            \/ o.threw = FALSE
<1> DEFINE back == [r EXCEPT !.depth = @ - 1]
<1>1. Rendered(back) /\ back.depth = r.depth - 1
  BY DEF Rendered
<1>2. o \in RenderLatest(back, s)
  BY DEF EndSuspension
<1> HIDE DEF back
<1>3. Broke(o, back) \/ Redrew(o, back)
  BY <1>1, <1>2, RenderLatestRendered
<1>4. QED
  BY <1>1, <1>3 DEF Broke, Redrew

LEMMA StartRendered ==
  ASSUME NEW r, Rendered(r), r.state = "idle", NEW s, NEW o \in Start(r, s)
  PROVE  Broke(o, r) \/ (o.threw = FALSE /\ Rendered(o.r))
<1> DEFINE live == [r EXCEPT !.state = "live", !.subscribed = TRUE]
<1>1. Rendered(live) /\ live.depth = r.depth
  BY DEF Rendered
<1>2. o \in RenderLatest(live, s)
  BY DEF Start
<1> HIDE DEF live
<1>3. Broke(o, live) \/ Redrew(o, live)
  BY <1>1, <1>2, RenderLatestRendered
<1>4. QED
  BY <1>1, <1>3 DEF Broke, Redrew

LEMMA MetadataRendered ==
  ASSUME NEW r, Rendered(r), NEW s, NEW o \in SetRunMetadata(r, s)
  PROVE  Broke(o, r) \/ (o.threw = FALSE /\ Rendered(o.r))
<1> DEFINE known == [r EXCEPT !.pending = FALSE, !.discovered = TRUE]
<1>1. Rendered(known) /\ known.depth = r.depth
  BY DEF Rendered
<1>2. o \in ContractFailure(r) \/ o \in RenderLatest(known, s)
  BY DEF SetRunMetadata
<1> HIDE DEF known
<1>3. Broke(o, r) \/ Broke(o, known) \/ Redrew(o, known)
  BY <1>1, <1>2, RenderLatestRendered, FailureRendered
<1>4. QED
  BY <1>1, <1>3 DEF Broke, Redrew

LEMMA ReviewRendered ==
  ASSUME NEW r, Rendered(r), NEW s, NEW o \in WriteReview(r, s)
  PROVE  \/ Broke(o, r)
         \/ o.threw = FALSE /\ Rendered(o.r) /\ o.r.depth = r.depth /\ ~o.r.pending
<1>1. CASE o \in ContractFailure(r)
  BY <1>1, FailureRendered
<1>2. CASE o \notin ContractFailure(r)
  <2> DEFINE calm == [r EXCEPT !.pending = FALSE]
             changes == [state |-> "review-written", owned |-> FrameShown(r, s)]
  <2>1. /\ ~(r.depth > 0 \/ r.state # "live" \/ ~r.discovered)
        /\ o \in Written(calm, TerminalPhases(s.phases, s.exitCode # Null), changes)
    BY <1>2 DEF WriteReview
  <2>2. Rendered(calm) /\ calm.depth = r.depth /\ calm.state = r.state /\ ~calm.pending
    BY DEF Rendered
  <2>3. /\ DOMAIN changes = {"owned", "state"} /\ changes["owned"] = FrameShown(r, s)
        /\ changes["state"] = "review-written" /\ FrameShown(r, s) \in BOOLEAN
    BY DEF FrameShown
  <2> HIDE DEF calm, changes
  <2>4. CASE Wrote(o, calm, changes)
    <3>1. /\ o.r.state = "review-written" /\ o.r.cursor = calm.cursor
          /\ o.r.compact = calm.compact /\ o.r.depth = calm.depth
          /\ o.r.pending = calm.pending /\ o.r.subscribed = calm.subscribed
          /\ o.r.reported = calm.reported /\ o.r.discovered = calm.discovered
          /\ o.r.owned = FrameShown(r, s)
      BY <2>2, <2>3, <2>4 DEF Rendered, Wrote
    <3>2. Rendered(o.r)
      BY <2>1, <2>2, <2>3, <2>4, <3>1 DEF Rendered, Wrote
    <3>3. o.threw = FALSE
      BY <2>4 DEF Wrote
    <3>4. QED
      BY <2>2, <3>1, <3>2, <3>3
  <2>5. Broke(o, calm) \/ Wrote(o, calm, changes)
    BY <2>1, <2>2, WrittenFields
  <2>6. QED
    BY <2>2, <2>4, <2>5 DEF Broke
<1>3. QED
  BY <1>1, <1>2

LEMMA FinalizeRendered ==
  ASSUME NEW r, Rendered(r), NEW s, NEW receipt, NEW o \in Finalize(r, s, receipt)
  PROVE  \/ Broke(o, r)
         \/ Ended(o)
<1> DEFINE calm == [r EXCEPT !.pending = FALSE]
<1>1. Rendered(calm) /\ calm.depth = r.depth /\ calm.state = r.state /\ calm.pending = FALSE
  BY DEF Rendered
<1>2. CASE o \in ContractFailure(calm)
  BY <1>1, <1>2, FailureRendered DEF Broke
<1>3. CASE o \notin ContractFailure(calm)
  <2>1. PICK kept, facts, changes :
          /\ changes = [state |-> "finalized", owned |-> FALSE, subscribed |-> FALSE,
                        durable |-> kept]
          /\ o \in Written(calm, facts, changes)
          /\ Operational(r) /\ ~(r.depth > 0)
    BY <1>3 DEF Finalize, Rendered
  <2>2. /\ DOMAIN changes = {"owned", "state", "subscribed", "durable"}
        /\ changes["owned"] = FALSE /\ changes["state"] = "finalized"
        /\ changes["subscribed"] = FALSE
    BY <2>1
  <2> HIDE DEF calm
  <2>3. CASE Wrote(o, calm, changes)
    <3>1. /\ o.r.state = "finalized" /\ o.r.subscribed = FALSE /\ o.r.owned = FALSE
          /\ o.r.pending = calm.pending /\ o.r.reported = calm.reported
      BY <1>1, <2>2, <2>3 DEF Rendered, Wrote
    <3>2. calm.reported = FALSE
      BY <1>1, <2>1 DEF Rendered, Operational
    <3>3. Left(o.r)
      BY <1>1, <3>1 DEF Left
    <3>4. o.threw = FALSE
      BY <2>3 DEF Wrote
    <3>5. QED
      BY <3>1, <3>2, <3>3, <3>4 DEF Ended
  <2>4. Broke(o, calm) \/ Wrote(o, calm, changes)
    BY <1>1, <2>1, WrittenFields
  <2>5. QED
    BY <1>1, <2>3, <2>4 DEF Broke
<1>4. QED
  BY <1>2, <1>3

LEMMA DisposeLeaves ==
  ASSUME NEW r, Rendered(r), NEW q \in Dispose(r)
  PROVE  /\ Left(q) /\ q.state \in {"failed", "disposed"}
         /\ r.state = "failed" => q.state = "failed"
<1>1. CASE r.state = "failed"
  BY <1>1 DEF Dispose, Left, Rendered
<1>2. CASE r.state # "failed"
  <2>1. PICK p \in Fail(r, FALSE) :
          q = [p EXCEPT !.state = "disposed", !.reported = p.owned \/ r.reported]
    BY <1>2 DEF Dispose, Rendered
  <2>2. Rendered(p) /\ p.state = "failed"
    BY FailRendered
  <2>3. q.pending = p.pending /\ q.subscribed = p.subscribed /\ q.depth = p.depth
        /\ q.owned = p.owned /\ q.state = "disposed"
    BY <2>1, <2>2 DEF Rendered
  <2>4. QED
    BY <1>2, <2>2, <2>3 DEF Left, Rendered
<1>3. QED
  BY <1>1, <1>2

----------------------------------------------------------------------------
(* Sequences                                                                *)

\* A sequence, of anything.
IsSeq(s) == \E S : s \in Seq(S)

LEMMA SeqFacts ==
  /\ IsSeq(<<>>) /\ \A e : IsSeq(<<e>>)
  /\ \A s : IsSeq(s) => Len(s) \in Nat
<1>1. IsSeq(<<>>)
  BY EmptySeq DEF IsSeq
<1>2. \A e : IsSeq(<<e>>)
  <2>1. \A e : <<e>> \in Seq({e})
    OBVIOUS
  <2>2. QED
    BY <2>1 DEF IsSeq
<1>3. \A s : IsSeq(s) => Len(s) \in Nat
  BY LenProperties DEF IsSeq
<1>4. QED
  BY <1>1, <1>2, <1>3

LEMMA JoinedSeq ==
  ASSUME NEW s, NEW t, IsSeq(s), IsSeq(t)
  PROVE  /\ IsSeq(s \o t) /\ Len(s \o t) = Len(s) + Len(t)
         /\ \A i \in 1 .. Len(s) + Len(t) :
              (s \o t)[i] = IF i <= Len(s) THEN s[i] ELSE t[i - Len(s)]
<1>1. PICK S : s \in Seq(S)
  BY DEF IsSeq
<1>2. PICK T : t \in Seq(T)
  BY DEF IsSeq
<1>3. s \in Seq(S \cup T) /\ t \in Seq(S \cup T)
  BY <1>1, <1>2, SeqMonotonic
<1>4. QED
  BY <1>3, ConcatProperties DEF IsSeq

LEMMA Induction ==
  ASSUME NEW S \in SUBSET Nat, 0 \in S, \A k \in S : k + 1 \in S, NEW n \in Nat
  PROVE  n \in S
<1> DEFINE less == {p \in Nat \X Nat : p[1] < p[2]}
<1>1. IsWellFoundedOn(less, Nat)
  BY NatLessThanWellFounded DEF OpToRel
<1>2. SUFFICES ASSUME n \notin S PROVE FALSE
  OBVIOUS
<1>3. PICK x \in Nat \ S : \A y \in Nat \ S : ~ (<<y, x>> \in less)
  <2> HIDE DEF less
  <2>1. Nat \ S # {} /\ Nat \ S \subseteq Nat
    BY <1>2
  <2>2. QED
    BY <1>1, <2>1, WFMin
<1>4. x # 0 /\ x - 1 \in Nat
  BY <1>3
<1>5. <<x - 1, x>> \in less
  BY <1>4
<1>6. x - 1 \in S
  BY <1>3, <1>4, <1>5
<1>7. QED
  BY <1>3, <1>4, <1>6

----------------------------------------------------------------------------
(* Emit and Emission, event by event                                        *)

\* f[i] is what the first i events make of the record s.
IsEmit(f, s, events, n) ==
  f = [i \in 0..n |-> IF i = 0 THEN [state |-> s, ok |-> TRUE]
                      ELSE Emitted(f[i - 1], events[i])]

LEMMA EmitExists ==
  ASSUME NEW s, NEW events, NEW n \in Nat
  PROVE  \E f : IsEmit(f, s, events, n)
<1> DEFINE Has == {k \in Nat : \E f : IsEmit(f, s, events, k)}
<1>1. 0 \in Has
  <2> DEFINE f == [i \in 0..0 |-> [state |-> s, ok |-> TRUE]]
  <2>1. f = [i \in 0..0 |-> IF i = 0 THEN [state |-> s, ok |-> TRUE]
                            ELSE Emitted(f[i - 1], events[i])]
    OBVIOUS
  <2> HIDE DEF f
  <2>2. IsEmit(f, s, events, 0)
    BY <2>1 DEF IsEmit
  <2>3. QED
    BY <2>2
<1>2. ASSUME NEW k \in Has PROVE k + 1 \in Has
  <2>1. PICK f : IsEmit(f, s, events, k)
    OBVIOUS
  <2> DEFINE g == [i \in 0..(k + 1) |-> IF i <= k THEN f[i] ELSE Emitted(f[k], events[k + 1])]
  <2>2. \A i \in 0..k : f[i] = IF i = 0 THEN [state |-> s, ok |-> TRUE]
                               ELSE Emitted(f[i - 1], events[i])
    BY <2>1 DEF IsEmit
  <2>3. \A i \in 0..(k + 1) : g[i] = IF i = 0 THEN [state |-> s, ok |-> TRUE]
                                     ELSE Emitted(g[i - 1], events[i])
    <3>1. TAKE i \in 0..(k + 1)
    <3>2. CASE i \in 0..k
      <4>1. g[i] = f[i] /\ (i # 0 => g[i - 1] = f[i - 1])
        BY <3>2
      <4>2. QED
        BY <2>2, <3>2, <4>1
    <3>3. CASE i = k + 1
      <4>1. g[i] = Emitted(f[k], events[i]) /\ g[i - 1] = f[k] /\ i # 0
        BY <3>3
      <4>2. QED
        BY <4>1
    <3>4. QED
      BY <3>2, <3>3
  <2>4. g = [i \in 0..(k + 1) |-> IF i = 0 THEN [state |-> s, ok |-> TRUE]
                                  ELSE Emitted(g[i - 1], events[i])]
    BY <2>3
  <2> HIDE DEF g
  <2>5. IsEmit(g, s, events, k + 1)
    BY <2>4 DEF IsEmit
  <2>6. QED
    BY <2>5
<1> HIDE DEF Has
<1>3. Has \in SUBSET Nat
  BY DEF Has
<1>4. n \in Has
  BY <1>1, <1>2, <1>3, Induction
<1>5. QED
  BY <1>4 DEF Has

LEMMA EmitTraced ==
  ASSUME NEW s, NEW events, Len(events) \in Nat
  PROVE  \E f : /\ f[0] = [state |-> s, ok |-> TRUE]
                /\ \A i \in 1..Len(events) : f[i] = Emitted(f[i - 1], events[i])
                /\ Emit(s, events) = f[Len(events)]
<1> DEFINE h == CHOOSE f : IsEmit(f, s, events, Len(events))
<1>1. IsEmit(h, s, events, Len(events))
  BY EmitExists
<1>2. Emit(s, events) = h[Len(events)]
  BY DEF Emit, IsEmit
<1> HIDE DEF h
<1>3. \A i \in 0..Len(events) : h[i] = IF i = 0 THEN [state |-> s, ok |-> TRUE]
                                       ELSE Emitted(h[i - 1], events[i])
  BY <1>1 DEF IsEmit
<1>4. h[0] = [state |-> s, ok |-> TRUE]
  <2>1. 0 \in 0..Len(events)
    OBVIOUS
  <2>2. QED
    BY ONLY <1>3, <2>1, Zenon
<1>5. \A i \in 1..Len(events) : h[i] = Emitted(h[i - 1], events[i])
  <2>1. \A i \in 1..Len(events) : i \in 0..Len(events) /\ i # 0
    OBVIOUS
  <2>2. QED
    BY <1>3, <2>1
<1>6. QED
  BY <1>2, <1>4, <1>5

\* f[i] is what they may make of the record and of the screen.
IsEmission(f, rec, scr, events, n) ==
  f = [i \in 0..n |-> IF i = 0 THEN {[record |-> rec, screen |-> scr, ok |-> TRUE]}
                      ELSE UNION {Taken(m, events[i]) : m \in f[i - 1]}]

LEMMA EmissionExists ==
  ASSUME NEW rec, NEW scr, NEW events, NEW n \in Nat
  PROVE  \E f : IsEmission(f, rec, scr, events, n)
<1> DEFINE begin == {[record |-> rec, screen |-> scr, ok |-> TRUE]}
           Step(ms, i) == UNION {Taken(m, events[i]) : m \in ms}
           Has == {k \in Nat : \E f : IsEmission(f, rec, scr, events, k)}
<1>1. 0 \in Has
  <2> DEFINE f == [i \in 0..0 |-> begin]
  <2>1. f = [i \in 0..0 |-> IF i = 0 THEN begin ELSE Step(f[i - 1], i)]
    OBVIOUS
  <2> HIDE DEF f
  <2>2. IsEmission(f, rec, scr, events, 0)
    BY <2>1 DEF IsEmission
  <2>3. QED
    BY <2>2
<1>2. ASSUME NEW k \in Has PROVE k + 1 \in Has
  <2>1. PICK f : IsEmission(f, rec, scr, events, k)
    OBVIOUS
  <2> DEFINE g == [i \in 0..(k + 1) |-> IF i <= k THEN f[i] ELSE Step(f[k], k + 1)]
  <2>2. \A i \in 0..k : f[i] = IF i = 0 THEN begin ELSE Step(f[i - 1], i)
    BY <2>1 DEF IsEmission
  <2> HIDE DEF begin, Step
  <2>3. \A i \in 0..(k + 1) : g[i] = IF i = 0 THEN begin ELSE Step(g[i - 1], i)
    BY <2>2
  <2>4. g = [i \in 0..(k + 1) |-> IF i = 0 THEN begin ELSE Step(g[i - 1], i)]
    BY <2>3
  <2> HIDE DEF g
  <2>5. IsEmission(g, rec, scr, events, k + 1)
    BY <2>4 DEF IsEmission, begin, Step
  <2>6. QED
    BY <2>5
<1> HIDE DEF Has
<1>3. Has \in SUBSET Nat
  BY DEF Has
<1>4. n \in Has
  BY <1>1, <1>2, <1>3, Induction
<1>5. QED
  BY <1>4 DEF Has

LEMMA EmissionTraced ==
  ASSUME NEW rec, NEW scr, NEW events, Len(events) \in Nat, run.recorded
  PROVE  \E f : /\ f[0] = {[record |-> rec, screen |-> scr, ok |-> TRUE]}
                /\ \A i \in 1..Len(events) :
                     f[i] = UNION {Taken(m, events[i]) : m \in f[i - 1]}
                /\ Emission(rec, scr, events) = f[Len(events)]
<1> DEFINE h == CHOOSE f : IsEmission(f, rec, scr, events, Len(events))
<1>1. IsEmission(h, rec, scr, events, Len(events))
  BY EmissionExists
<1>2. Emission(rec, scr, events) = h[Len(events)]
  BY DEF Emission, IsEmission
<1> HIDE DEF h
<1>3. \A i \in 0..Len(events) :
        h[i] = IF i = 0 THEN {[record |-> rec, screen |-> scr, ok |-> TRUE]}
               ELSE UNION {Taken(m, events[i]) : m \in h[i - 1]}
  BY <1>1 DEF IsEmission
<1>4. h[0] = {[record |-> rec, screen |-> scr, ok |-> TRUE]}
  <2>1. 0 \in 0..Len(events)
    OBVIOUS
  <2>2. QED
    BY ONLY <1>3, <2>1, Zenon
<1>5. \A i \in 1..Len(events) : h[i] = UNION {Taken(m, events[i]) : m \in h[i - 1]}
  <2>1. \A i \in 1..Len(events) : i \in 0..Len(events) /\ i # 0
    OBVIOUS
  <2>2. QED
    BY <1>3, <2>1
<1>6. QED
  BY <1>2, <1>4, <1>5

LEMMA EmissionUnrecorded ==
  ASSUME NEW rec, NEW scr, NEW events, ~run.recorded
  PROVE  Emission(rec, scr, events) = {[record |-> rec, screen |-> scr, ok |-> TRUE]}
<1> DEFINE h == CHOOSE f : IsEmission(f, rec, scr, <<>>, 0)
<1>1. IsEmission(h, rec, scr, <<>>, 0)
  BY EmissionExists
<1>2. Emission(rec, scr, events) = h[0]
  BY EmptySeq DEF Emission, IsEmission
<1> HIDE DEF h
<1>3. h[0] = {[record |-> rec, screen |-> scr, ok |-> TRUE]}
  BY <1>1 DEF IsEmission
<1>4. QED
  BY <1>2, <1>3

\* The screen of a run: rendered, or none.
Showing(r) == IF run.visual THEN Rendered(r) ELSE r = NewRenderer(FALSE, FALSE)

\* What becomes of the screen and of the record at each event.
LEMMA TakenKept ==
  ASSUME NEW m, Showing(m.screen), DOMAIN m = {"record", "screen", "ok"},
         m.ok \in BOOLEAN, NEW e, NEW q \in Taken(m, e)
  PROVE  /\ DOMAIN q = {"record", "screen", "ok"}
         /\ Showing(q.screen) /\ q.screen.depth = m.screen.depth
         /\ [state |-> q.record, ok |-> q.ok] = Emitted([state |-> m.record, ok |-> m.ok], e)
         /\ q.ok \in BOOLEAN
<1> DEFINE acc == [state |-> m.record, ok |-> m.ok]
<1>1. CASE ~m.ok \/ ~Accepts(m.record, e)
  <2>1. q = [m EXCEPT !.ok = FALSE]
    BY <1>1 DEF Taken
  <2>2. /\ DOMAIN q = DOMAIN m /\ q.record = m.record /\ q.screen = m.screen
    BY <2>1
  <2>3. q.ok = FALSE
    BY <2>1
  <2>4. Emitted(acc, e) = [state |-> m.record, ok |-> FALSE]
    BY <1>1 DEF Emitted
  <2>5. QED
    BY <2>2, <2>3, <2>4
<1>2. CASE m.ok /\ Accepts(m.record, e)
  <2> DEFINE next == Reduce(m.record, e)
  <2>1. PICK r : /\ r \in IF run.visual /\ next # m.record THEN Observe(m.screen, next)
                          ELSE {m.screen}
                 /\ q = [m EXCEPT !.record = next, !.screen = r]
    BY <1>2 DEF Taken
  <2>2. DOMAIN q = DOMAIN m /\ q.record = next /\ q.screen = r
    BY <2>1
  <2>3. q.ok = m.ok
    BY <2>1
  <2>4. Emitted(acc, e) = [state |-> next, ok |-> m.ok]
    BY <1>2 DEF Emitted
  <2> HIDE DEF next
  <2>5. Showing(r) /\ r.depth = m.screen.depth
    <3>1. CASE run.visual /\ next # m.record
      <4>1. Rendered(m.screen) /\ r \in Observe(m.screen, next)
        BY <2>1, <3>1 DEF Showing
      <4>2. QED
        BY <3>1, <4>1, ObserveRendered DEF Showing
    <3>2. CASE ~(run.visual /\ next # m.record)
      BY <2>1, <3>2
    <3>3. QED
      BY <3>1, <3>2
  <2>6. QED
    BY <2>2, <2>3, <2>4, <2>5
<1>3. QED
  BY <1>1, <1>2

\* What controller.emit of the events may come to.
EmissionOf(m, rec, scr, events) ==
  /\ Showing(m.screen) /\ m.screen.depth = scr.depth /\ m.ok \in BOOLEAN
  /\ run.recorded =>
       [state |-> m.record, ok |-> m.ok] = Emit(rec, events)
  /\ ~run.recorded => m.record = rec /\ m.ok = TRUE

LEMMA EmissionKept ==
  ASSUME NEW rec, NEW scr, Showing(scr), NEW events, Len(events) \in Nat,
         run.recorded \in BOOLEAN,
         NEW m \in Emission(rec, scr, events)
  PROVE  EmissionOf(m, rec, scr, events)
<1>1. CASE ~run.recorded
  <2>1. m = [record |-> rec, screen |-> scr, ok |-> TRUE]
    BY <1>1, EmissionUnrecorded
  <2>2. m.record = rec /\ m.screen = scr
    BY <2>1
  <2>3. m.ok = TRUE
    BY <2>1
  <2>4. QED
    BY <1>1, <2>2, <2>3 DEF EmissionOf
<1>2. CASE run.recorded
  <2>1. PICK f : /\ f[0] = [state |-> rec, ok |-> TRUE]
                 /\ \A i \in 1..Len(events) : f[i] = Emitted(f[i - 1], events[i])
                 /\ Emit(rec, events) = f[Len(events)]
    BY EmitTraced
  <2>2. PICK g : /\ g[0] = {[record |-> rec, screen |-> scr, ok |-> TRUE]}
                 /\ \A i \in 1..Len(events) :
                      g[i] = UNION {Taken(x, events[i]) : x \in g[i - 1]}
                 /\ Emission(rec, scr, events) = g[Len(events)]
    BY <1>2, EmissionTraced
  <2> DEFINE Good(x, i) == /\ DOMAIN x = {"record", "screen", "ok"}
                           /\ Showing(x.screen) /\ x.screen.depth = scr.depth
                           /\ [state |-> x.record, ok |-> x.ok] = f[i]
                           /\ x.ok \in BOOLEAN
             Has == {k \in Nat : k <= Len(events) => \A x \in g[k] : Good(x, k)}
  <2>3. 0 \in Has
    <3>1. ASSUME NEW x \in g[0] PROVE Good(x, 0)
      <4>1. x = [record |-> rec, screen |-> scr, ok |-> TRUE]
        BY <2>2, <3>1
      <4>2. DOMAIN x = {"record", "screen", "ok"} /\ x.record = rec /\ x.screen = scr
        BY <4>1
      <4>3. x.ok = TRUE
        BY <4>1
      <4>4. QED
        BY <2>1, <4>2, <4>3
    <3>2. QED
      BY <3>1
  <2>4. ASSUME NEW k \in Has PROVE k + 1 \in Has
    <3>1. SUFFICES ASSUME k + 1 <= Len(events), NEW x \in g[k + 1] PROVE Good(x, k + 1)
      OBVIOUS
    <3>2. k \in Nat /\ k + 1 \in 1..Len(events) /\ (k + 1) - 1 = k
      BY <3>1
    <3>3. PICK y \in g[k] : x \in Taken(y, events[k + 1])
      BY <2>2, <3>1, <3>2
    <3>4. Good(y, k)
      BY <3>1, <3>2, <3>3
    <3>5. f[k + 1] = Emitted(f[k], events[k + 1])
      BY <2>1, <3>2
    <3>6. QED
      BY <3>3, <3>4, <3>5, TakenKept
  <2> HIDE DEF Has
  <2>5. Has \in SUBSET Nat
    BY DEF Has
  <2>6. Len(events) \in Has
    BY <2>3, <2>4, <2>5, Induction
  <2>7. Good(m, Len(events))
    BY <2>2, <2>6 DEF Has
  <2>8. QED
    BY <1>2, <2>1, <2>7 DEF EmissionOf
<1>3. QED
  BY <1>1, <1>2

----------------------------------------------------------------------------
(* The screen of a run, wherever the run is                                 *)

\* The options of a run: one with a screen is always recorded.
RunTyped ==
  /\ run \in [visual : BOOLEAN, recorded : BOOLEAN, write : BOOLEAN, strict : BOOLEAN]
  /\ run.visual => run.recorded

\* Where others own the terminal.
Suspended == {"launch", "resolve", "complete"}

\* The renderer is what a run with a screen can leave it, or what it began as;
\* it is suspended while others own the terminal, and finalized by a run that
\* ends well.
ScreenKept ==
  /\ pc # "done" \/ ~run.visual => Showing(screen)
  /\ run.visual =>
       /\ pc \in Suspended => screen.depth > 0
       /\ pc = "start" => screen.state = "idle"
       /\ pc = "applying" \/ (pc = "told" /\ Executed) => ~screen.pending /\ ~screen.reported
       /\ pc = "done" => /\ Left(screen)
                         /\ ret \in {0, 1} => screen.state = "finalized" /\ screen.owned = FALSE

LEMMA DurablyShowing ==
  ASSUME RunTyped, NEW scr, Showing(scr), NEW mayThrow \in BOOLEAN, NEW o \in Durably(scr, mayThrow)
  PROVE  /\ Showing(o.r)
         /\ \/ o.threw = TRUE /\ (run.visual => o.r.state = "failed")
            \/ o.threw = FALSE /\ (run.visual => o.r.depth = scr.depth)
<1>1. CASE ~run.visual
  <2>1. o = Ok(scr) \/ o = Threw(scr)
    BY <1>1 DEF Durably
  <2>2. o.r = scr
    BY <2>1, OutcomeFields
  <2>3. o.threw = TRUE \/ o.threw = FALSE
    BY <2>1, OutcomeFields
  <2>4. QED
    BY <1>1, <2>2, <2>3
<1>2. CASE run.visual
  <2>1. PICK b \in BeginSuspension(scr, record) :
          o \in IF b.threw THEN {b}
                ELSE EndSuspension(b.r, record)
                     \cup (IF mayThrow THEN {Threw(r) : r \in CallbackFailed(b.r)} ELSE {})
    BY <1>2 DEF Durably
  <2>2. Rendered(scr)
    BY <1>2 DEF Showing
  <2>3. CASE Broke(b, scr)
    <3>1. o = b
      BY <2>1, <2>3 DEF Broke
    <3>2. QED
      BY <1>2, <2>3, <3>1 DEF Broke, Showing
  <2>4. CASE b.threw = FALSE /\ Rendered(b.r) /\ b.r.depth = scr.depth + 1
    <3>1. b.r.depth > 0 /\ b.r.depth - 1 = scr.depth
      BY <2>2, <2>4 DEF Rendered
    <3>2. CASE o \in EndSuspension(b.r, record)
      <4>1. /\ Rendered(o.r) /\ o.r.depth = b.r.depth - 1
            /\ \/ o.threw = TRUE /\ o.r.state = "failed"
               \/ o.threw = FALSE
        BY <2>4, <3>1, <3>2, EndRendered
      <4>2. QED
        BY <1>2, <3>1, <4>1 DEF Showing
    <3>3. CASE o \notin EndSuspension(b.r, record)
      <4>1. PICK r \in CallbackFailed(b.r) : o = Threw(r)
        BY <2>1, <2>4, <3>3
      <4>2. PICK f \in ContractFailure(b.r) : r = f.r
        BY <4>1 DEF CallbackFailed
      <4>3. Broke(f, b.r)
        BY <2>4, <4>2, FailureRendered
      <4>4. Rendered(r) /\ r.state = "failed"
        BY <4>2, <4>3 DEF Broke
      <4>5. o.r = r
        BY <4>1, OutcomeFields
      <4>6. o.threw = TRUE
        BY <4>1, OutcomeFields
      <4>7. QED
        BY <1>2, <4>4, <4>5, <4>6 DEF Showing
    <3>4. QED
      BY <3>2, <3>3
  <2>5. QED
    BY <2>2, <2>3, <2>4, BeginRendered
<1>3. QED
  BY <1>1, <1>2

\* The catch of the run.
Caught(rec, scr) ==
  /\ pc' = "done" /\ ret' = 2 /\ run' = run /\ count' = count
  /\ record' = FailedRecord(rec)
  /\ IF run.visual THEN Left(screen') /\ (scr.state = "failed" => screen'.state = "failed")
     ELSE screen' = scr

LEMMA DurablyFailed ==
  ASSUME RunTyped, run.visual, NEW scr, Showing(scr), scr.state = "failed",
         NEW o \in Durably(scr, FALSE)
  PROVE  o.r.state = "failed"
<1>1. Rendered(scr) /\ ~Operational(scr)
  BY DEF Showing, Operational
<1>2. PICK b \in ContractFailure(scr) :
        o \in IF b.threw THEN {b} ELSE EndSuspension(b.r, record)
  BY <1>1 DEF Durably, BeginSuspension
<1>3. Broke(b, scr)
  BY <1>1, FailureRendered
<1>4. o = b
  BY <1>2, <1>3 DEF Broke
<1>5. QED
  BY <1>3, <1>4 DEF Broke

LEMMA AbortCaught ==
  ASSUME RunTyped, NEW rec, NEW scr, Showing(scr), Abort(rec, scr)
  PROVE  Caught(rec, scr)
<1>1. PICK closed \in IF cache = "open" THEN {o.r : o \in Durably(scr, FALSE)} ELSE {scr} :
        \E r \in IF run.visual THEN Dispose(closed) ELSE {closed} : screen' = r
  BY DEF Abort
<1>2. /\ Showing(closed)
      /\ run.visual /\ scr.state = "failed" => closed.state = "failed"
  BY <1>1, DurablyShowing, DurablyFailed
<1>3. CASE run.visual
  <2>1. screen' \in Dispose(closed) /\ Rendered(closed)
    BY <1>1, <1>2, <1>3 DEF Showing
  <2>2. /\ Left(screen')
        /\ closed.state = "failed" => screen'.state = "failed"
    BY <2>1, DisposeLeaves
  <2>3. QED
    BY <1>2, <1>3, <2>2 DEF Abort, Caught
<1>4. CASE ~run.visual
  BY <1>1, <1>2, <1>4 DEF Abort, Caught, Showing
<1>5. QED
  BY <1>3, <1>4 DEF RunTyped

LEMMA CaughtScreen ==
  ASSUME NEW rec, NEW scr, Showing(scr), Caught(rec, scr)
  PROVE  ScreenKept'
<1>1. ~run'.visual => Showing(screen)'
  BY DEF Caught, Showing
<1>2. QED
  BY <1>1 DEF Caught, ScreenKept, Suspended

LEMMA AbortScreen ==
  ASSUME RunTyped, NEW rec, NEW scr, Showing(scr), Abort(rec, scr)
  PROVE  ScreenKept'
BY AbortCaught, CaughtScreen

LEMMA GotoScreen ==
  ASSUME NEW rec, NEW scr, Showing(scr), NEW label, Goto(label, rec, scr),
         label \notin {"start", "done", "applying", "told"},
         run.visual /\ label \in Suspended => scr.depth > 0
  PROVE  ScreenKept'
<1>1. Showing(screen)'
  BY DEF Goto, Showing
<1>2. QED
  BY <1>1 DEF Goto, ScreenKept

LEMMA LenTuples ==
  /\ Len(<<>>) \in Nat
  /\ \A a : Len(<<a>>) \in Nat
  /\ \A a, b : Len(<<a, b>>) \in Nat
  /\ \A a, b, c : Len(<<a, b, c>>) \in Nat
OBVIOUS

LEMMA EmissionShowing ==
  ASSUME RunTyped, NEW rec, NEW scr, Showing(scr), NEW events, Len(events) \in Nat,
         NEW m \in Emission(rec, scr, events)
  PROVE  Showing(m.screen) /\ m.screen.depth = scr.depth /\ m.ok \in BOOLEAN
<1>1. run.recorded \in BOOLEAN
  BY DEF RunTyped
<1>2. EmissionOf(m, rec, scr, events)
  BY <1>1, EmissionKept
<1>3. QED
  BY <1>2 DEF EmissionOf

LEMMA BeginScreen ==
  ASSUME RunTyped, ScreenKept, Begin
  PROVE  ScreenKept'
<1>1. Showing(screen)
  BY DEF ScreenKept, Begin
<1>2. CASE Abort(record, screen)
  BY <1>1, <1>2, AbortScreen
<1>3. ASSUME NEW o \in IF run.visual THEN Start(screen, record) ELSE {Ok(screen)},
             IF o.threw THEN Abort(record, o.r) ELSE Goto("load", record, o.r)
      PROVE  ScreenKept'
  <2>1. Showing(o.r)
    <3>1. CASE run.visual
      BY <1>1, <1>3, <3>1, StartRendered DEF ScreenKept, Showing, Begin, Broke
    <3>2. CASE ~run.visual
      BY <1>1, <1>3, <3>2, OutcomeFields
    <3>3. QED
      BY <3>1, <3>2
  <2>2. QED
    BY <1>3, <2>1, AbortScreen, GotoScreen DEF Suspended
<1>4. QED
  BY <1>2, <1>3 DEF Begin

LEMMA LoadScreen ==
  ASSUME RunTyped, ScreenKept, Load
  PROVE  ScreenKept'
<1>1. Showing(screen)
  BY DEF ScreenKept, Load
<1>2. CASE Abort(record, screen)
  BY <1>1, <1>2, AbortScreen
<1>3. CASE ~Abort(record, screen)
  <2>1. PICK n \in {0, N} :
          \E m \in Emission(record, screen,
                 <<[type |-> "packages-discovered", packages |-> n, declared |-> n],
                   [type |-> "repository-inspection-started"]>>) :
          \/ Abort(m.record, m.screen)
          \/ /\ pc' = "inspect" /\ screen' = m.screen
             /\ UNCHANGED run
    BY <1>3 DEF Load
  <2>2. PICK m \in Emission(record, screen,
                 <<[type |-> "packages-discovered", packages |-> n, declared |-> n],
                   [type |-> "repository-inspection-started"]>>) :
          \/ Abort(m.record, m.screen)
          \/ /\ pc' = "inspect" /\ screen' = m.screen
             /\ UNCHANGED run
    BY <2>1
  <2>3. Showing(m.screen)
    BY <1>1, EmissionShowing, LenTuples
  <2>4. CASE Abort(m.record, m.screen)
    BY <2>3, <2>4, AbortScreen
  <2>5. CASE pc' = "inspect" /\ screen' = m.screen /\ UNCHANGED run
    <3>1. Showing(screen)'
      BY <2>3, <2>5 DEF Showing
    <3>2. QED
      BY <2>5, <3>1 DEF ScreenKept, Suspended
  <2>6. QED
    BY <2>2, <2>4, <2>5
<1>4. QED
  BY <1>2, <1>3

LEMMA InspectScreen ==
  ASSUME RunTyped, ScreenKept, Inspect
  PROVE  ScreenKept'
<1>1. Showing(screen)
  BY DEF ScreenKept, Inspect
<1>2. PICK o \in IF run.visual THEN SetRunMetadata(screen, record) ELSE {Ok(screen)} :
       IF o.threw \/ o.r.reported THEN Abort(record, o.r)
       ELSE \E m \in Emission(record, o.r,
                    <<[type |-> "repository-inspection-completed", status |-> "passed"]>>) :
            \E h \in Durably(m.screen, TRUE) :
              IF h.threw THEN Abort(m.record, h.r)
              ELSE /\ Goto(IF count = 0 THEN "empty" ELSE "loaded", m.record, h.r)
                   /\ UNCHANGED at
  BY DEF Inspect
<1>3. Showing(o.r)
  <2>1. CASE run.visual
    BY <1>1, <1>2, <2>1, MetadataRendered DEF Showing, Broke
  <2>2. CASE ~run.visual
    BY <1>1, <1>2, <2>2, OutcomeFields
  <2>3. QED
    BY <2>1, <2>2
<1>4. CASE o.threw \/ o.r.reported
  BY <1>2, <1>3, <1>4, AbortScreen
<1>5. CASE ~(o.threw \/ o.r.reported)
  <2>1. PICK m \in Emission(record, o.r,
                    <<[type |-> "repository-inspection-completed", status |-> "passed"]>>) :
            \E h \in Durably(m.screen, TRUE) :
              IF h.threw THEN Abort(m.record, h.r)
              ELSE /\ Goto(IF count = 0 THEN "empty" ELSE "loaded", m.record, h.r)
                   /\ UNCHANGED at
    BY <1>2, <1>5
  <2>2. PICK h \in Durably(m.screen, TRUE) :
              IF h.threw THEN Abort(m.record, h.r)
              ELSE /\ Goto(IF count = 0 THEN "empty" ELSE "loaded", m.record, h.r)
                   /\ UNCHANGED at
    BY <2>1
  <2>3. Showing(m.screen)
    BY <1>3, EmissionShowing, LenTuples
  <2>4. Showing(h.r)
    BY <2>3, DurablyShowing
  <2>5. QED
    BY <2>2, <2>4, AbortScreen, GotoScreen DEF Suspended
<1>6. QED
  BY <1>4, <1>5

LEMMA SelectionShown ==
  ASSUME RunTyped, run.visual, NEW rec, NEW scr, Showing(scr), NEW o \in WriteReview(scr, rec)
  PROVE  /\ Showing(o.r)
         /\ \/ o.threw = TRUE
            \/ o.threw = FALSE /\ ~o.r.pending
BY ReviewRendered DEF Showing, Broke

LEMMA ReviewShowing ==
  ASSUME RunTyped, run.visual, Showing(screen), NEW ps, NEW m \in Review(ps)
  PROVE  /\ Showing(m.screen)
         /\ m.ok => ~m.screen.pending /\ ~m.screen.reported
<1>1. PICK e \in Emission(record, screen, <<SelectionCompleted(OwnerOf(ps))>>) :
        \E o \in IF e.ok THEN WriteReview(e.screen, e.record) ELSE {Threw(e.screen)} :
          m = [record |-> e.record, screen |-> o.r, ok |-> ~o.threw /\ ~o.r.reported]
  BY DEF Review
<1>2. PICK o \in IF e.ok THEN WriteReview(e.screen, e.record) ELSE {Threw(e.screen)} :
          m = [record |-> e.record, screen |-> o.r, ok |-> ~o.threw /\ ~o.r.reported]
  BY <1>1
<1>3. Showing(e.screen)
  BY EmissionShowing, LenTuples
<1>4. m.screen = o.r
  BY <1>2
<1>5. m.ok = (~o.threw /\ ~o.r.reported)
  BY <1>2
<1>6. CASE o \in WriteReview(e.screen, e.record)
  BY <1>3, <1>4, <1>5, <1>6, SelectionShown
<1>7. CASE o = Threw(e.screen)
  <2>1. o.r = e.screen
    BY <1>7, OutcomeFields
  <2>2. o.threw = TRUE
    BY <1>7, OutcomeFields
  <2>3. QED
    BY <1>3, <1>4, <1>5, <2>1, <2>2
<1>8. QED
  BY <1>2, <1>6, <1>7

LEMMA FinalLength ==
  ASSUME NEW rec, NEW code
  PROVE  Len(FinalEvents(rec, code)) \in Nat
<1>1. CASE HasTerminalEvent(rec, "results-recorded")
  BY <1>1, SeqFacts, JoinedSeq DEF FinalEvents
<1>2. CASE ~HasTerminalEvent(rec, "results-recorded")
  BY <1>2, SeqFacts, JoinedSeq DEF FinalEvents
<1>3. QED
  BY <1>1, <1>2

LEMMA FinalizeScreen ==
  ASSUME RunTyped, NEW rec, NEW scr, Showing(scr), NEW code, NEW receipt,
         FinalizeRun(rec, scr, code, receipt)
  PROVE  ScreenKept'
<1>1. CASE scr.reported
  BY <1>1, AbortScreen DEF FinalizeRun
<1>2. CASE ~scr.reported
  <2> DEFINE events == IF rec.exitCode # Null THEN <<>> ELSE FinalEvents(rec, code)
  <2>1. PICK m \in Emission(rec, scr, events) :
         IF ~m.ok \/ m.screen.reported THEN Abort(m.record, m.screen)
         ELSE \E o \in IF run.visual THEN Finalize(m.screen, m.record, receipt)
                       ELSE {Ok(m.screen)} :
                IF o.threw \/ o.r.reported THEN Abort(m.record, o.r)
                ELSE screen' = o.r /\ pc' = "done" /\ UNCHANGED run
    BY <1>2 DEF FinalizeRun
  <2>2. Len(events) \in Nat
    BY LenTuples, FinalLength
  <2> HIDE DEF events
  <2>3. Showing(m.screen)
    BY <2>1, <2>2, EmissionShowing
  <2>4. CASE ~m.ok \/ m.screen.reported
    BY <2>1, <2>3, <2>4, AbortScreen
  <2>5. CASE ~(~m.ok \/ m.screen.reported)
    <3>1. PICK o \in IF run.visual THEN Finalize(m.screen, m.record, receipt)
                     ELSE {Ok(m.screen)} :
                IF o.threw \/ o.r.reported THEN Abort(m.record, o.r)
                ELSE screen' = o.r /\ pc' = "done" /\ UNCHANGED run
      BY <2>1, <2>5
    <3>2. CASE run.visual
      <4>1. CASE Broke(o, m.screen)
        <5>1. o.threw = TRUE /\ Showing(o.r)
          BY <3>2, <4>1 DEF Broke, Showing
        <5>2. QED
          BY <3>1, <5>1, AbortScreen
      <4>2. CASE Ended(o)
        <5>1. screen' = o.r /\ pc' = "done" /\ run' = run
          BY <3>1, <4>2 DEF Ended
        <5>2. Left(screen') /\ screen'.state = "finalized" /\ screen'.owned = FALSE
          BY <4>2, <5>1 DEF Ended
        <5>3. QED
          BY <3>2, <5>1, <5>2 DEF ScreenKept, Suspended, Left
      <4>3. Rendered(m.screen) /\ o \in Finalize(m.screen, m.record, receipt)
        BY <2>3, <3>1, <3>2 DEF Showing
      <4>4. Broke(o, m.screen) \/ Ended(o)
        BY <4>3, FinalizeRendered
      <4>5. QED
        BY <4>1, <4>2, <4>4
    <3>3. CASE ~run.visual
      <4>1. o.r = m.screen /\ o.threw = FALSE
        BY <3>1, <3>3, OutcomeFields
      <4>2. CASE Abort(m.record, o.r)
        BY <2>3, <4>1, <4>2, AbortScreen
      <4>3. CASE screen' = o.r /\ pc' = "done" /\ UNCHANGED run
        <5>1. screen' = m.screen
          BY <4>1, <4>3
        <5>2. Showing(screen)'
          BY <2>3, <4>3, <5>1 DEF Showing
        <5>3. QED
          BY <3>3, <4>3, <5>2 DEF ScreenKept
      <4>4. QED
        BY <3>1, <4>2, <4>3
    <3>4. QED
      BY <3>2, <3>3
  <2>6. QED
    BY <2>4, <2>5
<1>3. QED
  BY <1>1, <1>2

LEMMA EmptyScreen ==
  ASSUME RunTyped, ScreenKept, Empty
  PROVE  ScreenKept'
<1>1. Showing(screen)
  BY DEF ScreenKept, Empty
<1>2. PICK m \in Emission(record, screen,
              <<[type |-> "resolution-completed", eligible |-> 0, unresolved |-> 0,
                 updates |-> 0, status |-> "passed"], SelectionCompleted(<<>>)>>) :
        \E o \in IF run.visual THEN WriteReview(m.screen, m.record) ELSE {Ok(m.screen)} :
          IF o.threw THEN Abort(m.record, o.r)
          ELSE FinalizeRun(m.record, o.r, IF run.strict THEN 2 ELSE 0, FALSE)
  BY DEF Empty
<1>3. PICK o \in IF run.visual THEN WriteReview(m.screen, m.record) ELSE {Ok(m.screen)} :
          IF o.threw THEN Abort(m.record, o.r)
          ELSE FinalizeRun(m.record, o.r, IF run.strict THEN 2 ELSE 0, FALSE)
  BY <1>2
<1>4. Showing(m.screen)
  BY <1>1, EmissionShowing, LenTuples
<1>5. Showing(o.r)
  BY <1>3, <1>4, SelectionShown, OutcomeFields
<1>6. QED
  BY <1>3, <1>5, AbortScreen, FinalizeScreen

LEMMA LoadedScreen ==
  ASSUME RunTyped, ScreenKept, Loaded
  PROVE  ScreenKept'
<1>1. Showing(screen)
  BY DEF ScreenKept, Loaded
<1>2. PICK h \in Durably(screen, TRUE) :
        IF h.threw THEN Abort(record, h.r)
        ELSE \E b \in IF run.visual THEN BeginSuspension(h.r, record) ELSE {Ok(h.r)} :
               /\ screen' = b.r /\ pc' = IF b.threw THEN "raise" ELSE "launch"
               /\ UNCHANGED run
  BY DEF Loaded
<1>3. Showing(h.r)
  BY <1>1, DurablyShowing
<1>4. CASE h.threw
  BY <1>2, <1>3, <1>4, AbortScreen
<1>5. CASE ~h.threw
  <2>1. PICK b \in IF run.visual THEN BeginSuspension(h.r, record) ELSE {Ok(h.r)} :
               /\ screen' = b.r /\ pc' = IF b.threw THEN "raise" ELSE "launch"
               /\ UNCHANGED run
    BY <1>2, <1>5
  <2>2. CASE run.visual
    <3>1. CASE Broke(b, h.r)
      BY <2>1, <2>2, <3>1 DEF Broke, Showing, ScreenKept, Suspended
    <3>2. CASE b.threw = FALSE /\ Rendered(b.r) /\ b.r.depth = h.r.depth + 1
      <4>1. b.r.depth > 0
        BY <1>3, <2>2, <3>2 DEF Showing, Rendered
      <4>2. QED
        BY <2>1, <2>2, <3>2, <4>1 DEF Showing, ScreenKept, Suspended
    <3>3. QED
      BY <1>3, <2>1, <2>2, <3>1, <3>2, BeginRendered DEF Showing
  <2>3. CASE ~run.visual
    <3>1. b.r = h.r /\ b.threw = FALSE
      BY <2>1, <2>3, OutcomeFields
    <3>2. QED
      BY <1>3, <2>1, <2>3, <3>1 DEF Showing, ScreenKept
  <2>4. QED
    BY <2>2, <2>3
<1>6. QED
  BY <1>4, <1>5

LEMMA LaunchScreen ==
  ASSUME RunTyped, ScreenKept, Launch
  PROVE  ScreenKept'
<1>1. Showing(screen) /\ (run.visual => screen.depth > 0)
  BY DEF ScreenKept, Launch, Suspended
<1>2. CASE \E label \in {"launch", "resolve"} : Goto(label, record, screen)
  BY <1>1, <1>2, GotoScreen
<1>3. ASSUME NEW r \in IF run.visual THEN CallbackFailed(screen) ELSE {screen}, Abort(record, r)
      PROVE  ScreenKept'
  <2>1. CASE run.visual
    <3>1. PICK o \in ContractFailure(screen) : r = o.r
      BY <1>3, <2>1 DEF CallbackFailed
    <3>2. Broke(o, screen)
      BY <1>1, <2>1, <3>1, FailureRendered DEF Showing
    <3>3. Showing(r)
      BY <2>1, <3>1, <3>2 DEF Broke, Showing
    <3>4. QED
      BY <1>3, <3>3, AbortScreen
  <2>2. CASE ~run.visual
    BY <1>1, <1>3, <2>2, AbortScreen
  <2>3. QED
    BY <2>1, <2>2
<1>4. QED
  BY <1>2, <1>3 DEF Launch

LEMMA ResolutionEndsScreen ==
  ASSUME RunTyped, ScreenKept, ResolutionEnds
  PROVE  ScreenKept'
<1>1. Showing(screen) /\ (run.visual => screen.depth > 0)
  BY DEF ScreenKept, ResolutionEnds, Suspended
<1> DEFINE events == <<[type |-> "resolution-completed", status |-> "passed",
                        eligible |-> count, updates |-> Cardinality(Updated),
                        unresolved |-> Cardinality({p \in Found : fate[p] = "error"})]>>
<1>2. PICK o \in IF run.visual THEN EndSuspension(screen, record) ELSE {Ok(screen)} :
        IF o.threw THEN Abort(record, o.r)
        ELSE \E m \in Emission(record, o.r, events) : Goto("prepare", m.record, m.screen)
  BY DEF ResolutionEnds
<1>3. Len(events) \in Nat
  BY LenTuples
<1> HIDE DEF events
<1>4. Showing(o.r)
  <2>1. CASE run.visual
    BY <1>1, <1>2, <2>1, EndRendered DEF Showing
  <2>2. CASE ~run.visual
    BY <1>1, <1>2, <2>2, OutcomeFields
  <2>3. QED
    BY <2>1, <2>2
<1>5. CASE o.threw
  BY <1>2, <1>4, <1>5, AbortScreen
<1>6. CASE ~o.threw
  <2>1. PICK m \in Emission(record, o.r, events) : Goto("prepare", m.record, m.screen)
    BY <1>2, <1>6
  <2>2. Showing(m.screen)
    BY <1>3, <1>4, EmissionShowing
  <2>3. QED
    BY <2>1, <2>2, GotoScreen DEF Suspended
<1>7. QED
  BY <1>5, <1>6

LEMMA PrepareScreen ==
  ASSUME RunTyped, ScreenKept, Prepare
  PROVE  ScreenKept'
<1>1. Showing(screen)
  BY DEF ScreenKept, Prepare
<1>2. ASSUME NEW o \in Durably(screen, FALSE), Goto("prepare", record, o.r)
      PROVE  ScreenKept'
  BY <1>1, <1>2, DurablyShowing, GotoScreen DEF Suspended
<1>3. ASSUME NEW o \in Durably(screen, fate[at] \in {"error", "update"}), Abort(record, o.r)
      PROVE  ScreenKept'
  <2>1. (fate[at] \in {"error", "update"}) \in BOOLEAN
    OBVIOUS
  <2>2. Showing(o.r)
    BY <1>1, <1>3, <2>1, DurablyShowing
  <2>3. QED
    BY <1>3, <2>2, AbortScreen
<1>4. QED
  BY <1>2, <1>3 DEF Prepare

LEMMA SelectScreen ==
  ASSUME RunTyped, ScreenKept, answer = NoAnswer, Select
  PROVE  ScreenKept'
<1>1. Showing(screen)
  BY DEF ScreenKept, Select
<1>2. CASE Abort(record, screen)
  BY <1>1, <1>2, AbortScreen
<1>3. ASSUME run.visual, NEW m \in Review(IF run.write THEN {} ELSE selected),
             Goto("told", m.record, m.screen)
      PROVE  ScreenKept'
  <2>1. Showing(m.screen)
    BY <1>1, <1>3, ReviewShowing
  <2>2. Executed' = FALSE
    BY DEF Select, work, Executed, NoAnswer
  <2>3. QED
    BY <1>3, <2>1, <2>2 DEF Goto, Showing, ScreenKept, Suspended
<1>4. ASSUME run.visual, NEW m \in Review(IF run.write THEN {} ELSE selected),
             Abort(m.record, m.screen)
      PROVE  ScreenKept'
  BY <1>1, <1>4, ReviewShowing, AbortScreen
<1>5. CASE Goto("apply", record, screen)
  BY <1>1, <1>5, GotoScreen DEF Suspended
<1>6. CASE Goto("told", record, screen)
  <2>2. Executed' = FALSE
    BY DEF Select, work, Executed, NoAnswer
  <2>3. QED
    BY <1>1, <1>6, <2>2 DEF Goto, Showing, ScreenKept, Suspended
<1>7. QED
  BY <1>2, <1>3, <1>4, <1>5, <1>6 DEF Select

LEMMA ApplyThrowsScreen ==
  ASSUME RunTyped, ScreenKept, ApplyThrows
  PROVE  ScreenKept'
<1>1. Showing(screen)
  BY DEF ScreenKept, ApplyThrows
<1>2. CASE Abort(record, screen)
  BY <1>1, <1>2, AbortScreen
<1>3. ASSUME run.visual, NEW m \in Review(Approved), Abort(m.record, m.screen)
      PROVE  ScreenKept'
  BY <1>1, <1>3, ReviewShowing, AbortScreen
<1>4. QED
  BY <1>2, <1>3 DEF ApplyThrows

LEMMA ApplyScreen ==
  ASSUME RunTyped, ScreenKept, ApplyBlocked \/ ApplyBegins \/ ApplyEnds
  PROVE  ScreenKept'
<1>1. Showing(screen)
  BY DEF ScreenKept, ApplyBlocked, ApplyBegins, ApplyEnds
<1>2. CASE ApplyBlocked
  BY <1>1, <1>2 DEF ApplyBlocked, Goto, Showing, ScreenKept
<1>3. CASE ApplyBegins
  <2>1. CASE run.visual
    <3>1. PICK m \in Review(Approved) : m.ok /\ Goto("applying", m.record, m.screen)
      BY <1>3, <2>1 DEF ApplyBegins
    <3>2. Showing(m.screen) /\ ~m.screen.pending /\ ~m.screen.reported
      BY <1>1, <2>1, <3>1, ReviewShowing
    <3>3. QED
      BY <2>1, <3>1, <3>2 DEF Goto, Showing, ScreenKept, Suspended
  <2>2. CASE ~run.visual
    BY <1>1, <1>3, <2>2 DEF ApplyBegins, Goto, Showing, ScreenKept
  <2>3. QED
    BY <2>1, <2>2
<1>4. CASE ApplyEnds
  BY <1>1, <1>4 DEF ApplyEnds, Goto, Showing, ScreenKept, Suspended
<1>5. QED
  BY <1>2, <1>3, <1>4

LEMMA TellScreen ==
  ASSUME RunTyped, ScreenKept, Tell, \A u \in BOOLEAN : Len(AccountOf(u)) \in Nat
  PROVE  ScreenKept'
<1>1. Showing(screen)
  BY DEF ScreenKept, Tell
<1>2. CASE screen.reported
  BY <1>1, <1>2, AbortScreen DEF Tell
<1>3. CASE ~screen.reported
  <2>1. PICK unbound \in BOOLEAN :
          \E m \in Emission(record, screen,
                            IF run.write THEN AccountOf(unbound) ELSE <<>>) :
          \E b \in IF run.visual THEN BeginSuspension(m.screen, m.record) ELSE {Ok(m.screen)} :
            IF b.threw THEN Abort(m.record, b.r)
            ELSE Goto("complete", m.record, b.r)
    BY <1>3 DEF Tell
  <2> DEFINE events == IF run.write THEN AccountOf(unbound) ELSE <<>>
  <2>2. Len(events) \in Nat
    BY LenTuples
  <2> HIDE DEF events
  <2>3. PICK m \in Emission(record, screen, events) :
          \E b \in IF run.visual THEN BeginSuspension(m.screen, m.record) ELSE {Ok(m.screen)} :
            IF b.threw THEN Abort(m.record, b.r)
            ELSE Goto("complete", m.record, b.r)
    BY <2>1 DEF events
  <2>4. PICK b \in IF run.visual THEN BeginSuspension(m.screen, m.record) ELSE {Ok(m.screen)} :
            IF b.threw THEN Abort(m.record, b.r)
            ELSE Goto("complete", m.record, b.r)
    BY <2>3
  <2>5. Showing(m.screen)
    BY <1>1, <2>2, EmissionShowing
  <2>6. CASE run.visual
    <3>1. Rendered(m.screen) /\ b \in BeginSuspension(m.screen, m.record)
      BY <2>4, <2>5, <2>6 DEF Showing
    <3>2. \/ Broke(b, m.screen)
          \/ b.threw = FALSE /\ Rendered(b.r) /\ b.r.depth = m.screen.depth + 1
      BY <3>1, BeginRendered
    <3>3. CASE Broke(b, m.screen)
      BY <2>4, <2>6, <3>3, AbortScreen DEF Broke, Showing
    <3>4. CASE b.threw = FALSE /\ Rendered(b.r) /\ b.r.depth = m.screen.depth + 1
      <4>1. m.screen.depth \in Nat
        BY <3>1 DEF Rendered
      <4>2. b.r.depth > 0
        BY <3>4, <4>1
      <4>3. QED
        BY <2>4, <2>6, <3>4, <4>2, GotoScreen DEF Showing
    <3>5. QED
      BY <3>2, <3>3, <3>4
  <2>7. CASE ~run.visual
    <3>1. b.r = m.screen /\ b.threw = FALSE
      BY <2>4, <2>7, OutcomeFields
    <3>2. QED
      BY <2>4, <2>5, <2>7, <3>1, GotoScreen
  <2>8. QED
    BY <2>6, <2>7
<1>4. QED
  BY <1>2, <1>3

LEMMA CompletionEndsScreen ==
  ASSUME RunTyped, ScreenKept, CompletionEnds
  PROVE  ScreenKept'
<1>1. Showing(screen) /\ (run.visual => screen.depth > 0)
  BY DEF ScreenKept, CompletionEnds, Suspended
<1>2. PICK o \in IF run.visual THEN EndSuspension(screen, record) ELSE {Ok(screen)} :
       IF o.threw \/ ~told \/ failed THEN Abort(record, o.r)
       ELSE \E h \in Durably(o.r, TRUE) :
            IF h.threw THEN Abort(record, h.r)
            ELSE \E m \in Emission(record, h.r,
                        IF run.write \/ run.visual THEN <<>>
                        ELSE <<SelectionCompleted(OwnerOf(Updated))>>) :
                 \E c \in Durably(m.screen, FALSE) :
                   pc' = "post" /\ screen' = c.r /\ UNCHANGED run
  BY DEF CompletionEnds
<1>3. Showing(o.r)
  <2>1. CASE run.visual
    BY <1>1, <1>2, <2>1, EndRendered DEF Showing
  <2>2. CASE ~run.visual
    BY <1>1, <1>2, <2>2, OutcomeFields
  <2>3. QED
    BY <2>1, <2>2
<1>4. CASE o.threw \/ ~told \/ failed
  BY <1>2, <1>3, <1>4, AbortScreen
<1>5. CASE ~(o.threw \/ ~told \/ failed)
  <2> DEFINE events == IF run.write \/ run.visual THEN <<>>
                       ELSE <<SelectionCompleted(OwnerOf(Updated))>>
  <2>1. Len(events) \in Nat
    BY LenTuples
  <2>2. PICK h \in Durably(o.r, TRUE) :
            IF h.threw THEN Abort(record, h.r)
            ELSE \E m \in Emission(record, h.r, events) :
                 \E c \in Durably(m.screen, FALSE) :
                   pc' = "post" /\ screen' = c.r /\ UNCHANGED run
    BY <1>2, <1>5
  <2> HIDE DEF events
  <2>3. Showing(h.r)
    BY <1>3, DurablyShowing
  <2>4. CASE h.threw
    BY <2>2, <2>3, <2>4, AbortScreen
  <2>5. CASE ~h.threw
    <3>1. PICK m \in Emission(record, h.r, events) :
                 \E c \in Durably(m.screen, FALSE) :
                   pc' = "post" /\ screen' = c.r /\ UNCHANGED run
      BY <2>2, <2>5
    <3>2. PICK c \in Durably(m.screen, FALSE) : pc' = "post" /\ screen' = c.r /\ UNCHANGED run
      BY <3>1
    <3>3. Showing(m.screen)
      BY <2>1, <2>3, EmissionShowing
    <3>4. Showing(c.r)
      BY <3>3, DurablyShowing
    <3>5. QED
      BY <3>2, <3>4 DEF Showing, ScreenKept, Suspended
  <2>6. QED
    BY <2>4, <2>5
<1>6. QED
  BY <1>4, <1>5

LEMMA LastScreen ==
  ASSUME RunTyped, ScreenKept, PostWrite \/ Exit \/ Raise
  PROVE  ScreenKept'
<1>1. Showing(screen)
  BY DEF ScreenKept, PostWrite, Exit, Raise
<1>2. ASSUME NEW o \in Durably(screen, FALSE), Abort(record, o.r) \/ Goto("exit", record, o.r)
      PROVE  ScreenKept'
  BY <1>1, <1>2, DurablyShowing, AbortScreen, GotoScreen DEF Suspended
<1>3. CASE Goto("exit", record, screen)
  BY <1>1, <1>3, GotoScreen DEF Suspended
<1>4. CASE PostWrite
  BY <1>2, <1>3, <1>4 DEF PostWrite
<1>5. CASE Exit
  BY <1>1, <1>5, FinalizeScreen DEF Exit
<1>6. CASE Raise
  BY <1>1, <1>6, AbortScreen DEF Raise
<1>7. QED
  BY <1>4, <1>5, <1>6

LEMMA OtherScreen ==
  ASSUME RunTyped, ScreenKept, pc # "done" => ret = Null,
         Resolve \/ Complete \/ Frame \/ Interrupt \/ UNCHANGED vars
  PROVE  ScreenKept'
<1>1. CASE Resolve
  BY <1>1, GotoScreen DEF Resolve, ScreenKept, Suspended
<1>2. CASE Complete
  BY <1>2, GotoScreen DEF Complete, ScreenKept, Suspended
<1>3. CASE Frame
  <2>1. screen.pending = TRUE \/ screen.pending
    BY <1>3 DEF Frame
  <2>2. CASE run.visual
    <3>1. screen' \in FrameDue(screen, record) /\ Rendered(screen) /\ pc # "done"
      BY <1>3, <2>2 DEF Frame, ScreenKept, Showing
    <3>2. Rendered(screen') /\ screen'.depth = screen.depth
          /\ (screen.state = "idle" => screen'.state = "idle")
      BY <3>1, FrameRendered
    <3>3. QED
      BY <1>3, <2>1, <2>2, <3>1, <3>2 DEF Frame, work, ScreenKept, Showing, Rendered, Executed
  <2>3. CASE ~run.visual
    BY <1>3, <2>1, <2>3 DEF Frame, ScreenKept, Showing, NewRenderer
  <2>4. QED
    BY <2>2, <2>3
<1>4. CASE Interrupt
  <2>1. Rendered(screen) /\ screen' \in Dispose(screen)
    BY <1>4 DEF Interrupt, ScreenKept, Showing
  <2>2. Left(screen')
    BY <2>1, DisposeLeaves
  <2>3. ret' = Null
    BY <1>4 DEF Interrupt
  <2>4. QED
    BY <1>4, <2>2 DEF Interrupt, ScreenKept, Suspended, Left, Null
<1>5. CASE UNCHANGED vars
  BY <1>5 DEF vars, ScreenKept, Showing, Executed, Left, Rendered
<1>6. QED
  BY <1>1, <1>2, <1>3, <1>4, <1>5

----------------------------------------------------------------------------
(* The packages and the answer, wherever the run is                         *)

\* Before the first preparation; after the last one; before the answer is told.
Opening == {"start", "load", "inspect", "empty", "loaded", "raise", "launch", "resolve"}
Later   == {"apply", "applying", "told", "complete", "post", "exit"}
Untold  == Opening \cup {"prepare", "apply", "applying", "told"}

\* The types of what the run itself keeps.
Typing ==
  /\ pc \in Opening \cup {"prepare"} \cup Later \cup {"done"}
  /\ RunTyped /\ count \in {0, N} /\ at \in Int
  /\ fate \in [Packages -> {"none", "update", "current", "error"}]
  /\ prepared \in [Packages -> {"no", "declined", "approved"}]
  /\ selected \subseteq Packages /\ reported \subseteq Packages
  /\ ended \in [Packages -> Nat]
  /\ told \in BOOLEAN /\ failed \in BOOLEAN
  /\ cache \in {"none", "open", "closed"} /\ command \in {"none", "ok", "failed"}
  /\ ret \in {Null, 0, 1, 2}

\* How far the packages are, wherever the run is.
LoopKept ==
  /\ pc \in Opening => \A p \in Packages : prepared[p] = "no"
  /\ pc \in {"loaded", "launch", "resolve", "prepare"} \cup Later => count = N
  /\ pc \in Untold => /\ \A p \in Packages : ended[p] = 0
                      /\ reported = {} /\ told = TRUE /\ failed = FALSE
  /\ pc = "prepare" => /\ at \in 1..(N + 1)
                       /\ \A p \in Packages : prepared[p] # "no" <=> p < at
  /\ pc \in Later => \A p \in Packages : prepared[p] # "no"
  /\ pc = "complete" => /\ at \in 1..(N + 1)
                        /\ \A p \in Packages : ended[p] = IF p < at THEN 1 ELSE 0
                        /\ reported = {p \in Approved : p < at}
  /\ pc \in {"post", "exit"} => /\ \A p \in Packages : ended[p] = 1
                                /\ reported = Approved /\ told = TRUE /\ failed = FALSE
  /\ pc # "done" => ret = Null

\* Every approved update was applied.
AllApplied == \A p \in Approved : Executed /\ answer.ops[p].status = "applied"

\* What the engine was asked and has answered.
AnswerKept ==
  /\ \A p \in Approved : fate[p] = "update" /\ run.write
  /\ answer = NoAnswer \/ answer = PlanBlocked \/ answer \in Answers(Approved)
  /\ answer # NoAnswer => Approved # {}
  /\ pc \in Opening \cup {"prepare", "apply", "applying"} => answer = NoAnswer
  /\ pc \in {"apply", "applying"} => Approved # {}
  /\ pc \in Later \ {"apply", "applying"} /\ answer = NoAnswer => Approved = {}
  /\ command # "none" => pc \in {"exit", "done"} /\ AllApplied

\* The inductive invariant of the run, its record and its screen aside.
Control == Typing /\ LoopKept /\ AnswerKept /\ PackagesEndOnce /\ ZeroMeansDone

\* The statuses an operation is answered with.
Statuses == {"applied", "conflicted", "unknown", "failed", "reverted"}

\* The answers, one by one.
All(ts, status, reason) == [p \in ts |-> Op(status, reason)]
Split(ts, mine, others) ==
  [q \in ts |-> IF q = CHOOSE p \in ts : \A r \in ts : p <= r THEN mine ELSE others]

WholeAnswer(ts) ==
  EngineAnswer(All(ts, "applied", "APPLIED"),
               Began(Staged \cup {"commit", "inspect", "cleanup"}, <<>>), "not-needed", ts)
PartialAnswer(ts) ==
  EngineAnswer(Split(ts, Op("failed", "RECOVERY_FAILED"), Op("conflicted", "SOURCE_CHANGED")),
               Began(Staged \cup {"inspect"},
                     [commit |-> "failed", recovery |-> "failed", cleanup |-> "unknown"]),
               "partial", {CHOOSE p \in ts : \A r \in ts : p <= r})
RevertedAnswer(ts) ==
  EngineAnswer(Split(ts, Op("reverted", "COMMIT_FAILED_REVERTED"), Op("failed", "RUN_ABORTED")),
               Began(Staged \cup {"recovery", "inspect", "cleanup"}, [commit |-> "failed"]),
               "completed", {CHOOSE p \in ts : \A r \in ts : p <= r})
ConflictAnswer(ts) ==
  EngineAnswer(All(ts, "conflicted", "SOURCE_HASH_MISMATCH"),
               Began({}, [preflight |-> "failed"]), "not-needed", {})
UnknownAnswer(ts) ==
  EngineAnswer(All(ts, "unknown", "VCS_UNAVAILABLE"),
               Began({}, [preflight |-> "unknown"]), "unknown", {})
StagingAnswer(ts) ==
  EngineAnswer(All(ts, "failed", "STAGING_FAILED"),
               Began({"preflight", "lock", "cleanup"}, [stage |-> "failed"]), "not-needed", {})

LEMMA AnswerCases ==
  ASSUME NEW ts, NEW a \in Answers(ts)
  PROVE  \/ a = WholeAnswer(ts) \/ a = PartialAnswer(ts) \/ a = RevertedAnswer(ts)
         \/ a = ConflictAnswer(ts) \/ a = UnknownAnswer(ts) \/ a = StagingAnswer(ts)
BY Zenon DEF Answers, All, Split, WholeAnswer, PartialAnswer, RevertedAnswer, ConflictAnswer,
             UnknownAnswer, StagingAnswer

LEMMA EngineAnswerFields ==
  ASSUME NEW ops, NEW phases, NEW recovery, NEW attempted, NEW a,
         a = EngineAnswer(ops, phases, recovery, attempted)
  PROVE  /\ a.kind = "executed" /\ a.ops = ops /\ a.phases = phases
         /\ a.recovery = recovery /\ a.attempted = attempted
         /\ a.owner = OwnerOf(DOMAIN ops)
BY DEF EngineAnswer

LEMMA OpsFields ==
  ASSUME NEW ts
  PROVE  /\ \A s, r : /\ DOMAIN All(ts, s, r) = ts
                      /\ \A p \in ts : All(ts, s, r)[p].status = s
         /\ \A s, r, t, u : LET ops == Split(ts, Op(s, r), Op(t, u)) IN
               DOMAIN ops = ts /\ \A p \in ts : ops[p].status \in {s, t}
BY DEF All, Split, Op

\* What every answer has in common.
AnswersFor(ts, a) ==
  /\ a.kind = "executed" /\ DOMAIN a.ops = ts /\ a.owner = OwnerOf(ts)
  /\ \A p \in ts : a.ops[p].status \in Statuses

LEMMA UniformAnswer ==
  ASSUME NEW ts, NEW s \in Statuses, NEW r, NEW phases, NEW recovery, NEW attempted, NEW a,
         a = EngineAnswer(All(ts, s, r), phases, recovery, attempted)
  PROVE  AnswersFor(ts, a)
<1>1. /\ a.kind = "executed" /\ a.ops = All(ts, s, r)
      /\ a.owner = OwnerOf(DOMAIN All(ts, s, r))
  BY EngineAnswerFields
<1>2. DOMAIN All(ts, s, r) = ts /\ \A p \in ts : All(ts, s, r)[p].status = s
  BY OpsFields
<1>3. QED
  BY <1>1, <1>2 DEF AnswersFor

LEMMA SplitAnswer ==
  ASSUME NEW ts, NEW s \in Statuses, NEW r, NEW t \in Statuses, NEW u,
         NEW phases, NEW recovery, NEW attempted, NEW a,
         a = EngineAnswer(Split(ts, Op(s, r), Op(t, u)), phases, recovery, attempted)
  PROVE  AnswersFor(ts, a)
<1> DEFINE ops == Split(ts, Op(s, r), Op(t, u))
<1>1. a.kind = "executed" /\ a.ops = ops /\ a.owner = OwnerOf(DOMAIN ops)
  BY EngineAnswerFields
<1>2. DOMAIN ops = ts /\ \A p \in ts : ops[p].status \in {s, t}
  BY OpsFields
<1> HIDE DEF ops
<1>3. QED
  BY <1>1, <1>2 DEF AnswersFor

LEMMA AnswerFacts ==
  ASSUME NEW ts, NEW a \in Answers(ts)
  PROVE  AnswersFor(ts, a)
<1> {"applied", "conflicted", "unknown", "failed", "reverted"} \subseteq Statuses
  BY DEF Statuses
<1>1. CASE a = WholeAnswer(ts)
  BY <1>1, UniformAnswer DEF WholeAnswer
<1>2. CASE a = PartialAnswer(ts)
  BY <1>2, SplitAnswer DEF PartialAnswer
<1>3. CASE a = RevertedAnswer(ts)
  BY <1>3, SplitAnswer DEF RevertedAnswer
<1>4. CASE a = ConflictAnswer(ts)
  BY <1>4, UniformAnswer DEF ConflictAnswer
<1>5. CASE a = UnknownAnswer(ts)
  BY <1>5, UniformAnswer DEF UnknownAnswer
<1>6. CASE a = StagingAnswer(ts)
  BY <1>6, UniformAnswer DEF StagingAnswer
<1>7. QED
  BY <1>1, <1>2, <1>3, <1>4, <1>5, <1>6, AnswerCases

LEMMA ExecutedAnswer ==
  ASSUME AnswerKept
  PROVE  /\ Executed <=> answer \in Answers(Approved)
         /\ ~Executed <=> answer = NoAnswer \/ answer = PlanBlocked
         /\ NoAnswer # PlanBlocked
<1>1. NoAnswer.kind = "none" /\ PlanBlocked.kind = "blocked"
  BY DEF NoAnswer, PlanBlocked
<1>2. QED
  BY <1>1, AnswerFacts DEF AnswerKept, Executed, AnswersFor

\* A write that failed nowhere applied everything.
LEMMA NothingFailed ==
  ASSUME AnswerKept, ~LocalWriteFailed, answer # NoAnswer
  PROVE  AllApplied
<1>1. answer \in Answers(Approved) /\ Executed
  BY ExecutedAnswer DEF LocalWriteFailed, AnswerKept
<1>2. ~WriteFailed(answer)
  BY <1>1 DEF LocalWriteFailed
<1>3. /\ DOMAIN answer.ops = Approved
      /\ \A p \in Approved : answer.ops[p].status \in Statuses
  BY <1>1, AnswerFacts DEF AnswersFor
<1>4. \A p \in Approved : answer.ops[p].status = "applied"
  BY <1>2, <1>3 DEF WriteFailed, Blocking, BlockingStatus, Statuses
<1>5. QED
  BY <1>1, <1>4 DEF AllApplied

----------------------------------------------------------------------------
(* The steps of a run, one by one                                           *)

\* The run is over with this code, its packages as they were.
Over(code) == pc' = "done" /\ ret' = code /\ UNCHANGED <<run, count, at>>

LEMMA AbortOver == ASSUME NEW rec, NEW scr, Abort(rec, scr) PROVE Over(2)
BY DEF Abort, Over

LEMMA FinalizeOver ==
  ASSUME NEW rec, NEW scr, NEW code, NEW receipt, FinalizeRun(rec, scr, code, receipt)
  PROVE  Over(2) \/ Over(code)
BY AbortOver DEF FinalizeRun, Over

LEMMA AbortTyped ==
  ASSUME Typing, NEW rec, NEW scr, Abort(rec, scr)
  PROVE  cache' \in {"none", "open", "closed"}
BY DEF Abort, Typing

\* A step that leaves the packages alone and ends the run with an error.
LEMMA OverControl ==
  ASSUME Control, UNCHANGED work, Over(2), cache' \in {"none", "open", "closed"},
         run.visual \/ pc \in Opening \cup {"post", "exit"}
           \/ (pc = "complete" /\ at > count)
  PROVE  Control'
<1>1. /\ pc' = "done" /\ ret' = 2 /\ run' = run /\ count' = count /\ at' = at
      /\ fate' = fate /\ prepared' = prepared /\ selected' = selected /\ ended' = ended
      /\ reported' = reported /\ answer' = answer /\ told' = told /\ failed' = failed
      /\ command' = command
  BY DEF Over, work
<1>2. Approved' = Approved /\ PreparedSoFar' = PreparedSoFar /\ AllApplied' = AllApplied
  BY <1>1 DEF Approved, PreparedSoFar, AllApplied, Executed
<1>3. Typing'
  BY <1>1 DEF Control, Typing, RunTyped, Over, Opening, Later
<1>4. LoopKept'
  BY <1>1 DEF LoopKept, Opening, Later, Untold
<1>5. AnswerKept'
  BY <1>1, <1>2 DEF Control, AnswerKept, Opening, Later
<1>6. PackagesEndOnce'
  <2>1. \A p \in Packages : ended'[p] <= 1
    BY <1>1 DEF Control, PackagesEndOnce
  <2>2. ~run.visual => \A p \in PreparedSoFar : ended[p] = 1
    BY DEF Control, LoopKept, PreparedSoFar, Opening, Later, Packages, Typing
  <2>3. QED
    BY <1>1, <1>2, <2>1, <2>2 DEF PackagesEndOnce
<1>7. ZeroMeansDone'
  BY <1>1, <1>2 DEF Control, AnswerKept, ZeroMeansDone, Returned, AllApplied
<1>8. QED
  BY <1>3, <1>4, <1>5, <1>6, <1>7 DEF Control

LEMMA SameWork ==
  ASSUME UNCHANGED work
  PROVE  /\ fate' = fate /\ prepared' = prepared /\ selected' = selected /\ ended' = ended
         /\ reported' = reported /\ answer' = answer /\ told' = told /\ failed' = failed
         /\ command' = command
         /\ Approved' = Approved /\ PreparedSoFar' = PreparedSoFar
         /\ AllApplied' = AllApplied /\ Executed' = Executed
BY DEF work, Approved, PreparedSoFar, AllApplied, Executed

\* A step that leaves the packages alone and goes on.
LEMMA OnwardControl ==
  ASSUME Control, UNCHANGED work, pc # "done", run' = run, ret' = ret,
         count' \in {0, N}, at' \in Int,
         cache' \in {"none", "open", "closed"}, command = "none",
         \/ pc' \in {"load", "inspect", "empty"} /\ pc \in Opening
         \/ pc' \in {"loaded", "raise", "launch", "resolve"} /\ pc \in Opening /\ count' = N
         \/ pc = "resolve" /\ pc' = "prepare" /\ count' = N /\ at' = 1
         \/ /\ pc = "prepare" /\ at = N + 1 /\ count' = N
            /\ pc' = IF Approved = {} THEN "told" ELSE "apply"
         \/ pc = "prepare" /\ at = N + 1 /\ count' = N /\ Approved = {} /\ pc' = "told"
         \/ pc = "apply" /\ count' = N /\ pc' = "applying"
         \/ /\ pc = "complete" /\ at = N + 1 /\ count' = N /\ told = TRUE /\ failed = FALSE
            /\ pc' = "post"
         \/ pc = "post" /\ count' = N /\ pc' = "exit"
  PROVE  Control'
<1>0. /\ fate' = fate /\ prepared' = prepared /\ selected' = selected /\ ended' = ended
      /\ reported' = reported /\ answer' = answer /\ told' = told /\ failed' = failed
      /\ command' = command
      /\ Approved' = Approved /\ PreparedSoFar' = PreparedSoFar
      /\ AllApplied' = AllApplied
  BY SameWork
<1>1. Typing'
  BY <1>0 DEF Control, Typing, RunTyped, Opening, Later
<1>2. LoopKept'
  <2>1. CASE pc \in Opening
    <3>1. /\ \A p \in Packages : prepared[p] = "no" /\ ended[p] = 0
          /\ reported = {} /\ told = TRUE /\ failed = FALSE /\ ret = Null
      BY <2>1 DEF Control, LoopKept, Opening, Untold
    <3>2. CASE pc' \in Opening
      BY <1>0, <2>1, <3>1, <3>2 DEF LoopKept, Opening, Later, Untold
    <3>3. CASE pc' \notin Opening
      <4>1. pc' = "prepare" /\ at' = 1 /\ count' = N
        BY <2>1, <3>3 DEF Opening
      <4>2. at' \in 1..(N + 1) /\ \A p \in Packages : ~(p < at')
        BY <4>1, NAssumption DEF Packages
      <4>3. QED
        BY <1>0, <3>1, <4>1, <4>2 DEF LoopKept, Opening, Later, Untold
    <3>4. QED
      BY <3>2, <3>3
  <2>2. CASE pc = "prepare"
    BY <1>0, <2>2, NAssumption DEF Control, Typing, LoopKept, Opening, Later, Untold, Packages
  <2>3. CASE pc = "complete"
    <3>1. \A p \in Packages : p < at
      BY <2>3, NAssumption DEF Opening, Packages
    <3>2. Approved = {p \in Approved : p < at}
      BY <3>1 DEF Approved
    <3>3. pc' = "post"
      BY <2>3 DEF Opening
    <3>4. /\ \A p \in Packages : prepared[p] # "no" /\ ended[p] = 1
          /\ reported = Approved
      BY <2>3, <3>1, <3>2 DEF Control, LoopKept, Later
    <3>5. told = TRUE /\ failed = FALSE /\ ret = Null /\ count' = N
      BY <2>3 DEF Control, LoopKept, Opening
    <3>6. QED
      BY <1>0, <3>3, <3>4, <3>5 DEF LoopKept, Opening, Later, Untold
  <2>4. CASE pc \in {"apply", "post"}
    BY <1>0, <2>4 DEF Control, Typing, LoopKept, Opening, Later, Untold, Packages
  <2>5. QED
    BY <2>1, <2>2, <2>3, <2>4 DEF Opening
<1>3. AnswerKept'
  <2>1. /\ \A p \in Approved' : fate'[p] = "update" /\ run'.write
        /\ answer' = NoAnswer \/ answer' = PlanBlocked \/ answer' \in Answers(Approved')
        /\ answer' # NoAnswer => Approved' # {}
        /\ command' = "none"
    BY <1>0 DEF Control, AnswerKept
  <2>2. CASE pc' \in Opening \cup {"prepare"}
    <3>1. answer' = NoAnswer
      BY <1>0, <2>2 DEF Control, AnswerKept, Opening
    <3>2. QED
      BY <2>1, <2>2, <3>1 DEF AnswerKept, Opening, Later
  <2>3. CASE pc' \in {"apply", "applying"}
    <3>1. answer' = NoAnswer /\ Approved' # {}
      BY <1>0, <2>3 DEF Control, AnswerKept, Opening
    <3>2. QED
      BY <2>1, <2>3, <3>1 DEF AnswerKept, Opening, Later
  <2>4. CASE pc' \in {"told", "post", "exit"}
    <3>1. answer' = NoAnswer => Approved' = {}
      BY <1>0, <2>4 DEF Control, AnswerKept, Opening, Later
    <3>2. QED
      BY <2>1, <2>4, <3>1 DEF AnswerKept, Opening, Later
  <2>5. QED
    BY <2>2, <2>3, <2>4 DEF Opening
<1>4. PackagesEndOnce'
  BY <1>0 DEF Control, PackagesEndOnce, Returned, Opening
<1>5. ZeroMeansDone'
  BY <1>0 DEF Control, ZeroMeansDone, Returned, Opening
<1>6. QED
  BY <1>1, <1>2, <1>3, <1>4, <1>5 DEF Control

\* A run without a screen has no failure of it to report.
Plain == ~run.visual => screen.reported = FALSE

LEMMA PlainScreen == ASSUME ScreenKept, pc # "done" PROVE Plain
BY DEF ScreenKept, Showing, NewRenderer, Plain

LEMMA NoCommand == ASSUME Control, pc \notin {"exit", "done"} PROVE command = "none"
BY DEF Control, AnswerKept

\* The run ends with its code: at once, or after every package was completed.
LEMMA FinalizeControl ==
  ASSUME Control, UNCHANGED work, NEW code \in {0, 1, 2}, NEW rec, NEW scr, NEW receipt,
         FinalizeRun(rec, scr, code, receipt), pc \in Opening \cup {"exit"},
         code = 0 /\ run.write => AllApplied
  PROVE  Control'
<1>1. cache' \in {"none", "open", "closed"}
  BY AbortTyped DEF FinalizeRun, Control, Typing
<1>2. CASE Over(2)
  BY <1>1, <1>2, OverControl
<1>3. CASE Over(code)
  <2>0. /\ pc' = "done" /\ ret' = code /\ run' = run /\ count' = count /\ at' = at
        /\ fate' = fate /\ prepared' = prepared /\ selected' = selected /\ ended' = ended
        /\ reported' = reported /\ answer' = answer /\ told' = told /\ failed' = failed
        /\ command' = command
        /\ Approved' = Approved /\ PreparedSoFar' = PreparedSoFar /\ AllApplied' = AllApplied
    BY <1>3, SameWork DEF Over
  <2>1. Typing'
    BY <1>1, <2>0 DEF Control, Typing, RunTyped, Opening, Later
  <2>2. LoopKept'
    BY <2>0 DEF LoopKept, Opening, Later, Untold
  <2>3. AnswerKept'
    BY <2>0 DEF Control, AnswerKept, Opening, Later
  <2>4. PackagesEndOnce'
    <3>1. \A p \in Packages : ended'[p] <= 1
      BY <2>0 DEF Control, PackagesEndOnce
    <3>2. \A p \in PreparedSoFar : ended[p] = 1
      BY DEF Control, LoopKept, PreparedSoFar, Opening
    <3>3. QED
      BY <2>0, <3>1, <3>2 DEF PackagesEndOnce
  <2>5. ZeroMeansDone'
    <3>1. reported = Approved /\ told /\ ~failed
      BY DEF Control, LoopKept, Opening, Untold, Approved
    <3>2. command # "none" => AllApplied
      BY DEF Control, AnswerKept
    <3>3. QED
      BY <2>0, <3>1, <3>2 DEF ZeroMeansDone, AllApplied
  <2>6. QED
    BY <2>1, <2>2, <2>3, <2>4, <2>5 DEF Control
<1>4. QED
  BY <1>2, <1>3, FinalizeOver

LEMMA OpeningControl ==
  ASSUME Control, Begin \/ Load \/ Inspect \/ Empty \/ Loaded \/ Raise
  PROVE  Control'
<1>1. UNCHANGED work /\ pc \in Opening
  BY DEF Begin, Load, Inspect, Empty, Loaded, Raise, Opening
<1>2. command = "none"
  BY <1>1, NoCommand DEF Opening
<1>3. ASSUME NEW rec, NEW scr, Abort(rec, scr) PROVE Control'
  <2>1. Over(2) /\ cache' \in {"none", "open", "closed"}
    BY <1>3, AbortOver, AbortTyped DEF Control
  <2>2. QED
    BY <1>1, <2>1, OverControl
<1>4. CASE \E label \in {"load", "inspect", "empty"} :
             /\ pc' = label /\ run' = run /\ ret' = ret /\ at' = at
             /\ count' \in {0, N} /\ cache' = cache
  BY <1>1, <1>2, <1>4, OnwardControl DEF Control, Typing, Opening
<1>5. CASE \E label \in {"loaded", "raise", "launch"} :
             /\ pc' = label /\ run' = run /\ ret' = ret /\ at' \in {at, 1}
             /\ count' = N /\ cache' \in {cache, "open"}
  <2>1. /\ pc' \in {"loaded", "raise", "launch", "resolve"} /\ run' = run /\ ret' = ret
        /\ at' \in Int /\ count' = N /\ cache' \in {"none", "open", "closed"} /\ pc # "done"
    BY <1>1, <1>5 DEF Control, Typing, Opening
  <2>2. QED
    BY <1>1, <1>2, <2>1, OnwardControl
<1>6. CASE Begin
  BY <1>3, <1>4, <1>6 DEF Begin, Goto, Control, Typing
<1>7. CASE Load
  BY <1>3, <1>4, <1>7 DEF Load
<1>8. CASE Inspect
  <2>1. ASSUME NEW rec, NEW scr, UNCHANGED at,
               Goto(IF count = 0 THEN "empty" ELSE "loaded", rec, scr)
        PROVE  Control'
    BY <1>4, <1>5, <2>1 DEF Goto, Control, Typing
  <2>2. QED
    BY <1>3, <1>8, <2>1 DEF Inspect
<1>9. CASE Loaded
  <2>1. count = N
    BY <1>9 DEF Loaded, Control, LoopKept
  <2>2. ASSUME NEW b, cache' = "open", pc' = IF b.threw THEN "raise" ELSE "launch",
               at' = 1, UNCHANGED <<run, count, ret>>
        PROVE  Control'
    BY <1>5, <2>1, <2>2
  <2>3. QED
    BY <1>3, <1>9, <2>2 DEF Loaded
<1>10. CASE Raise
  BY <1>3, <1>10 DEF Raise
<1>11. CASE Empty
  <2>1. PICK code \in {0, 2} : \E rec, scr, receipt :
          Abort(rec, scr) \/ FinalizeRun(rec, scr, code, receipt)
    <3>1. (IF run.strict THEN 2 ELSE 0) \in {0, 2}
      OBVIOUS
    <3>2. QED
      BY <1>11, <3>1 DEF Empty
  <2>2. PICK rec, scr, receipt : Abort(rec, scr) \/ FinalizeRun(rec, scr, code, receipt)
    BY <2>1
  <2>3. CASE Abort(rec, scr)
    BY <1>3, <2>3
  <2>4. CASE FinalizeRun(rec, scr, code, receipt)
    <3>1. AllApplied
      BY <1>1 DEF AllApplied, Approved, Control, LoopKept
    <3>2. QED
      BY <1>1, <2>4, <3>1, FinalizeControl
  <2>5. QED
    BY <2>2, <2>3, <2>4
<1>12. QED
  BY <1>6, <1>7, <1>8, <1>9, <1>10, <1>11

LEMMA LaunchControl ==
  ASSUME Control, Launch \/ ResolutionEnds
  PROVE  Control'
<1>1. UNCHANGED work /\ pc \in Opening /\ count = N
  BY DEF Launch, ResolutionEnds, Opening, Control, LoopKept
<1>2. command = "none"
  BY <1>1, NoCommand DEF Opening
<1>3. ASSUME NEW rec, NEW scr, Abort(rec, scr) PROVE Control'
  <2>1. Over(2) /\ cache' \in {"none", "open", "closed"}
    BY <1>3, AbortOver, AbortTyped DEF Control
  <2>2. QED
    BY <1>1, <2>1, OverControl
<1>4. ASSUME NEW label \in {"launch", "resolve"}, NEW rec, NEW scr, Goto(label, rec, scr),
             at' \in {at, at + 1}
      PROVE  Control'
  <2>1. /\ pc' \in {"loaded", "raise", "launch", "resolve"} /\ run' = run /\ ret' = ret
        /\ at' \in Int /\ count' = N /\ cache' \in {"none", "open", "closed"} /\ pc # "done"
    BY <1>1, <1>4 DEF Goto, Control, Typing, Opening
  <2>2. QED
    BY <1>1, <1>2, <2>1, OnwardControl
<1>5. ASSUME pc = "resolve", NEW rec, NEW scr, Goto("prepare", rec, scr), at' = 1
      PROVE  Control'
  BY <1>1, <1>2, <1>5, OnwardControl DEF Goto, Control, Typing
<1>6. CASE Launch
  BY <1>3, <1>4, <1>6 DEF Launch
<1>7. CASE ResolutionEnds
  BY <1>3, <1>5, <1>7 DEF ResolutionEnds
<1>8. QED
  BY <1>6, <1>7

LEMMA ResolveControl ==
  ASSUME Control, Resolve
  PROVE  Control'
<1>1. PICK f \in {"update", "current", "error"} : fate' = [fate EXCEPT ![at] = f]
  BY DEF Resolve
<1>2. /\ pc = "resolve" /\ pc' = "resolve" /\ at' = at - 1
      /\ UNCHANGED <<run, count, cache, ret, prepared, selected, ended, reported, answer,
                     told, failed, command>>
  BY DEF Resolve, Goto
<1>3. Approved = {} /\ Approved' = {} /\ PreparedSoFar' = {} /\ PreparedSoFar = {}
  BY <1>2 DEF Control, LoopKept, Approved, PreparedSoFar, Opening
<1>4. Typing'
  <2>1. fate' \in [Packages -> {"none", "update", "current", "error"}]
    BY <1>1 DEF Control, Typing
  <2>2. at' \in Int
    BY <1>2 DEF Control, Typing
  <2>3. QED
    BY <1>2, <2>1, <2>2 DEF Control, Typing, RunTyped
<1>5. LoopKept'
  BY <1>2, <1>3 DEF Control, LoopKept, Opening, Later, Untold
<1>6. AnswerKept'
  BY <1>2, <1>3 DEF Control, AnswerKept, Opening, Later
<1>7. PackagesEndOnce' /\ ZeroMeansDone'
  BY <1>2, <1>3 DEF Control, AnswerKept, PackagesEndOnce, ZeroMeansDone, Returned
<1>8. QED
  BY <1>4, <1>5, <1>6, <1>7 DEF Control

LEMMA PrepareControl ==
  ASSUME Control, ScreenKept, Prepare
  PROVE  Control'
<1>1. /\ pc = "prepare" /\ at <= count /\ count = N /\ at \in Packages
      /\ answer = NoAnswer /\ command = "none" /\ ret = Null
      /\ \A p \in Packages : ended[p] = 0
      /\ reported = {} /\ told = TRUE /\ failed = FALSE
      /\ \A p \in Packages : prepared[p] # "no" <=> p < at
  BY NoCommand DEF Prepare, Control, LoopKept, AnswerKept, Typing, Untold, Packages
<1>2. ASSUME NEW s \in BOOLEAN, NEW yes \in BOOLEAN,
             s => fate[at] = "update", yes => s /\ run.write,
             selected' = IF s THEN selected \cup {at} ELSE selected,
             prepared' = [prepared EXCEPT ![at] = IF yes THEN "approved" ELSE "declined"],
             at' = at + 1, pc' = "prepare",
             UNCHANGED <<run, count, cache, ret, fate, ended, reported, answer, told,
                         failed, command>>
      PROVE  Control'
  <2>1. /\ \A p \in Packages : prepared'[p] # "no" <=> p < at'
        /\ prepared' \in [Packages -> {"no", "declined", "approved"}]
    BY <1>1, <1>2 DEF Control, Typing, Packages
  <2>2. \A p \in Approved' : p \in Approved \/ (p = at /\ yes)
    BY <1>1, <1>2 DEF Control, Typing, Approved
  <2>3. Typing'
    BY <1>1, <1>2, <2>1 DEF Control, Typing, RunTyped
  <2>4. LoopKept'
    <3>1. at' \in 1..(N + 1)
      BY <1>1, <1>2, NAssumption DEF Packages
    <3>2. QED
      BY <1>1, <1>2, <2>1, <3>1 DEF LoopKept, Opening, Later, Untold
  <2>5. AnswerKept'
    BY <1>1, <1>2, <2>2 DEF Control, AnswerKept, Opening, Later
  <2>6. PackagesEndOnce' /\ ZeroMeansDone'
    BY <1>1, <1>2 DEF PackagesEndOnce, ZeroMeansDone, Returned
  <2>7. QED
    BY <2>3, <2>4, <2>5, <2>6 DEF Control
<1>3. ASSUME NEW scr, Abandon(PreparedSoFar \cup {at}), Abort(record, scr),
             UNCHANGED <<fate, prepared, selected, reported, answer, told, failed, command>>
      PROVE  Control'
  <2>1. Over(2) /\ cache' \in {"none", "open", "closed"}
    BY <1>3, AbortOver, AbortTyped DEF Control
  <2>2. Approved' = Approved /\ PreparedSoFar' = PreparedSoFar
    BY <1>3 DEF Approved, PreparedSoFar
  <2>3. \A p \in Packages : ended'[p] = IF p \in PreparedSoFar \cup {at} THEN 1 ELSE 0
    BY <1>1, <1>3 DEF Abandon
  <2>4. ended' \in [Packages -> Nat]
    BY <1>1, <1>3, <2>3 DEF Abandon
  <2>5. Typing'
    BY <1>3, <2>1, <2>4 DEF Control, Typing, RunTyped, Over
  <2>6. LoopKept'
    BY <2>1 DEF LoopKept, Over, Opening, Later, Untold
  <2>7. AnswerKept'
    BY <1>1, <1>3, <2>1, <2>2 DEF Control, AnswerKept, Over, Opening, Later
  <2>8. PackagesEndOnce'
    BY <2>2, <2>3 DEF PackagesEndOnce, PreparedSoFar
  <2>9. ZeroMeansDone'
    BY <1>1, <1>3, <2>1 DEF ZeroMeansDone, Returned, Over
  <2>10. QED
    BY <2>5, <2>6, <2>7, <2>8, <2>9 DEF Control
<1>4. CASE \E o \in Durably(screen, FALSE), choose \in BOOLEAN, approve \in BOOLEAN :
          LET s == choose /\ fate[at] = "update"
              yes == s /\ run.write /\ approve IN
          /\ ~o.threw
          /\ selected' = IF s THEN selected \cup {at} ELSE selected
          /\ prepared' = [prepared EXCEPT ![at] = IF yes THEN "approved" ELSE "declined"]
          /\ at' = at + 1 /\ Goto("prepare", record, o.r)
          /\ UNCHANGED <<fate, ended, reported, answer, told, failed, command>>
  <2>1. PICK o \in Durably(screen, FALSE), choose \in BOOLEAN, approve \in BOOLEAN :
          /\ selected' = IF choose /\ fate[at] = "update" THEN selected \cup {at} ELSE selected
          /\ prepared' = [prepared EXCEPT ![at] =
               IF choose /\ fate[at] = "update" /\ run.write /\ approve
               THEN "approved" ELSE "declined"]
          /\ at' = at + 1 /\ Goto("prepare", record, o.r)
          /\ UNCHANGED <<fate, ended, reported, answer, told, failed, command>>
    BY <1>4
  <2>2. (choose /\ fate[at] = "update") \in BOOLEAN
        /\ (choose /\ fate[at] = "update" /\ run.write /\ approve) \in BOOLEAN
    OBVIOUS
  <2>3. pc' = "prepare" /\ UNCHANGED <<run, count, cache, ret>>
    BY <2>1 DEF Goto
  <2>4. QED
    BY <1>2, <2>1, <2>2, <2>3
<1>5. QED
  BY <1>3, <1>4 DEF Prepare

LEMMA SelectControl ==
  ASSUME Control, ScreenKept, Select
  PROVE  Control'
<1>0. /\ UNCHANGED work /\ pc = "prepare" /\ count = N /\ command = "none"
      /\ at > count /\ at \in 1..(N + 1)
  BY NoCommand DEF Select, Control, LoopKept
<1>1. /\ UNCHANGED work /\ pc = "prepare" /\ count = N /\ at = N + 1 /\ command = "none"
  BY <1>0, NAssumption
<1>2. ASSUME run.visual, NEW rec, NEW scr, Abort(rec, scr) PROVE Control'
  <2>1. Over(2) /\ cache' \in {"none", "open", "closed"}
    BY <1>2, AbortOver, AbortTyped DEF Control
  <2>2. QED
    BY <1>1, <1>2, <2>1, OverControl
<1>3. ASSUME ~run.write \/ Approved = {}, NEW rec, NEW scr, Goto("told", rec, scr), UNCHANGED at
      PROVE  Control'
  <2>1. Approved = {}
    BY <1>3 DEF Control, AnswerKept
  <2>2. /\ pc' = "told" /\ run' = run /\ ret' = ret /\ pc # "done"
        /\ at' \in Int /\ count' = N /\ cache' \in {"none", "open", "closed"}
    BY <1>1, <1>3 DEF Goto, Control, Typing
  <2>3. QED
    BY <1>1, <2>1, <2>2, OnwardControl
<1>4. ASSUME NEW rec, NEW scr, Goto(IF Approved = {} THEN "told" ELSE "apply", rec, scr),
             UNCHANGED at
      PROVE  Control'
  <2>1. /\ pc' = IF Approved = {} THEN "told" ELSE "apply"
        /\ run' = run /\ ret' = ret /\ pc # "done"
        /\ at' \in Int /\ count' = N /\ cache' \in {"none", "open", "closed"}
    BY <1>1, <1>4 DEF Goto, Control, Typing
  <2>2. QED
    BY <1>1, <2>1, OnwardControl
<1>5. QED
  BY <1>2, <1>3, <1>4 DEF Select

\* Every package is ended in the catch of the apply.
LEMMA ApplyThrowsControl ==
  ASSUME Control, ScreenKept, ApplyThrows
  PROVE  Control'
<1>1. /\ pc = "apply" /\ command = "none" /\ answer = NoAnswer
      /\ \A p \in Packages : ended[p] = 0
      /\ Abandon(PreparedSoFar)
      /\ UNCHANGED <<fate, prepared, selected, reported, answer, told, failed, command>>
  BY NoCommand DEF ApplyThrows, Control, LoopKept, AnswerKept, Untold
<1>2. Over(2) /\ cache' \in {"none", "open", "closed"}
  BY AbortOver, AbortTyped DEF ApplyThrows, Control
<1>3. Approved' = Approved /\ PreparedSoFar' = PreparedSoFar
  BY <1>1 DEF Approved, PreparedSoFar
<1>4. \A p \in Packages : ended'[p] = IF p \in PreparedSoFar THEN 1 ELSE 0
  BY <1>1 DEF Abandon
<1>5. ended' \in [Packages -> Nat]
  BY <1>1, <1>4 DEF Abandon
<1>6. Typing'
  BY <1>1, <1>2, <1>5 DEF Control, Typing, RunTyped, Over
<1>7. LoopKept'
  BY <1>2 DEF LoopKept, Over, Opening, Later, Untold
<1>8. AnswerKept'
  BY <1>1, <1>2, <1>3 DEF Control, AnswerKept, Over, Opening, Later
<1>9. PackagesEndOnce'
  BY <1>3, <1>4 DEF PackagesEndOnce, PreparedSoFar
<1>10. ZeroMeansDone'
  BY <1>1, <1>2 DEF ZeroMeansDone, Returned, Over
<1>11. QED
  BY <1>6, <1>7, <1>8, <1>9, <1>10 DEF Control

LEMMA ApplyControl ==
  ASSUME Control, ApplyBlocked \/ ApplyBegins \/ ApplyEnds
  PROVE  Control'
<1>1. CASE ApplyBegins
  <2>1. /\ UNCHANGED work /\ pc = "apply" /\ pc' = "applying" /\ count' = N /\ command = "none"
        /\ run' = run /\ ret' = ret /\ pc # "done" /\ at' \in Int
        /\ cache' \in {"none", "open", "closed"}
    BY <1>1, NoCommand DEF ApplyBegins, Goto, Control, LoopKept, Typing, Later
  <2>2. QED
    BY <2>1, OnwardControl
<1>2. CASE ApplyBlocked \/ ApplyEnds
  <2>1. /\ pc \in {"apply", "applying"} /\ pc' = "told" /\ command = "none" /\ Approved # {}
        /\ UNCHANGED <<run, count, at, cache, ret, fate, prepared, selected, ended, reported,
                       told, failed, command>>
    BY <1>2, NoCommand DEF ApplyBlocked, ApplyEnds, Goto, Control, AnswerKept
  <2>2. Approved' = Approved
    BY <2>1 DEF Approved
  <2>3. answer' = PlanBlocked \/ answer' \in Answers(Approved)
    BY <1>2 DEF ApplyBlocked, ApplyEnds
  <2>4. answer' # NoAnswer
    BY <2>3, AnswerFacts DEF AnswersFor, PlanBlocked, NoAnswer
  <2>5. Typing'
    BY <2>1 DEF Control, Typing, RunTyped, Later
  <2>6. LoopKept'
    BY <2>1 DEF Control, LoopKept, Opening, Later, Untold
  <2>7. AnswerKept'
    BY <2>1, <2>2, <2>3, <2>4 DEF Control, AnswerKept, Opening, Later
  <2>8. PackagesEndOnce' /\ ZeroMeansDone'
    BY <2>1 DEF Control, PackagesEndOnce, ZeroMeansDone, Returned
  <2>9. QED
    BY <2>5, <2>6, <2>7, <2>8 DEF Control
<1>3. QED
  BY <1>1, <1>2

LEMMA TupleSeqs ==
  /\ \A a, b : IsSeq(<<a, b>>)
  /\ \A a, b, c : IsSeq(<<a, b, c>>)
<1>1. \A a, b : <<a, b>> \in Seq({a, b})
  OBVIOUS
<1>2. \A a, b, c : <<a, b, c>> \in Seq({a, b, c})
  OBVIOUS
<1>3. QED
  BY <1>1, <1>2 DEF IsSeq

\* The events of an answer are a sequence.
LEMMA ResultSeq ==
  ASSUME NEW a
  PROVE  IsSeq(ResultEvents(a))
<1> DEFINE last == <<ResultsRecorded(a.owner, ModelResults(a))>>
<1>1. IsSeq(ApplyPhaseEvents(a))
  <2>1. IsSeq(RetainedCleanupEvidence(a)) /\ IsSeq(RecoveryEvents(a))
    BY SeqFacts, TupleSeqs DEF RetainedCleanupEvidence, RecoveryEvents
  <2>2. \A s, t : IsSeq(s) /\ IsSeq(t) => IsSeq(s \o t)
    BY JoinedSeq
  <2>3. QED
    BY <2>1, <2>2, SeqFacts, TupleSeqs DEF ApplyPhaseEvents
<1>2. IsSeq(last)
  BY SeqFacts
<1> HIDE DEF last
<1>3. QED
  BY <1>1, <1>2, JoinedSeq DEF ResultEvents, last

LEMMA AccountLength ==
  ASSUME AnswerKept, NEW u \in BOOLEAN
  PROVE  IsSeq(AccountOf(u)) /\ Len(AccountOf(u)) \in Nat
<1>1. \A owner : IsSeq(ToldSelection(owner))
  BY SeqFacts DEF ToldSelection
<1>2. \A s, t : IsSeq(s) /\ IsSeq(t) => IsSeq(s \o t)
  BY JoinedSeq
<1>3. CASE answer = NoAnswer
  <2>1. AccountOf(u) = ToldSelection(<<>>) \o <<PhaseCompleted("preflight", "passed"),
           [type |-> "stage-completed", observationRequired |-> FALSE],
           ResultsRecorded(<<>>, <<>>)>>
    BY <1>3, ExecutedAnswer DEF AccountOf
  <2>2. QED
    BY <1>1, <1>2, <2>1, TupleSeqs, SeqFacts
<1>4. CASE answer = PlanBlocked
  <2>1. \/ AccountOf(u) = <<PhaseCompleted("review", "unknown")>>
        \/ \E e, f : AccountOf(u) = ToldSelection(OwnerOf(Approved)) \o <<e, f>>
    BY <1>4, ExecutedAnswer DEF AccountOf
  <2>2. QED
    BY <1>1, <1>2, <2>1, TupleSeqs, SeqFacts
<1>5. CASE Executed
  <2>1. AccountOf(u) = ToldSelection(answer.owner) \o ResultEvents(answer)
    BY <1>5, ExecutedAnswer DEF AccountOf
  <2>2. QED
    BY <1>1, <1>2, <2>1, ResultSeq, SeqFacts
<1>6. QED
  BY <1>3, <1>4, <1>5, ExecutedAnswer

LEMMA TellControl ==
  ASSUME Control, ScreenKept, Tell
  PROVE  Control'
<1>1. /\ pc = "told" /\ count = N /\ command = "none"
      /\ UNCHANGED <<fate, prepared, selected, ended, reported, answer, failed, command>>
      /\ \A p \in Packages : ended[p] = 0 /\ prepared[p] # "no"
      /\ reported = {} /\ failed = FALSE
      /\ answer = NoAnswer => Approved = {}
      /\ ret = Null
  BY NoCommand DEF Tell, Control, LoopKept, AnswerKept, Later, Untold
<1>2. Approved' = Approved /\ PreparedSoFar' = PreparedSoFar
  BY <1>1 DEF Approved, PreparedSoFar
<1>3. ASSUME run.visual, NEW rec, NEW scr, Abort(rec, scr), told' \in BOOLEAN PROVE Control'
  <2>1. Over(2) /\ cache' \in {"none", "open", "closed"}
    BY <1>3, AbortOver, AbortTyped DEF Control
  <2>2. Typing'
    BY <1>1, <1>3, <2>1 DEF Control, Typing, RunTyped, Over
  <2>3. LoopKept'
    BY <2>1 DEF LoopKept, Over, Opening, Later, Untold
  <2>4. AnswerKept'
    BY <1>1, <1>2, <2>1 DEF Control, AnswerKept, Over, Opening, Later
  <2>5. PackagesEndOnce'
    BY <1>1, <1>3, <2>1 DEF PackagesEndOnce, Over
  <2>6. ZeroMeansDone'
    BY <1>1, <2>1 DEF ZeroMeansDone, Returned, Over
  <2>7. QED
    BY <2>2, <2>3, <2>4, <2>5, <2>6 DEF Control
<1>4. ASSUME NEW rec, NEW scr, Goto("complete", rec, scr), told' \in BOOLEAN, at' = 1
      PROVE Control'
  <2>1. pc' = "complete" /\ UNCHANGED <<run, count, cache, ret>>
    BY <1>4 DEF Goto
  <2>2. Typing'
    BY <1>1, <1>4, <2>1 DEF Control, Typing, RunTyped, Later
  <2>3. LoopKept'
    <3>1. at' \in 1..(N + 1) /\ \A p \in Packages : ~(p < at')
      BY <1>4, NAssumption DEF Packages
    <3>2. {p \in Approved : p < at'} = {}
      BY <3>1 DEF Approved
    <3>3. QED
      BY <1>1, <1>2, <2>1, <3>1, <3>2 DEF LoopKept, Opening, Later, Untold
  <2>4. AnswerKept'
    BY <1>1, <1>2, <2>1 DEF Control, AnswerKept, Opening, Later
  <2>5. PackagesEndOnce' /\ ZeroMeansDone'
    BY <1>1, <2>1 DEF Control, PackagesEndOnce, ZeroMeansDone, Returned
  <2>6. QED
    BY <2>2, <2>3, <2>4, <2>5 DEF Control
<1>5. CASE screen.reported
  <2>1. run.visual /\ Abort(record, screen) /\ told' = told
    BY <1>1, <1>5, PlainScreen DEF Tell, Plain
  <2>2. QED
    BY <1>3, <2>1 DEF Control, Typing
<1>6. CASE ~screen.reported
  <2>1. PICK unbound \in BOOLEAN :
          \E m \in Emission(record, screen,
                            IF run.write THEN AccountOf(unbound) ELSE <<>>) :
          \E b \in IF run.visual THEN BeginSuspension(m.screen, m.record) ELSE {Ok(m.screen)} :
            IF b.threw THEN Abort(m.record, b.r) /\ told' = m.ok
            ELSE told' = m.ok /\ at' = 1 /\ Goto("complete", m.record, b.r)
    BY <1>6 DEF Tell
  <2> DEFINE events == IF run.write THEN AccountOf(unbound) ELSE <<>>
  <2>2. Len(events) \in Nat
    BY LenTuples, AccountLength DEF Control
  <2> HIDE DEF events
  <2>3. PICK m \in Emission(record, screen, events) :
          \E b \in IF run.visual THEN BeginSuspension(m.screen, m.record) ELSE {Ok(m.screen)} :
            IF b.threw THEN Abort(m.record, b.r) /\ told' = m.ok
            ELSE told' = m.ok /\ at' = 1 /\ Goto("complete", m.record, b.r)
    BY <2>1 DEF events
  <2>4. PICK b \in IF run.visual THEN BeginSuspension(m.screen, m.record) ELSE {Ok(m.screen)} :
            IF b.threw THEN Abort(m.record, b.r) /\ told' = m.ok
            ELSE told' = m.ok /\ at' = 1 /\ Goto("complete", m.record, b.r)
    BY <2>3
  <2>5. Showing(screen) /\ RunTyped
    BY <1>1 DEF ScreenKept, Control, Typing
  <2>6. m.ok \in BOOLEAN
    BY <2>2, <2>5, EmissionShowing
  <2>7. told' = m.ok
    BY <2>4
  <2>8. told' \in BOOLEAN
    BY <2>6, <2>7
  <2>9. CASE b.threw = TRUE
    <3>1. run.visual
      BY <2>4, <2>9, OutcomeFields
    <3>2. QED
      BY <1>3, <2>4, <2>8, <2>9, <3>1
  <2>10. CASE b.threw # TRUE
    <3>1. b.threw = FALSE
      <4>1. CASE run.visual
        <5>1. Rendered(m.screen)
          BY <2>2, <2>5, <4>1, EmissionShowing DEF Showing
        <5>2. QED
          BY <2>4, <2>10, <4>1, <5>1, BeginRendered DEF Broke
      <4>2. CASE ~run.visual
        BY <2>4, <4>2, OutcomeFields
      <4>3. QED
        BY <4>1, <4>2
    <3>2. QED
      BY <1>4, <2>4, <2>8, <3>1
  <2>11. QED
    BY <2>9, <2>10
<1>7. QED
  BY <1>5, <1>6

LEMMA CompleteControl ==
  ASSUME Control, Complete
  PROVE  Control'
<1>1. /\ pc = "complete" /\ pc' = "complete" /\ at \in Packages /\ at' = at + 1
      /\ ended' = [ended EXCEPT ![at] = @ + 1]
      /\ reported' = IF prepared[at] = "approved" THEN reported \cup {at} ELSE reported
      /\ failed' \in BOOLEAN
      /\ UNCHANGED <<run, count, cache, ret, fate, prepared, selected, answer, told, command>>
  BY DEF Complete, Goto, Control, Typing, LoopKept, Packages, Later
<1>2. /\ count = N /\ command = "none" /\ ret = Null
      /\ \A p \in Packages : ended[p] = IF p < at THEN 1 ELSE 0
      /\ reported = {p \in Approved : p < at}
  BY <1>1, NoCommand DEF Control, LoopKept, Later
<1>3. Approved' = Approved /\ PreparedSoFar' = PreparedSoFar
  BY <1>1 DEF Approved, PreparedSoFar
<1>4. /\ \A p \in Packages : ended'[p] = IF p < at' THEN 1 ELSE 0
      /\ ended' \in [Packages -> Nat]
  BY <1>1, <1>2 DEF Control, Typing, Packages
<1>5. reported' = {p \in Approved : p < at'} /\ reported' \subseteq Packages
  BY <1>1, <1>2 DEF Approved, Packages
<1>6. Typing'
  BY <1>1, <1>4, <1>5 DEF Control, Typing, RunTyped, Packages
<1>7. LoopKept'
  <2>1. at' \in 1..(N + 1)
    BY <1>1, NAssumption DEF Packages
  <2>2. QED
    BY <1>1, <1>2, <1>3, <1>4, <1>5, <2>1 DEF Control, LoopKept, Opening, Later, Untold
<1>8. AnswerKept'
  BY <1>1, <1>2, <1>3 DEF Control, AnswerKept, Opening, Later
<1>9. PackagesEndOnce' /\ ZeroMeansDone'
  BY <1>1, <1>2, <1>4 DEF PackagesEndOnce, ZeroMeansDone, Returned
<1>10. QED
  BY <1>6, <1>7, <1>8, <1>9 DEF Control

LEMMA CompletionEndsControl ==
  ASSUME Control, ScreenKept, CompletionEnds
  PROVE  Control'
<1>0. /\ UNCHANGED work /\ pc = "complete" /\ at > count /\ count = N /\ at \in 1..(N + 1)
      /\ command = "none"
  BY NoCommand DEF CompletionEnds, Control, LoopKept, Later
<1>1. /\ UNCHANGED work /\ pc = "complete" /\ at > count /\ count = N /\ at = N + 1
      /\ command = "none"
  BY <1>0, NAssumption
<1>2. ASSUME NEW rec, NEW scr, Abort(rec, scr) PROVE Control'
  <2>1. Over(2) /\ cache' \in {"none", "open", "closed"}
    BY <1>2, AbortOver, AbortTyped DEF Control
  <2>2. QED
    BY <1>1, <2>1, OverControl
<1>3. ASSUME told, ~failed, cache' = "closed", pc' = "post", UNCHANGED <<run, count, at, ret>>
      PROVE  Control'
  <2>1. /\ told = TRUE /\ failed = FALSE /\ run' = run /\ ret' = ret /\ pc # "done"
        /\ at' \in Int /\ count' = N /\ cache' \in {"none", "open", "closed"}
    BY <1>1, <1>3 DEF Control, Typing
  <2>2. QED
    BY <1>1, <1>3, <2>1, OnwardControl
<1>4. QED
  BY <1>2, <1>3 DEF CompletionEnds

LEMMA PostWriteControl ==
  ASSUME Control, ScreenKept, PostWrite
  PROVE  Control'
<1>1. /\ pc = "post" /\ count = N /\ command = "none" /\ ret = Null
      /\ \A p \in Packages : ended[p] = 1
      /\ reported = Approved /\ told = TRUE /\ failed = FALSE
      /\ UNCHANGED <<fate, prepared, selected, ended, reported, answer, told, failed>>
  BY NoCommand DEF PostWrite, Control, LoopKept, Later
<1>2. /\ Approved' = Approved /\ PreparedSoFar' = PreparedSoFar /\ AllApplied' = AllApplied
  BY <1>1 DEF Approved, PreparedSoFar, AllApplied, Executed
<1>3. CASE UNCHANGED <<at, command>> /\ Goto("exit", record, screen)
  <2>1. /\ UNCHANGED work /\ pc' = "exit" /\ run' = run /\ ret' = ret /\ pc # "done"
        /\ at' \in Int /\ count' = N /\ cache' \in {"none", "open", "closed"}
    BY <1>1, <1>3 DEF Goto, Control, Typing, work
  <2>2. QED
    BY <1>1, <2>1, OnwardControl
<1>4. CASE run.write /\ DidWrite /\ ~LocalWriteFailed
  <2>1. PICK ok \in BOOLEAN, o \in Durably(screen, FALSE) :
          /\ command' = IF ok THEN "ok" ELSE "failed"
          /\ IF o.threw THEN Abort(record, o.r)
             ELSE Goto("exit", record, o.r) /\ UNCHANGED at
    BY <1>4 DEF PostWrite
  <2>2. AllApplied
    <3>1. answer # NoAnswer
      BY <1>4, ExecutedAnswer DEF Control, DidWrite
    <3>2. QED
      BY <1>4, <3>1, NothingFailed DEF Control
  <2>3. /\ pc' \in {"exit", "done"} /\ UNCHANGED <<run, count, at>>
        /\ cache' \in {"none", "open", "closed"}
        /\ pc' = "exit" => ret' = Null
        /\ pc' = "done" => ret' = 2
    BY <1>1, <2>1, AbortOver, AbortTyped DEF Over, Goto, Control, Typing
  <2>4. ret' \in {Null, 2} /\ command' \in {"ok", "failed"}
    BY <2>1, <2>3
  <2>5. Typing'
    BY <1>1, <2>3, <2>4 DEF Control, Typing, RunTyped, Later
  <2>6. LoopKept'
    BY <1>1, <1>2, <2>3 DEF Control, LoopKept, Opening, Later, Untold
  <2>7. AnswerKept'
    BY <1>1, <1>2, <2>2, <2>3 DEF Control, AnswerKept, Opening, Later
  <2>8. PackagesEndOnce'
    BY <1>1 DEF PackagesEndOnce, PreparedSoFar
  <2>9. ZeroMeansDone'
    BY <1>1, <1>2, <2>2, <2>4 DEF ZeroMeansDone, Returned, AllApplied, Null
  <2>10. QED
    BY <2>5, <2>6, <2>7, <2>8, <2>9 DEF Control
<1>5. QED
  BY <1>3, <1>4 DEF PostWrite

LEMMA ExitControl ==
  ASSUME Control, Exit
  PROVE  Control'
<1>1. UNCHANGED work /\ pc = "exit" /\ FinalizeRun(record, screen, ExitCode, Executed)
  BY DEF Exit
<1>2. ExitCode \in {0, 1, 2}
  BY DEF ExitCode
<1>3. ASSUME ExitCode = 0, run.write PROVE AllApplied
  <2>1. ~LocalWriteFailed
    BY <1>3 DEF ExitCode
  <2>2. CASE answer = NoAnswer
    <3>1. Approved = {}
      BY <1>1, <2>2 DEF Control, AnswerKept, Later
    <3>2. QED
      BY <3>1 DEF AllApplied
  <2>3. CASE answer # NoAnswer
    BY <2>1, <2>3, NothingFailed DEF Control
  <2>4. QED
    BY <2>2, <2>3
<1>4. QED
  BY <1>1, <1>2, <1>3, FinalizeControl

LEMMA OtherControl ==
  ASSUME Control, Frame \/ Interrupt \/ UNCHANGED vars
  PROVE  Control'
<1>1. CASE Frame \/ UNCHANGED vars
  <2>1. UNCHANGED work /\ UNCHANGED <<pc, run, count, at, cache, ret>>
    BY <1>1 DEF Frame, vars, work
  <2>2. /\ fate' = fate /\ prepared' = prepared /\ selected' = selected /\ ended' = ended
        /\ reported' = reported /\ answer' = answer /\ told' = told /\ failed' = failed
        /\ command' = command
        /\ Approved' = Approved /\ PreparedSoFar' = PreparedSoFar
        /\ AllApplied' = AllApplied
    BY <2>1, SameWork
  <2>3. Typing' /\ LoopKept' /\ AnswerKept'
    BY <2>1, <2>2 DEF Control, Typing, RunTyped, LoopKept, AnswerKept
  <2>4. PackagesEndOnce'
    BY <2>1, <2>2 DEF Control, PackagesEndOnce, Returned
  <2>5. ZeroMeansDone'
    BY <2>1, <2>2 DEF Control, ZeroMeansDone, Returned, AllApplied
  <2>6. QED
    BY <2>3, <2>4, <2>5 DEF Control
<1>2. CASE Interrupt
  <2>1. UNCHANGED work /\ UNCHANGED <<run, count, at, cache, ret>> /\ pc' = "done" /\ ret = Null
    BY <1>2 DEF Interrupt, Control, LoopKept
  <2>2. /\ fate' = fate /\ prepared' = prepared /\ selected' = selected /\ ended' = ended
        /\ reported' = reported /\ answer' = answer /\ told' = told /\ failed' = failed
        /\ command' = command
        /\ Approved' = Approved /\ PreparedSoFar' = PreparedSoFar
        /\ AllApplied' = AllApplied
    BY <2>1, SameWork
  <2>3. Typing'
    BY <2>1, <2>2 DEF Control, Typing, RunTyped
  <2>4. LoopKept'
    BY <2>1 DEF LoopKept, Opening, Later, Untold
  <2>5. AnswerKept'
    BY <2>1, <2>2 DEF Control, AnswerKept, Opening, Later
  <2>6. PackagesEndOnce'
    BY <2>1, <2>2 DEF Control, PackagesEndOnce, Returned
  <2>7. ZeroMeansDone'
    BY <2>1, <2>2 DEF Control, AnswerKept, ZeroMeansDone, Returned, AllApplied
  <2>8. QED
    BY <2>3, <2>4, <2>5, <2>6, <2>7 DEF Control
<1>3. QED
  BY <1>1, <1>2

LEMMA ControlStep ==
  ASSUME Control, ScreenKept, [Next]_vars
  PROVE  Control'
<1>1. CASE Next
  <2>1. CASE Begin \/ Load \/ Inspect \/ Empty \/ Loaded \/ Raise
    BY <2>1, OpeningControl
  <2>2. CASE Launch \/ ResolutionEnds
    BY <2>2, LaunchControl
  <2>3. CASE Resolve
    BY <2>3, ResolveControl
  <2>4. CASE Prepare
    BY <2>4, PrepareControl
  <2>5. CASE Select
    BY <2>5, SelectControl
  <2>6. CASE ApplyThrows
    BY <2>6, ApplyThrowsControl
  <2>7. CASE ApplyBlocked \/ ApplyBegins \/ ApplyEnds
    BY <2>7, ApplyControl
  <2>8. CASE Tell
    BY <2>8, TellControl
  <2>9. CASE Complete
    BY <2>9, CompleteControl
  <2>10. CASE CompletionEnds
    BY <2>10, CompletionEndsControl
  <2>11. CASE PostWrite
    BY <2>11, PostWriteControl
  <2>12. CASE Exit
    BY <2>12, ExitControl
  <2>13. CASE Frame \/ Interrupt \/ Done
    BY <2>13, OtherControl DEF Done
  <2>14. QED
    BY <1>1, <2>1, <2>2, <2>3, <2>4, <2>5, <2>6, <2>7, <2>8, <2>9, <2>10, <2>11, <2>12,
       <2>13 DEF Next
<1>2. CASE UNCHANGED vars
  BY <1>2, OtherControl
<1>3. QED
  BY <1>1, <1>2

LEMMA ScreenStep ==
  ASSUME Control, ScreenKept, [Next]_vars
  PROVE  ScreenKept'
<1>1. RunTyped /\ (pc # "done" => ret = Null) /\ (pc = "prepare" => answer = NoAnswer)
  BY DEF Control, Typing, LoopKept, AnswerKept
<1>2. \A u \in BOOLEAN : Len(AccountOf(u)) \in Nat
  BY AccountLength DEF Control
<1>3. CASE Next
  <2>1. CASE Begin
    BY <1>1, <2>1, BeginScreen
  <2>2. CASE Load
    BY <1>1, <2>2, LoadScreen
  <2>3. CASE Inspect
    BY <1>1, <2>3, InspectScreen
  <2>4. CASE Empty
    BY <1>1, <2>4, EmptyScreen
  <2>5. CASE Loaded
    BY <1>1, <2>5, LoadedScreen
  <2>6. CASE Launch
    BY <1>1, <2>6, LaunchScreen
  <2>7. CASE ResolutionEnds
    BY <1>1, <2>7, ResolutionEndsScreen
  <2>8. CASE Prepare
    BY <1>1, <2>8, PrepareScreen
  <2>9. CASE Select
    BY <1>1, <2>9, SelectScreen DEF Select
  <2>10. CASE ApplyThrows
    BY <1>1, <2>10, ApplyThrowsScreen
  <2>11. CASE ApplyBlocked \/ ApplyBegins \/ ApplyEnds
    BY <1>1, <2>11, ApplyScreen
  <2>12. CASE Tell
    BY <1>1, <1>2, <2>12, TellScreen
  <2>13. CASE CompletionEnds
    BY <1>1, <2>13, CompletionEndsScreen
  <2>14. CASE PostWrite \/ Exit \/ Raise
    BY <1>1, <2>14, LastScreen
  <2>15. CASE Resolve \/ Complete \/ Frame \/ Interrupt \/ Done
    BY <1>1, <2>15, OtherScreen DEF Done
  <2>16. QED
    BY <1>3, <2>1, <2>2, <2>3, <2>4, <2>5, <2>6, <2>7, <2>8, <2>9, <2>10, <2>11, <2>12,
       <2>13, <2>14, <2>15 DEF Next
<1>4. CASE UNCHANGED vars
  BY <1>1, <1>4, OtherScreen
<1>5. QED
  BY <1>3, <1>4

LEMMA ControlInit ==
  ASSUME Init
  PROVE  Control /\ ScreenKept
<1>1. Approved = {} /\ PreparedSoFar = {}
  BY DEF Init, Approved, PreparedSoFar
<1>2. RunTyped
  BY DEF Init, RunTyped
<1>3. Typing
  <2>1. /\ pc \in Opening /\ count \in {0, N} /\ at \in Int /\ ret \in {Null, 0, 1, 2}
        /\ cache = "none" /\ command = "none"
    BY DEF Init, Opening
  <2>4. told \in BOOLEAN /\ failed \in BOOLEAN
    BY DEF Init
  <2>2. /\ fate \in [Packages -> {"none", "update", "current", "error"}]
        /\ prepared \in [Packages -> {"no", "declined", "approved"}]
        /\ selected \subseteq Packages /\ reported \subseteq Packages
        /\ ended \in [Packages -> Nat]
    BY DEF Init
  <2>3. QED
    BY <1>2, <2>1, <2>2, <2>4 DEF Typing
<1>4. LoopKept
  BY DEF Init, LoopKept, Opening, Later, Untold
<1>5. AnswerKept
  BY <1>1 DEF Init, AnswerKept, Opening, Later
<1>6. PackagesEndOnce /\ ZeroMeansDone
  BY DEF Init, PackagesEndOnce, ZeroMeansDone, Returned
<1>7. ScreenKept
  <2>1. PICK cursor, compact \in IF run.visual THEN BOOLEAN ELSE {FALSE} :
          screen = NewRenderer(cursor, compact)
    BY DEF Init
  <2>2. CASE run.visual
    <3>1. Rendered(screen) /\ screen.state = "idle"
      BY <2>1, <2>2 DEF NewRenderer, Rendered
    <3>2. QED
      BY <2>2, <3>1 DEF Init, ScreenKept, Showing, Suspended
  <2>3. CASE ~run.visual
    <3>1. screen = NewRenderer(FALSE, FALSE)
      BY <2>1, <2>3
    <3>2. QED
      BY <2>3, <3>1 DEF ScreenKept, Showing
  <2>4. QED
    BY <2>2, <2>3
<1>8. QED
  BY <1>3, <1>4, <1>5, <1>6, <1>7 DEF Control

\* Wherever a run is, and whatever hook, plan, apply, write or signal failed on
\* the way, its loops are where Control says and its renderer is what ScreenKept
\* says: the invariant that the theorems below rest on.
THEOREM CheckRunInvariance == Spec => [](Control /\ ScreenKept)
<1>1. Control /\ ScreenKept /\ [Next]_vars => Control' /\ ScreenKept'
  BY ControlStep, ScreenStep
<1>2. QED
  BY <1>1, ControlInit, PTL DEF Spec

\* However a run ends, afterPackageEnd was called at most once for each package,
\* and, without a screen, exactly once for each package whose preparation ended.
THEOREM PackagesAreEnded == Spec => []PackagesEndOnce
<1>1. Control => PackagesEndOnce
  BY DEF Control
<1>2. QED
  BY <1>1, CheckRunInvariance, PTL

\* Exit code 0 of a write is never given for less than all of it: every approved
\* update applied, told and recorded; the post-write command runs only then.
THEOREM ZeroExitIsDone == Spec => []ZeroMeansDone
<1>1. Control => ZeroMeansDone
  BY DEF Control
<1>2. QED
  BY <1>1, CheckRunInvariance, PTL

\* No frame is drawn or due while others write to the terminal, and the renderer
\* is at rest however the run ends: by its return, by a throw, by a signal.
THEOREM ScreenComesBack == Spec => []ScreenIsGivenBack
<1>1. Control /\ ScreenKept => ScreenIsGivenBack
  <2>1. SUFFICES ASSUME Control, ScreenKept PROVE ScreenIsGivenBack
    OBVIOUS
  <2>2. screen.depth > 0 => ~screen.pending /\ ~screen.owned
    <3>1. CASE Showing(screen) /\ run.visual
      BY <3>1 DEF Showing, Rendered
    <3>2. CASE Showing(screen) /\ ~run.visual
      BY <3>2 DEF Showing, NewRenderer
    <3>3. CASE ~Showing(screen)
      <4>1. Left(screen)
        BY <2>1, <3>3 DEF ScreenKept
      <4>2. QED
        BY <4>1 DEF Left
    <3>4. QED
      BY <3>1, <3>2, <3>3
  <2>3. pc = "done" /\ run.visual =>
          /\ ~screen.pending /\ ~screen.subscribed
          /\ ret \in {0, 1} => screen.state = "finalized" /\ ~screen.owned
    <3>1. SUFFICES ASSUME pc = "done", run.visual
                   PROVE  /\ ~screen.pending /\ ~screen.subscribed
                          /\ ret \in {0, 1} => screen.state = "finalized" /\ ~screen.owned
      OBVIOUS
    <3>2. Left(screen) /\ (ret \in {0, 1} => screen.state = "finalized" /\ screen.owned = FALSE)
      BY <2>1, <3>1 DEF ScreenKept
    <3>3. QED
      BY <3>2 DEF Left
  <2>4. QED
    BY <2>2, <2>3 DEF ScreenIsGivenBack
<1>2. QED
  BY <1>1, CheckRunInvariance, PTL

----------------------------------------------------------------------------
(* What each event makes of the record                                      *)

\* The fields of the record.
Fields == {"write", "phases", "counts", "owner", "results", "recovery", "exitCode", "events"}

\* r is the record s with these fields changed.
Edited(r, s, changed) ==
  DOMAIN r = Fields /\ \A f \in Fields \ changed : r[f] = s[f]

\* An event that is taken once: e joins the events, these fields change.
Took(r, s, e, changed) ==
  Edited(r, s, changed \cup {"events"}) /\ r.events = s.events \cup {e}

LEMMA TakenOnce ==
  ASSUME NEW s, DOMAIN s = Fields, NEW e, Accepts(s, e), e.type \notin Unidentified
  PROVE  \/ Reduce(s, e) = s /\ e \in s.events
         \/ /\ IsOpen(s) /\ ~Repeats(s, e)
            /\ Reduce(s, e) = [Changed(s, e) EXCEPT !.events = @ \cup {e}]
BY DEF Accepts, Reduce, TerminalDuplicate, Repeats

LEMMA ReducePhaseCompleted ==
  ASSUME NEW s, DOMAIN s = Fields, NEW e, e.type = "phase-completed", Accepts(s, e)
  PROVE  \/ Reduce(s, e) = s /\ e \in s.events
         \/ /\ PhaseAllowed(s, e) /\ IsOpen(s)
            /\ Took(Reduce(s, e), s, e, {"phases"})
            /\ Reduce(s, e).phases =
                 CompleteAndAdvance(IF e.phase = "resolve" THEN ActivateResolution(s.phases)
                                    ELSE s.phases, e.phase, e.status, s.write)
<1>1. CASE /\ IsOpen(s) /\ ~Repeats(s, e)
           /\ Reduce(s, e) = [Changed(s, e) EXCEPT !.events = @ \cup {e}]
  <2> DEFINE to == CompleteAndAdvance(IF e.phase = "resolve" THEN ActivateResolution(s.phases)
                                      ELSE s.phases, e.phase, e.status, s.write)
  <2>1. Changed(s, e) = [s EXCEPT !.phases = to]
    BY DEF Changed
  <2>2. PhaseAllowed(s, e)
    BY <1>1 DEF Accepts
  <2> HIDE DEF to
  <2>3. Took(Reduce(s, e), s, e, {"phases"}) /\ Reduce(s, e).phases = to
    BY <1>1, <2>1, ZenonT(60) DEF Took, Edited, Fields
  <2>4. QED
    BY <1>1, <2>2, <2>3 DEF to
<1>2. QED
  BY <1>1, TakenOnce DEF Unidentified

LEMMA ReduceSelection ==
  ASSUME NEW s, DOMAIN s = Fields, DOMAIN s.counts = DOMAIN NoCounts,
         NEW e, e.type = "selection-completed", Accepts(s, e)
  PROVE  \/ Reduce(s, e) = s /\ e \in s.events
         \/ /\ SelectionAllowed(s, e) /\ IsOpen(s)
            /\ Took(Reduce(s, e), s, e, {"phases", "counts", "owner"})
            /\ Reduce(s, e).phases = AdvanceFromReview([s.phases EXCEPT !["review"] = "passed"],
                                                       s.write)
            /\ Reduce(s, e).owner = e.owner
            /\ Reduce(s, e).counts.operations = Cardinality(DOMAIN e.owner)
            /\ DOMAIN Reduce(s, e).counts = DOMAIN NoCounts
<1>1. CASE /\ IsOpen(s) /\ ~Repeats(s, e)
           /\ Reduce(s, e) = [Changed(s, e) EXCEPT !.events = @ \cup {e}]
  <2> DEFINE to == AdvanceFromReview([s.phases EXCEPT !["review"] = "passed"], s.write)
             n == Cardinality(DOMAIN e.owner)
             m == Cardinality(Targets(e.owner))
             c == [[s.counts EXCEPT !.operations = n] EXCEPT !.targets = m]
  <2>1. Changed(s, e) = [s EXCEPT !.phases = to, !.counts.operations = n,
                                  !.counts.targets = m, !.owner = e.owner]
    BY DEF Changed
  <2>2. SelectionAllowed(s, e)
    BY <1>1 DEF Accepts
  <2> HIDE DEF to, n, m
  <2>3. c.operations = n /\ DOMAIN c = DOMAIN NoCounts
    BY DEF NoCounts
  <2> DEFINE q == Changed(s, e)
             o == e.owner
  <2>6. /\ Edited(q, s, {"phases", "counts", "owner"}) /\ q.phases = to /\ q.owner = o
        /\ q.counts = c
    BY <2>1 DEF Edited, Fields
  <2>7. Reduce(s, e) = [q EXCEPT !.events = @ \cup {e}]
    BY <1>1
  <2> HIDE DEF q, o, c
  <2>4. /\ Took(Reduce(s, e), s, e, {"phases", "counts", "owner"})
        /\ Reduce(s, e).phases = to /\ Reduce(s, e).owner = o
        /\ Reduce(s, e).counts = c
    BY <2>6, <2>7 DEF Took, Edited, Fields
  <2>5. QED
    BY <1>1, <2>2, <2>3, <2>4 DEF to, n, o
<1>2. QED
  BY <1>1, TakenOnce DEF Unidentified

LEMMA ReduceStage ==
  ASSUME NEW s, DOMAIN s = Fields, NEW e, e.type = "stage-completed", Accepts(s, e)
  PROVE  \/ Reduce(s, e) = s /\ e \in s.events
         \/ /\ s.phases["stage"] = "active" /\ IsOpen(s)
            /\ Took(Reduce(s, e), s, e, {"phases"})
            /\ Reduce(s, e).phases = StageSkipped(s.phases, e)
<1>1. CASE /\ IsOpen(s) /\ ~Repeats(s, e)
           /\ Reduce(s, e) = [Changed(s, e) EXCEPT !.events = @ \cup {e}]
  <2>1. Changed(s, e) = [s EXCEPT !.phases = StageSkipped(s.phases, e)]
    BY DEF Changed
  <2>2. s.phases["stage"] = "active"
    BY <1>1 DEF Accepts
  <2>3. QED
    BY <1>1, <2>1, <2>2 DEF Took, Edited, Fields
<1>2. QED
  BY <1>1, TakenOnce DEF Unidentified

LEMMA ReduceApply ==
  ASSUME NEW s, DOMAIN s = Fields, NEW e, e.type = "apply-completed", Accepts(s, e)
  PROVE  \/ Reduce(s, e) = s /\ e \in s.events
         \/ /\ ApplyAllowed(s, e) /\ IsOpen(s)
            /\ Took(Reduce(s, e), s, e, {"phases"})
            /\ Reduce(s, e).phases = ApplyEnded(s.phases, e)
<1>1. CASE /\ IsOpen(s) /\ ~Repeats(s, e)
           /\ Reduce(s, e) = [Changed(s, e) EXCEPT !.events = @ \cup {e}]
  <2>1. Changed(s, e) = [s EXCEPT !.phases = ApplyEnded(s.phases, e)]
    BY DEF Changed
  <2>2. ApplyAllowed(s, e)
    BY <1>1 DEF Accepts
  <2>3. QED
    BY <1>1, <2>1, <2>2 DEF Took, Edited, Fields
<1>2. QED
  BY <1>1, TakenOnce DEF Unidentified

LEMMA ReduceResults ==
  ASSUME NEW s, DOMAIN s = Fields, NEW e, e.type = "results-recorded", Accepts(s, e)
  PROVE  \/ Reduce(s, e) = s /\ e \in s.events
         \/ /\ s.phases["complete"] = "active" /\ ResultsAllowed(s, e) /\ IsOpen(s)
            /\ Took(Reduce(s, e), s, e, {"results"})
            /\ Reduce(s, e).results = e.operations
<1>1. CASE /\ IsOpen(s) /\ ~Repeats(s, e)
           /\ Reduce(s, e) = [Changed(s, e) EXCEPT !.events = @ \cup {e}]
  <2>1. Changed(s, e) = [s EXCEPT !.results = e.operations]
    BY DEF Changed
  <2>2. s.phases["complete"] = "active" /\ ResultsAllowed(s, e)
    BY <1>1 DEF Accepts
  <2>3. QED
    BY <1>1, <2>1, <2>2 DEF Took, Edited, Fields
<1>2. QED
  BY <1>1, TakenOnce DEF Unidentified

LEMMA ReduceRecovery ==
  ASSUME NEW s, DOMAIN s = Fields, NEW e, e.type = "recovery-recorded", Accepts(s, e)
  PROVE  \/ Reduce(s, e) = s /\ e \in s.events
         \/ /\ RecoveryAllowed(s, e) /\ IsOpen(s)
            /\ Took(Reduce(s, e), s, e, {"recovery"})
            /\ Reduce(s, e).recovery = [executed |-> e.executed, status |-> e.status]
<1>1. CASE /\ IsOpen(s) /\ ~Repeats(s, e)
           /\ Reduce(s, e) = [Changed(s, e) EXCEPT !.events = @ \cup {e}]
  <2>1. Changed(s, e) = [s EXCEPT !.recovery = [executed |-> e.executed, status |-> e.status]]
    BY DEF Changed
  <2>2. RecoveryAllowed(s, e)
    BY <1>1 DEF Accepts
  <2>3. QED
    BY <1>1, <2>1, <2>2 DEF Took, Edited, Fields
<1>2. QED
  BY <1>1, TakenOnce DEF Unidentified

LEMMA ReduceRunCompleted ==
  ASSUME NEW s, DOMAIN s = Fields, NEW e, e.type = "run-completed", Accepts(s, e)
  PROVE  \/ Reduce(s, e) = s /\ e \in s.events
         \/ /\ CompletionAllowed(s, e) /\ IsOpen(s)
            /\ Took(Reduce(s, e), s, e, {"phases", "exitCode"})
            /\ Reduce(s, e).exitCode = e.exitCode
<1>1. CASE /\ IsOpen(s) /\ ~Repeats(s, e)
           /\ Reduce(s, e) = [Changed(s, e) EXCEPT !.events = @ \cup {e}]
  <2>1. Changed(s, e) = [s EXCEPT !.phases["complete"] = FinalStatusOf(s, e.exitCode),
                                  !.exitCode = e.exitCode]
    BY DEF Changed
  <2>2. CompletionAllowed(s, e)
    BY <1>1 DEF Accepts
  <2>3. QED
    BY <1>1, <2>1, <2>2 DEF Took, Edited, Fields
<1>2. QED
  BY <1>1, TakenOnce DEF Unidentified

LEMMA ReduceDiscovered ==
  ASSUME NEW s, DOMAIN s = Fields, DOMAIN s.counts = DOMAIN NoCounts,
         NEW e, e.type = "packages-discovered", Accepts(s, e)
  PROVE  \/ Reduce(s, e) = s /\ e \in s.events
         \/ /\ s.phases["discover"] = "active" /\ IsOpen(s)
            /\ Took(Reduce(s, e), s, e, {"phases", "counts"})
            /\ Reduce(s, e).phases = CompleteAndAdvance(s.phases, "discover", "passed", s.write)
            /\ Reduce(s, e).counts = [s.counts EXCEPT !.packages = e.packages,
                                                      !.declared = e.declared]
<1>1. CASE /\ IsOpen(s) /\ ~Repeats(s, e)
           /\ Reduce(s, e) = [Changed(s, e) EXCEPT !.events = @ \cup {e}]
  <2> DEFINE to == CompleteAndAdvance(s.phases, "discover", "passed", s.write)
             c == [[s.counts EXCEPT !.packages = e.packages] EXCEPT !.declared = e.declared]
  <2>1. Changed(s, e) = [s EXCEPT !.phases = to, !.counts.packages = e.packages,
                                  !.counts.declared = e.declared]
    BY DEF Changed
  <2>2. s.phases["discover"] = "active"
    BY <1>1 DEF Accepts
  <2> HIDE DEF to
  <2>3. c = [s.counts EXCEPT !.packages = e.packages, !.declared = e.declared]
    BY DEF NoCounts
  <2>4. /\ Took(Reduce(s, e), s, e, {"phases", "counts"})
        /\ Reduce(s, e).phases = to
        /\ Reduce(s, e).counts = c
    BY <1>1, <2>1, ZenonT(60) DEF Took, Edited, Fields
  <2>5. QED
    BY <1>1, <2>2, <2>3, <2>4 DEF to
<1>2. QED
  BY <1>1, TakenOnce DEF Unidentified

LEMMA ReduceInspected ==
  ASSUME NEW s, DOMAIN s = Fields,
         NEW e, e.type = "repository-inspection-completed", Accepts(s, e)
  PROVE  \/ Reduce(s, e) = s /\ e \in s.events
         \/ /\ s.phases["inspect"] = "active" /\ IsOpen(s)
            /\ Took(Reduce(s, e), s, e, {"phases"})
            /\ Reduce(s, e).phases = CompleteAndAdvance(s.phases, "inspect", e.status, s.write)
<1>1. CASE /\ IsOpen(s) /\ ~Repeats(s, e)
           /\ Reduce(s, e) = [Changed(s, e) EXCEPT !.events = @ \cup {e}]
  <2>1. Changed(s, e) =
          [s EXCEPT !.phases = CompleteAndAdvance(s.phases, "inspect", e.status, s.write)]
    BY DEF Changed
  <2>2. s.phases["inspect"] = "active"
    BY <1>1 DEF Accepts
  <2>3. QED
    BY <1>1, <2>1, <2>2 DEF Took, Edited, Fields
<1>2. QED
  BY <1>1, TakenOnce DEF Unidentified

LEMMA ReduceStarted ==
  ASSUME NEW s, NEW e, e.type = "repository-inspection-started"
  PROVE  Reduce(s, e) = s
BY DEF Reduce, TerminalDuplicate, Unidentified, Changed

LEMMA ReduceResolved ==
  ASSUME NEW s, DOMAIN s = Fields, DOMAIN s.counts = DOMAIN NoCounts,
         NEW e, e.type = "resolution-completed", Accepts(s, e)
  PROVE  \/ Reduce(s, e) = s /\ e \in s.events
         \/ /\ ResolutionAllowed(s, e) /\ IsOpen(s)
            /\ Took(Reduce(s, e), s, e, {"phases", "counts"})
            /\ Reduce(s, e).phases = CompleteAndAdvance(ActivateResolution(s.phases), "resolve",
                                                        e.status, s.write)
            /\ Reduce(s, e).counts = [s.counts EXCEPT !.eligible = e.eligible,
                                        !.updates = e.updates, !.unresolved = e.unresolved]
<1>1. CASE /\ IsOpen(s) /\ ~Repeats(s, e)
           /\ Reduce(s, e) = [Changed(s, e) EXCEPT !.events = @ \cup {e}]
  <2> DEFINE to == CompleteAndAdvance(ActivateResolution(s.phases), "resolve", e.status, s.write)
             c == [[[s.counts EXCEPT !.eligible = e.eligible] EXCEPT !.updates = e.updates]
                     EXCEPT !.unresolved = e.unresolved]
  <2>1. Changed(s, e) = [s EXCEPT !.phases = to, !.counts.eligible = e.eligible,
                                  !.counts.updates = e.updates, !.counts.unresolved = e.unresolved]
    BY DEF Changed
  <2>2. ResolutionAllowed(s, e)
    BY <1>1 DEF Accepts
  <2> HIDE DEF to
  <2>3. c = [s.counts EXCEPT !.eligible = e.eligible,
                             !.updates = e.updates, !.unresolved = e.unresolved]
    BY DEF NoCounts
  <2>4. /\ Took(Reduce(s, e), s, e, {"phases", "counts"})
        /\ Reduce(s, e).phases = to
        /\ Reduce(s, e).counts = c
    BY <1>1, <2>1, ZenonT(60) DEF Took, Edited, Fields
  <2>5. QED
    BY <1>1, <2>2, <2>3, <2>4 DEF to
<1>2. QED
  BY <1>1, TakenOnce DEF Unidentified

----------------------------------------------------------------------------
(* The phases of the record, and the events of an apply                     *)

\* Exactly one phase is active.
OneActive(ph, q) ==
  /\ q \in PhaseNames /\ DOMAIN ph = PhaseNames
  /\ \A p \in PhaseNames : ph[p] = "active" <=> p = q

LEMMA FinishActive ==
  ASSUME NEW ph, DOMAIN ph = PhaseNames, \A p \in PhaseNames \ {"complete"} : ph[p] # "active"
  PROVE  OneActive(Finish(ph), "complete")
BY DEF OneActive, Finish, PhaseNames

LEMMA AdvanceActive ==
  ASSUME NEW ph, OneActive(ph, "review"), NEW write
  PROVE  LET to == AdvanceFromReview([ph EXCEPT !["review"] = "passed"], write) IN
         OneActive(to, IF write THEN "preflight" ELSE "complete")
<1> DEFINE done == [ph EXCEPT !["review"] = "passed"]
<1>1. DOMAIN done = PhaseNames /\ \A p \in PhaseNames : done[p] # "active"
  BY DEF OneActive, PhaseNames
<1> HIDE DEF done
<1>2. CASE write
  <2>1. AdvanceFromReview(done, write) = [done EXCEPT !["preflight"] = "active"]
    BY <1>2 DEF AdvanceFromReview
  <2>2. OneActive([done EXCEPT !["preflight"] = "active"], "preflight")
    BY <1>1 DEF OneActive, PhaseNames, WritePhases
  <2>3. QED
    BY <1>2, <2>1, <2>2 DEF done
<1>3. CASE ~write
  <2>1. AdvanceFromReview(done, write) = Finish(done)
    BY <1>3 DEF AdvanceFromReview
  <2>2. OneActive(Finish(done), "complete")
    BY <1>1, FinishActive
  <2>3. QED
    BY <1>3, <2>1, <2>2 DEF done
<1>4. QED
  BY <1>2, <1>3 DEF done

LEMMA CompleteActive ==
  ASSUME NEW ph, NEW p, p # "complete", OneActive(ph, p), NEW status, status # "active", NEW write
  PROVE  \E q \in PhaseNames : OneActive(CompleteAndAdvance(ph, p, status, write), q)
<1> DEFINE done == [ph EXCEPT ![p] = status]
           to == CompleteAndAdvance(ph, p, status, write)
<1>1. /\ DOMAIN done = PhaseNames /\ \A r \in PhaseNames : done[r] # "active"
      /\ p \in PhaseNames
  BY DEF OneActive
<1>2. CASE p = "apply" /\ status \in {"passed", "skipped"}
  <2>1. to = [done EXCEPT !["recover"] = "skipped", !["observe"] = "active"]
    BY <1>2 DEF CompleteAndAdvance
  <2> HIDE DEF done, to
  <2>2. OneActive(to, "observe")
    BY <1>1, <2>1 DEF OneActive, PhaseNames, WritePhases
  <2>3. QED
    BY <2>2 DEF OneActive, to
<1>3. CASE p = "apply" /\ status \notin {"passed", "skipped"}
  <2>1. to = [done EXCEPT !["recover"] = "active"]
    BY <1>3 DEF CompleteAndAdvance
  <2> HIDE DEF done, to
  <2>2. OneActive(to, "recover")
    BY <1>1, <2>1 DEF OneActive, PhaseNames, WritePhases
  <2>3. QED
    BY <2>2 DEF OneActive, to
<1>4. CASE p = "review" /\ status = "passed"
  <2>1. to = AdvanceFromReview(done, write)
    BY <1>4 DEF CompleteAndAdvance
  <2>2. OneActive(to, IF write THEN "preflight" ELSE "complete")
    BY <1>4, <2>1, AdvanceActive
  <2>3. QED
    BY <2>2 DEF OneActive
<1>5. CASE p \in {"recover", "observe"} \/ (p # "review" /\ p # "apply" /\ status = "passed")
  <2>1. to = [done EXCEPT ![After[p]] = "active"]
    BY <1>5 DEF CompleteAndAdvance
  <2>2. After[p] \in PhaseNames
    BY <1>1, <1>5 DEF After, PhaseNames, WritePhases
  <2> HIDE DEF done, to
  <2>3. OneActive(to, After[p])
    BY <1>1, <2>1, <2>2 DEF OneActive
  <2>4. QED
    BY <2>2, <2>3 DEF to
<1>6. CASE /\ p \notin {"recover", "observe", "apply"} /\ status # "passed"
  <2>1. to = Finish(done)
    BY <1>6 DEF CompleteAndAdvance
  <2>2. OneActive(to, "complete")
    BY <1>1, <2>1, FinishActive
  <2>3. QED
    BY <2>2 DEF OneActive
<1>7. QED
  BY <1>2, <1>3, <1>4, <1>5, <1>6

LEMMA ActivateActive ==
  ASSUME NEW ph, NEW q, OneActive(ph, q), ActivateResolution(ph)["resolve"] = "active"
  PROVE  OneActive(ActivateResolution(ph), "resolve")
BY DEF OneActive, ActivateResolution, PhaseNames, WritePhases

LEMMA StageActive ==
  ASSUME NEW ph, OneActive(ph, "stage"), NEW e
  PROVE  \E q \in PhaseNames : OneActive(StageSkipped(ph, e), q)
<1> DEFINE done == [ph EXCEPT !["stage"] = "skipped", !["apply"] = "skipped",
                              !["recover"] = "skipped"]
           to == StageSkipped(ph, e)
<1>1. DOMAIN done = PhaseNames /\ \A r \in PhaseNames : done[r] # "active"
  BY DEF OneActive, PhaseNames, WritePhases
<1>2. to = IF e.observationRequired THEN [done EXCEPT !["observe"] = "active"] ELSE Finish(done)
  BY DEF StageSkipped
<1> HIDE DEF done, to
<1>3. OneActive(to, IF e.observationRequired THEN "observe" ELSE "complete")
  BY <1>1, <1>2, FinishActive DEF OneActive, PhaseNames, WritePhases
<1>4. QED
  BY <1>3 DEF OneActive, to

LEMMA ApplyActive ==
  ASSUME NEW ph, OneActive(ph, "apply"), NEW e, e.status # "active"
  PROVE  \E q \in PhaseNames : OneActive(ApplyEnded(ph, e), q)
<1> DEFINE done == [ph EXCEPT !["apply"] = e.status]
           to == ApplyEnded(ph, e)
<1>1. DOMAIN done = PhaseNames /\ \A r \in PhaseNames : done[r] # "active"
  BY DEF OneActive, PhaseNames, WritePhases
<1>2. to = IF e.recoveryRequired THEN [done EXCEPT !["recover"] = "active"]
           ELSE IF e.observationRequired
           THEN [done EXCEPT !["recover"] = "skipped", !["observe"] = "active"]
           ELSE Finish(done)
  BY DEF ApplyEnded
<1> HIDE DEF done, to
<1>3. CASE e.recoveryRequired
  <2>1. OneActive(to, "recover")
    BY <1>1, <1>2, <1>3 DEF OneActive, PhaseNames, WritePhases
  <2>2. QED
    BY <2>1 DEF OneActive, to
<1>4. CASE ~e.recoveryRequired /\ e.observationRequired
  <2>1. OneActive(to, "observe")
    BY <1>1, <1>2, <1>4 DEF OneActive, PhaseNames, WritePhases
  <2>2. QED
    BY <2>1 DEF OneActive, to
<1>5. CASE ~e.recoveryRequired /\ ~e.observationRequired
  <2>1. OneActive(to, "complete")
    BY <1>1, <1>2, <1>5, FinishActive
  <2>2. QED
    BY <2>1 DEF OneActive, to
<1>6. QED
  BY <1>3, <1>4, <1>5

----------------------------------------------------------------------------
(* Records that are not closed yet                                          *)

\* A record that was not closed, with none of these events yet.
Ongoing(s) ==
  /\ DOMAIN s = Fields /\ DOMAIN s.counts = DOMAIN NoCounts /\ s.exitCode = Null
  /\ ~HasTerminalEvent(s, "run-completed")
  /\ \E q \in PhaseNames : OneActive(s.phases, q)

\* One that has taken the engine's results, and waits only for the end.
Reported(s) ==
  Ongoing(s) /\ HasTerminalEvent(s, "results-recorded") /\ OneActive(s.phases, "complete")

\* An event of an apply that is neither its results nor the end of the run.
Quiet(e) ==
  \/ e.type \in {"selection-completed", "stage-completed", "recovery-recorded"}
  \/ e.type = "phase-completed" /\ e.phase \in PhaseNames /\ e.status # "active"
  \/ e.type = "apply-completed" /\ e.status # "active"

LEMMA TookEvents ==
  ASSUME NEW r, NEW s, NEW e, NEW changed, Took(r, s, e, changed)
  PROVE  \A type : HasTerminalEvent(r, type) <=> HasTerminalEvent(s, type) \/ e.type = type
BY DEF Took, HasTerminalEvent

LEMMA QuietKept ==
  ASSUME NEW s, Ongoing(s), NEW e, Quiet(e), Accepts(s, e)
  PROVE  LET r == Reduce(s, e) IN
         /\ Ongoing(r) /\ r.results = s.results /\ r.write = s.write
         /\ HasTerminalEvent(r, "results-recorded") <=> HasTerminalEvent(s, "results-recorded")
<1> DEFINE r == Reduce(s, e)
<1>0. /\ DOMAIN s = Fields /\ DOMAIN s.counts = DOMAIN NoCounts /\ s.exitCode = Null
      /\ ~HasTerminalEvent(s, "run-completed")
  BY DEF Ongoing
<1>1. CASE r = s
  BY <1>1
<1>2. ASSUME NEW changed \in SUBSET {"phases", "counts", "owner", "recovery"},
             Took(r, s, e, changed), DOMAIN r.counts = DOMAIN NoCounts,
             \E q \in PhaseNames : OneActive(r.phases, q)
      PROVE  /\ Ongoing(r) /\ r.results = s.results /\ r.write = s.write
             /\ HasTerminalEvent(r, "results-recorded")
                  <=> HasTerminalEvent(s, "results-recorded")
  <2>1. /\ DOMAIN r = Fields /\ r.exitCode = s.exitCode /\ r.results = s.results
        /\ r.write = s.write
    BY <1>2 DEF Took, Edited, Fields
  <2>2. e.type \notin {"run-completed", "results-recorded"}
    BY DEF Quiet
  <2>3. \A type : HasTerminalEvent(r, type) <=> HasTerminalEvent(s, type) \/ e.type = type
    BY <1>2, TookEvents
  <2> HIDE DEF r
  <2>4. QED
    BY <1>0, <1>2, <2>1, <2>2, <2>3 DEF Ongoing
<1>3. PICK q \in PhaseNames : OneActive(s.phases, q)
  BY DEF Ongoing
<1>4. CASE e.type = "selection-completed"
  <2>1. CASE /\ SelectionAllowed(s, e)
             /\ Took(r, s, e, {"phases", "counts", "owner"})
             /\ r.phases = AdvanceFromReview([s.phases EXCEPT !["review"] = "passed"], s.write)
             /\ DOMAIN r.counts = DOMAIN NoCounts
    <3>1. OneActive(s.phases, "review")
      BY <1>3, <2>1 DEF SelectionAllowed, OneActive, PhaseNames
    <3>2. OneActive(r.phases, IF s.write THEN "preflight" ELSE "complete")
      BY <2>1, <3>1, AdvanceActive
    <3>3. \E x \in PhaseNames : OneActive(r.phases, x)
      BY <3>2 DEF OneActive
    <3>4. QED
      BY <1>2, <2>1, <3>3
  <2>2. QED
    BY <1>0, <1>1, <1>4, <2>1, ReduceSelection
<1>5. CASE e.type = "phase-completed"
  <2> DEFINE ph == IF e.phase = "resolve" THEN ActivateResolution(s.phases) ELSE s.phases
  <2>1. CASE /\ PhaseAllowed(s, e) /\ Took(r, s, e, {"phases"})
             /\ r.phases = CompleteAndAdvance(ph, e.phase, e.status, s.write)
    <3>1. OneActive(ph, e.phase) /\ e.phase # "complete"
      <4>1. e.phase \in PhaseNames /\ e.phase # "complete"
        BY <1>5, <2>1 DEF Quiet, PhaseAllowed
      <4>2. CASE e.phase = "resolve"
        BY <1>3, <2>1, <4>1, <4>2, ActivateActive DEF PhaseAllowed
      <4>3. CASE e.phase # "resolve"
        BY <1>3, <2>1, <4>1, <4>3 DEF PhaseAllowed, OneActive
      <4>4. QED
        BY <4>1, <4>2, <4>3
    <3>2. e.status # "active"
      BY <1>5 DEF Quiet
    <3>3. \E x \in PhaseNames : OneActive(r.phases, x)
      BY <2>1, <3>1, <3>2, CompleteActive
    <3>4. DOMAIN r.counts = DOMAIN NoCounts
      BY <1>0, <2>1 DEF Took, Edited, Fields
    <3>5. QED
      BY <1>2, <2>1, <3>3, <3>4
  <2>2. QED
    BY <1>0, <1>1, <1>5, <2>1, ReducePhaseCompleted
<1>6. CASE e.type = "stage-completed"
  <2>1. CASE /\ s.phases["stage"] = "active" /\ Took(r, s, e, {"phases"})
             /\ r.phases = StageSkipped(s.phases, e)
    <3>1. OneActive(s.phases, "stage")
      BY <1>3, <2>1 DEF OneActive, PhaseNames, WritePhases
    <3>2. \E x \in PhaseNames : OneActive(r.phases, x)
      BY <2>1, <3>1, StageActive
    <3>3. DOMAIN r.counts = DOMAIN NoCounts
      BY <1>0, <2>1 DEF Took, Edited, Fields
    <3>4. QED
      BY <1>2, <2>1, <3>2, <3>3
  <2>2. QED
    BY <1>0, <1>1, <1>6, <2>1, ReduceStage
<1>7. CASE e.type = "apply-completed"
  <2>1. CASE /\ ApplyAllowed(s, e) /\ Took(r, s, e, {"phases"})
             /\ r.phases = ApplyEnded(s.phases, e)
    <3>1. OneActive(s.phases, "apply") /\ e.status # "active"
      BY <1>3, <1>7, <2>1 DEF OneActive, PhaseNames, WritePhases, ApplyAllowed, Quiet
    <3>2. \E x \in PhaseNames : OneActive(r.phases, x)
      BY <2>1, <3>1, ApplyActive
    <3>3. DOMAIN r.counts = DOMAIN NoCounts
      BY <1>0, <2>1 DEF Took, Edited, Fields
    <3>4. QED
      BY <1>2, <2>1, <3>2, <3>3
  <2>2. QED
    BY <1>0, <1>1, <1>7, <2>1, ReduceApply
<1>8. CASE e.type = "recovery-recorded"
  <2>1. CASE Took(r, s, e, {"recovery"})
    <3>1. r.phases = s.phases /\ DOMAIN r.counts = DOMAIN NoCounts
      BY <1>0, <2>1 DEF Took, Edited, Fields
    <3>2. QED
      BY <1>2, <1>3, <2>1, <3>1
  <2>2. QED
    BY <1>0, <1>1, <1>8, <2>1, ReduceRecovery
<1>9. QED
  BY <1>4, <1>5, <1>6, <1>7, <1>8 DEF Quiet

----------------------------------------------------------------------------
(* Emissions: the record that took every event, or that refused one         *)

\* A record that took every event so far, and one that refused one.
Onward(x) == [state |-> x, ok |-> TRUE]
Halted(x) == [state |-> x, ok |-> FALSE]

LEMMA EmittedStep ==
  ASSUME NEW x, NEW e
  PROVE  /\ Accepts(x, e) => Emitted(Onward(x), e) = Onward(Reduce(x, e))
         /\ ~Accepts(x, e) => Emitted(Onward(x), e) = Halted(x)
         /\ Emitted(Halted(x), e) = Halted(x)
<1>1. ASSUME Accepts(x, e) PROVE Emitted(Onward(x), e) = Onward(Reduce(x, e))
  <2>1. Emitted(Onward(x), e) = [Onward(x) EXCEPT !.state = Reduce(@, e)]
    BY <1>1 DEF Emitted, Onward
  <2>2. QED
    BY <2>1 DEF Onward
<1>2. ASSUME ~Accepts(x, e) PROVE Emitted(Onward(x), e) = Halted(x)
  <2>1. Emitted(Onward(x), e) = [Onward(x) EXCEPT !.ok = FALSE]
    BY <1>2 DEF Emitted, Onward
  <2>2. QED
    BY <2>1 DEF Onward, Halted
<1>3. Emitted(Halted(x), e) = Halted(x)
  <2>1. Emitted(Halted(x), e) = [Halted(x) EXCEPT !.ok = FALSE]
    BY DEF Emitted, Halted
  <2>2. QED
    BY <2>1 DEF Halted
<1>4. QED
  BY <1>1, <1>2, <1>3

LEMMA EmittedFields ==
  /\ \A x : Onward(x).state = x /\ Onward(x).ok = TRUE
  /\ \A x : Halted(x).state = x /\ Halted(x).ok = FALSE
<1>1. \A x : Onward(x).state = x /\ Halted(x).state = x
  BY DEF Onward, Halted
<1>2. \A x : Onward(x).ok = TRUE
  BY DEF Onward
<1>3. \A x : Halted(x).ok = FALSE
  BY DEF Halted
<1>4. QED
  BY <1>1, <1>2, <1>3

LEMMA EmitNone == ASSUME NEW s PROVE Emit(s, <<>>) = Onward(s)
<1>1. Len(<<>>) = 0
  OBVIOUS
<1>2. PICK f : f[0] = Onward(s) /\ Emit(s, <<>>) = f[0]
  BY <1>1, EmitTraced DEF Onward
<1>3. QED
  BY <1>2

\* m is x told one more event.
OneMore(m, x, e) ==
  \/ Accepts(x, e) /\ m = Onward(Reduce(x, e))
  \/ ~Accepts(x, e) /\ m = Halted(x)

\* m is what n came to, told one more event.
OneMoreAfter(m, n, e) ==
  \/ \E x : n = Onward(x) /\ OneMore(m, x, e)
  \/ \E x : n = Halted(x) /\ m = Halted(x)

\* Events before the last one.
LEMMA EmitLast ==
  ASSUME NEW s, NEW first, IsSeq(first), NEW e
  PROVE  OneMoreAfter(Emit(s, first \o <<e>>), Emit(s, first), e)
<1> DEFINE n == Len(first)
           all == first \o <<e>>
           Any(m) == \E x : m = Onward(x) \/ m = Halted(x)
<1>1. n \in Nat /\ IsSeq(<<e>>) /\ Len(<<e>>) = 1 /\ <<e>>[1] = e
  BY SeqFacts
<1>2. Len(all) = n + 1 /\ \A i \in 1 .. n + 1 : all[i] = IF i <= n THEN first[i] ELSE <<e>>[i - n]
  BY <1>1, JoinedSeq
<1>3. all[n + 1] = e /\ \A i \in 1..n : all[i] = first[i]
  BY <1>1, <1>2
<1> HIDE DEF all
<1>4. PICK f : /\ f[0] = Onward(s)
               /\ \A i \in 1..n : f[i] = Emitted(f[i - 1], first[i])
               /\ Emit(s, first) = f[n]
  BY <1>1, EmitTraced DEF Onward
<1>5. PICK g : /\ g[0] = Onward(s)
               /\ \A i \in 1 .. n + 1 : g[i] = Emitted(g[i - 1], all[i])
               /\ Emit(s, all) = g[n + 1]
  <2>1. Len(all) = n + 1 /\ Len(all) \in Nat
    BY <1>1, <1>2 DEF all
  <2>2. \E g : /\ g[0] = Onward(s)
              /\ \A i \in 1..Len(all) : g[i] = Emitted(g[i - 1], all[i])
              /\ Emit(s, all) = g[Len(all)]
    BY <2>1, EmitTraced DEF Onward
  <2>3. QED
    BY <2>1, <2>2
<1> DEFINE Has == {k \in Nat : k <= n => f[k] = g[k] /\ Any(f[k])}
<1>6. 0 \in Has
  BY <1>4, <1>5
<1>7. ASSUME NEW k \in Has PROVE k + 1 \in Has
  <2>1. SUFFICES ASSUME k + 1 <= n PROVE k + 1 \in Has
    OBVIOUS
  <2>2. f[k + 1] = Emitted(f[k], first[k + 1]) /\ g[k + 1] = Emitted(g[k], first[k + 1])
    BY <1>1, <1>3, <1>4, <1>5, <2>1
  <2>3. PICK x : f[k] = g[k] /\ (f[k] = Onward(x) \/ f[k] = Halted(x))
    BY <2>1
  <2>4. Any(f[k + 1])
    BY <2>2, <2>3, EmittedStep
  <2>5. QED
    BY <2>2, <2>3, <2>4
<1> HIDE DEF Has
<1>8. Has \in SUBSET Nat
  BY DEF Has
<1>9. n \in Has
  BY <1>1, <1>6, <1>7, <1>8, Induction
<1>10. f[n] = g[n] /\ Any(f[n])
  BY <1>1, <1>9 DEF Has
<1>11. g[n + 1] = Emitted(f[n], e)
  BY <1>1, <1>3, <1>5, <1>10
<1>12. PICK x : f[n] = Onward(x) \/ f[n] = Halted(x)
  BY <1>10
<1>13. QED
  BY <1>4, <1>5, <1>11, <1>12, EmittedStep DEF all, OneMore, OneMoreAfter

LEMMA Joins ==
  /\ \A s : IsSeq(s) => s \o <<>> = s /\ <<>> \o s = s
  /\ \A s, t, u : IsSeq(s) /\ IsSeq(t) /\ IsSeq(u) => (s \o t) \o u = s \o (t \o u)
  /\ \A d, e : <<d>> \o <<e>> = <<d, e>>
<1>1. ASSUME NEW s, IsSeq(s) PROVE s \o <<>> = s /\ <<>> \o s = s
  BY <1>1, ConcatEmptySeq DEF IsSeq
<1>2. ASSUME NEW s, NEW t, NEW u, IsSeq(s), IsSeq(t), IsSeq(u)
      PROVE  (s \o t) \o u = s \o (t \o u)
  <2>1. PICK S, T, U : s \in Seq(S) /\ t \in Seq(T) /\ u \in Seq(U)
    BY <1>2 DEF IsSeq
  <2>2. /\ s \in Seq(S \cup T \cup U) /\ t \in Seq(S \cup T \cup U)
        /\ u \in Seq(S \cup T \cup U)
    BY <2>1, SeqMonotonic
  <2>3. QED
    BY <2>2, ConcatAssociative
<1>3. ASSUME NEW d, NEW e PROVE <<d>> \o <<e>> = <<d, e>>
  <2>1. <<d>> \in Seq({d, e}) /\ <<e>> \in Seq({d, e}) /\ <<d, e>> \in Seq({d, e})
    OBVIOUS
  <2>2. Len(<<d>>) = 1 /\ Len(<<e>>) = 1 /\ Len(<<d, e>>) = 2
    OBVIOUS
  <2>3. /\ <<d>> \o <<e>> \in Seq({d, e}) /\ Len(<<d>> \o <<e>>) = 2
        /\ \A i \in 1..2 : (<<d>> \o <<e>>)[i] = IF i <= 1 THEN <<d>>[i] ELSE <<e>>[i - 1]
    BY <2>1, <2>2, ConcatProperties
  <2>4. (<<d>> \o <<e>>)[1] = d /\ (<<d>> \o <<e>>)[2] = e
    BY <2>3
  <2>5. \A i \in 1..2 : (<<d>> \o <<e>>)[i] = <<d, e>>[i]
    <3>1. \A i \in 1..2 : i = 1 \/ i = 2
      OBVIOUS
    <3>2. <<d, e>>[1] = d /\ <<d, e>>[2] = e
      OBVIOUS
    <3> DEFINE a == <<d>> \o <<e>>
               b == <<d, e>>
    <3>3. a[1] = b[1] /\ a[2] = b[2]
      BY <2>4, <3>2
    <3> HIDE DEF a, b
    <3>4. \A i \in 1..2 : a[i] = b[i]
      BY <3>1, <3>3
    <3>5. QED
      BY <3>4 DEF a, b
  <2> DEFINE a == <<d>> \o <<e>>
             b == <<d, e>>
  <2>6. /\ a \in Seq({d, e}) /\ b \in Seq({d, e}) /\ Len(a) = Len(b) /\ Len(a) = 2
        /\ \A i \in 1..2 : a[i] = b[i]
    BY <2>1, <2>2, <2>3, <2>5
  <2> HIDE DEF a, b
  <2>7. a = b
    BY <2>6, SeqEqual
  <2>8. QED
    BY <2>7 DEF a, b
<1>4. QED
  BY <1>1, <1>2, <1>3

LEMMA EmitOne == ASSUME NEW s, NEW e PROVE OneMore(Emit(s, <<e>>), s, e)
<1>1. PICK none : none = <<>>
  OBVIOUS
<1>2. IsSeq(none) /\ IsSeq(<<e>>) /\ none \o <<e>> = <<e>>
  BY <1>1, SeqFacts, Joins
<1>3. OneMoreAfter(Emit(s, none \o <<e>>), Emit(s, none), e)
  BY <1>2, EmitLast
<1>4. OneMoreAfter(Emit(s, <<e>>), Onward(s), e)
  BY <1>1, <1>2, <1>3, EmitNone
<1>5. QED
  BY <1>4, EmittedFields DEF OneMoreAfter

LEMMA EmitTwo ==
  ASSUME NEW s, NEW d, NEW e
  PROVE  \/ Accepts(s, d) /\ OneMore(Emit(s, <<d, e>>), Reduce(s, d), e)
         \/ ~Accepts(s, d) /\ Emit(s, <<d, e>>) = Halted(s)
<1>1. PICK one : one = <<d>>
  OBVIOUS
<1>2. IsSeq(one)
  BY <1>1, SeqFacts
<1>3. one \o <<e>> = <<d, e>>
  BY <1>1, Joins
<1>4. OneMoreAfter(Emit(s, one \o <<e>>), Emit(s, one), e)
  BY <1>2, EmitLast
<1>5. OneMoreAfter(Emit(s, <<d, e>>), Emit(s, one), e)
  BY <1>3, <1>4
<1>6. OneMore(Emit(s, one), s, d)
  BY <1>1, EmitOne
<1>7. QED
  BY <1>5, <1>6, EmittedFields DEF OneMore, OneMoreAfter

\* Every event of a sequence is quiet.
AllQuiet(es) == IsSeq(es) /\ \A i \in 1..Len(es) : Quiet(es[i])

LEMMA QuietJoined ==
  ASSUME NEW s, NEW t, AllQuiet(s), AllQuiet(t)
  PROVE  AllQuiet(s \o t)
<1>1. IsSeq(s) /\ IsSeq(t) /\ Len(s) \in Nat /\ Len(t) \in Nat
  BY SeqFacts DEF AllQuiet
<1>2. /\ IsSeq(s \o t) /\ Len(s \o t) = Len(s) + Len(t)
      /\ \A i \in 1 .. Len(s) + Len(t) :
           (s \o t)[i] = IF i <= Len(s) THEN s[i] ELSE t[i - Len(s)]
  BY <1>1, JoinedSeq
<1>3. ASSUME NEW i \in 1 .. Len(s) + Len(t) PROVE Quiet((s \o t)[i])
  <2>1. CASE i <= Len(s)
    BY <1>1, <1>2, <2>1 DEF AllQuiet
  <2>2. CASE i > Len(s)
    <3>1. i - Len(s) \in 1..Len(t) /\ (s \o t)[i] = t[i - Len(s)]
      BY <1>1, <1>2, <2>2
    <3>2. QED
      BY <3>1 DEF AllQuiet
  <2>3. QED
    BY <1>1, <2>1, <2>2
<1>4. QED
  BY <1>2, <1>3 DEF AllQuiet

LEMMA QuietTuples ==
  /\ AllQuiet(<<>>)
  /\ \A a : Quiet(a) => AllQuiet(<<a>>)
  /\ \A a, b : Quiet(a) /\ Quiet(b) => AllQuiet(<<a, b>>)
<1>1. AllQuiet(<<>>)
  BY SeqFacts DEF AllQuiet
<1>2. ASSUME NEW a, Quiet(a) PROVE AllQuiet(<<a>>)
  <2>1. IsSeq(<<a>>) /\ Len(<<a>>) = 1 /\ <<a>>[1] = a
    BY SeqFacts
  <2>2. QED
    BY <1>2, <2>1 DEF AllQuiet
<1>3. ASSUME NEW a, NEW b, Quiet(a), Quiet(b) PROVE AllQuiet(<<a, b>>)
  <2>1. IsSeq(<<a, b>>) /\ Len(<<a, b>>) = 2 /\ <<a, b>>[1] = a /\ <<a, b>>[2] = b
    BY TupleSeqs
  <2>2. ASSUME NEW i \in 1..2 PROVE Quiet(<<a, b>>[i])
    <3>1. i = 1 \/ i = 2
      OBVIOUS
    <3>2. QED
      BY <1>3, <2>1, <3>1
  <2>3. QED
    BY <2>1, <2>2 DEF AllQuiet
<1>4. QED
  BY <1>1, <1>2, <1>3

\* A record that is not closed and has no results yet.
Untouched(x, s) == /\ Ongoing(x) /\ x.results = s.results /\ x.write = s.write
                   /\ ~HasTerminalEvent(x, "results-recorded")

\* A record that is told quiet events and then the results: it has the results
\* and only the run to complete, or it has none.
LEMMA ResultsTold ==
  ASSUME NEW s, Ongoing(s), ~HasTerminalEvent(s, "results-recorded"),
         NEW first, AllQuiet(first), NEW e, e.type = "results-recorded"
  PROVE  \E x : \/ /\ Emit(s, first \o <<e>>) = Onward(x)
                   /\ Reported(x) /\ x.results = e.operations /\ x.write = s.write
                \/ Emit(s, first \o <<e>>) = Halted(x) /\ Untouched(x, s)
<1>1. IsSeq(first) /\ Len(first) \in Nat
  BY SeqFacts DEF AllQuiet
<1>2. PICK x : Untouched(x, s) /\ (Emit(s, first) = Onward(x) \/ Emit(s, first) = Halted(x))
  <2>1. PICK f : /\ f[0] = Onward(s)
                 /\ \A i \in 1..Len(first) : f[i] = Emitted(f[i - 1], first[i])
                 /\ Emit(s, first) = f[Len(first)]
    BY <1>1, EmitTraced DEF Onward
  <2> DEFINE Good(m) == \E x : Untouched(x, s) /\ (m = Onward(x) \/ m = Halted(x))
             Has == {k \in Nat : k <= Len(first) => Good(f[k])}
  <2>2. 0 \in Has
    BY <2>1 DEF Untouched
  <2>3. ASSUME NEW k \in Has PROVE k + 1 \in Has
    <3>1. SUFFICES ASSUME k + 1 <= Len(first) PROVE k + 1 \in Has
      OBVIOUS
    <3>2. f[k + 1] = Emitted(f[k], first[k + 1]) /\ Quiet(first[k + 1])
      BY <1>1, <2>1, <3>1 DEF AllQuiet
    <3>3. PICK x : Untouched(x, s) /\ (f[k] = Onward(x) \/ f[k] = Halted(x))
      BY <3>1
    <3>4. Accepts(x, first[k + 1]) => Untouched(Reduce(x, first[k + 1]), s)
      BY <3>2, <3>3, QuietKept DEF Untouched
    <3>5. \/ f[k + 1] = Halted(x)
          \/ f[k + 1] = Onward(Reduce(x, first[k + 1])) /\ Accepts(x, first[k + 1])
      BY <3>2, <3>3, EmittedStep
    <3>6. Good(f[k + 1])
      BY <3>3, <3>4, <3>5
    <3>7. QED
      BY <3>6
  <2> HIDE DEF Has
  <2>4. Has \in SUBSET Nat
    BY DEF Has
  <2>5. Len(first) \in Has
    BY <1>1, <2>2, <2>3, <2>4, Induction
  <2>6. QED
    BY <1>1, <2>1, <2>5 DEF Has
<1>3. \/ OneMore(Emit(s, first \o <<e>>), x, e)
      \/ Emit(s, first \o <<e>>) = Halted(x)
  <2>1. OneMoreAfter(Emit(s, first \o <<e>>), Emit(s, first), e)
    BY <1>1, EmitLast
  <2>2. QED
    BY <1>2, <2>1, EmittedFields DEF OneMoreAfter
<1>4. CASE Accepts(x, e) /\ Emit(s, first \o <<e>>) = Onward(Reduce(x, e))
  <2> DEFINE r == Reduce(x, e)
  <2>1. /\ x.phases["complete"] = "active"
        /\ Took(r, x, e, {"results"}) /\ r.results = e.operations
    <3>1. e \notin x.events
      BY <1>2 DEF HasTerminalEvent, Untouched
    <3>2. DOMAIN x = Fields
      BY <1>2 DEF Ongoing, Untouched
    <3>3. QED
      BY <1>4, <3>1, <3>2, ReduceResults
  <2>2. /\ DOMAIN r = Fields /\ r.exitCode = x.exitCode /\ r.write = x.write
        /\ r.phases = x.phases /\ r.counts = x.counts
    BY <2>1 DEF Took, Edited, Fields
  <2>3. \A type : HasTerminalEvent(r, type) <=> HasTerminalEvent(x, type) \/ e.type = type
    BY <2>1, TookEvents
  <2>4. OneActive(x.phases, "complete")
    BY <1>2, <2>1 DEF Ongoing, OneActive, PhaseNames, Untouched
  <2>5. r.events # {}
    BY <2>1 DEF Took
  <2> HIDE DEF r
  <2>6. Reported(r)
    BY <1>2, <2>2, <2>3, <2>4 DEF Reported, Ongoing, OneActive, Untouched
  <2>7. Emit(s, first \o <<e>>) = Onward(r)
    BY <1>4 DEF r
  <2>8. QED
    BY <1>2, <2>1, <2>2, <2>5, <2>6, <2>7 DEF Untouched
<1>5. CASE Emit(s, first \o <<e>>) = Halted(x)
  BY <1>2, <1>5
<1>6. QED
  BY <1>3, <1>4, <1>5 DEF OneMore

----------------------------------------------------------------------------
(* The end of a run in which nothing was written                            *)

\* Events told after others.
LEMMA EmitJoined ==
  ASSUME NEW s, NEW a, NEW b, IsSeq(a), IsSeq(b), NEW x
  PROVE  /\ Emit(s, a) = Onward(x) => Emit(s, a \o b) = Emit(x, b)
         /\ Emit(s, a) = Halted(x) => Emit(s, a \o b) = Halted(x)
<1> DEFINE n == Len(a)
           k == Len(b)
           all == a \o b
<1>1. n \in Nat /\ k \in Nat /\ n + k \in Nat
  BY SeqFacts
<1>2. Len(all) = n + k /\ \A i \in 1 .. n + k : all[i] = IF i <= n THEN a[i] ELSE b[i - n]
  BY <1>1, JoinedSeq
<1>3. /\ \A i \in 1..n : all[i] = a[i] /\ i \in 1 .. n + k
      /\ \A i \in 1..k : all[n + i] = b[i] /\ n + i \in 1 .. n + k
  BY <1>1, <1>2
<1>4. PICK f : /\ f[0] = Onward(s)
               /\ \A i \in 1..n : f[i] = Emitted(f[i - 1], a[i])
               /\ Emit(s, a) = f[n]
  BY <1>1, EmitTraced DEF Onward
<1>5. PICK h : /\ h[0] = Onward(s)
               /\ \A i \in 1 .. n + k : h[i] = Emitted(h[i - 1], all[i])
               /\ Emit(s, all) = h[n + k]
  <2> DEFINE l == Len(all)
  <2>1. l = n + k /\ l \in Nat
    BY <1>1, <1>2 DEF all
  <2>2. PICK h : /\ h[0] = Onward(s)
                 /\ \A i \in 1..l : h[i] = Emitted(h[i - 1], all[i])
                 /\ Emit(s, all) = h[l]
    BY <2>1, EmitTraced DEF Onward
  <2> HIDE DEF l, all, k, n
  <2>3. \A i \in 1 .. n + k : h[i] = Emitted(h[i - 1], all[i])
    BY <2>1, <2>2
  <2>4. Emit(s, all) = h[n + k]
    BY <2>1, <2>2
  <2>5. QED
    BY <2>2, <2>3, <2>4
<1>6. PICK g : /\ g[0] = Onward(x)
               /\ \A i \in 1..k : g[i] = Emitted(g[i - 1], b[i])
               /\ Emit(x, b) = g[k]
  BY <1>1, EmitTraced DEF Onward
<1> HIDE DEF all
<1>7. f[n] = h[n]
  <2> DEFINE Has == {j \in Nat : j <= n => f[j] = h[j]}
  <2>1. 0 \in Has
    BY <1>4, <1>5
  <2>2. ASSUME NEW j \in Has PROVE j + 1 \in Has
    <3>1. SUFFICES ASSUME j + 1 <= n PROVE j + 1 \in Has
      OBVIOUS
    <3>2. f[j + 1] = Emitted(f[j], a[j + 1]) /\ h[j + 1] = Emitted(h[j], a[j + 1])
      BY <1>1, <1>3, <1>4, <1>5, <3>1
    <3>3. QED
      BY <3>1, <3>2
  <2> HIDE DEF Has
  <2>3. Has \in SUBSET Nat
    BY DEF Has
  <2>4. n \in Has
    BY <1>1, <2>1, <2>2, <2>3, Induction
  <2>5. QED
    BY <1>1, <2>4 DEF Has
<1>8. ASSUME f[n] = Onward(x) PROVE Emit(s, all) = Emit(x, b)
  <2> DEFINE Has == {j \in Nat : j <= k => g[j] = h[n + j]}
  <2>1. 0 \in Has
    <3>1. n + 0 = n
      BY <1>1
    <3>2. QED
      BY <1>1, <1>6, <1>7, <1>8, <3>1
  <2>2. ASSUME NEW j \in Has PROVE j + 1 \in Has
    <3>1. SUFFICES ASSUME j + 1 <= k PROVE j + 1 \in Has
      OBVIOUS
    <3>2. j + 1 \in 1..k /\ (n + (j + 1)) - 1 = n + j
      BY <1>1, <3>1
    <3>3. g[j + 1] = Emitted(g[j], b[j + 1]) /\ h[n + (j + 1)] = Emitted(h[n + j], b[j + 1])
      BY <1>3, <1>5, <1>6, <3>2
    <3>4. QED
      BY <3>1, <3>3
  <2> HIDE DEF Has
  <2>3. Has \in SUBSET Nat
    BY DEF Has
  <2>4. k \in Has
    BY <1>1, <2>1, <2>2, <2>3, Induction
  <2>5. g[k] = h[n + k]
    BY <1>1, <2>4 DEF Has
  <2>6. QED
    BY <1>5, <1>6, <2>5
<1>9. ASSUME f[n] = Halted(x) PROVE Emit(s, all) = Halted(x)
  <2> DEFINE Has == {j \in Nat : j <= k => h[n + j] = Halted(x)}
  <2>1. 0 \in Has
    <3>1. n + 0 = n
      BY <1>1
    <3>2. QED
      BY <1>1, <1>7, <1>9, <3>1
  <2>2. ASSUME NEW j \in Has PROVE j + 1 \in Has
    <3>1. SUFFICES ASSUME j + 1 <= k PROVE j + 1 \in Has
      OBVIOUS
    <3>2. j + 1 \in 1..k /\ (n + (j + 1)) - 1 = n + j
      BY <1>1, <3>1
    <3>3. h[n + (j + 1)] = Emitted(h[n + j], b[j + 1])
      BY <1>3, <1>5, <3>2
    <3>4. QED
      BY <3>1, <3>3, EmittedStep
  <2> HIDE DEF Has
  <2>3. Has \in SUBSET Nat
    BY DEF Has
  <2>4. k \in Has
    BY <1>1, <2>1, <2>2, <2>3, Induction
  <2>5. h[n + k] = Halted(x)
    BY <1>1, <2>4 DEF Has
  <2>6. QED
    BY <1>5, <2>5
<1>10. QED
  BY <1>4, <1>8, <1>9 DEF all

----------------------------------------------------------------------------
(* Records that say that nothing was written                                *)

\* A record without results in which nothing was written and only the end of
\* the run is active.
Clean(s) ==
  /\ Ongoing(s) /\ OneActive(s.phases, "complete")
  /\ ~HasTerminalEvent(s, "results-recorded")
  /\ \A p \in {"stage", "apply", "observe", "recover"} : s.phases[p] = "skipped"
  /\ s.phases["preflight"] \in {"skipped", "failed"}
  /\ s.recovery.executed = FALSE /\ s.recovery.status = "not-needed"

LEMMA NotAttemptedTold ==
  ASSUME NEW s
  PROVE  LET e == NotAttemptedResults(s) IN
         /\ e.type = "results-recorded"
         /\ DOMAIN e.operations = DOMAIN s.owner /\ DOMAIN e.targets = Targets(s.owner)
         /\ \A o \in DOMAIN s.owner :
              e.operations[o] = [outcome |-> "not-attempted", blocked |-> FALSE,
                                 notAttempted |-> TRUE, unknown |-> FALSE, reason |-> "none"]
         /\ \A t \in Targets(s.owner) :
              e.targets[t] = TargetOf(Members(s.owner, t), e.operations)
BY DEF NotAttemptedResults, ResultsRecorded

LEMMA NotAttemptedTarget ==
  ASSUME NEW owner, NEW ops, NEW t \in Targets(owner),
         \A o \in DOMAIN owner :
           ops[o] = [outcome |-> "not-attempted", blocked |-> FALSE,
                     notAttempted |-> TRUE, unknown |-> FALSE, reason |-> "none"]
  PROVE  TargetAllowed(TargetOf(Members(owner, t), ops))
<1> DEFINE ms == Members(owner, t)
           r == TargetOf(ms, ops)
<1>1. ms # {} /\ ms \subseteq DOMAIN owner
  BY DEF Targets, Members
<1>2. {ops[o].outcome : o \in ms} = {"not-attempted"}
  BY <1>1
<1>3. Cardinality({"not-attempted"}) = 1
  BY FS_Singleton
<1>4. (CHOOSE x \in {"not-attempted"} : TRUE) = "not-attempted"
  OBVIOUS
<1> DEFINE b == \E o \in ms : ops[o].blocked
           n == \E o \in ms : ops[o].notAttempted
           u == \E o \in ms : ops[o].unknown
<1>5. ~b /\ n /\ ~u
  BY <1>1
<1>6. r = [outcome |-> "not-attempted", blocked |-> b, notAttempted |-> n, unknown |-> u]
  BY <1>2, <1>3, <1>4 DEF TargetOf
<1> HIDE DEF b, n, u, ms
<1>7. r.outcome = "not-attempted"
  BY <1>6
<1>8. r.blocked = b
  BY <1>6
<1>9. r.notAttempted = n
  BY <1>6
<1>10. r.unknown = u
  BY <1>6
<1> HIDE DEF r
<1>11. QED
  BY <1>5, <1>7, <1>8, <1>9, <1>10 DEF TargetAllowed, r, ms

\* Nothing was attempted, says the end of a run in which nothing was.
LEMMA CleanTakesNothing ==
  ASSUME NEW s, Clean(s), NEW rec, rec.owner = s.owner
  PROVE  ResultsAllowed(s, NotAttemptedResults(rec))
<1> DEFINE e == NotAttemptedResults(rec)
           ops == e.operations
           targets == e.targets
<1>1. /\ e.type = "results-recorded"
      /\ DOMAIN ops = DOMAIN s.owner /\ DOMAIN targets = Targets(s.owner)
      /\ \A o \in DOMAIN s.owner :
           ops[o] = [outcome |-> "not-attempted", blocked |-> FALSE,
                     notAttempted |-> TRUE, unknown |-> FALSE, reason |-> "none"]
      /\ \A t \in Targets(s.owner) : targets[t] = TargetOf(Members(s.owner, t), ops)
  BY NotAttemptedTold
<1> HIDE DEF e, ops, targets
<1>2. \A o \in DOMAIN ops : OperationAllowed(ops[o], s.write)
  BY <1>1 DEF OperationAllowed
<1>3. \A t \in DOMAIN targets : TargetAllowed(targets[t])
  BY <1>1, NotAttemptedTarget
<1>4. /\ \A x \in {"applied", "skipped", "blocked", "failed", "reverted", "unknown"} :
           Outcomes(ops, x) = {}
      /\ Blocked(ops) = {} /\ Unknown(ops) = {} /\ NotAttempted(ops) = DOMAIN ops
      /\ \A o \in DOMAIN ops : ops[o].outcome = "not-attempted"
  BY <1>1 DEF Outcomes, Blocked, Unknown, NotAttempted
<1> DEFINE ph == s.phases
<1>5. /\ ph["apply"] = "skipped" /\ ph["stage"] = "skipped" /\ ph["observe"] = "skipped"
      /\ ph["recover"] = "skipped" /\ ph["preflight"] \in {"skipped", "failed"}
      /\ s.recovery.executed = FALSE /\ s.recovery.status = "not-needed"
  BY DEF Clean
<1> HIDE DEF ph
<1>6. ~ZeroMutation(ph)
  BY <1>5 DEF ZeroMutation, NoObservationApplyFailure, NoObservationEarlyFailure
<1>7. SkippedCoherent(ph, ops)
  BY <1>4, <1>5 DEF SkippedCoherent
<1>8. RecoveryCoherent(s, ops, targets)
  BY <1>5 DEF RecoveryCoherent, ph
<1>9. ZeroMutationCoherent(ph, ops)
  BY <1>6 DEF ZeroMutationCoherent
<1>10. ResultsFitPhases(s, ops, targets)
  BY <1>4, <1>5, <1>7, <1>8, <1>9 DEF ResultsFitPhases, ph
<1>11. ops = e.operations /\ targets = e.targets
  BY DEF ops, targets
<1>12. QED
  BY <1>1, <1>2, <1>3, <1>10, <1>11 DEF ResultsAllowed, e

\* The end of a run is taken by a record that has the results.
LEMMA ReportedCloses ==
  ASSUME NEW s, Reported(s)
  PROVE  \E x : Emit(s, <<RunCompleted(2)>>) = Onward(x) /\ x.exitCode = 2 /\ x.results = s.results
<1> DEFINE e == RunCompleted(2)
           r == Reduce(s, e)
<1>1. e.type = "run-completed" /\ e.exitCode = 2
  BY DEF RunCompleted
<1> HIDE DEF e
<1>2. /\ DOMAIN s = Fields /\ s.exitCode = Null /\ s.phases["complete"] = "active"
      /\ ~HasTerminalEvent(s, "run-completed") /\ HasTerminalEvent(s, "results-recorded")
  BY DEF Reported, Ongoing, OneActive
<1>3. ~Repeats(s, e) /\ e \notin s.events
  BY <1>1, <1>2 DEF Repeats, HasTerminalEvent, TerminalEventId
<1>4. CompletionAllowed(s, e)
  BY <1>1, <1>2 DEF CompletionAllowed
<1>5. IsOpen(s)
  BY <1>2 DEF IsOpen
<1>6. Accepts(s, e)
  BY <1>1, <1>3, <1>4, <1>5 DEF Accepts
<1>7. r.exitCode = 2 /\ r.results = s.results
  BY <1>1, <1>2, <1>3, <1>6, ReduceRunCompleted DEF Took, Edited, Fields
<1>8. OneMore(Emit(s, <<e>>), s, e)
  BY EmitOne
<1>9. QED
  BY <1>6, <1>7, <1>8 DEF OneMore, e

----------------------------------------------------------------------------
(* The record of a run before its write                                     *)

\* The phases before a selection, and those of a record with no results.
Undecided == {"discover", "inspect", "resolve", "review"}
Early     == Undecided \cup {"preflight", "complete"}

\* The phases of a run that went well up to phase q, before any write; its
\* inspection passed or was skipped.
Behind(q) ==
  CASE q = "discover" -> {} [] q = "inspect" -> {"discover"}
    [] q = "resolve" -> {"discover", "inspect"}
    [] q = "review" -> {"discover", "inspect", "resolve"} [] OTHER -> Undecided
PhasesAt(q, i) ==
  [p \in PhaseNames |-> IF p = q THEN "active"
                        ELSE IF p \in Behind(q) THEN (IF p = "inspect" THEN i ELSE "passed")
                        ELSE IF q = "complete" THEN "skipped" ELSE "pending"]
Inspected == {"passed", "skipped"}

\* The events that are taken once before a write.
Openers == {"packages-discovered", "repository-inspection-completed",
            "resolution-completed", "selection-completed"}

\* A record that went well up to phase q.
Young(s, q) ==
  /\ DOMAIN s = Fields /\ DOMAIN s.counts = DOMAIN NoCounts /\ s.exitCode = Null
  /\ s.results = <<>> /\ s.recovery.executed = FALSE /\ s.recovery.status = "not-needed"
  /\ q \in Early /\ \E i \in Inspected : s.phases = PhasesAt(q, i)
  /\ \A d \in s.events : d.type \in Openers
  /\ q \in Undecided => /\ s.owner = <<>>
                        /\ \A d \in s.events : d.type # "selection-completed"

\* An event that opens a run, before its selection.
Opens(e) ==
  \/ e.type \in {"packages-discovered", "repository-inspection-started"}
  \/ e.type \in {"repository-inspection-completed", "resolution-completed"}
       /\ e.status = "passed"

LEMMA PhasesActive ==
  ASSUME NEW q \in Early, NEW i \in Inspected
  PROVE  OneActive(PhasesAt(q, i), q)
<1>1. DOMAIN PhasesAt(q, i) = PhaseNames
  BY DEF PhasesAt
<1>2. q \in PhaseNames
  BY DEF Early, Undecided, PhaseNames, WritePhases
<1>3. \A p \in PhaseNames : PhasesAt(q, i)[p] = "active" <=> p = q
  BY <1>2 DEF PhasesAt, Inspected
<1>4. QED
  BY <1>1, <1>2, <1>3 DEF OneActive

LEMMA YoungOngoing ==
  ASSUME NEW s, NEW q, Young(s, q)
  PROVE  Ongoing(s) /\ \A type : type \notin Openers => ~HasTerminalEvent(s, type)
<1>1. OneActive(s.phases, q) /\ q \in PhaseNames
  BY PhasesActive DEF Young, OneActive
<1>2. \A type : type \notin Openers => ~HasTerminalEvent(s, type)
  BY DEF Young, HasTerminalEvent
<1>3. "run-completed" \notin Openers
  BY DEF Openers
<1>4. QED
  BY <1>1, <1>2, <1>3 DEF Young, Ongoing

LEMMA PhaseAdvances ==
  ASSUME NEW w, NEW i \in Inspected
  PROVE
  /\ CompleteAndAdvance(PhasesAt("discover", i), "discover", "passed", w) = PhasesAt("inspect", i)
  /\ CompleteAndAdvance(PhasesAt("inspect", i), "inspect", "passed", w)
       = PhasesAt("resolve", "passed")
  /\ CompleteAndAdvance(PhasesAt("resolve", i), "resolve", "passed", w) = PhasesAt("review", i)
  /\ ActivateResolution(PhasesAt("resolve", i)) = PhasesAt("resolve", i)
  /\ ActivateResolution(PhasesAt("inspect", i)) = PhasesAt("resolve", "skipped")
<1>1. \A ph, q : q \in {"discover", "inspect", "resolve"} =>
        CompleteAndAdvance(ph, q, "passed", w)
          = [[ph EXCEPT ![q] = "passed"] EXCEPT ![After[q]] = "active"]
  BY DEF CompleteAndAdvance
<1>2. /\ After["discover"] = "inspect" /\ After["inspect"] = "resolve"
      /\ After["resolve"] = "review"
  BY DEF After
<1>3. [[PhasesAt("discover", i) EXCEPT !["discover"] = "passed"] EXCEPT !["inspect"] = "active"]
        = PhasesAt("inspect", i)
  BY DEF PhasesAt, Behind, PhaseNames, WritePhases
<1>4. [[PhasesAt("inspect", i) EXCEPT !["inspect"] = "passed"] EXCEPT !["resolve"] = "active"]
        = PhasesAt("resolve", "passed")
  BY DEF PhasesAt, Behind, PhaseNames, WritePhases
<1>5. [[PhasesAt("resolve", i) EXCEPT !["resolve"] = "passed"] EXCEPT !["review"] = "active"]
        = PhasesAt("review", i)
  BY DEF PhasesAt, Behind, PhaseNames, WritePhases
<1>6. ActivateResolution(PhasesAt("resolve", i)) = PhasesAt("resolve", i)
  BY DEF ActivateResolution, PhasesAt, Behind, PhaseNames, WritePhases, Inspected
<1>7. ActivateResolution(PhasesAt("inspect", i)) = PhasesAt("resolve", "skipped")
  <2>1. ActivateResolution(PhasesAt("inspect", i))
          = [[PhasesAt("inspect", i) EXCEPT !["inspect"] = "skipped"] EXCEPT !["resolve"] = "active"]
    <3>1. PhasesAt("inspect", i)["inspect"] = "active"
      BY DEF PhasesAt, PhaseNames
    <3>2. QED
      BY <3>1 DEF ActivateResolution
  <2>2. QED
    BY <2>1 DEF PhasesAt, Behind, PhaseNames, WritePhases
<1>8. CompleteAndAdvance(PhasesAt("discover", i), "discover", "passed", w)
        = PhasesAt("inspect", i)
  BY <1>1, <1>2, <1>3
<1>9. CompleteAndAdvance(PhasesAt("inspect", i), "inspect", "passed", w)
        = PhasesAt("resolve", "passed")
  BY <1>1, <1>2, <1>4
<1>10. CompleteAndAdvance(PhasesAt("resolve", i), "resolve", "passed", w)
         = PhasesAt("review", i)
  BY <1>1, <1>2, <1>5
<1>11. QED
  BY <1>6, <1>7, <1>8, <1>9, <1>10

LEMMA ReviewAdvances ==
  ASSUME NEW w, NEW i \in Inspected
  PROVE  AdvanceFromReview([PhasesAt("review", i) EXCEPT !["review"] = "passed"], w)
           = PhasesAt(IF w THEN "preflight" ELSE "complete", i)
<1> DEFINE done == [PhasesAt("review", i) EXCEPT !["review"] = "passed"]
<1>1. done = [p \in PhaseNames |-> IF p = "inspect" THEN i
                                   ELSE IF p \in Undecided THEN "passed" ELSE "pending"]
  BY DEF PhasesAt, Behind, PhaseNames, WritePhases, Undecided
<1> HIDE DEF done
<1>2. CASE w
  <2>1. AdvanceFromReview(done, w) = [done EXCEPT !["preflight"] = "active"]
    BY <1>2 DEF AdvanceFromReview
  <2>2. [done EXCEPT !["preflight"] = "active"] = PhasesAt("preflight", i)
    BY <1>1 DEF PhasesAt, Behind, PhaseNames, WritePhases, Undecided
  <2>3. QED
    BY <1>2, <2>1, <2>2 DEF done
<1>3. CASE ~w
  <2>1. AdvanceFromReview(done, w) = Finish(done)
    BY <1>3 DEF AdvanceFromReview
  <2>2. Finish(done) = PhasesAt("complete", i)
    BY <1>1 DEF PhasesAt, Behind, PhaseNames, WritePhases, Undecided, Finish, Inspected
  <2>3. QED
    BY <1>3, <2>1, <2>2 DEF done
<1>4. QED
  BY <1>2, <1>3

\* An undecided record stays so as the run opens.
LEMMA OpeningKept ==
  ASSUME NEW s, NEW q \in Undecided, Young(s, q), NEW e, Opens(e), Accepts(s, e)
  PROVE  /\ Reduce(s, e).write = s.write
         /\ \E n \in Undecided : Young(Reduce(s, e), n)
<1> DEFINE r == Reduce(s, e)
<1>0. PICK i \in Inspected : /\ s.phases = PhasesAt(q, i) /\ OneActive(PhasesAt(q, i), q)
                             /\ DOMAIN s = Fields /\ DOMAIN s.counts = DOMAIN NoCounts
  BY PhasesActive DEF Young, Early
<1>1. CASE r = s
  BY <1>1
<1>2. ASSUME NEW n \in Undecided, NEW j \in Inspected, r.phases = PhasesAt(n, j),
             Took(r, s, e, {"phases", "counts"}), DOMAIN r.counts = DOMAIN NoCounts,
             e.type \in Openers \ {"selection-completed"}
      PROVE  r.write = s.write /\ \E x \in Undecided : Young(r, x)
  <2>1. /\ DOMAIN r = Fields /\ r.exitCode = s.exitCode /\ r.results = s.results
        /\ r.write = s.write /\ r.owner = s.owner /\ r.recovery = s.recovery
        /\ r.events = s.events \cup {e}
    BY <1>2 DEF Took, Edited, Fields
  <2> HIDE DEF r
  <2>2. Young(r, n)
    BY <1>2, <2>1 DEF Young, Early
  <2>3. QED
    BY <2>1, <2>2
<1>3. CASE e.type = "packages-discovered"
  <2>1. CASE /\ s.phases["discover"] = "active" /\ Took(r, s, e, {"phases", "counts"})
             /\ r.phases = CompleteAndAdvance(s.phases, "discover", "passed", s.write)
             /\ r.counts = [s.counts EXCEPT !.packages = e.packages, !.declared = e.declared]
    <3>1. q = "discover"
      BY <1>0, <2>1 DEF OneActive, PhaseNames
    <3>2. r.phases = PhasesAt("inspect", i)
      BY <1>0, <2>1, <3>1, PhaseAdvances
    <3>3. DOMAIN r.counts = DOMAIN NoCounts
      BY <1>0, <2>1
    <3>4. QED
      BY <1>2, <1>3, <2>1, <3>2, <3>3 DEF Undecided, Openers
  <2>2. QED
    BY <1>0, <1>1, <1>3, <2>1, ReduceDiscovered
<1>4. CASE e.type = "repository-inspection-started"
  BY <1>1, <1>4, ReduceStarted
<1>5. CASE e.type = "repository-inspection-completed"
  <2>1. CASE /\ s.phases["inspect"] = "active" /\ Took(r, s, e, {"phases"})
             /\ r.phases = CompleteAndAdvance(s.phases, "inspect", e.status, s.write)
    <3>1. q = "inspect"
      BY <1>0, <2>1 DEF OneActive, PhaseNames
    <3>2. r.phases = PhasesAt("resolve", "passed")
      BY <1>0, <1>5, <2>1, <3>1, PhaseAdvances DEF Opens
    <3>3. /\ DOMAIN r.counts = DOMAIN NoCounts
          /\ Took(r, s, e, {"phases", "counts"})
      BY <1>0, <2>1 DEF Took, Edited, Fields
    <3>4. QED
      BY <1>2, <1>5, <3>2, <3>3 DEF Undecided, Openers, Inspected
  <2>2. QED
    BY <1>0, <1>1, <1>5, <2>1, ReduceInspected
<1>6. CASE e.type = "resolution-completed"
  <2>1. CASE /\ ResolutionAllowed(s, e) /\ Took(r, s, e, {"phases", "counts"})
             /\ r.phases = CompleteAndAdvance(ActivateResolution(s.phases), "resolve",
                                              e.status, s.write)
             /\ r.counts = [s.counts EXCEPT !.eligible = e.eligible,
                              !.updates = e.updates, !.unresolved = e.unresolved]
    <3>1. q = "resolve" \/ q = "inspect"
      BY <1>0, <2>1 DEF OneActive, PhaseNames, ResolutionAllowed, ActivateResolution
    <3>2. CASE q = "resolve"
      <4>1. r.phases = PhasesAt("review", i)
        BY <1>0, <1>6, <2>1, <3>2, PhaseAdvances DEF Opens
      <4>2. DOMAIN r.counts = DOMAIN NoCounts
        BY <1>0, <2>1
      <4>3. QED
        BY <1>2, <1>6, <2>1, <4>1, <4>2 DEF Undecided, Openers
    <3>3. CASE q = "inspect"
      <4>1. r.phases = PhasesAt("review", "skipped")
        BY <1>0, <1>6, <2>1, <3>3, PhaseAdvances DEF Opens, Inspected
      <4>2. DOMAIN r.counts = DOMAIN NoCounts
        BY <1>0, <2>1
      <4>3. QED
        BY <1>2, <1>6, <2>1, <4>1, <4>2 DEF Undecided, Openers, Inspected
    <3>4. QED
      BY <3>1, <3>2, <3>3
  <2>2. QED
    BY <1>0, <1>1, <1>6, <2>1, ReduceResolved
<1>7. QED
  BY <1>3, <1>4, <1>5, <1>6 DEF Opens

\* The selection of an undecided record is its decision.
LEMMA SelectionKept ==
  ASSUME NEW s, NEW q \in Undecided, Young(s, q), NEW owner, Accepts(s, SelectionCompleted(owner))
  PROVE  LET r == Reduce(s, SelectionCompleted(owner)) IN
         /\ r.write = s.write /\ r.owner = owner
         /\ Young(r, IF s.write THEN "preflight" ELSE "complete")
<1> DEFINE e == SelectionCompleted(owner)
           r == Reduce(s, e)
           n == IF s.write THEN "preflight" ELSE "complete"
<1>1. PICK i \in Inspected : s.phases = PhasesAt(q, i) /\ OneActive(PhasesAt(q, i), q)
  BY PhasesActive DEF Young, Early
<1>2. DOMAIN s = Fields /\ DOMAIN s.counts = DOMAIN NoCounts /\ e \notin s.events
  BY DEF Young, SelectionCompleted
<1>3. e.type = "selection-completed" /\ e.owner = owner
  BY DEF SelectionCompleted
<1> HIDE DEF e
<1>4. /\ SelectionAllowed(s, e)
      /\ Took(r, s, e, {"phases", "counts", "owner"})
      /\ r.phases = AdvanceFromReview([s.phases EXCEPT !["review"] = "passed"], s.write)
      /\ r.owner = owner /\ DOMAIN r.counts = DOMAIN NoCounts
  BY <1>2, <1>3, ReduceSelection DEF e
<1>5. q = "review"
  BY <1>1, <1>4 DEF SelectionAllowed, OneActive, PhaseNames
<1>6. r.phases = PhasesAt(n, i)
  BY <1>1, <1>4, <1>5, ReviewAdvances
<1>7. /\ DOMAIN r = Fields /\ r.exitCode = s.exitCode /\ r.results = s.results
      /\ r.write = s.write /\ r.recovery = s.recovery /\ r.events = s.events \cup {e}
  BY <1>4 DEF Took, Edited, Fields
<1>8. n \in Early \ Undecided
  BY DEF Early, Undecided
<1> HIDE DEF r, n
<1>9. Young(r, n)
  BY <1>1, <1>3, <1>4, <1>6, <1>7, <1>8 DEF Young, Openers
<1>10. QED
  BY <1>4, <1>7, <1>9 DEF r, n, e

----------------------------------------------------------------------------
(* The end of a record                                                      *)

LEMMA CompletionTold ==
  ASSUME NEW s, Reported(s), NEW code
  PROVE  LET m == Emit(s, <<RunCompleted(code)>>) IN
         \/ m = Halted(s)
         \/ \E x : m = Onward(x) /\ x.exitCode = code /\ x.results = s.results
<1> DEFINE e == RunCompleted(code)
           r == Reduce(s, e)
<1>1. e.type = "run-completed" /\ e.exitCode = code
  BY DEF RunCompleted
<1>2. DOMAIN s = Fields /\ e \notin s.events
  BY <1>1 DEF Reported, Ongoing, HasTerminalEvent
<1>3. OneMore(Emit(s, <<e>>), s, e)
  BY EmitOne
<1> HIDE DEF e
<1>4. Accepts(s, e) => r.exitCode = code /\ r.results = s.results
  BY <1>1, <1>2, ReduceRunCompleted DEF Took, Edited, Fields
<1>5. QED
  BY <1>3, <1>4 DEF OneMore, e

LEMMA NotAttemptedOnce ==
  ASSUME NEW s, Ongoing(s), ~HasTerminalEvent(s, "results-recorded"), NEW rec
  PROVE  LET m == Emit(s, <<NotAttemptedResults(rec)>>)
             e == NotAttemptedResults(rec) IN
         \/ m = Halted(s) /\ ~Accepts(s, e)
         \/ /\ Accepts(s, e) /\ ResultsAllowed(s, e)
            /\ \E x : m = Onward(x) /\ Reported(x) /\ x.results = e.operations
<1> DEFINE e == NotAttemptedResults(rec)
<1>1. e.type = "results-recorded"
  BY NotAttemptedTold
<1>2. PICK none : none = <<>>
  OBVIOUS
<1>3. AllQuiet(none) /\ none \o <<e>> = <<e>>
  BY <1>2, QuietTuples, Joins, SeqFacts
<1> HIDE DEF e
<1>4. PICK x : \/ Emit(s, <<e>>) = Onward(x) /\ Reported(x) /\ x.results = e.operations
               \/ Emit(s, <<e>>) = Halted(x)
  <2>1. \E x : \/ /\ Emit(s, none \o <<e>>) = Onward(x)
                  /\ Reported(x) /\ x.results = e.operations /\ x.write = s.write
               \/ Emit(s, none \o <<e>>) = Halted(x) /\ Untouched(x, s)
    BY <1>1, <1>3, ResultsTold
  <2>2. QED
    BY <1>3, <2>1
<1>5. OneMore(Emit(s, <<e>>), s, e)
  BY EmitOne
<1>6. Accepts(s, e) => ResultsAllowed(s, e)
  <2>1. SUFFICES ASSUME Accepts(s, e) PROVE ResultsAllowed(s, e)
    OBVIOUS
  <2>2. DOMAIN s = Fields /\ e \notin s.events
    BY <1>1 DEF Ongoing, HasTerminalEvent
  <2>3. QED
    BY <1>1, <2>1, <2>2, ReduceResults
<1>7. QED
  BY <1>4, <1>5, <1>6, EmittedFields DEF OneMore, e

----------------------------------------------------------------------------
(* The end of a run, and of a failed one                                    *)

LEMMA CleanAccepts ==
  ASSUME NEW s, Clean(s), NEW rec, rec.owner = s.owner
  PROVE  Accepts(s, NotAttemptedResults(rec))
<1> DEFINE e == NotAttemptedResults(rec)
<1>1. e.type = "results-recorded"
  BY NotAttemptedTold
<1>2. ResultsAllowed(s, e)
  BY CleanTakesNothing
<1>3. /\ ~HasTerminalEvent(s, "results-recorded") /\ s.phases["complete"] = "active"
      /\ s.exitCode = Null
  BY DEF Clean, Ongoing, OneActive
<1> HIDE DEF e
<1>4. ~Repeats(s, e)
  BY <1>1, <1>3 DEF Repeats, HasTerminalEvent, TerminalEventId
<1>5. QED
  BY <1>1, <1>2, <1>3, <1>4 DEF Accepts, IsOpen, e

LEMMA CleanEnds ==
  ASSUME NEW s, Clean(s), NEW rec, rec.owner = s.owner
  PROVE  \E x : /\ Emit(s, <<NotAttemptedResults(rec)>> \o <<RunCompleted(2)>>) = Onward(x)
                /\ x.exitCode = 2 /\ x.results = NotAttemptedResults(rec).operations
<1>1. Ongoing(s) /\ ~HasTerminalEvent(s, "results-recorded")
  BY DEF Clean
<1>2. PICK y : /\ Emit(s, <<NotAttemptedResults(rec)>>) = Onward(y)
               /\ Reported(y) /\ y.results = NotAttemptedResults(rec).operations
  BY <1>1, CleanAccepts, NotAttemptedOnce
<1>3. PICK x : /\ Emit(y, <<RunCompleted(2)>>) = Onward(x)
               /\ x.exitCode = 2 /\ x.results = y.results
  BY <1>2, ReportedCloses
<1>4. PICK a, b : a = <<NotAttemptedResults(rec)>> /\ b = <<RunCompleted(2)>>
  OBVIOUS
<1>5. IsSeq(a) /\ IsSeq(b)
  BY <1>4, SeqFacts
<1>6. Emit(s, a \o b) = Emit(y, b)
  BY <1>2, <1>4, <1>5, EmitJoined
<1>7. QED
  BY <1>2, <1>3, <1>4, <1>6

LEMMA FinishedPhases ==
  ASSUME NEW q \in Early \ {"complete"}, NEW i \in Inspected, NEW status \in {"failed", "unknown"}
  PROVE  LET to == Finish([PhasesAt(q, i) EXCEPT ![q] = status]) IN
         /\ OneActive(to, "complete")
         /\ \A p \in {"stage", "apply", "observe", "recover"} : to[p] = "skipped"
         /\ to["preflight"] = IF q = "preflight" THEN status ELSE "skipped"
<1> DEFINE done == [PhasesAt(q, i) EXCEPT ![q] = status]
<1>1. done = [p \in PhaseNames |-> IF p = q THEN status
                                   ELSE IF p \in Behind(q) THEN (IF p = "inspect" THEN i ELSE "passed")
                                   ELSE "pending"]
  BY DEF PhasesAt
<1> HIDE DEF done
<1>2. \A p \in PhaseNames : done[p] # "active"
  BY <1>1 DEF Inspected
<1>3. OneActive(Finish(done), "complete")
  BY <1>1, <1>2, FinishActive
<1>4. /\ \A p \in {"stage", "apply", "observe", "recover"} : p \notin Behind(q) /\ p # q
      /\ "preflight" \notin Behind(q)
  BY DEF Behind, Early, Undecided
<1>5. \A p \in {"stage", "apply", "observe", "recover"} : done[p] = "pending"
  BY <1>1, <1>4 DEF PhaseNames, WritePhases
<1>6. done["preflight"] = IF q = "preflight" THEN status ELSE "pending"
  BY <1>1, <1>4 DEF PhaseNames, WritePhases
<1>7. QED
  BY <1>3, <1>5, <1>6 DEF Finish, PhaseNames, WritePhases, done

\* A phase before any write that is closed as failed.
LEMMA FailedPhase ==
  ASSUME NEW s, NEW q \in Early \ {"complete"}, Young(s, q)
  PROVE  \E y : /\ Emit(s, <<PhaseCompleted(q, "failed")>>) = Onward(y)
                /\ Clean(y) /\ y.owner = s.owner
<1> DEFINE e == PhaseCompleted(q, "failed")
           r == Reduce(s, e)
<1>1. e.type = "phase-completed" /\ e.phase = q /\ e.status = "failed"
  BY DEF PhaseCompleted
<1>2. PICK i \in Inspected : s.phases = PhasesAt(q, i)
  BY DEF Young
<1>3. /\ Ongoing(s) /\ DOMAIN s = Fields /\ s.exitCode = Null
      /\ ~HasTerminalEvent(s, "phase-completed") /\ ~HasTerminalEvent(s, "results-recorded")
      /\ ~HasTerminalEvent(s, "run-completed")
  BY YoungOngoing DEF Young, Openers
<1>4. s.phases["complete"] = "pending" /\ s.phases[q] = "active"
  <2>1. "complete" \notin Behind(q) /\ q \in PhaseNames
    BY DEF Behind, Undecided, Early, PhaseNames, WritePhases
  <2>2. QED
    BY <1>2, <2>1 DEF PhasesAt, PhaseNames
<1> DEFINE ph == IF e.phase = "resolve" THEN ActivateResolution(s.phases) ELSE s.phases
<1>5. ph = s.phases
  BY <1>1, <1>2, PhaseAdvances
<1> HIDE DEF e
<1>6. ~Repeats(s, e) /\ e \notin s.events
  BY <1>1, <1>3 DEF Repeats, HasTerminalEvent, TerminalEventId
<1>7. PhaseAllowed(s, e)
  BY <1>1, <1>4, <1>5 DEF PhaseAllowed
<1>8. Accepts(s, e)
  BY <1>1, <1>3, <1>4, <1>6, <1>7 DEF Accepts, IsOpen
<1>9. /\ Took(r, s, e, {"phases"})
      /\ r.phases = CompleteAndAdvance(ph, q, "failed", s.write)
  BY <1>1, <1>3, <1>6, <1>8, ReducePhaseCompleted
<1>10. r.phases = Finish([PhasesAt(q, i) EXCEPT ![q] = "failed"])
  <2>1. q \notin {"apply", "recover", "observe"}
    BY DEF Early, Undecided
  <2>2. r.phases = CompleteAndAdvance(PhasesAt(q, i), q, "failed", s.write)
    BY <1>2, <1>5, <1>9
  <2>3. QED
    BY <2>1, <2>2 DEF CompleteAndAdvance
<1>11. /\ OneActive(r.phases, "complete")
       /\ \A p \in {"stage", "apply", "observe", "recover"} : r.phases[p] = "skipped"
       /\ r.phases["preflight"] \in {"skipped", "failed"}
  <2> DEFINE to == Finish([PhasesAt(q, i) EXCEPT ![q] = "failed"])
  <2>1. /\ OneActive(to, "complete")
        /\ \A p \in {"stage", "apply", "observe", "recover"} : to[p] = "skipped"
        /\ to["preflight"] = IF q = "preflight" THEN "failed" ELSE "skipped"
    BY FinishedPhases
  <2>2. r.phases = to
    BY <1>10
  <2> HIDE DEF to
  <2>3. QED
    BY <2>1, <2>2
<1>12. /\ DOMAIN r = Fields /\ r.exitCode = Null /\ r.counts = s.counts /\ r.owner = s.owner
       /\ r.recovery = s.recovery
  BY <1>3, <1>9 DEF Took, Edited, Fields
<1>13. ~HasTerminalEvent(r, "results-recorded") /\ ~HasTerminalEvent(r, "run-completed")
  BY <1>1, <1>3, <1>9, TookEvents
<1>14. OneMore(Emit(s, <<e>>), s, e)
  BY EmitOne
<1> HIDE DEF r
<1>15. Ongoing(r)
  BY <1>11, <1>12, <1>13 DEF Ongoing, Young, PhaseNames
<1>16. Clean(r)
  BY <1>11, <1>12, <1>13, <1>15 DEF Clean, Young
<1>17. QED
  BY <1>8, <1>12, <1>14, <1>16 DEF OneMore, r, e

LEMMA YoungComplete ==
  ASSUME NEW s, Young(s, "complete")
  PROVE  Clean(s)
<1>1. PICK i \in Inspected : s.phases = PhasesAt("complete", i)
  BY DEF Young
<1>2. Ongoing(s) /\ ~HasTerminalEvent(s, "results-recorded")
  BY YoungOngoing DEF Openers
<1>3. OneActive(s.phases, "complete")
  BY <1>1, PhasesActive DEF Early
<1>4. \A p \in WritePhases : s.phases[p] = "skipped"
  BY <1>1 DEF PhasesAt, Behind, Undecided, PhaseNames, WritePhases
<1>5. QED
  BY <1>2, <1>3, <1>4 DEF Clean, Young, WritePhases

----------------------------------------------------------------------------
(* Records that the end of a run closes, and those that refuse it           *)

\* A record that the end of a failed run can close.
Closable(s) == (\E q \in Early : Young(s, q)) \/ Clean(s) \/ Reported(s)

\* The phases a failed run leaves active, and the event that ends one of them.
ActivePhases(s) == {p \in PhaseNames \ {"complete"} : s.phases[p] = "active"}
Closing(s) == IF ActivePhases(s) = {} THEN <<>>
              ELSE <<PhaseCompleted(CHOOSE p \in ActivePhases(s) : TRUE, "failed")>>

LEMMA FailedRecordIs ==
  ASSUME NEW s, run.recorded, s.exitCode = Null
  PROVE  FailedRecord(s) = Emit(s, Closing(s) \o FinalEvents(s, 2)).state
BY DEF FailedRecord, Closing, ActivePhases

LEMMA ActiveIs ==
  ASSUME NEW s, NEW q, OneActive(s.phases, q)
  PROVE  /\ q = "complete" => Closing(s) = <<>>
         /\ q # "complete" => Closing(s) = <<PhaseCompleted(q, "failed")>>
<1>1. CASE q = "complete"
  <2>1. ActivePhases(s) = {}
    BY <1>1 DEF ActivePhases, OneActive
  <2>2. QED
    BY <1>1, <2>1 DEF Closing
<1>2. CASE q # "complete"
  <2>1. ActivePhases(s) = {q}
    BY <1>2 DEF ActivePhases, OneActive
  <2>2. (CHOOSE p \in {q} : TRUE) = q
    OBVIOUS
  <2>3. QED
    BY <1>2, <2>1, <2>2 DEF Closing
<1>3. QED
  BY <1>1, <1>2

LEMMA FinalEventsAre ==
  ASSUME NEW s, NEW code
  PROVE  /\ HasTerminalEvent(s, "results-recorded") => FinalEvents(s, code) = <<RunCompleted(code)>>
         /\ ~HasTerminalEvent(s, "results-recorded") =>
              FinalEvents(s, code) = <<NotAttemptedResults(s)>> \o <<RunCompleted(code)>>
         /\ IsSeq(FinalEvents(s, code))
<1> DEFINE none == <<>>
           r == <<NotAttemptedResults(s)>>
           c == <<RunCompleted(code)>>
<1>1. IsSeq(none) /\ IsSeq(r) /\ IsSeq(c)
  BY SeqFacts
<1> HIDE DEF none, r, c
<1>2. FinalEvents(s, code) = (IF HasTerminalEvent(s, "results-recorded") THEN none ELSE r) \o c
  BY DEF FinalEvents, none, r, c
<1>3. none \o c = c
  BY <1>1, Joins DEF none
<1>4. IsSeq(r \o c)
  BY <1>1, JoinedSeq
<1>5. QED
  BY <1>1, <1>2, <1>3, <1>4 DEF r, c

LEMMA FailedCloses ==
  ASSUME NEW s, Closable(s), run.recorded
  PROVE  LET x == FailedRecord(s) IN
         /\ x.exitCode = 2
         /\ Reported(s) => x.results = s.results
         /\ ~Reported(s) => DOMAIN x.results = DOMAIN s.owner
<1> DEFINE ends == FinalEvents(s, 2)
<1>1. s.exitCode = Null
  BY DEF Closable, Young, Clean, Reported, Ongoing
<1>2. FailedRecord(s) = Emit(s, Closing(s) \o ends).state
  BY <1>1, FailedRecordIs
<1>3. IsSeq(ends)
  BY FinalEventsAre
<1>4. DOMAIN NotAttemptedResults(s).operations = DOMAIN s.owner
  BY NotAttemptedTold
<1>5. CASE Reported(s)
  <2>1. Closing(s) = <<>> /\ HasTerminalEvent(s, "results-recorded")
    BY <1>5, ActiveIs DEF Reported
  <2>2. ends = <<RunCompleted(2)>>
    BY <2>1, FinalEventsAre
  <2>3. Closing(s) \o ends = ends
    BY <1>3, <2>1, Joins
  <2>4. PICK x : Emit(s, ends) = Onward(x) /\ x.exitCode = 2 /\ x.results = s.results
    BY <1>5, <2>2, ReportedCloses
  <2> HIDE DEF ends
  <2>5. QED
    BY <1>2, <1>5, <2>3, <2>4, EmittedFields
<1>6. CASE Clean(s)
  <2>1. Closing(s) = <<>> /\ ~HasTerminalEvent(s, "results-recorded")
    BY <1>6, ActiveIs DEF Clean
  <2>2. ends = <<NotAttemptedResults(s)>> \o <<RunCompleted(2)>>
    BY <2>1, FinalEventsAre
  <2>3. Closing(s) \o ends = ends
    BY <1>3, <2>1, Joins
  <2>4. PICK x : /\ Emit(s, ends) = Onward(x) /\ x.exitCode = 2
                 /\ x.results = NotAttemptedResults(s).operations
    BY <1>6, <2>2, CleanEnds
  <2>5. ~Reported(s)
    BY <2>1 DEF Reported
  <2> HIDE DEF ends
  <2>6. QED
    BY <1>2, <1>4, <2>3, <2>4, <2>5, EmittedFields
<1>7. ASSUME NEW q \in Early \ {"complete"}, Young(s, q)
      PROVE  /\ FailedRecord(s).exitCode = 2 /\ ~Reported(s)
             /\ DOMAIN FailedRecord(s).results = DOMAIN s.owner
  <2>1. OneActive(s.phases, q) /\ ~HasTerminalEvent(s, "results-recorded")
    BY <1>7, YoungOngoing, PhasesActive DEF Young, Openers
  <2>2. Closing(s) = <<PhaseCompleted(q, "failed")>>
    BY <2>1, ActiveIs
  <2>3. ends = <<NotAttemptedResults(s)>> \o <<RunCompleted(2)>>
    BY <2>1, FinalEventsAre
  <2>4. PICK y : Emit(s, Closing(s)) = Onward(y) /\ Clean(y) /\ y.owner = s.owner
    BY <1>7, <2>2, FailedPhase
  <2>5. PICK x : /\ Emit(y, ends) = Onward(x) /\ x.exitCode = 2
                 /\ x.results = NotAttemptedResults(s).operations
    BY <2>3, <2>4, CleanEnds
  <2>6. IsSeq(Closing(s))
    BY <2>2, SeqFacts
  <2> HIDE DEF ends
  <2>7. Emit(s, Closing(s) \o ends) = Onward(x)
    BY <1>3, <2>4, <2>5, <2>6, EmitJoined
  <2>8. ~Reported(s)
    BY <2>1 DEF Reported
  <2>9. QED
    BY <1>2, <1>4, <2>5, <2>7, <2>8, EmittedFields
<1>8. QED
  BY <1>5, <1>6, <1>7, YoungComplete DEF Closable

\* The end of a run told to a record that can be closed.
LEMMA EndTold ==
  ASSUME NEW s, Closable(s), NEW code
  PROVE  \E x : \/ /\ Emit(s, FinalEvents(s, code)) = Onward(x) /\ x.exitCode = code
                   /\ Reported(s) => x.results = s.results
                \/ /\ Emit(s, FinalEvents(s, code)) = Halted(x) /\ Closable(x)
                   /\ Reported(s) => x = s
<1>1. CASE Reported(s)
  <2>1. FinalEvents(s, code) = <<RunCompleted(code)>>
    BY <1>1, FinalEventsAre DEF Reported
  <2>2. QED
    BY <1>1, <2>1, CompletionTold
<1>2. CASE ~Reported(s)
  <2>1. Ongoing(s) /\ ~HasTerminalEvent(s, "results-recorded")
    BY <1>2, YoungOngoing DEF Closable, Clean, Openers
  <2>2. PICK a, b : a = <<NotAttemptedResults(s)>> /\ b = <<RunCompleted(code)>>
    OBVIOUS
  <2>3. IsSeq(a) /\ IsSeq(b)
    BY <2>2, SeqFacts
  <2>4. FinalEvents(s, code) = a \o b
    BY <2>1, <2>2, FinalEventsAre
  <2>5. Emit(s, a) = Halted(s) \/ \E y : Emit(s, a) = Onward(y) /\ Reported(y)
    BY <2>1, <2>2, NotAttemptedOnce
  <2>6. CASE Emit(s, a) = Halted(s)
    BY <1>2, <2>3, <2>4, <2>6, EmitJoined
  <2>7. ASSUME NEW y, Emit(s, a) = Onward(y), Reported(y)
        PROVE  \E x : \/ Emit(s, FinalEvents(s, code)) = Onward(x) /\ x.exitCode = code
                      \/ Emit(s, FinalEvents(s, code)) = Halted(x) /\ Closable(x)
    <3>1. Emit(s, a \o b) = Emit(y, b)
      BY <2>3, <2>7, EmitJoined
    <3>2. \/ Emit(y, b) = Halted(y)
          \/ \E x : Emit(y, b) = Onward(x) /\ x.exitCode = code
      BY <2>2, <2>7, CompletionTold
    <3>3. QED
      BY <2>4, <2>7, <3>1, <3>2 DEF Closable
  <2>8. QED
    BY <1>2, <2>5, <2>6, <2>7
<1>3. QED
  BY <1>1, <1>2

----------------------------------------------------------------------------
(* Records that refused the results                                         *)

\* A record whose results were refused, and from which the end of the run
\* cannot hide that something was written.
Stuck(s) ==
  /\ Ongoing(s) /\ OneActive(s.phases, "complete")
  /\ ~HasTerminalEvent(s, "results-recorded") /\ s.results = <<>>
  /\ DOMAIN s.owner # {}
  /\ \/ /\ s.phases["apply"] = "passed" /\ s.phases["observe"] = "passed"
        /\ s.phases["recover"] = "skipped"
     \/ s.phases["apply"] = "failed" /\ s.recovery.status = "partial"

LEMMA PartialResults ==
  ASSUME NEW s, NEW ops, NEW targets, RecoveryCoherent(s, ops, targets),
         s.recovery.status = "partial"
  PROVE  \E o \in DOMAIN ops : ops[o].outcome # "not-attempted"
BY DEF RecoveryCoherent

LEMMA StuckStays ==
  ASSUME NEW s, Stuck(s), run.recorded
  PROVE  FailedRecord(s).results = <<>>
<1> DEFINE ends == FinalEvents(s, 2)
           e == NotAttemptedResults(s)
<1>1. ~ResultsAllowed(s, e)
  <2>1. PICK o : o \in DOMAIN s.owner
    BY DEF Stuck
  <2>2. /\ e.operations[o].outcome = "not-attempted" /\ e.operations[o].notAttempted
        /\ o \in DOMAIN e.operations
        /\ \A x \in DOMAIN e.operations : e.operations[x].outcome = "not-attempted"
    BY <2>1, NotAttemptedTold
  <2> DEFINE ops == e.operations
             targets == e.targets
  <2> HIDE DEF e, ops, targets
  <2>3. /\ ops[o].outcome = "not-attempted" /\ ops[o].notAttempted /\ o \in DOMAIN ops
        /\ \A x \in DOMAIN ops : ops[x].outcome = "not-attempted"
    BY <2>2 DEF ops
  <2>4. ASSUME ResultsFitPhases(s, ops, targets) PROVE FALSE
    <3>1. CASE /\ s.phases["apply"] = "passed" /\ s.phases["observe"] = "passed"
               /\ s.phases["recover"] = "skipped"
      <4>1. AppliedCoherent(s, ops)
        BY <2>4, <3>1 DEF ResultsFitPhases
      <4>2. QED
        BY <2>3, <4>1 DEF AppliedCoherent
    <3>2. CASE s.phases["apply"] = "failed" /\ s.recovery.status = "partial"
      <4>1. RecoveryCoherent(s, ops, targets)
        BY <2>4, <3>2 DEF ResultsFitPhases
      <4>2. QED
        BY <2>3, <3>2, <4>1, PartialResults
    <3>3. QED
      BY <3>1, <3>2 DEF Stuck
  <2>5. QED
    BY <2>4 DEF ResultsAllowed, ops, targets
<1>2. s.exitCode = Null /\ Ongoing(s) /\ ~HasTerminalEvent(s, "results-recorded")
  BY DEF Stuck, Ongoing
<1>3. FailedRecord(s) = Emit(s, Closing(s) \o ends).state
  BY <1>2, FailedRecordIs
<1>4. Closing(s) = <<>> /\ IsSeq(ends)
  BY ActiveIs, FinalEventsAre DEF Stuck
<1>5. Closing(s) \o ends = ends
  BY <1>4, Joins
<1>6. Emit(s, <<e>>) = Halted(s)
  BY <1>1, <1>2, NotAttemptedOnce
<1>7. PICK a, b : a = <<e>> /\ b = <<RunCompleted(2)>>
  OBVIOUS
<1>8. IsSeq(a) /\ IsSeq(b) /\ ends = a \o b
  BY <1>2, <1>7, SeqFacts, FinalEventsAre
<1> HIDE DEF ends, e
<1>9. Emit(s, ends) = Halted(s)
  BY <1>6, <1>7, <1>8, EmitJoined
<1>10. QED
  BY <1>3, <1>5, <1>9, EmittedFields DEF Stuck

----------------------------------------------------------------------------
(* What the record is told of the engine's answer                           *)

\* The phases of an answer are over.
PhasesOver(a) == \A n \in PhaseOrder : a.phases[n] # "active"

LEMMA FoldedOver ==
  ASSUME NEW a, NEW names
  PROVE  FoldedPhaseStatus(a, names) # "active"
BY DEF FoldedPhaseStatus

LEMMA QuietKinds ==
  /\ \A p \in PhaseNames : \A status : status # "active" => Quiet(PhaseCompleted(p, status))
  /\ \A owner : Quiet(SelectionCompleted(owner))
  /\ \A x, status : Quiet(RecoveryRecorded(x, status))
  /\ \A o : Quiet([type |-> "stage-completed", observationRequired |-> o])
  /\ \A status, r, o : status # "active" =>
       Quiet([type |-> "apply-completed", status |-> status, recoveryRequired |-> r,
              observationRequired |-> o])
BY DEF Quiet, PhaseCompleted, SelectionCompleted, RecoveryRecorded

LEMMA EvidenceQuiet ==
  ASSUME NEW a
  PROVE  AllQuiet(RetainedCleanupEvidence(a)) /\ AllQuiet(RecoveryEvents(a))
<1> "recover" \in PhaseNames
  BY DEF PhaseNames, WritePhases
<1>1. Quiet(RecoveryRecorded(FALSE, "unknown")) /\ Quiet(RecoveryRecorded(TRUE, a.recovery))
  BY QuietKinds
<1>2. Quiet(PhaseCompleted("recover", RecoveryPhaseStatus(a.recovery)))
  BY QuietKinds DEF RecoveryPhaseStatus
<1>3. QED
  BY <1>1, <1>2, QuietTuples DEF RetainedCleanupEvidence, RecoveryEvents

\* The phases of an apply are told by quiet events.
LEMMA PhaseEventsQuiet ==
  ASSUME NEW a, PhasesOver(a)
  PROVE  AllQuiet(ApplyPhaseEvents(a))
<1> {"preflight", "stage", "apply", "observe", "recover"} \subseteq PhaseNames
  BY DEF PhaseNames, WritePhases
<1>1. PICK conflicted, preflight, folded, stage, apply, inspected, recovering, observe, kept :
        /\ conflicted = {o \in DOMAIN a.ops : a.ops[o].status = "conflicted"}
        /\ preflight = IF a.phases["preflight"] = "failed" /\ conflicted # {}
                       THEN "blocked" ELSE a.phases["preflight"]
        /\ folded = FoldedPhaseStatus(a, {"lock", "stage"})
        /\ stage = IF folded = "failed" /\ conflicted = DOMAIN a.ops THEN "blocked" ELSE folded
        /\ apply = FoldedPhaseStatus(a, {"precommit", "commit"})
        /\ inspected = (a.phases["inspect"] # "none")
        /\ recovering = (a.phases["recovery"] # "none")
        /\ observe = IF inspected THEN <<PhaseCompleted("observe", a.phases["inspect"])>>
                     ELSE <<>>
        /\ kept = RetainedCleanupEvidence(a)
  OBVIOUS
<1>2. preflight # "active" /\ stage # "active" /\ apply # "active" /\ a.phases["inspect"] # "active"
  BY <1>1, FoldedOver DEF PhasesOver, PhaseOrder
<1>3. AllQuiet(kept) /\ AllQuiet(RecoveryEvents(a)) /\ AllQuiet(<<>>)
  BY <1>1, EvidenceQuiet, QuietTuples
<1>4. AllQuiet(observe)
  BY <1>1, <1>2, QuietKinds, QuietTuples
<1>5. PICK pf, sk, st, sa, so :
        /\ pf = <<PhaseCompleted("preflight", preflight)>>
        /\ sk = <<[type |-> "stage-completed", observationRequired |-> inspected]>>
        /\ st = <<PhaseCompleted("stage", stage)>>
        /\ sa = <<PhaseCompleted("stage", stage), PhaseCompleted("apply", apply)>>
        /\ so = <<PhaseCompleted("stage", stage),
                  [type |-> "apply-completed", status |-> apply,
                   recoveryRequired |-> recovering, observationRequired |-> inspected]>>
  OBVIOUS
<1>6. AllQuiet(pf) /\ AllQuiet(sk) /\ AllQuiet(st)
  BY <1>2, <1>5, QuietKinds, QuietTuples
<1>7. AllQuiet(sa) /\ AllQuiet(so)
  BY <1>2, <1>5, QuietKinds, QuietTuples
<1>8. AllQuiet((sk \o observe) \o kept) /\ AllQuiet(st \o kept) /\ AllQuiet((sa \o observe) \o kept)
  BY <1>3, <1>4, <1>6, <1>7, QuietJoined
<1>9. \A r, k : AllQuiet(r) /\ AllQuiet(k) => AllQuiet(((so \o r) \o observe) \o k)
  BY <1>4, <1>7, QuietJoined
<1>10. AllQuiet(((so \o (IF recovering THEN RecoveryEvents(a) ELSE <<>>)) \o observe)
                  \o (IF recovering THEN <<>> ELSE kept))
  BY <1>3, <1>9
<1>11. PICK rest :
         /\ rest = CASE preflight # "passed" -> kept
                     [] preflight = "passed" /\ stage = "skipped" -> (sk \o observe) \o kept
                     [] preflight = "passed" /\ stage \notin {"passed", "skipped"} -> st \o kept
                     [] preflight = "passed" /\ stage = "passed" /\ apply = "skipped" ->
                          (sa \o observe) \o kept
                     [] OTHER -> ((so \o (IF recovering THEN RecoveryEvents(a) ELSE <<>>))
                                    \o observe) \o (IF recovering THEN <<>> ELSE kept)
  OBVIOUS
<1>12. AllQuiet(rest)
  BY <1>3, <1>8, <1>10, <1>11
<1>13. ApplyPhaseEvents(a) = pf \o rest
  BY <1>1, <1>5, <1>11, Zenon DEF ApplyPhaseEvents
<1>14. QED
  BY <1>6, <1>12, <1>13, QuietJoined

\* An account that ends with the results: quiet events before them.
EndsWith(account, results) ==
  \E first : AllQuiet(first) /\ account = first \o <<results>>

LEMMA BeganOver ==
  ASSUME NEW passed, NEW others,
         \A n \in PhaseOrder : n \notin passed /\ n \in DOMAIN others => others[n] # "active"
  PROVE  \A n \in PhaseOrder : Began(passed, others)[n] # "active"
BY DEF Began

LEMMA AnswersOver ==
  ASSUME NEW ts, NEW a \in Answers(ts)
  PROVE  PhasesOver(a)
<1>1. \A ops, phases, recovery, attempted :
        /\ a = EngineAnswer(ops, phases, recovery, attempted)
        /\ \A n \in PhaseOrder : phases[n] # "active"
        => PhasesOver(a)
  BY EngineAnswerFields DEF PhasesOver
<1>2. CASE a = WholeAnswer(ts)
  <2>1. \A n \in PhaseOrder :
          Began(Staged \cup {"commit", "inspect", "cleanup"}, <<>>)[n] # "active"
    BY BeganOver
  <2>2. QED
    BY <1>1, <1>2, <2>1 DEF WholeAnswer
<1>3. CASE a = PartialAnswer(ts)
  <2>1. \A n \in PhaseOrder :
          Began(Staged \cup {"inspect"}, [commit |-> "failed", recovery |-> "failed",
                                          cleanup |-> "unknown"])[n] # "active"
    BY BeganOver
  <2>2. QED
    BY <1>1, <1>3, <2>1 DEF PartialAnswer
<1>4. CASE a = RevertedAnswer(ts)
  <2>1. \A n \in PhaseOrder :
          Began(Staged \cup {"recovery", "inspect", "cleanup"}, [commit |-> "failed"])[n]
            # "active"
    BY BeganOver
  <2>2. QED
    BY <1>1, <1>4, <2>1 DEF RevertedAnswer
<1>5. CASE a = ConflictAnswer(ts)
  <2>1. \A n \in PhaseOrder : Began({}, [preflight |-> "failed"])[n] # "active"
    BY BeganOver
  <2>2. QED
    BY <1>1, <1>5, <2>1 DEF ConflictAnswer
<1>6. CASE a = UnknownAnswer(ts)
  <2>1. \A n \in PhaseOrder : Began({}, [preflight |-> "unknown"])[n] # "active"
    BY BeganOver
  <2>2. QED
    BY <1>1, <1>6, <2>1 DEF UnknownAnswer
<1>7. CASE a = StagingAnswer(ts)
  <2>1. \A n \in PhaseOrder :
          Began({"preflight", "lock", "cleanup"}, [stage |-> "failed"])[n] # "active"
    BY BeganOver
  <2>2. QED
    BY <1>1, <1>7, <2>1 DEF StagingAnswer
<1>8. QED
  BY <1>2, <1>3, <1>4, <1>5, <1>6, <1>7, AnswerCases

LEMMA SelectionQuiet == ASSUME NEW owner PROVE AllQuiet(ToldSelection(owner))
BY QuietKinds, QuietTuples DEF ToldSelection

LEMMA QuietBefore ==
  ASSUME NEW s, NEW t, NEW e, AllQuiet(s), AllQuiet(t)
  PROVE  EndsWith(s \o (t \o <<e>>), e)
<1>1. PICK one : one = <<e>>
  OBVIOUS
<1>2. IsSeq(s) /\ IsSeq(t) /\ IsSeq(one)
  BY <1>1, SeqFacts DEF AllQuiet
<1>3. s \o (t \o one) = (s \o t) \o one
  BY <1>2, Joins
<1>4. QED
  BY <1>1, <1>3, QuietJoined DEF EndsWith

\* What the record is told of an answer of the engine.
LEMMA ExecutedAccount ==
  ASSUME AnswerKept, Executed, NEW unbound
  PROVE  /\ AccountOf(unbound) = ToldSelection(answer.owner) \o ResultEvents(answer)
         /\ EndsWith(AccountOf(unbound), ResultsRecorded(answer.owner, ModelResults(answer)))
         /\ answer \in Answers(Approved) /\ AnswersFor(Approved, answer)
<1>1. answer \in Answers(Approved) /\ answer # NoAnswer /\ answer # PlanBlocked
  BY ExecutedAnswer DEF Executed, NoAnswer, PlanBlocked
<1>2. AnswersFor(Approved, answer) /\ PhasesOver(answer)
  BY <1>1, AnswerFacts, AnswersOver
<1>3. AccountOf(unbound) = ToldSelection(answer.owner) \o ResultEvents(answer)
  BY <1>1 DEF AccountOf
<1>4. QED
  BY <1>1, <1>2, <1>3, SelectionQuiet, PhaseEventsQuiet, QuietBefore DEF ResultEvents

\* What it is told when nothing was approved, or when no plan could be made.
NothingApproved == ResultsRecorded(<<>>, <<>>)
BlockedResults ==
  ResultsRecorded(OwnerOf(Approved),
    [p \in Approved |-> [outcome |-> "blocked", blocked |-> TRUE, notAttempted |-> TRUE,
                         unknown |-> FALSE, reason |-> "none"]])

LEMMA PlainAccount ==
  ASSUME AnswerKept, ~Executed, NEW unbound \in BOOLEAN
  PROVE  \/ EndsWith(AccountOf(unbound), NothingApproved)
         \/ EndsWith(AccountOf(unbound), BlockedResults)
         \/ /\ answer = PlanBlocked
            /\ AccountOf(unbound) = <<PhaseCompleted("review", "unknown")>>
<1> {"preflight", "review"} \subseteq PhaseNames
  BY DEF PhaseNames, WritePhases
<1>1. (answer = NoAnswer \/ answer = PlanBlocked) /\ NoAnswer # PlanBlocked
  BY ExecutedAnswer
<1>2. CASE answer = NoAnswer
  <2>1. PICK a, b, c : /\ a = PhaseCompleted("preflight", "passed")
                       /\ b = [type |-> "stage-completed", observationRequired |-> FALSE]
                       /\ c = NothingApproved
    OBVIOUS
  <2>2. AccountOf(unbound) = ToldSelection(<<>>) \o <<a, b, c>>
    BY <1>1, <1>2, <2>1 DEF AccountOf, NothingApproved
  <2>3. <<a, b, c>> = <<a, b>> \o <<c>>
    OBVIOUS
  <2>4. AllQuiet(<<a, b>>)
    BY <2>1, QuietKinds, QuietTuples
  <2>5. PICK two : two = <<a, b>>
    OBVIOUS
  <2>6. EndsWith(ToldSelection(<<>>) \o (two \o <<c>>), c)
    BY <2>4, <2>5, SelectionQuiet, QuietBefore
  <2>7. QED
    BY <2>1, <2>2, <2>3, <2>5, <2>6
<1>3. CASE answer = PlanBlocked /\ unbound
  BY <1>1, <1>3 DEF AccountOf
<1>4. CASE answer = PlanBlocked /\ ~unbound
  <2>1. PICK a, c : a = PhaseCompleted("preflight", "blocked") /\ c = BlockedResults
    OBVIOUS
  <2>2. AccountOf(unbound) = ToldSelection(OwnerOf(Approved)) \o <<a, c>>
    BY <1>1, <1>4, <2>1 DEF AccountOf, BlockedResults
  <2>3. AllQuiet(<<a>>)
    BY <2>1, QuietKinds, QuietTuples
  <2>4. PICK one : one = <<a>>
    OBVIOUS
  <2>5. <<a, c>> = one \o <<c>>
    BY <2>4, Joins
  <2>6. EndsWith(ToldSelection(OwnerOf(Approved)) \o (one \o <<c>>), c)
    BY <2>3, <2>4, SelectionQuiet, QuietBefore
  <2>7. QED
    BY <2>1, <2>2, <2>5, <2>6
<1>5. QED
  BY <1>1, <1>2, <1>3, <1>4

LEMMA ResultsType == ASSUME NEW owner, NEW ops
  PROVE  /\ ResultsRecorded(owner, ops).type = "results-recorded"
         /\ ResultsRecorded(owner, ops).operations = ops
BY DEF ResultsRecorded

\* A record told an account that ends with its results.
LEMMA AccountTold ==
  ASSUME NEW s, NEW q, Young(s, q), NEW owner, NEW ops, NEW account,
         EndsWith(account, ResultsRecorded(owner, ops))
  PROVE  \E x : \/ /\ Emit(s, account) = Onward(x) /\ Reported(x)
                   /\ x.results = ops /\ x.write = s.write
                \/ Emit(s, account) = Halted(x)
<1>1. PICK first : AllQuiet(first) /\ account = first \o <<ResultsRecorded(owner, ops)>>
  BY DEF EndsWith
<1>2. Ongoing(s) /\ ~HasTerminalEvent(s, "results-recorded")
  BY YoungOngoing DEF Openers
<1>3. QED
  BY <1>1, <1>2, ResultsTold, ResultsType

\* Nothing is said of a file the engine changed but what it said.
LEMMA ModelTold ==
  ASSUME NEW ts, NEW a, AnswersFor(ts, a)
  PROVE  DOMAIN ModelResults(a) = ts
         /\ \A o \in ts : ModelResults(a)[o].outcome # "not-attempted"
BY DEF ModelResults, ModelResult, AnswersFor, Statuses

\* The selection cannot be made: the review ends, and nothing was written.
LEMMA ReviewUnknown ==
  ASSUME NEW s, NEW q \in Undecided, Young(s, q)
  PROVE  \E x : \/ /\ Emit(s, <<PhaseCompleted("review", "unknown")>>) = Onward(x)
                   /\ Clean(x) /\ x.write = s.write
                \/ Emit(s, <<PhaseCompleted("review", "unknown")>>) = Halted(x)
<1> DEFINE e == PhaseCompleted("review", "unknown")
<1>1. e.type = "phase-completed" /\ e.phase = "review" /\ e.status = "unknown"
  BY DEF PhaseCompleted
<1> HIDE DEF e
<1>2. DOMAIN s = Fields /\ \A d \in s.events : d.type # "phase-completed"
  BY DEF Young, Openers
<1>3. CASE ~Accepts(s, e)
  BY <1>3, EmitOne DEF OneMore, e
<1>4. CASE Accepts(s, e)
  <2> DEFINE x == Reduce(s, e)
  <2>1. Emit(s, <<e>>) = Onward(x)
    BY <1>4, EmitOne DEF OneMore
  <2>2. /\ PhaseAllowed(s, e) /\ Took(x, s, e, {"phases"})
        /\ x.phases = CompleteAndAdvance(s.phases, "review", "unknown", s.write)
    BY <1>1, <1>2, <1>4, ReducePhaseCompleted
  <2> HIDE DEF x
  <2>3. s.phases["review"] = "active"
    BY <1>1, <2>2 DEF PhaseAllowed
  <2>4. PICK i \in Inspected : s.phases = PhasesAt(q, i)
    BY DEF Young
  <2>5. q = "review"
    BY <2>3, <2>4, PhasesActive DEF OneActive, PhaseNames, Undecided, Early
  <2>6. x.phases = Finish([PhasesAt("review", i) EXCEPT !["review"] = "unknown"])
    BY <2>2, <2>4, <2>5 DEF CompleteAndAdvance
  <2>7. /\ OneActive(x.phases, "complete")
        /\ \A p \in {"stage", "apply", "observe", "recover"} : x.phases[p] = "skipped"
        /\ x.phases["preflight"] = "skipped"
    <3>1. "review" \in Early \ {"complete"} /\ "unknown" \in {"failed", "unknown"}
      BY DEF Early, Undecided
    <3>2. LET to == Finish([PhasesAt("review", i) EXCEPT !["review"] = "unknown"]) IN
          /\ OneActive(to, "complete")
          /\ \A p \in {"stage", "apply", "observe", "recover"} : to[p] = "skipped"
          /\ to["preflight"] = IF "review" = "preflight" THEN "unknown" ELSE "skipped"
      BY <3>1, FinishedPhases
    <3>3. QED
      BY <2>6, <3>2
  <2>8. /\ DOMAIN x = Fields /\ x.counts = s.counts /\ x.exitCode = s.exitCode
        /\ x.recovery = s.recovery /\ x.write = s.write /\ x.events = s.events \cup {e}
    BY <2>2 DEF Took, Edited, Fields
  <2>9. \A d \in x.events : d.type \notin {"run-completed", "results-recorded"}
    BY <1>1, <2>8 DEF Young, Openers
  <2>10. Ongoing(x) /\ ~HasTerminalEvent(x, "results-recorded")
    BY <2>7, <2>8, <2>9 DEF Young, Ongoing, HasTerminalEvent, PhaseNames
  <2>11. Clean(x)
    BY <2>7, <2>8, <2>10 DEF Young, Clean
  <2>12. QED
    BY <2>1, <2>8, <2>11 DEF e
<1>5. QED
  BY <1>3, <1>4

----------------------------------------------------------------------------
(* The record of an apply, phase by phase                                   *)

\* A record in the middle of a write: phase q is active, the events since the
\* run was decided are of these types, the phases completed are those in done.
Writing(s, q, types, done) ==
  /\ DOMAIN s = Fields /\ DOMAIN s.counts = DOMAIN NoCounts /\ s.exitCode = Null
  /\ s.results = <<>> /\ DOMAIN s.owner # {}
  /\ OneActive(s.phases, q) /\ s.phases["complete"] \in {"pending", "active"}
  /\ \A d \in s.events : d.type \in Openers \cup types
  /\ \A d \in s.events : d.type = "phase-completed" => d.phase \in done

LEMMA SameId ==
  ASSUME NEW d, NEW e, TerminalEventId(d) = TerminalEventId(e)
  PROVE  d.type = e.type /\ (e.type = "phase-completed" => d.phase = e.phase)
<1>1. \A u, v, x, y : <<u, v>> = <<x, y>> => u = x /\ v = y
  OBVIOUS
<1>2. \A z : TerminalEventId(z) = <<z.type, IF z.type = "phase-completed" THEN z.phase ELSE "">>
  BY DEF TerminalEventId
<1>3. /\ d.type = e.type
      /\ (IF d.type = "phase-completed" THEN d.phase ELSE "")
           = (IF e.type = "phase-completed" THEN e.phase ELSE "")
  BY <1>1, <1>2
<1>4. QED
  BY <1>3

LEMMA WriteBegins ==
  ASSUME NEW s, Young(s, "preflight"), DOMAIN s.owner # {}
  PROVE  Writing(s, "preflight", {}, {})
<1>1. PICK i \in Inspected : s.phases = PhasesAt("preflight", i)
  BY DEF Young
<1>2. OneActive(s.phases, "preflight")
  BY <1>1, PhasesActive DEF Early
<1>3. s.phases["complete"] = "pending"
  BY <1>1 DEF PhasesAt, Behind, Undecided, PhaseNames
<1>4. QED
  BY <1>2, <1>3 DEF Young, Writing, Openers

\* s was told that phase q ended so.
PhaseOver(m, s, q, status, types, done) ==
  \E x : /\ m = Onward(x)
         /\ Writing(x, After[q], types \cup {"phase-completed"}, done \cup {q})
         /\ x.phases = [s.phases EXCEPT ![q] = status, ![After[q]] = "active"]
         /\ x.recovery = s.recovery /\ x.write = s.write

\* The next phase of a write is taken.
LEMMA PhaseTold ==
  ASSUME NEW s, NEW q \in {"preflight", "stage", "recover", "observe"}, NEW types, NEW done,
         Writing(s, q, types, done), q \notin done,
         NEW status \in Ends, status = "passed" \/ q = "recover"
  PROVE  PhaseOver(Emit(s, <<PhaseCompleted(q, status)>>), s, q, status, types, done)
<1> DEFINE e == PhaseCompleted(q, status)
<1>1. e.type = "phase-completed" /\ e.phase = q /\ e.status = status
  BY DEF PhaseCompleted
<1> HIDE DEF e
<1>2. s.phases[q] = "active" /\ q \in PhaseNames /\ DOMAIN s.phases = PhaseNames
  BY DEF Writing, OneActive
<1>3. ~Repeats(s, e) /\ e \notin s.events
  <2>1. ASSUME NEW d \in s.events, TerminalEventId(d) = TerminalEventId(e) PROVE FALSE
    <3>1. d.type = "phase-completed" /\ d.phase = q
      BY <1>1, <2>1, SameId
    <3>2. QED
      BY <3>1 DEF Writing
  <2>2. QED
    BY <2>1 DEF Repeats
<1>4. PhaseAllowed(s, e) /\ IsOpen(s)
  BY <1>1, <1>2 DEF PhaseAllowed, Writing, IsOpen, Ends
<1>5. Accepts(s, e)
  BY <1>1, <1>3, <1>4 DEF Accepts
<1> DEFINE x == Reduce(s, e)
<1>6. Emit(s, <<e>>) = Onward(x)
  BY <1>5, EmitOne DEF OneMore
<1>7. /\ Took(x, s, e, {"phases"})
      /\ x.phases = CompleteAndAdvance(s.phases, q, status, s.write)
  BY <1>1, <1>3, <1>5, ReducePhaseCompleted DEF Writing
<1> HIDE DEF x
<1>8. /\ DOMAIN x = Fields /\ x.counts = s.counts /\ x.exitCode = s.exitCode
      /\ x.recovery = s.recovery /\ x.write = s.write /\ x.owner = s.owner
      /\ x.results = s.results /\ x.events = s.events \cup {e}
  BY <1>7 DEF Took, Edited, Fields
<1>9. x.phases = [s.phases EXCEPT ![q] = status, ![After[q]] = "active"]
  BY <1>7 DEF CompleteAndAdvance
<1>10. After[q] \in {"stage", "apply", "observe", "complete"} /\ After[q] # q
  BY DEF After
<1>11. OneActive(x.phases, After[q]) /\ x.phases["complete"] \in {"pending", "active"}
  BY <1>2, <1>9, <1>10 DEF Writing, OneActive, PhaseNames, WritePhases, Ends
<1>12. /\ \A d \in x.events : d.type \in Openers \cup (types \cup {"phase-completed"})
       /\ \A d \in x.events : d.type = "phase-completed" => d.phase \in done \cup {q}
  BY <1>1, <1>8 DEF Writing
<1>13. Writing(x, After[q], types \cup {"phase-completed"}, done \cup {q})
  BY <1>8, <1>11, <1>12 DEF Writing
<1>14. QED
  BY <1>6, <1>8, <1>9, <1>13 DEF e, PhaseOver

\* The apply of a write ended, and a recovery or an observation follows.
ApplyCompleted(status, to) ==
  [type |-> "apply-completed", status |-> status, recoveryRequired |-> to = "recover",
   observationRequired |-> TRUE]

\* s was told that its apply ended so.
ApplyOver(m, s, status, to, types, done) ==
  \E x : /\ m = Onward(x) /\ Writing(x, to, types \cup {"apply-completed"}, done)
         /\ x.phases["apply"] = status
         /\ to = "observe" => x.phases["recover"] = "skipped"
         /\ x.recovery = s.recovery /\ x.write = s.write

\* An apply that is observed is taken; it is followed by its recovery, or not.
LEMMA ApplyTold ==
  ASSUME NEW s, NEW types, NEW done, Writing(s, "apply", types, done),
         "apply-completed" \notin types, NEW status \in {"passed", "failed"},
         NEW to \in {"recover", "observe"}
  PROVE  ApplyOver(Emit(s, <<ApplyCompleted(status, to)>>), s, status, to, types, done)
<1> DEFINE e == ApplyCompleted(status, to)
<1>1. /\ e.type = "apply-completed" /\ e.status = status /\ e.observationRequired = TRUE
      /\ e.recoveryRequired = (to = "recover")
  BY DEF ApplyCompleted
<1> HIDE DEF e
<1>2. s.phases["apply"] = "active" /\ DOMAIN s.phases = PhaseNames
  BY DEF Writing, OneActive
<1>3. ~Repeats(s, e) /\ e \notin s.events
  <2>1. ASSUME NEW d \in s.events, TerminalEventId(d) = TerminalEventId(e) PROVE FALSE
    <3>1. d.type = "apply-completed"
      BY <1>1, <2>1, SameId
    <3>2. QED
      BY <3>1 DEF Writing, Openers
  <2>2. QED
    BY <2>1 DEF Repeats
<1>4. ApplyAllowed(s, e) /\ IsOpen(s)
  BY <1>1, <1>2 DEF ApplyAllowed, Writing, IsOpen
<1>5. Accepts(s, e)
  BY <1>1, <1>3, <1>4 DEF Accepts
<1> DEFINE x == Reduce(s, e)
<1>6. Emit(s, <<e>>) = Onward(x)
  BY <1>5, EmitOne DEF OneMore
<1>7. Took(x, s, e, {"phases"}) /\ x.phases = ApplyEnded(s.phases, e)
  BY <1>1, <1>3, <1>5, ReduceApply DEF Writing
<1> HIDE DEF x
<1>8. /\ DOMAIN x = Fields /\ x.counts = s.counts /\ x.exitCode = s.exitCode
      /\ x.recovery = s.recovery /\ x.write = s.write /\ x.owner = s.owner
      /\ x.results = s.results /\ x.events = s.events \cup {e}
  BY <1>7 DEF Took, Edited, Fields
<1>9. x.phases = IF to = "recover"
                 THEN [s.phases EXCEPT !["apply"] = status, !["recover"] = "active"]
                 ELSE [s.phases EXCEPT !["apply"] = status, !["recover"] = "skipped",
                                       !["observe"] = "active"]
  BY <1>1, <1>7 DEF ApplyEnded
<1>10. /\ OneActive(x.phases, to) /\ x.phases["complete"] \in {"pending", "active"}
       /\ x.phases["apply"] = status
       /\ to = "observe" => x.phases["recover"] = "skipped"
  <2> {"apply", "recover", "observe", "complete"} \subseteq PhaseNames
    BY DEF PhaseNames, WritePhases
  <2>1. CASE to = "recover"
    <3>1. x.phases = [s.phases EXCEPT !["apply"] = status, !["recover"] = "active"]
      BY <1>9, <2>1
    <3>2. QED
      BY <1>2, <2>1, <3>1 DEF Writing, OneActive
  <2>2. CASE to = "observe"
    <3>1. x.phases = [s.phases EXCEPT !["apply"] = status, !["recover"] = "skipped",
                                      !["observe"] = "active"]
      BY <1>9, <2>2
    <3>2. QED
      BY <1>2, <2>2, <3>1 DEF Writing, OneActive
  <2>3. QED
    BY <2>1, <2>2
<1>11. /\ \A d \in x.events : d.type \in Openers \cup (types \cup {"apply-completed"})
       /\ \A d \in x.events : d.type = "phase-completed" => d.phase \in done
  BY <1>1, <1>8 DEF Writing
<1>12. Writing(x, to, types \cup {"apply-completed"}, done)
  BY <1>8, <1>10, <1>11 DEF Writing
<1>13. QED
  BY <1>6, <1>8, <1>10, <1>12 DEF e, ApplyOver

\* s was told of the recovery that was executed.
RecoveryOver(m, s, status, types, done) ==
  \E x : /\ m = Onward(x) /\ Writing(x, "recover", types \cup {"recovery-recorded"}, done)
         /\ x.phases = s.phases /\ x.recovery.status = status /\ x.write = s.write

\* A recovery that was executed is taken.
LEMMA RecoveryTold ==
  ASSUME NEW s, NEW types, NEW done, Writing(s, "recover", types, done),
         "recovery-recorded" \notin types, NEW status \in {"completed", "partial", "unknown"}
  PROVE  RecoveryOver(Emit(s, <<RecoveryRecorded(TRUE, status)>>), s, status, types, done)
<1> DEFINE e == RecoveryRecorded(TRUE, status)
<1>1. e.type = "recovery-recorded" /\ e.status = status /\ e.executed = TRUE
  BY DEF RecoveryRecorded
<1> HIDE DEF e
<1>2. s.phases["recover"] = "active" /\ DOMAIN s.phases = PhaseNames
  BY DEF Writing, OneActive
<1>3. ~Repeats(s, e) /\ e \notin s.events
  <2>1. ASSUME NEW d \in s.events, TerminalEventId(d) = TerminalEventId(e) PROVE FALSE
    <3>1. d.type = "recovery-recorded"
      BY <1>1, <2>1, SameId
    <3>2. QED
      BY <3>1 DEF Writing, Openers
  <2>2. QED
    BY <2>1 DEF Repeats
<1>4. RecoveryAllowed(s, e) /\ IsOpen(s)
  BY <1>1, <1>2 DEF RecoveryAllowed, Writing, IsOpen
<1>5. Accepts(s, e)
  BY <1>1, <1>3, <1>4 DEF Accepts
<1> DEFINE x == Reduce(s, e)
<1>6. Emit(s, <<e>>) = Onward(x)
  BY <1>5, EmitOne DEF OneMore
<1>7. /\ Took(x, s, e, {"recovery"})
      /\ x.recovery = [executed |-> e.executed, status |-> e.status]
  BY <1>1, <1>3, <1>5, ReduceRecovery DEF Writing
<1> HIDE DEF x
<1>8. /\ DOMAIN x = Fields /\ x.counts = s.counts /\ x.exitCode = s.exitCode
      /\ x.phases = s.phases /\ x.write = s.write /\ x.owner = s.owner
      /\ x.results = s.results /\ x.events = s.events \cup {e}
  BY <1>7 DEF Took, Edited, Fields
<1>9. x.recovery.status = status
  BY <1>1, <1>7
<1>10. /\ \A d \in x.events : d.type \in Openers \cup (types \cup {"recovery-recorded"})
       /\ \A d \in x.events : d.type = "phase-completed" => d.phase \in done
  BY <1>1, <1>8 DEF Writing
<1>11. Writing(x, "recover", types \cup {"recovery-recorded"}, done)
  BY <1>8, <1>10 DEF Writing
<1>12. QED
  BY <1>6, <1>8, <1>9, <1>11 DEF e, RecoveryOver

----------------------------------------------------------------------------
(* An apply that changed files, told whole                                  *)

LEMMA JoinsThree ==
  ASSUME NEW s, NEW t, NEW u, IsSeq(s), IsSeq(t), IsSeq(u)
  PROVE  (s \o t) \o u = s \o (t \o u)
BY Joins

\* The phases of an apply that staged everything and was observed.
FullyTold(a, status, to) ==
  \E pf, so, ob, rs, ks :
    /\ pf = <<PhaseCompleted("preflight", "passed")>>
    /\ so = <<PhaseCompleted("stage", "passed"), ApplyCompleted(status, to)>>
    /\ ob = <<PhaseCompleted("observe", "passed")>>
    /\ rs = IF to = "recover" THEN RecoveryEvents(a) ELSE <<>>
    /\ ks = IF to = "recover" THEN <<>> ELSE RetainedCleanupEvidence(a)
    /\ ApplyPhaseEvents(a) = pf \o (((so \o rs) \o ob) \o ks)

LEMMA FullEvents ==
  ASSUME NEW a, a.phases["preflight"] = "passed", a.phases["inspect"] = "passed",
         FoldedPhaseStatus(a, {"lock", "stage"}) = "passed",
         NEW status \in {"passed", "failed"},
         FoldedPhaseStatus(a, {"precommit", "commit"}) = status,
         NEW to \in {"recover", "observe"}, to = "recover" <=> a.phases["recovery"] # "none"
  PROVE  FullyTold(a, status, to)
<1>0. PICK pf, so, ob, rs, ks :
        /\ pf = <<PhaseCompleted("preflight", "passed")>>
        /\ so = <<PhaseCompleted("stage", "passed"), ApplyCompleted(status, to)>>
        /\ ob = <<PhaseCompleted("observe", "passed")>>
        /\ rs = IF to = "recover" THEN RecoveryEvents(a) ELSE <<>>
        /\ ks = IF to = "recover" THEN <<>> ELSE RetainedCleanupEvidence(a)
  OBVIOUS
<1>1. PICK conflicted, preflight, folded, stage, apply, inspected, recovering, observe, kept :
        /\ recovering = (a.phases["recovery"] # "none")
        /\ conflicted = {o \in DOMAIN a.ops : a.ops[o].status = "conflicted"}
        /\ preflight = IF a.phases["preflight"] = "failed" /\ conflicted # {}
                       THEN "blocked" ELSE a.phases["preflight"]
        /\ folded = FoldedPhaseStatus(a, {"lock", "stage"})
        /\ stage = IF folded = "failed" /\ conflicted = DOMAIN a.ops THEN "blocked" ELSE folded
        /\ apply = FoldedPhaseStatus(a, {"precommit", "commit"})
        /\ inspected = (a.phases["inspect"] # "none")
        /\ observe = IF inspected THEN <<PhaseCompleted("observe", a.phases["inspect"])>>
                     ELSE <<>>
        /\ kept = RetainedCleanupEvidence(a)
  OBVIOUS
<1>2. preflight = "passed" /\ stage = "passed" /\ apply = status /\ observe = ob
  BY <1>0, <1>1
<1>3. inspected = TRUE
  BY <1>1
<1>4. recovering = (to = "recover")
  BY <1>1
<1>5. so = <<PhaseCompleted("stage", stage),
             [type |-> "apply-completed", status |-> apply, recoveryRequired |-> recovering,
              observationRequired |-> inspected]>>
  BY <1>0, <1>2, <1>3, <1>4 DEF ApplyCompleted
<1>6. PICK whole : whole = ((so \o (IF recovering THEN RecoveryEvents(a) ELSE <<>>)) \o observe)
                             \o (IF recovering THEN <<>> ELSE kept)
  OBVIOUS
<1>7. PICK sk, st, sa :
        /\ sk = <<[type |-> "stage-completed", observationRequired |-> inspected]>>
        /\ st = <<PhaseCompleted("stage", stage)>>
        /\ sa = <<PhaseCompleted("stage", stage), PhaseCompleted("apply", apply)>>
  OBVIOUS
<1>8. PICK rest :
        rest = CASE preflight # "passed" -> kept
                 [] preflight = "passed" /\ stage = "skipped" -> (sk \o observe) \o kept
                 [] preflight = "passed" /\ stage \notin {"passed", "skipped"} -> st \o kept
                 [] preflight = "passed" /\ stage = "passed" /\ apply = "skipped" ->
                      (sa \o observe) \o kept
                 [] OTHER -> whole
  OBVIOUS
<1>9. rest = whole
  BY <1>2, <1>8
<1>10. ApplyPhaseEvents(a) = <<PhaseCompleted("preflight", preflight)>> \o rest
  BY <1>1, <1>5, <1>6, <1>7, <1>8, Zenon DEF ApplyPhaseEvents
<1>11. QED
  <2>1. PICK kk : kk = IF recovering THEN <<>> ELSE kept
    OBVIOUS
  <2>2. kk = ks
    BY <1>0, <1>1, <1>4, <2>1
  <2>3. whole = ((so \o rs) \o ob) \o ks
    BY <1>0, <1>2, <1>4, <1>6, <2>1, <2>2
  <2>4. ApplyPhaseEvents(a) = pf \o (((so \o rs) \o ob) \o ks)
    BY <1>0, <1>2, <1>9, <1>10, <2>3
  <2>5. QED
    BY <1>0, <2>4 DEF FullyTold

\* The phases of a record after the first events of such an apply.
StagedOver(s, status, to, rest) ==
  \E x, pf, so : /\ pf = <<PhaseCompleted("preflight", "passed")>>
                 /\ so = <<PhaseCompleted("stage", "passed"), ApplyCompleted(status, to)>>
                 /\ Emit(s, pf \o (so \o rest)) = Emit(x, rest)
                 /\ Writing(x, to, {"phase-completed", "apply-completed"},
                            {"preflight", "stage"})
                 /\ x.phases["apply"] = status
                 /\ to = "observe" => x.phases["recover"] = "skipped"

LEMMA StagedTold ==
  ASSUME NEW s, Young(s, "preflight"), DOMAIN s.owner # {},
         NEW status \in {"passed", "failed"}, NEW to \in {"recover", "observe"},
         NEW rest, IsSeq(rest)
  PROVE  StagedOver(s, status, to, rest)
<1>0. PICK pf, so : /\ pf = <<PhaseCompleted("preflight", "passed")>>
                    /\ so = <<PhaseCompleted("stage", "passed"), ApplyCompleted(status, to)>>
  OBVIOUS
<1>1. After["preflight"] = "stage" /\ After["stage"] = "apply"
  BY DEF After
<1>2. Writing(s, "preflight", {}, {})
  BY WriteBegins
<1>3. /\ {} \cup {"phase-completed"} = {"phase-completed"} /\ {} \cup {"preflight"} = {"preflight"}
      /\ {"phase-completed"} \cup {"phase-completed"} = {"phase-completed"}
      /\ {"preflight"} \cup {"stage"} = {"preflight", "stage"}
      /\ {"phase-completed"} \cup {"apply-completed"} = {"phase-completed", "apply-completed"}
  OBVIOUS
<1>4. "passed" \in Ends /\ "preflight" \notin {} /\ "stage" \notin {"preflight"}
  BY DEF Ends
<1>5. PhaseOver(Emit(s, <<PhaseCompleted("preflight", "passed")>>), s, "preflight", "passed",
                {}, {})
  BY <1>2, <1>4, PhaseTold
<1>6. PICK x : /\ Emit(s, <<PhaseCompleted("preflight", "passed")>>) = Onward(x)
               /\ Writing(x, "stage", {"phase-completed"}, {"preflight"})
  BY <1>1, <1>3, <1>5 DEF PhaseOver
<1>7. PhaseOver(Emit(x, <<PhaseCompleted("stage", "passed")>>), x, "stage", "passed",
                {"phase-completed"}, {"preflight"})
  BY <1>4, <1>6, PhaseTold
<1>8. PICK y : /\ Emit(x, <<PhaseCompleted("stage", "passed")>>) = Onward(y)
               /\ Writing(y, "apply", {"phase-completed"}, {"preflight", "stage"})
  BY <1>1, <1>3, <1>7 DEF PhaseOver
<1>9. ApplyOver(Emit(y, <<ApplyCompleted(status, to)>>), y, status, to, {"phase-completed"},
                {"preflight", "stage"})
  <2>1. "apply-completed" \notin {"phase-completed"}
    OBVIOUS
  <2>2. QED
    BY <1>8, <2>1, ApplyTold
<1>10. PICK z : /\ Emit(y, <<ApplyCompleted(status, to)>>) = Onward(z)
                /\ Writing(z, to, {"phase-completed", "apply-completed"}, {"preflight", "stage"})
                /\ z.phases["apply"] = status
                /\ to = "observe" => z.phases["recover"] = "skipped"
  BY <1>3, <1>9 DEF ApplyOver
<1>11. PICK st, ac : /\ st = <<PhaseCompleted("stage", "passed")>>
                     /\ ac = <<ApplyCompleted(status, to)>>
  OBVIOUS
<1>12. so = st \o ac
  BY <1>0, <1>11, Joins
<1>13. IsSeq(pf) /\ IsSeq(st) /\ IsSeq(ac) /\ IsSeq(ac \o rest) /\ IsSeq(st \o (ac \o rest))
  BY <1>0, <1>11, SeqFacts, JoinedSeq
<1>14. so \o rest = st \o (ac \o rest)
  <2>1. IsSeq(st) /\ IsSeq(ac) /\ IsSeq(rest)
    BY <1>13
  <2>2. (st \o ac) \o rest = st \o (ac \o rest)
    BY ONLY <2>1, JoinsThree
  <2>3. QED
    BY <1>12, <2>2
<1>15. Emit(s, pf \o (st \o (ac \o rest))) = Emit(x, st \o (ac \o rest))
  BY <1>0, <1>6, <1>13, EmitJoined
<1>16. Emit(x, st \o (ac \o rest)) = Emit(y, ac \o rest)
  BY <1>8, <1>11, <1>13, EmitJoined
<1>17. Emit(y, ac \o rest) = Emit(z, rest)
  BY <1>10, <1>11, <1>13, EmitJoined
<1>18. Emit(s, pf \o (so \o rest)) = Emit(z, rest)
  BY <1>14, <1>15, <1>16, <1>17
<1>19. QED
  BY <1>0, <1>10, <1>18 DEF StagedOver

\* The results told last: taken, or refused by a record that tells of the write.
TellsWrite(m) == \E x : m = Onward(x) \/ (m = Halted(x) /\ Stuck(x))
LastOver(s, e) ==
  \E ob, res : /\ ob = <<PhaseCompleted("observe", "passed")>> /\ res = <<e>>
               /\ TellsWrite(Emit(s, ob \o res))

LEMMA LastTold ==
  ASSUME NEW s, NEW types, NEW done, Writing(s, "observe", types, done), "observe" \notin done,
         types \cap {"results-recorded", "run-completed"} = {},
         \/ s.phases["apply"] = "passed" /\ s.phases["recover"] = "skipped"
         \/ s.phases["apply"] = "failed" /\ s.recovery.status = "partial",
         NEW e, e.type = "results-recorded"
  PROVE  LastOver(s, e)
<1>0. PICK ob, res : ob = <<PhaseCompleted("observe", "passed")>> /\ res = <<e>>
  OBVIOUS
<1>1. After["observe"] = "complete"
  BY DEF After
<1>2. PICK x : /\ Emit(s, ob) = Onward(x)
               /\ Writing(x, "complete", types \cup {"phase-completed"}, done \cup {"observe"})
               /\ x.phases = [s.phases EXCEPT !["observe"] = "passed", !["complete"] = "active"]
               /\ x.recovery = s.recovery
  <2>1. "passed" \in Ends
    BY DEF Ends
  <2>2. PhaseOver(Emit(s, <<PhaseCompleted("observe", "passed")>>), s, "observe", "passed",
                  types, done)
    BY <2>1, PhaseTold
  <2>3. QED
    BY <1>0, <1>1, <2>2 DEF PhaseOver
<1>3. /\ x.phases["apply"] = s.phases["apply"] /\ x.phases["recover"] = s.phases["recover"]
      /\ x.phases["observe"] = "passed"
  BY <1>2 DEF Writing, OneActive, PhaseNames, WritePhases
<1>4. \A type \in {"results-recorded", "run-completed"} : ~HasTerminalEvent(x, type)
  BY <1>2 DEF Writing, HasTerminalEvent, Openers
<1>5. Stuck(x)
  BY <1>2, <1>3, <1>4 DEF Stuck, Writing, Ongoing, PhaseNames
<1>6. IsSeq(ob) /\ IsSeq(res)
  BY <1>0, SeqFacts
<1>7. Emit(s, ob \o res) = Emit(x, res)
  BY <1>2, <1>6, EmitJoined
<1>8. OneMore(Emit(x, <<e>>), x, e)
  BY EmitOne
<1>9. TellsWrite(Emit(s, ob \o res))
  BY <1>0, <1>5, <1>7, <1>8 DEF OneMore, TellsWrite
<1>10. QED
  BY <1>0, <1>9 DEF LastOver

LEMMA WholePhases ==
  ASSUME NEW ts, NEW a, a = WholeAnswer(ts)
  PROVE  /\ \A n \in {"preflight", "lock", "stage", "precommit", "commit", "inspect"} :
              a.phases[n] = "passed"
         /\ a.phases["recovery"] = "none" /\ a.recovery = "not-needed"
         /\ FoldedPhaseStatus(a, {"lock", "stage"}) = "passed"
         /\ FoldedPhaseStatus(a, {"precommit", "commit"}) = "passed"
<1>1. /\ a.phases = Began(Staged \cup {"commit", "inspect", "cleanup"}, <<>>)
      /\ a.recovery = "not-needed"
  BY EngineAnswerFields DEF WholeAnswer
<1>2. /\ \A n \in {"preflight", "lock", "stage", "precommit", "commit", "inspect"} :
            a.phases[n] = "passed"
      /\ a.phases["recovery"] = "none"
  BY <1>1 DEF Began, Staged, PhaseOrder
<1>3. QED
  BY <1>1, <1>2 DEF FoldedPhaseStatus

LEMMA PartialPhases ==
  ASSUME NEW ts, NEW a, a = PartialAnswer(ts)
  PROVE  /\ \A n \in {"preflight", "lock", "stage", "precommit", "inspect"} :
              a.phases[n] = "passed"
         /\ a.phases["recovery"] = "failed" /\ a.recovery = "partial"
         /\ FoldedPhaseStatus(a, {"lock", "stage"}) = "passed"
         /\ FoldedPhaseStatus(a, {"precommit", "commit"}) = "failed"
<1>1. /\ a.phases = Began(Staged \cup {"inspect"}, [commit |-> "failed", recovery |-> "failed",
                                                    cleanup |-> "unknown"])
      /\ a.recovery = "partial"
  BY EngineAnswerFields DEF PartialAnswer
<1>2. /\ \A n \in {"preflight", "lock", "stage", "precommit", "inspect"} :
            a.phases[n] = "passed"
      /\ a.phases["recovery"] = "failed" /\ a.phases["commit"] = "failed"
  BY <1>1 DEF Began, Staged, PhaseOrder
<1>3. QED
  BY <1>1, <1>2 DEF FoldedPhaseStatus

LEMMA WholeTold ==
  ASSUME NEW s, Young(s, "preflight"), DOMAIN s.owner # {},
         NEW ts, NEW a, a = WholeAnswer(ts)
  PROVE  TellsWrite(Emit(s, ResultEvents(a)))
<1>1. FullyTold(a, "passed", "observe")
  <2>1. /\ a.phases["preflight"] = "passed" /\ a.phases["inspect"] = "passed"
        /\ FoldedPhaseStatus(a, {"lock", "stage"}) = "passed"
        /\ FoldedPhaseStatus(a, {"precommit", "commit"}) = "passed"
        /\ a.phases["recovery"] = "none"
    BY WholePhases
  <2>2. /\ "observe" \in {"recover", "observe"} /\ "passed" \in {"passed", "failed"}
        /\ "observe" = "recover" <=> a.phases["recovery"] # "none"
    BY <2>1
  <2>3. QED
    BY ONLY <2>1, <2>2, FullEvents
<1>2. PICK pf, so, ob, none, left :
        /\ pf = <<PhaseCompleted("preflight", "passed")>>
        /\ so = <<PhaseCompleted("stage", "passed"), ApplyCompleted("passed", "observe")>>
        /\ ob = <<PhaseCompleted("observe", "passed")>>
        /\ none = IF "observe" = "recover" THEN RecoveryEvents(a) ELSE <<>>
        /\ left = IF "observe" = "recover" THEN <<>> ELSE RetainedCleanupEvidence(a)
        /\ ApplyPhaseEvents(a) = pf \o (((so \o none) \o ob) \o left)
  BY <1>1 DEF FullyTold
<1>3. PICK e, res, last, two :
        /\ e = ResultsRecorded(a.owner, ModelResults(a)) /\ res = <<e>>
        /\ last = ob \o res /\ two = so \o ob
  OBVIOUS
<1>4. IsSeq(pf) /\ IsSeq(so) /\ IsSeq(ob) /\ IsSeq(res)
  BY <1>2, <1>3, SeqFacts, TupleSeqs
<1>5. IsSeq(last) /\ IsSeq(two)
  BY <1>3, <1>4, JoinedSeq
<1>6. ApplyPhaseEvents(a) = pf \o two
  <2>1. left = none
    BY <1>2, WholePhases DEF RetainedCleanupEvidence
  <2>2. so \o none = so /\ two \o none = two
    BY <1>2, <1>4, <1>5, Joins
  <2>3. QED
    BY <1>2, <1>3, <2>1, <2>2
<1>7. ResultEvents(a) = (pf \o two) \o res
  BY <1>3, <1>6 DEF ResultEvents
<1>8. ResultEvents(a) = pf \o (so \o last)
  <2>1. (pf \o two) \o res = pf \o (two \o res)
    BY ONLY <1>4, <1>5, JoinsThree
  <2>2. (so \o ob) \o res = so \o (ob \o res)
    BY ONLY <1>4, JoinsThree
  <2>3. QED
    BY <1>3, <1>7, <2>1, <2>2
<1>9. StagedOver(s, "passed", "observe", last)
  BY <1>5, StagedTold
<1>10. PICK x : /\ Emit(s, pf \o (so \o last)) = Emit(x, last)
                /\ Writing(x, "observe", {"phase-completed", "apply-completed"},
                           {"preflight", "stage"})
                /\ x.phases["apply"] = "passed" /\ x.phases["recover"] = "skipped"
  BY <1>2, <1>9 DEF StagedOver
<1>11. e.type = "results-recorded"
  BY <1>3, ResultsType
<1>12. /\ "observe" \notin {"preflight", "stage"}
       /\ {"phase-completed", "apply-completed"} \cap {"results-recorded", "run-completed"} = {}
  OBVIOUS
<1>13. LastOver(x, e)
  BY <1>10, <1>11, <1>12, LastTold
<1>14. TellsWrite(Emit(x, last))
  BY <1>2, <1>3, <1>13 DEF LastOver
<1>15. QED
  BY <1>8, <1>10, <1>14

LEMMA PartialTold ==
  ASSUME NEW s, Young(s, "preflight"), DOMAIN s.owner # {},
         NEW ts, NEW a, a = PartialAnswer(ts)
  PROVE  TellsWrite(Emit(s, ResultEvents(a)))
<1>1. FullyTold(a, "failed", "recover")
  <2>1. /\ a.phases["preflight"] = "passed" /\ a.phases["inspect"] = "passed"
        /\ FoldedPhaseStatus(a, {"lock", "stage"}) = "passed"
        /\ FoldedPhaseStatus(a, {"precommit", "commit"}) = "failed"
        /\ a.phases["recovery"] # "none"
    BY PartialPhases
  <2>2. /\ "recover" \in {"recover", "observe"} /\ "failed" \in {"passed", "failed"}
        /\ "recover" = "recover" <=> a.phases["recovery"] # "none"
    BY <2>1
  <2>3. QED
    BY ONLY <2>1, <2>2, FullEvents
<1>2. PICK pf, so, ob, both, none :
        /\ pf = <<PhaseCompleted("preflight", "passed")>>
        /\ so = <<PhaseCompleted("stage", "passed"), ApplyCompleted("failed", "recover")>>
        /\ ob = <<PhaseCompleted("observe", "passed")>>
        /\ both = IF "recover" = "recover" THEN RecoveryEvents(a) ELSE <<>>
        /\ none = IF "recover" = "recover" THEN <<>> ELSE RetainedCleanupEvidence(a)
        /\ ApplyPhaseEvents(a) = pf \o (((so \o both) \o ob) \o none)
  BY <1>1 DEF FullyTold
<1>3. PICK e, res, rr, rc, last, tail, two, three :
        /\ e = ResultsRecorded(a.owner, ModelResults(a)) /\ res = <<e>>
        /\ rr = <<RecoveryRecorded(TRUE, "partial")>>
        /\ rc = <<PhaseCompleted("recover", "failed")>>
        /\ last = ob \o res /\ tail = rc \o last
        /\ two = so \o both /\ three = two \o ob
  OBVIOUS
<1>4. /\ IsSeq(pf) /\ IsSeq(so) /\ IsSeq(ob) /\ IsSeq(rr) /\ IsSeq(rc) /\ IsSeq(res)
      /\ IsSeq(both)
  BY <1>2, <1>3, SeqFacts, TupleSeqs DEF RecoveryEvents
<1>5. IsSeq(last) /\ IsSeq(tail) /\ IsSeq(two) /\ IsSeq(three)
  <2>1. IsSeq(last) /\ IsSeq(two)
    BY <1>3, <1>4, JoinedSeq
  <2>2. QED
    BY <1>3, <1>4, <2>1, JoinedSeq
<1>6. both = rr \o rc
  <2>1. a.recovery = "partial"
    BY PartialPhases
  <2>2. RecoveryPhaseStatus(a.recovery) = "failed"
    BY <2>1 DEF RecoveryPhaseStatus
  <2>3. both = <<RecoveryRecorded(TRUE, "partial"), PhaseCompleted("recover", "failed")>>
    BY <1>2, <2>1, <2>2 DEF RecoveryEvents
  <2>4. QED
    BY <1>3, <2>3, Joins
<1>7. ResultEvents(a) = (pf \o three) \o res
  <2>1. three \o none = three
    BY <1>2, <1>5, Joins
  <2>2. QED
    BY <1>2, <1>3, <2>1 DEF ResultEvents
<1>8. ResultEvents(a) = pf \o (so \o (rr \o tail))
  <2>1. (pf \o three) \o res = pf \o (three \o res)
    <3>1. IsSeq(pf) /\ IsSeq(three) /\ IsSeq(res)
      BY ONLY <1>4, <1>5
    <3>2. QED
      BY ONLY <3>1, JoinsThree
  <2>2. (two \o ob) \o res = two \o (ob \o res)
    <3>1. IsSeq(two) /\ IsSeq(ob) /\ IsSeq(res)
      BY ONLY <1>4, <1>5
    <3>2. QED
      BY ONLY <3>1, JoinsThree
  <2>3. (so \o both) \o last = so \o (both \o last)
    <3>1. IsSeq(so) /\ IsSeq(both) /\ IsSeq(last)
      BY ONLY <1>4, <1>5
    <3>2. QED
      BY ONLY <3>1, JoinsThree
  <2>4. (rr \o rc) \o last = rr \o (rc \o last)
    <3>1. IsSeq(rr) /\ IsSeq(rc) /\ IsSeq(last)
      BY ONLY <1>4, <1>5
    <3>2. QED
      BY ONLY <3>1, JoinsThree
  <2>5. three \o res = so \o (both \o last)
    BY <1>3, <2>2, <2>3
  <2>6. both \o last = rr \o tail
    BY <1>3, <1>6, <2>4
  <2>7. QED
    BY <1>7, <2>1, <2>5, <2>6
<1>9. IsSeq(rr \o tail)
  BY <1>4, <1>5, JoinedSeq
<1>10. StagedOver(s, "failed", "recover", rr \o tail)
  BY <1>9, StagedTold
<1>11. PICK x : /\ Emit(s, pf \o (so \o (rr \o tail))) = Emit(x, rr \o tail)
                /\ Writing(x, "recover", {"phase-completed", "apply-completed"},
                           {"preflight", "stage"})
                /\ x.phases["apply"] = "failed"
  BY <1>2, <1>10 DEF StagedOver
<1>12. PICK types, done : /\ types = {"phase-completed", "apply-completed"}
                          /\ done = {"preflight", "stage"}
  OBVIOUS
<1>13. RecoveryOver(Emit(x, <<RecoveryRecorded(TRUE, "partial")>>), x, "partial", types, done)
  <2>1. /\ "recovery-recorded" \notin types /\ "partial" \in {"completed", "partial", "unknown"}
        /\ Writing(x, "recover", types, done)
    BY <1>11, <1>12
  <2>2. QED
    BY ONLY <2>1, RecoveryTold
<1>14. PICK more : more = types \cup {"recovery-recorded"}
  OBVIOUS
<1>15. PICK y : /\ Emit(x, <<RecoveryRecorded(TRUE, "partial")>>) = Onward(y)
                /\ Writing(y, "recover", more, done)
                /\ y.phases = x.phases /\ y.recovery.status = "partial"
  BY <1>13, <1>14 DEF RecoveryOver
<1>16. PhaseOver(Emit(y, <<PhaseCompleted("recover", "failed")>>), y, "recover", "failed",
                 more, done)
  <2>1. "failed" \in Ends /\ "recover" \notin done
    BY <1>12 DEF Ends
  <2>2. QED
    BY <1>15, <2>1, PhaseTold
<1>17. PICK all, over : all = more \cup {"phase-completed"} /\ over = done \cup {"recover"}
  OBVIOUS
<1>18. PICK z : /\ Emit(y, <<PhaseCompleted("recover", "failed")>>) = Onward(z)
                /\ Writing(z, "observe", all, over)
                /\ z.phases = [y.phases EXCEPT !["recover"] = "failed", !["observe"] = "active"]
                /\ z.recovery = y.recovery
  BY <1>16, <1>17 DEF PhaseOver, After
<1>19. z.phases["apply"] = "failed" /\ z.recovery.status = "partial"
  BY <1>11, <1>15, <1>18 DEF Writing, OneActive, PhaseNames, WritePhases
<1>20. Emit(x, rr \o tail) = Emit(y, tail)
  BY <1>3, <1>4, <1>5, <1>15, EmitJoined
<1>21. Emit(y, tail) = Emit(z, last)
  BY <1>3, <1>4, <1>5, <1>18, EmitJoined
<1>22. e.type = "results-recorded"
  BY <1>3, ResultsType
<1>23. "observe" \notin over /\ all \cap {"results-recorded", "run-completed"} = {}
  BY <1>12, <1>14, <1>17
<1>24. LastOver(z, e)
  BY <1>18, <1>19, <1>22, <1>23, LastTold
<1>25. TellsWrite(Emit(z, last))
  BY <1>2, <1>3, <1>24 DEF LastOver
<1>26. QED
  BY <1>8, <1>11, <1>20, <1>21, <1>25

----------------------------------------------------------------------------
(* What the record of a run says, wherever the run is                       *)

\* What the record may not say: that a file the engine changed was not attempted.
Truth(s) == \A p \in ChangedFiles \cap DOMAIN s.results : s.results[p].outcome # "not-attempted"

\* The record of a run that has selected nothing yet, and of one that has.
Going(s) == s.write = run.write /\ \E q \in Undecided : Young(s, q)
Decided(s) ==
  s.write = run.write /\ Young(s, IF run.write THEN "preflight" ELSE "complete")

\* The record of a run that only ends: it took the engine's answer, and can be
\* closed with it; or it refused it, and no end of the run can say that nothing
\* was attempted.
Ready(s, ok) ==
  /\ ok => Closable(s)
  /\ ok /\ ChangedFiles # {} => Reported(s) /\ Truth(s)
  /\ ~ok /\ ChangedFiles # {} => Stuck(s) \/ \E q \in Undecided : Young(s, q)

\* The inductive invariant of the record: nothing selected before the apply, its
\* selection told when it begins (a screen's run tells it first), Ready once the
\* answer was told; at the end, what was to be shown.
RecordKept ==
  /\ answer = PlanBlocked => ~run.visual
  /\ run.recorded =>
       /\ pc \in Opening \cup {"prepare", "apply"} => Going(record)
       /\ pc \in {"applying", "told"} =>
            IF run.visual THEN /\ Decided(record)
                               /\ pc = "applying" \/ Executed => record.owner = OwnerOf(Approved)
            ELSE Going(record)
       /\ pc \in {"complete", "post", "exit"} => Ready(record, told)
       /\ pc = "complete" /\ ~run.write /\ ~run.visual => Going(record)
  /\ pc = "done" => RecordIsTrue

\* What an emission comes to, for the record.
EmitsTo(m, n) ==
  /\ m.ok = TRUE \/ m.ok = FALSE
  /\ \A x : n = Onward(x) => m.record = x /\ m.ok = TRUE
  /\ \A x : n = Halted(x) => m.record = x /\ m.ok = FALSE

LEMMA RecordEmitted ==
  ASSUME RunTyped, run.recorded, NEW rec, NEW scr, Showing(scr), NEW events,
         Len(events) \in Nat, NEW m \in Emission(rec, scr, events)
  PROVE  Showing(m.screen) /\ EmitsTo(m, Emit(rec, events))
<1>1. run.recorded \in BOOLEAN
  BY DEF RunTyped
<1>2. EmissionOf(m, rec, scr, events)
  BY <1>1, EmissionKept
<1>3. Showing(m.screen) /\ m.ok \in BOOLEAN
  BY <1>2 DEF EmissionOf
<1>4. [state |-> m.record, ok |-> m.ok] = Emit(rec, events)
  BY <1>2 DEF EmissionOf
<1>5. Emit(rec, events).state = m.record
  BY <1>4
<1>6. Emit(rec, events).ok = m.ok
  BY <1>4
<1>7. ASSUME NEW x, Emit(rec, events) = Onward(x) PROVE m.record = x /\ m.ok = TRUE
  <2>1. Onward(x).state = x
    BY EmittedFields
  <2>2. Onward(x).ok = TRUE
    BY EmittedFields
  <2>3. m.ok = TRUE
    BY <1>6, <1>7, <2>2
  <2>4. QED
    BY <1>5, <1>7, <2>1, <2>3
<1>8. ASSUME NEW x, Emit(rec, events) = Halted(x) PROVE m.record = x /\ m.ok = FALSE
  <2>1. Halted(x).state = x
    BY EmittedFields
  <2>2. Halted(x).ok = FALSE
    BY EmittedFields
  <2>3. m.ok = FALSE
    BY <1>6, <1>8, <2>2
  <2>4. QED
    BY <1>5, <1>8, <2>1, <2>3
<1>9. QED
  BY <1>3, <1>7, <1>8 DEF EmitsTo

LEMMA NothingChanged ==
  /\ answer = NoAnswer => ChangedFiles = {}
  /\ ~Executed => ChangedFiles = {}
BY DEF ChangedFiles, Executed, NoAnswer

LEMMA EarlyReady ==
  ASSUME ChangedFiles = {}, NEW s, Going(s) \/ Decided(s) \/ Closable(s), NEW ok
  PROVE  Ready(s, ok)
<1>1. Closable(s)
  BY DEF Going, Decided, Closable, Early
<1>2. QED
  BY <1>1 DEF Ready

LEMMA FailedTrue ==
  ASSUME run.recorded, NEW s, NEW ok, ok = TRUE \/ ok = FALSE, Ready(s, ok)
  PROVE  Truth(FailedRecord(s)) /\ (ok = TRUE => FailedRecord(s).exitCode = 2)
<1>1. CASE ok = TRUE
  <2>1. Closable(s) /\ (ChangedFiles # {} => Reported(s) /\ Truth(s))
    BY <1>1 DEF Ready
  <2>2. FailedRecord(s).exitCode = 2 /\ (Reported(s) => FailedRecord(s).results = s.results)
    BY <2>1, FailedCloses
  <2>3. QED
    BY <2>1, <2>2 DEF Truth
<1>2. CASE ok = FALSE
  <2>1. CASE ChangedFiles = {}
    BY <1>2, <2>1 DEF Truth
  <2>2. CASE Stuck(s)
    <3>1. FailedRecord(s).results = <<>>
      BY <2>2, StuckStays
    <3>2. QED
      BY <1>2, <3>1 DEF Truth
  <2>3. ASSUME NEW q \in Undecided, Young(s, q)
        PROVE  Truth(FailedRecord(s))
    <3>1. Closable(s) /\ s.owner = <<>> /\ ~Reported(s)
      <4>1. ~HasTerminalEvent(s, "results-recorded")
        BY <2>3, YoungOngoing DEF Openers
      <4>2. QED
        BY <2>3, <4>1 DEF Young, Closable, Reported, Early
    <3>2. DOMAIN FailedRecord(s).results = DOMAIN s.owner
      BY <3>1, FailedCloses
    <3>3. DOMAIN s.owner = {}
      BY <3>1
    <3>4. QED
      BY <3>2, <3>3 DEF Truth
  <2>4. QED
    BY <1>2, <2>1, <2>2, <2>3 DEF Ready
<1>3. QED
  BY <1>1, <1>2

\* Nothing that the record is compared with changes.
Still == run' = run /\ answer' = answer

LEMMA StillSame ==
  ASSUME Still
  PROVE  /\ ChangedFiles' = ChangedFiles /\ Executed' = Executed
         /\ \A s : (Truth(s))' <=> Truth(s')
BY DEF Still, ChangedFiles, Executed, Truth

\* A run that ends with a record of which this is true.
LEMMA OverTrue ==
  ASSUME Typing, RecordKept, Still, pc' = "done",
         run.recorded /\ ret' # Null =>
           /\ told' = TRUE /\ screen'.state # "failed" => record'.exitCode = ret'
           /\ Truth(record')
  PROVE  RecordKept'
<1>1. run' = run /\ answer' = answer /\ ChangedFiles' = ChangedFiles
  BY StillSame DEF Still
<1>2. RecordIsTrue'
  <2>1. SUFFICES ASSUME ret' # Null, run.recorded
                 PROVE  /\ told' /\ screen'.state # "failed" => record'.exitCode = ret'
                        /\ \A p \in ChangedFiles \cap DOMAIN record'.results :
                             record'.results[p].outcome # "not-attempted"
    BY <1>1 DEF RecordIsTrue, Returned
  <2>2. QED
    BY <2>1 DEF Truth
<1>3. QED
  BY <1>1, <1>2 DEF RecordKept, Opening

LEMMA AbortRecord ==
  ASSUME Typing, RecordKept, NEW rec, NEW scr, Abort(rec, scr), answer' = answer,
         told' = TRUE \/ told' = FALSE, run.recorded => Ready(rec, told')
  PROVE  RecordKept'
<1>1. pc' = "done" /\ ret' = 2 /\ run' = run /\ record' = FailedRecord(rec)
  BY DEF Abort
<1>2. run.recorded => /\ Truth(FailedRecord(rec))
                      /\ told' = TRUE => FailedRecord(rec).exitCode = 2
  BY FailedTrue
<1>3. QED
  BY <1>1, <1>2, OverTrue DEF Still

LEMMA EarlyAbort ==
  ASSUME Typing, RecordKept, NEW rec, NEW scr, Abort(rec, scr), answer' = answer, told' = told,
         ChangedFiles = {}, run.recorded => Going(rec) \/ Decided(rec) \/ Closable(rec)
  PROVE  RecordKept'
<1>1. run.recorded => Ready(rec, told')
  BY EarlyReady
<1>2. told' = TRUE \/ told' = FALSE
  BY DEF Typing
<1>3. QED
  BY <1>1, <1>2, AbortRecord

LEMMA EarlyOnward ==
  ASSUME Typing, RecordKept, NEW rec, record' = rec, Still,
         pc' \in Opening \cup {"prepare", "apply"}, run.recorded => Going(rec)
  PROVE  RecordKept'
<1>1. run.recorded => Going(record)'
  BY DEF Going, Still
<1>2. QED
  BY <1>1 DEF RecordKept, Still, Opening

LEMMA EarlyGoto ==
  ASSUME Typing, RecordKept, NEW rec, NEW scr, NEW label, Goto(label, rec, scr),
         answer' = answer, label \in Opening \cup {"prepare", "apply"}, run.recorded => Going(rec)
  PROVE  RecordKept'
BY EarlyOnward DEF Goto, Still

\* The record while the run opens.
LEMMA OpenedOnce ==
  ASSUME NEW s, Going(s), NEW e, Opens(e), NEW m, EmitsTo(m, Emit(s, <<e>>))
  PROVE  Going(m.record)
<1>1. PICK q \in Undecided : Young(s, q)
  BY DEF Going
<1>2. OneMore(Emit(s, <<e>>), s, e)
  BY EmitOne
<1>3. CASE Accepts(s, e) /\ Emit(s, <<e>>) = Onward(Reduce(s, e))
  <2>1. m.record = Reduce(s, e)
    BY <1>3 DEF EmitsTo
  <2>2. Reduce(s, e).write = s.write /\ \E n \in Undecided : Young(Reduce(s, e), n)
    BY <1>1, <1>3, OpeningKept
  <2>3. QED
    BY <2>1, <2>2 DEF Going
<1>4. CASE Emit(s, <<e>>) = Halted(s)
  BY <1>4 DEF EmitsTo
<1>5. QED
  BY <1>2, <1>3, <1>4 DEF OneMore

LEMMA OpenedTwice ==
  ASSUME NEW s, Going(s), NEW d, NEW e, Opens(d), Opens(e), NEW m, EmitsTo(m, Emit(s, <<d, e>>))
  PROVE  Going(m.record)
<1>1. PICK q \in Undecided : Young(s, q)
  BY DEF Going
<1>2. CASE Accepts(s, d) /\ OneMore(Emit(s, <<d, e>>), Reduce(s, d), e)
  <2>1. PICK x : x = Reduce(s, d)
    OBVIOUS
  <2>2. x.write = run.write /\ \E n \in Undecided : Young(x, n)
    BY <1>1, <1>2, <2>1, OpeningKept DEF Going
  <2>3. PICK n \in Undecided : Young(x, n)
    BY <2>2
  <2>4. CASE Accepts(x, e) /\ Emit(s, <<d, e>>) = Onward(Reduce(x, e))
    <3>1. m.record = Reduce(x, e)
      BY <2>4 DEF EmitsTo
    <3>2. Reduce(x, e).write = x.write /\ \E k \in Undecided : Young(Reduce(x, e), k)
      BY <2>3, <2>4, OpeningKept
    <3>3. QED
      BY <2>2, <3>1, <3>2 DEF Going
  <2>5. CASE Emit(s, <<d, e>>) = Halted(x)
    <3>1. m.record = x
      BY <2>5 DEF EmitsTo
    <3>2. QED
      BY <2>2, <3>1 DEF Going
  <2>6. QED
    BY <1>2, <2>1, <2>4, <2>5 DEF OneMore
<1>3. CASE Emit(s, <<d, e>>) = Halted(s)
  BY <1>3 DEF EmitsTo
<1>4. QED
  BY <1>2, <1>3, EmitTwo

\* The selection, told to a record that has none.
Selected(m, owner) ==
  \/ m.ok = TRUE /\ Decided(m.record) /\ m.record.owner = owner
  \/ m.ok = FALSE /\ Going(m.record)

LEMMA SelectedOnce ==
  ASSUME NEW s, Going(s), NEW owner, NEW m, EmitsTo(m, Emit(s, <<SelectionCompleted(owner)>>))
  PROVE  Selected(m, owner)
<1>1. PICK q \in Undecided : Young(s, q)
  BY DEF Going
<1>2. PICK e : e = SelectionCompleted(owner)
  OBVIOUS
<1>3. OneMore(Emit(s, <<e>>), s, e)
  BY EmitOne
<1>4. CASE Accepts(s, e) /\ Emit(s, <<e>>) = Onward(Reduce(s, e))
  <2>1. m.record = Reduce(s, e) /\ m.ok = TRUE
    BY <1>2, <1>4 DEF EmitsTo
  <2>2. /\ Reduce(s, e).write = s.write /\ Reduce(s, e).owner = owner
        /\ Young(Reduce(s, e), IF s.write THEN "preflight" ELSE "complete")
    BY <1>1, <1>2, <1>4, SelectionKept
  <2>3. QED
    BY <2>1, <2>2 DEF Going, Decided, Selected
<1>5. CASE Emit(s, <<e>>) = Halted(s)
  BY <1>2, <1>5 DEF EmitsTo, Selected
<1>6. QED
  BY <1>3, <1>4, <1>5 DEF OneMore

\* An abort of a run whose record is closed and whose screen failed.
LEMMA BrokenOver ==
  ASSUME Typing, RecordKept, Still, run.recorded => run.visual, NEW rec, NEW scr, Abort(rec, scr),
         Showing(scr), scr.state = "failed", run.recorded => rec.exitCode # Null /\ Truth(rec)
  PROVE  RecordKept'
<1>1. Caught(rec, scr)
  BY AbortCaught DEF Typing
<1>2. run.recorded => screen'.state = "failed"
  BY <1>1 DEF Caught
<1>3. run.recorded => FailedRecord(rec) = rec
  BY DEF FailedRecord
<1>4. pc' = "done" /\ record' = FailedRecord(rec)
  BY <1>1 DEF Caught
<1>5. QED
  BY <1>2, <1>3, <1>4, OverTrue

LEMMA FinalizeRecord ==
  ASSUME Typing, RecordKept, Still, told' = TRUE, NEW rec, NEW scr, Showing(scr),
         NEW code \in {0, 1, 2}, NEW receipt, FinalizeRun(rec, scr, code, receipt),
         run.recorded, Ready(rec, TRUE)
  PROVE  RecordKept'
<1>1. CASE scr.reported
  BY <1>1, AbortRecord DEF FinalizeRun, Still
<1>2. CASE ~scr.reported
  <2>1. Closable(rec) /\ (ChangedFiles # {} => Reported(rec) /\ Truth(rec))
    BY DEF Ready
  <2>2. rec.exitCode = Null
    BY <2>1 DEF Closable, Young, Clean, Reported, Ongoing
  <2>3. PICK m \in Emission(rec, scr, FinalEvents(rec, code)) :
         IF ~m.ok \/ m.screen.reported THEN Abort(m.record, m.screen)
         ELSE \E o \in IF run.visual THEN Finalize(m.screen, m.record, receipt)
                       ELSE {Ok(m.screen)} :
                IF o.threw \/ o.r.reported THEN Abort(m.record, o.r)
                ELSE record' = m.record /\ ret' = code /\ pc' = "done"
    BY <1>2, <2>2 DEF FinalizeRun
  <2>4. RunTyped /\ Len(FinalEvents(rec, code)) \in Nat
    BY FinalLength DEF Typing
  <2>5. Showing(m.screen) /\ EmitsTo(m, Emit(rec, FinalEvents(rec, code)))
    BY <2>4, RecordEmitted
  <2>6. PICK x : \/ /\ Emit(rec, FinalEvents(rec, code)) = Onward(x) /\ x.exitCode = code
                    /\ Reported(rec) => x.results = rec.results
                 \/ /\ Emit(rec, FinalEvents(rec, code)) = Halted(x) /\ Closable(x)
                    /\ Reported(rec) => x = rec
    BY <2>1, EndTold
  <2>7. CASE /\ Emit(rec, FinalEvents(rec, code)) = Onward(x) /\ x.exitCode = code
             /\ Reported(rec) => x.results = rec.results
    <3>1. m.record = x /\ m.ok = TRUE
      BY <2>5, <2>7 DEF EmitsTo
    <3>2. Truth(x) /\ x.exitCode # Null
      BY <2>1, <2>7 DEF Truth, Null
    <3>3. CASE m.screen.reported
      <4>1. run.visual /\ m.screen.state = "failed"
        BY <2>5, <3>3 DEF Showing, NewRenderer, Rendered
      <4>2. Abort(m.record, m.screen)
        BY <2>3, <3>3
      <4>3. QED
        BY <2>5, <3>1, <3>2, <4>1, <4>2, BrokenOver
    <3>4. CASE ~m.screen.reported
      <4>1. PICK o \in IF run.visual THEN Finalize(m.screen, m.record, receipt)
                       ELSE {Ok(m.screen)} :
                IF o.threw \/ o.r.reported THEN Abort(m.record, o.r)
                ELSE record' = m.record /\ ret' = code /\ pc' = "done"
        BY <2>3, <3>1, <3>4
      <4>2. CASE Abort(m.record, o.r) /\ run.visual /\ Broke(o, m.screen)
        <5>1. Showing(o.r) /\ o.r.state = "failed"
          BY <4>2 DEF Broke, Showing
        <5>2. QED
          BY <3>1, <3>2, <4>2, <5>1, BrokenOver
      <4>3. CASE record' = m.record /\ ret' = code /\ pc' = "done"
        BY <2>7, <3>1, <3>2, <4>3, OverTrue
      <4>4. CASE run.visual
        <5>1. Rendered(m.screen) /\ o \in Finalize(m.screen, m.record, receipt)
          BY <2>5, <4>1, <4>4 DEF Showing
        <5>2. Broke(o, m.screen) \/ Ended(o)
          BY <5>1, FinalizeRendered
        <5>3. CASE Broke(o, m.screen)
          <6>1. o.threw = TRUE
            BY <5>3 DEF Broke
          <6>2. QED
            BY <4>1, <4>2, <4>4, <5>3, <6>1
        <5>4. CASE Ended(o)
          <6>1. o.threw = FALSE /\ o.r.reported = FALSE
            BY <5>4 DEF Ended
          <6>2. QED
            BY <4>1, <4>3, <6>1
        <5>5. QED
          BY <5>2, <5>3, <5>4
      <4>5. CASE ~run.visual
        <5>1. o.r = m.screen /\ o.threw = FALSE
          BY <4>1, <4>5, OutcomeFields
        <5>2. QED
          BY <3>4, <4>1, <4>3, <5>1
      <4>6. QED
        BY <4>4, <4>5
    <3>5. QED
      BY <3>3, <3>4
  <2>8. CASE /\ Emit(rec, FinalEvents(rec, code)) = Halted(x) /\ Closable(x)
             /\ Reported(rec) => x = rec
    <3>1. m.record = x /\ m.ok = FALSE
      BY <2>5, <2>8 DEF EmitsTo
    <3>2. Ready(x, TRUE)
      BY <2>1, <2>8 DEF Ready
    <3>3. Abort(m.record, m.screen)
      BY <2>3, <3>1
    <3>4. QED
      BY <3>1, <3>2, <3>3, AbortRecord DEF Still
  <2>9. QED
    BY <2>6, <2>7, <2>8
<1>3. QED
  BY <1>1, <1>2

\* Where no record is kept nothing is asked of it.
LEMMA FinalizeUnrecorded ==
  ASSUME Typing, RecordKept, Still, NEW rec, NEW scr, NEW code, NEW receipt,
         FinalizeRun(rec, scr, code, receipt), ~run.recorded
  PROVE  RecordKept'
<1>1. pc' = "done"
  BY FinalizeOver DEF Over
<1>2. QED
  BY <1>1, OverTrue

LEMMA EarlyFacts ==
  ASSUME Control, RecordKept, ScreenKept, pc \in Opening \cup {"prepare", "apply"}
  PROVE  /\ Typing /\ RunTyped /\ ChangedFiles = {} /\ told = TRUE /\ Showing(screen)
         /\ run.recorded => Going(record)
         /\ run.recorded = TRUE \/ run.recorded = FALSE
<1>1. answer = NoAnswer /\ told = TRUE /\ Typing /\ RunTyped
  BY DEF Control, AnswerKept, LoopKept, Typing, Untold
<1>2. pc # "done"
  BY DEF Opening
<1>3. run.recorded = TRUE \/ run.recorded = FALSE
  BY <1>1 DEF RunTyped
<1>4. QED
  BY <1>1, <1>2, <1>3, NothingChanged DEF RecordKept, ScreenKept

\* The events told to an undecided record.
LEMMA OpeningEmitted ==
  ASSUME RunTyped, NEW scr, Showing(scr), run.recorded => Going(record), NEW d, Opens(d)
  PROVE  /\ \A m \in Emission(record, scr, <<d>>) :
              Showing(m.screen) /\ (run.recorded => Going(m.record))
         /\ \A e : Opens(e) => \A m \in Emission(record, scr, <<d, e>>) :
              Showing(m.screen) /\ (run.recorded => Going(m.record))
<1>1. ASSUME NEW m \in Emission(record, scr, <<d>>)
      PROVE  Showing(m.screen) /\ (run.recorded => Going(m.record))
  <2>1. Showing(m.screen)
    BY <1>1, EmissionShowing, LenTuples
  <2>2. ASSUME run.recorded PROVE Going(m.record)
    <3>1. EmitsTo(m, Emit(record, <<d>>))
      BY <1>1, <2>2, RecordEmitted, LenTuples
    <3>2. QED
      BY <2>2, <3>1, OpenedOnce
  <2>3. QED
    BY <2>1, <2>2
<1>2. ASSUME NEW e, Opens(e), NEW m \in Emission(record, scr, <<d, e>>)
      PROVE  Showing(m.screen) /\ (run.recorded => Going(m.record))
  <2>1. Showing(m.screen)
    BY <1>2, EmissionShowing, LenTuples
  <2>2. ASSUME run.recorded PROVE Going(m.record)
    <3>1. EmitsTo(m, Emit(record, <<d, e>>))
      BY <1>2, <2>2, RecordEmitted, LenTuples
    <3>2. QED
      BY <1>2, <2>2, <3>1, OpenedTwice
  <2>3. QED
    BY <2>1, <2>2
<1>3. QED
  BY <1>1, <1>2

LEMMA BeginRecord ==
  ASSUME Control, RecordKept, ScreenKept, Begin \/ Loaded \/ Launch \/ Resolve \/ Raise
  PROVE  RecordKept'
<1>1. pc \in Opening
  BY DEF Begin, Loaded, Launch, Resolve, Raise, Opening
<1>2. /\ Typing /\ RunTyped /\ ChangedFiles = {} /\ told = TRUE /\ Showing(screen)
      /\ run.recorded => Going(record)
  BY <1>1, EarlyFacts
<1>3. answer' = answer /\ told' = told
  BY DEF Begin, Loaded, Launch, Resolve, Raise, work
<1>4. ASSUME NEW scr, Abort(record, scr) PROVE RecordKept'
  BY <1>2, <1>3, <1>4, EarlyAbort
<1>5. ASSUME NEW scr, NEW label \in Opening, Goto(label, record, scr) PROVE RecordKept'
  BY <1>2, <1>3, <1>5, EarlyGoto
<1>6. CASE Begin
  <2>1. CASE Abort(record, screen)
    BY <1>4, <2>1
  <2>2. ASSUME NEW o \in IF run.visual THEN Start(screen, record) ELSE {Ok(screen)},
               IF o.threw THEN Abort(record, o.r) ELSE Goto("load", record, o.r)
        PROVE  RecordKept'
    <3>1. "load" \in Opening
      BY DEF Opening
    <3>2. CASE o.threw
      BY <1>4, <2>2, <3>2
    <3>3. CASE ~o.threw
      BY <1>5, <2>2, <3>1, <3>3
    <3>4. QED
      BY <3>2, <3>3
  <2>3. QED
    BY <1>6, <2>1, <2>2 DEF Begin
<1>7. CASE Loaded
  <2>1. PICK h \in Durably(screen, TRUE) :
        IF h.threw THEN Abort(record, h.r)
        ELSE \E b \in IF run.visual THEN BeginSuspension(h.r, record) ELSE {Ok(h.r)} :
               /\ record' = record /\ UNCHANGED run
               /\ screen' = b.r /\ pc' = IF b.threw THEN "raise" ELSE "launch"
    BY <1>7 DEF Loaded
  <2>2. CASE Abort(record, h.r)
    BY <1>4, <2>2
  <2>3. CASE ~Abort(record, h.r)
    <3>1. record' = record /\ run' = run /\ pc' \in Opening
      BY <2>1, <2>3 DEF Opening
    <3>2. QED
      BY <1>2, <1>3, <3>1, EarlyOnward DEF Still
  <2>4. QED
    BY <2>2, <2>3
<1>8. CASE Launch
  <2>1. "launch" \in Opening /\ "resolve" \in Opening
    BY DEF Opening
  <2>2. QED
    BY <1>4, <1>5, <1>8, <2>1 DEF Launch
<1>9. CASE Resolve
  <2>1. "resolve" \in Opening /\ Goto("resolve", record, screen)
    BY <1>9 DEF Resolve, Opening
  <2>2. QED
    BY <1>5, <2>1
<1>10. CASE Raise
  BY <1>4, <1>10 DEF Raise
<1>11. QED
  BY <1>6, <1>7, <1>8, <1>9, <1>10

LEMMA LoadRecord ==
  ASSUME Control, RecordKept, ScreenKept, Load
  PROVE  RecordKept'
<1>1. pc \in Opening
  BY DEF Load, Opening
<1>2. /\ Typing /\ RunTyped /\ ChangedFiles = {} /\ told = TRUE /\ Showing(screen)
      /\ run.recorded => Going(record)
  BY <1>1, EarlyFacts
<1>3. answer' = answer /\ told' = told
  BY DEF Load, work
<1>4. CASE Abort(record, screen)
  BY <1>2, <1>3, <1>4, EarlyAbort
<1>5. CASE ~Abort(record, screen)
  <2>1. PICK n \in {0, N} :
          \E m \in Emission(record, screen,
                 <<[type |-> "packages-discovered", packages |-> n, declared |-> n],
                   [type |-> "repository-inspection-started"]>>) :
          \/ Abort(m.record, m.screen)
          \/ pc' = "inspect" /\ record' = m.record /\ UNCHANGED run
    BY <1>5 DEF Load
  <2>2. PICK d, e : /\ d = [type |-> "packages-discovered", packages |-> n, declared |-> n]
                    /\ e = [type |-> "repository-inspection-started"]
    OBVIOUS
  <2>3. PICK m \in Emission(record, screen, <<d, e>>) :
          \/ Abort(m.record, m.screen)
          \/ pc' = "inspect" /\ record' = m.record /\ UNCHANGED run
    BY <2>1, <2>2
  <2>4. Opens(d) /\ Opens(e)
    BY <2>2 DEF Opens
  <2>5. Showing(m.screen) /\ (run.recorded => Going(m.record))
    BY <1>2, <2>3, <2>4, OpeningEmitted
  <2>6. CASE Abort(m.record, m.screen)
    BY <1>2, <1>3, <2>5, <2>6, EarlyAbort
  <2>7. CASE pc' = "inspect" /\ record' = m.record /\ UNCHANGED run
    BY <1>2, <1>3, <2>5, <2>7, EarlyOnward DEF Still, Opening
  <2>8. QED
    BY <2>3, <2>6, <2>7
<1>6. QED
  BY <1>4, <1>5

LEMMA InspectRecord ==
  ASSUME Control, RecordKept, ScreenKept, Inspect
  PROVE  RecordKept'
<1>1. pc \in Opening
  BY DEF Inspect, Opening
<1>2. /\ Typing /\ RunTyped /\ ChangedFiles = {} /\ told = TRUE /\ Showing(screen)
      /\ run.recorded => Going(record)
  BY <1>1, EarlyFacts
<1>3. answer' = answer /\ told' = told
  BY DEF Inspect, work
<1>4. PICK d : d = [type |-> "repository-inspection-completed", status |-> "passed"]
  OBVIOUS
<1>5. PICK o \in IF run.visual THEN SetRunMetadata(screen, record) ELSE {Ok(screen)} :
       IF o.threw \/ o.r.reported THEN Abort(record, o.r)
       ELSE \E m \in Emission(record, o.r, <<d>>) :
            \E h \in Durably(m.screen, TRUE) :
              IF h.threw THEN Abort(m.record, h.r)
              ELSE Goto(IF count = 0 THEN "empty" ELSE "loaded", m.record, h.r)
  BY <1>4 DEF Inspect
<1>6. Showing(o.r)
  <2>1. CASE run.visual
    BY <1>2, <1>5, <2>1, MetadataRendered DEF Showing, Broke
  <2>2. CASE ~run.visual
    BY <1>2, <1>5, <2>2, OutcomeFields
  <2>3. QED
    BY <2>1, <2>2
<1>7. CASE Abort(record, o.r)
  BY <1>2, <1>3, <1>7, EarlyAbort
<1>8. CASE ~Abort(record, o.r)
  <2>1. PICK m \in Emission(record, o.r, <<d>>) :
            \E h \in Durably(m.screen, TRUE) :
              IF h.threw THEN Abort(m.record, h.r)
              ELSE Goto(IF count = 0 THEN "empty" ELSE "loaded", m.record, h.r)
    BY <1>5, <1>8
  <2>2. PICK h \in Durably(m.screen, TRUE) :
              IF h.threw THEN Abort(m.record, h.r)
              ELSE Goto(IF count = 0 THEN "empty" ELSE "loaded", m.record, h.r)
    BY <2>1
  <2>3. Opens(d)
    BY <1>4 DEF Opens
  <2>4. run.recorded => Going(m.record)
    BY <1>2, <1>6, <2>1, <2>3, OpeningEmitted
  <2>5. PICK label : label = IF count = 0 THEN "empty" ELSE "loaded"
    OBVIOUS
  <2>6. label \in Opening
    BY <2>5 DEF Opening
  <2>7. CASE Abort(m.record, h.r)
    BY <1>2, <1>3, <2>4, <2>7, EarlyAbort
  <2>8. CASE Goto(label, m.record, h.r)
    BY <1>2, <1>3, <2>4, <2>6, <2>8, EarlyGoto
  <2>9. QED
    BY <2>2, <2>5, <2>7, <2>8
<1>9. QED
  BY <1>7, <1>8

LEMMA ResolutionRecord ==
  ASSUME Control, RecordKept, ScreenKept, ResolutionEnds
  PROVE  RecordKept'
<1>1. pc \in Opening /\ pc \in Suspended
  BY DEF ResolutionEnds, Opening, Suspended
<1>2. /\ Typing /\ RunTyped /\ ChangedFiles = {} /\ told = TRUE /\ Showing(screen)
      /\ run.recorded => Going(record)
  BY <1>1, EarlyFacts
<1>3. answer' = answer /\ told' = told
  BY DEF ResolutionEnds, work
<1>4. PICK d : d = [type |-> "resolution-completed", status |-> "passed",
                    eligible |-> count, updates |-> Cardinality(Updated),
                    unresolved |-> Cardinality({p \in Found : fate[p] = "error"})]
  OBVIOUS
<1>5. PICK o \in IF run.visual THEN EndSuspension(screen, record) ELSE {Ok(screen)} :
        IF o.threw THEN Abort(record, o.r)
        ELSE \E m \in Emission(record, o.r, <<d>>) : Goto("prepare", m.record, m.screen)
  BY <1>4 DEF ResolutionEnds
<1>6. Showing(o.r)
  <2>1. CASE run.visual
    BY <1>1, <1>2, <1>5, <2>1, EndRendered DEF Showing, ScreenKept
  <2>2. CASE ~run.visual
    BY <1>2, <1>5, <2>2, OutcomeFields
  <2>3. QED
    BY <2>1, <2>2
<1>7. CASE Abort(record, o.r)
  BY <1>2, <1>3, <1>7, EarlyAbort
<1>8. CASE ~Abort(record, o.r)
  <2>1. PICK m \in Emission(record, o.r, <<d>>) : Goto("prepare", m.record, m.screen)
    BY <1>5, <1>8
  <2>2. Opens(d)
    BY <1>4 DEF Opens
  <2>3. run.recorded => Going(m.record)
    BY <1>2, <1>6, <2>1, <2>2, OpeningEmitted
  <2>4. QED
    BY <1>2, <1>3, <2>1, <2>3, EarlyGoto
<1>9. QED
  BY <1>7, <1>8

\* A run without packages tells its resolution and its selection.
LEMMA EmptyEmitted ==
  ASSUME NEW s, Going(s), NEW d, Opens(d), NEW owner, NEW m,
         EmitsTo(m, Emit(s, <<d, SelectionCompleted(owner)>>))
  PROVE  Going(m.record) \/ Decided(m.record)
<1>1. PICK q \in Undecided : Young(s, q)
  BY DEF Going
<1>2. PICK e : e = SelectionCompleted(owner)
  OBVIOUS
<1>3. EmitsTo(m, Emit(s, <<d, e>>))
  BY <1>2
<1>4. CASE Accepts(s, d) /\ OneMore(Emit(s, <<d, e>>), Reduce(s, d), e)
  <2>1. PICK x : x = Reduce(s, d)
    OBVIOUS
  <2>2. x.write = run.write /\ \E n \in Undecided : Young(x, n)
    BY <1>1, <1>4, <2>1, OpeningKept DEF Going
  <2>3. PICK n \in Undecided : Young(x, n)
    BY <2>2
  <2>4. CASE Accepts(x, e) /\ Emit(s, <<d, e>>) = Onward(Reduce(x, e))
    <3>1. m.record = Reduce(x, e)
      BY <1>3, <2>4 DEF EmitsTo
    <3>2. /\ Reduce(x, e).write = x.write
          /\ Young(Reduce(x, e), IF x.write THEN "preflight" ELSE "complete")
      BY <1>2, <2>3, <2>4, SelectionKept
    <3>3. QED
      BY <2>2, <3>1, <3>2 DEF Decided
  <2>5. CASE Emit(s, <<d, e>>) = Halted(x)
    <3>1. m.record = x
      BY <1>3, <2>5 DEF EmitsTo
    <3>2. QED
      BY <2>2, <3>1 DEF Going
  <2>6. QED
    BY <1>4, <2>1, <2>4, <2>5 DEF OneMore
<1>5. CASE Emit(s, <<d, e>>) = Halted(s)
  BY <1>3, <1>5 DEF EmitsTo
<1>6. QED
  BY <1>4, <1>5, EmitTwo

LEMMA EmptyRecord ==
  ASSUME Control, RecordKept, ScreenKept, Empty
  PROVE  RecordKept'
<1>1. pc \in Opening
  BY DEF Empty, Opening
<1>2. /\ Typing /\ RunTyped /\ ChangedFiles = {} /\ told = TRUE /\ Showing(screen)
      /\ run.recorded => Going(record)
  BY <1>1, EarlyFacts
<1>3. answer' = answer /\ told' = told
  BY DEF Empty, work
<1>4. PICK d, code : /\ d = [type |-> "resolution-completed", eligible |-> 0, unresolved |-> 0,
                             updates |-> 0, status |-> "passed"]
                     /\ code = IF run.strict THEN 2 ELSE 0
  OBVIOUS
<1>5. PICK m \in Emission(record, screen, <<d, SelectionCompleted(<<>>)>>) :
        \E o \in IF run.visual THEN WriteReview(m.screen, m.record) ELSE {Ok(m.screen)} :
          IF o.threw THEN Abort(m.record, o.r) ELSE FinalizeRun(m.record, o.r, code, FALSE)
  BY <1>4 DEF Empty
<1>6. PICK o \in IF run.visual THEN WriteReview(m.screen, m.record) ELSE {Ok(m.screen)} :
          IF o.threw THEN Abort(m.record, o.r) ELSE FinalizeRun(m.record, o.r, code, FALSE)
  BY <1>5
<1>7. Showing(m.screen)
  BY <1>2, <1>5, EmissionShowing, LenTuples
<1>8. Showing(o.r)
  BY <1>2, <1>6, <1>7, SelectionShown, OutcomeFields
<1>9. ASSUME run.recorded PROVE Going(m.record) \/ Decided(m.record)
  <2>1. Opens(d)
    BY <1>4 DEF Opens
  <2>2. EmitsTo(m, Emit(record, <<d, SelectionCompleted(<<>>)>>))
    BY <1>2, <1>5, <1>9, RecordEmitted, LenTuples
  <2>3. QED
    BY <1>2, <1>9, <2>1, <2>2, EmptyEmitted
<1>10. CASE Abort(m.record, o.r)
  BY <1>2, <1>3, <1>9, <1>10, EarlyAbort
<1>11. CASE FinalizeRun(m.record, o.r, code, FALSE)
  <2>1. run' = run
    BY <1>11, FinalizeOver DEF Over
  <2>2. CASE ~run.recorded
    BY <1>2, <1>3, <1>11, <2>1, <2>2, FinalizeUnrecorded DEF Still
  <2>3. CASE run.recorded
    <3>1. Ready(m.record, TRUE)
      BY <1>2, <1>9, <2>3, EarlyReady
    <3>2. Still /\ told' = TRUE /\ code \in {0, 1, 2}
      BY <1>2, <1>3, <1>4, <2>1 DEF Still
    <3>3. QED
      BY <1>2, <1>8, <1>11, <2>3, <3>1, <3>2, FinalizeRecord
  <2>4. QED
    BY <2>2, <2>3
<1>12. QED
  BY <1>6, <1>10, <1>11

LEMMA PrepareRecord ==
  ASSUME Control, RecordKept, ScreenKept, Prepare
  PROVE  RecordKept'
<1>1. pc \in Opening \cup {"prepare", "apply"}
  BY DEF Prepare
<1>2. /\ Typing /\ RunTyped /\ ChangedFiles = {} /\ told = TRUE /\ Showing(screen)
      /\ run.recorded => Going(record)
  BY <1>1, EarlyFacts
<1>3. answer' = answer /\ told' = told
  BY DEF Prepare
<1>4. ASSUME NEW scr, Goto("prepare", record, scr) PROVE RecordKept'
  BY <1>2, <1>3, <1>4, EarlyGoto
<1>5. ASSUME NEW scr, Abort(record, scr) PROVE RecordKept'
  BY <1>2, <1>3, <1>5, EarlyAbort
<1>6. QED
  BY <1>4, <1>5 DEF Prepare

\* The selection of a visual run.
LEMMA ReviewRecord ==
  ASSUME RunTyped, run.visual, Showing(screen), Going(record), NEW ps, NEW m \in Review(ps)
  PROVE  /\ Going(m.record) \/ Decided(m.record)
         /\ m.ok => Decided(m.record) /\ m.record.owner = OwnerOf(ps)
<1>1. PICK e \in Emission(record, screen, <<SelectionCompleted(OwnerOf(ps))>>) :
        \E o \in IF e.ok THEN WriteReview(e.screen, e.record) ELSE {Threw(e.screen)} :
          m = [record |-> e.record, screen |-> o.r, ok |-> ~o.threw /\ ~o.r.reported]
  BY DEF Review
<1>2. PICK o \in IF e.ok THEN WriteReview(e.screen, e.record) ELSE {Threw(e.screen)} :
          m = [record |-> e.record, screen |-> o.r, ok |-> ~o.threw /\ ~o.r.reported]
  BY <1>1
<1>3. m.record = e.record
  BY <1>2
<1>4. m.ok = (~o.threw /\ ~o.r.reported)
  BY <1>2
<1>5. EmitsTo(e, Emit(record, <<SelectionCompleted(OwnerOf(ps))>>))
  BY RecordEmitted, LenTuples DEF RunTyped
<1>6. Selected(e, OwnerOf(ps))
  BY <1>5, SelectedOnce
<1>7. CASE e.ok = TRUE
  BY <1>3, <1>6, <1>7 DEF Selected
<1>8. CASE e.ok = FALSE
  <2>1. o = Threw(e.screen)
    BY <1>2, <1>8
  <2>2. o.threw = TRUE
    BY <2>1, OutcomeFields
  <2>3. ~m.ok
    BY <1>4, <2>2
  <2>4. Going(m.record)
    BY <1>3, <1>6, <1>8 DEF Selected
  <2>5. QED
    BY <2>3, <2>4
<1>9. QED
  BY <1>5, <1>7, <1>8 DEF EmitsTo

LEMMA LeastExists ==
  ASSUME NEW S, S \subseteq Nat, S # {}
  PROVE  LET first == CHOOSE x \in S : \A r \in S : x <= r IN
         first \in S
<1> DEFINE Has == {k \in Nat : (\E x \in S : x <= k) => \E x \in S : \A r \in S : x <= r}
<1>1. 0 \in Has
  OBVIOUS
<1>2. ASSUME NEW k \in Has PROVE k + 1 \in Has
  <2>1. CASE \E x \in S : x <= k
    BY <1>2, <2>1
  <2>2. CASE ~\E x \in S : x <= k
    <3>1. \A r \in S : k + 1 <= r
      BY <2>2
    <3>2. QED
      BY <3>1
  <2>3. QED
    BY <2>1, <2>2
<1>3. Has \in SUBSET Nat
  OBVIOUS
<1>4. PICK p \in S : p \in Nat
  OBVIOUS
<1> HIDE DEF Has
<1>5. p \in Has
  BY <1>1, <1>2, <1>3, <1>4, Induction
<1>6. \E x \in S : \A r \in S : x <= r
  BY <1>4, <1>5 DEF Has
<1>7. QED
  BY <1>6

\* Only a whole apply, or one whose recovery failed, leaves a file changed.
LEMMA ChangedBy ==
  ASSUME AnswerKept, Executed, ChangedFiles # {}
  PROVE  answer = WholeAnswer(Approved) \/ answer = PartialAnswer(Approved)
<1>1. answer \in Answers(Approved)
  BY ExecutedAnswer
<1>2. PICK p \in answer.attempted : answer.ops[p].status # "reverted"
  BY DEF ChangedFiles
<1>3. ASSUME answer = RevertedAnswer(Approved) PROVE FALSE
  <2>1. PICK first : first = CHOOSE x \in Approved : \A r \in Approved : x <= r
    OBVIOUS
  <2>2. /\ answer.attempted = {first}
        /\ answer.ops = Split(Approved, Op("reverted", "COMMIT_FAILED_REVERTED"),
                              Op("failed", "RUN_ABORTED"))
    BY <1>3, <2>1, EngineAnswerFields DEF RevertedAnswer
  <2>3. p = first
    BY <1>2, <2>2
  <2>4. CASE first \in Approved
    <3>1. answer.ops[first] = Op("reverted", "COMMIT_FAILED_REVERTED")
      BY <2>1, <2>2, <2>4 DEF Split
    <3>2. QED
      BY <1>2, <2>3, <3>1 DEF Op
  <2>5. CASE first \notin Approved
    <3>1. Approved # {}
      BY <1>3, ExecutedAnswer DEF AnswerKept
    <3>2. Approved \subseteq Nat
      BY DEF Approved, Packages
    <3>3. QED
      BY <2>1, <2>5, <3>1, <3>2, LeastExists
  <2>6. QED
    BY <2>4, <2>5
<1>4. ASSUME \/ answer = ConflictAnswer(Approved) \/ answer = UnknownAnswer(Approved)
             \/ answer = StagingAnswer(Approved)
      PROVE  answer.attempted = {}
  BY <1>4, EngineAnswerFields DEF ConflictAnswer, UnknownAnswer, StagingAnswer
<1>5. QED
  BY <1>1, <1>2, <1>3, <1>4, AnswerCases

\* The record is told of the engine's answer, or of what stands for none.
LEMMA PlainReady ==
  ASSUME Control, RecordKept, pc = "told", run.recorded, run.write, ~Executed,
         NEW unbound \in BOOLEAN, NEW m, EmitsTo(m, Emit(record, AccountOf(unbound)))
  PROVE  Ready(m.record, m.ok)
<1>1. AnswerKept /\ ChangedFiles = {}
  BY NothingChanged DEF Control
<1>2. PICK q : Young(record, q)
  BY DEF RecordKept, Going, Decided
<1>3. ASSUME NEW owner, NEW ops, EndsWith(AccountOf(unbound), ResultsRecorded(owner, ops))
      PROVE  m.ok = TRUE => Closable(m.record)
  <2>1. PICK x : \/ /\ Emit(record, AccountOf(unbound)) = Onward(x) /\ Reported(x)
                    /\ x.results = ops /\ x.write = record.write
                 \/ Emit(record, AccountOf(unbound)) = Halted(x)
    BY <1>2, <1>3, AccountTold
  <2>2. (m.record = x /\ Reported(x)) \/ m.ok = FALSE
    BY <2>1 DEF EmitsTo
  <2>3. QED
    BY <2>2 DEF Closable
<1>4. ASSUME answer = PlanBlocked, AccountOf(unbound) = <<PhaseCompleted("review", "unknown")>>
      PROVE  m.ok = TRUE => Closable(m.record)
  <2>1. PICK k \in Undecided : Young(record, k)
    BY <1>4 DEF RecordKept, Going
  <2>2. PICK x : \/ /\ Emit(record, AccountOf(unbound)) = Onward(x)
                    /\ Clean(x) /\ x.write = record.write
                 \/ Emit(record, AccountOf(unbound)) = Halted(x)
    BY <1>4, <2>1, ReviewUnknown
  <2>3. (m.record = x /\ Clean(x)) \/ m.ok = FALSE
    BY <2>2 DEF EmitsTo
  <2>4. QED
    BY <2>3 DEF Closable
<1>5. m.ok = TRUE => Closable(m.record)
  BY <1>1, <1>3, <1>4, PlainAccount DEF NothingApproved, BlockedResults
<1>6. QED
  BY <1>1, <1>5 DEF Ready

\* What is told of an apply that changed files and whose results are refused.
LEMMA ChangedTold ==
  ASSUME AnswerKept, Executed, ChangedFiles # {}, NEW s, Young(s, "preflight"),
         s.owner = OwnerOf(Approved)
  PROVE  TellsWrite(Emit(s, ResultEvents(answer)))
<1>1. Approved # {}
  BY ExecutedAnswer DEF AnswerKept
<1>2. DOMAIN s.owner # {}
  BY <1>1 DEF OwnerOf
<1>3. QED
  BY <1>2, ChangedBy, WholeTold, PartialTold

LEMMA WriteStands ==
  ASSUME NEW m, NEW n, EmitsTo(m, n), TellsWrite(n), m.ok = FALSE
  PROVE  Stuck(m.record)
BY DEF EmitsTo, TellsWrite

LEMMA ResultIsSeq ==
  ASSUME AnswerKept, Executed
  PROVE  IsSeq(ResultEvents(answer))
<1>1. answer \in Answers(Approved)
  BY ExecutedAnswer
<1>2. AllQuiet(ApplyPhaseEvents(answer))
  BY <1>1, AnswersOver, PhaseEventsQuiet
<1>3. QED
  BY <1>2, JoinedSeq, SeqFacts DEF ResultEvents, AllQuiet

LEMMA RefusedTruly ==
  ASSUME Control, RecordKept, pc = "told", run.recorded, run.write, Executed, ChangedFiles # {},
         NEW unbound \in BOOLEAN, NEW m, EmitsTo(m, Emit(record, AccountOf(unbound))),
         m.ok = FALSE
  PROVE  Stuck(m.record) \/ \E q \in Undecided : Young(m.record, q)
<1>1. AnswerKept
  BY DEF Control
<1>2. AccountOf(unbound) = ToldSelection(answer.owner) \o ResultEvents(answer)
  BY <1>1, ExecutedAccount
<1>3. answer.owner = OwnerOf(Approved)
  BY <1>1, ExecutedAccount DEF AnswersFor
<1>4. PICK res : res = ResultEvents(answer)
  OBVIOUS
<1>5. IsSeq(res)
  BY <1>1, <1>4, ResultIsSeq
<1>6. CASE run.visual
  <2>1. Young(record, "preflight") /\ record.owner = OwnerOf(Approved)
    BY <1>6 DEF RecordKept, Decided
  <2>2. ToldSelection(answer.owner) = <<>>
    BY <1>6 DEF ToldSelection
  <2>3. AccountOf(unbound) = res
    BY <1>2, <1>4, <1>5, <2>2, Joins
  <2>4. TellsWrite(Emit(record, res))
    BY <1>1, <1>4, <2>1, ChangedTold
  <2>5. QED
    BY <2>3, <2>4, WriteStands
<1>7. CASE ~run.visual
  <2>1. PICK q \in Undecided : Young(record, q) /\ record.write = run.write
    BY <1>7 DEF RecordKept, Going
  <2>2. PICK e, one : e = SelectionCompleted(answer.owner) /\ one = <<e>>
    OBVIOUS
  <2>3. IsSeq(one)
    BY <2>2, SeqFacts
  <2>4. AccountOf(unbound) = one \o res
    BY <1>2, <1>4, <1>7, <2>2 DEF ToldSelection
  <2>5. OneMore(Emit(record, one), record, e)
    BY <2>2, EmitOne
  <2>6. CASE Accepts(record, e) /\ Emit(record, one) = Onward(Reduce(record, e))
    <3>1. PICK z : z = Reduce(record, e)
      OBVIOUS
    <3>2. Young(z, "preflight") /\ z.owner = OwnerOf(Approved)
      BY <1>3, <2>1, <2>2, <2>6, <3>1, SelectionKept
    <3>3. Emit(record, one \o res) = Emit(z, res)
      BY <1>5, <2>3, <2>6, <3>1, EmitJoined
    <3>4. TellsWrite(Emit(z, res))
      BY <1>1, <1>4, <3>2, ChangedTold
    <3>5. QED
      BY <2>4, <3>3, <3>4, WriteStands
  <2>7. CASE Emit(record, one) = Halted(record)
    <3>1. Emit(record, one \o res) = Halted(record)
      BY <1>5, <2>3, <2>7, EmitJoined
    <3>2. m.record = record
      BY <2>4, <3>1 DEF EmitsTo
    <3>3. QED
      BY <2>1, <3>2
  <2>8. QED
    BY <2>5, <2>6, <2>7 DEF OneMore
<1>8. QED
  BY <1>6, <1>7

LEMMA ExecutedReady ==
  ASSUME Control, RecordKept, pc = "told", run.recorded, run.write, Executed,
         NEW unbound \in BOOLEAN, NEW m, EmitsTo(m, Emit(record, AccountOf(unbound)))
  PROVE  Ready(m.record, m.ok)
<1>1. AnswerKept
  BY DEF Control
<1>2. PICK q : Young(record, q)
  BY DEF RecordKept, Going, Decided
<1>3. EndsWith(AccountOf(unbound), ResultsRecorded(answer.owner, ModelResults(answer)))
  BY <1>1, ExecutedAccount
<1>4. PICK x : \/ /\ Emit(record, AccountOf(unbound)) = Onward(x) /\ Reported(x)
                  /\ x.results = ModelResults(answer) /\ x.write = record.write
               \/ Emit(record, AccountOf(unbound)) = Halted(x)
  BY <1>2, <1>3, AccountTold
<1>5. CASE /\ Emit(record, AccountOf(unbound)) = Onward(x) /\ Reported(x)
           /\ x.results = ModelResults(answer)
  <2>1. m.record = x /\ m.ok = TRUE
    BY <1>5 DEF EmitsTo
  <2>2. AnswersFor(Approved, answer)
    BY <1>1, ExecutedAccount
  <2>3. /\ DOMAIN x.results = Approved
        /\ \A o \in Approved : x.results[o].outcome # "not-attempted"
    BY <1>5, <2>2, ModelTold
  <2>4. Truth(x)
    BY <2>3 DEF Truth
  <2>5. QED
    BY <1>5, <2>1, <2>4 DEF Ready, Closable
<1>6. CASE Emit(record, AccountOf(unbound)) = Halted(x)
  <2>1. m.ok = FALSE
    BY <1>6 DEF EmitsTo
  <2>2. ChangedFiles # {} => Stuck(m.record) \/ \E k \in Undecided : Young(m.record, k)
    BY <2>1, RefusedTruly
  <2>3. QED
    BY <2>1, <2>2 DEF Ready
<1>7. QED
  BY <1>4, <1>5, <1>6

LEMMA SelectRecord ==
  ASSUME Control, RecordKept, ScreenKept, Select
  PROVE  RecordKept'
<1>1. pc = "prepare" /\ pc \in Opening \cup {"prepare", "apply"}
  BY DEF Select
<1>2. /\ Typing /\ RunTyped /\ ChangedFiles = {} /\ told = TRUE /\ Showing(screen)
      /\ run.recorded => Going(record)
  BY <1>1, EarlyFacts
<1>3. answer' = answer /\ told' = told /\ answer = NoAnswer
  BY <1>1 DEF Select, work, Control, AnswerKept
<1>4. run.visual => run.recorded
  BY <1>2 DEF RunTyped
<1>5. CASE Abort(record, screen)
  BY <1>2, <1>3, <1>5, EarlyAbort
<1>6. ASSUME run.visual, NEW m \in Review(IF run.write THEN {} ELSE selected),
             Abort(m.record, m.screen)
      PROVE  RecordKept'
  <2>1. Going(m.record) \/ Decided(m.record)
    BY <1>2, <1>4, <1>6, ReviewRecord
  <2>2. QED
    BY <1>2, <1>3, <1>6, <2>1, EarlyAbort
<1>7. ASSUME run.visual, NEW m \in Review(IF run.write THEN {} ELSE selected), m.ok,
             Goto("told", m.record, m.screen)
      PROVE  RecordKept'
  <2>1. Decided(m.record)
    BY <1>2, <1>4, <1>7, ReviewRecord
  <2>2. pc' = "told" /\ run' = run /\ record' = m.record
    BY <1>7 DEF Goto
  <2>3. Decided(record)' /\ ~Executed'
    BY <1>3, <2>1, <2>2 DEF Decided, Executed, NoAnswer
  <2>4. QED
    BY <1>3, <1>7, <2>2, <2>3 DEF RecordKept, Opening, NoAnswer, PlanBlocked
<1>8. CASE Goto("apply", record, screen)
  BY <1>2, <1>3, <1>8, EarlyGoto
<1>9. CASE ~run.visual /\ Goto("told", record, screen)
  <2>1. pc' = "told" /\ run' = run /\ record' = record
    BY <1>9 DEF Goto
  <2>2. run.recorded => Going(record)'
    BY <1>2, <2>1 DEF Going
  <2>3. QED
    BY <1>9, <2>1, <2>2 DEF RecordKept, Opening
<1>10. CASE run.visual /\ (~run.write \/ Approved = {})
  BY <1>5, <1>6, <1>7, <1>10 DEF Select
<1>11. CASE ~(run.visual /\ (~run.write \/ Approved = {}))
  <2>1. Goto(IF Approved = {} THEN "told" ELSE "apply", record, screen)
    BY <1>11 DEF Select
  <2>2. CASE Approved # {}
    BY <1>8, <2>1, <2>2
  <2>3. CASE Approved = {}
    BY <1>9, <1>11, <2>1, <2>3
  <2>4. QED
    BY <2>2, <2>3
<1>12. QED
  BY <1>10, <1>11

LEMMA ApplyThrowsRecord ==
  ASSUME Control, RecordKept, ScreenKept, ApplyThrows
  PROVE  RecordKept'
<1>1. pc \in Opening \cup {"prepare", "apply"}
  BY DEF ApplyThrows
<1>2. /\ Typing /\ RunTyped /\ ChangedFiles = {} /\ told = TRUE /\ Showing(screen)
      /\ run.recorded => Going(record)
  BY <1>1, EarlyFacts
<1>3. answer' = answer /\ told' = told
  BY DEF ApplyThrows
<1>4. run.visual => run.recorded
  BY <1>2 DEF RunTyped
<1>5. CASE Abort(record, screen)
  BY <1>2, <1>3, <1>5, EarlyAbort
<1>6. ASSUME run.visual, NEW m \in Review(Approved), Abort(m.record, m.screen)
      PROVE  RecordKept'
  <2>1. Going(m.record) \/ Decided(m.record)
    BY <1>2, <1>4, <1>6, ReviewRecord
  <2>2. QED
    BY <1>2, <1>3, <1>6, <2>1, EarlyAbort
<1>7. QED
  BY <1>5, <1>6 DEF ApplyThrows

LEMMA ApplyRecord ==
  ASSUME Control, RecordKept, ScreenKept, ApplyBlocked \/ ApplyBegins \/ ApplyEnds
  PROVE  RecordKept'
<1>1. Typing /\ RunTyped /\ (run.visual => run.recorded)
  BY DEF Control, Typing, RunTyped
<1>2. CASE ApplyBlocked
  <2>1. pc = "apply" /\ pc' = "told" /\ run' = run /\ record' = record /\ ~run.visual
    BY <1>2 DEF ApplyBlocked, Goto
  <2>2. run.recorded => Going(record)'
    BY <2>1 DEF Going, RecordKept
  <2>3. QED
    BY <2>1, <2>2 DEF RecordKept, Opening
<1>3. CASE ApplyBegins
  <2>1. pc = "apply" /\ pc \in Opening \cup {"prepare", "apply"}
    BY <1>3 DEF ApplyBegins
  <2>2. /\ Showing(screen) /\ (run.recorded => Going(record))
    BY <2>1, EarlyFacts
  <2>3. answer' = answer /\ Approved' = Approved /\ answer # PlanBlocked
    BY <1>3, <2>1 DEF ApplyBegins, work, Approved, Control, AnswerKept, NoAnswer, PlanBlocked
  <2>4. CASE run.visual
    <3>1. PICK m \in Review(Approved) : m.ok /\ Goto("applying", m.record, m.screen)
      BY <1>3, <2>4 DEF ApplyBegins
    <3>2. Decided(m.record) /\ m.record.owner = OwnerOf(Approved)
      BY <1>1, <2>2, <2>4, <3>1, ReviewRecord
    <3>3. pc' = "applying" /\ run' = run /\ record' = m.record
      BY <3>1 DEF Goto
    <3>4. Decided(record)' /\ record'.owner = (OwnerOf(Approved))'
      BY <2>3, <3>2, <3>3 DEF Decided
    <3>5. QED
      BY <2>3, <2>4, <3>3, <3>4 DEF RecordKept, Opening
  <2>5. CASE ~run.visual
    <3>1. pc' = "applying" /\ run' = run /\ record' = record
      BY <1>3, <2>5 DEF ApplyBegins, Goto
    <3>2. run.recorded => Going(record)'
      BY <2>2, <3>1 DEF Going
    <3>3. QED
      BY <2>5, <3>1, <3>2 DEF RecordKept, Opening
  <2>6. QED
    BY <2>4, <2>5
<1>4. CASE ApplyEnds
  <2>1. /\ pc = "applying" /\ pc' = "told" /\ run' = run /\ record' = record
        /\ prepared' = prepared /\ answer' \in Answers(Approved)
    BY <1>4 DEF ApplyEnds, Goto
  <2>2. Approved' = Approved
    BY <2>1 DEF Approved
  <2>3. answer' # PlanBlocked
    BY <2>1, AnswerFacts DEF AnswersFor, PlanBlocked
  <2>4. run.recorded =>
          IF run.visual THEN Decided(record) /\ record.owner = OwnerOf(Approved)
          ELSE Going(record)
    BY <2>1 DEF RecordKept
  <2>5. run.recorded =>
          IF run.visual THEN Decided(record)' /\ record'.owner = (OwnerOf(Approved))'
          ELSE Going(record)'
    BY <2>1, <2>2, <2>4 DEF Decided, Going
  <2>6. QED
    BY <2>1, <2>3, <2>5 DEF RecordKept, Opening
<1>5. QED
  BY <1>2, <1>3, <1>4

\* A run that only ends and whose record stays.
LEMMA SameReady ==
  ASSUME NEW rec, NEW ok, Ready(rec, ok), Still, record' = rec, told' = ok
  PROVE  Ready(record, told)'
<1>1. ChangedFiles' = ChangedFiles
  BY StillSame
<1>2. Ready(rec, ok) => Ready(record, told)'
  BY <1>1 DEF Ready, Truth
<1>3. QED
  BY <1>2

LEMMA TellRecord ==
  ASSUME Control, RecordKept, ScreenKept, Tell
  PROVE  RecordKept'
<1>1. pc = "told" /\ Typing /\ RunTyped /\ told = TRUE /\ AnswerKept /\ answer' = answer
  BY DEF Tell, Control, Typing, LoopKept, Untold
<1>2. Showing(screen) /\ Plain
  BY <1>1, PlainScreen DEF ScreenKept
<1>3. CASE screen.reported
  <2>1. Abort(record, screen) /\ told' = told
    BY <1>3 DEF Tell
  <2>2. run.visual
    BY <1>2, <1>3 DEF Plain
  <2>3. ~Executed
    BY <1>1, <1>3, <2>2 DEF ScreenKept
  <2>4. run.recorded => Decided(record)
    BY <1>1, <2>2 DEF RecordKept
  <2>5. ChangedFiles = {}
    BY <2>3, NothingChanged
  <2>6. QED
    BY <1>1, <2>1, <2>4, <2>5, EarlyAbort
<1>4. CASE ~screen.reported
  <2>1. PICK unbound \in BOOLEAN :
          \E m \in Emission(record, screen, IF run.write THEN AccountOf(unbound) ELSE <<>>) :
          \E b \in IF run.visual THEN BeginSuspension(m.screen, m.record) ELSE {Ok(m.screen)} :
            IF b.threw THEN Abort(m.record, b.r) /\ told' = m.ok
            ELSE told' = m.ok /\ Goto("complete", m.record, b.r)
    BY <1>4 DEF Tell
  <2>2. PICK events : events = IF run.write THEN AccountOf(unbound) ELSE <<>>
    OBVIOUS
  <2>3. Len(events) \in Nat
    BY <1>1, <2>2, LenTuples, AccountLength
  <2>4. PICK m \in Emission(record, screen, events) :
          \E b \in IF run.visual THEN BeginSuspension(m.screen, m.record) ELSE {Ok(m.screen)} :
            IF b.threw THEN Abort(m.record, b.r) /\ told' = m.ok
            ELSE told' = m.ok /\ Goto("complete", m.record, b.r)
    BY <2>1, <2>2
  <2>5. m.ok = TRUE \/ m.ok = FALSE
    BY <1>1, <1>2, <2>3, <2>4, EmissionShowing
  <2>6. ASSUME run.recorded PROVE Ready(m.record, m.ok)
    <3>1. EmitsTo(m, Emit(record, events))
      BY <1>1, <1>2, <2>3, <2>4, <2>6, RecordEmitted
    <3>2. CASE run.write
      <4>1. EmitsTo(m, Emit(record, AccountOf(unbound)))
        BY <2>2, <3>1, <3>2
      <4>2. QED
        BY <1>1, <2>6, <3>2, <4>1, PlainReady, ExecutedReady
    <3>3. CASE ~run.write
      <4>1. Emit(record, events) = Onward(record)
        BY <2>2, <3>3, EmitNone
      <4>2. m.record = record
        BY <3>1, <4>1 DEF EmitsTo
      <4>3. Approved = {}
        BY <1>1, <3>3 DEF AnswerKept
      <4>4. ChangedFiles = {}
        BY <1>1, <4>3, NothingChanged DEF AnswerKept
      <4>5. QED
        BY <1>1, <2>6, <4>2, <4>4, EarlyReady DEF RecordKept
    <3>4. QED
      BY <3>2, <3>3
  <2>7. ASSUME run.recorded, ~run.write, ~run.visual PROVE m.record = record /\ Going(record)
    <3>1. EmitsTo(m, Emit(record, events))
      BY <1>1, <1>2, <2>3, <2>4, <2>7, RecordEmitted
    <3>2. Emit(record, events) = Onward(record)
      BY <2>2, <2>7, EmitNone
    <3>3. QED
      BY <1>1, <2>7, <3>1, <3>2 DEF EmitsTo, RecordKept
  <2>8. ASSUME NEW scr, Abort(m.record, scr), told' = m.ok PROVE RecordKept'
    BY <1>1, <2>5, <2>6, <2>8, AbortRecord
  <2>9. ASSUME NEW scr, Goto("complete", m.record, scr), told' = m.ok PROVE RecordKept'
    <3>1. pc' = "complete" /\ run' = run /\ record' = m.record /\ Still
      BY <1>1, <2>9 DEF Goto, Still
    <3>2. run.recorded => Ready(record, told)'
      BY <2>6, <2>9, <3>1, SameReady
    <3>3. run.recorded /\ ~run.write /\ ~run.visual => Going(record)'
      BY <2>7, <3>1 DEF Going
    <3>4. QED
      BY <1>1, <3>1, <3>2, <3>3 DEF RecordKept, Opening
  <2>10. QED
    BY <2>4, <2>8, <2>9
<1>5. QED
  BY <1>3, <1>4

LEMMA EndFacts ==
  ASSUME Control, RecordKept, ScreenKept, pc \in {"complete", "post", "exit"}
  PROVE  /\ Typing /\ RunTyped /\ AnswerKept /\ Showing(screen)
         /\ told = TRUE \/ told = FALSE
         /\ run.recorded => Ready(record, told)
         /\ pc \in {"post", "exit"} => told = TRUE
BY DEF Control, Typing, LoopKept, RecordKept, ScreenKept

LEMMA CompleteRecord ==
  ASSUME Control, RecordKept, ScreenKept, Complete
  PROVE  RecordKept'
<1>1. /\ pc = "complete" /\ pc' = "complete" /\ record' = record /\ told' = told /\ Still
  BY DEF Complete, Goto, Still
<1>2. run.recorded => Ready(record, told)
  BY <1>1, EndFacts
<1>3. run.recorded => Ready(record, told)'
  BY <1>1, <1>2, SameReady
<1>4. run.recorded /\ ~run.write /\ ~run.visual => Going(record)'
  BY <1>1 DEF RecordKept, Going, Still
<1>5. QED
  BY <1>1, <1>3, <1>4 DEF RecordKept, Still, Opening

LEMMA CompletionEndsRecord ==
  ASSUME Control, RecordKept, ScreenKept, CompletionEnds
  PROVE  RecordKept'
<1>1. pc = "complete" /\ pc \in Suspended /\ answer' = answer /\ told' = told
  BY DEF CompletionEnds, work, Suspended
<1>2. /\ Typing /\ RunTyped /\ AnswerKept /\ Showing(screen)
      /\ told = TRUE \/ told = FALSE
      /\ run.recorded => Ready(record, told)
  BY <1>1, EndFacts
<1>3. ASSUME NEW scr, Abort(record, scr) PROVE RecordKept'
  BY <1>1, <1>2, <1>3, AbortRecord
<1>4. PICK events : events = IF run.write \/ run.visual THEN <<>>
                             ELSE <<SelectionCompleted(OwnerOf(Updated))>>
  OBVIOUS
<1>5. PICK o \in IF run.visual THEN EndSuspension(screen, record) ELSE {Ok(screen)} :
       IF o.threw \/ ~told \/ failed THEN Abort(record, o.r)
       ELSE \E h \in Durably(o.r, TRUE) :
            IF h.threw THEN Abort(record, h.r)
            ELSE \E m \in Emission(record, h.r, events) :
                 pc' = "post" /\ record' = m.record /\ UNCHANGED run
  BY <1>4 DEF CompletionEnds
<1>6. Showing(o.r)
  <2>1. CASE run.visual
    BY <1>1, <1>2, <1>5, <2>1, EndRendered DEF Showing, ScreenKept
  <2>2. CASE ~run.visual
    BY <1>2, <1>5, <2>2, OutcomeFields
  <2>3. QED
    BY <2>1, <2>2
<1>7. CASE o.threw \/ ~told \/ failed
  BY <1>3, <1>5, <1>7
<1>8. CASE ~(o.threw \/ ~told \/ failed)
  <2>1. PICK h \in Durably(o.r, TRUE) :
            IF h.threw THEN Abort(record, h.r)
            ELSE \E m \in Emission(record, h.r, events) :
                 pc' = "post" /\ record' = m.record /\ UNCHANGED run
    BY <1>5, <1>8
  <2>2. CASE h.threw
    BY <1>3, <2>1, <2>2
  <2>3. CASE ~h.threw
    <3>1. PICK m \in Emission(record, h.r, events) :
                 pc' = "post" /\ record' = m.record /\ UNCHANGED run
      BY <2>1, <2>3
    <3>2. Showing(h.r)
      BY <1>2, <1>6, <2>1, DurablyShowing
    <3>3. Len(events) \in Nat
      BY <1>4, LenTuples
    <3>4. ASSUME run.recorded PROVE Ready(m.record, TRUE)
      <4>1. EmitsTo(m, Emit(record, events))
        BY <1>2, <3>1, <3>2, <3>3, <3>4, RecordEmitted
      <4>2. CASE run.write \/ run.visual
        <5>1. Emit(record, events) = Onward(record)
          BY <1>4, <4>2, EmitNone
        <5>2. m.record = record
          BY <4>1, <5>1 DEF EmitsTo
        <5>3. QED
          BY <1>2, <1>8, <3>4, <5>2
      <4>3. CASE ~(run.write \/ run.visual)
        <5>1. Approved = {}
          BY <1>2, <4>3 DEF AnswerKept
        <5>2. ChangedFiles = {}
          BY <1>2, <5>1, NothingChanged DEF AnswerKept
        <5>3. Going(record)
          BY <1>1, <3>4, <4>3 DEF RecordKept
        <5>4. EmitsTo(m, Emit(record, <<SelectionCompleted(OwnerOf(Updated))>>))
          BY <1>4, <4>1, <4>3
        <5>5. Selected(m, OwnerOf(Updated))
          BY <5>3, <5>4, SelectedOnce
        <5>6. Going(m.record) \/ Decided(m.record)
          BY <5>5 DEF Selected
        <5>7. QED
          BY <5>2, <5>6, EarlyReady
      <4>4. QED
        BY <4>2, <4>3
    <3>5. Still /\ pc' = "post" /\ record' = m.record /\ told' = TRUE
      BY <1>1, <1>2, <1>8, <3>1 DEF Still
    <3>6. run.recorded => Ready(record, told)'
      BY <3>4, <3>5, SameReady
    <3>7. QED
      BY <3>5, <3>6 DEF RecordKept, Still, Opening
  <2>4. QED
    BY <2>2, <2>3
<1>9. QED
  BY <1>7, <1>8

LEMMA PostWriteRecord ==
  ASSUME Control, RecordKept, ScreenKept, PostWrite
  PROVE  RecordKept'
<1>1. pc = "post" /\ answer' = answer /\ told' = told
  BY DEF PostWrite
<1>2. /\ Typing /\ RunTyped /\ told = TRUE
      /\ run.recorded => Ready(record, told)
  BY <1>1, EndFacts
<1>3. ASSUME NEW scr, Abort(record, scr) PROVE RecordKept'
  BY <1>1, <1>2, <1>3, AbortRecord
<1>4. ASSUME NEW scr, Goto("exit", record, scr) PROVE RecordKept'
  <2>1. Still /\ pc' = "exit" /\ record' = record
    BY <1>1, <1>4 DEF Goto, Still
  <2>2. run.recorded => Ready(record, told)'
    BY <1>1, <1>2, <2>1, SameReady
  <2>3. QED
    BY <2>1, <2>2 DEF RecordKept, Still, Opening
<1>5. QED
  BY <1>3, <1>4 DEF PostWrite

LEMMA ExitRecord ==
  ASSUME Control, RecordKept, ScreenKept, Exit
  PROVE  RecordKept'
<1>1. pc = "exit" /\ answer' = answer /\ told' = told
  BY DEF Exit, work
<1>2. /\ Typing /\ RunTyped /\ told = TRUE /\ Showing(screen)
      /\ run.recorded => Ready(record, told)
  BY <1>1, EndFacts
<1>3. PICK code, receipt : code = ExitCode /\ receipt = Executed
  OBVIOUS
<1>4. FinalizeRun(record, screen, code, receipt) /\ code \in {0, 1, 2}
  BY <1>3 DEF Exit, ExitCode
<1>5. run' = run
  BY <1>4, FinalizeOver DEF Over
<1>6. Still
  BY <1>1, <1>5 DEF Still
<1>7. CASE ~run.recorded
  BY <1>2, <1>4, <1>6, <1>7, FinalizeUnrecorded
<1>8. CASE run.recorded
  BY <1>1, <1>2, <1>4, <1>6, <1>8, FinalizeRecord
<1>9. QED
  BY <1>7, <1>8

LEMMA OtherRecord ==
  ASSUME Control, RecordKept, Frame \/ Interrupt \/ UNCHANGED vars
  PROVE  RecordKept'
<1>1. Typing /\ (pc # "done" => ret = Null)
  BY DEF Control, LoopKept
<1>2. CASE Interrupt
  <2>1. pc' = "done" /\ ret' = Null /\ Still
    BY <1>1, <1>2 DEF Interrupt, Still, work
  <2>2. QED
    BY <1>1, <2>1, OverTrue
<1>3. CASE Frame \/ UNCHANGED vars
  <2>1. /\ pc' = pc /\ run' = run /\ record' = record /\ told' = told /\ answer' = answer
        /\ prepared' = prepared /\ ret' = ret
    BY <1>3 DEF Frame, vars, work
  <2>2. pc = "done" => screen' = screen
    BY <1>3 DEF Frame, vars
  <2>3. Approved' = Approved /\ Still /\ Executed' = Executed /\ ChangedFiles' = ChangedFiles
    BY <2>1 DEF Approved, Still, Executed, ChangedFiles
  <2>4. run.recorded /\ pc \in {"complete", "post", "exit"} => Ready(record, told)'
    BY <2>1, <2>3, SameReady DEF RecordKept
  <2>5. (Going(record) => Going(record)') /\ (Decided(record) => Decided(record)')
    BY <2>1 DEF Going, Decided
  <2>6. RecordIsTrue => (pc = "done" => RecordIsTrue')
    BY <2>1, <2>2, <2>3 DEF RecordIsTrue, Returned
  <2>7. /\ answer = PlanBlocked => ~run'.visual
        /\ pc = "done" => RecordIsTrue'
    BY <2>1, <2>6 DEF RecordKept
  <2>8. OwnerOf(Approved)' = OwnerOf(Approved)
    BY <2>3
  <2>9. run.recorded /\ pc \in {"applying", "told"} =>
          IF run.visual THEN /\ Decided(record)'
                             /\ pc = "applying" \/ Executed => record.owner = OwnerOf(Approved)
          ELSE Going(record)'
    BY <2>5 DEF RecordKept
  <2>10. run.recorded =>
           /\ pc \in Opening \cup {"prepare", "apply"} => Going(record)'
           /\ pc = "complete" /\ ~run.write /\ ~run.visual => Going(record)'
    BY <2>5 DEF RecordKept
  <2>11. QED
    BY <2>1, <2>3, <2>4, <2>7, <2>8, <2>9, <2>10 DEF RecordKept
<1>4. QED
  BY <1>2, <1>3

LEMMA RecordInit ==
  ASSUME Init
  PROVE  RecordKept
<1>1. PICK s : s = CreateCheckRunState(run.write)
  OBVIOUS
<1>2. record = s /\ pc = "start" /\ answer = NoAnswer
  BY <1>1 DEF Init
<1>3. "discover" \in Undecided /\ "passed" \in Inspected
  BY DEF Undecided, Inspected
<1>4. s.phases = PhasesAt("discover", "passed")
  BY <1>1 DEF CreateCheckRunState, PhasesAt, Behind
<1>5. /\ DOMAIN s = Fields /\ s.counts = NoCounts /\ s.exitCode = Null /\ s.results = <<>>
      /\ s.recovery.executed = FALSE /\ s.recovery.status = "not-needed"
      /\ s.events = {} /\ s.owner = <<>> /\ s.write = run.write
  BY <1>1 DEF CreateCheckRunState, Fields
<1>6. Young(s, "discover")
  BY <1>3, <1>4, <1>5 DEF Young, Early
<1>7. Going(record)
  BY <1>2, <1>3, <1>5, <1>6 DEF Going
<1>8. answer # PlanBlocked
  BY <1>2 DEF NoAnswer, PlanBlocked
<1>9. QED
  BY <1>2, <1>7, <1>8 DEF RecordKept, Opening

LEMMA RecordStep ==
  ASSUME Control, ScreenKept, RecordKept, [Next]_vars
  PROVE  RecordKept'
<1>1. CASE Begin \/ Loaded \/ Launch \/ Resolve \/ Raise
  BY <1>1, BeginRecord
<1>2. CASE Load
  BY <1>2, LoadRecord
<1>3. CASE Inspect
  BY <1>3, InspectRecord
<1>4. CASE Empty
  BY <1>4, EmptyRecord
<1>5. CASE ResolutionEnds
  BY <1>5, ResolutionRecord
<1>6. CASE Prepare
  BY <1>6, PrepareRecord
<1>7. CASE Select
  BY <1>7, SelectRecord
<1>8. CASE ApplyThrows
  BY <1>8, ApplyThrowsRecord
<1>9. CASE ApplyBlocked \/ ApplyBegins \/ ApplyEnds
  BY <1>9, ApplyRecord
<1>10. CASE Tell
  BY <1>10, TellRecord
<1>11. CASE Complete
  BY <1>11, CompleteRecord
<1>12. CASE CompletionEnds
  BY <1>12, CompletionEndsRecord
<1>13. CASE PostWrite
  BY <1>13, PostWriteRecord
<1>14. CASE Exit
  BY <1>14, ExitRecord
<1>15. CASE Frame \/ Interrupt \/ UNCHANGED vars
  BY <1>15, OtherRecord
<1>16. QED
  BY <1>1, <1>2, <1>3, <1>4, <1>5, <1>6, <1>7, <1>8, <1>9, <1>10, <1>11, <1>12, <1>13,
     <1>14, <1>15 DEF Next, Done

\* The record that a run leaves agrees with what the command did: with its exit
\* code, unless the screen failed or the record refused the engine's answer; and
\* in no case does it say of a file that was changed that it was not attempted,
\* whichever event was refused and whichever step of the run threw.
THEOREM RecordTellsTruth == Spec => []RecordIsTrue
<1>1. RecordKept => RecordIsTrue
  BY DEF RecordKept, RecordIsTrue, Returned
<1>2. RecordKept /\ Control /\ ScreenKept /\ [Next]_vars => RecordKept'
  BY RecordStep
<1>3. Spec => []RecordKept
  BY <1>2, RecordInit, CheckRunInvariance, PTL DEF Spec
<1>4. QED
  BY <1>1, <1>3, PTL
=============================================================================
