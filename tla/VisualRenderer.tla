---------------------------- MODULE VisualRenderer ----------------------------
(***************************************************************************)
(* The terminal renderer of a check run                                    *)
(* (commands/check/visual-plus/renderer.ts): it watches the run's record,  *)
(* keeps one animated frame on the screen, writes every fact that is final *)
(* above the frame, and gives the screen up while others write to it.      *)
(*                                                                         *)
(* A renderer is a record and an operation gives the set of what it may    *)
(* come to: the next renderer and whether the operation threw.  Any write  *)
(* to the terminal may fail.  The writer does not call the renderer back   *)
(* (the terminal's does not), so reentrant calls are left out.             *)
(***************************************************************************)
EXTENDS RunModel

CONSTANT WritesFail   \* may a write to the terminal fail?

ASSUME WritesFailAssumption == WritesFail \in BOOLEAN

Renderers ==
  [state : {"idle", "live", "review-written", "finalized", "failed", "disposed"},
   cursor : BOOLEAN,       \* may the cursor be moved?  Else lines are only added
   compact : BOOLEAN,
   depth : Nat,            \* suspensions begun and not ended
   pending : BOOLEAN,      \* a frame is scheduled
   owned : BOOLEAN,        \* lines of a frame are on the screen
   subscribed : BOOLEAN,
   reported : BOOLEAN,     \* onError was called: the run throws the error later
   discovered : BOOLEAN,   \* setRunMetadata was called
   durable : SUBSET (PhaseNames \X Ends)]  \* the final facts written

NewRenderer(cursor, compact) ==
  [state |-> "idle", cursor |-> cursor, compact |-> compact, depth |-> 0,
   pending |-> FALSE, owned |-> FALSE, subscribed |-> FALSE,
   reported |-> FALSE, discovered |-> FALSE, durable |-> {}]

Operational(r) == r.state \in {"live", "review-written"}

Ok(r)    == [r |-> r, threw |-> FALSE]
Threw(r) == [r |-> r, threw |-> TRUE]

----------------------------------------------------------------------------
(* Failure *)

\* fail: the frame is cancelled and cleared, if the terminal still takes it.
Fail(r, internal) ==
  {[r EXCEPT !.state = "failed", !.pending = FALSE, !.owned = r.owned /\ stuck,
             !.subscribed = FALSE, !.reported = @ \/ internal] :
     stuck \in IF WritesFail THEN BOOLEAN ELSE {FALSE}}

ContractFailure(r) == {Threw(q) : q \in Fail(r, FALSE)}
InternalFailure(r) == {Threw(q) : q \in Fail(r, TRUE)}

----------------------------------------------------------------------------
(* Writing *)

TerminalPhases(phases, exited) ==
  {<<p, phases[p]>> : p \in {n \in PhaseNames :
     phases[n] \in Ends /\ ~(n = "complete" /\ exited)}}

Fresh(r, facts) == IF r.compact THEN {} ELSE facts \ r.durable

\* A fact that was final says something else now.
Contradicts(r, facts) ==
  ~r.compact /\ \E f \in facts, d \in r.durable : f[1] = d[1] /\ f[2] # d[2]

With(r, changes) ==
  [k \in DOMAIN r |-> IF k \in DOMAIN changes THEN changes[k] ELSE r[k]]

\* appendTerminalFacts, then the changes: facts are noted before they are
\* written, and a write that fails leaves the frame or not.
Written(r, facts, changes) ==
  LET noted == [r EXCEPT !.durable = @ \cup Fresh(r, facts)] IN
  IF Contradicts(r, facts) THEN ContractFailure(r)
  ELSE {Ok(With(noted, changes))}
         \cup (IF WritesFail
               THEN UNION {InternalFailure([noted EXCEPT !.owned = left]) :
                             left \in {r.owned, FALSE}}
               ELSE {})

FrameShown(r, s) == r.cursor /\ \E p \in PhaseNames : s.phases[p] = "active"

\* renderLatest
RenderLatest(r, s) ==
  IF ~Operational(r) \/ r.depth > 0 THEN {Ok(r)}
  ELSE Written(r, TerminalPhases(s.phases, s.exitCode # Null),
               [owned |-> FrameShown(r, s)])

\* The observer of the record: it never throws, it fails the renderer.
Observe(r, s) ==
  IF ~Operational(r) \/ r.depth > 0 THEN {r}
  ELSE IF r.cursor THEN {[r EXCEPT !.pending = TRUE]}
  ELSE {o.r : o \in RenderLatest(r, s)}

\* The scheduled frame is due.
FrameDue(r, s) ==
  {o.r : o \in RenderLatest([r EXCEPT !.pending = FALSE], s)}

----------------------------------------------------------------------------
(* Suspension: others write to the terminal *)

\* Mutant: the scheduled frame is not cancelled.
BeginSuspensionUncancelled(r, s) ==
  IF ~Operational(r) THEN ContractFailure(r)
  ELSE IF r.depth > 0 THEN {Ok([r EXCEPT !.depth = @ + 1])}
  ELSE Written(r, TerminalPhases(s.phases, s.exitCode # Null),
               [owned |-> FALSE, depth |-> 1])

BeginSuspension(r, s) ==
  IF ~Operational(r) THEN ContractFailure(r)
  ELSE IF r.depth > 0 THEN {Ok([r EXCEPT !.depth = @ + 1])}
  ELSE Written([r EXCEPT !.pending = FALSE],
               TerminalPhases(s.phases, s.exitCode # Null),
               [owned |-> FALSE, depth |-> 1])

\* What fails while ending fails the call, whatever the call itself did.
EndSuspension(r, s) == RenderLatest([r EXCEPT !.depth = @ - 1], s)

\* callbackFailure: the caller's error stays the one that is thrown.
CallbackFailed(r) == {o.r : o \in ContractFailure(r)}

\* suspend, of a write that does not fail itself.
Suspend(r, s) ==
  UNION {IF b.threw THEN {b} ELSE EndSuspension(b.r, s) : b \in BeginSuspension(r, s)}

----------------------------------------------------------------------------
(* The life of a renderer *)

Start(r, s) == RenderLatest([r EXCEPT !.state = "live", !.subscribed = TRUE], s)

SetRunMetadata(r, s) ==
  IF r.depth > 0 \/ r.state # "live" \/ r.discovered THEN ContractFailure(r)
  ELSE RenderLatest([r EXCEPT !.pending = FALSE, !.discovered = TRUE], s)

WriteReview(r, s) ==
  IF r.depth > 0 \/ r.state # "live" \/ ~r.discovered THEN ContractFailure(r)
  ELSE Written([r EXCEPT !.pending = FALSE],
               TerminalPhases(s.phases, s.exitCode # Null),
               [state |-> "review-written", owned |-> FrameShown(r, s)])

\* finalize: the end of the run, over whatever frame is left.
Finalize(r, s, receipt) ==
  IF r.state = "finalized" THEN {Ok(r)}
  ELSE IF \/ r.depth > 0 \/ ~Operational(r) \/ ~r.discovered
          \/ s.exitCode = Null \/ s.phases["complete"] \notin Ends
          \/ s.counts.operations > 0 /\ r.state # "review-written"
          \/ s.counts.operations > 0 /\ s.write /\ ~receipt
  THEN ContractFailure([r EXCEPT !.pending = FALSE])
  ELSE LET facts == TerminalPhases(s.phases, s.exitCode # Null) IN
       Written([r EXCEPT !.pending = FALSE], facts,
               [state |-> "finalized", owned |-> FALSE, subscribed |-> FALSE,
                durable |-> IF r.compact THEN r.durable
                            ELSE r.durable \cup facts
                                   \cup {<<"complete", s.phases["complete"]>>}])

\* dispose: after an error, or on a signal.
Dispose(r) ==
  IF r.state \in {"disposed", "finalized", "failed"} THEN {r}
  ELSE {[q EXCEPT !.state = "disposed", !.reported = q.owned \/ r.reported] :
          q \in Fail(r, FALSE)}
=============================================================================
