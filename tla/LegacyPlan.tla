------------------------------- MODULE LegacyPlan -------------------------------
(***************************************************************************)
(* How the check command hands what was selected to the apply engine, and  *)
(* how it reads the engine's answer (commands/apply/legacy-plan.ts).       *)
(*                                                                         *)
(* A selection is a package with the changes chosen for it, after addons   *)
(* and prompts had their say: nothing keeps two of them from meeting at    *)
(* one physical place, the file and the path of a value.  The plan has one *)
(* operation for each place; anything that cannot be written, or two       *)
(* values for one place, blocks the whole command.                         *)
(*                                                                         *)
(* A package is a manifest or the owner of catalogs; a change names a      *)
(* dependency, the field and the parents it was found under, the value it  *)
(* replaces and the one it writes, and a label for the evidence of the     *)
(* registry beside it.                                                     *)
(***************************************************************************)
EXTENDS Integers, Sequences, FiniteSets

CONSTANT Contained  \* the files that are regular and inside the root

Place(file, path) == [file |-> file, path |-> path]

\* findCatalogMatches
CatalogMatches(pkg, change) ==
  {c \in pkg.catalogs : \E d \in c.deps : /\ d.name = change.name
                                          /\ change.parents \in {<<>>, d.parents}}

\* getPackageOccurrencePath and getCatalogOccurrencePath
ManifestPath(change) ==
  IF change.field = "overrides" /\ change.parents # <<>>
  THEN <<change.field>> \o change.parents ELSE <<change.field, change.name>>
CatalogPath(catalog, change) == <<catalog.name, change.name>>

Nowhere == Place("", <<>>)

Collected(place, reason, owner) == [place |-> place, reason |-> reason, owner |-> owner]

\* collectInput: the place a change is for, or the reason there is none.
Input(pkg, change) ==
  LET matches == CatalogMatches(pkg, change)
      places  == {Place(c.file, CatalogPath(c, change)) : c \in matches}
      owner   == CHOOSE c \in matches : Place(c.file, CatalogPath(c, change)) \in places
  IN CASE pkg.kind = "manifest" /\ pkg.file \notin Contained ->
            Collected(Nowhere, "UNSUPPORTED_WRITE_SOURCE", "")
       [] pkg.kind = "manifest" /\ pkg.file \in Contained ->
            Collected(Place(pkg.file, ManifestPath(change)), "none", pkg.label)
       [] pkg.kind = "catalog" /\ \E c \in matches : c.file \notin Contained ->
            Collected(Nowhere, "UNSUPPORTED_WRITE_SOURCE", "")
       [] OTHER ->
            CASE places = {} -> Collected(Nowhere, "OCCURRENCE_NOT_FOUND", "")
              [] Cardinality(places) > 1 -> Collected(Nowhere, "AMBIGUOUS_OCCURRENCE", "")
              [] OTHER -> Collected(CHOOSE p \in places : TRUE, "none", owner.name)

\* A change with its package, its number, and what was collected.
Projection(selection, j) ==
  [package |-> selection.package, number |-> j, change |-> selection.changes[j],
   input |-> Input(selection.pkg, selection.changes[j])]
Projections(selections) ==
  UNION {{Projection(selections[i], j) : j \in DOMAIN selections[i].changes} :
           i \in DOMAIN selections}

Supported(p)  == p.input.reason = "none"
Pair(p)       == <<p.change.from, p.change.to>>
PlacesOf(projections) == {p.input.place : p \in {q \in projections : Supported(q)}}
At(projections, place) == {p \in projections : Supported(p) /\ p.input.place = place}

\* Mutant: the first of several values for a place is written.
Undisputed(projections) == {}

Disputed(projections) ==
  {place \in PlacesOf(projections) :
     \E p, q \in At(projections, place) : Pair(p) # Pair(q)}

Outcome(status, reason) == [status |-> status, reason |-> reason]

\* The outcome of a change that is not written; "none" if nothing blocks it.
BlockedOutcome(projections, disputed, p) ==
  LET unsupported == {q.package : q \in {r \in projections : ~Supported(r)}} IN
  CASE ~Supported(p) -> Outcome("failed", p.input.reason)
    [] Supported(p) /\ p.input.place \in disputed ->
         Outcome("conflicted", "AMBIGUOUS_OCCURRENCE")
    [] OTHER ->
         CASE p.package \in unsupported -> Outcome("failed", "UNSUPPORTED_WRITE_SOURCE")
           [] p.package \notin unsupported /\ disputed # {} -> Outcome("failed", "WRITE_FAILED")
           [] p.package \notin unsupported /\ disputed = {} /\ unsupported # {} ->
                Outcome("failed", "UNSUPPORTED_WRITE_SOURCE")
           [] OTHER -> Outcome("none", "none")

----------------------------------------------------------------------------
(* The evidence of the selection *)

\* evidenceFacts
Fact(p) ==
  [name |-> p.change.name, field |-> p.change.field, place |-> p.input.place,
   owner |-> p.input.owner, from |-> p.change.from, to |-> p.change.to,
   diff |-> p.change.diff, facts |-> p.change.facts]

Unavailable(reasons) == [status |-> "unavailable", reasons |-> reasons, operations |-> {}]
Ready(operations) == [status |-> "ready", reasons |-> {}, operations |-> operations]

Semantic == {"major", "minor", "patch"}

\* What is wrong with the evidence of a place.
Doubts(projections, place) ==
  CASE \E p \in At(projections, place) : p.change.diff \notin Semantic -> {"UNBOUND_OPERATION"}
    [] (\A p \in At(projections, place) : p.change.diff \in Semantic)
         /\ (\E p, q \in At(projections, place) : Fact(p) # Fact(q))
         -> {"INCONSISTENT_SELECTION_EVIDENCE"}
    [] OTHER -> {}

\* Mutant: the facts of one change stand for all changes of its place.
EvidenceOfOne(projections, places, outcomes) ==
  IF \E p \in projections : outcomes[p].reason = "UNSUPPORTED_WRITE_SOURCE"
  THEN Unavailable({"UNSUPPORTED_WRITE_SOURCE"}) ELSE Ready(places)

\* createSelectionEvidence; of several places in doubt the code tells the reason
\* of the first, here they are a set.
Evidence(projections, places, outcomes) ==
  LET doubts == UNION {Doubts(projections, place) : place \in places} IN
  CASE \E p \in projections : outcomes[p].reason = "UNSUPPORTED_WRITE_SOURCE" ->
         Unavailable({"UNSUPPORTED_WRITE_SOURCE"})
    [] (\A p \in projections : outcomes[p].reason # "UNSUPPORTED_WRITE_SOURCE")
         /\ (\E p \in projections : ~Supported(p)) -> Unavailable({"UNBOUND_OPERATION"})
    [] OTHER -> IF doubts # {} THEN Unavailable(doubts) ELSE Ready(places)

----------------------------------------------------------------------------
(* The construction *)

WithEvidence(projections, places, disputed, outcomes) ==
  [projections |-> projections,
   plan |-> places \ disputed,
   outcomes |-> outcomes,
   blocked |-> disputed # {} \/ \E p \in projections : ~Supported(p),
   evidence |-> Evidence(projections, places, outcomes)]

Construction(projections, disputed) ==
  WithEvidence(projections, PlacesOf(projections), disputed,
               [p \in projections |-> BlockedOutcome(projections, disputed, p)])

\* createLegacyPlan: an operation is the place it writes; a disputed place has an
\* id of its own and no operation.
CreateLegacyPlan(projections) == Construction(projections, Disputed(projections))

Requested(projections, place) == (CHOOSE p \in At(projections, place) : TRUE).change

----------------------------------------------------------------------------
(* Reading the answer *)

Known == {"APPLIED", "NO_CHANGE", "EXPECTED_VALUE_MISMATCH", "OCCURRENCE_NOT_FOUND",
          "AMBIGUOUS_OCCURRENCE", "READ_FAILED", "PARSE_FAILED", "WRITE_FAILED",
          "VCS_UNAVAILABLE", "OBSERVATION_FAILED"}

\* toLegacyReason
Reason(reason) == IF reason \in Known THEN reason ELSE "WRITE_FAILED"

\* For every package the outcomes of its changes, in their order.
Told(selections, outcomes) ==
  [i \in DOMAIN selections |->
     [package |-> selections[i].package,
      outcomes |-> [j \in DOMAIN selections[i].changes |->
        outcomes[CHOOSE p \in DOMAIN outcomes :
                   p.package = selections[i].package /\ p.number = j]]]]

\* projectAppliedPackages
AppliedPackages(selections, projections, result) ==
  Told(selections, [p \in projections |->
    IF p.input.place \in DOMAIN result
    THEN Outcome(result[p.input.place].status, Reason(result[p.input.place].reason))
    ELSE Outcome("failed", "WRITE_FAILED")])

\* projectBlockedPackages
BlockedPackages(selections, projections, outcomes) ==
  Told(selections, [p \in projections |->
    IF outcomes[p].status # "none" THEN outcomes[p] ELSE Outcome("failed", "WRITE_FAILED")])

\* createAttemptEvidence: what would have been attempted, by target.
Attempts(projections) ==
  LET places == PlacesOf(projections) IN
  {[target |-> file, operations |-> {place \in places : place.file = file}] :
     file \in {place.file : place \in places}}

\* validateSelections
ValidSelections(selections) ==
  \A i, j \in DOMAIN selections : i # j => selections[i].package # selections[j].package
=============================================================================
