----------------------------- MODULE RegistryFetch -----------------------------
(***************************************************************************)
(* One fetch of a package from its registry (io/registry.ts): requests     *)
(* with a time limit and retries, and for GitHub the pages of its tags     *)
(* under a budget of elapsed time.                                         *)
(*                                                                         *)
(* A fetch is a record; `left` is what remains of the budget, in units in  *)
(* which a request's time limit is Timeout and every backoff is Backoff.   *)
(* A timer may come late by one unit.                                      *)
(***************************************************************************)
EXTENDS Integers

CONSTANTS Retries,   \* options.retries
          Budget,    \* GITHUB_MAX_ELAPSED_MS
          MaxPages,  \* GITHUB_MAX_PAGES
          Timeout,   \* options.timeout
          Backoff    \* the delay before a retry

ASSUME RegistryAssumption ==
  /\ Retries \in Nat /\ MaxPages \in Nat \ {0}
  /\ Budget \in Nat \ {0} /\ Timeout \in Nat \ {0} /\ Backoff \in Nat \ {0}

Late == 1

NoFetch == [state |-> "none"]

\* A request of the fetch is under way, asleep before the next one, or over.
Fetch(paged) ==
  [state |-> "asking", paged |-> paged, page |-> 1, attempt |-> 0, left |-> Budget,
   ok |-> FALSE]
Over(f, ok) == [f EXCEPT !.state = "settled", !.ok = ok]

Smaller(a, b) == IF a < b THEN a ELSE b
\* The most one request can take: its timer aborts it.
RequestLimit(f) == Smaller(Timeout, f.left) + Late

\* Time passes: only the traversal of GitHub's pages watches it.
Elapsed(f, t) == IF f.paged THEN [f EXCEPT !.left = @ - t] ELSE f
Exhausted(f)  == f.paged /\ f.left <= 0

\* fetchWithRetry begins: assertActive first.
Request(f) == IF Exhausted(f) THEN Over(f, FALSE) ELSE [f EXCEPT !.state = "asking"]

\* Mutant: the budget is not looked at once the body is read.
BodyReadLate(f) ==
  IF ~f.paged THEN {Over(f, TRUE), Over(f, FALSE)}
  ELSE {Over(f, TRUE), Over(f, FALSE)}
         \cup (IF f.page < MaxPages
               THEN {Request([f EXCEPT !.page = @ + 1, !.attempt = 0])} ELSE {})

\* A body was read: the last page, or one of an unexpected shape or with too
\* many records; or a full page, after which comes the next.
BodyRead(f) ==
  IF ~f.paged THEN {Over(f, TRUE), Over(f, FALSE)}
  ELSE IF Exhausted(f) THEN {Over(f, FALSE)}
  ELSE {Over(f, TRUE), Over(f, FALSE)}
         \cup (IF f.page < MaxPages
               THEN {Request([f EXCEPT !.page = @ + 1, !.attempt = 0])} ELSE {})

\* A client error, a rate limit, a body too large or not JSON: no retry.
Refused(f) == {Over(f, FALSE)}

\* A server error, a broken connection, the time limit: a retry if there is one
\* left and the budget outlasts the backoff.
Broken(f) ==
  IF f.attempt < Retries /\ (f.paged => f.left > Backoff)
  THEN {[f EXCEPT !.state = "backoff"]} ELSE {Over(f, FALSE)}

Answered(f) ==
  UNION {LET g == Elapsed(f, t) IN BodyRead(g) \cup Refused(g) \cup Broken(g) :
           t \in IF f.paged THEN 0..RequestLimit(f) ELSE {0}}

\* Mutant: a retry is not counted.
RetriedForever(f) ==
  {Request(Elapsed(f, Backoff + late)) : late \in IF f.paged THEN 0..Late ELSE {0}}

\* The backoff is over.
Retried(f) ==
  {Request([Elapsed(f, Backoff + late) EXCEPT !.attempt = @ + 1]) :
     late \in IF f.paged THEN 0..Late ELSE {0}}
=============================================================================
