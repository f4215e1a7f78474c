------------------------------- MODULE Resolver -------------------------------
(***************************************************************************)
(* The resolution of the dependencies of a check run (io/resolve): each    *)
(* waits for a slot, looks into the cache, joins the fetch of its package  *)
(* that is under way or starts one, stores the answer, and selects from    *)
(* it.  The command launches package after package and may fail between    *)
(* two; it then closes the cache while resolutions are still running.      *)
(* What is selected from an answer is VersionFilter's matter.              *)
(*                                                                         *)
(* Dependencies are 1..N in the order in which they are launched.  A fetch *)
(* is named by the dependency that started it, and so is its answer; 0 is  *)
(* an answer an earlier run left in the cache.                             *)
(***************************************************************************)
EXTENDS ResultCache, RegistryFetch, FiniteSets

CONSTANTS N,            \* dependencies
          Concurrency   \* options.concurrency

ASSUME ResolverAssumption == N \in Nat \ {0} /\ Concurrency \in Nat \ {0}

Deps == 1..N
\* An npm package, and a GitHub repository, whose tags are read page by page.
Names == {"npm", "github"}

VARIABLES
  options,    \* [enabled, refresh, authenticated]
  wants,      \* the package of each dependency
  launched,   \* dependencies 1..launched are handed to the limit; then a
              \* hook throws, unless these are all
  ended,      \* the command closed the cache
  pc,         \* "queued", "waiting" or "done", for each dependency
  waits,      \* the fetch a dependency waits for
  fetch,      \* the fetch each dependency started
  inFlight,   \* resolveContext.inFlight: package -> the dependency that fetches
  cache,
  outcome     \* what became of each dependency

vars == <<options, wants, launched, ended, pc, waits, fetch, inFlight, cache, outcome>>

Nobody == 0
Unresolved == [kind |-> "none"]
Failed     == [kind |-> "error"]
Resolved(answer) == [kind |-> "resolved", answer |-> answer]

Answer(name, from) == [name |-> name, from |-> from]

----------------------------------------------------------------------------
(* Policy *)

\* getResolveCachePolicy
BypassRead  == ~options.enabled \/ options.refresh
ShouldWrite == options.enabled

\* Mutant: what one user may see is kept for everybody.
PersistentAlways(name) == TRUE

\* buildResolveCacheIdentity: answers to a token are not kept, and those of an
\* authenticated GitHub not even shared.
Persistent(name) == ~options.authenticated
Shared(name)     == ~options.authenticated \/ name # "github"

----------------------------------------------------------------------------
Init ==
  /\ options \in {o \in [enabled : BOOLEAN, refresh : BOOLEAN, authenticated : BOOLEAN] :
                   o.refresh => o.enabled}
  /\ wants \in [Deps -> Names]
  /\ launched \in Deps /\ ended = FALSE
  /\ pc = [d \in Deps |-> "queued"]
  /\ waits = [d \in Deps |-> Nobody]
  /\ fetch = [d \in Deps |-> NoFetch]
  /\ inFlight = [n \in Names |-> Nobody]
  /\ \E rows \in {[n \in Names |-> Absent], [n \in Names |-> Corrupt],
                    [n \in Names |-> Held(Answer(n, 0))]} :
       cache \in {SqliteCache(rows), MemoryCache([n \in Names |-> Absent])}
  /\ outcome = [d \in Deps |-> Unresolved]

Running == {d \in 1..launched : pc[d] = "waiting"}

Finish(d, what) ==
  pc' = [pc EXCEPT ![d] = "done"] /\ outcome' = [outcome EXCEPT ![d] = what]

\* Mutant: the fetch is registered under a name nobody looks up.
JoinNever(d) == FALSE

\* The fetch of d's package is in flight.
Join(d) == Shared(wants[d]) /\ inFlight[wants[d]] # Nobody

\* No cached answer: the fetch under way is shared, else one is started.
Ask(d) ==
  /\ pc' = [pc EXCEPT ![d] = "waiting"]
  /\ IF Join(d)
     THEN /\ waits' = [waits EXCEPT ![d] = inFlight[wants[d]]]
          /\ UNCHANGED <<fetch, inFlight>>
     ELSE /\ fetch' = [fetch EXCEPT ![d] = Fetch(wants[d] = "github")]
          /\ waits' = [waits EXCEPT ![d] = d]
          /\ inFlight' = IF Shared(wants[d])
                         THEN [inFlight EXCEPT ![wants[d]] = d] ELSE inFlight
  /\ UNCHANGED outcome

\* resolveDependency up to its first await: a slot is free, the queue is in
\* order.
Begin(d) ==
  /\ d <= launched /\ pc[d] = "queued"
  /\ \A e \in 1..(d - 1) : pc[e] # "queued"
  /\ Cardinality(Running) < Concurrency
  /\ IF BypassRead \/ ~Persistent(wants[d]) THEN Ask(d) /\ UNCHANGED cache
     ELSE \E found \in Get(cache, wants[d]) :
            /\ cache' = found.cache
            /\ IF found.entry.kind = "data"
               THEN /\ Finish(d, Resolved(found.entry.data))
                    /\ UNCHANGED <<waits, fetch, inFlight>>
               ELSE Ask(d)
  /\ UNCHANGED <<options, wants, launched, ended>>

\* A request of d's fetch is answered, or given up; a backoff ends.
Respond(d) ==
  /\ fetch[d].state = "asking"
  /\ \E f \in Answered(fetch[d]) : fetch' = [fetch EXCEPT ![d] = f]
  /\ UNCHANGED <<options, wants, launched, ended, pc, waits, inFlight, cache, outcome>>

Retry(d) ==
  /\ fetch[d].state = "backoff"
  /\ \E f \in Retried(fetch[d]) : fetch' = [fetch EXCEPT ![d] = f]
  /\ UNCHANGED <<options, wants, launched, ended, pc, waits, inFlight, cache, outcome>>

\* The fetch's finally: nobody joins it any more.  What is left of it is whether it
\* succeeded.
Forget(d) ==
  /\ fetch[d].state = "settled"
  /\ fetch' = [fetch EXCEPT ![d] = [Fetch(FALSE) EXCEPT !.state = "told", !.ok = fetch[d].ok]]
  /\ inFlight' = IF Shared(wants[d]) THEN [inFlight EXCEPT ![wants[d]] = Nobody] ELSE inFlight
  /\ UNCHANGED <<options, wants, launched, ended, pc, waits, cache, outcome>>

\* Mutant: a failed fetch is an answer too.
StoredAlways(f) == TRUE

Stored(f) == f.ok

\* The await of d's fetch returns: the answer is stored; a failure is an error of
\* this dependency.
Continue(d) ==
  /\ pc[d] = "waiting" /\ fetch[waits[d]].state = "told"
  /\ LET f == fetch[waits[d]]
         answer == Answer(wants[waits[d]], waits[d]) IN
     /\ IF Stored(f) /\ ShouldWrite /\ Persistent(wants[d])
        THEN cache' \in Put(cache, wants[d], answer) ELSE UNCHANGED cache
     /\ Finish(d, IF f.ok THEN Resolved(answer) ELSE Failed)
  /\ UNCHANGED <<options, wants, launched, ended, waits, fetch, inFlight>>

\* The end of the resolution, or a hook that threw before the next launch: the
\* cache is counted and closed, whoever still uses it.
End ==
  /\ ~ended /\ (launched < N \/ \A d \in Deps : pc[d] = "done")
  /\ ended' = TRUE
  /\ cache' \in UNION {Close(c) : c \in Counted(cache)}
  /\ UNCHANGED <<options, wants, launched, pc, waits, fetch, inFlight, outcome>>

Resolve(d) == Begin(d) \/ Respond(d) \/ Retry(d) \/ Forget(d) \/ Continue(d)

Next == (\E d \in Deps : Resolve(d)) \/ End

Spec == Init /\ [][Next]_vars

\* Requests end because their timers abort them, backoffs because theirs fire,
\* and the event loop runs every continuation and every task with a slot.
Fairness == \A d \in Deps : WF_vars(Resolve(d))

FairSpec == Spec /\ Fairness

----------------------------------------------------------------------------
(* Properties *)

\* Every answer is one the registry of its own package gave, and to nobody else
\* if a token was shown: the one of the fetch that was joined, or one an earlier
\* dependency or run left in the cache; with --refresh-cache, or without a
\* cache, never one that was kept.  A fetch that failed is an error of all who
\* waited for it.
AnswersAreSound ==
  \A d \in Deps :
    /\ outcome[d].kind = "resolved" =>
         LET a == outcome[d].answer IN
         /\ a.name = wants[d]
         /\ a.from # 0 => fetch[a.from].ok /\ wants[a.from] = wants[d]
         /\ a.from # waits[d] =>
              options.enabled /\ ~options.refresh /\ ~options.authenticated
    /\ pc[d] = "done" /\ waits[d] # Nobody /\ ~fetch[waits[d]].ok => outcome[d] = Failed

\* Two requests are never made for one package at a time, unless a token forbids
\* to share them; and the cache holds nothing but answers of successful fetches
\* to those without a token, in a database that is closed once.
CacheIsSound ==
  /\ \A d, e \in Deps :
       d # e /\ wants[d] = wants[e] /\ Shared(wants[d]) =>
         {fetch[d].state, fetch[e].state} \cap {"none", "told"} # {}
  /\ \A n \in Names : \A entry \in {cache.rows[n], cache.store[n]} :
       entry.kind = "data" =>
         /\ entry.data.name = n
         /\ entry.data.from # 0 => ShouldWrite /\ ~options.authenticated
                                    /\ fetch[entry.data.from].ok
  /\ cache.closes <= 1

\* What dependencies are told, and what is kept for later ones.
AnswersAndCacheAreSound == AnswersAreSound /\ CacheIsSound

\* A traversal of GitHub's tags is over when its budget is, but for a late timer,
\* and counts no answer that came after; no request is repeated more often than
\* allowed.
BudgetHolds ==
  \A d \in Deps : fetch[d].state # "none" =>
    /\ fetch[d].attempt <= Retries
    /\ fetch[d].left >= -Late
    /\ fetch[d].left <= 0 => ~fetch[d].ok
    /\ fetch[d].state = "asking" => fetch[d].left > 0

\* Every launched dependency gets its answer, whatever fails and however few
\* slots there are: nobody who waits for a fetch keeps it from its slot.
EveryDependencySettles == <>(\A d \in 1..launched : pc[d] = "done")
=============================================================================
