---------------------------- MODULE ResolverProofs ----------------------------
(***************************************************************************)
(* Theorems about Resolver, for any number of dependencies, slots, retries *)
(* and pages, and any budget.                                              *)
(***************************************************************************)
EXTENDS Resolver, TLAPS

-----------------------------------------------------------------------------
(* The invariant *)

UnderWay == {"asking", "backoff", "settled"}
Fetches ==
  [state : UnderWay \cup {"told"}, paged : BOOLEAN, page : Nat, attempt : Nat,
   left : Int, ok : BOOLEAN]
Answers  == [name : Names, from : Deps \cup {0}]
Entries  == {Absent, Corrupt} \cup [kind : {"data"}, data : Answers]
Outcomes == {Unresolved, Failed} \cup [kind : {"resolved"}, answer : Answers]
Caches ==
  [usingMemory : BOOLEAN, closeAttempted : BOOLEAN, open : BOOLEAN, closes : Nat,
   rows : [Names -> Entries], store : [Names -> Entries]]

TypeOK ==
  /\ options \in [enabled : BOOLEAN, refresh : BOOLEAN, authenticated : BOOLEAN]
  /\ wants \in [Deps -> Names]
  /\ launched \in Deps /\ ended \in BOOLEAN
  /\ pc \in [Deps -> {"queued", "waiting", "done"}]
  /\ waits \in [Deps -> Deps \cup {Nobody}]
  /\ fetch \in [Deps -> {NoFetch} \cup Fetches]
  /\ inFlight \in [Names -> Deps \cup {Nobody}]
  /\ cache \in Caches
  /\ outcome \in [Deps -> Outcomes]

\* What a fetch may be, between any two of its steps.
FetchKept(f) ==
  /\ f.attempt <= Retries
  /\ f.left >= -Late
  /\ f.left <= 0 => ~f.ok
  /\ f.state = "asking" => f.left > 0 /\ ~f.ok
  /\ f.state = "backoff" =>
       ~f.ok /\ f.attempt < Retries /\ (f.paged => f.left > Backoff)
  /\ ~f.paged => f.left = Budget

FetchesKept == \A d \in Deps : fetch[d] # NoFetch => FetchKept(fetch[d])

\* A promise in flight is the only fetch of its package that is not over.
FlightsKept ==
  /\ \A n \in Names : inFlight[n] # Nobody =>
       /\ wants[inFlight[n]] = n /\ Shared(n)
       /\ fetch[inFlight[n]].state \in UnderWay
  /\ \A d \in Deps : fetch[d].state \in UnderWay /\ Shared(wants[d]) =>
       inFlight[wants[d]] = d

\* A fetch that answered.
Succeeded(d) == fetch[d].state = "told" /\ fetch[d].ok

\* An answer that may be kept for the package.
MayBeKept(a, name) ==
  /\ a.name = name
  /\ a.from # 0 => /\ options.enabled /\ ~options.authenticated
                   /\ Succeeded(a.from) /\ wants[a.from] = name

\* Where each dependency stands, and what it was told.
DependenciesKept ==
  \A d \in Deps :
    /\ pc[d] = "queued" => waits[d] = Nobody /\ fetch[d] = NoFetch
    /\ pc[d] # "done" => outcome[d] = Unresolved
    /\ pc[d] = "waiting" => waits[d] # Nobody
    /\ waits[d] # Nobody =>
         fetch[waits[d]] # NoFetch /\ wants[waits[d]] = wants[d]
    /\ pc[d] = "done" /\ waits[d] # Nobody =>
         /\ fetch[waits[d]].state = "told"
         /\ outcome[d] = IF fetch[waits[d]].ok
                         THEN Resolved(Answer(wants[waits[d]], waits[d])) ELSE Failed
    /\ pc[d] = "done" /\ waits[d] = Nobody =>
         /\ options.enabled /\ ~options.refresh /\ ~options.authenticated
         /\ outcome[d].kind = "resolved" /\ MayBeKept(outcome[d].answer, wants[d])

\* What the cache holds, and how often its database was closed.
EntriesKept(c) ==
  \A n \in Names : \A entry \in {c.rows[n], c.store[n]} :
    entry.kind = "data" => MayBeKept(entry.data, n)
ClosedOnce(c) ==
  /\ c.closes <= 1
  /\ ~c.closeAttempted => c.closes = 0
  /\ ~ended /\ c.closeAttempted => c.usingMemory

ResolverInvariant ==
  /\ TypeOK /\ FetchesKept /\ FlightsKept /\ DependenciesKept
  /\ EntriesKept(cache) /\ ClosedOnce(cache)

-----------------------------------------------------------------------------
(* One fetch *)

LEMMA NewFetch ==
  ASSUME NEW paged \in BOOLEAN
  PROVE  /\ Fetch(paged) \in Fetches /\ FetchKept(Fetch(paged))
         /\ Fetch(paged).state = "asking" /\ Fetch(paged) # NoFetch
BY RegistryAssumption DEF Fetch, Fetches, FetchKept, UnderWay, Late, NoFetch

LEMMA FetchIsNone ==
  ASSUME NEW f \in Fetches
  PROVE  f # NoFetch /\ f.state # "none" /\ NoFetch.state = "none"
BY DEF Fetches, NoFetch, UnderWay

\* What a fetch is whose request was just answered or given up, or whose backoff
\* just ended, before the next request is considered.
Between(f) ==
  /\ f \in Fetches /\ ~f.ok /\ f.attempt <= Retries /\ f.left >= -Late
  /\ ~f.paged => f.left = Budget

LEMMA OverKept ==
  ASSUME NEW f, Between(f), NEW ok \in BOOLEAN, ok => ~Exhausted(f)
  PROVE  Over(f, ok) \in Fetches /\ FetchKept(Over(f, ok)) /\ Over(f, ok).state = "settled"
<1> DEFINE g == Over(f, ok)
<1>1. f \in Fetches
  BY DEF Between
<1>2. /\ g.state = "settled" /\ g.ok = ok /\ g.paged = f.paged
      /\ g.attempt = f.attempt /\ g.left = f.left
  BY <1>1 DEF Over, Fetches
<1>3. g \in Fetches
  BY <1>1 DEF Over, Fetches, UnderWay
<1>4. f.left <= 0 => ~ok
  BY <1>1, RegistryAssumption DEF Between, Exhausted, Fetches
<1>5. FetchKept(g)
  BY <1>2, <1>4 DEF FetchKept, Between
<1>6. QED
  BY <1>2, <1>3, <1>5

LEMMA RequestKept ==
  ASSUME NEW f, Between(f)
  PROVE  /\ Request(f) \in Fetches /\ FetchKept(Request(f))
         /\ Request(f).state \in {"asking", "settled"}
<1>1. CASE Exhausted(f)
  BY <1>1, OverKept DEF Request
<1>2. CASE ~Exhausted(f)
  <2> DEFINE g == [f EXCEPT !.state = "asking"]
  <2>1. Request(f) = g /\ f \in Fetches
    BY <1>2 DEF Request, Between
  <2>2. /\ g.state = "asking" /\ g.ok = f.ok /\ g.paged = f.paged
        /\ g.attempt = f.attempt /\ g.left = f.left
    BY <2>1 DEF Fetches
  <2>3. g \in Fetches
    BY <2>1 DEF Fetches, UnderWay
  <2>4. f.left > 0
    BY <1>2, <2>1, RegistryAssumption DEF Between, Exhausted, Fetches
  <2>5. FetchKept(g)
    BY <2>2, <2>4, <2>1 DEF FetchKept, Between, Fetches
  <2>6. QED
    BY <2>1, <2>2, <2>3, <2>5
<1>3. QED
  BY <1>1, <1>2

LEMMA BodyReadKept ==
  ASSUME NEW f, Between(f), NEW g \in BodyRead(f)
  PROVE  g \in Fetches /\ FetchKept(g) /\ g.state \in {"asking", "settled"}
<1> DEFINE next == [f EXCEPT !.page = @ + 1, !.attempt = 0]
<1>1. Between(next)
  <2>1. f \in Fetches
    BY DEF Between
  <2>2. next.ok = f.ok /\ next.paged = f.paged /\ next.attempt = 0 /\ next.left = f.left
    BY <2>1 DEF Fetches
  <2>3. next \in Fetches
    <3>1. f.page + 1 \in Nat
      BY <2>1 DEF Fetches
    <3>2. \A p \in Nat, h \in Fetches : [h EXCEPT !.page = p] \in Fetches
      BY DEF Fetches
    <3>3. \A a \in Nat, h \in Fetches : [h EXCEPT !.attempt = a] \in Fetches
      BY DEF Fetches
    <3>4. QED
      BY <2>1, <3>1, <3>2, <3>3
  <2>4. QED
    BY <2>2, <2>3, RegistryAssumption DEF Between
<1>2. CASE g = Over(f, FALSE)
  BY <1>2, OverKept
<1>3. CASE g = Over(f, TRUE) /\ ~Exhausted(f)
  BY <1>3, OverKept
<1>4. CASE g = Request(next)
  BY <1>1, <1>4, RequestKept
<1>5. g = Over(f, FALSE) \/ (g = Over(f, TRUE) /\ ~Exhausted(f)) \/ g = Request(next)
  BY DEF BodyRead, Exhausted
<1>6. QED
  BY <1>2, <1>3, <1>4, <1>5

LEMMA BrokenKept ==
  ASSUME NEW f, Between(f), NEW g \in Broken(f)
  PROVE  g \in Fetches /\ FetchKept(g) /\ g.state \in {"backoff", "settled"}
<1>1. CASE f.attempt < Retries /\ (f.paged => f.left > Backoff)
  BY <1>1, RegistryAssumption DEF Broken, Between, Fetches, FetchKept, UnderWay
<1>2. CASE ~(f.attempt < Retries /\ (f.paged => f.left > Backoff))
  BY <1>2, OverKept DEF Broken
<1>3. QED
  BY <1>1, <1>2

\* Time that passes during a request or a backoff exceeds the budget by no more
\* than a late timer does.
LEMMA ElapsedKept ==
  ASSUME NEW f \in Fetches, ~f.ok, f.attempt <= Retries, ~f.paged => f.left = Budget,
         NEW t \in Nat, f.paged => t <= f.left + Late
  PROVE  Between(Elapsed(f, t)) /\ Elapsed(f, t).attempt = f.attempt
BY RegistryAssumption DEF Between, Elapsed, Fetches, Late

\* A request ends in one of the states a fetch may have.
LEMMA AnsweredKept ==
  ASSUME NEW f \in Fetches, FetchKept(f), f.state = "asking", NEW g \in Answered(f)
  PROVE  g \in Fetches /\ FetchKept(g) /\ g.state \in UnderWay
<1>1. ~f.ok
  BY DEF FetchKept, Fetches
<1>2. PICK t \in (IF f.paged THEN 0..RequestLimit(f) ELSE {0}) :
        g \in BodyRead(Elapsed(f, t)) \cup Refused(Elapsed(f, t)) \cup Broken(Elapsed(f, t))
  BY DEF Answered
<1>3. t \in Nat /\ (f.paged => t <= f.left + Late)
  BY <1>2, RegistryAssumption DEF RequestLimit, Smaller, Fetches, Late, FetchKept
<1>4. Between(Elapsed(f, t))
  BY <1>1, <1>3, ElapsedKept DEF FetchKept
<1>5. CASE g \in BodyRead(Elapsed(f, t))
  BY <1>4, <1>5, BodyReadKept DEF UnderWay
<1>6. CASE g \in Refused(Elapsed(f, t))
  BY <1>4, <1>6, OverKept DEF Refused, UnderWay
<1>7. CASE g \in Broken(Elapsed(f, t))
  BY <1>4, <1>7, BrokenKept DEF UnderWay
<1>8. QED
  BY <1>2, <1>5, <1>6, <1>7

\* So does a backoff.
LEMMA RetriedKept ==
  ASSUME NEW f \in Fetches, FetchKept(f), f.state = "backoff", NEW g \in Retried(f)
  PROVE  g \in Fetches /\ FetchKept(g) /\ g.state \in UnderWay
<1>1. PICK late \in (IF f.paged THEN 0..Late ELSE {0}) :
        g = Request([Elapsed(f, Backoff + late) EXCEPT !.attempt = @ + 1])
  BY DEF Retried
<1> DEFINE e == Elapsed(f, Backoff + late)
<1>2. Backoff + late \in Nat /\ (f.paged => Backoff + late <= f.left + Late)
  BY <1>1, RegistryAssumption DEF FetchKept, Late, Fetches
<1>3. Between(e) /\ e.attempt = f.attempt
  BY <1>2, ElapsedKept DEF FetchKept
<1>4. Between([e EXCEPT !.attempt = @ + 1])
  BY <1>3, RegistryAssumption DEF Between, Fetches, FetchKept
<1>5. QED
  BY <1>1, <1>4, RequestKept DEF UnderWay

-----------------------------------------------------------------------------
(* The cache *)

CacheKept(c) == c \in Caches /\ EntriesKept(c) /\ ClosedOnce(c)

\* A cache with one field changed is a cache.
LEMMA CacheFields ==
  ASSUME NEW c \in Caches
  PROVE  /\ [c EXCEPT !.usingMemory = TRUE] \in Caches
         /\ [c EXCEPT !.closeAttempted = TRUE] \in Caches
         /\ [c EXCEPT !.open = FALSE] \in Caches
         /\ c.closes + 1 \in Nat
         /\ \A n \in Nat : [c EXCEPT !.closes = n] \in Caches
<1>1. c.closes \in Nat
  BY DEF Caches
<1>2. c.closes + 1 \in Nat
  BY <1>1
<1>3. /\ [c EXCEPT !.usingMemory = TRUE] \in Caches
      /\ [c EXCEPT !.closeAttempted = TRUE] \in Caches
      /\ [c EXCEPT !.open = FALSE] \in Caches
  BY DEF Caches
<1>4. \A n \in Nat : [c EXCEPT !.closes = n] \in Caches
  BY DEF Caches
<1>5. QED
  BY <1>2, <1>3, <1>4

LEMMA FailOverKept ==
  ASSUME NEW c, CacheKept(c)
  PROVE  CacheKept(FailOver(c)) /\ FailOver(c).usingMemory
<1>1. CASE c.usingMemory
  BY <1>1 DEF FailOver
<1>2. CASE ~c.usingMemory /\ c.closeAttempted
  <2>1. FailOver(c) = [c EXCEPT !.usingMemory = TRUE]
    BY <1>2 DEF FailOver
  <2> DEFINE e == [c EXCEPT !.usingMemory = TRUE]
  <2>2. c \in Caches /\ EntriesKept(c) /\ ClosedOnce(c)
    BY DEF CacheKept
  <2>3. /\ e.usingMemory = TRUE /\ e.closeAttempted = c.closeAttempted
        /\ e.closes = c.closes /\ e.rows = c.rows /\ e.store = c.store
    BY <2>2 DEF Caches
  <2>4. e \in Caches
    BY <2>2 DEF Caches
  <2>5. EntriesKept(e) /\ ClosedOnce(e)
    BY <2>2, <2>3 DEF EntriesKept, ClosedOnce
  <2>6. QED
    BY <2>1, <2>3, <2>4, <2>5 DEF CacheKept
<1>3. CASE ~c.usingMemory /\ ~c.closeAttempted
  <2> DEFINE e == [c EXCEPT !.usingMemory = TRUE, !.closeAttempted = TRUE,
                            !.open = FALSE, !.closes = @ + 1]
  <2>1. FailOver(c) = e /\ c \in Caches /\ c.closes = 0
    BY <1>3 DEF FailOver, CacheKept, ClosedOnce
  <2>2. /\ e.usingMemory = TRUE /\ e.closeAttempted = TRUE
        /\ e.closes = 1 /\ e.rows = c.rows /\ e.store = c.store
    BY <2>1 DEF Caches
  <2>3. e \in Caches
    <3> DEFINE e1 == [c EXCEPT !.usingMemory = TRUE]
               e2 == [e1 EXCEPT !.closeAttempted = TRUE]
               e3 == [e2 EXCEPT !.open = FALSE]
    <3>1. e1 \in Caches /\ e2 \in Caches /\ e3 \in Caches
      BY <2>1, CacheFields
    <3>2. e3.closes = c.closes
      BY <2>1 DEF Caches
    <3>3. e = [e3 EXCEPT !.closes = e3.closes + 1]
      BY <3>2 
    <3>4. e3.closes + 1 \in Nat
      BY <2>1, <3>2, CacheFields
    <3>5. QED
      BY <3>1, <3>3, <3>4, CacheFields
  <2>4. QED
    BY <2>1, <2>2, <2>3 DEF CacheKept, EntriesKept, ClosedOnce
<1>4. QED
  BY <1>1, <1>2, <1>3

\* An entry at its key.
EntryKept(n, entry) ==
  entry \in Entries /\ (entry.kind = "data" => MayBeKept(entry.data, n))

LEMMA AbsentKept == \A n : EntryKept(n, Absent)
BY DEF EntryKept, Entries, Absent

\* Writing one entry keeps the others.
LEMMA WriteKept ==
  ASSUME NEW c, CacheKept(c), NEW n \in Names, NEW entry, EntryKept(n, entry)
  PROVE  /\ CacheKept([c EXCEPT !.rows[n] = entry])
         /\ CacheKept([c EXCEPT !.store[n] = entry])
BY DEF CacheKept, Caches, EntriesKept, ClosedOnce, EntryKept

LEMMA GetInMapKept ==
  ASSUME NEW c, CacheKept(c), NEW n \in Names, NEW found \in GetInMap(c, n)
  PROVE  CacheKept(found.cache) /\ EntryKept(n, found.entry)
<1>1. EntryKept(n, c.store[n])
  BY DEF CacheKept, Caches, EntriesKept, EntryKept
<1>2. CacheKept([c EXCEPT !.store[n] = Absent])
  BY AbsentKept, WriteKept
<1>3. QED
  BY <1>1, <1>2, AbsentKept DEF GetInMap, Found

LEMMA GetKept ==
  ASSUME NEW c, CacheKept(c), NEW n \in Names, NEW found \in Get(c, n)
  PROVE  CacheKept(found.cache) /\ EntryKept(n, found.entry)
<1>1. CASE found \in GetInMap(c, n)
  BY <1>1, GetInMapKept
<1>2. CASE found \in GetInMap(FailOver(c), n)
  BY <1>2, FailOverKept, GetInMapKept
<1>3. CASE found \in GetInTable(c, n)
  <2>1. EntryKept(n, c.rows[n])
    BY DEF CacheKept, Caches, EntriesKept, EntryKept
  <2>2. CacheKept([c EXCEPT !.rows[n] = Absent])
    BY AbsentKept, WriteKept
  <2>3. found = Found([c EXCEPT !.rows[n] = Absent], Absent) \/ found = Found(c, c.rows[n])
    BY <1>3 DEF GetInTable
  <2>4. QED
    BY <2>1, <2>2, <2>3, AbsentKept DEF Found
<1>4. QED
  BY <1>1, <1>2, <1>3 DEF Get

LEMMA PutKept ==
  ASSUME NEW c, CacheKept(c), NEW n \in Names, NEW data \in Answers, MayBeKept(data, n),
         NEW e \in Put(c, n, data)
  PROVE  CacheKept(e)
<1>1. EntryKept(n, Held(data))
  BY DEF EntryKept, Held, Entries
<1>2. \/ e = [c EXCEPT !.store[n] = Held(data)]
      \/ e = [c EXCEPT !.rows[n] = Held(data)]
      \/ e = [FailOver(c) EXCEPT !.store[n] = Held(data)]
  BY DEF Put
<1>3. CacheKept(FailOver(c))
  BY FailOverKept
<1>4. CASE e = [c EXCEPT !.store[n] = Held(data)]
  BY <1>1, <1>4, WriteKept
<1>5. CASE e = [c EXCEPT !.rows[n] = Held(data)]
  BY <1>1, <1>5, WriteKept
<1>6. CASE e = [FailOver(c) EXCEPT !.store[n] = Held(data)]
  BY <1>1, <1>3, <1>6, WriteKept
<1>7. QED
  BY <1>2, <1>4, <1>5, <1>6

\* The cache is closed once: only a cache that is not closed is closed, and then
\* `ended` holds.
LEMMA CloseKept ==
  ASSUME NEW c, CacheKept(c), ~ended, NEW e \in UNION {Close(x) : x \in Counted(c)}
  PROVE  /\ e \in Caches /\ EntriesKept(e) /\ e.closes <= 1
         /\ ~e.closeAttempted => e.closes = 0
<1>1. PICK x \in Counted(c) : e \in Close(x)
  OBVIOUS
<1>2. CacheKept(x)
  BY <1>1, FailOverKept DEF Counted
<1> DEFINE tried == [x EXCEPT !.closeAttempted = TRUE, !.closes = @ + 1]
<1>3. e = Emptied(x) \/ (~x.usingMemory /\ e \in {[tried EXCEPT !.open = FALSE], Emptied(FailOver(tried))})
  BY <1>1 DEF Close
<1>4. \A y : y \in Caches /\ EntriesKept(y) =>
        /\ Emptied(y) \in Caches /\ EntriesKept(Emptied(y))
        /\ Emptied(y).closes = y.closes /\ Emptied(y).closeAttempted = y.closeAttempted
  BY DEF Caches, EntriesKept, Emptied, Absent, Entries
<1>5. CASE e = Emptied(x)
  BY <1>2, <1>4, <1>5 DEF CacheKept, ClosedOnce
<1>6. ASSUME ~x.usingMemory
      PROVE  /\ tried \in Caches /\ EntriesKept(tried) /\ tried.closes = 1
             /\ tried.closeAttempted /\ ~tried.usingMemory
  <2>1. x \in Caches /\ EntriesKept(x) /\ x.closes = 0
    BY <1>2, <1>6 DEF CacheKept, ClosedOnce
  <2>2. /\ tried.closeAttempted = TRUE /\ tried.usingMemory = x.usingMemory
        /\ tried.closes = 1 /\ tried.rows = x.rows /\ tried.store = x.store
    BY <2>1 DEF Caches
  <2>3. tried \in Caches
    <3> DEFINE begun == [x EXCEPT !.closeAttempted = TRUE]
    <3>0. begun \in Caches
      BY <2>1, CacheFields
    <3>1. begun \in Caches /\ x.closes + 1 \in Nat
      BY <2>1, <3>0, CacheFields
    <3>2. [begun EXCEPT !.closes = x.closes + 1] \in Caches
      BY <3>1, CacheFields
    <3>3. QED
      BY <3>2
  <2>4. QED
    BY <1>6, <2>1, <2>2, <2>3 DEF EntriesKept
<1>7. CASE ~x.usingMemory /\ e = [tried EXCEPT !.open = FALSE]
  <2> HIDE DEF tried
  <2>1. tried \in Caches /\ EntriesKept(tried) /\ tried.closes = 1 /\ tried.closeAttempted
    BY <1>6, <1>7
  <2>2. /\ e.closeAttempted = tried.closeAttempted /\ e.closes = 1
        /\ e.rows = tried.rows /\ e.store = tried.store /\ e \in Caches
    BY <1>7, <2>1 DEF Caches
  <2>3. QED
    BY <2>1, <2>2 DEF EntriesKept
<1>8. CASE ~x.usingMemory /\ e = Emptied(FailOver(tried))
  <2>1. FailOver(tried) = [tried EXCEPT !.usingMemory = TRUE]
    BY <1>6, <1>8 DEF FailOver
  <2>2. /\ FailOver(tried) \in Caches /\ EntriesKept(FailOver(tried))
        /\ FailOver(tried).closes = 1 /\ FailOver(tried).closeAttempted
    <3> HIDE DEF tried
    <3>1. tried \in Caches /\ EntriesKept(tried) /\ tried.closes = 1 /\ tried.closeAttempted
      BY <1>6, <1>8
    <3> DEFINE over == [tried EXCEPT !.usingMemory = TRUE]
    <3>2. /\ over.closeAttempted = tried.closeAttempted /\ over.closes = 1
          /\ over.rows = tried.rows /\ over.store = tried.store /\ over \in Caches
      BY <3>1 DEF Caches
    <3>3. QED
      BY <2>1, <3>1, <3>2 DEF EntriesKept
  <2>3. QED
    BY <1>4, <1>8, <2>2
<1>9. QED
  BY <1>3, <1>5, <1>7, <1>8

-----------------------------------------------------------------------------
(* The steps *)

\* What may be kept of a package stays so while its fetch stays told.
LEMMA KeptStays ==
  ASSUME TypeOK, UNCHANGED <<options, wants>>,
         \A e \in Deps : Succeeded(e) => Succeeded(e)',
         NEW a \in Answers, NEW name, MayBeKept(a, name)
  PROVE  MayBeKept(a, name)'
BY DEF MayBeKept, Answers

LEMMA CacheStays ==
  ASSUME TypeOK, UNCHANGED <<options, wants>>,
         \A e \in Deps : Succeeded(e) => Succeeded(e)',
         NEW c, c \in Caches, EntriesKept(c)
  PROVE  EntriesKept(c)'
<1> SUFFICES ASSUME NEW n \in Names, NEW entry \in {c.rows[n], c.store[n]}, entry.kind = "data"
             PROVE  MayBeKept(entry.data, n)'
  BY DEF EntriesKept
<1>1. MayBeKept(entry.data, n)
  BY DEF EntriesKept
<1>2. entry \in Entries
  BY DEF Caches
<1>3. entry.data \in Answers
  BY <1>2 DEF Entries, Absent, Corrupt
<1>4. QED
  BY <1>1, <1>3, KeptStays

LEMMA InitKept == Init => ResolverInvariant
<1> SUFFICES ASSUME Init PROVE ResolverInvariant
  OBVIOUS
<1> USE DEF Init
<1>1. PICK rows \in {[n \in Names |-> Absent], [n \in Names |-> Corrupt],
                     [n \in Names |-> Held(Answer(n, 0))]} :
        cache \in {SqliteCache(rows), MemoryCache([n \in Names |-> Absent])}
  OBVIOUS
<1>2. rows \in [Names -> Entries]
  BY DEF Entries, Held, Answer, Answers
<1>3. \A n \in Names : rows[n].kind = "data" => rows[n].data.name = n /\ rows[n].data.from = 0
  BY DEF Held, Answer, Absent, Corrupt
<1>4. [n \in Names |-> Absent] \in [Names -> Entries]
  BY DEF Entries
<1>5. \A r \in [Names -> Entries] : SqliteCache(r) \in Caches /\ MemoryCache(r) \in Caches
  <2> TAKE r \in [Names -> Entries]
  <2>1. [k \in DOMAIN r |-> Absent] \in [Names -> Entries]
    BY <1>4
  <2>2. SqliteCache(r) \in Caches
    BY <2>1 DEF SqliteCache, Caches
  <2>3. QED
    BY <2>2 DEF MemoryCache, Caches
<1>6. cache \in Caches
  BY <1>1, <1>2, <1>4, <1>5
<1>7. EntriesKept(cache) /\ ClosedOnce(cache)
  <2>1. PICK r : /\ r \in [Names -> Entries] /\ cache \in {SqliteCache(r), MemoryCache(r)}
                 /\ \A n \in Names : r[n].kind = "data" => r[n].data.name = n /\ r[n].data.from = 0
    <3>1. CASE cache = SqliteCache(rows)
      BY <1>2, <1>3, <3>1
    <3>2. CASE cache = MemoryCache([n \in Names |-> Absent])
      BY <1>4, <3>2 DEF Absent
    <3>3. QED
      BY <1>1, <3>1, <3>2
  <2>2. SqliteCache(r) \in Caches
    BY <1>5, <2>1
  <2> DEFINE s == SqliteCache(r)
  <2>a. /\ s.rows = r /\ s.closes = 0 /\ s.store = [k \in Names |-> Absent]
        /\ s.closeAttempted = FALSE
    BY <2>1 DEF SqliteCache
  <2>b. MemoryCache(r) = [s EXCEPT !.usingMemory = TRUE, !.closeAttempted = TRUE, !.open = FALSE]
    BY DEF MemoryCache
  <2> HIDE DEF s
  <2>3. cache.rows = r /\ cache.closes = 0 /\ cache.store = [k \in Names |-> Absent]
    BY <2>1, <2>2, <2>a, <2>b DEF Caches, s
  <2>4. cache.closeAttempted => cache.usingMemory
    BY <2>1, <2>2, <2>a, <2>b DEF Caches, s
  <2>5. EntriesKept(cache)
    BY <2>1, <2>3 DEF EntriesKept, MayBeKept, Absent
  <2>6. QED
    BY <2>3, <2>4, <2>5 DEF ClosedOnce
<1>8. TypeOK
  BY <1>6 DEF TypeOK, Outcomes, Nobody
<1>9. FetchesKept /\ FlightsKept
  BY DEF FetchesKept, FlightsKept, NoFetch, UnderWay
<1>10. DependenciesKept
  BY DEF DependenciesKept
<1>11. QED
  BY <1>7, <1>8, <1>9, <1>10 DEF ResolverInvariant

\* A dependency that asks the registry joins the fetch of its own package, or
\* starts the only one.
LEMMA AskStep ==
  ASSUME ResolverInvariant, NEW d \in Deps, pc[d] = "queued", Ask(d),
         CacheKept(cache'), UNCHANGED <<options, wants, launched, ended>>
  PROVE  ResolverInvariant'
<1> USE DEF ResolverInvariant
<1> DEFINE e == waits'[d]  new == Fetch(wants[d] = "github")
<1>1. TypeOK /\ wants[d] \in Names /\ waits[d] = Nobody /\ fetch[d] = NoFetch
  BY DEF TypeOK, DependenciesKept
<1>2. new \in Fetches /\ FetchKept(new) /\ new.state = "asking" /\ new # NoFetch
  BY NewFetch
<1>3. \/ /\ Join(d) /\ waits' = [waits EXCEPT ![d] = inFlight[wants[d]]]
         /\ fetch' = fetch /\ inFlight' = inFlight
      \/ /\ ~Join(d) /\ waits' = [waits EXCEPT ![d] = d]
         /\ fetch' = [fetch EXCEPT ![d] = new]
         /\ inFlight' = IF Shared(wants[d]) THEN [inFlight EXCEPT ![wants[d]] = d] ELSE inFlight
  BY DEF Ask
<1>4. pc' = [pc EXCEPT ![d] = "waiting"] /\ outcome' = outcome
  BY DEF Ask
<1>5. e \in Deps /\ wants[e] = wants[d] /\ fetch'[e] # NoFetch
  <2>1. CASE Join(d)
    BY <1>1, <1>3, <2>1, FetchIsNone DEF Join, FlightsKept, TypeOK, Nobody, UnderWay, NoFetch
  <2>2. CASE ~Join(d)
    BY <1>1, <1>2, <1>3, <2>2 DEF TypeOK
  <2>3. QED
    BY <2>1, <2>2
<1>6. TypeOK'
  BY <1>1, <1>2, <1>3, <1>4, <1>5 DEF TypeOK, CacheKept
<1>7. \A x \in Deps : x # d => fetch'[x] = fetch[x]
  BY <1>1, <1>3 DEF TypeOK
<1>8. \A x \in Deps : Succeeded(x) => Succeeded(x)'
  BY <1>1, <1>7 DEF Succeeded, NoFetch
<1>9. FetchesKept'
  BY <1>1, <1>2, <1>3 DEF FetchesKept, TypeOK
<1>10. FlightsKept'
  <2>1. CASE Join(d)
    BY <1>3, <2>1 DEF FlightsKept, Shared
  <2>2. CASE ~Join(d) /\ Shared(wants[d])
    <3>1. inFlight' = [inFlight EXCEPT ![wants[d]] = d] /\ fetch' = [fetch EXCEPT ![d] = new]
      BY <1>3, <2>2
    <3>2. /\ inFlight'[wants[d]] = d /\ fetch'[d].state \in UnderWay
          /\ \A n \in Names : n # wants[d] => inFlight'[n] = inFlight[n]
      BY <1>1, <1>2, <3>1 DEF TypeOK, UnderWay
    <3>3. \A n \in Names : inFlight[n] # Nobody => inFlight[n] # d /\ inFlight[n] \in Deps
      BY <1>1 DEF FlightsKept, TypeOK, UnderWay, NoFetch
    <3>4. \A x \in Deps : fetch[x].state \in UnderWay => ~(Shared(wants[x]) /\ wants[x] = wants[d])
      BY <1>1, <2>2 DEF FlightsKept, Join, Nobody, TypeOK, Deps
    <3>5. \A n \in Names : inFlight'[n] # Nobody =>
            wants[inFlight'[n]] = n /\ Shared(n) /\ fetch'[inFlight'[n]].state \in UnderWay
      BY <1>7, <2>2, <3>2, <3>3 DEF FlightsKept
    <3>6. \A x \in Deps : fetch'[x].state \in UnderWay /\ Shared(wants[x]) =>
            inFlight'[wants[x]] = x
      BY <1>1, <1>7, <3>2, <3>4 DEF FlightsKept, TypeOK
    <3>7. QED
      BY <3>5, <3>6 DEF FlightsKept, Shared
  <2>3. CASE ~Join(d) /\ ~Shared(wants[d])
    BY <1>1, <1>2, <1>3, <2>3 DEF FlightsKept, Shared, TypeOK, UnderWay, NoFetch, Nobody
  <2>4. QED
    BY <2>1, <2>2, <2>3
<1>11. DependenciesKept'
  <2> SUFFICES ASSUME NEW x \in Deps
               PROVE  DependenciesKept!(x)'
    BY DEF DependenciesKept
  <2>1. CASE x = d
    <3>1. pc'[x] = "waiting" /\ outcome'[x] = Unresolved
      BY <1>1, <1>4, <2>1 DEF DependenciesKept, TypeOK
    <3>2. waits'[x] # Nobody
      BY <1>5, <2>1 DEF Deps, Nobody
    <3>3. QED
      BY <1>5, <2>1, <3>1, <3>2 DEF DependenciesKept
  <2>2. CASE x # d
    <3>1. /\ pc'[x] = pc[x] /\ waits'[x] = waits[x] /\ outcome'[x] = outcome[x]
          /\ fetch'[x] = fetch[x]
      BY <1>1, <1>3, <1>4, <1>7, <2>2 DEF TypeOK
    <3>2. waits[x] # Nobody => waits[x] \in Deps /\ waits[x] # d
      BY <1>1 DEF DependenciesKept, TypeOK
    <3>3. waits[x] # Nobody => fetch'[waits[x]] = fetch[waits[x]]
      BY <1>7, <3>2
    <3>4. pc[x] = "done" /\ waits[x] = Nobody => MayBeKept(outcome[x].answer, wants[x])'
      <4> HAVE pc[x] = "done" /\ waits[x] = Nobody
      <4>1. outcome[x].answer \in Answers /\ MayBeKept(outcome[x].answer, wants[x])
        BY <1>1 DEF DependenciesKept, TypeOK, Outcomes, Unresolved, Failed
      <4>2. QED
        BY <1>8, <3>1, <4>1, KeptStays
    <3>5. QED
      BY <3>1, <3>2, <3>3, <3>4 DEF DependenciesKept
  <2>3. QED
    BY <2>1, <2>2
<1>12. (EntriesKept(cache) /\ ClosedOnce(cache))'
  <2>1. EntriesKept(cache)'
    BY <1>1, <1>8, CacheStays DEF CacheKept
  <2>2. QED
    BY <2>1 DEF CacheKept, ClosedOnce
<1>13. QED
  BY <1>6, <1>9, <1>10, <1>11, <1>12

\* What was kept of the package is what a dependency is told.
LEMMA TellStep ==
  ASSUME ResolverInvariant, NEW d \in Deps, pc[d] = "queued", ~BypassRead,
         Persistent(wants[d]), NEW found, CacheKept(found.cache),
         EntryKept(wants[d], found.entry), found.entry.kind = "data",
         cache' = found.cache, Finish(d, Resolved(found.entry.data)),
         UNCHANGED <<options, wants, launched, ended, waits, fetch, inFlight>>
  PROVE  ResolverInvariant'
<1> USE DEF ResolverInvariant
<1> DEFINE a == found.entry.data
<1>1. TypeOK /\ wants[d] \in Names /\ waits[d] = Nobody
  BY DEF TypeOK, DependenciesKept
<1>2. a \in Answers /\ MayBeKept(a, wants[d])
  BY DEF EntryKept, Entries, Absent, Corrupt
<1>3. /\ pc' = [pc EXCEPT ![d] = "done"]
      /\ outcome' = [outcome EXCEPT ![d] = Resolved(a)]
  BY DEF Finish
<1>4. Resolved(a) \in Outcomes /\ Resolved(a).kind = "resolved" /\ Resolved(a).answer = a
  BY <1>2 DEF Resolved, Outcomes
<1>5. TypeOK'
  BY <1>1, <1>3, <1>4 DEF TypeOK, CacheKept
<1>6. \A e \in Deps : Succeeded(e) => Succeeded(e)'
  BY DEF Succeeded
<1>7. FetchesKept' /\ FlightsKept'
  BY DEF FetchesKept, FlightsKept, Shared
<1>8. DependenciesKept'
  <2> SUFFICES ASSUME NEW x \in Deps
               PROVE  DependenciesKept!(x)'
    BY DEF DependenciesKept
  <2>1. CASE x = d
    <3>1. pc'[x] = "done" /\ outcome'[x] = Resolved(a) /\ waits'[x] = Nobody
      BY <1>1, <1>3, <2>1 DEF TypeOK
    <3>2. MayBeKept(a, wants[d])'
      BY <1>1, <1>2, <1>6, KeptStays DEF MayBeKept, Succeeded
    <3>3. options'.enabled /\ ~options'.refresh /\ ~options'.authenticated
      BY DEF BypassRead, Persistent
    <3>4. QED
      BY <1>4, <2>1, <3>1, <3>2, <3>3 DEF DependenciesKept, MayBeKept, Succeeded
  <2>2. CASE x # d
    <3>1. pc'[x] = pc[x] /\ outcome'[x] = outcome[x]
      BY <1>1, <1>3, <2>2 DEF TypeOK
    <3>2. QED
      BY <3>1 DEF DependenciesKept, MayBeKept, Succeeded
  <2>3. QED
    BY <2>1, <2>2
<1>9. (EntriesKept(cache) /\ ClosedOnce(cache))'
  <2>1. EntriesKept(cache)'
    BY DEF CacheKept, EntriesKept, MayBeKept, Succeeded
  <2>2. QED
    BY <2>1 DEF CacheKept, ClosedOnce
<1>10. QED
  BY <1>5, <1>7, <1>8, <1>9

LEMMA BeginStep ==
  ASSUME ResolverInvariant, NEW d \in Deps, Begin(d)
  PROVE  ResolverInvariant'
<1>1. pc[d] = "queued" /\ UNCHANGED <<options, wants, launched, ended>>
  BY DEF Begin
<1>2. wants[d] \in Names /\ CacheKept(cache)
  BY DEF ResolverInvariant, TypeOK, CacheKept
<1>3. CASE (BypassRead \/ ~Persistent(wants[d])) /\ Ask(d) /\ UNCHANGED cache
  BY <1>1, <1>2, <1>3, AskStep
<1>4. ASSUME ~BypassRead, Persistent(wants[d]), NEW found \in Get(cache, wants[d]),
             cache' = found.cache,
             IF found.entry.kind = "data"
             THEN Finish(d, Resolved(found.entry.data)) /\ UNCHANGED <<waits, fetch, inFlight>>
             ELSE Ask(d)
      PROVE  ResolverInvariant'
  <2>1. CacheKept(found.cache) /\ EntryKept(wants[d], found.entry)
    BY <1>2, GetKept
  <2>2. CASE found.entry.kind = "data"
    BY <1>1, <1>4, <2>1, <2>2, TellStep
  <2>3. CASE found.entry.kind # "data"
    BY <1>1, <1>4, <2>1, <2>3, AskStep
  <2>4. QED
    BY <2>2, <2>3
<1>5. QED
  BY <1>3, <1>4 DEF Begin

\* A step of a fetch that is not over.
LEMMA FetchStep ==
  ASSUME ResolverInvariant, NEW d \in Deps, fetch[d].state \in {"asking", "backoff"},
         NEW g \in Fetches, FetchKept(g), g.state \in UnderWay,
         fetch' = [fetch EXCEPT ![d] = g],
         UNCHANGED <<options, wants, launched, ended, pc, waits, inFlight, cache, outcome>>
  PROVE  ResolverInvariant'
<1> USE DEF ResolverInvariant
<1>1. TypeOK /\ fetch[d] # NoFetch
  BY DEF TypeOK, NoFetch
<1>2. fetch'[d] = g /\ \A x \in Deps : x # d => fetch'[x] = fetch[x]
  BY <1>1 DEF TypeOK
<1>3. g # NoFetch
  BY FetchIsNone
<1>4. TypeOK'
  BY <1>1 DEF TypeOK
<1>5. \A x \in Deps : Succeeded(x) => Succeeded(x)'
  BY <1>2 DEF Succeeded
<1>6. FetchesKept'
  BY <1>2 DEF FetchesKept
<1>7. FlightsKept'
  BY <1>1, <1>2 DEF FlightsKept, Shared, UnderWay
<1>8. DependenciesKept'
  <2> SUFFICES ASSUME NEW x \in Deps
               PROVE  DependenciesKept!(x)'
    BY DEF DependenciesKept
  <2>1. pc[x] = "queued" => x # d
    BY <1>1 DEF DependenciesKept
  <2>2. waits[x] # Nobody => waits[x] \in Deps /\ fetch'[waits[x]] # NoFetch
    BY <1>1, <1>2, <1>3 DEF DependenciesKept, TypeOK
  <2>3. pc[x] = "done" /\ waits[x] # Nobody => fetch'[waits[x]] = fetch[waits[x]]
    BY <1>2, <2>2 DEF DependenciesKept
  <2>4. pc[x] = "done" /\ waits[x] = Nobody => MayBeKept(outcome[x].answer, wants[x])'
    <3> HAVE pc[x] = "done" /\ waits[x] = Nobody
    <3>1. outcome[x].answer \in Answers /\ MayBeKept(outcome[x].answer, wants[x])
      BY <1>1 DEF DependenciesKept, TypeOK, Outcomes, Unresolved, Failed
    <3>2. QED
      BY <1>1, <1>5, <3>1, KeptStays
  <2>5. QED
    BY <1>2, <2>1, <2>2, <2>3, <2>4 DEF DependenciesKept
<1>9. (EntriesKept(cache) /\ ClosedOnce(cache))'
  <2>1. cache \in Caches
    BY <1>1 DEF TypeOK
  <2>2. EntriesKept(cache)'
    BY <1>1, <1>5, <2>1, CacheStays
  <2>3. QED
    BY <2>2 DEF ClosedOnce
<1>10. QED
  BY <1>4, <1>6, <1>7, <1>8, <1>9

LEMMA ForgetStep ==
  ASSUME ResolverInvariant, NEW d \in Deps, Forget(d)
  PROVE  ResolverInvariant'
<1> USE DEF ResolverInvariant
<1> DEFINE blank == Fetch(FALSE)
           g == [blank EXCEPT !.state = "told", !.ok = fetch[d].ok]
<1>1. TypeOK /\ fetch[d] # NoFetch /\ fetch[d] \in Fetches /\ fetch[d].state = "settled"
  BY DEF Forget, TypeOK, NoFetch
<1>2. /\ fetch' = [fetch EXCEPT ![d] = g]
      /\ inFlight' = IF Shared(wants[d]) THEN [inFlight EXCEPT ![wants[d]] = Nobody] ELSE inFlight
      /\ UNCHANGED <<options, wants, launched, ended, pc, waits, cache, outcome>>
  BY DEF Forget
<1>3. g \in Fetches /\ g.state = "told" /\ FetchKept(g)
  <2>1. /\ blank \in Fetches /\ blank.attempt = 0 /\ blank.left = Budget
        /\ blank.paged = FALSE
    BY NewFetch DEF Fetch
  <2>2. fetch[d].ok \in BOOLEAN
    BY <1>1 DEF Fetches
  <2> HIDE DEF blank
  <2>3. /\ g.state = "told" /\ g.attempt = 0 /\ g.left = Budget /\ g.paged = FALSE
        /\ g.ok = fetch[d].ok
    BY <2>1 DEF Fetches
  <2>4. [blank EXCEPT !.state = "told"] \in Fetches
    BY <2>1 DEF Fetches
  <2>5. g \in Fetches
    BY <2>2, <2>4 DEF Fetches
  <2>6. QED
    BY <2>3, <2>5, RegistryAssumption DEF FetchKept, Late
<1> HIDE DEF g
<1>4. fetch'[d] = g /\ \A x \in Deps : x # d => fetch'[x] = fetch[x]
  BY <1>1, <1>2 DEF TypeOK
<1>5. g # NoFetch
  BY <1>3, FetchIsNone
<1>6. TypeOK'
  BY <1>1, <1>2, <1>3 DEF TypeOK
<1>7. \A x \in Deps : Succeeded(x) => Succeeded(x)'
  BY <1>1, <1>4 DEF Succeeded
<1>8. FetchesKept'
  BY <1>3, <1>4 DEF FetchesKept
<1>9. FlightsKept'
  <2>1. CASE Shared(wants[d])
    <3>1. inFlight[wants[d]] = d /\ inFlight' = [inFlight EXCEPT ![wants[d]] = Nobody]
      BY <1>1, <1>2, <2>1 DEF FlightsKept, UnderWay
    <3>2. /\ inFlight'[wants[d]] = Nobody
          /\ \A n \in Names : n # wants[d] => inFlight'[n] = inFlight[n]
      BY <1>1, <3>1 DEF TypeOK
    <3>3. \A n \in Names : inFlight'[n] # Nobody =>
            wants[inFlight'[n]] = n /\ Shared(n) /\ fetch'[inFlight'[n]].state \in UnderWay
      BY <1>1, <1>4, <3>2 DEF FlightsKept, TypeOK
    <3>4. \A x \in Deps : fetch'[x].state \in UnderWay /\ Shared(wants[x]) =>
            inFlight'[wants[x]] = x
      <4> TAKE x \in Deps
      <4> HAVE fetch'[x].state \in UnderWay /\ Shared(wants[x])
      <4>1. x # d
        BY <1>3, <1>4 DEF UnderWay
      <4>2. inFlight[wants[x]] = x
        BY <1>4, <4>1 DEF FlightsKept
      <4>3. wants[x] # wants[d]
        BY <3>1, <4>1, <4>2
      <4>4. QED
        BY <1>1, <3>2, <4>2, <4>3 DEF TypeOK
    <3>5. QED
      BY <1>2, <3>3, <3>4 DEF FlightsKept, Shared
  <2>2. CASE ~Shared(wants[d])
    BY <1>1, <1>2, <1>3, <1>4, <2>2 DEF FlightsKept, Shared, TypeOK, UnderWay, Nobody
  <2>3. QED
    BY <2>1, <2>2
<1>10. DependenciesKept'
  <2> SUFFICES ASSUME NEW x \in Deps
               PROVE  DependenciesKept!(x)'
    BY DEF DependenciesKept
  <2>1. pc[x] = "queued" => x # d
    BY <1>1 DEF DependenciesKept
  <2>2. waits[x] # Nobody => waits[x] \in Deps /\ fetch'[waits[x]] # NoFetch
    BY <1>1, <1>4, <1>5 DEF DependenciesKept, TypeOK
  <2>3. pc[x] = "done" /\ waits[x] # Nobody => fetch'[waits[x]] = fetch[waits[x]]
    BY <1>1, <1>4, <2>2 DEF DependenciesKept
  <2>4. pc[x] = "done" /\ waits[x] = Nobody => MayBeKept(outcome[x].answer, wants[x])'
    <3> HAVE pc[x] = "done" /\ waits[x] = Nobody
    <3>1. outcome[x].answer \in Answers /\ MayBeKept(outcome[x].answer, wants[x])
      BY <1>1 DEF DependenciesKept, TypeOK, Outcomes, Unresolved, Failed
    <3>2. QED
      BY <1>1, <1>2, <1>7, <3>1, KeptStays
  <2>5. QED
    BY <1>2, <1>4, <2>1, <2>2, <2>3, <2>4 DEF DependenciesKept
<1>11. (EntriesKept(cache) /\ ClosedOnce(cache))'
  <2>1. cache \in Caches
    BY <1>1 DEF TypeOK
  <2>2. EntriesKept(cache)'
    BY <1>1, <1>2, <1>7, <2>1, CacheStays
  <2>3. QED
    BY <1>2, <2>2 DEF ClosedOnce
<1>12. QED
  BY <1>6, <1>8, <1>9, <1>10, <1>11

\* The answer of a fetch goes to those who waited for it, and to the cache only if
\* it is one.
LEMMA ContinueStep ==
  ASSUME ResolverInvariant, NEW d \in Deps, Continue(d)
  PROVE  ResolverInvariant'
<1> USE DEF ResolverInvariant
<1> DEFINE w == waits[d]
           answer == Answer(wants[w], w)
           what == IF fetch[w].ok THEN Resolved(answer) ELSE Failed
<1>1. /\ TypeOK /\ pc[d] = "waiting" /\ fetch[w].state = "told"
      /\ w \in Deps /\ wants[w] = wants[d] /\ wants[d] \in Names
  BY DEF Continue, TypeOK, DependenciesKept
<1>2. /\ pc' = [pc EXCEPT ![d] = "done"] /\ outcome' = [outcome EXCEPT ![d] = what]
      /\ UNCHANGED <<options, wants, launched, ended, waits, fetch, inFlight>>
  BY DEF Continue, Finish
<1>3. answer \in Answers
  BY <1>1 DEF Answer, Answers
<1>4. what \in Outcomes
  BY <1>3 DEF Outcomes, Resolved
<1>5. CacheKept(cache')
  <2>1. CacheKept(cache)
    BY DEF CacheKept, TypeOK
  <2>2. CASE Stored(fetch[w]) /\ ShouldWrite /\ Persistent(wants[d])
    <3>1. MayBeKept(answer, wants[d])
      BY <1>1, <2>2 DEF MayBeKept, Answer, Stored, ShouldWrite, Persistent, Succeeded
    <3>2. cache' \in Put(cache, wants[d], answer)
      BY <2>2 DEF Continue
    <3>3. QED
      BY <1>1, <1>3, <2>1, <3>1, <3>2, PutKept
  <2>3. CASE ~(Stored(fetch[w]) /\ ShouldWrite /\ Persistent(wants[d]))
    BY <2>1, <2>3 DEF Continue
  <2>4. QED
    BY <2>2, <2>3
<1>6. TypeOK'
  BY <1>1, <1>2, <1>4, <1>5 DEF TypeOK, CacheKept
<1>7. FetchesKept' /\ FlightsKept'
  BY <1>2 DEF FetchesKept, FlightsKept, Shared
<1>8. DependenciesKept'
  <2> SUFFICES ASSUME NEW x \in Deps
               PROVE  DependenciesKept!(x)'
    BY DEF DependenciesKept
  <2>1. CASE x = d
    <3>1. pc'[x] = "done" /\ outcome'[x] = what /\ waits'[x] # Nobody
      BY <1>1, <1>2, <2>1 DEF TypeOK, Deps, Nobody
    <3>2. QED
      BY <1>1, <1>2, <2>1, <3>1 DEF DependenciesKept, NoFetch
  <2>2. CASE x # d
    <3>1. pc'[x] = pc[x] /\ outcome'[x] = outcome[x]
      BY <1>1, <1>2, <2>2 DEF TypeOK
    <3>2. QED
      BY <1>2, <3>1 DEF DependenciesKept, MayBeKept, Succeeded
  <2>3. QED
    BY <2>1, <2>2
<1>9. (EntriesKept(cache) /\ ClosedOnce(cache))'
  <2>1. EntriesKept(cache)'
    BY <1>2, <1>5 DEF CacheKept, EntriesKept, MayBeKept, Succeeded
  <2>2. QED
    BY <1>2, <1>5, <2>1 DEF CacheKept, ClosedOnce
<1>10. QED
  BY <1>6, <1>7, <1>8, <1>9

LEMMA EndStep ==
  ASSUME ResolverInvariant, End
  PROVE  ResolverInvariant'
<1> USE DEF ResolverInvariant
<1>1. /\ ~ended /\ ended' = TRUE /\ cache' \in UNION {Close(c) : c \in Counted(cache)}
      /\ UNCHANGED <<options, wants, launched, pc, waits, fetch, inFlight, outcome>>
  BY DEF End
<1>2. /\ cache' \in Caches /\ EntriesKept(cache') /\ cache'.closes <= 1
      /\ ~cache'.closeAttempted => cache'.closes = 0
  BY <1>1, CloseKept DEF CacheKept, TypeOK
<1>3. TypeOK'
  BY <1>1, <1>2 DEF TypeOK
<1>4. FetchesKept' /\ FlightsKept'
  BY <1>1 DEF FetchesKept, FlightsKept, Shared
<1>5. DependenciesKept'
  BY <1>1 DEF DependenciesKept, MayBeKept, Succeeded
<1>6. (EntriesKept(cache) /\ ClosedOnce(cache))'
  <2>1. EntriesKept(cache)'
    BY <1>1, <1>2 DEF EntriesKept, MayBeKept, Succeeded
  <2>2. QED
    BY <1>1, <1>2, <2>1 DEF ClosedOnce
<1>7. QED
  BY <1>3, <1>4, <1>5, <1>6

-----------------------------------------------------------------------------
(* The theorems *)

\* What a fetch may be, who waits for whom, and what is kept, in every state of
\* every resolution (resolve-dependency.ts, registry.ts, sqlite.ts).
THEOREM ResolverInvariance == Spec => []ResolverInvariant
<1>1. ResolverInvariant /\ [Next]_vars => ResolverInvariant'
  <2> SUFFICES ASSUME ResolverInvariant, [Next]_vars
               PROVE  ResolverInvariant'
    OBVIOUS
  <2>1. ASSUME NEW d \in Deps, Begin(d) PROVE ResolverInvariant'
    BY <2>1, BeginStep
  <2>2. ASSUME NEW d \in Deps, Respond(d) PROVE ResolverInvariant'
    <3>1. fetch[d] \in Fetches /\ FetchKept(fetch[d]) /\ fetch[d].state = "asking"
      BY <2>2 DEF Respond, ResolverInvariant, TypeOK, FetchesKept, NoFetch
    <3>2. PICK g \in Answered(fetch[d]) : fetch' = [fetch EXCEPT ![d] = g]
      BY <2>2 DEF Respond
    <3>3. g \in Fetches /\ FetchKept(g) /\ g.state \in UnderWay
      BY <3>1, AnsweredKept
    <3>4. QED
      BY <2>2, <3>1, <3>2, <3>3, FetchStep DEF Respond
  <2>3. ASSUME NEW d \in Deps, Retry(d) PROVE ResolverInvariant'
    <3>1. fetch[d] \in Fetches /\ FetchKept(fetch[d]) /\ fetch[d].state = "backoff"
      BY <2>3 DEF Retry, ResolverInvariant, TypeOK, FetchesKept, NoFetch
    <3>2. PICK g \in Retried(fetch[d]) : fetch' = [fetch EXCEPT ![d] = g]
      BY <2>3 DEF Retry
    <3>3. g \in Fetches /\ FetchKept(g) /\ g.state \in UnderWay
      BY <3>1, RetriedKept
    <3>4. QED
      BY <2>3, <3>1, <3>2, <3>3, FetchStep DEF Retry
  <2>4. ASSUME NEW d \in Deps, Forget(d) PROVE ResolverInvariant'
    BY <2>4, ForgetStep
  <2>5. ASSUME NEW d \in Deps, Continue(d) PROVE ResolverInvariant'
    BY <2>5, ContinueStep
  <2>6. CASE End
    BY <2>6, EndStep
  <2>7. CASE UNCHANGED vars
    BY <2>7 DEF vars, ResolverInvariant, TypeOK, FetchesKept, FlightsKept, DependenciesKept,
                EntriesKept, ClosedOnce, MayBeKept, Succeeded, Shared
  <2>8. QED
    BY <2>1, <2>2, <2>3, <2>4, <2>5, <2>6, <2>7 DEF Next, Resolve
<1>2. QED
  BY <1>1, InitKept, PTL DEF Spec

\* Every answer was given by the registry of the package it is used for, and is
\* shared or kept only where no token was shown (resolve-dependency.ts).
THEOREM AnswersAreShared == Spec => []AnswersAndCacheAreSound
<1>1. ResolverInvariant => AnswersAndCacheAreSound
  <2> SUFFICES ASSUME ResolverInvariant PROVE AnswersAndCacheAreSound
    OBVIOUS
  <2> USE DEF ResolverInvariant
  <2>1. AnswersAreSound
    <3> SUFFICES ASSUME NEW d \in Deps PROVE AnswersAreSound!(d)
      BY DEF AnswersAreSound
    <3>1. waits[d] \in Deps \cup {Nobody}
      BY DEF TypeOK
    <3>2. CASE pc[d] # "done"
      BY <3>2 DEF DependenciesKept, Unresolved
    <3>3. CASE pc[d] = "done" /\ waits[d] = Nobody
      BY <3>3 DEF DependenciesKept, MayBeKept, Succeeded
    <3>4. CASE pc[d] = "done" /\ waits[d] # Nobody /\ fetch[waits[d]].ok
      <4> DEFINE a == Answer(wants[waits[d]], waits[d])
      <4>1. outcome[d] = Resolved(a) /\ wants[waits[d]] = wants[d]
        BY <3>4 DEF DependenciesKept
      <4>2. outcome[d].answer = a /\ a.name = wants[d] /\ a.from = waits[d]
        BY <4>1 DEF Resolved, Answer
      <4>3. QED
        BY <3>4, <4>1, <4>2
    <3>5. CASE pc[d] = "done" /\ waits[d] # Nobody /\ ~fetch[waits[d]].ok
      BY <3>5 DEF DependenciesKept, Failed
    <3>6. QED
      BY <3>2, <3>3, <3>4, <3>5
  <2>2. CacheIsSound
    <3>1. \A d \in Deps : fetch[d].state \in UnderWay \cup {"none", "told"}
      BY DEF TypeOK, Fetches, NoFetch
    <3>2. \A d, e \in Deps : d # e /\ wants[d] = wants[e] /\ Shared(wants[d]) =>
            {fetch[d].state, fetch[e].state} \cap {"none", "told"} # {}
      BY <3>1 DEF FlightsKept
    <3>3. \A n \in Names : \A entry \in {cache.rows[n], cache.store[n]} :
            entry.kind = "data" =>
              /\ entry.data.name = n
              /\ entry.data.from # 0 => ShouldWrite /\ ~options.authenticated
                                         /\ fetch[entry.data.from].ok
      BY DEF EntriesKept, MayBeKept, Succeeded, ShouldWrite
    <3>4. QED
      BY <3>2, <3>3 DEF CacheIsSound, ClosedOnce
  <2>3. QED
    BY <2>1, <2>2 DEF AnswersAndCacheAreSound
<1>2. QED
  BY <1>1, ResolverInvariance, PTL

\* A fetch keeps to its budget, but for a late timer, and to its retries
\* (registry.ts).
THEOREM BudgetIsKept == Spec => []BudgetHolds
<1>1. ResolverInvariant => BudgetHolds
  BY DEF ResolverInvariant, FetchesKept, FetchKept, BudgetHolds, NoFetch
<1>2. QED
  BY <1>1, ResolverInvariance, PTL
==============================================================================
