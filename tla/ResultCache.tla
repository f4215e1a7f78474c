------------------------------ MODULE ResultCache ------------------------------
(***************************************************************************)
(* The cache of registry answers: a SQLite table that outlives the run     *)
(* (cache/sqlite.ts) and a map in memory (cache/memory.ts) that takes its  *)
(* place when any of its statements fails.                                 *)
(*                                                                         *)
(* A cache is a record.  An operation gives the set of its outcomes: the   *)
(* next cache and what it returned.  A statement fails whenever it wants,  *)
(* and always once the database is closed.  Whether an entry has expired   *)
(* shows when it is read.                                                  *)
(***************************************************************************)
EXTENDS Naturals

CONSTANT CacheFaults   \* may statements fail while the database is open?

ASSUME CacheFaultsAssumption == CacheFaults \in BOOLEAN

Absent  == [kind |-> "none"]
Corrupt == [kind |-> "corrupt"]      \* a row that is not JSON
Held(data) == [kind |-> "data", data |-> data]

\* `closes` counts the calls of db.close: more than one would throw.
SqliteCache(rows) ==
  [usingMemory |-> FALSE, closeAttempted |-> FALSE, open |-> TRUE, closes |-> 0,
   rows |-> rows, store |-> [k \in DOMAIN rows |-> Absent]]

\* createSqliteCache where no database can be opened.
MemoryCache(rows) ==
  [SqliteCache(rows) EXCEPT !.usingMemory = TRUE, !.closeAttempted = TRUE, !.open = FALSE]

MayWork(c) == c.open
MayFail(c) == CacheFaults \/ ~c.open

\* Mutant: the database is closed whether or not that was tried.
FailOverAlways(c) ==
  [c EXCEPT !.usingMemory = TRUE, !.closeAttempted = TRUE, !.open = FALSE,
            !.closes = @ + 1]

\* failOver: from now on the map; the database is closed, once.
FailOver(c) ==
  IF c.usingMemory THEN c
  ELSE IF c.closeAttempted THEN [c EXCEPT !.usingMemory = TRUE]
  ELSE [c EXCEPT !.usingMemory = TRUE, !.closeAttempted = TRUE, !.open = FALSE,
                 !.closes = @ + 1]

Found(c, entry) == [cache |-> c, entry |-> entry]

\* The map's get: an expired entry is deleted.
GetInMap(c, k) == {Found(c, c.store[k]), Found([c EXCEPT !.store[k] = Absent], Absent)}

\* The table's get: a row that expired is a miss, one that is not JSON is deleted.
GetInTable(c, k) ==
  {Found([c EXCEPT !.rows[k] = Absent], Absent)}
    \cup (IF c.rows[k] = Corrupt THEN {} ELSE {Found(c, c.rows[k])})

Get(c, k) ==
  IF c.usingMemory THEN GetInMap(c, k)
  ELSE (IF MayWork(c) THEN GetInTable(c, k) ELSE {})
         \cup (IF MayFail(c) THEN GetInMap(FailOver(c), k) ELSE {})

Put(c, k, data) ==
  IF c.usingMemory THEN {[c EXCEPT !.store[k] = Held(data)]}
  ELSE (IF MayWork(c) THEN {[c EXCEPT !.rows[k] = Held(data)]} ELSE {})
       \cup (IF MayFail(c) THEN {[FailOver(c) EXCEPT !.store[k] = Held(data)]} ELSE {})

Emptied(c) == [c EXCEPT !.store = [k \in DOMAIN c.store |-> Absent]]

\* stats, which the command asks for before it closes the cache.
Counted(c) == {c} \cup (IF ~c.usingMemory /\ MayFail(c) THEN {FailOver(c)} ELSE {})

Close(c) ==
  IF c.usingMemory THEN {Emptied(c)}
  ELSE LET tried == [c EXCEPT !.closeAttempted = TRUE, !.closes = @ + 1] IN
       {[tried EXCEPT !.open = FALSE]}
         \cup (IF CacheFaults THEN {Emptied(FailOver(tried))} ELSE {})
=============================================================================
