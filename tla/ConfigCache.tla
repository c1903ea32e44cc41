------------------------------ MODULE ConfigCache ------------------------------
(***************************************************************************)
(* The configuration cache of packages/db/src/config-cache.ts: every       *)
(* process keeps values for TTL, and renews them without loading while the *)
(* stamp of the platform's configuration, itself cached for TTL, has not   *)
(* changed.  A change of the configuration writes its value and the stamp  *)
(* in one transaction and empties the cache of its own process before the  *)
(* transaction commits.                                                    *)
(*                                                                         *)
(* A value is the number of the commit that wrote it, and a stamp the      *)
(* number of commits so far: the code draws a fresh stamp each time.       *)
(***************************************************************************)
EXTENDS Integers

CONSTANTS
  Process,     \* the panel and the worker: each has a cache of its own
  Key,         \* what is cached: settings, secrets, profiles, prices
  Request,     \* calls of cachedConfig that may be under way at once
  Owner,       \* the process each call runs in
  TTL,         \* TTL_MS
  MaxTime,     \* bound on the clock
  MaxCommits,  \* bound on the changes of the configuration
  None         \* null

ASSUME CacheAssumption ==
  /\ Owner \in [Request -> Process]
  /\ TTL \in Nat \ {0} /\ MaxTime \in Nat /\ MaxCommits \in Nat
  /\ None \notin Int

VARIABLES
  clock,     \* Date.now()
  ver,       \* the stamp in platform_settings, committed
  db,        \* db[k]: the value of k, committed
  log,       \* log[n]: the key commit n changed and when (history)
  change,    \* the transaction that holds the row of the stamp, or None
  entries,   \* entries[p][k]: the cached value of k, or None
  stamp,     \* stamp[p]: cachedVersion and versionCheckedAt, or None
  req        \* req[r]: the call r

vars == <<clock, ver, db, log, change, entries, stamp, req>>

Idle == [pc |-> "idle", key |-> None, now |-> 0, hit |-> None, ver |-> 0, value |-> 0]

Init ==
  /\ clock = 0 /\ ver = 0 /\ change = None
  /\ db = [k \in Key |-> 0]
  /\ log = [n \in {} |-> None]
  /\ entries = [p \in Process |-> [k \in Key |-> None]]
  /\ stamp = [p \in Process |-> None]
  /\ req = [r \in Request |-> Idle]

-----------------------------------------------------------------------------
(* One call of cachedConfig *)

\* The entry answers by itself: such a call changes nothing.
Fresh(p, k) == entries[p][k] # None /\ clock < entries[p][k].expires

\* Mutant: a cached stamp is good for ever.
StampFreshAlways(p) == stamp[p] # None

\* The cached stamp answers currentVersion.
StampFresh(p) == stamp[p] # None /\ clock - stamp[p].at < TTL

\* What the call keeps of the entry it found.
Seen(e) == IF e = None THEN None ELSE [value |-> e.value, ver |-> e.ver]

\* The call finds no valid entry; it goes on with the cached stamp or asks for it.
Miss(r, k) ==
  /\ req[r].pc = "idle" /\ ~ Fresh(Owner[r], k)
  /\ req' = [req EXCEPT ![r] =
       [pc |-> IF StampFresh(Owner[r]) THEN "compare" ELSE "ask",
        key |-> k, now |-> clock, hit |-> Seen(entries[Owner[r]][k]),
        ver |-> IF StampFresh(Owner[r]) THEN stamp[Owner[r]].ver ELSE 0, value |-> 0]]
  /\ UNCHANGED <<clock, ver, db, log, change, entries, stamp>>

\* The database answers the query for the stamp ...
AskStamp(r) ==
  /\ req[r].pc = "ask"
  /\ req' = [req EXCEPT ![r].pc = "answered", ![r].ver = ver]
  /\ UNCHANGED <<clock, ver, db, log, change, entries, stamp>>

\* ... and the call stores the answer, with the time at which it started.
StoreStamp(r) ==
  /\ req[r].pc = "answered"
  /\ stamp' = [stamp EXCEPT ![Owner[r]] = [ver |-> req[r].ver, at |-> req[r].now]]
  /\ req' = [req EXCEPT ![r].pc = "compare"]
  /\ UNCHANGED <<clock, ver, db, log, change, entries>>

Unchanged(r) == req[r].hit # None /\ req[r].hit.ver = req[r].ver

\* The stamp is the entry's: its validity is renewed, where it is still cached.
Renew(r) ==
  LET p == Owner[r]  k == req[r].key  e == entries[p][k]
      cached == e # None /\ Seen(e) = req[r].hit
  IN  /\ req[r].pc = "compare" /\ Unchanged(r)
      /\ entries' = IF cached
                    THEN [entries EXCEPT ![p][k].expires = req[r].now + TTL]
                    ELSE entries
      /\ req' = [req EXCEPT ![r] = Idle]
      /\ UNCHANGED <<clock, ver, db, log, change, stamp>>

\* Something changed, or nothing was cached: the value is loaded ...
Load(r) ==
  /\ req[r].pc = "compare" /\ ~ Unchanged(r)
  /\ req' = [req EXCEPT ![r].pc = "loaded", ![r].value = db[req[r].key]]
  /\ UNCHANGED <<clock, ver, db, log, change, entries, stamp>>

\* ... and stored, valid from the start of the call.
Store(r) ==
  /\ req[r].pc = "loaded"
  /\ entries' = [entries EXCEPT ![Owner[r]][req[r].key] =
       [value |-> req[r].value, expires |-> req[r].now + TTL, ver |-> req[r].ver]]
  /\ req' = [req EXCEPT ![r] = Idle]
  /\ UNCHANGED <<clock, ver, db, log, change, stamp>>

-----------------------------------------------------------------------------
(* A change of the configuration *)

\* invalidateConfigCache, in the process of the change.
Forget(p) ==
  /\ entries' = [entries EXCEPT ![p] = [k \in Key |-> None]]
  /\ stamp' = [stamp EXCEPT ![p] = None]

\* The stamp is written: from here its row is locked, and the cache is empty.
Bump(p, k) ==
  /\ change = None /\ ver < MaxCommits
  /\ change' = [proc |-> p, key |-> k]
  /\ Forget(p)
  /\ UNCHANGED <<clock, ver, db, log, req>>

Commit ==
  /\ change # None
  /\ ver' = ver + 1
  /\ db' = [db EXCEPT ![change.key] = ver + 1]
  /\ log' = [n \in 1 .. ver + 1 |->
               IF n = ver + 1 THEN [key |-> change.key, at |-> clock] ELSE log[n]]
  /\ change' = None
  /\ UNCHANGED <<clock, entries, stamp, req>>

\* The handler throws after the bump: value and stamp go back together.
Rollback ==
  /\ change # None
  /\ change' = None
  /\ UNCHANGED <<clock, ver, db, log, entries, stamp, req>>

Tick ==
  /\ clock < MaxTime
  /\ clock' = clock + 1
  /\ UNCHANGED <<ver, db, log, change, entries, stamp, req>>

Step(r) ==
  \/ \E k \in Key : Miss(r, k)
  \/ AskStamp(r) \/ StoreStamp(r) \/ Renew(r) \/ Load(r) \/ Store(r)

Next ==
  \/ \E r \in Request : Step(r)
  \/ \E p \in Process, k \in Key : Bump(p, k)
  \/ Commit \/ Rollback \/ Tick

Spec == Init /\ [][Next]_vars

-----------------------------------------------------------------------------
(* Properties *)

\* The commits that replaced value v of key k.
Replaced(k, v) == {n \in 1 .. ver : n > v /\ log[n].key = k}

\* What every process serves from its cache was current less than two TTLs ago:
\* one for the entry, one for the stamp it was renewed against. That is twice
\* what the code says of itself, which is SeenWithinTTL.
StalenessBounded ==
  \A p \in Process, k \in Key :
    Fresh(p, k) => \A n \in Replaced(k, entries[p][k].value) : clock - log[n].at < 2 * TTL

\* An entry is never older than the stamp it carries, so that an equal stamp
\* does mean that there is nothing to load.
EntryKnowsItsStamp ==
  \A p \in Process, k \in Key :
    entries[p][k] # None =>
      \A n \in Replaced(k, entries[p][k].value) : n > entries[p][k].ver

\* The comment at the end of bumpConfigVersion: the others see it within TTL.
\* It does not hold, for a TTL of three or more: a stamp asked before the commit
\* stays good for a TTL, in which it renews other entries for a TTL each.
SeenWithinTTL ==
  \A p \in Process, k \in Key :
    Fresh(p, k) => \A n \in Replaced(k, entries[p][k].value) : clock - log[n].at <= TTL

Entry == [value : 0 .. ver, expires : Nat, ver : 0 .. ver]
Hit == [value : 0 .. ver, ver : 0 .. ver]
Call == [pc : {"idle", "ask", "answered", "compare", "loaded"},
         key : Key \cup {None}, now : 0 .. clock, hit : Hit \cup {None},
         ver : 0 .. ver, value : 0 .. ver]

TypeOK ==
  /\ clock \in 0 .. MaxTime
  /\ ver \in 0 .. MaxCommits
  /\ db \in [Key -> 0 .. ver]
  /\ log \in [1 .. ver -> [key : Key, at : 0 .. clock]]
  /\ change \in [proc : Process, key : Key] \cup {None}
  /\ change # None => ver < MaxCommits
  /\ entries \in [Process -> [Key -> Entry \cup {None}]]
  /\ stamp \in [Process -> [ver : 0 .. ver, at : Nat] \cup {None}]
  /\ req \in [Request -> Call]
=============================================================================
