--------------------------- MODULE ConfigCacheProofs ---------------------------
(***************************************************************************)
(* How stale the configuration cache may be, for any number of processes,  *)
(* keys and calls, any TTL and any sequence of changes. Then the parts of  *)
(* the panel over what is stored: that it chooses keys and models as the   *)
(* worker does, that a template is what it was saved as, that a dialog     *)
(* keeps what the user did not touch.                                      *)
(***************************************************************************)
EXTENDS ConfigCache, Access, TemplateConfig, Dialog, WellFoundedInduction, TLAPS

CONSTANTS
  Other, Blind, MaxChanges,       \* ModelAccess
  MaxEdits, MaxOthers, MaxLife,   \* Templates
  Site, FormEdits, MaxForeign     \* Forms

VARIABLES
  form, changes,                                     \* ModelAccess
  draft, locale, saving, cloning, deleting, spent,   \* Templates
  dialog, more, cats, sent, late, edits, foreign     \* Forms

K == INSTANCE ModelAccess
T == INSTANCE Templates
F == INSTANCE Forms WITH form <- dialog, MaxEdits <- FormEdits

\* The stamp a process holds, or a call has obtained, was read at a time it
\* remembers: every later commit is at least as late.
StampsAreTimed ==
  /\ \A p \in Process : stamp[p] # None => stamp[p].at <= clock
  /\ \A p \in Process : stamp[p] # None =>
       \A n \in 1 .. ver : n > stamp[p].ver => log[n].at >= stamp[p].at
  /\ \A r \in Request : req[r].pc = "answered" =>
       \A n \in 1 .. ver : n > req[r].ver => log[n].at >= req[r].now
  /\ \A r \in Request : req[r].pc \in {"compare", "loaded"} =>
       \A n \in 1 .. ver : n > req[r].ver => log[n].at > req[r].now - TTL

\* A value is at least as new as the stamp it is kept with: commits of key k
\* after value v come after stamp s.
Newer(k, v, s) == \A n \in Replaced(k, v) : n > s

ValuesKnowTheirStamp ==
  /\ \A k \in Key : Replaced(k, db[k]) = {}
  /\ \A p \in Process, k \in Key : entries[p][k] # None =>
       Newer(k, entries[p][k].value, entries[p][k].ver)
  /\ \A r \in Request : req[r].pc # "idle" => req[r].key \in Key
  /\ \A r \in Request : req[r].pc # "idle" /\ req[r].hit # None =>
       Newer(req[r].key, req[r].hit.value, req[r].hit.ver)
  /\ \A r \in Request : req[r].pc = "loaded" =>
       Newer(req[r].key, req[r].value, req[r].ver)

\* What was replaced has at most two TTLs left.
EntriesExpire ==
  /\ \A p \in Process, k \in Key : entries[p][k] # None =>
       entries[p][k].expires <= clock + TTL
  /\ \A p \in Process, k \in Key : entries[p][k] # None =>
       \A n \in Replaced(k, entries[p][k].value) :
         entries[p][k].expires < log[n].at + 2 * TTL

IInv == TypeOK /\ StampsAreTimed /\ ValuesKnowTheirStamp /\ EntriesExpire
-----------------------------------------------------------------------------

LEMMA InitHolds == Init => IInv
BY CacheAssumption DEF Init, IInv, TypeOK, Call, StampsAreTimed, ValuesKnowTheirStamp,
   EntriesExpire, Replaced, Newer, Idle, Entry, Hit, Call

-----------------------------------------------------------------------------
(* Types *)

LEMMA TypesKept ==
  ASSUME TypeOK, UNCHANGED <<clock, ver, db, log>>,
         change' \in [proc : Process, key : Key] \cup {None},
         change' # None => ver < MaxCommits,
         entries' \in [Process -> [Key -> Entry \cup {None}]],
         stamp' \in [Process -> [ver : 0 .. ver, at : Nat] \cup {None}],
         req' \in [Request -> Call]
  PROVE  TypeOK'
<1>1. Entry' = Entry /\ Call' = Call
  BY DEF Entry, Hit, Call
<1> QED
  BY <1>1 DEF TypeOK

LEMMA CallKept ==
  ASSUME TypeOK, NEW r \in Request, NEW c \in Call, req' = [req EXCEPT ![r] = c]
  PROVE  /\ req' \in [Request -> Call]
         /\ req'[r] = c
         /\ \A q \in Request : q # r => req'[q] = req[q]
BY DEF TypeOK

-----------------------------------------------------------------------------
(* The steps of a call, one lemma each *)

LEMMA MissStep ==
  ASSUME IInv, NEW r \in Request, NEW k \in Key, Miss(r, k)
  PROVE  IInv'
<1> USE CacheAssumption
<1> DEFINE p == Owner[r]
<1>0. p \in Process
  OBVIOUS
<1>1. req'[r] = [pc |-> IF StampFresh(p) THEN "compare" ELSE "ask",
                 key |-> k, now |-> clock, hit |-> Seen(entries[p][k]),
                 ver |-> IF StampFresh(p) THEN stamp[p].ver ELSE 0, value |-> 0]
  BY DEF Miss, IInv, TypeOK, Call
<1>2. \A q \in Request : q # r => req'[q] = req[q]
  BY DEF Miss, IInv, TypeOK, Call
<1>3. entries[p][k] \in Entry \cup {None}
  BY <1>0 DEF IInv, TypeOK, Call
<1>4. Seen(entries[p][k]) \in Hit \cup {None}
  BY <1>3 DEF Seen, Entry, Hit
<1>5. TypeOK'
  <2>1. (IF StampFresh(p) THEN stamp[p].ver ELSE 0) \in 0 .. ver
    BY <1>0 DEF IInv, TypeOK, StampFresh
  <2>2. clock \in 0 .. clock /\ 0 \in 0 .. ver
    BY DEF IInv, TypeOK
  <2>3. req'[r] \in Call
    BY <1>1, <1>4, <2>1, <2>2 DEF Call
  <2>4. req' \in [Request -> Call]
    BY <1>2, <2>3 DEF Miss, IInv, TypeOK
  <2> QED
    BY <2>4, TypesKept DEF Miss, IInv, TypeOK
<1>6. StampsAreTimed'
  <2>1. CASE StampFresh(p)
    <3>1. \A n \in 1 .. ver : n > req'[r].ver => log[n].at > req'[r].now - TTL
      BY <1>0, <1>1, <2>1 DEF IInv, TypeOK, Call, StampsAreTimed, StampFresh
    <3> QED
      BY <1>1, <1>2, <2>1, <3>1 DEF Miss, IInv, StampsAreTimed
  <2>2. CASE ~ StampFresh(p)
    BY <1>1, <1>2, <2>2 DEF Miss, IInv, StampsAreTimed
  <2> QED
    BY <2>1, <2>2
<1>7. ValuesKnowTheirStamp'
  <2>1. req'[r].hit # None => Newer(k, req'[r].hit.value, req'[r].hit.ver)
    BY <1>0, <1>1, <1>3 DEF IInv, ValuesKnowTheirStamp, Seen, Entry
  <2>2. req'[r].pc # "loaded" /\ req'[r].key = k
    BY <1>1
  <2>3. \A q \in Request : req'[q].pc # "idle" => req'[q].key \in Key
    BY <1>2, <2>2 DEF IInv, ValuesKnowTheirStamp
  <2> QED
    BY <1>2, <2>1, <2>2, <2>3 DEF Miss, IInv, ValuesKnowTheirStamp, Newer, Replaced
<1>8. EntriesExpire'
  BY DEF Miss, IInv, EntriesExpire, Replaced
<1> QED
  BY <1>5, <1>6, <1>7, <1>8 DEF IInv

LEMMA AskStampStep ==
  ASSUME IInv, NEW r \in Request, AskStamp(r)
  PROVE  IInv'
<1> USE CacheAssumption
<1> DEFINE c == [req[r] EXCEPT !.pc = "answered", !.ver = ver]
<1> DEFINE d == [req[r] EXCEPT !.pc = "answered"]
<1>d. /\ d \in Call /\ d.pc = "answered" /\ d.key = req[r].key
      /\ d.now = req[r].now /\ d.hit = req[r].hit /\ d.value = req[r].value
  BY DEF IInv, TypeOK, Call
<1>e. /\ c \in Call /\ c.pc = d.pc /\ c.ver = ver /\ c.key = d.key
      /\ c.now = d.now /\ c.hit = d.hit /\ c.value = d.value
  <2>1. c = [d EXCEPT !.ver = ver]
    OBVIOUS
  <2>2. ver \in 0 .. ver
    BY DEF IInv, TypeOK
  <2> HIDE DEF d
  <2> QED
    BY <1>d, <2>1, <2>2 DEF Call
<1>a. c \in Call /\ req' = [req EXCEPT ![r] = c]
  BY <1>e DEF AskStamp
<1>1. req' \in [Request -> Call] /\ req'[r] = c /\ \A q \in Request : q # r => req'[q] = req[q]
  BY <1>a, CallKept DEF IInv
<1>0. /\ req'[r].pc = "answered" /\ req'[r].ver = ver
      /\ req'[r].key = req[r].key /\ req'[r].now = req[r].now
      /\ req'[r].hit = req[r].hit /\ req'[r].value = req[r].value
  BY <1>1, <1>d, <1>e
<1> HIDE DEF c, d
<1>f. UNCHANGED <<clock, ver, db, log, change, entries, stamp>>
  BY DEF AskStamp
<1>2. TypeOK'
  BY <1>1, <1>f, TypesKept DEF IInv, TypeOK
<1>3. StampsAreTimed'
  <2>1. ver \in Nat
    BY DEF IInv, TypeOK
  <2>2. ~ \E n \in 1 .. ver : n > req'[r].ver
    BY <1>0, <2>1
  <2>3. req'[r].pc \notin {"compare", "loaded"}
    BY <1>0
  <2> QED
    BY <1>1, <1>f, <2>2, <2>3 DEF IInv, StampsAreTimed
<1>4. ValuesKnowTheirStamp'
  <2>1. \A q \in Request : req'[q].pc = "loaded" => q # r
    BY <1>0
  <2>2. \A q \in Request : req'[q].pc # "idle" =>
          req'[q].key = req[q].key /\ req'[q].hit = req[q].hit /\ req[q].pc # "idle"
    BY <1>0, <1>1 DEF AskStamp
  <2> QED
    BY <1>1, <1>f, <2>1, <2>2 DEF IInv, ValuesKnowTheirStamp, Newer, Replaced
<1>5. EntriesExpire'
  BY DEF AskStamp, IInv, EntriesExpire, Replaced
<1> QED
  BY <1>2, <1>3, <1>4, <1>5 DEF IInv

LEMMA StoreStampStep ==
  ASSUME IInv, NEW r \in Request, StoreStamp(r)
  PROVE  IInv'
<1> USE CacheAssumption
<1>1. req' = [req EXCEPT ![r].pc = "compare"]
  BY DEF StoreStamp
<1>2. stamp' = [stamp EXCEPT ![Owner[r]] = [ver |-> req[r].ver, at |-> req[r].now]]
  BY DEF StoreStamp
<1> DEFINE c == [req[r] EXCEPT !.pc = "compare"]
<1>a. c \in Call /\ req' = [req EXCEPT ![r] = c]
  BY <1>1 DEF IInv, TypeOK, Call
<1>b. req' \in [Request -> Call] /\ req'[r] = c /\ \A q \in Request : q # r => req'[q] = req[q]
  BY <1>a, CallKept DEF IInv
<1>c. /\ req'[r].pc = "compare" /\ req'[r].ver = req[r].ver
      /\ req'[r].key = req[r].key /\ req'[r].now = req[r].now
      /\ req'[r].hit = req[r].hit /\ req'[r].value = req[r].value
  BY <1>b DEF IInv, TypeOK, Call
<1>3. TypeOK'
  <2>1. [ver |-> req[r].ver, at |-> req[r].now] \in [ver : 0 .. ver, at : Nat]
    BY DEF IInv, TypeOK, Call
  <2>2. stamp' \in [Process -> [ver : 0 .. ver, at : Nat] \cup {None}]
    BY <1>2, <2>1 DEF IInv, TypeOK
  <2> QED
    BY <1>b, <2>2, TypesKept DEF StoreStamp, IInv, TypeOK
<1>4. StampsAreTimed'
  <2>1. \A p \in Process : stamp'[p] # None => stamp'[p].at <= clock
    BY <1>2 DEF IInv, TypeOK, Call, StampsAreTimed
  <2>2. \A p \in Process : stamp'[p] # None =>
          \A n \in 1 .. ver : n > stamp'[p].ver => log[n].at >= stamp'[p].at
    BY <1>2 DEF StoreStamp, IInv, TypeOK, Call, StampsAreTimed
  <2>3. \A n \in 1 .. ver : n > req[r].ver => log[n].at > req[r].now - TTL
    BY DEF StoreStamp, IInv, TypeOK, Call, StampsAreTimed
  <2>4. \A q \in Request : req'[q].pc \in {"compare", "loaded"} =>
          \A n \in 1 .. ver : n > req'[q].ver => log[n].at > req'[q].now - TTL
    BY <1>b, <1>c, <2>3 DEF IInv, TypeOK, Call, StampsAreTimed
  <2>5. \A q \in Request : req'[q].pc = "answered" =>
          \A n \in 1 .. ver : n > req'[q].ver => log[n].at >= req'[q].now
    BY <1>b, <1>c DEF IInv, TypeOK, Call, StampsAreTimed
  <2>6. clock' = clock /\ ver' = ver /\ log' = log
    BY DEF StoreStamp
  <2> QED
    BY <2>1, <2>2, <2>4, <2>5, <2>6 DEF StampsAreTimed
<1>5. ValuesKnowTheirStamp'
  BY <1>b, <1>c DEF StoreStamp, IInv, ValuesKnowTheirStamp, Newer, Replaced
<1>6. EntriesExpire'
  BY DEF StoreStamp, IInv, EntriesExpire, Replaced
<1> QED
  BY <1>3, <1>4, <1>5, <1>6 DEF IInv

LEMMA RenewStep ==
  ASSUME IInv, NEW r \in Request, Renew(r)
  PROVE  IInv'
<1> USE CacheAssumption
<1> DEFINE p == Owner[r]
           k == req[r].key
           e == entries[p][k]
           cached == e # None /\ Seen(e) = req[r].hit
<1>0. p \in Process /\ k \in Key
  BY DEF Renew, IInv, TypeOK, Call, ValuesKnowTheirStamp
<1>1. req' = [req EXCEPT ![r] = Idle]
  BY DEF Renew
<1>2. entries' = IF cached THEN [entries EXCEPT ![p][k].expires = req[r].now + TTL]
                 ELSE entries
  BY DEF Renew
<1>i. Idle \in Call
  BY DEF IInv, TypeOK, Idle, Call
<1>b. req' \in [Request -> Call] /\ req'[r] = Idle /\ \A q \in Request : q # r => req'[q] = req[q]
  BY <1>1, <1>i, CallKept DEF IInv
<1>3. TypeOK'
  <2>1. entries[p][k] \in Entry => [entries[p][k] EXCEPT !.expires = req[r].now + TTL] \in Entry
    <3>1. req[r].now + TTL \in Nat
      BY DEF IInv, TypeOK, Call
    <3> QED
      BY <3>1 DEF Entry
  <2>2. entries[p] \in [Key -> Entry \cup {None}] /\ entries[p][k] \in Entry \cup {None}
    BY <1>0 DEF IInv, TypeOK
  <2>3. cached =>
          entries' = [entries EXCEPT ![p] = [entries[p] EXCEPT ![k] =
                        [entries[p][k] EXCEPT !.expires = req[r].now + TTL]]]
    BY <1>2
  <2>4. entries' \in [Process -> [Key -> Entry \cup {None}]]
    <3>1. CASE cached
      <4>1. [entries[p] EXCEPT ![k] = [entries[p][k] EXCEPT !.expires = req[r].now + TTL]]
              \in [Key -> Entry \cup {None}]
        BY <2>1, <2>2, <3>1
      <4> QED
        BY <1>0, <2>3, <3>1, <4>1 DEF IInv, TypeOK
    <3>2. CASE ~ cached
      BY <1>2, <3>2 DEF IInv, TypeOK
    <3> QED
      BY <3>1, <3>2
  <2> QED
    BY <1>b, <2>4, TypesKept DEF Renew, IInv, TypeOK
<1>4. \A q \in Process, j \in Key :
        \/ entries'[q][j] = entries[q][j]
        \/ /\ q = p /\ j = k /\ cached
           /\ entries'[q][j] = [e EXCEPT !.expires = req[r].now + TTL]
  BY <1>0, <1>2 DEF IInv, TypeOK, Call
<1>5. StampsAreTimed'
  BY <1>b DEF Renew, IInv, StampsAreTimed, Idle
<1>6. ValuesKnowTheirStamp'
  <2>1. \A q \in Process, j \in Key : entries'[q][j] # None =>
          /\ entries[q][j] # None
          /\ entries'[q][j].value = entries[q][j].value
          /\ entries'[q][j].ver = entries[q][j].ver
    BY <1>0, <1>4 DEF IInv, TypeOK, Call, Entry
  <2>2. \A q \in Process, j \in Key : entries'[q][j] # None =>
          Newer(j, entries'[q][j].value, entries'[q][j].ver)
    BY <2>1 DEF IInv, ValuesKnowTheirStamp
  <2>3. ver' = ver /\ log' = log /\ db' = db
    BY DEF Renew
  <2>5. \A q \in Request : req'[q].pc # "idle" =>
          /\ req'[q].key \in Key
          /\ req'[q].hit # None => Newer(req'[q].key, req'[q].hit.value, req'[q].hit.ver)
    BY <1>b DEF IInv, ValuesKnowTheirStamp, Idle
  <2>6. \A q \in Request : req'[q].pc = "loaded" =>
          Newer(req'[q].key, req'[q].value, req'[q].ver)
    BY <1>b DEF IInv, ValuesKnowTheirStamp, Idle
  <2> QED
    BY <2>2, <2>3, <2>5, <2>6 DEF IInv, ValuesKnowTheirStamp, Newer, Replaced
<1>7. EntriesExpire'
  <2>1. CASE cached
    <3>1. e \in Entry /\ e.ver = req[r].ver
      BY <1>0, <2>1 DEF Renew, Unchanged, Seen, IInv, TypeOK, Call, Entry
    <3>2. \A n \in Replaced(k, e.value) : log[n].at > req[r].now - TTL
      BY <1>0, <2>1, <3>1
      DEF Renew, IInv, TypeOK, Call, ValuesKnowTheirStamp, Newer, Replaced, StampsAreTimed
    <3>3. req[r].now \in 0 .. clock /\ clock \in Nat
      BY DEF IInv, TypeOK, Call
    <3>4. \A n \in Replaced(k, e.value) : log[n].at \in Int
      BY DEF Replaced, IInv, TypeOK, Call
    <3>5. \A n \in Replaced(k, e.value) : req[r].now + TTL < log[n].at + 2 * TTL
      BY <3>2, <3>3, <3>4
    <3>6. [e EXCEPT !.expires = req[r].now + TTL].value = e.value
          /\ [e EXCEPT !.expires = req[r].now + TTL].expires = req[r].now + TTL
      BY <3>1 DEF Entry
    <3>7. ASSUME NEW q \in Process, NEW j \in Key, entries'[q][j] # None
          PROVE  /\ entries'[q][j].expires <= clock + TTL
                 /\ \A n \in Replaced(j, entries'[q][j].value) :
                      entries'[q][j].expires < log[n].at + 2 * TTL
      <4>1. CASE entries'[q][j] = entries[q][j]
        BY <3>7, <4>1 DEF IInv, EntriesExpire
      <4>2. CASE /\ j = k
                 /\ entries'[q][j].value = e.value
                 /\ entries'[q][j].expires = req[r].now + TTL
        BY <3>3, <3>5, <4>2
      <4> QED
        BY <1>4, <3>6, <4>1, <4>2
    <3> QED
      BY <3>7 DEF Renew, EntriesExpire, Replaced
  <2>2. CASE ~ cached
    BY <1>2, <2>2 DEF Renew, IInv, EntriesExpire, Replaced
  <2> QED
    BY <2>1, <2>2
<1> QED
  BY <1>3, <1>5, <1>6, <1>7 DEF IInv

LEMMA LoadStep ==
  ASSUME IInv, NEW r \in Request, Load(r)
  PROVE  IInv'
<1> USE CacheAssumption
<1>0. req[r].key \in Key
  BY DEF Load, IInv, ValuesKnowTheirStamp
<1>1. req' = [req EXCEPT ![r].pc = "loaded", ![r].value = db[req[r].key]]
  BY DEF Load
<1> DEFINE c == [req[r] EXCEPT !.pc = "loaded", !.value = db[req[r].key]]
<1> DEFINE d == [req[r] EXCEPT !.pc = "loaded"]
<1>d. d \in Call /\ d.pc = "loaded" /\ d.key = req[r].key
      /\ d.now = req[r].now /\ d.hit = req[r].hit /\ d.ver = req[r].ver
  BY DEF IInv, TypeOK, Call
<1>e. /\ c \in Call /\ c.pc = d.pc /\ c.ver = d.ver /\ c.key = d.key
      /\ c.now = d.now /\ c.hit = d.hit /\ c.value = db[req[r].key]
  <2>1. c = [d EXCEPT !.value = db[req[r].key]]
    OBVIOUS
  <2>2. db[req[r].key] \in 0 .. ver
    BY <1>0 DEF IInv, TypeOK
  <2> HIDE DEF d
  <2> QED
    BY <1>d, <2>1, <2>2 DEF Call
<1>a. c \in Call /\ req' = [req EXCEPT ![r] = c]
  BY <1>e DEF Load
<1>b. req' \in [Request -> Call] /\ req'[r] = c /\ \A q \in Request : q # r => req'[q] = req[q]
  BY <1>a, CallKept DEF IInv
<1>2. TypeOK'
  BY <1>b, TypesKept DEF Load, IInv, TypeOK
<1>3. StampsAreTimed'
  <2>1. req'[r].pc = "loaded" /\ req'[r].ver = req[r].ver /\ req'[r].now = req[r].now
    BY <1>b, <1>d, <1>e
  <2> HIDE DEF c, d
  <2> QED
    BY <1>b, <2>1 DEF Load, IInv, StampsAreTimed
<1>4. ValuesKnowTheirStamp'
  <2>1. Newer(req[r].key, db[req[r].key], req[r].ver)
    BY <1>0 DEF IInv, ValuesKnowTheirStamp, Newer
  <2>2. /\ c.pc = "loaded" /\ c.key = req[r].key /\ c.hit = req[r].hit
        /\ c.ver = req[r].ver /\ c.value = db[req[r].key]
    BY <1>d, <1>e
  <2> HIDE DEF c, d
  <2>3. req[r].pc = "compare"
    BY DEF Load
  <2>4. \A q \in Request :
          /\ req'[q].pc # "idle" => req'[q].key \in Key
          /\ req'[q].pc # "idle" /\ req'[q].hit # None =>
               Newer(req'[q].key, req'[q].hit.value, req'[q].hit.ver)
          /\ req'[q].pc = "loaded" => Newer(req'[q].key, req'[q].value, req'[q].ver)
    <3> SUFFICES ASSUME NEW q \in Request
                 PROVE  /\ req'[q].pc # "idle" => req'[q].key \in Key
                        /\ req'[q].pc # "idle" /\ req'[q].hit # None =>
                             Newer(req'[q].key, req'[q].hit.value, req'[q].hit.ver)
                        /\ req'[q].pc = "loaded" =>
                             Newer(req'[q].key, req'[q].value, req'[q].ver)
      OBVIOUS
    <3>1. CASE q = r
      BY <1>0, <1>b, <2>1, <2>2, <2>3, <3>1 DEF IInv, ValuesKnowTheirStamp
    <3>2. CASE q # r
      BY <1>b, <3>2 DEF IInv, ValuesKnowTheirStamp
    <3> QED
      BY <3>1, <3>2
  <2> QED
    BY <2>4 DEF Load, IInv, ValuesKnowTheirStamp, Newer, Replaced
<1>5. EntriesExpire'
  BY DEF Load, IInv, EntriesExpire, Replaced
<1> QED
  BY <1>2, <1>3, <1>4, <1>5 DEF IInv

LEMMA StoreStep ==
  ASSUME IInv, NEW r \in Request, Store(r)
  PROVE  IInv'
<1> USE CacheAssumption
<1> DEFINE p == Owner[r]
           k == req[r].key
           e == [value |-> req[r].value, expires |-> req[r].now + TTL, ver |-> req[r].ver]
<1>0. p \in Process /\ k \in Key
  BY DEF Store, IInv, TypeOK, Call, ValuesKnowTheirStamp
<1>1. req' = [req EXCEPT ![r] = Idle]
  BY DEF Store
<1>2. entries' = [entries EXCEPT ![p][k] = e]
  BY DEF Store
<1>3. e \in Entry
  BY DEF IInv, TypeOK, Call, Entry
<1>i. Idle \in Call
  BY DEF IInv, TypeOK, Idle, Call
<1>b. req' \in [Request -> Call] /\ req'[r] = Idle /\ \A q \in Request : q # r => req'[q] = req[q]
  BY <1>1, <1>i, CallKept DEF IInv
<1>4. TypeOK'
  <2>1. entries[p] \in [Key -> Entry \cup {None}]
    BY <1>0 DEF IInv, TypeOK
  <2>2. [entries[p] EXCEPT ![k] = e] \in [Key -> Entry \cup {None}]
    BY <1>3, <2>1
  <2>3. entries' = [entries EXCEPT ![p] = [entries[p] EXCEPT ![k] = e]]
    BY <1>2
  <2>4. entries' \in [Process -> [Key -> Entry \cup {None}]]
    BY <1>0, <2>2, <2>3 DEF IInv, TypeOK
  <2> QED
    BY <1>b, <2>4, TypesKept DEF Store, IInv, TypeOK
<1>5. \A q \in Process, j \in Key :
        entries'[q][j] = IF q = p /\ j = k THEN e ELSE entries[q][j]
  BY <1>0, <1>2 DEF IInv, TypeOK, Call
<1>6. StampsAreTimed'
  BY <1>b DEF Store, IInv, StampsAreTimed, Idle
<1>7. Newer(k, req[r].value, req[r].ver)
  BY DEF Store, IInv, ValuesKnowTheirStamp
<1>8. ValuesKnowTheirStamp'
  <2>1. \A q \in Process, j \in Key : entries'[q][j] # None =>
          Newer(j, entries'[q][j].value, entries'[q][j].ver)
    BY <1>5, <1>7 DEF IInv, ValuesKnowTheirStamp
  <2> QED
    BY <1>1, <2>1 DEF Store, IInv, TypeOK, Call, ValuesKnowTheirStamp, Newer, Replaced, Idle
<1>9. EntriesExpire'
  <2>1. req[r].now \in 0 .. clock /\ clock \in Nat
    BY DEF IInv, TypeOK, Call
  <2>2. \A n \in Replaced(k, req[r].value) :
          log[n].at \in Int /\ log[n].at > req[r].now - TTL
    BY <1>7 DEF Store, IInv, TypeOK, Call, Newer, Replaced, StampsAreTimed
  <2>3. \A n \in Replaced(k, req[r].value) : req[r].now + TTL < log[n].at + 2 * TTL
    BY <2>1, <2>2
  <2>4. \A q \in Process, j \in Key : entries'[q][j] # None =>
          /\ entries'[q][j].expires <= clock + TTL
          /\ \A n \in Replaced(j, entries'[q][j].value) :
               entries'[q][j].expires < log[n].at + 2 * TTL
    BY <1>5, <2>1, <2>3 DEF IInv, EntriesExpire
  <2> QED
    BY <2>4 DEF Store, EntriesExpire, Replaced
<1> QED
  BY <1>4, <1>6, <1>8, <1>9 DEF IInv

-----------------------------------------------------------------------------
(* The changes of the configuration, and time *)

LEMMA BumpStep ==
  ASSUME IInv, NEW p \in Process, NEW k \in Key, Bump(p, k)
  PROVE  IInv'
<1> USE CacheAssumption
<1>1. TypeOK'
  <2>1. change' = [proc |-> p, key |-> k] /\ ver < MaxCommits
    BY DEF Bump
  <2>2. /\ entries' = [entries EXCEPT ![p] = [j \in Key |-> None]]
        /\ stamp' = [stamp EXCEPT ![p] = None]
    BY DEF Bump, Forget
  <2>3. entries' \in [Process -> [Key -> Entry \cup {None}]]
    BY <2>2 DEF IInv, TypeOK
  <2>4. stamp' \in [Process -> [ver : 0 .. ver, at : Nat] \cup {None}]
    BY <2>2 DEF IInv, TypeOK
  <2> QED
    BY <2>1, <2>3, <2>4, TypesKept DEF Bump, IInv, TypeOK
<1>2. \A q \in Process : stamp'[q] # None => stamp'[q] = stamp[q]
  BY DEF Bump, Forget, IInv, TypeOK, Call
<1>3. \A q \in Process, j \in Key : entries'[q][j] # None => entries'[q][j] = entries[q][j]
  BY DEF Bump, Forget, IInv, TypeOK, Call
<1>4. StampsAreTimed'
  BY <1>2 DEF Bump, IInv, StampsAreTimed
<1>5. ValuesKnowTheirStamp'
  BY <1>3 DEF Bump, IInv, ValuesKnowTheirStamp, Newer, Replaced
<1>6. EntriesExpire'
  BY <1>3 DEF Bump, IInv, EntriesExpire, Replaced
<1> QED
  BY <1>1, <1>4, <1>5, <1>6 DEF IInv

LEMMA CommitStep ==
  ASSUME IInv, Commit
  PROVE  IInv'
<1> USE CacheAssumption
<1> DEFINE c == change.key
<1>0. c \in Key /\ ver \in Nat /\ ver < MaxCommits /\ clock \in Nat
  BY DEF Commit, IInv, TypeOK
<1>1. /\ ver' = ver + 1
      /\ log' = [n \in 1 .. ver + 1 |->
                   IF n = ver + 1 THEN [key |-> c, at |-> clock] ELSE log[n]]
      /\ UNCHANGED <<clock, entries, stamp, req>>
  BY DEF Commit
<1>2. \A n \in 1 .. ver : log'[n] = log[n]
  BY <1>0, <1>1
<1>3. log'[ver + 1] = [key |-> c, at |-> clock]
  BY <1>0, <1>1
<1>a. \A n \in 1 .. ver' : n \in 1 .. ver \/ n = ver + 1
  BY <1>0, <1>1
<1>b. \A p \in Process, k \in Key : entries[p][k] # None =>
        /\ entries[p][k].value \in 0 .. ver /\ entries[p][k].ver \in 0 .. ver
        /\ entries[p][k].expires \in Nat
  BY DEF IInv, TypeOK, Entry
<1>c. \A p \in Process : stamp[p] # None => stamp[p].at \in Int /\ stamp[p].ver \in 0 .. ver
  BY DEF IInv, TypeOK
<1>d. \A r \in Request :
        /\ req[r].now \in Int /\ req[r].now <= clock
        /\ req[r].ver \in 0 .. ver /\ req[r].value \in 0 .. ver
        /\ req[r].hit # None => req[r].hit.value \in 0 .. ver /\ req[r].hit.ver \in 0 .. ver
  BY DEF IInv, TypeOK, Call, Hit
<1>4. TypeOK'
  <2>1. log' \in [1 .. ver' -> [key : Key, at : 0 .. clock']]
    BY <1>0, <1>1 DEF IInv, TypeOK
  <2>2. db' \in [Key -> 0 .. ver']
    BY <1>0, <1>1 DEF Commit, IInv, TypeOK
  <2>3. 0 .. ver \subseteq 0 .. ver'
    BY <1>0, <1>1
  <2>4. entries' \in [Process -> [Key -> Entry \cup {None}]]'
    <3>1. Entry \subseteq Entry'
      BY <2>3 DEF Entry
    <3> QED
      BY <1>1, <3>1 DEF IInv, TypeOK
  <2>5. stamp' \in [Process -> [ver : 0 .. ver, at : Nat] \cup {None}]'
    <3>1. [ver : 0 .. ver, at : Nat] \subseteq [ver : 0 .. ver, at : Nat]'
      BY <2>3
    <3> QED
      BY <1>1, <3>1 DEF IInv, TypeOK
  <2>6. req' \in [Request -> Call]'
    <3>1. Hit \subseteq Hit'
      BY <2>3 DEF Hit
    <3>2. Call \subseteq Call'
      BY <1>1, <2>3, <3>1 DEF Call
    <3> QED
      BY <1>1, <3>2 DEF IInv, TypeOK
  <2>7. ver' \in 0 .. MaxCommits /\ change' = None
    BY <1>0, <1>1 DEF Commit
  <2> QED
    BY <1>1, <2>1, <2>2, <2>4, <2>5, <2>6, <2>7 DEF IInv, TypeOK
<1>5. StampsAreTimed'
  <2>1. \A p \in Process : stamp'[p] # None =>
          \A n \in 1 .. ver' : n > stamp'[p].ver => log'[n].at >= stamp'[p].at
    BY <1>0, <1>1, <1>2, <1>3, <1>a, <1>c DEF IInv, StampsAreTimed
  <2>2. \A r \in Request : req'[r].pc = "answered" =>
          \A n \in 1 .. ver' : n > req'[r].ver => log'[n].at >= req'[r].now
    BY <1>0, <1>1, <1>2, <1>3, <1>a, <1>d DEF IInv, StampsAreTimed
  <2>3. \A r \in Request : req'[r].pc \in {"compare", "loaded"} =>
          \A n \in 1 .. ver' : n > req'[r].ver => log'[n].at > req'[r].now - TTL
    BY <1>0, <1>1, <1>2, <1>3, <1>a, <1>d DEF IInv, StampsAreTimed
  <2> QED
    BY <1>1, <2>1, <2>2, <2>3 DEF IInv, StampsAreTimed
<1>6. ValuesKnowTheirStamp'
  <2>1. ASSUME NEW k \in Key
        PROVE  ~ \E n \in 1 .. ver' : n > db'[k] /\ log'[n].key = k
    <3> SUFFICES ASSUME NEW n \in 1 .. ver', n > db'[k], log'[n].key = k
                 PROVE  FALSE
      OBVIOUS
    <3>1. CASE k = c
      <4>1. db'[k] = ver + 1
        BY <1>0, <3>1 DEF Commit, IInv, TypeOK
      <4> QED
        BY <1>0, <1>1, <4>1
    <3>2. CASE k # c
      <4>1. db'[k] = db[k]
        BY <3>2 DEF Commit, IInv, TypeOK
      <4>2. n \in 1 .. ver
        BY <1>3, <1>a, <3>2
      <4>3. n \in Replaced(k, db[k])
        BY <1>2, <4>1, <4>2 DEF Replaced
      <4> QED
        BY <4>3 DEF IInv, ValuesKnowTheirStamp
    <3> QED
      BY <3>1, <3>2
  <2>2. ASSUME NEW k \in Key, NEW v \in 0 .. ver, NEW s \in 0 .. ver, Newer(k, v, s)
        PROVE  \A n \in 1 .. ver' : n > v /\ log'[n].key = k => n > s
    BY <1>0, <1>2, <1>a, <2>2 DEF Newer, Replaced
  <2>3. \A p \in Process, k \in Key : entries'[p][k] # None =>
          \A n \in 1 .. ver' :
            n > entries'[p][k].value /\ log'[n].key = k => n > entries'[p][k].ver
    BY <1>1, <1>b, <2>2 DEF IInv, ValuesKnowTheirStamp
  <2>4. \A r \in Request : req'[r].pc # "idle" =>
          /\ req'[r].key \in Key
          /\ req'[r].hit # None => \A n \in 1 .. ver' :
               n > req'[r].hit.value /\ log'[n].key = req'[r].key => n > req'[r].hit.ver
    BY <1>1, <1>d, <2>2 DEF IInv, ValuesKnowTheirStamp
  <2>5. \A r \in Request : req'[r].pc = "loaded" => \A n \in 1 .. ver' :
          n > req'[r].value /\ log'[n].key = req'[r].key => n > req'[r].ver
    BY <1>1, <1>d, <2>2 DEF IInv, ValuesKnowTheirStamp
  <2> QED
    BY <2>1, <2>3, <2>4, <2>5 DEF ValuesKnowTheirStamp, Newer, Replaced
<1>7. EntriesExpire'
  <2>1. \A p \in Process, k \in Key : entries'[p][k] # None =>
          entries'[p][k].expires <= clock' + TTL
    BY <1>1 DEF IInv, EntriesExpire
  <2>2. \A p \in Process, k \in Key : entries'[p][k] # None =>
          \A n \in 1 .. ver' : n > entries'[p][k].value /\ log'[n].key = k =>
            entries'[p][k].expires < log'[n].at + 2 * TTL
    <3> SUFFICES ASSUME NEW p \in Process, NEW k \in Key, entries[p][k] # None,
                        NEW n \in 1 .. ver', n > entries[p][k].value, log'[n].key = k
                 PROVE  entries[p][k].expires < log'[n].at + 2 * TTL
      BY <1>1
    <3>1. CASE n \in 1 .. ver
      BY <1>2, <3>1 DEF IInv, EntriesExpire, Replaced
    <3>2. CASE n = ver + 1
      <4>1. entries[p][k].expires <= clock + TTL
        BY DEF IInv, EntriesExpire
      <4> QED
        BY <1>0, <1>3, <1>b, <3>2, <4>1
    <3> QED
      BY <1>a, <3>1, <3>2
  <2> QED
    BY <2>1, <2>2 DEF EntriesExpire, Replaced
<1> QED
  BY <1>4, <1>5, <1>6, <1>7 DEF IInv

LEMMA OtherSteps ==
  ASSUME IInv, Rollback \/ Tick \/ UNCHANGED vars
  PROVE  IInv'
<1> USE CacheAssumption
<1>1. UNCHANGED <<ver, db, log, entries, stamp, req>> /\ clock' \in 0 .. MaxTime
      /\ clock' >= clock /\ change' \in {change, None}
  BY DEF Rollback, Tick, vars, IInv, TypeOK
<1>2. TypeOK'
  <2>1. 0 .. clock \subseteq 0 .. clock'
    BY <1>1 DEF IInv, TypeOK
  <2>2. Call \subseteq Call' /\ Entry' = Entry
    BY <1>1, <2>1 DEF Call, Hit, Entry
  <2>3. req' \in [Request -> Call]'
    BY <1>1, <2>2 DEF IInv, TypeOK
  <2>4. log' \in [1 .. ver' -> [key : Key, at : 0 .. clock']]
    BY <1>1, <2>1 DEF IInv, TypeOK
  <2> QED
    BY <1>1, <2>2, <2>3, <2>4 DEF IInv, TypeOK
<1>3. StampsAreTimed'
  <2>1. \A p \in Process : stamp[p] # None => stamp[p].at <= clock'
    BY <1>1 DEF IInv, TypeOK, StampsAreTimed
  <2> QED
    BY <1>1, <2>1 DEF IInv, StampsAreTimed
<1>4. ValuesKnowTheirStamp'
  BY <1>1 DEF IInv, ValuesKnowTheirStamp, Newer, Replaced
<1>5. EntriesExpire'
  <2>1. \A p \in Process, k \in Key : entries[p][k] # None =>
          entries[p][k].expires <= clock' + TTL
    <3>1. \A p \in Process, k \in Key : entries[p][k] # None => entries[p][k].expires \in Nat
      BY DEF IInv, TypeOK, Entry
    <3> QED
      BY <1>1, <3>1 DEF IInv, TypeOK, EntriesExpire
  <2> QED
    BY <1>1, <2>1 DEF IInv, EntriesExpire, Replaced
<1> QED
  BY <1>2, <1>3, <1>4, <1>5 DEF IInv

-----------------------------------------------------------------------------

\* Every value, stamp and call keeps its type, and IInv holds throughout.
THEOREM CacheInvariant == Spec => []IInv
<1>1. Init => IInv
  BY InitHolds
<1>2. IInv /\ [Next]_vars => IInv'
  BY MissStep, AskStampStep, StoreStampStep, RenewStep, LoadStep, StoreStep,
     BumpStep, CommitStep, OtherSteps DEF Next, Step
<1> QED
  BY <1>1, <1>2, PTL DEF Spec

\* Whatever a process serves from its cache was current less than two TTLs ago,
\* for any interleaving of loads, renewals, changes and the clock.
THEOREM StalenessIsBounded == Spec => []StalenessBounded
<1>1. IInv => StalenessBounded
  <2> SUFFICES ASSUME IInv, NEW p \in Process, NEW k \in Key, Fresh(p, k),
                      NEW n \in Replaced(k, entries[p][k].value)
               PROVE  clock - log[n].at < 2 * TTL
    BY DEF StalenessBounded
  <2>1. entries[p][k] # None /\ clock < entries[p][k].expires
    BY DEF Fresh
  <2>2. entries[p][k].expires < log[n].at + 2 * TTL
    BY <2>1 DEF IInv, EntriesExpire
  <2>3. entries[p][k].expires \in Nat /\ clock \in Nat
    BY <2>1 DEF IInv, TypeOK, Entry
  <2>4. log[n].at \in Int
    BY DEF IInv, TypeOK, Replaced
  <2> QED
    BY <2>1, <2>2, <2>3, <2>4, CacheAssumption
<1> QED
  BY <1>1, CacheInvariant, PTL

\* An entry holds every change its stamp counts, so that renewing it against an
\* equal stamp loses nothing.
THEOREM EntriesKnowTheirStamp == Spec => []EntryKnowsItsStamp
<1>1. IInv => EntryKnowsItsStamp
  BY DEF IInv, ValuesKnowTheirStamp, EntryKnowsItsStamp, Newer
<1> QED
  BY <1>1, CacheInvariant, PTL

-----------------------------------------------------------------------------
(* The panel and the worker choose alike                                   *)

Settings == [chosen : K!Model \cup {NoModel}, preferOwn : BOOLEAN, image : BOOLEAN]

\* What is stored, or about to be, names a model of a provider there is.
AccessInv ==
  /\ owner \in BOOLEAN /\ site \in BOOLEAN
  /\ settings \in Settings
  /\ \A f \in form : f.row \in Settings

LEMMA AccessInit == K!Init => AccessInv
BY DEF K!Init, AccessInv, Settings, K!NoSettings, K!NoModel, NoModel

LEMMA AccessNext == AccessInv /\ [K!Next]_K!vars => AccessInv'
<1> SUFFICES ASSUME AccessInv, [K!Next]_K!vars PROVE AccessInv'
  OBVIOUS
<1>1. ASSUME UNCHANGED <<owner, site, settings, form>> PROVE AccessInv'
  BY <1>1 DEF AccessInv, Settings, K!Model, K!Provider, Default
<1>2. CASE K!ReadForText
  <2>1. PICK m \in K!Model \cup {K!NoModel}, prefer \in BOOLEAN :
          form' = form \cup {[of |-> "text",
                             row |-> [chosen |-> m, preferOwn |-> prefer, image |-> settings.image]]}
    BY <1>2 DEF K!ReadForText
  <2> QED BY <1>2, <2>1 DEF K!ReadForText, AccessInv, Settings, K!NoModel, NoModel
<1>3. CASE K!ReadForImage
  <2>1. PICK on \in BOOLEAN : form' = form \cup {[of |-> "image", row |-> [settings EXCEPT !.image = on]]}
    BY <1>3 DEF K!ReadForImage
  <2> QED BY <1>3, <2>1 DEF K!ReadForImage, AccessInv, Settings
<1>4. CASE K!Save
  BY <1>4 DEF K!Save, AccessInv
<1>5. CASE K!CreateCredential \/ K!DeleteCredential \/ K!PlatformKey \/ K!SetProfile \/ K!Sync
  BY <1>1, <1>5 DEF K!CreateCredential, K!DeleteCredential, K!PlatformKey, K!SetProfile, K!Sync
<1>6. CASE UNCHANGED K!vars
  BY <1>1, <1>6 DEF K!vars
<1> QED BY <1>2, <1>3, <1>4, <1>5, <1>6 DEF K!Next

\* Of some numbers one is the least.
LEMMA LeastOfNat ==
  ASSUME NEW S, S \subseteq Nat, S # {}
  PROVE  Min(S) \in S
<1>1. PICK m \in S : \A y \in S : ~ (<<y, m>> \in OpToRel(<, Nat))
  <2>1. IsWellFoundedOn(OpToRel(<, Nat), Nat)
    BY NatLessThanWellFounded
  <2> QED BY <2>1, WFMin
<1>2. \A y \in S : ~ (y < m)
  BY <1>1 DEF OpToRel
<1>3. m \in S /\ \A y \in S : m <= y
  BY <1>2
<1> QED BY <1>3 DEF Min

\* The preferred provider is one the workspace has a key of.
LEMMA PreferredIsOwn ==
  ASSUME K!AccessAssumption, FirstOwn # NoKey
  PROVE  FirstOwn \in own
<1> DEFINE mine == {i \in DOMAIN Order : Order[i] \in own}
<1>1. mine # {} /\ FirstOwn = Order[Min(mine)]
  BY DEF FirstOwn
<1>2. mine \subseteq Nat
  BY DEF K!AccessAssumption
<1>3. Min(mine) \in mine
  BY <1>1, <1>2, LeastOfNat
<1> QED BY <1>1, <1>3

\* A model that was chosen is of a provider, which is not what stands for none.
LEMMA ChosenHasProvider ==
  ASSUME K!AccessAssumption, AccessInv, settings.chosen # NoModel
  PROVE  settings.chosen[1] # NoKey
<1>1. settings.chosen \in K!Model
  BY DEF AccessInv, Settings
<1>2. settings.chosen[1] \in K!Provider
  BY <1>1 DEF K!Model, K!Default
<1> QED BY <1>2 DEF K!AccessAssumption, K!NoKey, NoKey

\* Each step gets what the panel judged.
LEMMA StepAgrees ==
  ASSUME NEW s \in Purpose, K!AccessAssumption, AccessInv, ~ KeyMissing(s), ~ Miscounted
  PROVE  Resolve(s) = Expected(s)
<1>1. Expected(s) # Failed /\ HasKey(Expected(s))
  BY DEF KeyMissing
<1>2. ASSUME Expected(s) = Mine(Chosen(s)), ByokProvider # NoKey
      PROVE  Byok(s) = Expected(s)
  <2>1. Chosen(s)[1] \in own
    BY <1>1, <1>2 DEF HasKey, Mine
  <2> QED BY <1>2, <2>1 DEF Byok, Chosen, ByokProvider, Mine
<1>3. CASE ForceByok
  <2>1. ByokProvider # NoKey /\ Expected(s) = Mine(Chosen(s))
    BY <1>1, <1>3 DEF Expected
  <2>2. Byok(s) = Expected(s)
    BY <1>2, <2>1
  <2>3. ~ (MayUsePlatform /\ ~ settings.preferOwn)
    BY <1>3 DEF ForceByok, MayUsePlatform
  <2> QED BY <1>1, <2>2, <2>3 DEF Resolve
<1>4. CASE ~ ForceByok /\ Expected(s) = System(profile[s]) /\ (profile[s][1] \in Available \/ ByokProvider = NoKey)
  <2>1. profile[s][1] \in Available
    BY <1>1, <1>4 DEF HasKey, System
  <2>2. profile[s][1] \in platform /\ owner /\ ~ settings.preferOwn
    BY <1>4, <2>1 DEF ForceByok, Available, Miscounted
  <2> QED BY <1>4, <2>2 DEF Resolve, MayUsePlatform
<1>5. CASE ~ ForceByok /\ Expected(s) = Mine(Chosen(s)) /\ profile[s][1] \notin Available /\ ByokProvider # NoKey
  <2>1. Byok(s) = Expected(s)
    BY <1>2, <1>5
  <2>2. profile[s][1] \notin platform
    BY <1>5 DEF ForceByok, Available
  <2> QED BY <1>1, <2>1, <2>2 DEF Resolve
<1> QED BY <1>3, <1>4, <1>5 DEF Expected

\* A client with a key that works is not kept out.
LEMMA KeysSuffice ==
  ASSUME NEW s \in Purpose, K!AccessAssumption, AccessInv, ~ owner, Resolve(s) # Failed
  PROVE  ~ KeyMissing(s)
<1>1. Byok(s) # Failed /\ ForceByok
  BY DEF Resolve, MayUsePlatform, ForceByok
<1>2. Chosen(s)[1] \in own /\ ByokProvider # NoKey
  <2>1. CASE settings.chosen # NoModel
    BY <1>1, <2>1, ChosenHasProvider DEF Byok, Chosen, ByokProvider
  <2>2. CASE settings.chosen = NoModel
    BY <1>1, <2>2, PreferredIsOwn DEF Byok, Chosen, ByokProvider, Default
  <2> QED BY <2>1, <2>2
<1>3. Expected(s) = Mine(Chosen(s))
  BY <1>1, <1>2 DEF Expected
<1> QED BY <1>2, <1>3 DEF KeyMissing, HasKey, Mine, Failed, NoKey

\* For any providers, steps and models, whatever keys, settings, profile and
\* catalogue become: what getWorkspaceReadiness lets run is what
\* resolveLlmCredential resolves, and no client who could run is kept out.
THEOREM PanelKnowsWorkerHolds == K!AccessAssumption => (K!Spec => []PanelKnowsWorker)
<1> SUFFICES ASSUME K!AccessAssumption PROVE K!Spec => []PanelKnowsWorker
  OBVIOUS
<1>1. AccessInv => PanelKnowsWorker
  <2> SUFFICES ASSUME AccessInv PROVE PanelKnowsWorker
    OBVIOUS
  <2>1. ASSUME Ready, ~ Miscounted
        PROVE  /\ SearchKey
               /\ \A s \in Purpose : Resolve(s) = Expected(s)
               /\ LET m == Resolve("illustrate").model IN Covered(m[1]) => TakesImages(m)
    <3>1. SearchKey
      BY <2>1 DEF Ready, SearchKey, Available, MayUsePlatform
    <3>2. \A s \in Purpose : Resolve(s) = Expected(s)
      BY <2>1, StepAgrees DEF Ready
    <3>3. "illustrate" \in Purpose
      BY DEF K!AccessAssumption
    <3>4. Covered(Resolve("illustrate").model[1]) => TakesImages(Resolve("illustrate").model)
      BY <2>1, <3>2, <3>3 DEF Ready, KeyMissing, ModelRefused
    <3> QED BY <3>1, <3>2, <3>4
  <2>2. NoImageGenerator <=> ~ ImageKey
    BY DEF NoImageGenerator, ImageKey, Available, MayUsePlatform, AccessInv, Settings
  <2>3. ASSUME ~ owner, site, SearchKey, \A s \in Purpose : Resolve(s) # Failed /\ ~ ModelRefused(s)
        PROVE  Ready
    <3>1. "tavily" \in Available
      BY <2>3 DEF SearchKey, Available, MayUsePlatform
    <3> QED BY <2>3, <3>1, KeysSuffice DEF Ready
  <2> QED BY <2>1, <2>2, <2>3 DEF PanelKnowsWorker
<1> QED BY <1>1, AccessInit, AccessNext, PTL DEF K!Spec

-----------------------------------------------------------------------------
(* A template is what it was saved as                                      *)

Switch == {Unset, "on", "off"}
Prompts == {NoRow, "partial", "full"}
Config == [structured : BOOLEAN, review : Switch, images : Switch, prompts : [Locale -> Prompts],
           language : Locale]
Slug == Seq(Id \cup Nat)

TemplateTypes ==
  /\ rows \in [Id -> [here : BOOLEAN, slug : Slug, config : Config]]
  /\ inUse \subseteq Id /\ cfg \in Config /\ saved \in BOOLEAN
  /\ draft \in [step : {NoRow, "good", "bad", "stuck"}, config : Config]
  /\ locale \in Locale
  /\ saving \in [step : {"idle", "asked", "saved", "refused"}, config : Config, mine : BOOLEAN]
  /\ cloning \in [from : Id \cup {NoRow}, slug : Slug, config : Config]
  /\ deleting \in Id \cup {NoRow}

\* What was saved and not gone over since is in the row.
SavedIsStored ==
  /\ saved \/ saving.mine => Own \in Here
  /\ saving.mine => /\ saving.step = "saved" /\ T!Valid(saving.config)
                    /\ rows[Own].config = Parsed(saving.config)
  /\ saved => Shown(cfg) = Done(rows[Own].config)
  /\ saved /\ saving.step = "asked" => saving.config = cfg

\* A slug made from that of a builtin is longer than it.
SlugsAreApart ==
  /\ \A i, j \in Here : i # j => rows[i].slug # rows[j].slug
  /\ rows[Builtin].slug = <<Builtin>>
  /\ \A i \in Id : rows[i].slug # <<>>
  /\ cloning # T!NoClone => Len(cloning.slug) > 1

TemplateInv ==
  /\ TemplateTypes /\ SavedIsStored /\ SlugsAreApart
  /\ inUse \subseteq Here /\ Builtin \in Here
  /\ cloning # T!NoClone => Copy \notin Here
  /\ \E l \in Locale : rows[Builtin].config = Begin(l)

LEMMA BeginIsConfig == \A l \in Locale : Begin(l) \in Config
BY DEF Begin, Config, Switch, Prompts, Unset, NoRow

\* The instance reads the configs as the editor and the worker do.
LEMMA ConfigsAgree ==
  /\ T!Id = Id /\ T!Here = Here /\ T!NoRow = NoRow
  /\ \A c : T!Parsed(c) = Parsed(c)
  /\ \A l : T!Begin(l) = Begin(l)
BY DEF T!Id, Id, T!Here, Here, T!NoRow, NoRow, T!Parsed, Parsed, T!Unset, Unset, T!Begin, Begin

LEMMA NoneIsTyped ==
  ASSUME T!TemplatesAssumption
  PROVE  /\ T!NoSaving \in [step : {"idle", "asked", "saved", "refused"}, config : Config, mine : BOOLEAN]
         /\ T!NoDraft \in [step : {NoRow, "good", "bad", "stuck"}, config : Config]
         /\ T!NoClone \in [from : Id \cup {NoRow}, slug : Slug, config : Config]
         /\ T!NoSaving.mine = FALSE /\ T!NoSaving.step = "idle" /\ T!NoClone.from = NoRow
<1> DEFINE l == CHOOSE m \in Locale : TRUE
<1>1. l \in Locale
  BY DEF T!TemplatesAssumption
<1>2. Begin(l) \in Config /\ T!Begin(l) = Begin(l)
  BY <1>1, BeginIsConfig, ConfigsAgree
<1> HIDE DEF l
<1>3. <<>> \in Slug
  BY DEF Slug
<1>4. /\ T!NoSaving = [step |-> "idle", config |-> T!Begin(l), mine |-> FALSE]
      /\ T!NoDraft = [step |-> NoRow, config |-> T!Begin(l)]
      /\ T!NoClone = [from |-> NoRow, slug |-> <<>>, config |-> T!Begin(l)]
  BY ConfigsAgree DEF T!NoSaving, T!NoDraft, T!NoClone, l
<1> QED BY <1>2, <1>3, <1>4

\* What is valid is shown as it is done.
LEMMA ValidIsDone ==
  ASSUME NEW c \in Config, T!Valid(c)
  PROVE  Shown(c) = Done(Parsed(c)) /\ Parsed(c) \in Config
<1>1. /\ Parsed(c) = [c EXCEPT !.images = IF c.images = Unset THEN "off" ELSE c.images]
      /\ Parsed(c) \in Config
  BY DEF Parsed, Config, Switch, Unset
<1>2. Parsed(Parsed(c)) = Parsed(c)
  BY <1>1 DEF Parsed, Config, Switch, Unset
<1>3. \A l \in Locale : c.prompts[l] # NoRow <=> Parsed(c).prompts[l] = "full"
  BY <1>1 DEF Config, Prompts, T!Valid, NoRow
<1>4. (c.images = "on") = (Parsed(c).images = "on")
  BY <1>1 DEF Config, Switch, Unset
<1>5. Parsed(c).review = c.review /\ Parsed(c).structured = c.structured
  BY <1>1 DEF Config
<1>6. {l \in Locale : c.prompts[l] # NoRow} = {l \in Locale : Parsed(c).prompts[l] = "full"}
  BY <1>3
<1> QED BY <1>1, <1>2, <1>4, <1>5, <1>6 DEF Shown, Done

LEMMA TemplateInit == T!TemplatesAssumption /\ T!Init => TemplateInv
<1> SUFFICES ASSUME T!TemplatesAssumption, T!Init PROVE TemplateInv
  OBVIOUS
<1>1. PICK l \in Locale :
        /\ rows = [i \in Id |-> [here |-> i # Copy, slug |-> <<i>>, config |-> Begin(l)]]
        /\ cfg = Begin(l) /\ locale = l
  BY ConfigsAgree DEF T!Init
<1>2. /\ inUse = {Builtin} /\ draft = T!NoDraft /\ saving = T!NoSaving /\ cloning = T!NoClone
      /\ deleting = NoRow /\ saved = TRUE
  BY ConfigsAgree DEF T!Init
<1>3. \A i \in Id : <<i>> \in Slug /\ <<i>> # <<>>
  BY DEF Slug
<1>4. Begin(l) \in Config
  BY <1>1, BeginIsConfig
<1>5. \A i \in Id : rows[i].here = (i # Copy) /\ rows[i].slug = <<i>> /\ rows[i].config = Begin(l)
  BY <1>1
<1>6. TemplateTypes
  BY <1>1, <1>2, <1>3, <1>4, NoneIsTyped DEF TemplateTypes, Id
<1>7. Here = {Builtin, Own} /\ Builtin \in Id /\ Own \in Id
  <2>1. Builtin \in Id /\ Own \in Id /\ Copy \in Id /\ Id = {Builtin, Own, Copy}
    BY DEF Id
  <2>2. rows[Builtin].here = (Builtin # Copy) /\ rows[Own].here = (Own # Copy) /\ rows[Copy].here = (Copy # Copy)
    BY <1>5, <2>1
  <2>3. rows[Builtin].here /\ rows[Own].here /\ ~ rows[Copy].here
    BY <2>2 DEF T!TemplatesAssumption
  <2> QED BY <2>1, <2>3 DEF Here
<1>8. SlugsAreApart
  <2>1. \A i, j \in Here : i # j => <<i>> # <<j>>
    OBVIOUS
  <2>2. \A i \in Here : i \in Id /\ rows[i].slug = <<i>>
    BY <1>5, <1>7
  <2>3. \A i, j \in Here : i # j => rows[i].slug # rows[j].slug
    BY <2>1, <2>2
  <2> QED BY <1>2, <1>3, <1>5, <1>7, <2>3 DEF SlugsAreApart
<1>9. SavedIsStored
  <2>1. T!Valid(Begin(l))
    BY DEF T!Valid, Begin, NoRow
  <2>2. Parsed(Begin(l)) = Begin(l)
    BY DEF Parsed, Begin, Unset
  <2>3. Shown(cfg) = Done(rows[Own].config)
    BY <1>1, <1>4, <1>5, <1>7, <2>1, <2>2, ValidIsDone
  <2>4. saving.mine = FALSE /\ saving.step = "idle"
    BY <1>2, NoneIsTyped
  <2> QED BY <1>7, <2>3, <2>4 DEF SavedIsStored
<1> QED BY <1>2, <1>5, <1>6, <1>7, <1>8, <1>9 DEF TemplateInv, T!TemplatesAssumption

-----------------------------------------------------------------------------
(* The editor                                                              *)

\* No action of the editor touches the rows; whoever changes the config is no
\* longer shown what is saved.
LEMMA EditorKeeps ==
  ASSUME TemplateInv, UNCHANGED <<rows, inUse, saving, cloning, deleting>>,
         cfg' \in Config, locale' \in Locale, saved' \in BOOLEAN,
         draft' \in [step : {NoRow, "good", "bad", "stuck"}, config : Config],
         saved' => saved /\ cfg' = cfg
  PROVE  TemplateInv'
<1>1. Here' = Here
  BY DEF Here
<1>2. TemplateTypes'
  BY DEF TemplateInv, TemplateTypes
<1>3. SavedIsStored'
  BY <1>1 DEF TemplateInv, SavedIsStored
<1>4. SlugsAreApart'
  BY <1>1 DEF TemplateInv, SlugsAreApart
<1> QED BY <1>1, <1>2, <1>3, <1>4 DEF TemplateInv

LEMMA EditKeeps ==
  ASSUME TemplateInv, NEW c \in Config, T!Edit(c), locale' \in Locale,
         draft' = draft \/ draft' = [step |-> "good", config |-> c]
  PROVE  TemplateInv'
<1>1. cfg' = c /\ saved' = FALSE /\ UNCHANGED <<rows, inUse, saving, cloning, deleting>>
  BY DEF T!Edit, T!requests
<1>2. draft' \in [step : {NoRow, "good", "bad", "stuck"}, config : Config]
  BY DEF TemplateInv, TemplateTypes
<1> QED BY <1>1, <1>2, EditorKeeps

LEMMA SomePrompts ==
  ASSUME TemplateInv PROVE T!Some(cfg) \in Prompts
<1>1. CASE cfg.prompts[locale] # T!NoRow
  BY <1>1 DEF TemplateInv, TemplateTypes, Config, T!Some
<1>2. CASE cfg.prompts[locale] = T!NoRow
  <2> DEFINE have == {l \in Locale : cfg.prompts[l] # T!NoRow}
  <2>1. CASE have = {}
    BY <1>2, <2>1 DEF T!Some, Prompts
  <2>2. CASE have # {}
    <3>1. (CHOOSE l \in have : TRUE) \in have
      BY <2>2
    <3>2. T!Some(cfg) = cfg.prompts[CHOOSE l \in have : TRUE]
      BY <1>2, <2>2 DEF T!Some
    <3> QED BY <3>1, <3>2 DEF TemplateInv, TemplateTypes, Config
  <2> QED BY <2>1, <2>2
<1> QED BY <1>1, <1>2

LEMMA FieldsKeep ==
  ASSUME TemplateInv, T!SetReview \/ T!SetImages \/ T!SetLanguage \/ T!SetPrompt
  PROVE  TemplateInv'
<1> USE DEF Config, Switch, Prompts, Unset, NoRow
<1>1. cfg \in Config /\ locale \in Locale
  BY DEF TemplateInv, TemplateTypes
<1>2. \E c \in Config : T!Edit(c) /\ draft' = draft /\ locale' = locale
  <2>1. CASE T!SetReview
    <3>1. PICK v \in {"on", "off"} : T!Edit([cfg EXCEPT !.review = v])
      BY <2>1 DEF T!SetReview
    <3>2. [cfg EXCEPT !.review = v] \in Config
      BY <1>1
    <3> QED BY <2>1, <3>1, <3>2 DEF T!SetReview
  <2>2. CASE T!SetImages
    <3>1. PICK v \in {"on", "off"} : T!Edit([cfg EXCEPT !.images = v])
      BY <2>2 DEF T!SetImages
    <3>2. [cfg EXCEPT !.images = v] \in Config
      BY <1>1
    <3> QED BY <2>2, <3>1, <3>2 DEF T!SetImages
  <2>3. CASE T!SetLanguage
    <3>1. PICK l \in Locale : T!Edit([cfg EXCEPT !.language = l])
      BY <2>3 DEF T!SetLanguage
    <3>2. [cfg EXCEPT !.language = l] \in Config
      BY <1>1
    <3> QED BY <2>3, <3>1, <3>2 DEF T!SetLanguage
  <2>4. CASE T!SetPrompt
    <3>1. PICK p \in {"partial", "full"} : T!Edit([cfg EXCEPT !.prompts[locale] = p])
      BY <2>4 DEF T!SetPrompt
    <3>2. [cfg EXCEPT !.prompts[locale] = p] \in Config
      BY <1>1
    <3> QED BY <2>4, <3>1, <3>2 DEF T!SetPrompt
  <2> QED BY <2>1, <2>2, <2>3, <2>4
<1> QED BY <1>1, <1>2, EditKeeps

LEMMA LocalesKeep ==
  ASSUME TemplateInv,
         T!RemoveLocale \/ \E l \in Locale : T!ChooseLocale(l) \/ T!AddLocale(l)
  PROVE  TemplateInv'
<1>1. cfg \in Config /\ locale \in Locale /\ saved \in BOOLEAN
      /\ draft \in [step : {NoRow, "good", "bad", "stuck"}, config : Config]
  BY DEF TemplateInv, TemplateTypes
<1>2. CASE T!RemoveLocale
  <2>1. [cfg EXCEPT !.prompts[locale] = T!NoRow] \in Config
    BY <1>1 DEF Config, Prompts, T!NoRow, NoRow
  <2> QED BY <1>2, <2>1, EditKeeps DEF T!RemoveLocale
<1>3. ASSUME NEW l \in Locale, T!ChooseLocale(l) PROVE TemplateInv'
  BY <1>1, <1>3, EditorKeeps DEF T!ChooseLocale, T!requests
<1>4. ASSUME NEW l \in Locale, T!AddLocale(l) PROVE TemplateInv'
  <2>1. [cfg EXCEPT !.prompts[l] = T!Some(cfg)] \in Config
    BY <1>1, SomePrompts DEF Config
  <2> QED BY <1>4, <2>1, EditKeeps DEF T!AddLocale
<1> QED BY <1>2, <1>3, <1>4

LEMMA JsonKeeps ==
  ASSUME TemplateInv, T!TypeJson \/ T!TypeBadJson
  PROVE  TemplateInv'
<1>1. cfg \in Config /\ locale \in Locale /\ saved \in BOOLEAN
      /\ draft \in [step : {NoRow, "good", "bad", "stuck"}, config : Config]
  BY DEF TemplateInv, TemplateTypes
<1>2. T!Json \in Config
  BY <1>1 DEF T!Json
<1> HIDE DEF T!Json
<1>3. CASE T!TypeJson
  <2>1. PICK c \in {[T!Json EXCEPT !.structured = ~ @], [T!Json EXCEPT !.review = T!Unset],
                    [T!Json EXCEPT !.images = T!Unset]} :
          T!Edit(c) /\ draft' = [step |-> "good", config |-> c]
    BY <1>3 DEF T!TypeJson
  <2>2. c \in Config
    BY <1>2, <2>1 DEF Config, Switch, Unset, T!Unset
  <2> QED BY <1>1, <1>3, <2>1, <2>2, EditKeeps DEF T!TypeJson
<1>4. CASE T!TypeBadJson
  BY <1>1, <1>2, <1>4, EditorKeeps DEF T!TypeBadJson, T!requests
<1> QED BY <1>3, <1>4
-----------------------------------------------------------------------------
(* Its rows                                                                *)

\* The rows stay, and who is being cloned or deleted may change.
LEMMA SameRowsKeep ==
  ASSUME TemplateInv, UNCHANGED <<rows, inUse, cfg, locale>>, TemplateTypes',
         SavedIsStored', SlugsAreApart', cloning' # T!NoClone => Copy \notin Here
  PROVE  TemplateInv'
<1>1. Here' = Here
  BY DEF Here
<1> QED BY <1>1 DEF TemplateInv

LEMMA SaveKeeps ==
  ASSUME TemplateInv, T!TemplatesAssumption, T!Save
  PROVE  TemplateInv'
<1>1. /\ saving' = [step |-> "asked", config |-> cfg, mine |-> FALSE]
      /\ UNCHANGED <<rows, inUse, cfg, draft, locale, saved, cloning, deleting>>
  BY DEF T!Save, T!editor
<1>2. TemplateTypes'
  BY <1>1 DEF TemplateInv, TemplateTypes
<1>3. saving'.mine = FALSE /\ saving'.config = cfg /\ Here' = Here
  BY <1>1 DEF Here
<1>4. SavedIsStored'
  BY <1>1, <1>3 DEF TemplateInv, SavedIsStored
<1>5. SlugsAreApart'
  BY <1>1, <1>3 DEF TemplateInv, SlugsAreApart
<1> QED BY <1>1, <1>2, <1>4, <1>5, SameRowsKeep DEF TemplateInv

LEMMA AnsweredKeeps ==
  ASSUME TemplateInv, T!TemplatesAssumption, T!Answered
  PROVE  TemplateInv'
<1>1. /\ saving' = T!NoSaving
      /\ UNCHANGED <<rows, inUse, cfg, locale, cloning, deleting>>
  BY DEF T!Answered
<1>2. /\ saving'.mine = FALSE /\ saving'.step = "idle"
      /\ saving' \in [step : {"idle", "asked", "saved", "refused"}, config : Config, mine : BOOLEAN]
  BY <1>1, NoneIsTyped
<1>3. draft' \in [step : {NoRow, "good", "bad", "stuck"}, config : Config]
  <2>1. draft' = draft \/ draft' = T!NoDraft \/ draft' = [T!NoDraft EXCEPT !.step = "stuck"]
    BY DEF T!Answered
  <2> QED BY <2>1, NoneIsTyped DEF TemplateInv, TemplateTypes
<1>4. saved' = saved \/ saved' = (saving.mine /\ cfg = saving.config)
  BY DEF T!Answered
<1>5. saved' \in BOOLEAN
  BY <1>4 DEF TemplateInv, TemplateTypes
<1>6. saved' => saved \/ (saving.mine /\ cfg = saving.config)
  BY <1>4
<1>7. TemplateTypes'
  BY <1>1, <1>2, <1>3, <1>5 DEF TemplateInv, TemplateTypes
<1>8. Here' = Here
  BY <1>1 DEF Here
<1>9. saved' => Own \in Here /\ Shown(cfg) = Done(rows[Own].config)
  <2>1. CASE saved
    BY <2>1 DEF TemplateInv, SavedIsStored
  <2>2. CASE saving.mine /\ cfg = saving.config
    <3>1. cfg \in Config
      BY DEF TemplateInv, TemplateTypes
    <3> QED BY <2>2, <3>1, ValidIsDone DEF TemplateInv, SavedIsStored
  <2> QED BY <1>6, <2>1, <2>2
<1>10. SavedIsStored'
  BY <1>1, <1>2, <1>8, <1>9 DEF SavedIsStored
<1>11. SlugsAreApart'
  BY <1>1, <1>8 DEF TemplateInv, SlugsAreApart
<1> QED BY <1>1, <1>7, <1>10, <1>11, SameRowsKeep DEF TemplateInv

LEMMA RequestsKeep ==
  ASSUME TemplateInv, T!TemplatesAssumption, NEW i \in Id, T!AskClone(i) \/ T!AskDelete(i)
  PROVE  TemplateInv'
<1>1. /\ UNCHANGED <<rows, inUse, cfg, draft, locale, saved, saving>>
      /\ i \in Here /\ rows[i] \in [here : BOOLEAN, slug : Slug, config : Config]
  BY ConfigsAgree DEF T!AskClone, T!AskDelete, T!editor, TemplateInv, TemplateTypes
<1>2. Here' = Here
  BY <1>1 DEF Here
<1>3. SavedIsStored'
  BY <1>1, <1>2 DEF TemplateInv, SavedIsStored
<1>4. CASE T!AskDelete(i)
  <2>1. deleting' = i /\ cloning' = cloning
    BY <1>4 DEF T!AskDelete
  <2>2. TemplateTypes'
    BY <1>1, <2>1 DEF TemplateInv, TemplateTypes
  <2>3. SlugsAreApart'
    BY <1>1, <1>2, <2>1 DEF TemplateInv, SlugsAreApart
  <2> QED BY <1>1, <1>3, <2>1, <2>2, <2>3, SameRowsKeep DEF TemplateInv
<1>5. CASE T!AskClone(i)
  <2>1. Copy \notin Here /\ deleting' = deleting
    BY <1>5, ConfigsAgree DEF T!AskClone
  <2>2. PICK n \in 1 .. 2 :
          cloning' = [from |-> i, config |-> rows[i].config, slug |-> Append(rows[i].slug, n)]
    <3> DEFINE k == IF Append(rows[i].slug, 1) \notin {rows[j].slug : j \in T!Here} THEN 1 ELSE 2
    <3>1. k \in 1 .. 2
      OBVIOUS
    <3>2. cloning' = [from |-> i, config |-> rows[i].config, slug |-> Append(rows[i].slug, k)]
      BY <1>5 DEF T!AskClone
    <3> QED BY <3>1, <3>2
  <2>3. rows[i].slug \in Seq(Id \cup Nat) /\ rows[i].slug # <<>> /\ n \in Id \cup Nat
    BY <1>1 DEF Slug, TemplateInv, SlugsAreApart
  <2>4. Append(rows[i].slug, n) \in Slug /\ Len(Append(rows[i].slug, n)) > 1
    BY <2>3 DEF Slug
  <2>5. TemplateTypes'
    BY <1>1, <2>1, <2>2, <2>4 DEF TemplateInv, TemplateTypes
  <2>6. SlugsAreApart'
    BY <1>1, <1>2, <2>2, <2>4 DEF TemplateInv, SlugsAreApart
  <2> QED BY <1>1, <1>3, <2>1, <2>5, <2>6, SameRowsKeep
<1> QED BY <1>4, <1>5

LEMMA UseKeeps ==
  ASSUME TemplateInv, NEW i \in Id, T!Use(i)
  PROVE  TemplateInv'
<1>1. /\ i \in Here /\ inUse' = inUse \cup {i}
      /\ UNCHANGED <<rows, cfg, draft, locale, saved, saving, cloning, deleting>>
  BY ConfigsAgree DEF T!Use, T!editor, T!requests
<1>2. Here' = Here
  BY <1>1 DEF Here
<1> QED BY <1>1, <1>2 DEF TemplateInv, TemplateTypes, SavedIsStored, SlugsAreApart

\* A row of which only the config changes.
LEMMA RewriteKeeps ==
  ASSUME TemplateInv, T!TemplatesAssumption, NEW c \in Config, rows' = [rows EXCEPT ![Own].config = c],
         UNCHANGED <<inUse, cfg, draft, locale, cloning, deleting>>,
         saving' \in [step : {"idle", "asked", "saved", "refused"}, config : Config, mine : BOOLEAN],
         saved' \in BOOLEAN, saved' => Own \in Here /\ Shown(cfg) = Done(c) /\ saving'.step # "asked",
         saving'.mine => /\ Own \in Here /\ saving'.step = "saved" /\ T!Valid(saving'.config)
                         /\ c = Parsed(saving'.config)
  PROVE  TemplateInv'
<1>1. Own \in Id /\ Builtin \in Id /\ Builtin # Own
  BY DEF Id, T!TemplatesAssumption
<1>2. /\ \A i \in Id : rows'[i].here = rows[i].here /\ rows'[i].slug = rows[i].slug
      /\ rows'[Own].config = c /\ rows'[Builtin] = rows[Builtin]
      /\ rows' \in [Id -> [here : BOOLEAN, slug : Slug, config : Config]]
  BY <1>1 DEF TemplateInv, TemplateTypes
<1>3. Here' = Here /\ Here \subseteq Id
  BY <1>2 DEF Here
<1>4. TemplateTypes'
  BY <1>2 DEF TemplateInv, TemplateTypes
<1>5. SavedIsStored'
  BY <1>2, <1>3 DEF SavedIsStored
<1>6. SlugsAreApart'
  BY <1>1, <1>2, <1>3 DEF TemplateInv, SlugsAreApart
<1> QED BY <1>2, <1>3, <1>4, <1>5, <1>6 DEF TemplateInv

LEMMA UpdateKeeps ==
  ASSUME TemplateInv, T!TemplatesAssumption, T!Update
  PROVE  TemplateInv'
<1>1. /\ saving.step = "asked" /\ UNCHANGED <<inUse, cfg, draft, locale, saved, cloning, deleting>>
      /\ saving \in [step : {"idle", "asked", "saved", "refused"}, config : Config, mine : BOOLEAN]
      /\ saved \in BOOLEAN
  BY DEF T!Update, T!editor, TemplateInv, TemplateTypes
<1>2. CASE Own \in Here /\ T!Valid(saving.config)
  <2> DEFINE c == Parsed(saving.config)
  <2>1. c \in Config
    BY <1>1, <1>2, ValidIsDone
  <2>2. /\ rows' = [rows EXCEPT ![Own].config = c]
        /\ saving' = [saving EXCEPT !.step = "saved", !.mine = TRUE]
    BY <1>2, ConfigsAgree DEF T!Update
  <2>3. /\ saving' \in [step : {"idle", "asked", "saved", "refused"}, config : Config, mine : BOOLEAN]
        /\ saving'.step = "saved" /\ saving'.config = saving.config
    BY <1>1, <2>2
  <2>4. saved => Shown(cfg) = Done(c)
    <3>1. saved => cfg = saving.config
      BY <1>1 DEF TemplateInv, SavedIsStored
    <3> QED BY <1>1, <1>2, <3>1, ValidIsDone
  <2> QED BY <1>1, <1>2, <2>1, <2>2, <2>3, <2>4, RewriteKeeps
<1>3. CASE ~ (Own \in Here /\ T!Valid(saving.config))
  <2>1. saving' = [saving EXCEPT !.step = "refused"] /\ rows' = rows
    BY <1>3, ConfigsAgree DEF T!Update
  <2>2. /\ saving' \in [step : {"idle", "asked", "saved", "refused"}, config : Config, mine : BOOLEAN]
        /\ saving'.step = "refused" /\ saving'.config = saving.config /\ saving'.mine = saving.mine
    BY <1>1, <2>1
  <2>3. ~ saving.mine
    BY <1>1 DEF TemplateInv, SavedIsStored
  <2>4. Here' = Here
    BY <2>1 DEF Here
  <2>5. TemplateTypes'
    BY <1>1, <2>1, <2>2 DEF TemplateInv, TemplateTypes
  <2>6. SavedIsStored'
    BY <1>1, <2>1, <2>2, <2>3, <2>4 DEF TemplateInv, SavedIsStored
  <2>7. SlugsAreApart'
    BY <1>1, <2>1, <2>4 DEF TemplateInv, SlugsAreApart
  <2> QED BY <1>1, <2>1, <2>5, <2>6, <2>7, SameRowsKeep DEF TemplateInv
<1> QED BY <1>2, <1>3

LEMMA OtherSaveKeeps ==
  ASSUME TemplateInv, T!TemplatesAssumption, T!OtherSave
  PROVE  TemplateInv'
<1> DEFINE review == IF rows[Own].config.review = "on" THEN "off" ELSE "on"
           c == [rows[Own].config EXCEPT !.review = review]
<1>1. /\ rows' = [rows EXCEPT ![Own].config.review = review]
      /\ saving' = [saving EXCEPT !.mine = FALSE] /\ saved' = FALSE
      /\ UNCHANGED <<inUse, cfg, draft, locale, cloning, deleting>>
  BY DEF T!OtherSave
<1>2. Own \in Id
  BY DEF Id
<1>3. rows[Own].config \in Config
  BY <1>2 DEF TemplateInv, TemplateTypes
<1>4. c \in Config
  BY <1>3 DEF Config, Switch
<1>5. rows' = [rows EXCEPT ![Own].config = c]
  BY <1>1
<1>6. saving \in [step : {"idle", "asked", "saved", "refused"}, config : Config, mine : BOOLEAN]
  BY DEF TemplateInv, TemplateTypes
<1>7. /\ saving' \in [step : {"idle", "asked", "saved", "refused"}, config : Config, mine : BOOLEAN]
      /\ saving'.mine = FALSE
  BY <1>1, <1>6
<1> HIDE DEF c, review
<1> QED BY <1>1, <1>4, <1>5, <1>7, RewriteKeeps

-----------------------------------------------------------------------------
(* Rows that come and go                                                   *)

\* A free row gets a slug no other has.
LEMMA CopyKeeps ==
  ASSUME TemplateInv, T!TemplatesAssumption, NEW i \in {Own, Copy}, i \notin Here,
         cloning # T!NoClone, \A j \in Here : rows[j].slug # cloning.slug,
         rows' = [rows EXCEPT ![i] = T!Row(cloning)],
         UNCHANGED <<inUse, cfg, draft, locale, saving, deleting, saved>>,
         cloning' = T!NoClone \/ (cloning' = cloning /\ i = Own)
  PROVE  TemplateInv'
<1>1. /\ i \in Id /\ Own \in Id /\ Builtin \in Id /\ Copy \in Id /\ i # Builtin /\ Copy # Own
      /\ cloning \in [from : Id \cup {NoRow}, slug : Slug, config : Config] /\ Len(cloning.slug) > 1
  BY DEF Id, T!TemplatesAssumption, TemplateInv, TemplateTypes, SlugsAreApart
<1>2. T!Row(cloning) = [here |-> TRUE, slug |-> cloning.slug, config |-> cloning.config]
  BY DEF T!Row
<1>3. /\ rows' \in [Id -> [here : BOOLEAN, slug : Slug, config : Config]]
      /\ rows'[i] = T!Row(cloning) /\ \A j \in Id \ {i} : rows'[j] = rows[j]
  BY <1>1, <1>2 DEF TemplateInv, TemplateTypes
<1>4. rows'[i].here /\ rows'[i].slug = cloning.slug
  BY <1>2, <1>3
<1>5. Here' = Here \cup {i} /\ Here \subseteq Id
  BY <1>1, <1>3, <1>4 DEF Here
<1>6. cloning' \in [from : Id \cup {NoRow}, slug : Slug, config : Config]
  BY <1>1, NoneIsTyped
<1>7. TemplateTypes'
  BY <1>3, <1>6 DEF TemplateInv, TemplateTypes
<1>8. SavedIsStored'
  <2>1. CASE i = Own
    BY <2>1 DEF TemplateInv, SavedIsStored
  <2>2. CASE i # Own
    <3>1. rows'[Own] = rows[Own]
      BY <1>1, <1>3, <2>2
    <3> QED BY <1>5, <3>1 DEF TemplateInv, SavedIsStored
  <2> QED BY <2>1, <2>2
<1>9. SlugsAreApart'
  <2>1. \A x, y \in Here' : x # y => rows'[x].slug # rows'[y].slug
    <3> SUFFICES ASSUME NEW x \in Here', NEW y \in Here', x # y PROVE rows'[x].slug # rows'[y].slug
      OBVIOUS
    <3>1. CASE x = i
      BY <1>3, <1>4, <1>5, <3>1
    <3>2. CASE y = i
      BY <1>3, <1>4, <1>5, <3>2
    <3>3. CASE x # i /\ y # i
      BY <1>3, <1>5, <3>3 DEF TemplateInv, SlugsAreApart
    <3> QED BY <3>1, <3>2, <3>3
  <2>2. rows'[Builtin] = rows[Builtin]
    BY <1>1, <1>3
  <2>3. cloning.slug # <<>>
    BY <1>1 DEF Slug
  <2>4. \A j \in Id : rows'[j].slug # <<>>
    BY <1>3, <1>4, <2>3 DEF TemplateInv, SlugsAreApart
  <2> QED BY <1>1, <2>1, <2>2, <2>4 DEF TemplateInv, SlugsAreApart
<1>10. rows'[Builtin] = rows[Builtin]
  BY <1>1, <1>3
<1>11. cloning' # T!NoClone => Copy \notin Here'
  BY <1>1, <1>5 DEF TemplateInv
<1> QED BY <1>5, <1>7, <1>8, <1>9, <1>10, <1>11 DEF TemplateInv

LEMMA CloneKeeps ==
  ASSUME TemplateInv, T!TemplatesAssumption, T!Clone
  PROVE  TemplateInv'
<1>1. /\ cloning # T!NoClone /\ cloning' = T!NoClone
      /\ UNCHANGED <<inUse, cfg, draft, locale, saved, saving, deleting>>
  BY DEF T!Clone, T!editor
<1>2. CASE \E i \in Here : rows[i].slug = cloning.slug
  <2>1. rows' = rows
    BY <1>2, ConfigsAgree DEF T!Clone
  <2>2. Here' = Here
    BY <2>1 DEF Here
  <2>3. TemplateTypes'
    BY <1>1, <2>1, NoneIsTyped DEF TemplateInv, TemplateTypes
  <2>4. SavedIsStored' /\ SlugsAreApart'
    BY <1>1, <2>1, <2>2 DEF TemplateInv, SavedIsStored, SlugsAreApart
  <2> QED BY <1>1, <2>1, <2>3, <2>4, SameRowsKeep
<1>3. CASE \A i \in Here : rows[i].slug # cloning.slug
  <2>1. rows' = [rows EXCEPT ![Copy] = T!Row(cloning)]
    BY <1>3, ConfigsAgree DEF T!Clone
  <2>2. Copy \notin Here
    BY <1>1 DEF TemplateInv
  <2> QED BY <1>1, <1>3, <2>1, <2>2, CopyKeeps
<1> QED BY <1>2, <1>3

LEMMA OtherCloneKeeps ==
  ASSUME TemplateInv, T!TemplatesAssumption, T!OtherClone
  PROVE  TemplateInv'
<1>1. /\ Own \notin Here /\ cloning.from = Builtin
      /\ rows' = [rows EXCEPT ![Own] = T!Row(cloning)]
      /\ UNCHANGED <<inUse, cfg, draft, locale, saved, saving, cloning, deleting>>
  BY ConfigsAgree DEF T!OtherClone, T!editor, T!requests
<1>2. cloning # T!NoClone
  BY <1>1, NoneIsTyped DEF T!TemplatesAssumption, T!NoRow, NoRow, T!Id
<1>3. Here = {Builtin}
  <2>1. Copy \notin Here /\ Builtin \in Here /\ Here \subseteq {Builtin, Own, Copy}
    BY <1>2 DEF TemplateInv, Here, Id
  <2> QED BY <1>1, <2>1
<1>4. rows[Builtin].slug = <<Builtin>> /\ Len(cloning.slug) > 1
  BY <1>2 DEF TemplateInv, SlugsAreApart
<1>5. \A j \in Here : rows[j].slug # cloning.slug
  <2>1. Len(rows[Builtin].slug) = 1
    BY <1>4
  <2>2. rows[Builtin].slug # cloning.slug
    <3> SUFFICES ASSUME rows[Builtin].slug = cloning.slug PROVE FALSE
      OBVIOUS
    <3>1. Len(cloning.slug) = 1
      BY <2>1, Zenon
    <3>2. Len(cloning.slug) > 1
      BY <1>4, Zenon
    <3> QED BY <3>1, <3>2
  <2> QED BY <1>3, <2>2
<1> QED BY <1>1, <1>2, <1>5, CopyKeeps

LEMMA DeleteKeeps ==
  ASSUME TemplateInv, T!TemplatesAssumption, T!Delete
  PROVE  TemplateInv'
<1>1. /\ deleting # NoRow /\ deleting' = NoRow /\ deleting \in Id
      /\ saved' = (saved /\ rows'[Own].here)
      /\ saving' = [saving EXCEPT !.mine = saving.mine /\ rows'[Own].here]
      /\ UNCHANGED <<inUse, cfg, draft, locale, cloning>>
  BY ConfigsAgree DEF T!Delete, TemplateInv, TemplateTypes
<1>2. /\ \A i \in Id : rows'[i].slug = rows[i].slug /\ rows'[i].config = rows[i].config
      /\ \A i \in Id : i # deleting => rows'[i].here = rows[i].here
      /\ \A i \in inUse \cup {Builtin} : rows'[i].here = rows[i].here
      /\ \A i \in Id : rows'[i].here => rows[i].here
      /\ rows' \in [Id -> [here : BOOLEAN, slug : Slug, config : Config]]
  <2>1. CASE deleting \in inUse \cup {Builtin}
    <3>1. rows' = rows
      BY <2>1 DEF T!Delete
    <3> QED BY <3>1 DEF TemplateInv, TemplateTypes
  <2>2. CASE deleting \notin inUse \cup {Builtin}
    <3>1. rows' = [rows EXCEPT ![deleting].here = FALSE]
      BY <2>2 DEF T!Delete
    <3>2. rows \in [Id -> [here : BOOLEAN, slug : Slug, config : Config]]
      BY DEF TemplateInv, TemplateTypes
    <3>3. \A i \in Id : i # deleting => rows'[i] = rows[i]
      BY <3>1, <3>2
    <3>4. /\ rows'[deleting].here = FALSE /\ rows'[deleting].slug = rows[deleting].slug
          /\ rows'[deleting].config = rows[deleting].config
      BY <1>1, <3>1, <3>2
    <3>5. \A i \in inUse \cup {Builtin} : i \in Id /\ i # deleting
      BY <2>2 DEF TemplateInv, TemplateTypes, Id
    <3>6. rows' \in [Id -> [here : BOOLEAN, slug : Slug, config : Config]]
      BY <1>1, <3>1, <3>2
    <3> QED BY <3>3, <3>4, <3>5, <3>6
  <2> QED BY <2>1, <2>2
<1>3. Own \in Id /\ Builtin \in Id
  BY DEF Id
<1>4. /\ saving \in [step : {"idle", "asked", "saved", "refused"}, config : Config, mine : BOOLEAN]
      /\ rows'[Own].here \in BOOLEAN
  BY <1>2, <1>3 DEF TemplateInv, TemplateTypes
<1>5. /\ saving' \in [step : {"idle", "asked", "saved", "refused"}, config : Config, mine : BOOLEAN]
      /\ saving'.step = saving.step /\ saving'.config = saving.config
      /\ saving'.mine = (saving.mine /\ rows'[Own].here)
  BY <1>1, <1>4
<1>6. Here' \subseteq Here /\ (Own \in Here' <=> rows'[Own].here) /\ Here \subseteq Id
  BY <1>2, <1>3 DEF Here
<1>7. TemplateTypes'
  BY <1>1, <1>2, <1>4, <1>5 DEF TemplateInv, TemplateTypes
<1>8. SavedIsStored'
  <2>1. saved' => saved /\ Own \in Here'
    BY <1>1, <1>6
  <2>2. saving'.mine => saving.mine /\ Own \in Here'
    BY <1>5, <1>6
  <2> QED BY <1>1, <1>2, <1>3, <1>5, <2>1, <2>2 DEF TemplateInv, SavedIsStored
<1>9. SlugsAreApart'
  BY <1>1, <1>2, <1>3, <1>6 DEF TemplateInv, SlugsAreApart
<1>10. inUse \subseteq Here' /\ Builtin \in Here'
  BY <1>2, <1>3 DEF TemplateInv, Here
<1> QED BY <1>1, <1>2, <1>3, <1>6, <1>7, <1>8, <1>9, <1>10 DEF TemplateInv

\* For any locales, and any number of edits, saves and templates cloned, used
\* and deleted: what an editor shows as saved is what the worker does, what is
\* used exists, slugs are apart and a builtin template stays as it was seeded.
THEOREM TemplatesKeepTheirWordHolds ==
  T!TemplatesAssumption => (T!Spec => []TemplatesKeepTheirWord)
<1> SUFFICES ASSUME T!TemplatesAssumption PROVE T!Spec => []TemplatesKeepTheirWord
  OBVIOUS
<1>1. T!Init => TemplateInv
  BY TemplateInit
<1>2. TemplateInv /\ [T!Next]_T!vars => TemplateInv'
  <2> SUFFICES ASSUME TemplateInv, [T!Next]_T!vars PROVE TemplateInv'
    OBVIOUS
  <2>1. CASE UNCHANGED T!vars
    BY <2>1 DEF T!vars, TemplateInv, TemplateTypes, SavedIsStored, SlugsAreApart, Here
  <2>2. CASE T!Next
    BY <2>2, ConfigsAgree, FieldsKeep, LocalesKeep, JsonKeeps, SaveKeeps, UpdateKeeps, AnsweredKeeps,
       OtherSaveKeeps, CloneKeeps, OtherCloneKeeps, DeleteKeeps, RequestsKeep, UseKeeps DEF T!Next
  <2> QED BY <2>1, <2>2
<1>3. TemplateInv => TemplatesKeepTheirWord
  BY DEF TemplateInv, SavedIsStored, SlugsAreApart, TemplatesKeepTheirWord
<1> QED BY <1>1, <1>2, <1>3, PTL DEF T!Spec

-----------------------------------------------------------------------------
(* A dialog keeps what is there                                            *)

SiteOrNone == Site \cup {"none"}
Times == SUBSET ({"daily", "twice", "typed", "bad"} \cup Day)
Row == [site : SiteOrNone, cron : Times, choice : {"usual", "other"}, category : SiteOrNone,
        text : {"empty", "stored", "typed", "foreign"}]
Choice == [site : SiteOrNone, choice : {"usual", "other"}, category : SiteOrNone, preset : Times,
           raw : BOOLEAN, typed : Times, weekly : BOOLEAN, days : Times]

DialogTypes ==
  /\ dialog \in [of : {"brief", "job", "autopilot"}, new : BOOLEAN]
  /\ record \in Row /\ drawn \in Row /\ held \in Choice
  /\ typed \in {"empty", "stored", "typed", "foreign"}
  /\ sent \in [step : {"none", "asked", "ok", "refused"}, row : Row]
  /\ open \in BOOLEAN

\* A category is of the site, and only a brief has one.
OfItsSite(r) == /\ r.category \in {"none", r.site}
                /\ dialog.of # "brief" => r.category = "none"

ChosenField == Field \ {"text"}

DialogInv ==
  /\ DialogTypes
  /\ OfItsSite(record) /\ OfItsSite(held) /\ OfItsSite(sent.row)
  /\ Valid(record)
  /\ \A f \in ChosenField \ (touched \cup adrift) : OnScreen[f] = drawn[f]
  /\ open /\ "text" \notin touched => typed = drawn.text
  /\ sent.step = "none" => sent = F!NotSent
  /\ sent # F!NotSent => \A f \in ChosenField \ late : OnScreen[f] = sent.row[f]

LEMMA SameDialog ==
  /\ F!Field = Field /\ F!OnScreen = OnScreen /\ F!Custom = Custom /\ F!Bad = Bad
  /\ \A h : F!Cron(h) = Cron(h)
  /\ \A r : F!Valid(r) = Valid(r)
BY DEF F!Field, Field, F!OnScreen, OnScreen, F!Custom, Custom, F!Bad, Bad, F!Cron, Cron,
   F!Composed, Composed, F!Valid, Valid

\* What is shown of each field.
LEMMA ScreenOf ==
  ASSUME held \in Choice, typed \in {"empty", "stored", "typed", "foreign"}
  PROVE  /\ OnScreen \in Row
         /\ OnScreen["site"] = held.site /\ OnScreen["cron"] = Cron(held)
         /\ OnScreen["choice"] = held.choice /\ OnScreen["category"] = held.category
         /\ OnScreen["text"] = typed
<1>1. Cron(held) \in Times
  BY DEF Cron, Composed, Choice, Times
<1> QED BY <1>1 DEF OnScreen, Row, Choice

\* An edit changes on the screen the fields it is of.
LEMMA EditShows ==
  ASSUME DialogInv, NEW fields \in SUBSET Field, F!Edit(fields), held' \in Choice, OfItsSite(held)',
         typed' \in {"empty", "stored", "typed", "foreign"},
         \A f \in Field \ fields : OnScreen'[f] = OnScreen[f]
  PROVE  DialogInv'
<1>1. /\ touched' = touched \cup fields /\ adrift' = adrift
      /\ late' = (IF sent = F!NotSent THEN late ELSE late \cup fields)
      /\ UNCHANGED <<dialog, record, drawn, open, sent>>
  BY DEF F!Edit, F!stored
<1>2. DialogTypes'
  BY <1>1 DEF DialogInv, DialogTypes
<1>3. OfItsSite(record)' /\ OfItsSite(sent.row)' /\ Valid(record)'
  BY <1>1 DEF DialogInv, OfItsSite, Valid
<1>4. \A f \in ChosenField \ (touched' \cup adrift') : OnScreen'[f] = drawn'[f]
  <2> SUFFICES ASSUME NEW f \in ChosenField, f \notin touched', f \notin adrift'
               PROVE  OnScreen'[f] = drawn'[f]
    OBVIOUS
  <2>1. f \in Field \ fields /\ f \in ChosenField \ (touched \cup adrift)
    BY <1>1 DEF ChosenField
  <2>2. OnScreen[f] = drawn[f]
    BY <2>1 DEF DialogInv
  <2>3. OnScreen'[f] = OnScreen[f]
    BY <2>1
  <2> QED BY <1>1, <2>2, <2>3
<1>5. open' /\ "text" \notin touched' => typed' = drawn'.text
  <2> SUFFICES ASSUME open, "text" \notin touched, "text" \notin fields PROVE typed' = drawn.text
    BY <1>1
  <2>1. "text" \in Field \ fields
    BY DEF Field
  <2>2. OnScreen'["text"] = OnScreen["text"]
    BY <2>1
  <2>3. typed' = typed
    BY <2>2 DEF OnScreen
  <2> QED BY <2>3 DEF DialogInv
<1>6. sent'.step = "none" => sent' = F!NotSent
  BY <1>1 DEF DialogInv
<1>7. sent' # F!NotSent => \A f \in ChosenField \ late' : OnScreen'[f] = sent'.row[f]
  <2> SUFFICES ASSUME sent # F!NotSent, NEW f \in ChosenField, f \notin late' PROVE OnScreen'[f] = sent.row[f]
    BY <1>1
  <2>1. f \in Field \ fields /\ f \in ChosenField \ late
    BY <1>1 DEF ChosenField
  <2>2. OnScreen[f] = sent.row[f]
    BY <2>1 DEF DialogInv
  <2>3. OnScreen'[f] = OnScreen[f]
    BY <2>1
  <2> QED BY <2>2, <2>3
<1> QED BY <1>2, <1>3, <1>4, <1>5, <1>6, <1>7 DEF DialogInv

\* What a row names is a schedule.
LEMMA FormsInit == F!Init => DialogInv
<1> SUFFICES ASSUME F!Init PROVE DialogInv
  OBVIOUS
<1>1. /\ dialog \in [of : {"brief", "job", "autopilot"}, new : BOOLEAN]
      /\ record = drawn /\ held = F!Drawn(dialog, drawn) /\ open = FALSE /\ typed = drawn.text
      /\ sent = F!NotSent /\ touched = {} /\ adrift = {}
      /\ drawn \in {F!Default} \/ drawn \in F!Stored
  BY DEF F!Init
<1>2. drawn \in Row /\ drawn.category = "none" /\ Valid(drawn) /\ drawn.cron # {}
  BY <1>1 DEF F!Default, F!Stored, Row, SiteOrNone, Times, Valid, Bad
<1>3. /\ held = [site |-> drawn.site, choice |-> drawn.choice, category |-> drawn.category,
                 preset |-> IF F!Known(dialog, drawn.cron) THEN drawn.cron ELSE {},
                 raw |-> ~ F!Known(dialog, drawn.cron),
                 typed |-> IF F!Known(dialog, drawn.cron) THEN {} ELSE drawn.cron,
                 weekly |-> FALSE, days |-> Day]
  BY <1>1 DEF F!Drawn, F!Custom
<1>4. held \in Choice
  <2>1. F!Known(dialog, drawn.cron) \in BOOLEAN
    BY DEF F!Known
  <2>2. {} \in Times /\ Day \in Times /\ drawn.cron \in Times
    BY <1>2 DEF Times, Row
  <2> QED BY <1>2, <1>3, <2>1, <2>2 DEF Choice, Row
<1>5. Cron(held) = drawn.cron
  <2>1. CASE F!Known(dialog, drawn.cron)
    BY <1>2, <1>3, <2>1 DEF Cron, Custom
  <2>2. CASE ~ F!Known(dialog, drawn.cron)
    BY <1>3, <2>2 DEF Cron, Custom
  <2> QED BY <2>1, <2>2
<1>6. sent.row \in Row /\ sent.step = "none" /\ sent.row.category = "none"
  BY <1>1 DEF F!NotSent, F!Default, Row, SiteOrNone, Times
<1>7. DialogTypes
  BY <1>1, <1>2, <1>4, <1>6 DEF DialogTypes, F!NotSent, Row
<1>8. \A f \in ChosenField : OnScreen[f] = drawn[f]
  <2>1. /\ OnScreen["site"] = drawn.site /\ OnScreen["cron"] = drawn.cron
        /\ OnScreen["choice"] = drawn.choice /\ OnScreen["category"] = drawn.category
    BY <1>3, <1>4, <1>5, <1>7, ScreenOf DEF DialogTypes
  <2> QED BY <2>1 DEF ChosenField, Field
<1>9. held.category = "none"
  BY <1>2, <1>3
<1> QED BY <1>1, <1>2, <1>6, <1>7, <1>8, <1>9 DEF DialogInv, OfItsSite

\* The text box.
LEMMA TypeTextKeeps ==
  ASSUME DialogInv, F!TypeText
  PROVE  DialogInv'
<1>1. F!Edit({"text"}) /\ typed' = "typed" /\ held' = held /\ dialog' = dialog
  BY DEF F!TypeText, F!Edit, F!stored
<1>2. \A f \in Field \ {"text"} : OnScreen'[f] = OnScreen[f]
  BY <1>1 DEF OnScreen, Field, Cron, Composed
<1>3. OfItsSite(held)' /\ held' \in Choice /\ {"text"} \in SUBSET Field
  BY <1>1 DEF OfItsSite, DialogInv, DialogTypes, Field
<1> QED BY <1>1, <1>2, <1>3, EditShows

\* A field of what is chosen.
LEMMA ChoiceKeeps ==
  ASSUME DialogInv, NEW fields \in SUBSET Field, F!Edit(fields), held' \in Choice, OfItsSite(held)',
         typed' = typed,
         "site" \notin fields => held'.site = held.site,
         "choice" \notin fields => held'.choice = held.choice,
         "category" \notin fields => held'.category = held.category,
         "cron" \notin fields => /\ held'.preset = held.preset /\ held'.raw = held.raw
                                 /\ held'.typed = held.typed /\ held'.weekly = held.weekly
                                 /\ held'.days = held.days
  PROVE  DialogInv'
<1>1. "cron" \notin fields => Cron(held)' = Cron(held)
  BY DEF Cron, Composed
<1>2. typed' \in {"empty", "stored", "typed", "foreign"}
  BY DEF DialogInv, DialogTypes
<1>3. \A f \in Field \ fields : OnScreen'[f] = OnScreen[f]
  BY <1>1 DEF OnScreen, Field
<1> QED BY <1>2, <1>3, EditShows

LEMMA SiteKeeps ==
  ASSUME DialogInv, F!Choose \/ F!ChooseSite \/ F!ConnectSite \/ F!ChooseCategory
  PROVE  DialogInv'
<1>1. held \in Choice /\ OfItsSite(held) /\ dialog' = dialog
  BY DEF DialogInv, DialogTypes, F!Choose, F!ChooseSite, F!ConnectSite, F!ChooseCategory, F!Edit, F!stored
<1>2. CASE F!Choose
  <2>1. /\ F!Edit({"choice"}) /\ typed' = typed
        /\ held' = [held EXCEPT !.choice = IF held.choice = "usual" THEN "other" ELSE "usual"]
    BY <1>2 DEF F!Choose
  <2>2. {"choice"} \in SUBSET Field
    BY DEF Field
  <2> QED BY <1>1, <2>1, <2>2, ChoiceKeeps DEF Choice, OfItsSite
<1>3. CASE F!ChooseSite
  <2>1. PICK s \in Site : /\ F!Edit({"site", "category"}) /\ typed' = typed
                          /\ held' = [held EXCEPT !.site = s, !.category = "none"]
    BY <1>3 DEF F!ChooseSite, F!WithSite
  <2>2. {"site", "category"} \in SUBSET Field
    BY DEF Field
  <2> QED BY <1>1, <2>1, <2>2, ChoiceKeeps DEF Choice, OfItsSite, SiteOrNone
<1>4. CASE F!ConnectSite
  <2>1. PICK s \in Site : /\ F!Edit({"site"}) /\ typed' = typed /\ dialog.of # "brief"
                          /\ held' = [held EXCEPT !.site = s]
    BY <1>4 DEF F!ConnectSite
  <2>2. {"site"} \in SUBSET Field
    BY DEF Field
  <2> QED BY <1>1, <2>1, <2>2, ChoiceKeeps DEF Choice, OfItsSite, SiteOrNone
<1>5. CASE F!ChooseCategory
  <2>1. /\ F!Edit({"category"}) /\ typed' = typed /\ dialog.of = "brief"
        /\ held' = [held EXCEPT !.category = IF held.category = held.site THEN "none" ELSE held.site]
    BY <1>5 DEF F!ChooseCategory
  <2>2. {"category"} \in SUBSET Field
    BY DEF Field
  <2> QED BY <1>1, <2>1, <2>2, ChoiceKeeps DEF Choice, OfItsSite, SiteOrNone
<1> QED BY <1>2, <1>3, <1>4, <1>5

LEMMA ScheduleKeeps ==
  ASSUME DialogInv, F!ChoosePreset \/ F!ChooseFrequency \/ F!ToggleDay \/ F!TypeCron
  PROVE  DialogInv'
<1>1. held \in Choice /\ OfItsSite(held) /\ dialog' = dialog
  BY DEF DialogInv, DialogTypes, F!ChoosePreset, F!ChooseFrequency, F!ToggleDay, F!TypeCron, F!Edit, F!stored
<1>2. {"cron"} \in SUBSET Field /\ "site" \notin {"cron"}
  BY DEF Field
<1>3. ASSUME F!Edit({"cron"}), typed' = typed, held' \in Choice,
             held'.site = held.site, held'.choice = held.choice, held'.category = held.category
      PROVE  DialogInv'
  BY <1>1, <1>2, <1>3, ChoiceKeeps DEF OfItsSite
<1>4. CASE F!ChoosePreset
  <2>1. PICK p \in F!Presets \cup {F!Custom} : held' = [held EXCEPT !.preset = p]
    BY <1>4 DEF F!ChoosePreset
  <2>2. p \in Times
    BY <2>1 DEF F!Presets, F!Custom, Times
  <2> QED BY <1>1, <1>3, <1>4, <2>1, <2>2 DEF F!ChoosePreset, Choice
<1>5. CASE F!ChooseFrequency
  BY <1>1, <1>3, <1>5 DEF F!ChooseFrequency, Choice
<1>6. CASE F!ToggleDay
  <2>1. PICK d \in Day :
          held' = [held EXCEPT !.days = IF d \notin held.days THEN held.days \cup {d}
                                        ELSE IF held.days = {d} THEN held.days ELSE held.days \ {d}]
    BY <1>6 DEF F!ToggleDay
  <2>2. PICK D \in Times : held' = [held EXCEPT !.days = D]
    <3>1. held.days \cup {d} \in Times /\ held.days \in Times /\ held.days \ {d} \in Times
      BY <1>1 DEF Choice, Times
    <3> QED BY <2>1, <3>1
  <2> QED BY <1>1, <1>3, <1>6, <2>2 DEF F!ToggleDay, Choice
<1>7. CASE F!TypeCron
  <2>1. CASE held' = [held EXCEPT !.raw = ~ held.raw]
    BY <1>1, <1>3, <1>7, <2>1 DEF F!TypeCron, Choice
  <2>2. ASSUME NEW c \in {F!Bad, {"typed"}}, held' = [held EXCEPT !.typed = c]
        PROVE  DialogInv'
    <3>1. c \in Times
      BY DEF F!Bad, Times
    <3> QED BY <1>1, <1>3, <1>7, <2>2, <3>1 DEF F!TypeCron, Choice
  <2> QED BY <1>7, <2>1, <2>2 DEF F!TypeCron
<1> QED BY <1>4, <1>5, <1>6, <1>7

\* Nothing on the screen changes but which fields are to be kept.
LEMMA ScreenKeeps ==
  ASSUME DialogInv, UNCHANGED <<dialog, record, drawn, held, typed, sent, late>>, open' \in BOOLEAN,
         \A f \in ChosenField : f \in touched \cup adrift => f \in touched' \cup adrift',
         open' => open /\ touched' = touched
  PROVE  DialogInv'
<1>1. OnScreen' = OnScreen
  BY DEF OnScreen, Cron, Composed
<1>2. DialogTypes'
  BY DEF DialogInv, DialogTypes
<1> QED BY <1>1, <1>2 DEF DialogInv, OfItsSite, Valid

LEMMA OpenKeeps ==
  ASSUME DialogInv, F!Open \/ F!Close \/ F!ToggleMore \/ F!CategoriesArrive
  PROVE  DialogInv'
<1>1. CASE F!Open
  <2>1. /\ open' = TRUE /\ typed' = drawn.text
        /\ UNCHANGED <<dialog, record, drawn, held, sent, late, touched, adrift>>
    BY <1>1 DEF F!Open, F!stored, F!history
  <2>2. \A f \in ChosenField : OnScreen'[f] = OnScreen[f]
    BY <2>1 DEF OnScreen, ChosenField, Field, Cron, Composed
  <2>3. DialogTypes'
    BY <2>1 DEF DialogInv, DialogTypes, Row
  <2> QED BY <2>1, <2>2, <2>3 DEF DialogInv, OfItsSite, Valid
<1>2. CASE F!Close
  <2>1. /\ open' = FALSE /\ touched' = {} /\ adrift' = adrift \cup (touched \ {"text"})
        /\ UNCHANGED <<dialog, record, drawn, held, typed, sent, late>>
    BY <1>2 DEF F!Close, F!LeaveBehind, F!stored
  <2>2. \A f \in ChosenField : f \in touched \cup adrift => f \in touched' \cup adrift'
    BY <2>1 DEF ChosenField
  <2> QED BY <2>1, <2>2, ScreenKeeps
<1>3. CASE F!ToggleMore \/ F!CategoriesArrive
  BY <1>3, ScreenKeeps DEF F!ToggleMore, F!CategoriesArrive, F!stored, F!history, DialogInv, DialogTypes
<1> QED BY <1>1, <1>2, <1>3

LEMMA SubmitKeeps ==
  ASSUME DialogInv, F!Submit
  PROVE  DialogInv'
<1>1. /\ sent' = [step |-> "asked", row |-> OnScreen] /\ late' = {}
      /\ UNCHANGED <<dialog, record, drawn, open, held, typed, touched, adrift>>
  BY SameDialog DEF F!Submit, F!stored
<1>2. OnScreen' = OnScreen
  BY <1>1 DEF OnScreen, Cron, Composed
<1>3. OnScreen \in Row /\ OnScreen.category = held.category /\ OnScreen.site = held.site
  BY ScreenOf DEF DialogInv, DialogTypes
<1>4. DialogTypes' /\ OfItsSite(sent.row)'
  BY <1>1, <1>3 DEF DialogInv, DialogTypes, OfItsSite
<1> QED BY <1>1, <1>2, <1>4 DEF DialogInv, OfItsSite, Valid

LEMMA SaveKeepsRow ==
  ASSUME DialogInv, F!Save \/ F!Refuse
  PROVE  DialogInv'
<1>1. PICK l \in {"ok", "refused"} :
        /\ sent' = [sent EXCEPT !.step = l]
        /\ record' = record \/ (record' = sent.row /\ Valid(sent.row))
  BY SameDialog DEF F!Save, F!Refuse, F!stored
<1>2. /\ UNCHANGED <<dialog, drawn, open, held, typed, touched, adrift, late>>
      /\ sent.step = "asked"
  BY DEF F!Save, F!Refuse, F!stored, F!history
<1>3. sent \in [step : {"none", "asked", "ok", "refused"}, row : Row]
  BY DEF DialogInv, DialogTypes
<1>4. /\ sent' \in [step : {"none", "asked", "ok", "refused"}, row : Row]
      /\ sent'.step = l /\ sent'.row = sent.row
  BY <1>1, <1>3
<1>5. sent # F!NotSent
  BY <1>2 DEF F!NotSent
<1>6. OnScreen' = OnScreen
  BY <1>2 DEF OnScreen, Cron, Composed
<1>7. DialogTypes' /\ OfItsSite(record)' /\ Valid(record)'
  BY <1>1, <1>2, <1>3, <1>4 DEF DialogInv, DialogTypes, OfItsSite, Valid
<1> QED BY <1>1, <1>2, <1>4, <1>5, <1>6, <1>7 DEF DialogInv, OfItsSite

\* The page of what was just saved is the row, but for what changed since.
LEMMA SavedKeeps ==
  ASSUME DialogInv, F!Saved
  PROVE  DialogInv'
<1>1. /\ sent.step = "ok" /\ sent' = F!NotSent /\ open' = FALSE
      /\ UNCHANGED <<dialog, record, held, typed, late>>
  BY DEF F!Saved
<1>2. sent # F!NotSent
  BY <1>1 DEF F!NotSent
<1>3. OnScreen' = OnScreen
  BY <1>1 DEF OnScreen, Cron, Composed
<1>4. sent' \in [step : {"none", "asked", "ok", "refused"}, row : Row] /\ sent'.row.category = "none"
  BY <1>1 DEF F!NotSent, F!Default, Row, SiteOrNone, Times
<1>5. drawn' = drawn \/ drawn' = record
  BY DEF F!Saved
<1>6. DialogTypes'
  BY <1>1, <1>4, <1>5 DEF DialogInv, DialogTypes
<1>7. \A f \in ChosenField \ (touched' \cup adrift') : OnScreen[f] = drawn'[f]
  <2>1. CASE dialog.new
    <3>1. drawn' = drawn /\ adrift' = adrift \cup (touched \ {"text"})
      BY <2>1 DEF F!Saved, F!LeaveBehind
    <3> QED BY <3>1 DEF DialogInv, ChosenField
  <2>2. CASE ~ dialog.new
    <3>1. drawn' = record /\ adrift' = {f \in ChosenField : f \in late \/ record[f] # sent.row[f]}
      BY <2>2, SameDialog DEF F!Saved, ChosenField
    <3>2. \A f \in ChosenField \ late : OnScreen[f] = sent.row[f]
      BY <1>2 DEF DialogInv
    <3> QED BY <3>1, <3>2
  <2> QED BY <2>1, <2>2
<1>8. OfItsSite(record)' /\ OfItsSite(held)' /\ Valid(record)' /\ OfItsSite(sent.row)'
  BY <1>1, <1>4 DEF DialogInv, OfItsSite, Valid
<1> QED BY <1>1, <1>3, <1>6, <1>7, <1>8 DEF DialogInv

LEMMA RefusedKeepsDialog ==
  ASSUME DialogInv, F!Refused
  PROVE  DialogInv'
<1>1. /\ sent' = F!NotSent /\ typed' = drawn.text /\ touched' = touched \ {"text"}
      /\ UNCHANGED <<dialog, record, drawn, open, held, late, adrift>>
  BY DEF F!Refused, F!stored
<1>2. sent' \in [step : {"none", "asked", "ok", "refused"}, row : Row] /\ sent'.row.category = "none"
  BY <1>1 DEF F!NotSent, F!Default, Row, SiteOrNone, Times
<1>3. \A f \in ChosenField : OnScreen'[f] = OnScreen[f]
  BY <1>1 DEF OnScreen, ChosenField, Field, Cron, Composed
<1>4. DialogTypes'
  BY <1>1, <1>2 DEF DialogInv, DialogTypes, Row
<1>5. \A f \in ChosenField \ (touched' \cup adrift') : OnScreen'[f] = drawn[f]
  BY <1>1, <1>3 DEF DialogInv, ChosenField
<1> QED BY <1>1, <1>2, <1>4, <1>5 DEF DialogInv, OfItsSite, Valid

LEMMA ForeignKeeps ==
  ASSUME DialogInv, F!Foreign
  PROVE  DialogInv'
<1>1. /\ \/ record' = [record EXCEPT !.text = "foreign"]
         \/ record' = [record EXCEPT !.choice = "other"]
         \/ record' = [record EXCEPT !.cron = {"twice"}]
      /\ UNCHANGED <<dialog, drawn, open, held, typed, sent, touched, late, adrift>>
  BY DEF F!Foreign, F!history
<1>2. record \in Row
  BY DEF DialogInv, DialogTypes
<1>3. record' \in Row /\ record'.category = record.category /\ record'.site = record.site
  BY <1>1, <1>2 DEF Row, Times
<1>4. record'.cron = record.cron \/ record'.cron = {"twice"}
  BY <1>1, <1>2 DEF Row
<1>5. OnScreen' = OnScreen
  BY <1>1 DEF OnScreen, Cron, Composed
<1>6. OfItsSite(record)' /\ Valid(record)' /\ DialogTypes'
  BY <1>1, <1>3, <1>4 DEF DialogInv, DialogTypes, OfItsSite, Valid, Bad
<1> QED BY <1>1, <1>5, <1>6 DEF DialogInv, OfItsSite

LEMMA PageArrivesKeeps ==
  ASSUME DialogInv, F!PageArrives
  PROVE  DialogInv'
<1>1. /\ drawn' = record /\ typed' = (IF "text" \in touched THEN typed ELSE record.text)
      /\ adrift' = adrift \cup {f \in ChosenField : record[f] # drawn[f]}
      /\ UNCHANGED <<dialog, record, open, held, sent, touched, late>>
  BY SameDialog DEF F!PageArrives, ChosenField
<1>2. \A f \in ChosenField : OnScreen'[f] = OnScreen[f]
  BY <1>1 DEF OnScreen, ChosenField, Field, Cron, Composed
<1>3. DialogTypes'
  BY <1>1 DEF DialogInv, DialogTypes, Row
<1>4. \A f \in ChosenField \ (touched' \cup adrift') : OnScreen'[f] = drawn'[f]
  BY <1>1, <1>2 DEF DialogInv
<1> QED BY <1>1, <1>2, <1>3, <1>4 DEF DialogInv, OfItsSite, Valid

\* For any sites and days, and any number of edits, openings and changes by
\* others: what the user did not touch is shown, and saved, as the page has it,
\* unless it was left adrift, and a category is of its site.
THEOREM FormsKeepWhatIsThereHolds == F!Spec => []FormsKeepWhatIsThere
<1>1. DialogInv => FormsKeepWhatIsThere
  <2> SUFFICES ASSUME DialogInv PROVE FormsKeepWhatIsThere
    OBVIOUS
  <2>1. ASSUME open, NEW f \in Field \ (touched \cup adrift) PROVE OnScreen[f] = drawn[f]
    <3>1. CASE f = "text"
      BY <2>1, <3>1, ScreenOf DEF DialogInv, DialogTypes
    <3>2. CASE f # "text"
      BY <2>1, <3>2 DEF DialogInv, ChosenField
    <3> QED BY <3>1, <3>2
  <2> QED BY <2>1 DEF DialogInv, OfItsSite, FormsKeepWhatIsThere
<1>2. DialogInv /\ [F!Next]_F!vars => DialogInv'
  <2> SUFFICES ASSUME DialogInv, [F!Next]_F!vars PROVE DialogInv'
    OBVIOUS
  <2>1. CASE UNCHANGED F!vars
    BY <2>1, ScreenKeeps DEF F!vars, DialogInv, DialogTypes
  <2>2. CASE F!Next
    BY <2>2, OpenKeeps, TypeTextKeeps, SiteKeeps, ScheduleKeeps, SubmitKeeps, SaveKeepsRow, SavedKeeps,
       RefusedKeepsDialog, ForeignKeeps, PageArrivesKeeps DEF F!Next
  <2> QED BY <2>1, <2>2
<1> QED BY <1>1, <1>2, FormsInit, PTL DEF F!Spec
=============================================================================
