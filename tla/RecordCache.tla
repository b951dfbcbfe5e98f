---------------------------- MODULE RecordCache -----------------------------
(***************************************************************************)
(* The record cache of a server (src/cache.go) and everything that writes  *)
(* it: handleResponse, the 10-second cacheLoop with its passive            *)
(* observation and its refresh queries, probeHostRecords and the exported  *)
(* RemoveName (src/server.go, src/browser.go).                             *)
(*                                                                         *)
(* Cache.mu is held for one operation at a time, so each operation is an   *)
(* action and the goroutines interleave between operations, inside one     *)
(* response too.                                                           *)
(*                                                                         *)
(* Time.  An entry holds the time units left until it expires instead of   *)
(* the absolute time; expires.After(now) is left > 0.  The ticker's work   *)
(* and a response are done with before the clock moves on.                 *)
(*                                                                         *)
(* Data.  A name stands for its lower-case form.  passiveSeen is indexed   *)
(* by the spelling that was received, so a query is tracked as spelled     *)
(* like the owner's records ("same") or otherwise ("other").  The entries  *)
(* of a key are a set: of several records under one key, which one is      *)
(* "first" is left open.                                                   *)
(***************************************************************************)
EXTENDS Integers, Sequences

CONSTANTS Name, Type, Rdata, MaxTTL,
          Response,       \* the responses the network may send, see Received
          Tick,           \* period of the cacheLoop ticker
          PassiveCount,   \* unanswered queries that arouse suspicion
          PassiveTTL,     \* the TTL given to suspected records
          PassiveWindow,  \* how recent the last of these queries must be
          PassiveForget,  \* age at which the tracking is dropped
          Observed,       \* <<name, spelling>> that other hosts ask for
          Browsed,        \* SRV keys of the instances a browser follows
          Removable,      \* names the application may remove
          HostKey, HostRecords, HostTTL  \* own address records, in order

Key == Name \X Type
Spelling == {"same", "other"}

\* A record of a response: TTL 0 says goodbye, flush is the cache-flush bit.
Record == [key : Key, rdata : Rdata, ttl : 0 .. MaxTTL, flush : BOOLEAN]

ASSUME RecordCacheAssumption ==
    /\ MaxTTL \in Nat /\ Tick \in Nat \ {0}
    /\ Response \subseteq Seq(Record)
    /\ PassiveCount \in Nat \ {0} /\ PassiveTTL \in 1 .. MaxTTL
    /\ PassiveWindow \in Nat /\ PassiveForget \in Nat
    /\ Observed \subseteq Name \X Spelling
    /\ Browsed \subseteq Key
    /\ Removable \subseteq Name
    /\ HostKey \in Key /\ HostRecords \in Seq(Rdata) /\ HostTTL \in 1 .. MaxTTL

\* The records that responses carry.
Heard == UNION {{msg[i] : i \in DOMAIN msg} : msg \in Response}

VARIABLES
    cache,    \* Cache.records
    inbox,    \* records of the response being handled that are still to do
    clearing, \* the name of the record just stored: its tracking is cleared next
    loop,     \* where cacheLoop is
    tick,     \* time to the next tick
    passive,  \* passiveSeen and passiveLast (as an age), by received spelling
    hosted    \* how many own host records probeHostRecords has cached

vars == <<cache, inbox, clearing, loop, tick, passive, hosted>>

Entry == [rdata : Rdata, ttl : 1 .. MaxTTL, left : Int, refreshed : BOOLEAN]

TypeOK ==
    /\ cache \in [Key -> SUBSET Entry]
    /\ inbox \in Seq(Heard)
    /\ clearing \subseteq Name
    /\ loop \in {"wait", "passive", "maintain"}
    /\ tick \in 0 .. Tick
    /\ passive \in [Name \X Spelling ->
                       [count : 0 .. PassiveCount, age : 0 .. PassiveForget + 1]]
    /\ hosted \in 0 .. Len(HostRecords)

Untracked == [count |-> 0, age |-> 0]

Init ==
    /\ cache = [k \in Key |-> {}]
    /\ inbox = <<>>
    /\ clearing = {}
    /\ loop = "wait"
    /\ tick = Tick
    /\ passive = [o \in Name \X Spelling |-> Untracked]
    /\ hosted = 0

-----------------------------------------------------------------------------
(* Operations of the cache. *)

Fresh(rr) == [rdata |-> rr.rdata, ttl |-> rr.ttl, left |-> rr.ttl, refreshed |-> FALSE]

\* Mutant: identical RDATA is not recognised.
UpsertAppends(entries, rr) ==
    (IF rr.flush THEN {} ELSE entries) \cup {Fresh(rr)}

\* Upsert: cache-flush drops what is there; a record with the same RDATA is
\* renewed, any other is added.  The sender plays no part.
Upsert(entries, rr) ==
    LET existing == IF rr.flush THEN {} ELSE entries IN
    {e \in existing : e.rdata # rr.rdata} \cup {Fresh(rr)}

\* Lookup, LookupName, HasValidRecord, AllRecords skip what has expired.
Live(k) == {e \in cache[k] : e.left > 0}

-----------------------------------------------------------------------------
(* recvLoop: responses, and queries of other hosts. *)

\* handlePacket hands a response to handleResponse; there is one recvLoop.
Received(msg) ==
    /\ inbox = <<>> /\ clearing = {}
    /\ inbox' = msg
    /\ UNCHANGED <<cache, clearing, loop, tick, passive, hosted>>

\* Mutant: a goodbye is stored like any other record.
HandleRecordKeepsGoodbye ==
    LET rr == Head(inbox) IN
    /\ inbox # <<>> /\ clearing = {}
    /\ inbox' = Tail(inbox)
    /\ cache' = [cache EXCEPT ![rr.key] = Upsert(@, rr)]
    /\ clearing' = {rr.key[1]}
    /\ UNCHANGED <<loop, tick, passive, hosted>>

\* handleResponse, first pass, for one record: a goodbye removes the whole key,
\* anything else is stored.
HandleRecord ==
    LET rr == Head(inbox) IN
    /\ inbox # <<>> /\ clearing = {}
    /\ inbox' = Tail(inbox)
    /\ IF rr.ttl = 0
       THEN /\ cache' = [cache EXCEPT ![rr.key] = {}]
            /\ clearing' = {}
       ELSE /\ cache' = [cache EXCEPT ![rr.key] = Upsert(@, rr)]
            /\ clearing' = {rr.key[1]}
    /\ UNCHANGED <<loop, tick, passive, hosted>>

\* ... and then, under passiveMu, the tracking of its name is dropped.
ClearPassive ==
    /\ clearing # {}
    /\ passive' = [o \in Name \X Spelling |->
                      IF o \in clearing \X {"same"} THEN Untracked ELSE passive[o]]
    /\ clearing' = {}
    /\ UNCHANGED <<cache, inbox, loop, tick, hosted>>

\* trackPassiveQuery, for a query that another host sent.  Only whether the
\* count has reached PassiveCount matters, so it stops there.
TrackPassiveQuery(o) ==
    /\ inbox = <<>> /\ clearing = {}
    /\ passive' = [passive EXCEPT ![o] =
                      [count |-> IF @.count < PassiveCount THEN @.count + 1
                                 ELSE PassiveCount,
                       age |-> 0]]
    /\ UNCHANGED <<cache, inbox, clearing, loop, tick, hosted>>

-----------------------------------------------------------------------------
(* Other writers. *)

\* registerHostRecords: the i-th address record of the host name.
HostRecord(i) ==
    [key |-> HostKey, rdata |-> HostRecords[i], ttl |-> HostTTL, flush |-> TRUE]

\* probeHostRecords, after the probes: own records are stored one by one.
CacheHostRecord ==
    /\ hosted < Len(HostRecords)
    /\ cache' = [cache EXCEPT ![HostKey] =
                    Upsert(@, HostRecord(hosted + 1))]
    /\ hosted' = hosted + 1
    /\ UNCHANGED <<inbox, clearing, loop, tick, passive>>

\* RemoveName, through Server.Cache().
RemoveName(n) ==
    /\ cache' = [k \in Key |-> IF k[1] = n THEN {} ELSE cache[k]]
    /\ UNCHANGED <<inbox, clearing, loop, tick, passive, hosted>>

-----------------------------------------------------------------------------
(* cacheLoop: Expire, handlePassiveObservation, handleCacheMaintenance. *)

\* Mutant: only every other tick purges.
ExpireKeepsJustExpired ==
    /\ loop = "wait" /\ tick = 0
    /\ cache' = [k \in Key |-> {e \in cache[k] : e.left >= 0 - Tick}]
    /\ loop' = "passive"
    /\ tick' = Tick
    /\ UNCHANGED <<inbox, clearing, passive, hosted>>

\* Mutant: a record in its last unit of time is purged.
ExpireEarly ==
    /\ loop = "wait" /\ tick = 0
    /\ cache' = [k \in Key |-> {e \in cache[k] : e.left > 1}]
    /\ loop' = "passive"
    /\ tick' = Tick
    /\ UNCHANGED <<inbox, clearing, passive, hosted>>

\* Expire purges what is no longer alive.
Expire ==
    /\ loop = "wait" /\ tick = 0
    /\ cache' = [k \in Key |-> Live(k)]
    /\ loop' = "passive"
    /\ tick' = Tick
    /\ UNCHANGED <<inbox, clearing, passive, hosted>>

\* handlePassiveObservation: the TTL of suspected records is cut, their expiry
\* is not; tracking of old queries is dropped.
HandlePassiveObservation ==
    LET Suspected(n) == \E sp \in Spelling :
            /\ passive[<<n, sp>>].count >= PassiveCount
            /\ passive[<<n, sp>>].age < PassiveWindow
    IN
    /\ loop = "passive"
    /\ cache' = [k \in Key |->
                    {IF Suspected(k[1]) /\ e.left > 0 /\ e.ttl > PassiveTTL
                     THEN [e EXCEPT !.ttl = PassiveTTL] ELSE e : e \in cache[k]}]
    /\ passive' = [o \in Name \X Spelling |->
                      IF passive[o].age > PassiveForget THEN Untracked ELSE passive[o]]
    /\ loop' = "maintain"
    /\ UNCHANGED <<inbox, clearing, tick, hosted>>

\* Mutant: off by one.
NeedsRefreshStrict(e) == e.left > 0 /\ e.left < e.ttl \div 5

\* refreshExpiringRecords: a query when a fifth of the TTL or less remains.
NeedsRefresh(e) == e.left > 0 /\ e.left <= e.ttl \div 5

\* handleCacheMaintenance: the browsers ask for the SRV records in need.
HandleCacheMaintenance ==
    /\ loop = "maintain"
    /\ cache' = [k \in Key |->
                    {IF k \in Browsed /\ NeedsRefresh(e)
                     THEN [e EXCEPT !.refreshed = TRUE] ELSE e : e \in cache[k]}]
    /\ loop' = "wait"
    /\ UNCHANGED <<inbox, clearing, tick, passive, hosted>>

\* One unit of time passes, when nobody is at work.
Elapse ==
    /\ loop = "wait" /\ tick > 0
    /\ inbox = <<>> /\ clearing = {}
    /\ tick' = tick - 1
    /\ cache' = [k \in Key |-> {[e EXCEPT !.left = @ - 1] : e \in cache[k]}]
    /\ passive' = [o \in Name \X Spelling |->
                      IF passive[o].count = 0 \/ passive[o].age > PassiveForget
                      THEN passive[o] ELSE [passive[o] EXCEPT !.age = @ + 1]]
    /\ UNCHANGED <<inbox, clearing, loop, hosted>>

Next ==
    \/ \E msg \in Response : Received(msg)
    \/ HandleRecord
    \/ ClearPassive
    \/ \E o \in Observed : TrackPassiveQuery(o)
    \/ CacheHostRecord
    \/ \E n \in Removable : RemoveName(n)
    \/ Expire
    \/ HandlePassiveObservation
    \/ HandleCacheMaintenance
    \/ Elapse

Spec == Init /\ [][Next]_vars

-----------------------------------------------------------------------------
\* A key never holds two entries with the same RDATA, so a renewed record does
\* not linger as an older copy that expires or is answered on its own.
NoDuplicates ==
    \A k \in Key : \A e, f \in cache[k] : e.rdata = f.rdata => e = f

\* Nothing outlives its expiry by more than one period of the ticker: the cache
\* does not accumulate what is dead.
PurgedWithinATick ==
    \A k \in Key : \A e \in cache[k] : e.left >= tick - Tick

\* A record a browser follows is asked for again before it expires.
RefreshedBeforeExpiry ==
    \A k \in Browsed : \A e \in cache[k] : e.left <= 0 => e.refreshed

\* How much longer lookups return r for k.
Alive ==
    [k \in Key |-> [r \in Rdata |->
        IF \E e \in Live(k) : e.rdata = r
        THEN (CHOOSE e \in Live(k) : e.rdata = r).left ELSE 0]]

\* What peers announce, and the server for its own host name.
Announcement ==
    {rr \in Heard : rr.ttl # 0} \cup {HostRecord(i) : i \in 1 .. Len(HostRecords)}

Store == INSTANCE RecordStore WITH alive <- Alive

\* What lookups return is what was announced and not withdrawn, for as long as
\* it was promised; purging, passive observation and maintenance do not show.
ImplementsStore == Store!Spec

=============================================================================
