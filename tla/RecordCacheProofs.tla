------------------------- MODULE RecordCacheProofs --------------------------
(***************************************************************************)
(* Theorems about RecordCache, for all names, types, lifetimes, periods    *)
(* and responses: a key holds each RDATA once, nothing is kept longer than *)
(* a period after its expiry, and what lookups return is what RecordStore  *)
(* says.                                                                   *)
(***************************************************************************)
EXTENDS RecordCache, TLAPS

Distinct(S) == \A e, f \in S : e.rdata = f.rdata => e = f

IInv == TypeOK /\ NoDuplicates /\ PurgedWithinATick

-----------------------------------------------------------------------------
\* Upsert yields entries, keeps RDATA distinct, and what it adds is fresh.
LEMMA UpsertEntries ==
    ASSUME NEW S \in SUBSET Entry, NEW rr \in Record, rr.ttl # 0
    PROVE  /\ Upsert(S, rr) \subseteq Entry
           /\ Distinct(S) => Distinct(Upsert(S, rr))
           /\ \A e \in Upsert(S, rr) : e \in S \/ e.left = rr.ttl
           /\ \E e \in Upsert(S, rr) : e.rdata = rr.rdata /\ e.left = rr.ttl
<1>1. /\ Fresh(rr) \in Entry
      /\ Fresh(rr).rdata = rr.rdata /\ Fresh(rr).left = rr.ttl
  BY RecordCacheAssumption DEF Fresh, Entry, Record
<1> QED
  BY <1>1 DEF Upsert, Distinct

\* A response is a sequence of what can be heard.
LEMMA ResponseHeard ==
    ASSUME NEW msg \in Response
    PROVE  msg \in Seq(Heard)
<1>1. msg \in Seq(Record)
  BY RecordCacheAssumption
<1>2. \A i \in 1 .. Len(msg) : msg[i] \in Heard
  BY <1>1 DEF Heard
<1> QED
  BY <1>1, <1>2

LEMMA HeardRecord == Heard \subseteq Record
  BY RecordCacheAssumption DEF Heard

\* The record that handleResponse is about to process.
LEMMA NextRecord ==
    ASSUME TypeOK, inbox # <<>>
    PROVE  /\ Head(inbox) \in Heard /\ Head(inbox) \in Record
           /\ Tail(inbox) \in Seq(Heard)
<1>1. Head(inbox) \in Heard /\ Tail(inbox) \in Seq(Heard)
  BY DEF TypeOK
<1> QED
  BY <1>1, HeardRecord

\* The record that probeHostRecords is about to store.
LEMMA NextHostRecord ==
    ASSUME TypeOK, hosted < Len(HostRecords)
    PROVE  /\ HostRecord(hosted + 1) \in Record
           /\ HostRecord(hosted + 1).ttl # 0
           /\ HostRecord(hosted + 1).key = HostKey
           /\ hosted + 1 \in 1 .. Len(HostRecords)
  BY RecordCacheAssumption DEF TypeOK, Record, HostRecord

LEMMA InitIInv == Init => IInv
  BY RecordCacheAssumption
     DEF Init, IInv, TypeOK, NoDuplicates, PurgedWithinATick, Untracked

\* An upsert under one key preserves everything that IInv says of the cache.
LEMMA UpsertStep ==
    ASSUME IInv, NEW rr \in Record, rr.ttl # 0,
           cache' = [cache EXCEPT ![rr.key] = Upsert(@, rr)],
           tick' = tick
    PROVE  /\ cache' \in [Key -> SUBSET Entry]
           /\ NoDuplicates'
           /\ PurgedWithinATick'
<1> USE RecordCacheAssumption DEF IInv
<1>1. rr.key \in Key /\ rr.ttl \in Nat
  BY DEF Record
<1>2. cache[rr.key] \in SUBSET Entry /\ Distinct(cache[rr.key])
  BY <1>1 DEF TypeOK, NoDuplicates, Distinct
<1> DEFINE up == Upsert(cache[rr.key], rr)
<1>3. /\ up \subseteq Entry /\ Distinct(up)
      /\ \A e \in up : e \in cache[rr.key] \/ e.left = rr.ttl
  BY <1>2, UpsertEntries
<1>4. cache' = [cache EXCEPT ![rr.key] = up]
  OBVIOUS
<1> HIDE DEF up
<1>5. cache' \in [Key -> SUBSET Entry]
  BY <1>1, <1>3, <1>4 DEF TypeOK
<1>6. NoDuplicates'
  BY <1>1, <1>3, <1>4 DEF TypeOK, NoDuplicates, Distinct
<1>7. PurgedWithinATick'
  BY <1>1, <1>3, <1>4 DEF TypeOK, PurgedWithinATick
<1> QED
  BY <1>5, <1>6, <1>7

\* The three ways in which cacheLoop and the clock rewrite an entry.
LEMMA EntryUpdates ==
    ASSUME NEW e \in Entry
    PROVE  /\ [e EXCEPT !.ttl = PassiveTTL] \in Entry
           /\ [e EXCEPT !.ttl = PassiveTTL].rdata = e.rdata
           /\ [e EXCEPT !.ttl = PassiveTTL].left = e.left
           /\ [e EXCEPT !.refreshed = TRUE] \in Entry
           /\ [e EXCEPT !.refreshed = TRUE].rdata = e.rdata
           /\ [e EXCEPT !.refreshed = TRUE].left = e.left
           /\ [e EXCEPT !.left = @ - 1] \in Entry
           /\ [e EXCEPT !.left = @ - 1].rdata = e.rdata
           /\ [e EXCEPT !.left = @ - 1].left = e.left - 1
           /\ e.left \in Int
<1> USE RecordCacheAssumption DEF Entry
<1>1. /\ [e EXCEPT !.ttl = PassiveTTL] \in Entry
      /\ [e EXCEPT !.ttl = PassiveTTL].rdata = e.rdata
      /\ [e EXCEPT !.ttl = PassiveTTL].left = e.left
  OBVIOUS
<1>2. /\ [e EXCEPT !.refreshed = TRUE] \in Entry
      /\ [e EXCEPT !.refreshed = TRUE].rdata = e.rdata
      /\ [e EXCEPT !.refreshed = TRUE].left = e.left
  OBVIOUS
<1>3. /\ [e EXCEPT !.left = @ - 1] \in Entry
      /\ [e EXCEPT !.left = @ - 1].rdata = e.rdata
      /\ [e EXCEPT !.left = @ - 1].left = e.left - 1
  OBVIOUS
<1> QED
  BY <1>1, <1>2, <1>3

\* Every entry is rewritten, its RDATA apart, and the clock advances by d.
Rewrites(d) ==
    \E G \in [Key -> [Entry -> Entry]] :
        /\ \A k \in Key : \A e \in cache[k] :
              G[k][e].rdata = e.rdata /\ G[k][e].left = e.left - d
        /\ cache' = [k \in Key |-> {G[k][e] : e \in cache[k]}]

LEMMA RewriteStep ==
    ASSUME IInv, NEW d \in {0, 1}, Rewrites(d), tick' = tick - d
    PROVE  /\ cache' \in [Key -> SUBSET Entry]
           /\ NoDuplicates'
           /\ PurgedWithinATick'
<1> PICK G \in [Key -> [Entry -> Entry]] :
        /\ \A k \in Key : \A e \in cache[k] :
              G[k][e].rdata = e.rdata /\ G[k][e].left = e.left - d
        /\ cache' = [k \in Key |-> {G[k][e] : e \in cache[k]}]
  BY DEF Rewrites
<1>0. \A k \in Key : \A e \in cache[k] : e \in Entry /\ G[k][e] \in Entry
  BY DEF IInv, TypeOK
<1>1. cache' \in [Key -> SUBSET Entry]
  BY <1>0
<1>2. NoDuplicates'
  BY DEF IInv, NoDuplicates
<1>3. PurgedWithinATick'
  <2> SUFFICES ASSUME NEW k \in Key, NEW e \in cache[k]
               PROVE  G[k][e].left >= tick' - Tick
    BY DEF PurgedWithinATick
  <2>1. e \in Entry /\ e.left >= tick - Tick /\ tick \in Int /\ Tick \in Int
    BY RecordCacheAssumption DEF IInv, TypeOK, PurgedWithinATick
  <2>2. e.left \in Int
    BY <2>1 DEF Entry
  <2> QED
    BY <2>1, <2>2
<1> QED
  BY <1>1, <1>2, <1>3

\* handlePassiveObservation changes TTLs only: neither RDATA nor expiry.
LEMMA PassiveRewrites ==
    ASSUME IInv, HandlePassiveObservation
    PROVE  Rewrites(0)
<1> DEFINE Suspected(n) == \E sp \in Spelling :
               /\ passive[<<n, sp>>].count >= PassiveCount
               /\ passive[<<n, sp>>].age < PassiveWindow
           G == [k \in Key |-> [e \in Entry |->
                  IF Suspected(k[1]) /\ e.left > 0 /\ e.ttl > PassiveTTL
                  THEN [e EXCEPT !.ttl = PassiveTTL] ELSE e]]
<1>1. \A k \in Key : \A e \in cache[k] : e \in Entry
  BY DEF IInv, TypeOK
<1>2. ASSUME NEW k \in Key, NEW e \in Entry
      PROVE  G[k][e] = e \/ G[k][e] = [e EXCEPT !.ttl = PassiveTTL]
  OBVIOUS
<1>3. cache' = [k \in Key |-> {G[k][e] : e \in cache[k]}]
  BY <1>1 DEF HandlePassiveObservation
<1>4. G \in [Key -> [Entry -> Entry]]
  BY EntryUpdates
<1> HIDE DEF G
<1>5. ASSUME NEW k \in Key, NEW e \in cache[k]
      PROVE  G[k][e].rdata = e.rdata /\ G[k][e].left = e.left - 0
  <2>1. e \in Entry /\ e.left \in Int
    BY <1>1, EntryUpdates
  <2>2. e.left - 0 = e.left
    BY <2>1
  <2> QED
    BY <1>2, <2>1, <2>2, EntryUpdates, Zenon
<1> QED
  BY <1>3, <1>4, <1>5 DEF Rewrites

\* handleCacheMaintenance asks, and changes nothing in the cache.
LEMMA MaintenanceRewrites ==
    ASSUME IInv, HandleCacheMaintenance
    PROVE  Rewrites(0)
<1> DEFINE G == [k \in Key |-> [e \in Entry |->
                  IF k \in Browsed /\ NeedsRefresh(e)
                  THEN [e EXCEPT !.refreshed = TRUE] ELSE e]]
<1>1. \A k \in Key : \A e \in cache[k] : e \in Entry
  BY DEF IInv, TypeOK
<1>2. ASSUME NEW k \in Key, NEW e \in Entry
      PROVE  G[k][e] = e \/ G[k][e] = [e EXCEPT !.refreshed = TRUE]
  OBVIOUS
<1>3. cache' = [k \in Key |-> {G[k][e] : e \in cache[k]}]
  BY <1>1 DEF HandleCacheMaintenance
<1>4. G \in [Key -> [Entry -> Entry]]
  BY EntryUpdates
<1> HIDE DEF G
<1>5. ASSUME NEW k \in Key, NEW e \in cache[k]
      PROVE  G[k][e].rdata = e.rdata /\ G[k][e].left = e.left - 0
  <2>1. e \in Entry /\ e.left \in Int
    BY <1>1, EntryUpdates
  <2>2. e.left - 0 = e.left
    BY <2>1
  <2> QED
    BY <1>2, <2>1, <2>2, EntryUpdates, Zenon
<1> QED
  BY <1>3, <1>4, <1>5 DEF Rewrites

\* Time shortens every remaining lifetime by the same amount.
LEMMA ElapseRewrites ==
    ASSUME IInv, Elapse
    PROVE  Rewrites(1)
<1> DEFINE G == [k \in Key |-> [e \in Entry |-> [e EXCEPT !.left = @ - 1]]]
<1>1. \A k \in Key : \A e \in cache[k] : e \in Entry
  BY DEF IInv, TypeOK
<1>2. ASSUME NEW k \in Key, NEW e \in Entry
      PROVE  G[k][e] = [e EXCEPT !.left = @ - 1]
  OBVIOUS
<1>3. cache' = [k \in Key |-> {G[k][e] : e \in cache[k]}]
  BY <1>1 DEF Elapse
<1>4. G \in [Key -> [Entry -> Entry]]
  BY EntryUpdates
<1> HIDE DEF G
<1>5. ASSUME NEW k \in Key, NEW e \in cache[k]
      PROVE  G[k][e].rdata = e.rdata /\ G[k][e].left = e.left - 1
  <2>1. e \in Entry /\ e.left \in Int
    BY <1>1, EntryUpdates
  <2> QED
    BY <1>2, <2>1, EntryUpdates, Zenon
<1> QED
  BY <1>3, <1>4, <1>5 DEF Rewrites

\* Tracking grows older without leaving its range.
Track == [count : 0 .. PassiveCount, age : 0 .. PassiveForget + 1]

LEMMA TrackAges ==
    ASSUME NEW p \in Track, ~(p.count = 0 \/ p.age > PassiveForget)
    PROVE  [p EXCEPT !.age = @ + 1] \in Track
<1>1. p.age + 1 \in 0 .. PassiveForget + 1
  BY RecordCacheAssumption DEF Track
<1> QED
  BY <1>1 DEF Track

\* Every step of the server preserves IInv.
LEMMA StepIInv == IInv /\ [Next]_vars => IInv'
<1> SUFFICES ASSUME IInv, [Next]_vars PROVE IInv'
  OBVIOUS
<1> USE RecordCacheAssumption DEF IInv, TypeOK, NoDuplicates, PurgedWithinATick
<1>1. ASSUME NEW msg \in Response, Received(msg)
      PROVE  IInv'
  BY <1>1, ResponseHeard DEF Received
<1>2. ASSUME HandleRecord PROVE IInv'
  <2> DEFINE rr == Head(inbox)
  <2>1. rr \in Record /\ Tail(inbox) \in Seq(Heard) /\ rr.key \in Key
    BY <1>2, NextRecord DEF HandleRecord, Record
  <2>2. rr.key[1] \in Name
    BY <2>1 DEF Key
  <2>3. CASE rr.ttl = 0
    BY <1>2, <2>1, <2>3 DEF HandleRecord
  <2>4. CASE rr.ttl # 0
    <3>1. cache' \in [Key -> SUBSET Entry] /\ NoDuplicates' /\ PurgedWithinATick'
      BY <1>2, <2>1, <2>4, UpsertStep DEF HandleRecord
    <3> QED
      BY <1>2, <2>1, <2>2, <2>4, <3>1 DEF HandleRecord
  <2> QED
    BY <2>3, <2>4
<1>3. ASSUME ClearPassive PROVE IInv'
  BY <1>3 DEF ClearPassive, Untracked
<1>4. ASSUME NEW o \in Observed, TrackPassiveQuery(o) PROVE IInv'
  <2>1. passive' \in [Name \X Spelling ->
                          [count : 0 .. PassiveCount, age : 0 .. PassiveForget + 1]]
    BY <1>4 DEF TrackPassiveQuery
  <2> QED
    BY <1>4, <2>1 DEF TrackPassiveQuery
<1>5. ASSUME CacheHostRecord PROVE IInv'
  <2> DEFINE rr == HostRecord(hosted + 1)
  <2>1. rr \in Record /\ rr.ttl # 0 /\ rr.key = HostKey
    BY <1>5, NextHostRecord DEF CacheHostRecord
  <2>2. cache' \in [Key -> SUBSET Entry] /\ NoDuplicates' /\ PurgedWithinATick'
    <3>1. cache' = [cache EXCEPT ![rr.key] = Upsert(@, rr)] /\ tick' = tick
      BY <1>5, <2>1 DEF CacheHostRecord
    <3> HIDE DEF rr
    <3> QED
      BY <2>1, <3>1, UpsertStep
  <2>3. hosted' \in 0 .. Len(HostRecords)
    BY <1>5 DEF CacheHostRecord
  <2>4. UNCHANGED <<inbox, clearing, loop, tick, passive>>
    BY <1>5 DEF CacheHostRecord
  <2> HIDE DEF NoDuplicates, PurgedWithinATick
  <2> QED
    BY <2>2, <2>3, <2>4
<1>6. ASSUME NEW n \in Removable, RemoveName(n) PROVE IInv'
  BY <1>6 DEF RemoveName
<1>7. ASSUME Expire PROVE IInv'
  BY <1>7 DEF Expire, Live, Entry
<1>8. ASSUME HandlePassiveObservation PROVE IInv'
  <2>1. passive' \in [Name \X Spelling ->
                          [count : 0 .. PassiveCount, age : 0 .. PassiveForget + 1]]
    BY <1>8 DEF HandlePassiveObservation, Untracked
  <2>2. tick' \in 0 .. Tick /\ tick' = tick - 0
    BY <1>8 DEF HandlePassiveObservation
  <2> HIDE DEF NoDuplicates, PurgedWithinATick
  <2>3. cache' \in [Key -> SUBSET Entry] /\ NoDuplicates' /\ PurgedWithinATick'
    <3> HIDE DEF IInv, TypeOK
    <3> QED
      BY <1>8, <2>2, PassiveRewrites, RewriteStep
  <2> QED
    BY <1>8, <2>1, <2>2, <2>3 DEF HandlePassiveObservation
<1>9. ASSUME HandleCacheMaintenance PROVE IInv'
  <2>2. tick' \in 0 .. Tick /\ tick' = tick - 0
    BY <1>9 DEF HandleCacheMaintenance
  <2> HIDE DEF NoDuplicates, PurgedWithinATick
  <2>3. cache' \in [Key -> SUBSET Entry] /\ NoDuplicates' /\ PurgedWithinATick'
    <3> HIDE DEF IInv, TypeOK
    <3> QED
      BY <1>9, <2>2, MaintenanceRewrites, RewriteStep
  <2> QED
    BY <1>9, <2>2, <2>3 DEF HandleCacheMaintenance
<1>10. ASSUME Elapse PROVE IInv'
  <2>1. passive' \in [Name \X Spelling ->
                          [count : 0 .. PassiveCount, age : 0 .. PassiveForget + 1]]
    <3> HIDE DEF IInv, TypeOK, NoDuplicates, PurgedWithinATick
    <3>1. passive \in [Name \X Spelling -> Track]
      BY DEF IInv, TypeOK, Track
    <3>2. passive' \in [Name \X Spelling -> Track]
      BY <1>10, <3>1, TrackAges DEF Elapse
    <3> QED
      BY <3>2 DEF Track
  <2>2. tick' \in 0 .. Tick /\ tick' = tick - 1
    BY <1>10 DEF Elapse
  <2> HIDE DEF NoDuplicates, PurgedWithinATick
  <2>3. cache' \in [Key -> SUBSET Entry] /\ NoDuplicates' /\ PurgedWithinATick'
    <3> HIDE DEF IInv, TypeOK
    <3> QED
      BY <1>10, <2>2, ElapseRewrites, RewriteStep
  <2> QED
    BY <1>10, <2>1, <2>2, <2>3 DEF Elapse
<1>11. ASSUME UNCHANGED vars PROVE IInv'
  BY <1>11 DEF vars
<1> QED
  BY <1>1, <1>2, <1>3, <1>4, <1>5, <1>6, <1>7, <1>8, <1>9, <1>10, <1>11 DEF Next

THEOREM InductiveInvariant == Spec => []IInv
  BY InitIInv, StepIInv, PTL DEF Spec

\* The cache and its loops are well typed.
THEOREM TypeCorrect == Spec => []TypeOK
  BY InductiveInvariant, PTL DEF IInv

\* A key never holds the same RDATA twice, whatever is received, expires or is
\* refreshed in between.
THEOREM CacheHasNoDuplicates == Spec => []NoDuplicates
  BY InductiveInvariant, PTL DEF IInv

\* No entry is kept for more than a period of the ticker after it expired.
THEOREM CacheIsPurged == Spec => []PurgedWithinATick
  BY InductiveInvariant, PTL DEF IInv

-----------------------------------------------------------------------------
(* The cache implements RecordStore. *)

\* How much longer r is returned from the entries S.
LeftIn(S, r) ==
    IF \E e \in {x \in S : x.left > 0} : e.rdata = r
    THEN (CHOOSE e \in {x \in S : x.left > 0} : e.rdata = r).left ELSE 0

LEMMA AliveIsLeftIn == Alive = [k \in Key |-> [r \in Rdata |-> LeftIn(cache[k], r)]]
  BY DEF Alive, Live, LeftIn

\* Without duplicates LeftIn does not depend on the choice.
LEMMA LeftInValue ==
    ASSUME NEW S \in SUBSET Entry, Distinct(S), NEW r
    PROVE  /\ \A e \in S : e.rdata = r /\ e.left > 0 => LeftIn(S, r) = e.left
           /\ (\A e \in S : e.rdata = r => ~(e.left > 0)) => LeftIn(S, r) = 0
           /\ LeftIn(S, r) \in Nat
<1>1. ASSUME NEW e \in S, e.rdata = r, e.left > 0 PROVE LeftIn(S, r) = e.left
  <2> DEFINE c == CHOOSE x \in {x \in S : x.left > 0} : x.rdata = r
  <2>1. c \in S /\ c.rdata = r
    BY <1>1
  <2>2. c = e
    BY <1>1, <2>1 DEF Distinct
  <2>3. LeftIn(S, r) = c.left
    BY <1>1 DEF LeftIn
  <2> QED
    BY <2>2, <2>3
<1>2. ASSUME \A e \in S : e.rdata = r => ~(e.left > 0) PROVE LeftIn(S, r) = 0
  BY <1>2 DEF LeftIn
<1>3. LeftIn(S, r) \in Nat
  <2>1. CASE \E e \in S : e.rdata = r /\ e.left > 0
    BY <1>1, <2>1 DEF Entry
  <2>2. CASE ~ \E e \in S : e.rdata = r /\ e.left > 0
    BY <1>2, <2>2
  <2> QED
    BY <2>1, <2>2
<1> QED
  BY <1>1, <1>2, <1>3

\* What an upsert does to the lifetimes under its key.
LEMMA UpsertLeft ==
    ASSUME NEW S \in SUBSET Entry, Distinct(S), NEW rr \in Record, rr.ttl # 0,
           NEW r \in Rdata
    PROVE  LeftIn(Upsert(S, rr), r) =
               IF r = rr.rdata THEN rr.ttl
               ELSE IF rr.flush THEN 0 ELSE LeftIn(S, r)
<1> DEFINE U == Upsert(S, rr)
<1>1. U \in SUBSET Entry /\ Distinct(U)
  BY UpsertEntries
<1>2. rr.ttl > 0
  BY DEF Record
<1>3. \E e \in U : e.rdata = rr.rdata /\ e.left = rr.ttl
  BY UpsertEntries
<1>4. CASE r = rr.rdata
  BY <1>1, <1>2, <1>3, <1>4, LeftInValue
<1>5. CASE r # rr.rdata /\ rr.flush
  <2>1. \A e \in U : e.rdata # r
    BY <1>5 DEF Upsert, Fresh
  <2> QED
    BY <1>1, <1>5, <2>1, LeftInValue
<1>6. CASE r # rr.rdata /\ ~rr.flush
  <2>1. \A e \in Entry : e.rdata = r => (e \in U <=> e \in S)
    BY <1>6 DEF Upsert, Fresh
  <2>2. CASE \E e \in S : e.rdata = r /\ e.left > 0
    BY <1>1, <1>6, <2>1, <2>2, LeftInValue
  <2>3. CASE ~ \E e \in S : e.rdata = r /\ e.left > 0
    BY <1>1, <1>6, <2>1, <2>3, LeftInValue
  <2> QED
    BY <2>2, <2>3
<1> QED
  BY <1>4, <1>5, <1>6

\* What rewriting does to the lifetimes: they shrink by d, down to zero.
LEMMA RewriteLeft ==
    ASSUME IInv, IInv', NEW d \in {0, 1}, Rewrites(d), NEW k \in Key, NEW r \in Rdata
    PROVE  LeftIn(cache'[k], r) =
               IF LeftIn(cache[k], r) > 0 THEN LeftIn(cache[k], r) - d ELSE 0
<1> PICK G \in [Key -> [Entry -> Entry]] :
        /\ \A j \in Key : \A e \in cache[j] :
              G[j][e].rdata = e.rdata /\ G[j][e].left = e.left - d
        /\ cache' = [j \in Key |-> {G[j][e] : e \in cache[j]}]
  BY DEF Rewrites
<1> DEFINE S == cache[k]
           T == cache'[k]
<1>1. S \in SUBSET Entry /\ Distinct(S) /\ T \in SUBSET Entry /\ Distinct(T)
  BY DEF IInv, TypeOK, NoDuplicates, Distinct
<1>2. T = {G[k][e] : e \in S}
  OBVIOUS
<1>3. \A e \in S : /\ G[k][e] \in T /\ G[k][e].rdata = e.rdata
                   /\ G[k][e].left = e.left - d /\ e.left \in Int
  BY <1>1, <1>2 DEF Entry
<1> HIDE DEF S, T
<1>4. CASE \E e \in S : e.rdata = r /\ e.left > 0
  <2> PICK e \in S : e.rdata = r /\ e.left > 0
    BY <1>4
  <2>1. LeftIn(S, r) = e.left
    BY <1>1, LeftInValue
  <2>2. CASE e.left - d > 0
    <3>1. LeftIn(T, r) = e.left - d
      BY <1>1, <1>3, <2>2, LeftInValue
    <3> QED
      BY <2>1, <3>1 DEF S, T
  <2>3. CASE ~(e.left - d > 0)
    <3>0. e.left \in Int /\ e.left > 0
      BY <1>3
    <3>1. e.left - d = 0
      <4> DEFINE x == e.left
      <4>1. x \in Int /\ x > 0 /\ ~(x - d > 0)
        BY <2>3, <3>0
      <4> HIDE DEF x
      <4>2. x - d = 0
        BY <4>1
      <4> QED
        BY <4>2 DEF x
    <3>2. \A f \in T : f.rdata = r => ~(f.left > 0)
      BY <1>1, <1>2, <1>3, <3>1 DEF Distinct
    <3>3. LeftIn(T, r) = 0
      BY <1>1, <3>2, LeftInValue
    <3> QED
      BY <2>1, <3>1, <3>3 DEF S, T
  <2> QED
    BY <2>2, <2>3
<1>5. CASE \A e \in S : e.rdata = r => ~(e.left > 0)
  <2>1. LeftIn(S, r) = 0
    BY <1>1, <1>5, LeftInValue
  <2>2. \A f \in T : f.rdata = r => ~(f.left > 0)
    BY <1>2, <1>3, <1>5
  <2>3. LeftIn(T, r) = 0
    BY <1>1, <2>2, LeftInValue
  <2> QED
    BY <2>1, <2>3 DEF S, T
<1> QED
  BY <1>4, <1>5

\* A stored record is an announcement.
LEMMA UpsertAnnounces ==
    ASSUME IInv, NEW rr \in Record, rr.ttl # 0, rr \in Announcement,
           cache' = [cache EXCEPT ![rr.key] = Upsert(@, rr)]
    PROVE  Store!Next
<1>1. /\ rr.key \in Key /\ rr.rdata \in Rdata
      /\ rr.ttl \in 1 .. MaxTTL /\ rr.flush \in BOOLEAN
  BY RecordCacheAssumption DEF Record
<1>2. cache[rr.key] \in SUBSET Entry /\ Distinct(cache[rr.key])
  BY <1>1 DEF IInv, TypeOK, NoDuplicates, Distinct
<1>3. /\ cache'[rr.key] = Upsert(cache[rr.key], rr)
      /\ \A k \in Key : k # rr.key => cache'[k] = cache[k]
  BY <1>1 DEF IInv, TypeOK
<1>4. \A r \in Rdata : LeftIn(cache'[rr.key], r) =
          IF r = rr.rdata THEN rr.ttl
          ELSE IF rr.flush THEN 0 ELSE LeftIn(cache[rr.key], r)
  BY <1>2, <1>3, UpsertLeft
<1>5. Alive' = [k \in Key |-> [r \in Rdata |-> LeftIn(cache'[k], r)]]
  BY AliveIsLeftIn DEF Alive, Live, LeftIn
<1> DEFINE row == [x \in Rdata |-> IF x = rr.rdata THEN rr.ttl
                               ELSE IF rr.flush THEN 0
                               ELSE Alive[rr.key][x]]
<1>6. Alive = [k \in Key |-> [r \in Rdata |-> LeftIn(cache[k], r)]]
  BY AliveIsLeftIn
<1>7. row = [r \in Rdata |-> LeftIn(cache'[rr.key], r)]
  BY <1>1, <1>4, <1>6
<1>8. Alive' = [k \in Key |-> IF k = rr.key THEN row ELSE Alive[k]]
  <2> HIDE DEF row
  <2>1. \A k \in Key : Alive'[k] = IF k = rr.key THEN row ELSE Alive[k]
    BY <1>3, <1>5, <1>6, <1>7
  <2> QED
    BY <1>5, <2>1
<1>9. Alive' = [Alive EXCEPT ![rr.key] = row]
  <2> HIDE DEF row
  <2> QED
    BY <1>6, <1>8
<1>10. Store!Announce(rr)
  BY <1>9 DEF Store!Announce
<1> QED
  BY <1>10 DEF Store!Next

\* Alive in the next state.
LEMMA AliveNext == Alive' = [k \in Key |-> [r \in Rdata |-> LeftIn(cache'[k], r)]]
  BY DEF Alive, Live, LeftIn

\* Emptying keys withdraws them: a goodbye, and RemoveName.
LEMMA EmptyingWithdraws ==
    ASSUME NEW K, cache' = [k \in Key |-> IF k \in K THEN {} ELSE cache[k]]
    PROVE  Store!Withdraw(K)
<1>1. \A r \in Rdata : LeftIn({}, r) = 0
  BY DEF LeftIn
<1>2. \A k \in Key : Alive'[k] = IF k \in K THEN [r \in Rdata |-> 0] ELSE Alive[k]
  BY <1>1, AliveIsLeftIn, AliveNext
<1>3. Alive' = [k \in Key |-> IF k \in K THEN [r \in Rdata |-> 0] ELSE Alive[k]]
  BY <1>2, AliveNext
<1> QED
  BY <1>3 DEF Store!Withdraw, Store!Key, Key

\* Rewriting that moves no expiry is invisible.
LEMMA RewriteInvisible ==
    ASSUME IInv, IInv', Rewrites(0)
    PROVE  Alive' = Alive
<1>1. ASSUME NEW k \in Key, NEW r \in Rdata
      PROVE  LeftIn(cache'[k], r) = LeftIn(cache[k], r)
  <2>1. LeftIn(cache[k], r) \in Nat
    BY LeftInValue DEF IInv, TypeOK, NoDuplicates, Distinct
  <2>2. LeftIn(cache'[k], r) =
            IF LeftIn(cache[k], r) > 0 THEN LeftIn(cache[k], r) - 0 ELSE 0
    BY RewriteLeft
  <2> QED
    BY <2>1, <2>2
<1> QED
  BY <1>1, AliveIsLeftIn, AliveNext

\* Purging is invisible: lookups never returned what is dropped.
LEMMA ExpireInvisible ==
    ASSUME Expire, IInv
    PROVE  Alive' = Alive
<1>1. \A k \in Key : {e \in cache'[k] : e.left > 0} = {e \in cache[k] : e.left > 0}
  BY DEF Expire, Live
<1>2. \A k \in Key, r \in Rdata : LeftIn(cache'[k], r) = LeftIn(cache[k], r)
  BY <1>1 DEF LeftIn
<1> QED
  BY <1>2, AliveIsLeftIn, AliveNext

\* The clock of the store is the clock of the cache.
LEMMA ElapseElapses ==
    ASSUME IInv, IInv', Elapse
    PROVE  Store!Elapse
<1>1. Rewrites(1)
  BY ElapseRewrites
<1>2. ASSUME NEW k \in Key, NEW r \in Rdata
      PROVE  Alive'[k][r] = IF Alive[k][r] > 0 THEN Alive[k][r] - 1 ELSE 0
  <2>1. LeftIn(cache'[k], r) =
            IF LeftIn(cache[k], r) > 0 THEN LeftIn(cache[k], r) - 1 ELSE 0
    BY <1>1, RewriteLeft
  <2> QED
    BY <2>1, AliveIsLeftIn, AliveNext
<1>3. Alive' = [k \in Key |-> [r \in Rdata |->
                   IF Alive[k][r] > 0 THEN Alive[k][r] - 1 ELSE 0]]
  BY <1>2, AliveNext
<1> QED
  BY <1>3 DEF Store!Elapse, Store!Key, Key

\* Every step of the cache is a step of the store, or does not show.
LEMMA StepRefines ==
    ASSUME IInv, IInv', [Next]_vars
    PROVE  [Store!Next]_Alive
<1>0. ASSUME cache' = cache PROVE Alive' = Alive
  BY <1>0, AliveIsLeftIn, AliveNext
<1>1. ASSUME NEW msg \in Response, Received(msg)
      PROVE  Alive' = Alive
  BY <1>0, <1>1 DEF Received
<1>2. ASSUME HandleRecord PROVE Store!Next
  <2> DEFINE rr == Head(inbox)
  <2>1. rr \in Record /\ rr.key \in Key /\ rr \in Heard
    BY <1>2, NextRecord DEF HandleRecord, Record, IInv, TypeOK
  <2>2. CASE rr.ttl = 0
    <3>1. cache' = [k \in Key |-> IF k \in {rr.key} THEN {} ELSE cache[k]]
      BY <1>2, <2>1, <2>2 DEF HandleRecord, IInv, TypeOK
    <3>2. Store!Withdraw({rr.key})
      BY <3>1, EmptyingWithdraws
    <3> QED
      BY <2>1, <3>2 DEF Store!Next, Store!Key, Key
  <2>3. CASE rr.ttl # 0
    <3>1. cache' = [cache EXCEPT ![rr.key] = Upsert(@, rr)]
      BY <1>2, <2>3 DEF HandleRecord
    <3> HIDE DEF rr
    <3>2. rr \in Announcement
      BY <2>1, <2>3 DEF Announcement
    <3> QED
      BY <2>1, <2>3, <3>1, <3>2, UpsertAnnounces
  <2> QED
    BY <2>2, <2>3
<1>3. ASSUME ClearPassive PROVE Alive' = Alive
  BY <1>0, <1>3 DEF ClearPassive
<1>4. ASSUME NEW o \in Observed, TrackPassiveQuery(o) PROVE Alive' = Alive
  BY <1>0, <1>4 DEF TrackPassiveQuery
<1>5. ASSUME CacheHostRecord PROVE Store!Next
  <2> DEFINE rr == HostRecord(hosted + 1)
  <2>1. rr \in Record /\ rr.ttl # 0 /\ rr.key = HostKey /\ rr \in Announcement
    BY <1>5, NextHostRecord DEF CacheHostRecord, IInv, Announcement
  <2>2. cache' = [cache EXCEPT ![rr.key] = Upsert(@, rr)]
    BY <1>5, <2>1 DEF CacheHostRecord
  <2> HIDE DEF rr
  <2> QED
    BY <2>1, <2>2, UpsertAnnounces
<1>6. ASSUME NEW n \in Removable, RemoveName(n) PROVE Store!Next
  <2>1. n \in Name
    BY RecordCacheAssumption
  <2>2. \A k \in Key : k[1] = n <=> k \in {n} \X Type
    BY <2>1 DEF Key
  <2>3. cache' = [k \in Key |-> IF k \in {n} \X Type THEN {} ELSE cache[k]]
    BY <1>6, <2>2 DEF RemoveName
  <2>4. Store!Withdraw({n} \X Type)
    BY <2>3, EmptyingWithdraws
  <2> QED
    BY <2>1, <2>4 DEF Store!Next
<1>7. ASSUME Expire PROVE Alive' = Alive
  BY <1>7, ExpireInvisible
<1>8. ASSUME HandlePassiveObservation PROVE Alive' = Alive
  BY <1>8, PassiveRewrites, RewriteInvisible
<1>9. ASSUME HandleCacheMaintenance PROVE Alive' = Alive
  BY <1>9, MaintenanceRewrites, RewriteInvisible
<1>10. ASSUME Elapse PROVE Store!Next
  BY <1>10, ElapseElapses DEF Store!Next
<1>11. ASSUME UNCHANGED vars PROVE Alive' = Alive
  BY <1>0, <1>11 DEF vars
<1> QED
  BY <1>1, <1>2, <1>3, <1>4, <1>5, <1>6, <1>7, <1>8, <1>9, <1>10, <1>11 DEF Next

\* The cache starts as an empty store.
LEMMA InitRefines == Init => Store!Init
<1> SUFFICES ASSUME Init PROVE Alive = [k \in Key |-> [r \in Rdata |-> 0]]
  BY DEF Store!Init, Store!Key, Key
<1>1. \A k \in Key, r \in Rdata : LeftIn(cache[k], r) = 0
  BY DEF Init, LeftIn
<1> QED
  BY <1>1, AliveIsLeftIn

\* For every set of names, every lifetime and every sequence of responses, what
\* lookups return is what RecordStore promises: purging, passive observation and
\* maintenance change nothing of it.
THEOREM CacheImplementsStore == Spec => ImplementsStore
<1>1. Init => Store!Init
  BY InitRefines
<1>2. IInv /\ IInv' /\ [Next]_vars => [Store!Next]_Alive
  BY StepRefines
<1> QED
  BY <1>1, <1>2, InductiveInvariant, PTL DEF Spec, ImplementsStore, Store!Spec

-----------------------------------------------------------------------------
(* Refreshing. *)

\* A fifth of the lifetime of every followed record is a period of the ticker
\* or more, and passive observation either leaves it so or never suspects a
\* followed name.
KeepsUp ==
    /\ \A rr \in Heard : rr.key \in Browsed /\ rr.ttl # 0 => Tick <= rr.ttl \div 5
    /\ HostKey \in Browsed => Tick <= HostTTL \div 5
    /\ \/ Tick <= PassiveTTL \div 5
       \/ \A o \in Observed, k \in Browsed : o[1] # k[1]

\* What is left of a followed record, d before the next tick, if it has not been
\* asked for: the tick before found more than a fifth.
InTime(e, d) ==
    /\ Tick <= e.ttl \div 5
    /\ e.refreshed \/ e.left > (e.ttl \div 5) - Tick + d

\* While the ticker's work is under way it has not looked at the entries yet.
ToTick == IF loop = "wait" THEN tick ELSE 0

RefreshInv == \A k \in Browsed : \A e \in cache[k] : InTime(e, ToTick)

\* Names that nobody asks for are not suspected.
UnseenInv == \A o \in Name \X Spelling : o \notin Observed => passive[o].count = 0

RInv == IInv /\ RefreshInv /\ UnseenInv

\* A new record has its whole lifetime left.
LEMMA FreshInTime ==
    ASSUME NEW rr \in Record, Tick <= rr.ttl \div 5, NEW d \in 0 .. Tick
    PROVE  InTime(Fresh(rr), d)
<1>1. /\ Fresh(rr).ttl = rr.ttl /\ Fresh(rr).left = rr.ttl
      /\ rr.ttl \in Nat /\ Tick \in Nat \ {0}
  BY RecordCacheAssumption DEF Fresh, Record
<1>2. rr.ttl > rr.ttl \div 5
  BY <1>1
<1> QED
  BY <1>1, <1>2 DEF InTime

\* Arithmetic, apart from the division.
LEMMA LeftBound ==
    \A x, t, u, k, d \in Int :
        x > t - k + d => /\ u <= t => x > u - k + d
                         /\ x - 1 > t - k + (d - 1)
OBVIOUS

\* What passive observation, maintenance and time do to one followed entry.
LEMMA EntryInTime ==
    ASSUME NEW e \in Entry, NEW d \in 0 .. Tick, InTime(e, d)
    PROVE  /\ e.left <= 0 => e.refreshed
           /\ Tick <= PassiveTTL \div 5 /\ e.ttl > PassiveTTL
                 => InTime([e EXCEPT !.ttl = PassiveTTL], d)
           /\ NeedsRefresh(e) => InTime([e EXCEPT !.refreshed = TRUE], Tick)
           /\ ~NeedsRefresh(e) => InTime(e, Tick)
           /\ d > 0 => InTime([e EXCEPT !.left = @ - 1], d - 1)
<1> USE RecordCacheAssumption
<1>1. /\ e.ttl \in Nat /\ e.left \in Int /\ e.refreshed \in BOOLEAN
      /\ Tick \in Nat \ {0} /\ PassiveTTL \in Nat \ {0} /\ d \in Nat /\ d <= Tick
  BY DEF Entry
<1>2. e.left <= 0 => e.refreshed
  BY <1>1 DEF InTime
<1>3. ASSUME Tick <= PassiveTTL \div 5, e.ttl > PassiveTTL
      PROVE  InTime([e EXCEPT !.ttl = PassiveTTL], d)
  <2>1. PassiveTTL \div 5 <= e.ttl \div 5
    BY <1>1, <1>3
  <2>2. /\ [e EXCEPT !.ttl = PassiveTTL].ttl = PassiveTTL
        /\ [e EXCEPT !.ttl = PassiveTTL].left = e.left
        /\ [e EXCEPT !.ttl = PassiveTTL].refreshed = e.refreshed
    BY DEF Entry
  <2> PICK f, t, u : /\ f = [e EXCEPT !.ttl = PassiveTTL]
                     /\ t = e.ttl \div 5 /\ u = PassiveTTL \div 5
    OBVIOUS
  <2>3. t \in Int /\ u \in Int /\ Tick <= u /\ u <= t
    BY <1>1, <1>3, <2>1
  <2>4. e.refreshed \/ e.left > t - Tick + d
    BY DEF InTime
  <2>5. e.left > t - Tick + d => e.left > u - Tick + d
    <3>1. e.left \in Int /\ Tick \in Int /\ d \in Int
      BY <1>1
    <3> QED
      BY <2>3, <3>1, LeftBound
  <2>6. f.ttl \div 5 = u /\ f.left = e.left /\ f.refreshed = e.refreshed
    BY <2>2
  <2>7. InTime(f, d)
    BY <2>3, <2>4, <2>5, <2>6 DEF InTime
  <2> QED
    BY <2>7
<1>4. InTime([e EXCEPT !.refreshed = TRUE], Tick)
  BY DEF InTime, Entry
<1>5. ~NeedsRefresh(e) => InTime(e, Tick)
  BY <1>1, <1>2 DEF InTime, NeedsRefresh
<1>6. ASSUME d > 0 PROVE InTime([e EXCEPT !.left = @ - 1], d - 1)
  <2>1. /\ [e EXCEPT !.left = @ - 1].ttl = e.ttl
        /\ [e EXCEPT !.left = @ - 1].left = e.left - 1
        /\ [e EXCEPT !.left = @ - 1].refreshed = e.refreshed
    BY DEF Entry
  <2> PICK f, t : f = [e EXCEPT !.left = @ - 1] /\ t = e.ttl \div 5
    OBVIOUS
  <2>2. t \in Int
    BY <1>1
  <2>3. Tick <= t /\ (e.refreshed \/ e.left > t - Tick + d)
    BY DEF InTime
  <2>4. e.left > t - Tick + d => e.left - 1 > t - Tick + (d - 1)
    <3>1. e.left \in Int /\ Tick \in Int /\ d \in Int
      BY <1>1
    <3> QED
      BY <2>2, <3>1, LeftBound
  <2>5. f.ttl \div 5 = t /\ f.left = e.left - 1 /\ f.refreshed = e.refreshed
    BY <2>1
  <2>6. InTime(f, d - 1)
    BY <2>3, <2>4, <2>5 DEF InTime
  <2> QED
    BY <2>6
<1> QED
  BY <1>2, <1>3, <1>4, <1>5, <1>6

\* An upsert of a record that keeps up with the ticker.
LEMMA UpsertInTime ==
    ASSUME RInv, NEW rr \in Record, rr.key \in Browsed => Tick <= rr.ttl \div 5,
           cache' = [cache EXCEPT ![rr.key] = Upsert(@, rr)],
           loop' = loop, tick' = tick
    PROVE  RefreshInv'
<1> SUFFICES ASSUME NEW k \in Browsed, NEW e \in cache'[k] PROVE InTime(e, ToTick)'
  BY DEF RefreshInv
<1>1. ToTick \in 0 .. Tick /\ ToTick' = ToTick /\ k \in Key /\ rr.key \in Key
  BY RecordCacheAssumption DEF RInv, IInv, TypeOK, ToTick, Record
<1>2. e \in cache[k] \/ (k = rr.key /\ e = Fresh(rr))
  BY <1>1 DEF RInv, IInv, TypeOK, Upsert
<1>3. InTime(e, ToTick)
  BY <1>1, <1>2, FreshInTime DEF RInv, RefreshInv
<1> QED
  BY <1>1, <1>3 DEF InTime

LEMMA InitRInv == Init => RInv
<1> SUFFICES ASSUME Init PROVE RInv
  OBVIOUS
<1>1. IInv
  BY InitIInv
<1>2. RefreshInv
  BY RecordCacheAssumption DEF Init, RefreshInv
<1>3. UnseenInv
  BY DEF Init, UnseenInv, Untracked
<1> QED
  BY <1>1, <1>2, <1>3 DEF RInv

\* Only queries of other hosts are tracked.
LEMMA StepUnseen ==
    ASSUME RInv, [Next]_vars
    PROVE  UnseenInv'
<1> USE DEF RInv, IInv, TypeOK, UnseenInv, Untracked
<1>1. CASE ClearPassive
  BY <1>1 DEF ClearPassive
<1>2. CASE \E o \in Observed : TrackPassiveQuery(o)
  BY <1>2 DEF TrackPassiveQuery
<1>3. CASE HandlePassiveObservation
  BY <1>3 DEF HandlePassiveObservation
<1>4. CASE Elapse
  BY <1>4 DEF Elapse
<1>5. CASE passive' = passive
  BY <1>5
<1> QED
  BY <1>1, <1>2, <1>3, <1>4, <1>5
     DEF Next, vars, Received, HandleRecord, CacheHostRecord, RemoveName, Expire,
         HandleCacheMaintenance

\* What is in the cache keeps its time, whatever step the server takes.
LEMMA StepRefresh ==
    ASSUME KeepsUp, RInv, [Next]_vars
    PROVE  RefreshInv'
<1> USE RecordCacheAssumption
<1>0. /\ \A k \in Browsed : k \in Key /\ \A e \in cache[k] : e \in Entry /\ InTime(e, ToTick)
      /\ ToTick \in 0 .. Tick /\ tick \in 0 .. Tick
  BY DEF RInv, RefreshInv, IInv, TypeOK, ToTick
<1>1. CASE UNCHANGED <<cache, loop, tick>>
  BY <1>1 DEF RInv, RefreshInv, ToTick, InTime
<1>2. CASE HandleRecord
  <2> DEFINE rr == Head(inbox)
  <2>1. rr \in Heard /\ rr \in Record /\ loop' = loop /\ tick' = tick
    BY <1>2, NextRecord DEF HandleRecord, RInv, IInv
  <2>2. \/ cache' = [cache EXCEPT ![rr.key] = {}]
        \/ rr.ttl # 0 /\ cache' = [cache EXCEPT ![rr.key] = Upsert(@, rr)]
    BY <1>2 DEF HandleRecord
  <2> HIDE DEF rr
  <2>3. CASE cache' = [cache EXCEPT ![rr.key] = {}]
    <3>1. \A k \in Browsed : cache'[k] \subseteq cache[k]
      BY <1>0, <2>3 DEF RInv, IInv, TypeOK
    <3> QED
      BY <2>1, <3>1 DEF RInv, RefreshInv, ToTick, InTime
  <2>4. CASE rr.ttl # 0 /\ cache' = [cache EXCEPT ![rr.key] = Upsert(@, rr)]
    BY <2>1, <2>4, UpsertInTime DEF KeepsUp
  <2> QED
    BY <2>2, <2>3, <2>4
<1>3. CASE CacheHostRecord
  <2> DEFINE rr == HostRecord(hosted + 1)
  <2>1. rr \in Record /\ rr.key = HostKey /\ rr.ttl = HostTTL
    BY <1>3, NextHostRecord DEF CacheHostRecord, RInv, IInv, HostRecord
  <2>2. cache' = [cache EXCEPT ![rr.key] = Upsert(@, rr)] /\ loop' = loop /\ tick' = tick
    BY <1>3, <2>1 DEF CacheHostRecord
  <2> HIDE DEF rr
  <2> QED
    BY <2>1, <2>2, UpsertInTime DEF KeepsUp
<1>4. CASE \E n \in Removable : RemoveName(n)
  <2>1. (\A k \in Browsed : cache'[k] \subseteq cache[k]) /\ loop' = loop /\ tick' = tick
    BY <1>0, <1>4 DEF RemoveName, RInv, IInv, TypeOK
  <2> QED
    BY <2>1 DEF RInv, RefreshInv, ToTick, InTime
<1>5. CASE Expire
  <2>1. (\A k \in Browsed : cache'[k] \subseteq cache[k]) /\ ToTick = 0 /\ ToTick' = 0
    BY <1>0, <1>5 DEF Expire, Live, RInv, IInv, TypeOK, ToTick
  <2> QED
    BY <2>1 DEF RInv, RefreshInv, InTime
<1>6. CASE HandlePassiveObservation
  <2>1. ToTick = 0 /\ ToTick' = 0
    BY <1>6 DEF HandlePassiveObservation, ToTick
  <2> SUFFICES ASSUME NEW k \in Browsed, NEW f \in cache'[k] PROVE InTime(f, 0)
    BY <2>1 DEF RefreshInv, InTime
  <2>2. PICK e \in cache[k] :
          \/ f = e
          \/ /\ f = [e EXCEPT !.ttl = PassiveTTL] /\ e.ttl > PassiveTTL
             /\ \E sp \in Spelling : passive[<<k[1], sp>>].count >= PassiveCount
    BY <1>0, <1>6 DEF HandlePassiveObservation
  <2>3. e \in Entry /\ InTime(e, 0) /\ 0 \in 0 .. Tick
    BY <1>0, <2>1
  <2>4. ASSUME NEW sp \in Spelling, passive[<<k[1], sp>>].count >= PassiveCount
        PROVE  Tick <= PassiveTTL \div 5
    <3>1. <<k[1], sp>> \in Name \X Spelling
      BY <1>0 DEF Key
    <3>2. passive[<<k[1], sp>>].count # 0
      BY <2>4, <3>1 DEF RInv, IInv, TypeOK
    <3>3. <<k[1], sp>> \in Observed
      BY <3>1, <3>2 DEF RInv, UnseenInv
    <3> QED
      BY <3>3 DEF KeepsUp
  <2> QED
    BY <2>2, <2>3, <2>4, EntryInTime
<1>7. CASE HandleCacheMaintenance
  <2>1. loop' = "wait" /\ tick' = tick
    BY <1>7 DEF HandleCacheMaintenance
  <2> SUFFICES ASSUME NEW k \in Browsed, NEW f \in cache'[k] PROVE InTime(f, tick)
    BY <2>1 DEF RefreshInv, ToTick, InTime
  <2>2. PICK e \in cache[k] :
          f = IF NeedsRefresh(e) THEN [e EXCEPT !.refreshed = TRUE] ELSE e
    BY <1>0, <1>7 DEF HandleCacheMaintenance
  <2>3. InTime(f, Tick) /\ f \in Entry
    BY <1>0, <2>2, EntryInTime, EntryUpdates
  <2>4. f.left \in Int /\ f.ttl \in Nat /\ tick <= Tick /\ tick \in Int /\ Tick \in Int
    BY <1>0, <2>3 DEF Entry
  <2> QED
    BY <2>3, <2>4 DEF InTime
<1>8. CASE Elapse
  <2>1. ToTick = tick /\ tick > 0 /\ loop' = "wait" /\ tick' = tick - 1
    BY <1>8 DEF Elapse, ToTick
  <2> SUFFICES ASSUME NEW k \in Browsed, NEW f \in cache'[k] PROVE InTime(f, tick - 1)
    BY <2>1 DEF RefreshInv, ToTick, InTime
  <2>2. PICK e \in cache[k] : f = [e EXCEPT !.left = @ - 1]
    BY <1>0, <1>8 DEF Elapse
  <2> QED
    BY <1>0, <2>1, <2>2, EntryInTime
<1> QED
  BY <1>1, <1>2, <1>3, <1>4, <1>5, <1>6, <1>7, <1>8
     DEF Next, vars, Received, ClearPassive, TrackPassiveQuery

\* A followed record whose lifetime is long enough for the ticker is asked for
\* again before it expires: refreshExpiringRecords comes in time, for every
\* period, lifetime and sequence of responses.
THEOREM FollowedIsRefreshed ==
    ASSUME KeepsUp
    PROVE  Spec => []RefreshedBeforeExpiry
<1>1. Init => RInv
  BY InitRInv
<1>2. RInv /\ [Next]_vars => RInv'
  BY StepIInv, StepUnseen, StepRefresh DEF RInv
<1>3. RInv => RefreshedBeforeExpiry
  <2> SUFFICES ASSUME RInv, NEW k \in Browsed, NEW e \in cache[k], e.left <= 0
               PROVE  e.refreshed
    BY DEF RefreshedBeforeExpiry
  <2>1. e \in Entry /\ ToTick \in 0 .. Tick /\ InTime(e, ToTick)
    BY RecordCacheAssumption DEF RInv, RefreshInv, IInv, TypeOK, ToTick
  <2> QED
    BY <2>1, EntryInTime
<1> QED
  BY <1>1, <1>2, <1>3, PTL DEF Spec

=============================================================================
