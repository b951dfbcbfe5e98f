--------------------------- MODULE DiscoveryProofs --------------------------
(***************************************************************************)
(* Proofs about Discovery: what a browser knows of an instance follows the *)
(* cache, a followed instance does not lapse without a loss, and a lookup  *)
(* of a host that is there fails by a loss only, for every number of       *)
(* generations of the owner and all lifetimes.                             *)
(***************************************************************************)
EXTENDS Discovery, TLAPS

\* One host at most is told by a set of records.
OneSrv(S) == \A g, h \in Gen : SRV(g) \in S /\ SRV(h) \in S => g = h

\* The cache-flush bit leaves one SRV record, and all that answers with SRV
\* records, from a service or from the cache, has one of them.
SrvInv ==
    /\ OneSrv({r \in Record : Live(r)})
    /\ \A p \in pend : OneSrv(p.ans \cup p.add)
    /\ \A m \in resp : OneSrv(m.recs)

\* No goodbye is under way from an owner that is there; an owner that is not has
\* sent nothing within the last second and answers nobody.
OwnerInv ==
    /\ Up => \A m \in resp : ~m.bye
    /\ ~Up => /\ \A r \in Record : <<"owner", r>> \notin rate
             /\ \A p \in pend : p.by # "owner"

\* An SRV record is about to reach the cache.
SrvArrives == \E m \in resp, g \in Gen : SRV(g) \in m.recs

\* The owner has been asked for its SRV record.
SrvAsked ==
    \/ \E m \in queries : m.to = "owner" /\ m.q = SrvQ
    \/ \E p \in pend, g \in Gen :
          p.by = "owner" /\ p.ans = {SRV(g)} /\ p.unicast = FALSE

\* The browser knows the instance or is about to.
PtrComes == info.known \/ \E m \in resp, g \in Gen : PTR \in m.recs /\ SRV(g) \in m.recs

\* An SRV record that the rate limit holds back has just been sent.
JustFed ==
    (\E g \in Gen : <<"owner", SRV(g)>> \in rate) =>
        SrvArrives \/ \E g \in Gen : left[SRV(g)] = SrvTTL

\* The SRV record lives, and has been asked for if the cache loop found little of
\* it left.
KeptFed ==
    SrvArrives \/ \E g \in Gen :
        Live(SRV(g)) /\ (ticked => left[SRV(g)] > SrvTTL \div 5 \/ SrvAsked)

\* If nothing is lost, an owner that is there feeds the browser.
FedInv == lossless /\ Up => PtrComes /\ JustFed /\ KeptFed

\* The address of g is in the cache or about to be.
AddrComes(g) ==
    \/ Live(A(g))
    \/ \E m \in resp : A(g) \in m.recs
    \/ \E p \in pend : p.by = "owner" /\ A(g) \in p.ans /\ p.unicast = TRUE
    \/ \E m \in queries : m.to = "owner" /\ m.q = A(g)

\* While a host that is there is looked up, and nothing is lost, the answer is on
\* its way.
LookupInv ==
    /\ steady => lookup = "waiting" /\ Up /\ gen = target
    /\ steady /\ lossless => AddrComes(target)

\* The inductive invariant.
IInv == TypeOK /\ SrvInv /\ OwnerInv /\ InfoComplete /\ FedInv /\ LookupInv

-----------------------------------------------------------------------------
(* Records and lifetimes. *)

\* Records of different kinds differ, and those of one kind by their generation.
LEMMA RecordFacts ==
    /\ PTR \in Record /\ PTR[1] = "PTR" /\ PTR = PtrQ
    /\ \A g \in Gen : /\ SRV(g) \in Record /\ SRV(g)[1] = "SRV"
                      /\ A(g) \in Record /\ A(g)[1] = "A"
    /\ \A g, h \in Gen : /\ SRV(g) = SRV(h) => g = h
                         /\ A(g) = A(h) => g = h
    /\ \A r \in Record : \/ r = PTR
                         \/ \E g \in Gen : r = SRV(g)
                         \/ \E g \in Gen : r = A(g)
BY DEF Record, PTR, PtrQ, SRV, A

\* A record lives for a time that is not nothing.
LEMMA TTLType == \A r \in Record : TTL(r) \in Nat \ {0}
<1>1. \A r \in Record : r[1] = "PTR" \/ r[1] = "SRV" \/ r[1] = "A"
  BY RecordFacts
<1> QED BY <1>1, DiscoveryAssumption DEF TTL

LEMMA TTLSrv == \A g \in Gen : TTL(SRV(g)) = SrvTTL
<1>1. \A g \in Gen : SRV(g)[1] = "SRV"
  BY RecordFacts
<1> QED BY <1>1 DEF TTL

\* A fifth of the lifetime of an SRV record is a period at least, and less than
\* the whole.
LEMMA Fifth == SrvTTL \div 5 \in Nat /\ 1 <= SrvTTL \div 5 /\ SrvTTL \div 5 < SrvTTL
BY DiscoveryAssumption

\* What an address is asked by is no question for a PTR or an SRV record.
LEMMA QuestionFacts ==
    /\ PtrQ[1] = "PTR" /\ SrvQ[1] = "SRV"
    /\ \A q \in Question : q[1] = "A" <=> \E g \in Gen : q = A(g)
BY DEF PtrQ, SrvQ, Question, A

-----------------------------------------------------------------------------
(* The operators of the browser. *)

\* The cache is typed after a response.
LEMMA CacheAfterType ==
    ASSUME TypeOK, NEW m \in resp
    PROVE  \A r \in Record : CacheAfter(m)[r] \in 0 .. TTL(r)
<1> TAKE r \in Record
<1>1. left[r] \in 0 .. TTL(r) /\ TTL(r) \in Nat
  BY TTLType DEF TypeOK
<1>2. \/ CacheAfter(m)[r] = 0 \/ CacheAfter(m)[r] = TTL(r)
      \/ CacheAfter(m)[r] = left[r]
  BY DEF CacheAfter
<1> QED BY <1>1, <1>2

\* What resolveInstance finds.
LEMMA ResolveFacts ==
    ASSUME NEW c, HasSrv(c)
    PROVE  \E g \in Gen : /\ c[SRV(g)] > 0
                          /\ Resolve(c) = [known |-> TRUE, host |-> g,
                                           ip |-> IF c[A(g)] > 0 THEN g ELSE 0]
<1> DEFINE g == CHOOSE h \in Gen : c[SRV(h)] > 0
<1>1. g \in Gen /\ c[SRV(g)] > 0
  BY DEF HasSrv
<1> QED BY <1>1 DEF Resolve

LEMMA ResolveType ==
    ASSUME NEW c, HasSrv(c)
    PROVE  Resolve(c) \in Info
<1> PICK g \in Gen : Resolve(c) = [known |-> TRUE, host |-> g,
                                   ip |-> IF c[A(g)] > 0 THEN g ELSE 0]
  BY ResolveFacts
<1> QED BY DEF Info

LEMMA UpdateInfoType ==
    ASSUME NEW i \in Info, NEW recs, NEW c
    PROVE  UpdateInfo(i, recs, c) \in Info
<1>1. CASE UpdateInfo(i, recs, c) = i
  BY <1>1
<1>2. CASE HasSrv(c) /\ UpdateInfo(i, recs, c) =
               [Resolve(c) EXCEPT !.ip = IF @ = 0 THEN i.ip ELSE @]
  <2>1. Resolve(c) \in Info
    BY <1>2, ResolveType
  <2> QED BY <1>2, <2>1 DEF Info
<1> QED BY <1>1, <1>2 DEF UpdateInfo

-----------------------------------------------------------------------------
(* Types. *)

LEMMA InitType == Init => TypeOK
<1> SUFFICES ASSUME Init PROVE TypeOK
  OBVIOUS
<1>1. 1 \in Gen
  BY DiscoveryAssumption DEF Gen
<1>2. \A r \in Record : left[r] \in 0 .. TTL(r)
  BY TTLType DEF Init
<1>3. NoInfo \in Info
  BY DEF NoInfo, Info
<1> QED BY <1>1, <1>2, <1>3 DEF Init, TypeOK

LEMMA SendQueryType ==
    ASSUME TypeOK, NEW q \in Question, NEW known \in SUBSET {PTR}, SendQuery(q, known)
    PROVE  queries' \subseteq Query
<1>1. PICK T \in SUBSET {"owner", "self"} :
          queries' = queries \cup {[q |-> q, known |-> known, to |-> t] : t \in T}
  BY DEF SendQuery
<1> QED BY <1>1 DEF TypeOK, Query

LEMMA SendResponseType ==
    ASSUME TypeOK, NEW by \in {"owner", "self"}, NEW ans \in SUBSET Record,
           NEW add \in SUBSET Record, NEW unicast, SendResponse(by, ans, add, unicast)
    PROVE  /\ rate' \subseteq {"owner", "self"} \X Record
           /\ \A m \in resp' : m \in Response
<1>1. PICK F \in SUBSET ans :
          /\ rate' = rate \/ rate' = rate \cup ({by} \X F)
          /\ resp' = resp \/ resp' = resp \cup {[recs |-> F \cup add, bye |-> FALSE]}
  <2> DEFINE F == IF unicast THEN ans ELSE {r \in ans : <<by, r>> \notin rate}
  <2>1. F \in SUBSET ans
    OBVIOUS
  <2>2. /\ rate' = rate \/ rate' = rate \cup ({by} \X F)
        /\ resp' = resp \/ resp' = resp \cup {[recs |-> F \cup add, bye |-> FALSE]}
    BY DEF SendResponse, Deliver
  <2> QED BY <2>1, <2>2
<1>2. rate' \subseteq {"owner", "self"} \X Record
  BY <1>1 DEF TypeOK
<1>3. [recs |-> F \cup add, bye |-> FALSE] \in Response
  BY DEF Response
<1> QED BY <1>1, <1>2, <1>3 DEF TypeOK

\* What a server answers is made of records.
LEMMA ServiceRecordsType ==
    ASSUME TypeOK, NEW by
    PROVE  ServiceRecords(by) \in SUBSET Record /\ CachedRecords(by) \in SUBSET Record
<1>1. ServiceRecords(by) \subseteq {PTR, SRV(gen), A(gen)}
  BY DEF ServiceRecords
<1>2. CachedRecords(by) \subseteq Record
  BY DEF CachedRecords
<1> QED BY <1>1, <1>2, RecordFacts DEF TypeOK

LEMMA HandleQueryType ==
    ASSUME TypeOK, NEW m \in queries, HandleQuery(m)
    PROVE  TypeOK'
<1> PICK ans, add, u :
        /\ ans = {r \in ServiceRecords(m.to) \cup CachedRecords(m.to) :
                     Matches(r, m.q)} \ m.known
        /\ add = IF m.q = PtrQ THEN ServiceRecords(m.to) \ {PTR} ELSE {}
        /\ u = (m.q[1] = "A")
  OBVIOUS
<1>1. ans \in SUBSET Record /\ add \in SUBSET Record
  BY ServiceRecordsType
<1>2. u \in BOOLEAN
  OBVIOUS
<1>3. m.to \in {"owner", "self"}
  BY DEF TypeOK, Query
<1>4. [by |-> m.to, ans |-> ans, add |-> add, unicast |-> u] \in Answering
  BY <1>1, <1>2, <1>3, Zenon DEF Answering
<1>5. pend' = pend \/ pend' = pend \cup {[by |-> m.to, ans |-> ans, add |-> add,
                                          unicast |-> u]}
  BY Zenon DEF HandleQuery
<1>6. \A p \in pend' : p \in Answering
  BY <1>4, <1>5, Zenon DEF TypeOK
<1>7. queries' \subseteq Query
  BY DEF HandleQuery, TypeOK
<1>8. UNCHANGED <<lossless, relays, owner, gen, rate, resp, left, info, asked,
                  ticked, lookup, target, steady>>
  BY DEF HandleQuery
<1> QED BY <1>6, <1>7, <1>8 DEF TypeOK

LEMMA HandleResponseType ==
    ASSUME TypeOK, NEW m \in resp, HandleResponse(m)
    PROVE  TypeOK'
<1> PICK c, found :
        /\ c = CacheAfter(m)
        /\ found = IF PTR \in m.recs /\ ~info.known
                   THEN (IF HasSrv(c) THEN Resolve(c) ELSE [NoInfo EXCEPT !.known = TRUE])
                   ELSE info
  OBVIOUS
<1>1. /\ info \in Info /\ NoInfo \in Info /\ [NoInfo EXCEPT !.known = TRUE] \in Info
      /\ HasSrv(c) => Resolve(c) \in Info
  BY ResolveType DEF TypeOK, NoInfo, Info
<1>2. found \in Info
  BY <1>1
<1>3. info' = info \/ info' = NoInfo \/ info' = UpdateInfo(found, m.recs, c)
  BY DEF HandleResponse
<1>4. info' \in Info
  BY <1>1, <1>2, <1>3, UpdateInfoType
<1>5. left' = CacheAfter(m)
  BY DEF HandleResponse
<1>6. \A r \in Record : left'[r] \in 0 .. TTL(r)
  BY <1>5, CacheAfterType
<1>7. resp' \subseteq resp
  BY DEF HandleResponse
<1>8. UNCHANGED <<lossless, relays, owner, gen, rate, pend, queries, asked,
                  ticked, lookup, target, steady>>
  BY DEF HandleResponse
<1> QED BY <1>4, <1>6, <1>7, <1>8 DEF TypeOK

\* What every step keeps.
LEMMA TypeStep == TypeOK /\ [Next]_vars => TypeOK'
<1> SUFFICES ASSUME TypeOK, [Next]_vars
             PROVE  TypeOK'
  OBVIOUS
<1>1. CASE \E m \in queries : HandleQuery(m)
  BY <1>1, HandleQueryType
<1>2. CASE \E p \in pend : SendAnswer(p)
  <2> PICK p \in pend : SendAnswer(p)
    BY <1>2
  <2>1. /\ p.by \in {"owner", "self"} /\ p.ans \in SUBSET Record
        /\ p.add \in SUBSET Record
    BY DEF TypeOK, Answering
  <2>2. SendResponse(p.by, p.ans, p.add, p.unicast)
    BY DEF SendAnswer
  <2>3. /\ rate' \subseteq {"owner", "self"} \X Record
        /\ \A m \in resp' : m \in Response
    BY <2>1, <2>2, SendResponseType
  <2>4. /\ pend' \subseteq pend
        /\ UNCHANGED <<lossless, relays, owner, gen, queries, left, info, asked,
                       ticked, lookup, target, steady>>
    BY DEF SendAnswer
  <2> QED BY <2>3, <2>4 DEF TypeOK
<1>3. CASE Announce
  <2> PICK g \in Gen : gen' = g /\ SendResponse("owner", {PTR, SRV(g), A(g)}, {}, FALSE)
    BY <1>3 DEF Announce
  <2>1. {PTR, SRV(g), A(g)} \in SUBSET Record
    BY RecordFacts
  <2>2. /\ rate' \subseteq {"owner", "self"} \X Record
        /\ \A m \in resp' : m \in Response
    BY <2>1, SendResponseType
  <2>3. /\ owner' = "first"
        /\ UNCHANGED <<lossless, relays, pend, queries, left, info, asked, ticked,
                       lookup, target, steady>>
    BY <1>3 DEF Announce
  <2> QED BY <2>2, <2>3 DEF TypeOK
<1>4. CASE AnnounceAgain
  <2>1. {PTR, SRV(gen), A(gen)} \in SUBSET Record
    BY RecordFacts DEF TypeOK
  <2>2. /\ SendResponse("owner", {PTR, SRV(gen), A(gen)}, {}, FALSE)
        /\ owner' = "up"
        /\ UNCHANGED <<lossless, relays, gen, pend, queries, left, info, asked,
                       ticked, lookup, target, steady>>
    BY <1>4 DEF AnnounceAgain
  <2>3. /\ rate' \subseteq {"owner", "self"} \X Record
        /\ \A m \in resp' : m \in Response
    BY <2>1, <2>2, SendResponseType
  <2> QED BY <2>2, <2>3 DEF TypeOK
<1>5. CASE Depart
  <2>1. [recs |-> {PTR, SRV(gen), A(gen)}, bye |-> TRUE] \in Response
    BY RecordFacts DEF TypeOK, Response
  <2>2. \A m \in resp' : m \in Response
    BY <1>5, <2>1 DEF Depart, Deliver, TypeOK
  <2>3. /\ owner' = "down" /\ pend' \subseteq pend /\ rate' \subseteq rate
        /\ steady' = FALSE
        /\ UNCHANGED <<lossless, relays, gen, queries, left, info, asked, ticked,
                       lookup, target>>
    BY <1>5 DEF Depart
  <2> QED BY <2>2, <2>3 DEF TypeOK
<1>6. CASE \E m \in resp : HandleResponse(m)
  BY <1>6, HandleResponseType
<1>7. CASE BrowseQuery \/ CacheLoop
  <2>1. PtrQ \in Question /\ SrvQ \in Question
    BY DEF Question
  <2>2. queries' \subseteq Query
    <3>1. CASE queries' = queries
      BY <3>1 DEF TypeOK
    <3>2. CASE BrowseQuery
      BY <2>1, <3>2, SendQueryType DEF BrowseQuery
    <3>3. CASE SendQuery(SrvQ, {})
      BY <2>1, <3>3, SendQueryType
    <3> QED BY <1>7, <3>1, <3>2, <3>3 DEF CacheLoop
  <2>3. asked' \in BOOLEAN /\ ticked' \in BOOLEAN
    BY <1>7 DEF BrowseQuery, CacheLoop, TypeOK
  <2>4. UNCHANGED <<lossless, relays, owner, gen, rate, pend, resp, left, info,
                    lookup, target, steady>>
    BY <1>7 DEF BrowseQuery, CacheLoop
  <2> QED BY <2>2, <2>3, <2>4 DEF TypeOK
<1>8. CASE \E g \in Gen : ResolveHost(g)
  <2> PICK g \in Gen : ResolveHost(g)
    BY <1>8
  <2>1. A(g) \in Question
    BY DEF Question
  <2>2. queries' \subseteq Query
    BY <2>1, SendQueryType DEF ResolveHost
  <2>3. steady' \in BOOLEAN
    BY DEF ResolveHost
  <2>4. /\ lookup' = "waiting" /\ target' = g
        /\ UNCHANGED <<lossless, relays, owner, gen, rate, pend, resp, left, info,
                       asked, ticked>>
    BY DEF ResolveHost
  <2> QED BY <2>2, <2>3, <2>4 DEF TypeOK
<1>9. CASE Poll
  <2>1. 1 \in Gen
    BY DiscoveryAssumption DEF Gen
  <2> QED BY <1>9, <2>1 DEF Poll, TypeOK
<1>10. CASE Second
  BY <1>10 DEF Second, TypeOK
<1>11. CASE Elapse
  <2>1. \A r \in Record : left'[r] \in 0 .. TTL(r)
    <3> TAKE r \in Record
    <3>1. left[r] \in 0 .. TTL(r) /\ TTL(r) \in Nat
      BY TTLType DEF TypeOK
    <3>2. left'[r] = IF left[r] > 0 THEN left[r] - 1 ELSE 0
      BY <1>11 DEF Elapse
    <3> QED BY <3>1, <3>2
  <2>2. /\ ticked' = FALSE /\ asked' = FALSE /\ lookup' = "idle" /\ rate' = {}
        /\ UNCHANGED <<lossless, relays, owner, gen, pend, queries, resp, info,
                       target, steady>>
    BY <1>11 DEF Elapse
  <2> QED BY <2>1, <2>2 DEF TypeOK
<1>12. CASE UNCHANGED vars
  BY <1>12 DEF vars, TypeOK
<1> QED BY <1>1, <1>2, <1>3, <1>4, <1>5, <1>6, <1>7, <1>8, <1>9, <1>10, <1>11, <1>12
        DEF Next

\* The state stays well typed: the cached lifetimes within those of the records
\* and what is in flight made of records, for every number of generations and all
\* lifetimes.
THEOREM TypeCorrect == Spec => []TypeOK
BY InitType, TypeStep, PTL DEF Spec

-----------------------------------------------------------------------------
(* What the operators do to what the invariant speaks of. *)

\* F is what is sent of an answer: all of it if it is unicast, else what the rate
\* limit lets pass; and if nothing passes, nothing.
Sent(F, by, ans, add, unicast) ==
    /\ unicast = TRUE => F = ans /\ rate' = rate
    /\ unicast = FALSE => F = {r \in ans : <<by, r>> \notin rate}
    /\ \/ F = {} /\ ans # {} /\ rate' = rate /\ resp' = resp
       \/ /\ rate' = rate \/ rate' = rate \cup ({by} \X F)
          /\ \/ resp' = resp \cup {[recs |-> F \cup add, bye |-> FALSE]}
             \/ ~lossless /\ resp' = resp

LEMMA SendFacts ==
    ASSUME NEW by, NEW ans, NEW add, NEW unicast \in BOOLEAN,
           SendResponse(by, ans, add, unicast)
    PROVE  \E F \in SUBSET ans : Sent(F, by, ans, add, unicast)
<1> DEFINE F == IF unicast THEN ans ELSE {r \in ans : <<by, r>> \notin rate}
<1>1. CASE unicast = TRUE
  <2>1. F = ans
    BY <1>1
  <2>2. rate' = rate
    BY <1>1 DEF SendResponse
  <2>3. \/ resp' = resp \cup {[recs |-> F \cup add, bye |-> FALSE]}
        \/ ~lossless /\ resp' = resp
    BY <1>1 DEF SendResponse, Deliver
  <2> QED BY <1>1, <2>1, <2>2, <2>3 DEF Sent
<1>2. CASE unicast = FALSE
  <2>1. F = {r \in ans : <<by, r>> \notin rate}
    BY <1>2
  <2>2. \/ F = {} /\ ans # {} /\ rate' = rate /\ resp' = resp
        \/ /\ rate' = rate \cup ({by} \X F)
           /\ \/ resp' = resp \cup {[recs |-> F \cup add, bye |-> FALSE]}
              \/ ~lossless /\ resp' = resp
    BY <1>2 DEF SendResponse, Deliver
  <2> QED BY <1>2, <2>1, <2>2 DEF Sent
<1> QED BY <1>1, <1>2

\* Whether a response tells a host.
Tells(m) == \E g \in Gen : SRV(g) \in m.recs

\* What a response leaves in the cache.
LEMMA CacheFacts ==
    ASSUME TypeOK, NEW m \in resp
    PROVE  /\ \A r \in m.recs : CacheAfter(m)[r] = IF m.bye THEN 0 ELSE TTL(r)
           /\ \A g \in Gen : SRV(g) \notin m.recs =>
                 CacheAfter(m)[SRV(g)] = IF Tells(m) THEN 0 ELSE left[SRV(g)]
           /\ \A g \in Gen : A(g) \notin m.recs => CacheAfter(m)[A(g)] = left[A(g)]
<1>1. m.recs \subseteq Record
  BY DEF TypeOK, Response
<1>2. (\E s \in m.recs : s[1] = "SRV") <=> Tells(m)
  BY <1>1, RecordFacts DEF Tells
<1>3. \A r \in m.recs : CacheAfter(m)[r] = IF m.bye THEN 0 ELSE TTL(r)
  <2> TAKE r \in m.recs
  <2>1. r \in Record
    BY <1>1
  <2> QED BY <2>1 DEF CacheAfter
<1>4. ASSUME NEW g \in Gen, SRV(g) \notin m.recs
      PROVE  CacheAfter(m)[SRV(g)] = IF Tells(m) THEN 0 ELSE left[SRV(g)]
  <2>1. SRV(g) \in Record /\ SRV(g)[1] = "SRV"
    BY RecordFacts
  <2> QED BY <1>2, <1>4, <2>1 DEF CacheAfter
<1>5. ASSUME NEW g \in Gen, A(g) \notin m.recs
      PROVE  CacheAfter(m)[A(g)] = left[A(g)]
  <2>1. A(g) \in Record /\ A(g)[1] # "SRV"
    BY RecordFacts
  <2> QED BY <1>5, <2>1 DEF CacheAfter
<1> QED BY <1>3, <1>4, <1>5

\* A question for the SRV record, and one for the address, put to an owner that is
\* there: what it answers, and how.
LEMMA OwnerAnswers ==
    ASSUME TypeOK, NEW m \in queries, HandleQuery(m), m.to = "owner", Up
    PROVE  /\ m.q = SrvQ => \E p \in pend' :
                 p.by = "owner" /\ p.ans = {SRV(gen)} /\ p.unicast = FALSE
           /\ m.q = A(gen) => \E p \in pend' :
                 p.by = "owner" /\ A(gen) \in p.ans /\ p.unicast = TRUE
<1> PICK ans, add, u :
        /\ ans = {r \in ServiceRecords(m.to) \cup CachedRecords(m.to) :
                     Matches(r, m.q)} \ m.known
        /\ add = IF m.q = PtrQ THEN ServiceRecords(m.to) \ {PTR} ELSE {}
        /\ u = (m.q[1] = "A")
  OBVIOUS
<1>1. ans \cup add # {} =>
          [by |-> m.to, ans |-> ans, add |-> add, unicast |-> u] \in pend'
  BY DEF HandleQuery
<1>2. ServiceRecords(m.to) = {PTR, SRV(gen), A(gen)} /\ CachedRecords(m.to) = {}
  BY DEF ServiceRecords, CachedRecords
<1>3. m.known \subseteq {PTR} /\ gen \in Gen
  BY DEF TypeOK, Query
<1>4. ASSUME m.q = SrvQ
      PROVE  \E p \in pend' : p.by = "owner" /\ p.ans = {SRV(gen)} /\ p.unicast = FALSE
  <2>1. m.q[1] = "SRV"
    BY <1>4, QuestionFacts
  <2>2. \A r : Matches(r, m.q) <=> r[1] = "SRV"
    BY <2>1 DEF Matches
  <2>3. ans = {SRV(gen)}
    BY <1>2, <1>3, <2>2, RecordFacts
  <2>4. u = FALSE
    BY <2>1
  <2> QED BY <1>1, <2>3, <2>4
<1>5. ASSUME m.q = A(gen)
      PROVE  \E p \in pend' : p.by = "owner" /\ A(gen) \in p.ans /\ p.unicast = TRUE
  <2>1. m.q[1] = "A"
    BY <1>3, <1>5, RecordFacts
  <2>2. Matches(A(gen), m.q)
    BY <1>5, <2>1 DEF Matches
  <2>3. A(gen) \in ans
    BY <1>2, <1>3, <2>2, RecordFacts
  <2>4. u = TRUE
    BY <2>1
  <2> QED BY <1>1, <2>3, <2>4
<1> QED BY <1>4, <1>5

-----------------------------------------------------------------------------
(* One SRV record. *)

LEMMA OneSrvSub ==
    ASSUME NEW S, NEW T, S \subseteq T, OneSrv(T)
    PROVE  OneSrv(S)
BY DEF OneSrv

LEMMA OneSrvOwn ==
    ASSUME NEW g \in Gen
    PROVE  OneSrv({PTR, SRV(g), A(g)})
<1>1. \A h \in Gen : SRV(h) \in {PTR, SRV(g), A(g)} => h = g
  BY RecordFacts
<1> QED BY <1>1 DEF OneSrv

\* As time passes nothing comes to live, and what has more than a period left lives.
LEMMA ElapseFacts ==
    ASSUME TypeOK, Elapse
    PROVE  \A r \in Record : /\ left'[r] > 0 => left[r] > 0
                             /\ left[r] > 1 => left'[r] > 0
<1> TAKE r \in Record
<1>1. left[r] \in Nat
  BY TTLType DEF TypeOK
<1>2. left'[r] = IF left[r] > 0 THEN left[r] - 1 ELSE 0
  BY DEF Elapse
<1> QED BY <1>1, <1>2

LEMMA SendOneSrv ==
    ASSUME TypeOK, SrvInv, NEW by, NEW ans, NEW add, NEW unicast \in BOOLEAN,
           OneSrv(ans \cup add), SendResponse(by, ans, add, unicast)
    PROVE  \A m \in resp' : OneSrv(m.recs)
<1> PICK F \in SUBSET ans : Sent(F, by, ans, add, unicast)
  BY SendFacts
<1>1. OneSrv(F \cup add)
  <2>1. F \cup add \subseteq ans \cup add
    OBVIOUS
  <2> QED BY <2>1, OneSrvSub
<1>2. ASSUME NEW m \in resp'
      PROVE  m \in resp \/ m.recs = F \cup add
  BY DEF Sent
<1> QED BY <1>1, <1>2 DEF SrvInv

LEMMA SrvStep == TypeOK /\ SrvInv /\ [Next]_vars => SrvInv'
<1> SUFFICES ASSUME TypeOK, SrvInv, [Next]_vars
             PROVE  SrvInv'
  OBVIOUS
<1>a. ASSUME left' = left
      PROVE  OneSrv({r \in Record : Live(r)})'
  BY <1>a DEF SrvInv, OneSrv, Live
<1>b. ASSUME pend' \subseteq pend
      PROVE  (\A p \in pend : OneSrv(p.ans \cup p.add))'
  BY <1>b DEF SrvInv, OneSrv
<1>c. ASSUME resp' \subseteq resp
      PROVE  (\A m \in resp : OneSrv(m.recs))'
  BY <1>c DEF SrvInv, OneSrv
<1>1. CASE \E m \in queries : HandleQuery(m)
  <2> PICK m \in queries : HandleQuery(m)
    BY <1>1
  <2> PICK ans, add, u :
        /\ ans = {r \in ServiceRecords(m.to) \cup CachedRecords(m.to) :
                     Matches(r, m.q)} \ m.known
        /\ add = IF m.q = PtrQ THEN ServiceRecords(m.to) \ {PTR} ELSE {}
        /\ u = (m.q[1] = "A")
    OBVIOUS
  <2>1. pend' \subseteq pend \cup {[by |-> m.to, ans |-> ans, add |-> add, unicast |-> u]}
    BY DEF HandleQuery
  <2>2. ans \cup add \subseteq ServiceRecords(m.to) \cup CachedRecords(m.to)
    OBVIOUS
  <2>3. \/ ServiceRecords(m.to) \cup CachedRecords(m.to) \subseteq {PTR, SRV(gen), A(gen)}
        \/ ServiceRecords(m.to) \cup CachedRecords(m.to) \subseteq {r \in Record : Live(r)}
    BY DEF ServiceRecords, CachedRecords
  <2>4. /\ OneSrv({PTR, SRV(gen), A(gen)})
        /\ OneSrv({r \in Record : Live(r)})
    BY OneSrvOwn DEF SrvInv, TypeOK
  <2>5. OneSrv(ans \cup add)
    <3>1. \/ ans \cup add \subseteq {PTR, SRV(gen), A(gen)}
          \/ ans \cup add \subseteq {r \in Record : Live(r)}
      BY <2>2, <2>3
    <3> QED BY <2>4, <3>1, OneSrvSub
  <2>6. \A p \in pend' : OneSrv(p.ans \cup p.add)
    <3> SUFFICES ASSUME NEW p \in pend' PROVE OneSrv(p.ans \cup p.add)
      OBVIOUS
    <3>1. p \in pend \/ (p.ans = ans /\ p.add = add)
      BY <2>1
    <3> QED BY <2>5, <3>1 DEF SrvInv
  <2>7. resp' = resp /\ left' = left
    BY DEF HandleQuery
  <2> QED BY <1>a, <1>c, <2>6, <2>7 DEF SrvInv
<1>2. CASE \E p \in pend : SendAnswer(p)
  <2> PICK p \in pend : SendAnswer(p)
    BY <1>2
  <2>1. SendResponse(p.by, p.ans, p.add, p.unicast) /\ pend' \subseteq pend /\ left' = left
    BY DEF SendAnswer
  <2>2. p.unicast \in BOOLEAN /\ OneSrv(p.ans \cup p.add)
    BY DEF TypeOK, Answering, SrvInv
  <2>3. \A m \in resp' : OneSrv(m.recs)
    BY <2>1, <2>2, SendOneSrv
  <2> QED BY <1>a, <1>b, <2>1, <2>3 DEF SrvInv
<1>3. CASE Announce \/ AnnounceAgain
  <2> PICK g \in Gen : SendResponse("owner", {PTR, SRV(g), A(g)}, {}, FALSE)
    BY <1>3 DEF Announce, AnnounceAgain, TypeOK
  <2>1. OneSrv({PTR, SRV(g), A(g)} \cup {})
    <3>1. {PTR, SRV(g), A(g)} \cup {} = {PTR, SRV(g), A(g)}
      OBVIOUS
    <3> QED BY <3>1, OneSrvOwn
  <2>2. \A m \in resp' : OneSrv(m.recs)
    BY <2>1, SendOneSrv
  <2>3. pend' \subseteq pend /\ left' = left
    BY <1>3 DEF Announce, AnnounceAgain
  <2> QED BY <1>a, <1>b, <2>2, <2>3 DEF SrvInv
<1>4. CASE Depart
  <2>1. /\ resp' \subseteq resp \cup {[recs |-> {PTR, SRV(gen), A(gen)}, bye |-> TRUE]}
        /\ pend' \subseteq pend /\ left' = left
    BY <1>4 DEF Depart, Deliver
  <2>2. OneSrv({PTR, SRV(gen), A(gen)})
    BY OneSrvOwn DEF TypeOK
  <2>3. \A m \in resp' : OneSrv(m.recs)
    <3> SUFFICES ASSUME NEW m \in resp' PROVE OneSrv(m.recs)
      OBVIOUS
    <3>1. m \in resp \/ m.recs = {PTR, SRV(gen), A(gen)}
      BY <2>1
    <3> QED BY <2>2, <3>1 DEF SrvInv
  <2> QED BY <1>a, <1>b, <2>1, <2>3 DEF SrvInv
<1>5. CASE \E m \in resp : HandleResponse(m)
  <2> PICK m \in resp : HandleResponse(m)
    BY <1>5
  <2>1. left' = CacheAfter(m) /\ resp' \subseteq resp /\ pend' = pend
    BY DEF HandleResponse
  <2>2. ASSUME NEW g \in Gen, NEW h \in Gen, left'[SRV(g)] > 0, left'[SRV(h)] > 0
        PROVE  g = h
    <3>1. CASE SRV(g) \in m.recs /\ SRV(h) \in m.recs
      BY <3>1 DEF SrvInv, OneSrv
    <3>2. CASE Tells(m) /\ ~(SRV(g) \in m.recs /\ SRV(h) \in m.recs)
      <4>1. left'[SRV(g)] = 0 \/ left'[SRV(h)] = 0
        BY <2>1, <3>2, CacheFacts
      <4> QED BY <2>2, <4>1
    <3>3. CASE ~Tells(m)
      <4>1. SRV(g) \notin m.recs /\ SRV(h) \notin m.recs
        BY <3>3 DEF Tells
      <4>2. left'[SRV(g)] = left[SRV(g)] /\ left'[SRV(h)] = left[SRV(h)]
        BY <2>1, <3>3, <4>1, CacheFacts
      <4>3. SRV(g) \in Record /\ SRV(h) \in Record
        BY RecordFacts
      <4> QED BY <2>2, <4>2, <4>3 DEF SrvInv, OneSrv, Live
    <3> QED BY <3>1, <3>2, <3>3 DEF Tells
  <2>3. OneSrv({r \in Record : Live(r)})'
    BY <2>2 DEF OneSrv, Live
  <2> QED BY <1>b, <1>c, <2>1, <2>3 DEF SrvInv
<1>6. CASE BrowseQuery \/ CacheLoop \/ (\E g \in Gen : ResolveHost(g)) \/ Poll \/ Second
  <2>1. left' = left /\ pend' = pend /\ resp' = resp
    BY <1>6 DEF BrowseQuery, CacheLoop, ResolveHost, Poll, Second
  <2> QED BY <1>a, <1>b, <1>c, <2>1 DEF SrvInv
<1>7. CASE Elapse
  <2>1. pend' = pend /\ resp' = resp
    BY <1>7 DEF Elapse
  <2>2. \A r \in Record : left'[r] > 0 => left[r] > 0
    BY <1>7, ElapseFacts
  <2>3. OneSrv({r \in Record : Live(r)})'
    BY <2>2 DEF OneSrv, Live, SrvInv
  <2> QED BY <1>b, <1>c, <2>1, <2>3 DEF SrvInv
<1>8. CASE UNCHANGED vars
  <2>1. left' = left /\ pend' = pend /\ resp' = resp
    BY <1>8 DEF vars
  <2> QED BY <1>a, <1>b, <1>c, <2>1 DEF SrvInv
<1> QED BY <1>1, <1>2, <1>3, <1>4, <1>5, <1>6, <1>7, <1>8 DEF Next

-----------------------------------------------------------------------------
(* What the owner has under way. *)

LEMMA OwnerStep == TypeOK /\ OwnerInv /\ [Next]_vars => OwnerInv'
<1> SUFFICES ASSUME TypeOK, OwnerInv, [Next]_vars
             PROVE  OwnerInv'
  OBVIOUS
<1>1. CASE \E m \in queries : HandleQuery(m)
  <2> PICK m \in queries : HandleQuery(m)
    BY <1>1
  <2>1. UNCHANGED <<owner, rate, resp>>
    BY DEF HandleQuery
  <2>2. CASE Up
    BY <2>1, <2>2 DEF OwnerInv, Up
  <2>3. CASE ~Up
    <3>1. m.to = "owner" => ServiceRecords(m.to) = {} /\ CachedRecords(m.to) = {}
      BY <2>3 DEF ServiceRecords, CachedRecords
    <3>2. m.to = "owner" => pend' = pend
      BY <3>1 DEF HandleQuery
    <3>3. ASSUME NEW p \in pend' PROVE p \in pend \/ p.by = m.to
      BY DEF HandleQuery
    <3>4. \A p \in pend' : p.by # "owner"
      BY <2>3, <3>2, <3>3 DEF OwnerInv
    <3> QED BY <2>1, <2>3, <3>4 DEF OwnerInv, Up
  <2> QED BY <2>2, <2>3
<1>2. CASE \E p \in pend : SendAnswer(p)
  <2> PICK p \in pend : SendAnswer(p)
    BY <1>2
  <2>1. /\ SendResponse(p.by, p.ans, p.add, p.unicast)
        /\ pend' \subseteq pend /\ owner' = owner
    BY DEF SendAnswer
  <2>2. p.unicast \in BOOLEAN
    BY DEF TypeOK, Answering
  <2> PICK F \in SUBSET p.ans : Sent(F, p.by, p.ans, p.add, p.unicast)
    BY <2>1, <2>2, SendFacts
  <2>3. \A m \in resp' : m \in resp \/ m.bye = FALSE
    BY DEF Sent
  <2>4. p.by # "owner" => \A r : <<"owner", r>> \in rate' => <<"owner", r>> \in rate
    BY DEF Sent
  <2> QED BY <2>1, <2>3, <2>4 DEF OwnerInv, Up
<1>3. CASE Announce \/ AnnounceAgain
  <2> PICK g \in Gen : SendResponse("owner", {PTR, SRV(g), A(g)}, {}, FALSE)
    BY <1>3 DEF Announce, AnnounceAgain, TypeOK
  <2> PICK F \in SUBSET {PTR, SRV(g), A(g)} : Sent(F, "owner", {PTR, SRV(g), A(g)}, {}, FALSE)
    BY SendFacts
  <2>1. resp = {} /\ owner' # "down"
    BY <1>3 DEF Announce, AnnounceAgain, Quiet
  <2>2. \A m \in resp' : m.bye = FALSE
    BY <2>1 DEF Sent
  <2> QED BY <2>1, <2>2 DEF OwnerInv, Up
<1>4. CASE Depart
  <2>1. /\ owner' = "down" /\ rate' = {x \in rate : x[1] # "owner"}
        /\ pend' = {p \in pend : p.by # "owner"}
    BY <1>4 DEF Depart
  <2> QED BY <2>1 DEF OwnerInv, Up
<1>5. CASE \E m \in resp : HandleResponse(m)
  BY <1>5 DEF HandleResponse, OwnerInv, Up
<1>6. CASE BrowseQuery \/ CacheLoop \/ (\E g \in Gen : ResolveHost(g)) \/ Poll
  <2>1. UNCHANGED <<owner, rate, pend, resp>>
    BY <1>6 DEF BrowseQuery, CacheLoop, ResolveHost, Poll
  <2> QED BY <2>1 DEF OwnerInv, Up
<1>7. CASE Second \/ Elapse
  <2>1. /\ owner' = "down" <=> owner = "down"
        /\ rate' = {} /\ UNCHANGED <<pend, resp>>
    BY <1>7 DEF Second, Elapse
  <2> QED BY <2>1 DEF OwnerInv, Up
<1>8. CASE UNCHANGED vars
  BY <1>8 DEF vars, OwnerInv, Up
<1> QED BY <1>1, <1>2, <1>3, <1>4, <1>5, <1>6, <1>7, <1>8 DEF Next

-----------------------------------------------------------------------------
(* The browser's instance. *)

LEMMA HandleResponseInfo ==
    ASSUME TypeOK, SrvInv', InfoComplete, NEW m \in resp, HandleResponse(m)
    PROVE  InfoComplete'
<1> PICK c, found :
        /\ c = CacheAfter(m)
        /\ found = IF PTR \in m.recs /\ ~info.known
                   THEN (IF HasSrv(c) THEN Resolve(c) ELSE [NoInfo EXCEPT !.known = TRUE])
                   ELSE info
  OBVIOUS
<1>1. /\ left' = c
      /\ info' = IF m.bye THEN (IF PTR \in m.recs THEN NoInfo ELSE info)
                 ELSE UpdateInfo(found, m.recs, c)
  BY DEF HandleResponse
<1> SUFFICES ASSUME NEW g \in Gen, info'.known, c[SRV(g)] > 0
             PROVE  info'.host = g /\ (c[A(g)] > 0 => info'.ip = g)
  BY <1>1 DEF InfoComplete, Live
<1>2. g \in Nat \ {0}
  BY DiscoveryAssumption DEF Gen
<1>3. \A h \in Gen : c[SRV(h)] > 0 => h = g
  BY <1>1, RecordFacts DEF SrvInv, OneSrv, Live
<1>4. HasSrv(c)
  BY DEF HasSrv
<1>5. Resolve(c) = [known |-> TRUE, host |-> g, ip |-> IF c[A(g)] > 0 THEN g ELSE 0]
  BY <1>3, <1>4, ResolveFacts
<1>6. CASE m.bye
  <2>1. info' = info
    BY <1>1, <1>6 DEF NoInfo
  <2>2. SRV(g) \notin m.recs
    <3>1. SRV(g) \in m.recs => c[SRV(g)] = 0
      BY <1>6, CacheFacts
    <3> QED BY <3>1
  <2>3. c[SRV(g)] = 0 \/ c[SRV(g)] = left[SRV(g)]
    BY <2>2, CacheFacts
  <2>4. c[A(g)] = 0 \/ c[A(g)] = left[A(g)]
    BY <1>6, CacheFacts
  <2> QED BY <2>1, <2>3, <2>4 DEF InfoComplete, Live
<1>7. CASE ~m.bye /\ PTR \in m.recs /\ ~info.known
  <2>1. found = Resolve(c)
    BY <1>4, <1>7
  <2>2. found.ip = IF c[A(g)] > 0 THEN g ELSE 0
    BY <1>5, <2>1
  <2>3. info' = found \/ info' = [found EXCEPT !.ip = IF @ = 0 THEN found.ip ELSE @]
    BY <1>1, <1>7, <2>1 DEF UpdateInfo
  <2> QED BY <1>5, <2>1, <2>2, <2>3
<1>8. CASE ~m.bye /\ ~(PTR \in m.recs /\ ~info.known)
  <2>1. found = info /\ info' = UpdateInfo(info, m.recs, c)
    BY <1>1, <1>8
  <2> DEFINE changed == \/ {h \in Gen : SRV(h) \in m.recs} # {}
                        \/ \E h \in Gen : A(h) \in m.recs /\ info.host = h /\ info.ip # h
  <2>2. info.known
    BY <2>1 DEF UpdateInfo
  <2>3. CASE changed
    <3>1. info' = [Resolve(c) EXCEPT !.ip = IF @ = 0 THEN info.ip ELSE @]
      BY <1>4, <2>1, <2>2, <2>3 DEF UpdateInfo
    <3> QED BY <1>2, <1>5, <3>1
  <2>4. CASE ~changed
    <3>1. info' = info
      BY <2>1, <2>4 DEF UpdateInfo
    <3>2. SRV(g) \notin m.recs /\ ~Tells(m)
      BY <2>4 DEF Tells
    <3>3. c[SRV(g)] = left[SRV(g)]
      BY <3>2, CacheFacts
    <3>4. info.host = g /\ (left[A(g)] > 0 => info.ip = g)
      BY <2>2, <3>3 DEF InfoComplete, Live
    <3>5. CASE A(g) \in m.recs
      BY <2>4, <3>1, <3>4, <3>5
    <3>6. CASE A(g) \notin m.recs
      <4>1. c[A(g)] = left[A(g)]
        BY <3>6, CacheFacts
      <4> QED BY <3>1, <3>4, <4>1
    <3> QED BY <3>5, <3>6
  <2> QED BY <2>3, <2>4
<1> QED BY <1>6, <1>7, <1>8

LEMMA InfoStep == TypeOK /\ SrvInv /\ SrvInv' /\ InfoComplete /\ [Next]_vars => InfoComplete'
<1> SUFFICES ASSUME TypeOK, SrvInv, SrvInv', InfoComplete, [Next]_vars
             PROVE  InfoComplete'
  OBVIOUS
<1>1. CASE \E m \in resp : HandleResponse(m)
  BY <1>1, HandleResponseInfo
<1>2. CASE Elapse
  <2>1. \A r \in Record : left'[r] > 0 => left[r] > 0
    BY <1>2, ElapseFacts
  <2>2. info' = info
    BY <1>2 DEF Elapse
  <2> QED BY <2>1, <2>2, RecordFacts DEF InfoComplete, Live
<1>3. CASE UNCHANGED <<info, left>>
  BY <1>3 DEF InfoComplete, Live
<1> QED BY <1>1, <1>2, <1>3 DEF Next, HandleQuery, SendAnswer, Announce, AnnounceAgain,
           Depart, BrowseQuery, CacheLoop, ResolveHost, Poll, Second, vars

-----------------------------------------------------------------------------
(* The SRV record of a followed instance. *)

\* An owner that announces feeds, and so does one that is asked for its record.
LEMMA SendFed ==
    ASSUME NEW by, NEW ans, NEW add, NEW unicast \in BOOLEAN, lossless,
           SendResponse(by, ans, add, unicast)
    PROVE  /\ SrvArrives => SrvArrives'
           /\ PtrComes /\ info' = info => PtrComes'
           /\ \A g \in Gen : <<"owner", SRV(g)>> \in rate' =>
                 <<"owner", SRV(g)>> \in rate \/ SrvArrives'
           /\ \A g \in Gen : SRV(g) \in ans => <<by, SRV(g)>> \in rate \/ SrvArrives'
<1> PICK F \in SUBSET ans : Sent(F, by, ans, add, unicast)
  BY SendFacts
<1>1. resp \subseteq resp'
  BY DEF Sent
<1>2. \A r \in F : \E m \in resp' : r \in m.recs
  <2>1. F = {} \/ [recs |-> F \cup add, bye |-> FALSE] \in resp'
    BY DEF Sent
  <2>2. F \subseteq [recs |-> F \cup add, bye |-> FALSE].recs
    OBVIOUS
  <2> QED BY <2>1, <2>2
<1>3. \A r : <<"owner", r>> \in rate' => <<"owner", r>> \in rate \/ r \in F
  BY DEF Sent
<1>4. \A r \in ans : <<by, r>> \in rate \/ r \in F
  BY DEF Sent
<1>5. \A g \in Gen : SRV(g) \in F => SrvArrives'
  BY <1>2 DEF SrvArrives
<1>6. SrvArrives => SrvArrives'
  BY <1>1 DEF SrvArrives
<1>7. PtrComes /\ info' = info => PtrComes'
  BY <1>1 DEF PtrComes
<1> QED BY <1>3, <1>4, <1>5, <1>6, <1>7

\* A response, which is no goodbye, feeds if it tells a host and else leaves the SRV
\* record as it is.
LEMMA HandleResponseFed ==
    ASSUME TypeOK, OwnerInv, Up, PtrComes, JustFed, KeptFed,
           NEW m \in resp, HandleResponse(m)
    PROVE  PtrComes' /\ JustFed' /\ KeptFed'
<1>1. /\ left' = CacheAfter(m) /\ resp' = resp \ {m}
      /\ UNCHANGED <<rate, pend, queries, ticked>>
  BY DEF HandleResponse
<1>2. m.bye = FALSE
  BY DEF OwnerInv, TypeOK, Response
<1>3. PtrComes'
  <2> PICK c, found :
        /\ c = CacheAfter(m)
        /\ found = IF PTR \in m.recs /\ ~info.known
                   THEN (IF HasSrv(c) THEN Resolve(c) ELSE [NoInfo EXCEPT !.known = TRUE])
                   ELSE info
    OBVIOUS
  <2>1. info' = UpdateInfo(found, m.recs, c)
    BY <1>2 DEF HandleResponse
  <2>2. HasSrv(c) => Resolve(c).known
    BY ResolveFacts
  <2>3. found.known => info'.known
    <3>1. \/ info' = found
          \/ HasSrv(c) /\ info' = [Resolve(c) EXCEPT !.ip = IF @ = 0 THEN found.ip ELSE @]
      BY <2>1 DEF UpdateInfo
    <3>2. HasSrv(c) => [Resolve(c) EXCEPT !.ip = IF @ = 0 THEN found.ip ELSE @].known
      <4> SUFFICES ASSUME HasSrv(c)
                   PROVE  [Resolve(c) EXCEPT !.ip = IF @ = 0 THEN found.ip ELSE @].known
        OBVIOUS
      <4>1. Resolve(c) \in Info
        BY ResolveType
      <4> QED BY <2>2, <4>1 DEF Info
    <3> QED BY <3>1, <3>2
  <2>4. PTR \in m.recs \/ info.known => found.known
    BY <2>2 DEF NoInfo
  <2>5. CASE PTR \in m.recs \/ info.known
    BY <2>3, <2>4, <2>5 DEF PtrComes
  <2>6. CASE PTR \notin m.recs /\ ~info.known
    BY <1>1, <2>6 DEF PtrComes
  <2> QED BY <2>5, <2>6
<1>4. CASE Tells(m)
  <2> PICK g \in Gen : SRV(g) \in m.recs
    BY <1>4 DEF Tells
  <2>1. left'[SRV(g)] = SrvTTL
    BY <1>1, <1>2, CacheFacts, TTLSrv
  <2>2. SrvTTL > 0 /\ SrvTTL > SrvTTL \div 5
    BY Fifth, DiscoveryAssumption
  <2>3. JustFed'
    BY <2>1 DEF JustFed
  <2>4. KeptFed'
    BY <2>1, <2>2 DEF KeptFed, Live
  <2> QED BY <1>3, <2>3, <2>4
<1>5. CASE ~Tells(m)
  <2>1. SrvArrives => SrvArrives'
    BY <1>1, <1>5 DEF SrvArrives, Tells
  <2>2. \A g \in Gen : left'[SRV(g)] = left[SRV(g)]
    BY <1>1, <1>5, CacheFacts DEF Tells
  <2>3. SrvAsked => SrvAsked'
    BY <1>1 DEF SrvAsked
  <2>4. JustFed'
    BY <1>1, <2>1, <2>2 DEF JustFed
  <2>5. KeptFed'
    BY <1>1, <2>1, <2>2, <2>3 DEF KeptFed, Live
  <2> QED BY <1>3, <2>4, <2>5
<1> QED BY <1>4, <1>5

\* The record that the cache loop finds to be due is asked for.
LEMMA CacheLoopFed ==
    ASSUME TypeOK, lossless, PtrComes, KeptFed, CacheLoop
    PROVE  KeptFed'
<1>1. UNCHANGED <<resp, left>>
  BY DEF CacheLoop
<1>2. CASE SrvArrives
  BY <1>1, <1>2 DEF KeptFed, SrvArrives
<1>3. CASE ~SrvArrives
  <2>1. info.known
    BY <1>3 DEF PtrComes, SrvArrives
  <2> PICK g \in Gen : Live(SRV(g))
    BY <1>3 DEF KeptFed
  <2>2. left[SRV(g)] \in Nat /\ left[SRV(g)] > 0
    BY RecordFacts, TTLType DEF TypeOK, Live
  <2>3. CASE left[SRV(g)] > SrvTTL \div 5
    BY <1>1, <2>2, <2>3 DEF KeptFed, Live
  <2>4. CASE ~(left[SRV(g)] > SrvTTL \div 5)
    <3>1. left[SRV(g)] \in 1 .. SrvTTL \div 5
      BY <2>2, <2>4, Fifth
    <3>2. SendQuery(SrvQ, {})
      BY <2>1, <3>1 DEF CacheLoop
    <3>3. [q |-> SrvQ, known |-> {}, to |-> "owner"] \in queries'
      BY <3>2 DEF SendQuery
    <3>4. SrvAsked'
      BY <3>3 DEF SrvAsked
    <3> QED BY <1>1, <2>2, <3>4 DEF KeptFed, Live
  <2> QED BY <2>3, <2>4
<1> QED BY <1>2, <1>3

LEMMA FedStep == TypeOK /\ OwnerInv /\ FedInv /\ [Next]_vars => FedInv'
<1> SUFFICES ASSUME TypeOK, OwnerInv, FedInv, [Next]_vars, lossless', Up'
             PROVE  PtrComes' /\ JustFed' /\ KeptFed'
  BY DEF FedInv
<1>0. lossless
  BY DEF Next, vars, HandleQuery, SendAnswer, Announce, AnnounceAgain, Depart,
         HandleResponse, BrowseQuery, CacheLoop, ResolveHost, Poll, Second, Elapse
<1>1. CASE Announce
  <2> PICK g \in Gen : SendResponse("owner", {PTR, SRV(g), A(g)}, {}, FALSE)
    BY <1>1 DEF Announce
  <2> PICK F \in SUBSET {PTR, SRV(g), A(g)} : Sent(F, "owner", {PTR, SRV(g), A(g)}, {}, FALSE)
    BY SendFacts
  <2>1. \A r \in Record : <<"owner", r>> \notin rate
    BY <1>1 DEF Announce, OwnerInv
  <2>2. F = {PTR, SRV(g), A(g)}
    BY <2>1, RecordFacts DEF Sent
  <2>3. [recs |-> F \cup {}, bye |-> FALSE] \in resp'
    BY <1>0, <2>2 DEF Sent
  <2>4. PTR \in [recs |-> F \cup {}, bye |-> FALSE].recs
    BY <2>2
  <2>5. SRV(g) \in [recs |-> F \cup {}, bye |-> FALSE].recs
    BY <2>2
  <2>6. PtrComes' /\ SrvArrives'
    BY <2>3, <2>4, <2>5 DEF PtrComes, SrvArrives
  <2> QED BY <2>6 DEF JustFed, KeptFed
<1>2. CASE ~Up
  BY <1>1, <1>2 DEF Next, vars, Up, HandleQuery, SendAnswer, AnnounceAgain, Depart,
         HandleResponse, BrowseQuery, CacheLoop, ResolveHost, Poll, Second, Elapse
<1>3. CASE Up /\ ~Announce
  <2>0. PtrComes /\ JustFed /\ KeptFed
    BY <1>0, <1>3 DEF FedInv
  <2>1. CASE \E m \in queries : HandleQuery(m)
    <3> PICK m \in queries : HandleQuery(m)
      BY <2>1
    <3>1. /\ UNCHANGED <<rate, resp, left, info, ticked>> /\ pend \subseteq pend'
          /\ queries' = queries \ {m}
      BY DEF HandleQuery
    <3>2. SrvAsked => SrvAsked'
      <4>1. CASE m.to = "owner" /\ m.q = SrvQ
        <5>1. gen \in Gen
          BY DEF TypeOK
        <5> QED BY <1>3, <4>1, <5>1, OwnerAnswers DEF SrvAsked
      <4>2. CASE ~(m.to = "owner" /\ m.q = SrvQ)
        BY <3>1, <4>2 DEF SrvAsked
      <4> QED BY <4>1, <4>2
    <3> QED BY <2>0, <3>1, <3>2 DEF PtrComes, JustFed, KeptFed, SrvArrives, Live
  <2>2. CASE \E p \in pend : SendAnswer(p)
    <3> PICK p \in pend : SendAnswer(p)
      BY <2>2
    <3>1. /\ SendResponse(p.by, p.ans, p.add, p.unicast)
          /\ pend' = pend \ {p}
          /\ UNCHANGED <<queries, left, info, ticked>>
      BY DEF SendAnswer
    <3>2. p.unicast \in BOOLEAN
      BY DEF TypeOK, Answering
    <3>3. /\ SrvArrives => SrvArrives'
          /\ PtrComes'
          /\ \A g \in Gen : <<"owner", SRV(g)>> \in rate' =>
                <<"owner", SRV(g)>> \in rate \/ SrvArrives'
          /\ \A g \in Gen : SRV(g) \in p.ans => <<p.by, SRV(g)>> \in rate \/ SrvArrives'
      BY <1>0, <2>0, <3>1, <3>2, SendFed
    <3>4. JustFed'
      BY <2>0, <3>1, <3>3 DEF JustFed
    <3>5. KeptFed'
      <4>1. CASE SrvArrives'
        BY <4>1 DEF KeptFed
      <4>2. CASE ~SrvArrives' /\ \E g \in Gen : p.by = "owner" /\ p.ans = {SRV(g)}
        <5>1. \E g \in Gen : <<"owner", SRV(g)>> \in rate
          BY <3>3, <4>2
        <5> PICK h \in Gen : left[SRV(h)] = SrvTTL
          BY <2>0, <3>3, <4>2, <5>1 DEF JustFed
        <5>2. SrvTTL > 0 /\ SrvTTL > SrvTTL \div 5
          BY Fifth, DiscoveryAssumption
        <5> QED BY <3>1, <5>2 DEF KeptFed, Live
      <4>3. CASE ~SrvArrives' /\ ~\E g \in Gen : p.by = "owner" /\ p.ans = {SRV(g)}
        <5>1. SrvAsked => SrvAsked'
          BY <3>1, <4>3 DEF SrvAsked
        <5> QED BY <2>0, <3>1, <3>3, <4>3, <5>1 DEF KeptFed, Live
      <4> QED BY <4>1, <4>2, <4>3
    <3> QED BY <3>3, <3>4, <3>5
  <2>3. CASE AnnounceAgain
    <3>1. /\ SendResponse("owner", {PTR, SRV(gen), A(gen)}, {}, FALSE)
          /\ UNCHANGED <<pend, queries, left, info, ticked>>
      BY <2>3 DEF AnnounceAgain
    <3>2. /\ SrvArrives => SrvArrives'
          /\ PtrComes'
          /\ \A g \in Gen : <<"owner", SRV(g)>> \in rate' =>
                <<"owner", SRV(g)>> \in rate \/ SrvArrives'
      BY <1>0, <2>0, <3>1, SendFed
    <3>3. SrvAsked => SrvAsked'
      BY <3>1 DEF SrvAsked
    <3>4. JustFed'
      BY <2>0, <3>1, <3>2 DEF JustFed
    <3>5. KeptFed'
      BY <2>0, <3>1, <3>2, <3>3 DEF KeptFed, Live
    <3> QED BY <3>2, <3>4, <3>5
  <2>4. CASE Depart
    BY <2>4 DEF Depart, Up
  <2>5. CASE \E m \in resp : HandleResponse(m)
    BY <1>3, <2>0, <2>5, HandleResponseFed
  <2>6. CASE CacheLoop
    <3>1. UNCHANGED <<rate, resp, left, info>>
      BY <2>6 DEF CacheLoop
    <3>2. PtrComes' /\ JustFed'
      BY <2>0, <3>1 DEF PtrComes, JustFed, SrvArrives
    <3> QED BY <1>0, <2>0, <2>6, <3>2, CacheLoopFed
  <2>7. CASE BrowseQuery \/ (\E g \in Gen : ResolveHost(g)) \/ Poll \/ UNCHANGED vars
    <3>1. /\ UNCHANGED <<rate, pend, resp, left, info, ticked>>
          /\ queries \subseteq queries'
      BY <2>7 DEF BrowseQuery, ResolveHost, SendQuery, Poll, vars
    <3>2. SrvAsked => SrvAsked'
      BY <3>1 DEF SrvAsked
    <3> QED BY <2>0, <3>1, <3>2 DEF PtrComes, JustFed, KeptFed, SrvArrives, Live
  <2>8. CASE Second
    <3>1. UNCHANGED <<pend, queries, resp, left, info, ticked>> /\ rate' = {}
      BY <2>8 DEF Second
    <3>2. SrvAsked => SrvAsked'
      BY <3>1 DEF SrvAsked
    <3> QED BY <2>0, <3>1, <3>2 DEF PtrComes, JustFed, KeptFed, SrvArrives, Live
  <2>9. CASE Elapse
    <3>1. /\ Quiet /\ ticked /\ ticked' = FALSE /\ rate' = {}
          /\ UNCHANGED <<resp, info>>
      BY <2>9 DEF Elapse
    <3>2. ~SrvArrives /\ ~SrvAsked
      BY <3>1 DEF Quiet, SrvArrives, SrvAsked
    <3> PICK g \in Gen : left[SRV(g)] > SrvTTL \div 5
      BY <2>0, <3>1, <3>2 DEF KeptFed
    <3>3. left[SRV(g)] > 1 /\ SRV(g) \in Record
      BY Fifth, RecordFacts, TTLType DEF TypeOK
    <3>4. left'[SRV(g)] > 0
      BY <2>9, <3>3, ElapseFacts
    <3>5. PtrComes' /\ JustFed'
      BY <2>0, <3>1 DEF PtrComes, JustFed
    <3>6. KeptFed'
      BY <3>1, <3>4 DEF KeptFed, Live
    <3> QED BY <3>5, <3>6
  <2> QED BY <1>3, <2>1, <2>2, <2>3, <2>4, <2>5, <2>6, <2>7, <2>8, <2>9 DEF Next
<1> QED BY <1>1, <1>2, <1>3

-----------------------------------------------------------------------------
(* The lookup of a host. *)

\* Each way in which the address of a host comes leads to the next one, if nothing
\* is lost.
LEMMA AddrStep ==
    ASSUME TypeOK, OwnerInv, lossless, Up, AddrComes(gen),
           \/ \E m \in queries : HandleQuery(m)
           \/ \E p \in pend : SendAnswer(p)
           \/ \E m \in resp : HandleResponse(m)
    PROVE  \E g \in {gen} : AddrComes(g)'
<1> PICK g \in Gen : g = gen
  BY DEF TypeOK
<1> SUFFICES AddrComes(g)'
  OBVIOUS
<1>1. CASE \E m \in queries : HandleQuery(m)
  <2> PICK m \in queries : HandleQuery(m)
    BY <1>1
  <2>1. /\ left' = left /\ resp' = resp /\ pend \subseteq pend'
        /\ queries' = queries \ {m}
    BY DEF HandleQuery
  <2>2. CASE m.to = "owner" /\ m.q = A(g)
    BY <2>2, OwnerAnswers DEF AddrComes
  <2>3. CASE ~(m.to = "owner" /\ m.q = A(g))
    BY <2>1, <2>3 DEF AddrComes, Live
  <2> QED BY <2>2, <2>3
<1>2. CASE \E p \in pend : SendAnswer(p)
  <2> PICK p \in pend : SendAnswer(p)
    BY <1>2
  <2>1. /\ SendResponse(p.by, p.ans, p.add, p.unicast)
        /\ pend' = pend \ {p} /\ left' = left /\ queries' = queries
    BY DEF SendAnswer
  <2>2. p.unicast \in BOOLEAN
    BY DEF TypeOK, Answering
  <2> PICK F \in SUBSET p.ans : Sent(F, p.by, p.ans, p.add, p.unicast)
    BY <2>1, <2>2, SendFacts
  <2>3. resp \subseteq resp'
    BY DEF Sent
  <2>4. CASE A(g) \in p.ans /\ p.unicast = TRUE
    <3>1. [recs |-> F \cup p.add, bye |-> FALSE] \in resp' /\ F = p.ans
      BY <2>4 DEF Sent
    <3>2. A(g) \in [recs |-> F \cup p.add, bye |-> FALSE].recs
      BY <2>4, <3>1
    <3> QED BY <3>1, <3>2 DEF AddrComes
  <2>5. CASE ~(A(g) \in p.ans /\ p.unicast = TRUE)
    BY <2>1, <2>3, <2>5 DEF AddrComes, Live
  <2> QED BY <2>4, <2>5
<1>3. CASE \E m \in resp : HandleResponse(m)
  <2> PICK m \in resp : HandleResponse(m)
    BY <1>3
  <2>1. /\ left' = CacheAfter(m) /\ resp' = resp \ {m}
        /\ pend' = pend /\ queries' = queries
    BY DEF HandleResponse
  <2>2. m.bye = FALSE
    BY DEF OwnerInv, TypeOK, Response
  <2>3. CASE A(g) \in m.recs
    <3>1. left'[A(g)] = TTL(A(g))
      BY <2>1, <2>2, <2>3, CacheFacts
    <3>2. TTL(A(g)) \in Nat \ {0}
      BY RecordFacts, TTLType
    <3>3. left'[A(g)] > 0
      BY <3>1, <3>2
    <3> QED BY <3>3 DEF AddrComes, Live
  <2>4. CASE A(g) \notin m.recs
    <3>1. left'[A(g)] = left[A(g)]
      BY <2>1, <2>4, CacheFacts
    <3> QED BY <2>1, <2>4, <3>1 DEF AddrComes, Live
  <2> QED BY <2>3, <2>4
<1> QED BY <1>1, <1>2, <1>3

LEMMA LookupStep == TypeOK /\ OwnerInv /\ LookupInv /\ [Next]_vars => LookupInv'
<1> SUFFICES ASSUME TypeOK, OwnerInv, LookupInv, [Next]_vars
             PROVE  LookupInv'
  OBVIOUS
<1>1. CASE \/ \E m \in queries : HandleQuery(m)
           \/ \E p \in pend : SendAnswer(p)
           \/ \E m \in resp : HandleResponse(m)
  <2>1. UNCHANGED <<lossless, owner, gen, lookup, target, steady>>
    BY <1>1 DEF HandleQuery, SendAnswer, HandleResponse
  <2>2. ASSUME steady, lossless PROVE AddrComes(target)'
    <3>1. Up /\ gen = target /\ AddrComes(target)
      BY <2>2 DEF LookupInv
    <3>2. \E g \in {gen} : AddrComes(g)'
      BY <1>1, <2>2, <3>1, AddrStep
    <3> QED BY <2>1, <3>1, <3>2 DEF AddrComes, Live
  <2> QED BY <2>1, <2>2 DEF LookupInv, Up
<1>2. CASE Announce \/ Elapse
  <2>1. steady = FALSE /\ steady' = FALSE
    BY <1>2 DEF LookupInv, Announce, Elapse, TypeOK
  <2> QED BY <2>1 DEF LookupInv
<1>3. CASE Depart \/ Poll
  BY <1>3 DEF Depart, Poll, LookupInv
<1>4. CASE AnnounceAgain
  <2>1. /\ SendResponse("owner", {PTR, SRV(gen), A(gen)}, {}, FALSE)
        /\ owner = "due" /\ owner' = "up"
        /\ UNCHANGED <<lossless, gen, pend, queries, left, lookup, target, steady>>
    BY <1>4 DEF AnnounceAgain
  <2> PICK F \in SUBSET {PTR, SRV(gen), A(gen)} :
          Sent(F, "owner", {PTR, SRV(gen), A(gen)}, {}, FALSE)
    BY <2>1, SendFacts
  <2>2. resp \subseteq resp'
    BY DEF Sent
  <2>3. AddrComes(target) => AddrComes(target)'
    BY <2>1, <2>2 DEF AddrComes, Live
  <2> QED BY <2>1, <2>3 DEF LookupInv, Up
<1>5. CASE BrowseQuery \/ CacheLoop \/ Second \/ UNCHANGED vars
  <2>1. /\ UNCHANGED <<lossless, gen, pend, resp, left, lookup, target, steady>>
        /\ owner' = "down" <=> owner = "down"
        /\ queries \subseteq queries'
    BY <1>5 DEF BrowseQuery, CacheLoop, SendQuery, Second, vars
  <2>2. AddrComes(target) => AddrComes(target)'
    BY <2>1 DEF AddrComes, Live
  <2> QED BY <2>1, <2>2 DEF LookupInv, Up
<1>6. CASE \E g \in Gen : ResolveHost(g)
  <2> PICK g \in Gen : ResolveHost(g)
    BY <1>6
  <2>1. /\ lookup' = "waiting" /\ target' = g /\ SendQuery(A(g), {})
        /\ UNCHANGED <<lossless, owner, gen>>
    BY DEF ResolveHost
  <2>2. steady' => Up /\ gen = g
    BY DEF ResolveHost
  <2>3. lossless => [q |-> A(g), known |-> {}, to |-> "owner"] \in queries'
    BY <2>1 DEF SendQuery
  <2>4. lossless => AddrComes(target)'
    BY <2>1, <2>3 DEF AddrComes
  <2> QED BY <2>1, <2>2, <2>4 DEF LookupInv, Up
<1> QED BY <1>1, <1>2, <1>3, <1>4, <1>5, <1>6 DEF Next

-----------------------------------------------------------------------------
(* The theorems. *)

LEMMA InitInv == Init => IInv
<1> SUFFICES ASSUME Init PROVE IInv
  OBVIOUS
<1>1. TypeOK
  BY InitType
<1>2. \A r \in Record : ~Live(r)
  BY DEF Init, Live
<1>3. pend = {} /\ queries = {} /\ resp = {} /\ ~Up /\ rate = {} /\ steady = FALSE
  BY DEF Init, Up
<1>4. SrvInv
  BY <1>2, <1>3 DEF SrvInv, OneSrv
<1>5. InfoComplete
  BY <1>2, RecordFacts DEF InfoComplete
<1> QED BY <1>1, <1>3, <1>4, <1>5 DEF IInv, OwnerInv, FedInv, LookupInv

\* The inductive invariant holds in every state, whatever is lost and however often
\* the owner leaves and comes back.
THEOREM Invariance == Spec => []IInv
<1>1. IInv /\ [Next]_vars => IInv'
  BY TypeStep, SrvStep, OwnerStep, InfoStep, FedStep, LookupStep DEF IInv
<1> QED BY InitInv, <1>1, PTL DEF Spec

\* In whatever order and parts PTR, SRV and address records come, expire and
\* change, a listed instance has the host and the address that the cache has:
\* handlePTR and updateInstancesFromRecord miss none of them.
THEOREM InstanceFollowsCache == Spec => []InfoComplete
<1>1. IInv => InfoComplete
  BY DEF IInv
<1> QED BY Invariance, <1>1, PTL

\* If no packet is lost the SRV record of a followed instance of an owner that is
\* there never lapses, for every lifetime of five periods of the cache loop or
\* more: the query at a fifth of the lifetime is sent, answered in spite of the
\* rate limit, and cached, before the record expires.
THEOREM FollowedLives == Spec => []FollowedIsLive
<1>1. IInv => FollowedIsLive
  <2> SUFFICES ASSUME IInv, lossless, Up, info.known, Quiet
               PROVE  \E g \in Gen : Live(SRV(g))
    BY DEF FollowedIsLive
  <2>1. KeptFed
    BY DEF IInv, FedInv
  <2>2. ~SrvArrives
    BY DEF Quiet, SrvArrives
  <2> QED BY <2>1, <2>2 DEF KeptFed
<1> QED BY Invariance, <1>1, PTL

\* ResolveHost sends one query and never another; if its host is there all the time
\* and nothing is lost, it does not return without the address.
THEOREM LookupFails == Spec => LookupFailsByLossOnly
<1>1. IInv /\ [Next]_vars =>
        [lookup = "waiting" /\ lookup' = "returned" /\ ~Live(A(target))
            => ~(steady /\ lossless)]_vars
  <2> SUFFICES ASSUME IInv, [Next]_vars, lookup = "waiting", lookup' = "returned",
                      ~Live(A(target)), steady, lossless
               PROVE  FALSE
    OBVIOUS
  <2>1. Poll
    BY DEF Next, vars, HandleQuery, SendAnswer, Announce, AnnounceAgain, Depart,
           HandleResponse, BrowseQuery, CacheLoop, ResolveHost, Second, Elapse
  <2>2. Quiet
    BY <2>1 DEF Poll
  <2>3. AddrComes(target)
    BY DEF IInv, LookupInv
  <2> QED BY <2>2, <2>3 DEF Quiet, AddrComes
<1> QED BY Invariance, <1>1, PTL DEF Spec, LookupFailsByLossOnly

-----------------------------------------------------------------------------
(* What is left of an owner that has departed. *)

\* A server whose host is not probed is not asked by itself and does not answer.
RelayInv ==
    ~relays => /\ \A m \in queries : m.to = "owner"
               /\ \A p \in pend : p.by = "owner"

LEMMA RelayStep == RelayInv /\ [Next]_vars => RelayInv'
<1> SUFFICES ASSUME RelayInv, [Next]_vars, ~relays'
             PROVE  /\ \A m \in queries' : m.to = "owner"
                    /\ \A p \in pend' : p.by = "owner"
  BY DEF RelayInv
<1>1. relays' = relays
  BY DEF Next, vars, HandleQuery, SendAnswer, Announce, AnnounceAgain, Depart,
         HandleResponse, BrowseQuery, CacheLoop, ResolveHost, Poll, Second, Elapse
<1>2. /\ \A m \in queries : m.to = "owner"
      /\ \A p \in pend : p.by = "owner"
  BY <1>1 DEF RelayInv
<1>3. ASSUME NEW q, NEW known, SendQuery(q, known)
      PROVE  \A m \in queries' : m.to = "owner"
  BY <1>1, <1>2, <1>3 DEF SendQuery
<1>4. CASE \E m \in queries : HandleQuery(m)
  <2> PICK m \in queries : HandleQuery(m)
    BY <1>4
  <2>1. queries' \subseteq queries /\ \A p \in pend' : p \in pend \/ p.by = m.to
    BY DEF HandleQuery
  <2> QED BY <1>2, <2>1
<1>5. CASE \E p \in pend : SendAnswer(p)
  <2>1. queries' = queries /\ pend' \subseteq pend
    BY <1>5 DEF SendAnswer
  <2> QED BY <1>2, <2>1
<1>6. CASE BrowseQuery \/ CacheLoop \/ \E g \in Gen : ResolveHost(g)
  <2>1. pend' = pend
    BY <1>6 DEF BrowseQuery, CacheLoop, ResolveHost
  <2>2. queries' = queries \/ \E q, known : SendQuery(q, known)
    BY <1>6 DEF BrowseQuery, CacheLoop, ResolveHost
  <2> QED BY <1>2, <1>3, <2>1, <2>2
<1>7. CASE \/ Announce \/ AnnounceAgain \/ Depart \/ Poll \/ Second \/ Elapse
          \/ (\E m \in resp : HandleResponse(m)) \/ UNCHANGED vars
  <2>1. queries' = queries /\ pend' \subseteq pend
    BY <1>7 DEF Announce, AnnounceAgain, Depart, Poll, Second, Elapse, HandleResponse, vars
  <2> QED BY <1>2, <2>1
<1> QED BY <1>4, <1>5, <1>6, <1>7 DEF Next

\* A goodbye only takes records out of the cache.
LEMMA GoodbyeOnlyRemoves ==
    ASSUME TypeOK, NEW m \in resp, m.bye
    PROVE  \A r \in Record : CacheAfter(m)[r] <= left[r]
<1> TAKE r \in Record
<1>1. left[r] \in Nat
  BY TTLType DEF TypeOK
<1>2. CacheAfter(m)[r] = 0 \/ CacheAfter(m)[r] = left[r]
  BY DEF CacheAfter
<1> QED BY <1>1, <1>2

\* No answer, refresh or query that an owner has left behind brings its records back
\* once the answers it sent have arrived; with a server that answers its own queries
\* from its cache they may come back for ever.
THEOREM DepartedIsNotRevived == Spec => DepartedStaysAway
<1>1. Init => RelayInv
  BY DEF Init, RelayInv
<1>2. RelayInv /\ [Next]_vars => RelayInv'
  BY RelayStep
<1>3. IInv /\ RelayInv /\ [Next]_vars =>
        [~Up /\ ~Up' /\ ~relays /\ (\A m \in resp : m.bye) =>
            /\ \A r \in Record : left'[r] <= left[r]
            /\ \A m \in resp' : m.bye]_vars
  <2> SUFFICES ASSUME IInv, RelayInv, Next, ~Up, ~Up', ~relays, \A m \in resp : m.bye
               PROVE  /\ \A r \in Record : left'[r] <= left[r]
                      /\ \A m \in resp' : m.bye
    BY DEF vars
  <2>1. pend = {}
    BY DEF IInv, OwnerInv, RelayInv
  <2>2. ~Announce /\ ~AnnounceAgain /\ ~Depart
    BY DEF Announce, AnnounceAgain, Depart, Up
  <2>3. \A r \in Record : left[r] \in Nat
    BY TTLType DEF IInv, TypeOK
  <2>4. CASE \E m \in resp : HandleResponse(m)
    <3> PICK m \in resp : HandleResponse(m)
      BY <2>4
    <3>1. left' = CacheAfter(m) /\ resp' \subseteq resp
      BY DEF HandleResponse
    <3>2. \A r \in Record : CacheAfter(m)[r] <= left[r]
      BY GoodbyeOnlyRemoves DEF IInv
    <3> QED BY <3>1, <3>2
  <2>5. CASE Elapse
    BY <2>3, <2>5 DEF Elapse
  <2>6. CASE \/ (\E m \in queries : HandleQuery(m)) \/ BrowseQuery \/ CacheLoop
            \/ (\E g \in Gen : ResolveHost(g)) \/ Poll \/ Second
    <3>1. left' = left /\ resp' = resp
      BY <2>6 DEF HandleQuery, BrowseQuery, CacheLoop, ResolveHost, Poll, Second
    <3> QED BY <2>3, <3>1
  <2> QED BY <2>1, <2>2, <2>4, <2>5, <2>6 DEF Next
<1> QED BY Invariance, <1>1, <1>2, <1>3, PTL DEF Spec, DepartedStaysAway
=============================================================================
