----------------------------- MODULE Discovery ------------------------------
(***************************************************************************)
(* An owner that announces a service, and a server on another host that    *)
(* browses for it and looks its host up: the responder (handleQuery and    *)
(* sendResponseWithAdditional of src/server.go), the cache, the contents   *)
(* of a browser's instance (src/browser.go), its queries and refreshes,    *)
(* and ResolveHost (src/mdns.go), over a network that may lose packets.    *)
(* All servers run the same code: the browsing server also answers         *)
(* queries, its own included, from its cache once its host is probed.      *)
(*                                                                         *)
(* Data.  One instance of one service type.  The owner may leave and come  *)
(* back with a new host name: generation g has SRV record <<"SRV", g>>     *)
(* and address <<"A", g>>; the PTR record is <<"PTR", 0>>.  TXT travels    *)
(* with SRV and is left out.  Time is counted in periods of the cache loop *)
(* (ten seconds); Second is the passing of a second within one.  Packets,  *)
(* goroutines and the polls of ResolveHost are fast against both.          *)
(***************************************************************************)
EXTENDS Naturals, FiniteSets

CONSTANTS MaxGen,   \* bound: generations of the owner explored
          PtrTTL,   \* lifetime of a PTR record, in periods
          SrvTTL,   \* of an SRV record
          AddrTTL   \* of an address record

ASSUME DiscoveryAssumption ==
    /\ MaxGen \in Nat \ {0}
    /\ PtrTTL \in Nat \ {0}
    /\ SrvTTL \in Nat /\ SrvTTL >= 5
    /\ AddrTTL \in Nat \ {0}

Gen == 1 .. MaxGen
PTR == <<"PTR", 0>>
SRV(g) == <<"SRV", g>>
A(g) == <<"A", g>>
Record == {PTR} \cup {SRV(g) : g \in Gen} \cup {A(g) : g \in Gen}
TTL(r) == CASE r[1] = "PTR" -> PtrTTL [] r[1] = "SRV" -> SrvTTL [] r[1] = "A" -> AddrTTL

\* Questions: PTR of the service type, SRV of the instance, address of a host.
PtrQ == <<"PTR", 0>>
SrvQ == <<"SRV", 0>>
Question == {PtrQ, SrvQ} \cup {A(g) : g \in Gen}
Query == [q : Question, known : SUBSET {PTR}, to : {"owner", "self"}]

\* Browser.instances: nothing, or the host and address the info has (0: none).
NoInfo == [host |-> 0, ip |-> 0, known |-> FALSE]
Info == [host : Gen \cup {0}, ip : Gen \cup {0}, known : BOOLEAN]

VARIABLES
    lossless,  \* does the network deliver every packet?
    relays,    \* hostProbed of the browsing server
    owner,     \* "down"; "first", "due", "up": announced once, for a second, twice
    gen,       \* generation of the owner
    rate,      \* rateTracker: <<server, record>> multicast within a second
    pend,      \* answering goroutines
    queries,   \* queries in flight, a copy for each receiver
    resp,      \* responses in flight to the browsing server
    left,      \* its cache: how much longer each record lives
    info,      \* its browser's instance
    asked,     \* has the browser queried in this period?
    ticked,    \* has the cache loop run in this period?
    lookup,    \* the ResolveHost call
    target,    \* the host it resolves
    steady     \* ghost: the owner of that host was up all the time

vars == <<lossless, relays, owner, gen, rate, pend, queries, resp, left, info,
          asked, ticked, lookup, target, steady>>

Answering == [by : {"owner", "self"}, ans : SUBSET Record, add : SUBSET Record,
              unicast : BOOLEAN]
Response == [recs : SUBSET Record, bye : BOOLEAN]

TypeOK ==
    /\ lossless \in BOOLEAN /\ relays \in BOOLEAN
    /\ owner \in {"down", "first", "due", "up"}
    /\ gen \in Gen
    /\ rate \subseteq {"owner", "self"} \X Record
    /\ \A p \in pend : p \in Answering
    /\ queries \subseteq Query
    /\ \A m \in resp : m \in Response
    /\ \A r \in Record : left[r] \in 0 .. TTL(r)
    /\ info \in Info
    /\ asked \in BOOLEAN /\ ticked \in BOOLEAN
    /\ lookup \in {"idle", "waiting", "returned"}
    /\ target \in Gen
    /\ steady \in BOOLEAN

Init ==
    /\ lossless \in BOOLEAN /\ relays \in BOOLEAN
    /\ owner = "down" /\ gen = 1
    /\ rate = {} /\ pend = {} /\ queries = {} /\ resp = {}
    /\ left = [r \in Record |-> 0]
    /\ info = NoInfo
    /\ asked = FALSE /\ ticked = TRUE
    /\ lookup = "idle" /\ target = 1 /\ steady = FALSE

-----------------------------------------------------------------------------
Up == owner # "down"
Live(r) == left[r] > 0

\* Nothing is on its way and no goroutine is about to act.
Quiet == pend = {} /\ queries = {} /\ resp = {}

\* WriteMulticast of a query: to the owner and, looped back, to the sender, who
\* looks at it if it answers from its cache.
SendQuery(q, known) ==
    LET listeners == IF relays THEN {"owner", "self"} ELSE {"owner"} IN
    \E T \in SUBSET listeners :
        /\ lossless => T = listeners
        /\ queries' = queries \cup {[q |-> q, known |-> known, to |-> t] : t \in T}

\* A response reaches the browsing server or is lost.
Deliver(recs, bye) ==
    \/ resp' = resp \cup {[recs |-> recs, bye |-> bye]}
    \/ ~lossless /\ resp' = resp

-----------------------------------------------------------------------------
(* The responder, of either server. *)

\* The records of the services a server has announced.
ServiceRecords(by) ==
    IF by = "owner" /\ Up THEN {PTR, SRV(gen), A(gen)} ELSE {}

\* LookupName, asked only once the host is probed.  What the owner has cached
\* of itself is in its service records already.
CachedRecords(by) == {r \in Record : by = "self" /\ relays /\ Live(r)}

\* matchesQuestion
Matches(r, q) == IF q[1] = "A" THEN r = q ELSE r[1] = q[1]

\* Mutant: additional records are subject to the known answers.
HandleQueryNothingNew(m) ==
    LET own == ServiceRecords(m.to)
        ans == {r \in own \cup CachedRecords(m.to) : Matches(r, m.q)} \ m.known
        add == IF m.q = PtrQ /\ ans # {} THEN own \ {PTR} ELSE {}
    IN
    /\ m \in queries
    /\ queries' = queries \ {m}
    /\ pend' = IF ans \cup add = {} THEN pend
               ELSE pend \cup {[by |-> m.to, ans |-> ans, add |-> add,
                                unicast |-> m.q[1] = "A"]}
    /\ UNCHANGED <<lossless, relays, owner, gen, rate, resp, left, info, asked,
                   ticked, lookup, target, steady>>

\* handleQuery: the records that match and are not among the known answers (a
\* known PTR is listed with its full TTL), and with a PTR question the records
\* of the instance, known or not.  A goroutine sends them: at once if the
\* question asks for a unicast response, else after a delay.  The comment says
\* own queries are ignored; they are not.
HandleQuery(m) ==
    LET own == ServiceRecords(m.to)
        ans == {r \in own \cup CachedRecords(m.to) : Matches(r, m.q)} \ m.known
        add == IF m.q = PtrQ THEN own \ {PTR} ELSE {}
    IN
    /\ m \in queries
    /\ queries' = queries \ {m}
    /\ pend' = IF ans \cup add = {} THEN pend
               ELSE pend \cup {[by |-> m.to, ans |-> ans, add |-> add,
                                unicast |-> m.q[1] = "A"]}
    /\ UNCHANGED <<lossless, relays, owner, gen, rate, resp, left, info, asked,
                   ticked, lookup, target, steady>>

\* sendResponseWithAdditional: only answers, and only of multicast responses,
\* are rate limited; if that leaves none, nothing is sent.
SendResponse(by, ans, add, unicast) ==
    LET filtered == IF unicast THEN ans ELSE {r \in ans : <<by, r>> \notin rate}
    IN IF filtered = {} /\ ans # {}
       THEN UNCHANGED <<rate, resp>>
       ELSE /\ rate' = IF unicast THEN rate
                       ELSE rate \cup ({by} \X filtered)
            /\ Deliver(filtered \cup add, FALSE)

SendAnswer(p) ==
    /\ p \in pend
    /\ pend' = pend \ {p}
    /\ SendResponse(p.by, p.ans, p.add, p.unicast)
    /\ UNCHANGED <<lossless, relays, owner, gen, queries, left, info, asked,
                   ticked, lookup, target, steady>>

-----------------------------------------------------------------------------
(* The owner. *)

\* A new server has probed for its name and announces it, from generation 2 on
\* with another host name.
Announce ==
    /\ ~Up
    /\ Quiet
    /\ \E g \in {gen, gen + 1} \cap Gen :
          /\ gen' = g
          /\ SendResponse("owner", {PTR, SRV(g), A(g)}, {}, FALSE)
    /\ owner' = "first"
    /\ UNCHANGED <<lossless, relays, pend, queries, left, info, asked, ticked,
                   lookup, target, steady>>

\* announceService: the second announcement, a second later.
AnnounceAgain ==
    /\ owner = "due"
    /\ Quiet
    /\ owner' = "up"
    /\ SendResponse("owner", {PTR, SRV(gen), A(gen)}, {}, FALSE)
    /\ UNCHANGED <<lossless, relays, gen, pend, queries, left, info, asked,
                   ticked, lookup, target, steady>>

\* Mutant: the answering goroutines outlive the server.
DepartKeepsAnswers ==
    /\ Up
    /\ owner' = "down"
    /\ rate' = {x \in rate : x[1] # "owner"}
    /\ Deliver({PTR, SRV(gen), A(gen)}, TRUE) \/ resp' = resp
    /\ steady' = FALSE
    /\ UNCHANGED <<lossless, relays, gen, pend, queries, left, info, asked, ticked,
                   lookup, target>>

\* The owner closes with a goodbye, or is gone without one.
Depart ==
    /\ Up
    /\ owner' = "down"
    /\ pend' = {p \in pend : p.by # "owner"}
    /\ rate' = {x \in rate : x[1] # "owner"}
    /\ Deliver({PTR, SRV(gen), A(gen)}, TRUE) \/ resp' = resp
    /\ steady' = FALSE
    /\ UNCHANGED <<lossless, relays, gen, queries, left, info, asked, ticked,
                   lookup, target>>

-----------------------------------------------------------------------------
(* The browsing server. *)

\* resolveInstance, on the cache c: the host of the SRV record, its address.
Resolve(c) ==
    LET g == CHOOSE h \in Gen : c[SRV(h)] > 0
    IN [known |-> TRUE, host |-> g, ip |-> IF c[A(g)] > 0 THEN g ELSE 0]

HasSrv(c) == \E g \in Gen : c[SRV(g)] > 0

\* Mutant: a refreshed record lives for its TTL in addition to what is left.
CacheAfterAdds(m) ==
    [r \in Record |->
        CASE r \in m.recs -> IF m.bye THEN 0 ELSE left[r] + TTL(r)
          [] r \notin m.recs /\ r[1] = "SRV" /\ (\E s \in m.recs : s[1] = "SRV") -> 0
          [] OTHER -> left[r]]

\* What a response does to the cache: Upsert of each record, a cache-flush SRV
\* record in place of the one before; a goodbye removes the keys.
CacheAfter(m) ==
    [r \in Record |->
        CASE r \in m.recs -> IF m.bye THEN 0 ELSE TTL(r)
          [] r \notin m.recs /\ r[1] = "SRV" /\ (\E s \in m.recs : s[1] = "SRV") -> 0
          [] OTHER -> left[r]]

\* updateInstancesFromRecord for the SRV and address records of a response: the
\* host is overwritten, an address of that host is added; if anything changed
\* all is looked up again, and what the cache does not know stays as it was.
UpdateInfo(i, recs, c) ==
    LET srv == {g \in Gen : SRV(g) \in recs}
        changed == srv # {} \/ (\E g \in Gen : A(g) \in recs /\ i.host = g /\ i.ip # g)
        found == Resolve(c)
    IN IF ~i.known \/ ~changed \/ ~HasSrv(c) THEN i
       ELSE [found EXCEPT !.ip = IF @ = 0 THEN i.ip ELSE @]

\* Mutant: browsers are told of a record before the cache is updated.
HandleResponseNotifyFirst(m) ==
    LET found == IF PTR \in m.recs /\ ~info.known
                 THEN (IF HasSrv(left) THEN Resolve(left)
                       ELSE [NoInfo EXCEPT !.known = TRUE])
                 ELSE info
    IN
    /\ m \in resp
    /\ resp' = resp \ {m}
    /\ left' = CacheAfter(m)
    /\ info' = IF m.bye THEN (IF PTR \in m.recs THEN NoInfo ELSE info)
               ELSE UpdateInfo(found, m.recs, left)
    /\ UNCHANGED <<lossless, relays, owner, gen, rate, pend, queries, asked,
                   ticked, lookup, target, steady>>

\* handleResponse: first all records go to the cache, then the browser is told
\* of each.  handlePTR: an instance not known yet is resolved from the cache, as
\* far as it can be; a goodbye of the PTR record removes it.
HandleResponse(m) ==
    LET c == CacheAfter(m)
        found == IF PTR \in m.recs /\ ~info.known
                 THEN (IF HasSrv(c) THEN Resolve(c) ELSE [NoInfo EXCEPT !.known = TRUE])
                 ELSE info
    IN
    /\ m \in resp
    /\ resp' = resp \ {m}
    /\ left' = c
    /\ info' = IF m.bye THEN (IF PTR \in m.recs THEN NoInfo ELSE info)
               ELSE UpdateInfo(found, m.recs, c)
    /\ UNCHANGED <<lossless, relays, owner, gen, rate, pend, queries, asked,
                   ticked, lookup, target, steady>>

\* browseLoop and sendQuery: again and again, at growing intervals; an instance
\* that is listed is a known answer with a full TTL, cached or not.  (Bound: the
\* queries of the browser and of the cache loop do not fall into a lookup.)
BrowseQuery ==
    /\ ~asked
    /\ lookup # "waiting"
    /\ asked' = TRUE
    /\ SendQuery(PtrQ, IF info.known THEN {PTR} ELSE {})
    /\ UNCHANGED <<lossless, relays, owner, gen, rate, pend, resp, left, info,
                   ticked, lookup, target, steady>>

\* Mutant: the refresh comes when a tenth of the lifetime is left.
CacheLoopLate ==
    /\ ~ticked
    /\ lookup # "waiting"
    /\ ticked' = TRUE
    /\ IF info.known /\ \E g \in Gen : left[SRV(g)] \in 1 .. SrvTTL \div 10
       THEN SendQuery(SrvQ, {})
       ELSE queries' = queries
    /\ UNCHANGED <<lossless, relays, owner, gen, rate, pend, resp, left, info,
                   asked, lookup, target, steady>>

\* cacheLoop: expired records are purged (nobody is told), and the SRV record of
\* a known instance is queried for when a fifth of its lifetime is left.
CacheLoop ==
    /\ ~ticked
    /\ lookup # "waiting"
    /\ ticked' = TRUE
    /\ IF info.known /\ \E g \in Gen : left[SRV(g)] \in 1 .. SrvTTL \div 5
       THEN SendQuery(SrvQ, {})
       ELSE queries' = queries
    /\ UNCHANGED <<lossless, relays, owner, gen, rate, pend, resp, left, info,
                   asked, lookup, target, steady>>

\* ResolveHost, where the cache does not have the answer: one query and a wait.
ResolveHost(g) ==
    /\ lookup = "idle"
    /\ Quiet
    /\ ~Live(A(g))
    /\ lookup' = "waiting"
    /\ target' = g
    /\ steady' = (Up /\ gen = g)
    /\ SendQuery(A(g), {})
    /\ UNCHANGED <<lossless, relays, owner, gen, rate, pend, resp, left, info,
                   asked, ticked>>

\* Mutant: the first poll ends the call, whatever it finds.
PollOnce ==
    /\ lookup = "waiting"
    /\ lookup' = "returned"
    /\ target' = 1
    /\ steady' = FALSE
    /\ UNCHANGED <<lossless, relays, owner, gen, rate, pend, queries, resp, left,
                   info, asked, ticked>>

\* The poll every 50 ms finds the address and the call returns it, or the
\* caller's context ends first, which is some time after the last packet.
Poll ==
    /\ lookup = "waiting"
    /\ Live(A(target)) \/ Quiet
    /\ lookup' = "returned"
    /\ target' = 1
    /\ steady' = FALSE
    /\ UNCHANGED <<lossless, relays, owner, gen, rate, pend, queries, resp, left,
                   info, asked, ticked>>

-----------------------------------------------------------------------------
(* Time. *)

Second ==
    /\ Quiet
    /\ rate # {} \/ owner = "first"
    /\ rate' = {}
    /\ owner' = IF owner = "first" THEN "due" ELSE owner
    /\ UNCHANGED <<lossless, relays, gen, pend, queries, resp, left, info,
                   asked, ticked, lookup, target, steady>>

\* Mutant: a record in the last period of its life is not expired.
ElapseOffByOne ==
    /\ Quiet
    /\ ticked
    /\ owner \in {"down", "up"}
    /\ lookup # "waiting"
    /\ ticked' = FALSE
    /\ lookup' = "idle"
    /\ asked' = FALSE
    /\ rate' = {}
    /\ left' = [r \in Record |-> IF left[r] > 1 THEN left[r] - 1 ELSE left[r]]
    /\ UNCHANGED <<lossless, relays, owner, gen, pend, queries, resp, info,
                   target, steady>>

\* The next period of the cache loop, when all that is due is done.
Elapse ==
    /\ Quiet
    /\ ticked
    /\ owner \in {"down", "up"}
    /\ lookup # "waiting"
    /\ ticked' = FALSE
    /\ lookup' = "idle"
    /\ asked' = FALSE
    /\ rate' = {}
    /\ left' = [r \in Record |-> IF left[r] > 0 THEN left[r] - 1 ELSE 0]
    /\ UNCHANGED <<lossless, relays, owner, gen, pend, queries, resp, info,
                   target, steady>>

Next ==
    \/ \E m \in queries : HandleQuery(m)
    \/ \E p \in pend : SendAnswer(p)
    \/ Announce \/ AnnounceAgain \/ Depart
    \/ \E m \in resp : HandleResponse(m)
    \/ BrowseQuery \/ CacheLoop
    \/ (\E g \in Gen : ResolveHost(g)) \/ Poll
    \/ Second \/ Elapse

Spec == Init /\ [][Next]_vars

\* An answer of the owner that tells the host of the instance and arrives.
AnswerArrives ==
    \E p \in pend : /\ p.by = "owner" /\ SRV(gen) \in p.ans \cup p.add
                    /\ SendAnswer(p)
                    /\ \E m \in resp' \ resp : SRV(gen) \in m.recs

\* Time passes, goroutines run, the browser keeps querying; of the queries and
\* of the answers that are sent again and again, some arrive.
FairSpec ==
    /\ Spec
    /\ WF_vars(Elapse) /\ WF_vars(Second) /\ WF_vars(AnnounceAgain)
    /\ WF_vars(CacheLoop) /\ WF_vars(Poll)
    /\ WF_vars(\E m \in queries : HandleQuery(m))
    /\ WF_vars(\E p \in pend : SendAnswer(p))
    /\ WF_vars(\E m \in resp : HandleResponse(m))
    /\ SF_vars(BrowseQuery /\ \E m \in queries' \ queries : m.to = "owner")
    /\ SF_vars(AnswerArrives)

-----------------------------------------------------------------------------
\* An instance that the browser lists has the host of the cached SRV record and
\* the cached address of that host, in whatever order and in whatever parts PTR,
\* SRV and addresses arrived, expired and changed.
InfoComplete ==
    \A g \in Gen : info.known /\ Live(SRV(g)) =>
        info.host = g /\ (Live(A(g)) => info.ip = g)

\* If no packet is lost, the SRV record of a followed instance of an owner that
\* is there never lapses: the refresh is asked for, and answered, in time.
FollowedIsLive ==
    lossless /\ Up /\ info.known /\ Quiet => \E g \in Gen : Live(SRV(g))

\* A lookup that returns without an address, though the host was there all the
\* time, has lost a packet: one query, one answer, no retry.
LookupFailsByLossOnly ==
    [][lookup = "waiting" /\ lookup' = "returned" /\ ~Live(A(target))
          => ~(steady /\ lossless)]_vars

\* The browser learns the host of an owner that stays, though it has listed the
\* instance before and its queries name the PTR record as known, and though an
\* answer may be lost or rate limited any number of times.
EventuallyResolved ==
    (Up /\ gen = MaxGen) ~> (~Up \/ info.host = MaxGen)

\* What a departed owner has announced fades from the cache, unless the server
\* answers its own queries from it.
DepartedFades ==
    (~Up /\ ~relays) ~> (Up \/ \A r \in Record : ~Live(r))

\* Once an owner has departed and the answers it sent have arrived, nothing brings
\* its records back: no goroutine, query or refresh that is under way answers for
\* it, unless the server answers its own queries from its cache.
DepartedStaysAway ==
    [][~Up /\ ~Up' /\ ~relays /\ (\A m \in resp : m.bye) =>
          /\ \A r \in Record : left'[r] <= left[r]
          /\ \A m \in resp' : m.bye]_vars

=============================================================================
