---------------------------- MODULE Registration ----------------------------
(***************************************************************************)
(* The life of the registered services of ONE started mDNS server          *)
(* (src/service.go, and handleProbe and Close of src/server.go): the API   *)
(* threads that register, unregister and close, one probeService goroutine *)
(* per service, the goroutines that answer queries, and the probes of the  *)
(* network, which may carry any record at any time.                        *)
(*                                                                         *)
(* A section of code that runs under Server.mu is one action; code between *)
(* two sections is where the other actors' actions interleave.             *)
(*                                                                         *)
(* Data.  A member of Service stands for one *registeredService, that is   *)
(* for one successful RegisterService call with a ServiceInstance of its   *)
(* own.  An instance name is a pair <<base, n>>: n = 1 is the bare name,   *)
(* n >= 2 the name with the suffix " (n)".  RDATA is a number, ordered as  *)
(* canonicalRDATA orders the bytes.  Every service has one SRV, one TXT    *)
(* and one address record; the address record is owned by the host name.   *)
(***************************************************************************)
EXTENDS Naturals

CONSTANTS Service,     \* registeredService objects, one per RegisterService
          Base,        \* instance names without a conflict suffix
          MaxSuffix,   \* bound: the largest conflict suffix explored
          Rdata,       \* Rdata[s][t]: RDATA of the record of type t of s
          PeerRdata,   \* RDATA the probes of the network may carry
          ProbeCount,  \* DefaultProbeCount
          WriteMayFail,\* may a write to an open socket fail (no route)?
          NoService,   \* an absent entry of the services map
          Host         \* the owner name of the address records

RecordType == {"SRV", "TXT", "A"}

ASSUME RegistrationAssumption ==
    /\ NoService \notin Service
    /\ Base # {}
    /\ MaxSuffix \in Nat \ {0}
    /\ ProbeCount \in Nat \ {0}
    /\ Rdata \in [Service -> [RecordType -> Nat]]
    /\ PeerRdata \subseteq Nat
    /\ WriteMayFail \in BOOLEAN
    /\ Host \notin Base \X (1 .. MaxSuffix)

Name == Base \X (1 .. MaxSuffix)

\* A record of a probe's authority section.  An owner and type that none of our
\* cache-flush records has changes nothing, so those are left out.
ProbeRecord == [owner : Name, type : {"SRV", "TXT"}, rdata : PeerRdata]
               \cup [owner : {Host}, type : {"A"}, rdata : PeerRdata]

VARIABLES
    services,   \* Server.services: the map instance name -> service
    state,      \* registeredService.state
    name,       \* the name of rs.instance; rs.records are generated from it
    probeCh,    \* registeredService.probeCh: "open" or "closed"
    pc,         \* where the probeService/announceService goroutine is
    sent,       \* probes sent by the running probeService goroutine
    api,        \* the UnregisterService call for the service
    pending,    \* services with an answering goroutine about to multicast
    air,        \* the last word multicast about the records of the service
    server,     \* progress of Close
    panicked    \* a goroutine closed a closed channel: the process is gone

vars == <<services, state, name, probeCh, pc, sent, api, pending, air,
          server, panicked>>

ServiceState == {"none", "idle", "probing", "announced", "conflictLost"}
Goroutine == {"none", "begin", "delay", "probe", "gap", "lateWait", "check",
              "commit", "rename", "announce", "second", "done", "failed"}
ServerState == {"running", "goodbyesSent", "cancelled", "connClosed", "closed"}

TypeOK ==
    /\ services \in [Name -> Service \cup {NoService}]
    /\ state \in [Service -> ServiceState]
    /\ name \in [Service -> Name]
    /\ probeCh \in [Service -> {"open", "closed"}]
    /\ pc \in [Service -> Goroutine]
    /\ sent \in [Service -> 0 .. ProbeCount]
    /\ api \in [Service -> {"none", "removed", "returned"}]
    /\ pending \subseteq Service
    /\ air \in [Service -> {"silent", "live", "withdrawn"}]
    /\ server \in ServerState
    /\ panicked \in BOOLEAN

Init ==
    /\ services = [n \in Name |-> NoService]
    /\ state = [s \in Service |-> "none"]
    /\ name = [s \in Service |-> CHOOSE n \in Name : TRUE]
    /\ probeCh = [s \in Service |-> "open"]
    /\ pc = [s \in Service |-> "none"]
    /\ sent = [s \in Service |-> 0]
    /\ api = [s \in Service |-> "none"]
    /\ pending = {}
    /\ air = [s \in Service |-> "silent"]
    /\ server = "running"
    /\ panicked = FALSE

-----------------------------------------------------------------------------
\* incrementNameSuffix: "X" -> "X (2)" -> "X (3)" ...
IncrementNameSuffix(n) == <<n[1], n[2] + 1>>

Cancelled == server \in {"cancelled", "connClosed", "closed"}

\* WriteMulticast succeeds or fails.
WriteOK == server \notin {"connClosed", "closed"}
WriteFails == WriteMayFail \/ ~WriteOK

Registered == {services[n] : n \in Name} \ {NoService}

\* generateServiceRecords, the cache-flush records only: the PTR is shared.
ServiceRecords(s) ==
    {[owner |-> IF t = "A" THEN Host ELSE name[s], type |-> t,
      rdata |-> Rdata[s][t]] : t \in RecordType}

\* handleProbe's inner loop: s has a record with the owner and type of ns, and
\* none that equals ns (which would be the loopback of its own probe).
ConflictingRecords(s, ns) ==
    {rr \in ServiceRecords(s) :
        /\ ns \notin ServiceRecords(s)
        /\ rr.owner = ns.owner
        /\ rr.type = ns.type}

\* probeLoses: our RDATA sorts before theirs.
ProbeLoses(ours, theirs) == ours.rdata < theirs.rdata

\* sendResponseMulticast: the records of s reach the network, or the rate limit
\* or a write error drops them, which the caller never learns.
SendResponseMulticast(s) ==
    \/ WriteOK /\ air' = [air EXCEPT ![s] = "live"]
    \/ air' = air

\* sendGoodbye for each service of S: not rate limited, one packet each, which
\* is written or not.
SendGoodbye(S) ==
    \E T \in SUBSET S :
        /\ T # {} => WriteOK
        /\ T # S => WriteFails
        /\ air' = [s \in Service |-> IF s \in T THEN "withdrawn" ELSE air[s]]

-----------------------------------------------------------------------------
\* RegisterService: one critical section, then `go s.probeService(rs)`.
RegisterService(s, n) ==
    /\ state[s] = "none"
    /\ services[n] = NoService
    /\ services' = [services EXCEPT ![n] = s]
    /\ state' = [state EXCEPT ![s] = "idle"]
    /\ name' = [name EXCEPT ![s] = n]
    /\ probeCh' = [probeCh EXCEPT ![s] = "open"]
    /\ pc' = [pc EXCEPT ![s] = "begin"]
    /\ UNCHANGED <<sent, api, pending, air, server, panicked>>

\* UnregisterService, first half: the entry leaves the map under the lock.
UnregisterService(n) ==
    /\ services[n] # NoService
    /\ services' = [services EXCEPT ![n] = NoService]
    /\ api' = [api EXCEPT ![services[n]] = "removed"]
    /\ UNCHANGED <<state, name, probeCh, pc, sent, pending, air, server,
                   panicked>>

\* UnregisterService, second half: rs.state is read without the lock.
UnregisterGoodbye(s) ==
    /\ api[s] = "removed"
    /\ api' = [api EXCEPT ![s] = "returned"]
    /\ SendGoodbye({s} \cap {u \in Service : state[u] = "announced"})
    /\ UNCHANGED <<services, state, name, probeCh, pc, sent, pending, server,
                   panicked>>

\* The goroutine of s moves from one of its program points to another.
Goto(s, from, to) == pc[s] = from /\ pc' = [pc EXCEPT ![s] = to]

\* A wait on a timer and on ctx.Done(): when both are ready either may win.
TimerOrDone(s, from, to) ==
    \/ Goto(s, from, to)
    \/ Cancelled /\ Goto(s, from, "done")

\* probeService: the first critical section.
ProbeBegin(s) ==
    /\ Goto(s, "begin", "delay")
    /\ state' = [state EXCEPT ![s] = "probing"]
    /\ UNCHANGED <<services, name, probeCh, sent, api, pending, air, server,
                   panicked>>

\* probeService: the random initial delay, then a new probe message.
ProbeDelay(s) ==
    /\ TimerOrDone(s, "delay", "probe")
    /\ sent' = [sent EXCEPT ![s] = 0]
    /\ UNCHANGED <<services, state, name, probeCh, api, pending, air, server,
                   panicked>>

\* Mutant: one probe too many.
SendProbeOffByOne(s) ==
    /\ WriteOK
    /\ sent' = [sent EXCEPT ![s] = @ + 1]
    /\ Goto(s, "probe", IF sent[s] < ProbeCount THEN "gap" ELSE "lateWait")
    /\ UNCHANGED <<services, state, name, probeCh, api, pending, air, server,
                   panicked>>

\* probeService: one probe is multicast; a failed write ends the goroutine.
SendProbe(s) ==
    /\ \/ /\ WriteOK
          /\ sent' = [sent EXCEPT ![s] = @ + 1]
          /\ Goto(s, "probe", IF sent[s] + 1 < ProbeCount THEN "gap" ELSE "lateWait")
       \/ /\ WriteFails
          /\ sent' = sent
          /\ Goto(s, "probe", "failed")
    /\ UNCHANGED <<services, state, name, probeCh, api, pending, air, server,
                   panicked>>

\* probeService: DefaultProbeWait between probes, and once more after the last.
ProbeWait(s) ==
    /\ TimerOrDone(s, "gap", "probe") \/ TimerOrDone(s, "lateWait", "check")
    /\ UNCHANGED <<services, state, name, probeCh, sent, api, pending, air,
                   server, panicked>>

\* Mutant: the goroutine waits for probeCh before it decides.
CheckTiebreakAwaitsChannel(s) ==
    /\ probeCh[s] = "closed"
    /\ Goto(s, "check", IF state[s] = "conflictLost" THEN "rename" ELSE "commit")
    /\ UNCHANGED <<services, state, name, probeCh, sent, api, pending, air,
                   server, panicked>>

\* probeService: the state is read under the read lock, and acted upon later.
CheckTiebreak(s) ==
    /\ Goto(s, "check", IF state[s] = "conflictLost" THEN "rename" ELSE "commit")
    /\ UNCHANGED <<services, state, name, probeCh, sent, api, pending, air,
                   server, panicked>>

\* Mutant: the section also saves the service in the map.
MarkAnnouncedReinserts(s) ==
    /\ Goto(s, "commit", "announce")
    /\ state' = [state EXCEPT ![s] = "announced"]
    /\ probeCh' = [probeCh EXCEPT ![s] = "closed"]
    /\ panicked' = (probeCh[s] = "closed")
    /\ services' = [services EXCEPT ![name[s]] = s]
    /\ UNCHANGED <<name, sent, api, pending, air, server>>

\* probeService: the section that marks the service announced.
MarkAnnounced(s) ==
    /\ Goto(s, "commit", "announce")
    /\ state' = [state EXCEPT ![s] = "announced"]
    /\ probeCh' = [probeCh EXCEPT ![s] = "closed"]
    /\ panicked' = (probeCh[s] = "closed")
    /\ UNCHANGED <<services, name, sent, api, pending, air, server>>

\* announceService: at once, and again after a second unless closing.
AnnounceService(s) ==
    /\ Goto(s, "announce", "second") \/ Goto(s, "second", "done")
    /\ SendResponseMulticast(s)
    /\ UNCHANGED <<services, state, name, probeCh, sent, api, pending, server,
                   panicked>>

\* Mutant: the channel that was closed is kept.
HandleConflictRenameOldChannel(s) ==
    LET new == IncrementNameSuffix(name[s]) IN
    /\ Goto(s, "rename", "begin")
    /\ name[s][2] < MaxSuffix
    /\ name' = [name EXCEPT ![s] = new]
    /\ state' = [state EXCEPT ![s] = "idle"]
    /\ services' = [services EXCEPT ![name[s]] = NoService, ![new] = s]
    /\ UNCHANGED <<probeCh, sent, api, pending, air, server, panicked>>

\* Mutant: the old key stays in the map.
HandleConflictRenameKeepsKey(s) ==
    LET new == IncrementNameSuffix(name[s]) IN
    /\ Goto(s, "rename", "begin")
    /\ name[s][2] < MaxSuffix
    /\ name' = [name EXCEPT ![s] = new]
    /\ state' = [state EXCEPT ![s] = "idle"]
    /\ probeCh' = [probeCh EXCEPT ![s] = "open"]
    /\ services' = [services EXCEPT ![new] = s]
    /\ UNCHANGED <<sent, api, pending, air, server, panicked>>

\* Mutant: nobody probes the new name.
HandleConflictRenameNoProbe(s) ==
    LET new == IncrementNameSuffix(name[s]) IN
    /\ Goto(s, "rename", "done")
    /\ name[s][2] < MaxSuffix
    /\ name' = [name EXCEPT ![s] = new]
    /\ state' = [state EXCEPT ![s] = "idle"]
    /\ probeCh' = [probeCh EXCEPT ![s] = "open"]
    /\ services' = [services EXCEPT ![name[s]] = NoService, ![new] = s]
    /\ UNCHANGED <<sent, api, pending, air, server, panicked>>

\* handleConflictRename: new name, new records, new channel, new map entry (an
\* entry already under the new key is overwritten), then a new probeService.
HandleConflictRename(s) ==
    LET new == IncrementNameSuffix(name[s]) IN
    /\ Goto(s, "rename", "begin")
    /\ name[s][2] < MaxSuffix
    /\ name' = [name EXCEPT ![s] = new]
    /\ state' = [state EXCEPT ![s] = "idle"]
    /\ probeCh' = [probeCh EXCEPT ![s] = "open"]
    /\ services' = [services EXCEPT ![name[s]] = NoService, ![new] = s]
    /\ UNCHANGED <<sent, api, pending, air, server, panicked>>

-----------------------------------------------------------------------------
\* Mutant: an announced service obeys a probe as a probing one does.
HandleProbeAlwaysTiebreaks(ns) ==
    LET losers == {s \in Registered :
                      /\ state[s] \in {"probing", "announced"}
                      /\ \E rr \in ConflictingRecords(s, ns) : ProbeLoses(rr, ns)}
    IN
    /\ server # "closed"
    /\ state' = [s \in Service |-> IF s \in losers THEN "conflictLost" ELSE state[s]]
    /\ probeCh' = [s \in Service |-> IF s \in losers THEN "closed" ELSE probeCh[s]]
    /\ panicked' = (\E s \in losers : probeCh[s] = "closed")
    /\ UNCHANGED <<services, name, pc, sent, api, pending, air, server>>

\* handleProbe, for one authority record and every service of the map: an
\* announced service defends its record, a probing one may lose the tiebreak.
HandleProbe(ns) ==
    LET contested == {s \in Registered : ConflictingRecords(s, ns) # {}}
        losers == {s \in contested :
                      /\ state[s] = "probing"
                      /\ \E rr \in ConflictingRecords(s, ns) : ProbeLoses(rr, ns)}
        defenders == {s \in contested : state[s] = "announced"}
    IN
    /\ server # "closed"
    /\ state' = [s \in Service |-> IF s \in losers THEN "conflictLost" ELSE state[s]]
    /\ probeCh' = [s \in Service |-> IF s \in losers THEN "closed" ELSE probeCh[s]]
    /\ panicked' = (\E s \in losers : probeCh[s] = "closed")
    /\ pending' = pending \cup defenders
    /\ UNCHANGED <<services, name, pc, sent, api, air, server>>

\* Mutant: services that are still probing are answered for.
HandleQueryAnyState(s) ==
    /\ server # "closed"
    /\ s \in Registered
    /\ pending' = pending \cup {s}
    /\ UNCHANGED <<services, state, name, probeCh, pc, sent, api, air, server,
                   panicked>>

\* Mutant: a service that was unregistered is still found.
HandleQueryUnregistered(s) ==
    /\ server # "closed"
    /\ state[s] = "announced"
    /\ pending' = pending \cup {s}
    /\ UNCHANGED <<services, state, name, probeCh, pc, sent, api, air, server,
                   panicked>>

\* handleQuery, as far as it concerns a service: the records of an announced
\* service are captured, a goroutine multicasts them after a delay.
HandleQuery(s) ==
    /\ server # "closed"
    /\ s \in Registered
    /\ state[s] = "announced"
    /\ pending' = pending \cup {s}
    /\ UNCHANGED <<services, state, name, probeCh, pc, sent, api, air, server,
                   panicked>>

\* The answering goroutine.  One that waits for its delay may be ended by
\* ctx.Done() instead, which is the case where nothing is sent.
SendAnswer(s) ==
    /\ s \in pending
    /\ pending' = pending \ {s}
    /\ SendResponseMulticast(s)
    /\ UNCHANGED <<services, state, name, probeCh, pc, sent, api, server,
                   panicked>>

\* Close: goodbyes under the read lock; then cancel, close the sockets, wait.
CloseGoodbyes ==
    /\ server = "running"
    /\ server' = "goodbyesSent"
    /\ SendGoodbye({s \in Registered : state[s] = "announced"})
    /\ UNCHANGED <<services, state, name, probeCh, pc, sent, api, pending,
                   panicked>>

CloseStep ==
    /\ \/ server = "goodbyesSent" /\ server' = "cancelled"
       \/ server = "cancelled" /\ server' = "connClosed"
       \/ server = "connClosed" /\ server' = "closed"
    /\ UNCHANGED <<services, state, name, probeCh, pc, sent, api, pending, air,
                   panicked>>

\* The steps of the goroutine of s.
Probing(s) ==
    \/ ProbeBegin(s) \/ ProbeDelay(s) \/ SendProbe(s) \/ ProbeWait(s)
    \/ CheckTiebreak(s) \/ MarkAnnounced(s) \/ AnnounceService(s)
    \/ HandleConflictRename(s)

Next ==
    /\ ~panicked
    /\ \/ \E s \in Service, n \in Name : RegisterService(s, n)
       \/ \E n \in Name : UnregisterService(n)
       \/ \E s \in Service : UnregisterGoodbye(s)
       \/ \E s \in Service : Probing(s)
       \/ \E ns \in ProbeRecord : HandleProbe(ns)
       \/ \E s \in Service : HandleQuery(s)
       \/ \E s \in Service : SendAnswer(s)
       \/ CloseGoodbyes
       \/ CloseStep

Spec == Init /\ [][Next]_vars

\* The Go scheduler runs every runnable goroutine and the timers it waits for
\* fire; nothing obliges the application or the network to act.
FairSpec == Spec /\ \A s \in Service : WF_vars(~panicked /\ Probing(s))

-----------------------------------------------------------------------------
\* probeCh has two closers, handleProbe and probeService.  The channel is open
\* exactly while the service can still lose or win its name, so handleProbe
\* never closes a closed channel.
ProbeChDiscipline ==
    \A s \in Service :
        /\ state[s] \in {"idle", "probing"} => probeCh[s] = "open"
        /\ state[s] \in {"announced", "conflictLost"} => probeCh[s] = "closed"

\* The one way the process can die: a probe that wins the tiebreak after the
\* goroutine has read "no conflict".  handleProbe itself never closes a channel
\* twice, whatever the order of probes, renames and unregistrations.
PanicOnlyInWindow ==
    [][panicked' => \E s \in Service :
                        pc[s] = "commit" /\ state[s] = "conflictLost"]_vars

\* Nothing about a service is multicast as a response before the complete probe
\* sequence for the name it has now was sent, across renames and restarts of
\* the probing goroutine.
ProbedBeforeServed ==
    \A s \in Service :
        (air[s] # "silent" \/ s \in pending)
            => state[s] = "announced" /\ sent[s] = ProbeCount

\* The key of a service in the map is its current name, so UnregisterService
\* with the caller's own (possibly renamed) ServiceInstance finds it.
MapKeyIsName ==
    \A n \in Name : \A s \in Service :
        services[n] = s => name[s] = n /\ state[s] # "none"

\* While nobody closes the server, no service is left in a non-final state
\* without a goroutine that will move it on, unless a write error ended it.
NoStrandedService ==
    \A s \in Service :
        /\ state[s] \in {"idle", "probing", "conflictLost"}
        /\ pc[s] \in {"none", "announce", "second", "done"}
        => Cancelled

\* An announced service keeps its name and stays announced: later probes and
\* conflicting responses are answered, never obeyed.
AnnouncedStable ==
    [][\A s \in Service : state[s] = "announced" =>
          state'[s] = "announced" /\ name'[s] = name[s]]_vars

\* A service leaves the map when it is unregistered, or when the rename of another
\* one takes its key; it enters when it is registered, or by its own rename.
MapIsStable ==
    [][\A s \in Service :
          /\ s \in Registered /\ s \notin Registered' =>
                 \/ api'[s] = "removed"
                 \/ \E u \in Service \ {s} : pc[u] = "rename" /\ pc'[u] = "begin"
          /\ s \notin Registered /\ s \in Registered' =>
                 state[s] = "none" \/ pc[s] = "rename"]_vars

\* A service is out of the map, and neither its own goroutine nor an answering
\* one is left.
Drained(s) ==
    /\ s \notin Registered
    /\ pc[s] \in {"done", "failed"}
    /\ s \notin pending

\* Once what was under way when UnregisterService was called has run out, the
\* service is neither answered for, nor defended, nor put back, ever again.
DrainedIsSilent ==
    [][\A s \in Service : Drained(s) =>
          Drained(s)' /\ (air'[s] = "live" => air[s] = "live")]_vars

\* Every probing sequence ends: the service is announced, or its goroutine gave
\* up (closing, write error), or the explored suffixes are used up.
ProbeSettles ==
    \A s \in Service :
        pc[s] = "begin" ~> \/ state[s] = "announced"
                           \/ pc[s] \in {"done", "failed"}
                           \/ pc[s] = "rename" /\ name[s][2] = MaxSuffix
                           \/ panicked

-----------------------------------------------------------------------------
(* What the repository says and the code does not do. *)

\* service.go:165 "If conflict and we lose tiebreak (#2), rename and re-probe
\* (#1)": a service that lost the tiebreak leaves that state by a rename only.
LoserIsRenamed ==
    [][\A s \in Service :
          state[s] = "conflictLost" /\ state'[s] # "conflictLost"
              => name'[s] = IncrementNameSuffix(name[s])]_vars

\* service.go:55 "removes a previously registered service and sends goodbye":
\* once the call returned, the last word about the service is not "alive".
UnregisteredIsWithdrawn ==
    \A s \in Service : api[s] = "returned" => air[s] # "live"

=============================================================================
