----------------------------- MODULE TwoServers -----------------------------
(***************************************************************************)
(* Several servers, each with one service of the same base name, probing   *)
(* against each other over a multicast network that loops a server's own   *)
(* packets back to it (IP_MULTICAST_LOOP), and may lose and reorder them.  *)
(* Per server: the probeService goroutine (src/service.go), the goroutine  *)
(* probeHostRecords, and recvLoop, which handles the authority records of  *)
(* a probe one by one, each under Server.mu (handleProbe, src/server.go).  *)
(*                                                                         *)
(* Data.  A name is its suffix number (1 is the bare name).  RDATA is a    *)
(* sequence of numbers that orders as canonicalRDATA orders the octets; a  *)
(* TXT record is the sequence of its strings, 0 being the empty string.    *)
(* A probe is sent as its text: [from, kind, name, to].                    *)
(*                                                                         *)
(* Responses are left out: an announced service defends its record with    *)
(* one, and a service that is probing never looks at it (handleResponse    *)
(* caches it, detectConflictLocked skips what is not announced).           *)
(***************************************************************************)
EXTENDS Naturals, Sequences, FiniteSets

CONSTANTS Server,      \* the servers on the link
          Config,      \* configurations: rdata and host name of each server
          MaxSuffix,   \* bound: the largest conflict suffix explored
          ProbeCount,  \* DefaultProbeCount
          HostProbes   \* bound: probes for the host records explored

RecordType == {"SRV", "TXT", "A"}

ASSUME TwoServersAssumption ==
    /\ IsFiniteSet(Server)
    /\ MaxSuffix \in Nat \ {0}
    /\ ProbeCount \in Nat \ {0}
    /\ HostProbes \in Nat
    /\ \A c \in Config :
          /\ c.rdata \in [Server -> [RecordType -> Seq(Nat)]]
          /\ DOMAIN c.host = Server

Name == 1 .. MaxSuffix

VARIABLES
    conf,      \* the configuration (never changes)
    timely,    \* are packets and goroutines fast against timers, none lost?
    name,      \* the suffix of the service's name
    state,     \* registeredService.state
    pc,        \* where probeService is
    sent,      \* probes it has sent
    hostSent,  \* probes sent by probeHostRecords
    net,       \* probes in flight
    inbox,     \* authority records of the probe being handled, yet to handle
    met,       \* ghost: peers that probed our name, with a greater record,
               \* while we were probing it
    panicked   \* servers whose process is gone

vars == <<conf, timely, name, state, pc, sent, hostSent, net, inbox, met,
          panicked>>

\* probeService waits for a timer in these places and runs in the others.
Waiting == {"delay", "gap", "lateWait", "done"}
Probe == [from : Server, kind : {"service", "host"}, name : Name, to : Server]

TypeOK ==
    /\ conf \in Config
    /\ timely \in BOOLEAN
    /\ name \in [Server -> Name]
    /\ state \in [Server -> {"idle", "probing", "announced", "conflictLost"}]
    /\ pc \in [Server -> Waiting \cup {"begin", "probe", "check", "commit", "rename"}]
    /\ sent \in [Server -> 0 .. ProbeCount]
    /\ hostSent \in [Server -> 0 .. HostProbes]
    /\ net \subseteq Probe
    /\ \A v \in Server : Len(inbox[v]) <= Cardinality(RecordType)
    /\ met \in [Server -> SUBSET Server]
    /\ panicked \subseteq Server

\* RegisterService has returned in every server.
Init ==
    /\ conf \in Config
    /\ timely \in BOOLEAN
    /\ name = [v \in Server |-> 1]
    /\ state = [v \in Server |-> "idle"]
    /\ pc = [v \in Server |-> "begin"]
    /\ sent = [v \in Server |-> 0]
    /\ hostSent = [v \in Server |-> 0]
    /\ net = {}
    /\ inbox = [v \in Server |-> <<>>]
    /\ met = [v \in Server |-> {}]
    /\ panicked = {}

-----------------------------------------------------------------------------
(* Records and their comparison. *)

\* generateServiceRecords: the address record is owned by the host name.
Owner(v, n, t) == IF t = "A" THEN <<"host", conf.host[v]>> ELSE <<"service", n>>

\* pack and unpackRDATA: no string and one empty string are the same octet.
OnWire(t, r) == IF t = "TXT" /\ r = <<>> THEN <<0>> ELSE r

\* string(a) < string(b): the first difference decides, a prefix is less.
LexLess(a, b) ==
    \E i \in 1 .. Len(b) :
        /\ i > Len(a) \/ a[i] < b[i]
        /\ \A j \in 1 .. i - 1 : j <= Len(a) /\ a[j] = b[j]

\* A host name that another server uses too.
HostIsShared(v) == \E w \in Server \ {v} : conf.host[w] = conf.host[v]

\* buildProbeMessage, then pack and unpack: the records of a probe as received.
\* Two are left out as they meet no other record: the PTR, since none of our
\* cache-flush records has its type, and the address of a host name that only
\* the sender uses.
Authorities(p) ==
    LET ns(t) == [owner |-> Owner(p.from, p.name, t), type |-> t,
                  rdata |-> OnWire(t, conf.rdata[p.from][t])]
        address == IF HostIsShared(p.from) THEN <<ns("A")>> ELSE <<>>
    IN IF p.kind = "host" THEN address ELSE <<ns("SRV"), ns("TXT")>> \o address

\* Our record of type t and w's are for one owner name, differ, and ours sorts
\* first.
Beaten(v, w, t) ==
    /\ t = "A" => conf.host[v] = conf.host[w]
    /\ LexLess(conf.rdata[v][t], OnWire(t, conf.rdata[w][t]))

Weaker(v, w) == \E t \in RecordType : Beaten(v, w, t)

-----------------------------------------------------------------------------
(* probeService *)

\* The service would take a name beyond the explored ones.
Exhausted(v) == pc[v] = "rename" /\ name[v] = MaxSuffix

\* In a timely network a timer fires when nobody has anything else to do.
Quiet ==
    /\ net = {}
    /\ \A v \in Server :
          /\ inbox[v] = <<>>
          /\ v \in panicked \/ pc[v] \in Waiting \/ Exhausted(v)

TimerMayFire == timely => Quiet

Goto(v, from, to) == pc[v] = from /\ pc' = [pc EXCEPT ![v] = to]

ProbeBegin(v) ==
    /\ Goto(v, "begin", "delay")
    /\ state' = [state EXCEPT ![v] = "probing"]
    /\ UNCHANGED <<conf, timely, name, sent, hostSent, net, inbox, met, panicked>>

\* The random delay, DefaultProbeWait between probes and after the last.
ProbeWait(v) ==
    /\ TimerMayFire
    /\ \/ Goto(v, "delay", "probe") /\ sent' = [sent EXCEPT ![v] = 0]
       \/ Goto(v, "gap", "probe") /\ sent' = sent
       \/ Goto(v, "lateWait", "check") /\ sent' = sent
    /\ UNCHANGED <<conf, timely, name, state, hostSent, net, inbox, met, panicked>>

\* Who has to look at a probe of v: the others, and v itself if a record comes
\* back different.  An own record that comes back as it was changes nothing.
Listeners(v) ==
    (IF \A t \in RecordType : OnWire(t, conf.rdata[v][t]) = conf.rdata[v][t]
     THEN Server \ {v} ELSE Server) \ panicked

\* WriteMulticast: a copy for everybody on the link, the sender included; some
\* of the copies are lost.
Multicast(v, kind, n) ==
    \E T \in SUBSET Listeners(v) :
        /\ timely => T = Listeners(v)
        /\ net' = net \cup {[from |-> v, kind |-> kind, name |-> n, to |-> u] :
                               u \in T}

\* Mutant: one probe too many.
SendProbeOffByOne(v) ==
    /\ Goto(v, "probe", IF sent[v] < ProbeCount THEN "gap" ELSE "lateWait")
    /\ sent' = [sent EXCEPT ![v] = @ + 1]
    /\ Multicast(v, "service", name[v])
    /\ UNCHANGED <<conf, timely, name, state, hostSent, inbox, met, panicked>>

\* One probe is sent.
SendProbe(v) ==
    /\ Goto(v, "probe", IF sent[v] + 1 < ProbeCount THEN "gap" ELSE "lateWait")
    /\ sent' = [sent EXCEPT ![v] = @ + 1]
    /\ Multicast(v, "service", name[v])
    /\ met' = [u \in Server |->
                  IF /\ u # v /\ name[u] = name[v] /\ state[u] = "probing"
                     /\ pc[u] \in Waiting \cup {"probe"} /\ Weaker(u, v)
                  THEN met[u] \cup {v} ELSE met[u]]
    /\ UNCHANGED <<conf, timely, name, state, hostSent, inbox, panicked>>

\* Mutant: the tiebreak is not looked at.
CheckTiebreakNever(v) ==
    /\ Goto(v, "check", "commit")
    /\ UNCHANGED <<conf, timely, name, state, sent, hostSent, net, inbox, met,
                   panicked>>

CheckTiebreak(v) ==
    /\ Goto(v, "check", IF state[v] = "conflictLost" THEN "rename" ELSE "commit")
    /\ UNCHANGED <<conf, timely, name, state, sent, hostSent, net, inbox, met,
                   panicked>>

\* The section that marks the service announced; a tiebreak lost since the
\* check has closed probeCh, and closing it again ends the process.
MarkAnnounced(v) ==
    /\ Goto(v, "commit", "done")
    /\ IF state[v] = "conflictLost"
       THEN /\ panicked' = panicked \cup {v}
            /\ net' = {p \in net : p.to # v}
            /\ inbox' = [inbox EXCEPT ![v] = <<>>]
            /\ state' = state
       ELSE /\ state' = [state EXCEPT ![v] = "announced"]
            /\ UNCHANGED <<panicked, net, inbox>>
    /\ UNCHANGED <<conf, timely, name, sent, hostSent, met>>

\* Mutant: nobody probes the new name.
HandleConflictRenameNoProbe(v) ==
    /\ Goto(v, "rename", "done")
    /\ name[v] < MaxSuffix
    /\ name' = [name EXCEPT ![v] = @ + 1]
    /\ state' = [state EXCEPT ![v] = "idle"]
    /\ met' = [met EXCEPT ![v] = {}]
    /\ UNCHANGED <<conf, timely, sent, hostSent, net, inbox, panicked>>

\* handleConflictRename: the next name, idle again, `go s.probeService(rs)`.
HandleConflictRename(v) ==
    /\ Goto(v, "rename", "begin")
    /\ name[v] < MaxSuffix
    /\ name' = [name EXCEPT ![v] = @ + 1]
    /\ state' = [state EXCEPT ![v] = "idle"]
    /\ met' = [met EXCEPT ![v] = {}]
    /\ UNCHANGED <<conf, timely, sent, hostSent, net, inbox, panicked>>

\* probeHostRecords: delay, probes, waits; nothing it hears changes its course,
\* and nobody hears it unless the host name is shared.
ProbeHostRecords(v) ==
    /\ TimerMayFire
    /\ HostIsShared(v)
    /\ hostSent[v] < HostProbes
    /\ hostSent' = [hostSent EXCEPT ![v] = @ + 1]
    /\ Multicast(v, "host", 1)
    /\ UNCHANGED <<conf, timely, name, state, pc, sent, inbox, met, panicked>>

-----------------------------------------------------------------------------
(* The network and recvLoop. *)

\* recvLoop takes the next packet when it is done with the last.
Receive(p) ==
    /\ inbox[p.to] = <<>>
    /\ net' = net \ {p}
    /\ inbox' = [inbox EXCEPT ![p.to] = Authorities(p)]
    /\ UNCHANGED <<conf, timely, name, state, pc, sent, hostSent, met, panicked>>

\* Mutant: the greater record loses.
HandleProbeReversed(v) ==
    LET ns == Head(inbox[v])
        ours == conf.rdata[v][ns.type]
    IN
    /\ inbox[v] # <<>>
    /\ inbox' = [inbox EXCEPT ![v] = Tail(@)]
    /\ state' = [state EXCEPT ![v] =
                   IF /\ @ = "probing"
                      /\ ns.owner = Owner(v, name[v], ns.type)
                      /\ ns.rdata # ours
                      /\ ~LexLess(ours, ns.rdata)
                   THEN "conflictLost" ELSE @]
    /\ UNCHANGED <<conf, timely, name, pc, sent, hostSent, net, met, panicked>>

\* Mutant: the first record alone decides.
HandleProbeFirstOnly(v) ==
    LET ns == Head(inbox[v])
        ours == conf.rdata[v][ns.type]
    IN
    /\ inbox[v] # <<>>
    /\ inbox' = [inbox EXCEPT ![v] = <<>>]
    /\ state' = [state EXCEPT ![v] =
                   IF /\ @ = "probing"
                      /\ ns.owner = Owner(v, name[v], ns.type)
                      /\ ns.rdata # ours
                      /\ LexLess(ours, ns.rdata)
                   THEN "conflictLost" ELSE @]
    /\ UNCHANGED <<conf, timely, name, pc, sent, hostSent, net, met, panicked>>

\* handleProbe, one record: a record equal to ours is taken for our own; a
\* probing service with a lesser record loses, an announced one defends.
HandleProbe(v) ==
    LET ns == Head(inbox[v])
        ours == conf.rdata[v][ns.type]
    IN
    /\ inbox[v] # <<>>
    /\ inbox' = [inbox EXCEPT ![v] = Tail(@)]
    /\ state' = [state EXCEPT ![v] =
                   IF /\ @ = "probing"
                      /\ ns.owner = Owner(v, name[v], ns.type)
                      /\ ns.rdata # ours
                      /\ LexLess(ours, ns.rdata)
                   THEN "conflictLost" ELSE @]
    /\ UNCHANGED <<conf, timely, name, pc, sent, hostSent, net, met, panicked>>

-----------------------------------------------------------------------------
Probing(v) ==
    \/ ProbeBegin(v) \/ ProbeWait(v) \/ SendProbe(v) \/ CheckTiebreak(v)
    \/ MarkAnnounced(v) \/ HandleConflictRename(v)

Recv(v) == HandleProbe(v) \/ \E p \in net : p.to = v /\ Receive(p)

Next ==
    \E v \in Server \ panicked : Probing(v) \/ ProbeHostRecords(v) \/ Recv(v)

Spec == Init /\ [][Next]_vars

\* Goroutines run and timers fire; a packet that arrives is handled.
FairSpec ==
    /\ Spec
    /\ \A v \in Server :
          /\ WF_vars(v \notin panicked /\ Probing(v))
          /\ WF_vars(v \notin panicked /\ ProbeHostRecords(v))
          /\ WF_vars(v \notin panicked /\ Recv(v))

-----------------------------------------------------------------------------
\* <<w, v, c>>: a record of w beats one of v, of the service or of the host name.
Beats ==
    {x \in Server \X Server \X {"name", "host"} :
        /\ x[1] # x[2]
        /\ \E t \in RecordType :
              Beaten(x[2], x[1], t) /\ (x[3] = "host" <=> t = "A")}

Claims == INSTANCE NameClaims WITH
    trying <- name,
    claimed <- {v \in Server : state[v] = "announced"},
    gone <- panicked,
    beats <- Beats

\* The names end up as NameClaims says: a server gives a name up only to a
\* rival with a greater record for it, tries the names one by one, and keeps
\* the one it announced.
ImplementsClaims == Claims!Spec

\* In a timely network no service announces a name that a peer with a greater
\* record probed for while it was probing for it: handleProbe, for one of the
\* records, comes before the check.
TimelyProbeWins ==
    \A v \in Server : timely /\ state[v] = "announced" => met[v] = {}

\* In a timely network the window between the check and the announcement, in
\* which a probe makes the process panic, is never hit.
TimelyNoPanic == timely => panicked = {}

\* All comparisons between two servers agree on the weaker one.
OneOrder ==
    \A v, w \in Server : v # w => ~(Weaker(v, w) /\ Weaker(w, v))

\* The servers with a greater record than v, for one name or host name.
Stronger(v) == {w \in Server \ {v} : Weaker(v, w)}

\* If the records of the servers are ordered alike and no two servers share a
\* host name, a service gives up at most as many names as there are stronger
\* servers: handleConflictRename counts up past the names of those only, however
\* the network loses, delays and reorders probes, and whoever else has renamed.
RenamedByRank ==
    OneOrder /\ (\A v \in Server : ~HostIsShared(v)) =>
        \A v \in Server : name[v] <= 1 + Cardinality(Stronger(v))

\* If the records of the servers are ordered alike, everybody ends up announced,
\* panicked, or out of the explored names, whatever the network does.
Converges ==
    OneOrder => <>(\A v \in Server :
        \/ state[v] = "announced"
        \/ v \in panicked
        \/ Exhausted(v))

-----------------------------------------------------------------------------
(* What the repository says and the code does not do. *)

\* server.go:594 "we check whether ANY of our records match the probe record -
\* if so, it's self-loopback": a service loses to the probe of a peer only.
LosesOnlyToAPeer ==
    \A v \in Server : state[v] = "conflictLost" =>
        \E w \in Server \ {v} :
            \/ name[w] >= name[v] /\ Weaker(v, w)
            \/ Beaten(v, w, "A")

=============================================================================
