-------------------------- MODULE TwoServersProofs --------------------------
(***************************************************************************)
(* Proof that the servers implement NameClaims, for any number of servers, *)
(* any records and host names, any number of probes, and a network that    *)
(* loses and reorders.  Every service has a text: without one a service    *)
(* loses to its own probe (LosesOnlyToAPeer).  Then, with or without a     *)
(* text, what a timely network gives: no panic, and the greater record     *)
(* wins.  Last, the bound on renames: the comparison of records is a total *)
(* order, so that servers ordered alike have ranks.                        *)
(***************************************************************************)
EXTENDS TwoServers, FiniteSetTheorems, WellFoundedInduction, TLAPS

\* Every service has a text.
HasText == \A v \in Server : conf.rdata[v]["TXT"] # <<>>

\* The record of type t in a probe that w sent under the name n.
Sent(w, n, t) ==
    [owner |-> Owner(w, n, t), type |-> t, rdata |-> OnWire(t, conf.rdata[w][t])]

\* The records of probes that a server has sent so far.
Heard == {Sent(x[1], x[2], x[3]) :
             x \in {y \in Server \X Name \X RecordType : y[2] <= name[y[1]]}}

\* Someone has a greater record for the name v tries, or for its host name.
Contested(v) ==
    \E w \in Server \ {v} :
        \/ Beaten(v, w, "A")
        \/ name[w] >= name[v] /\ \E t \in {"SRV", "TXT"} : Beaten(v, w, t)

Types ==
    /\ conf \in Config
    /\ name \in [Server -> Name]
    /\ state \in [Server -> {"idle", "probing", "announced", "conflictLost"}]
    /\ pc \in [Server -> Waiting \cup {"begin", "probe", "check", "commit", "rename"}]
    /\ panicked \subseteq Server

\* Where probeService is tells what the state can be.
LocusInv ==
    \A v \in Server :
        /\ pc[v] = "begin" => state[v] = "idle"
        /\ pc[v] \in {"delay", "gap", "lateWait", "probe", "check", "commit"}
              => state[v] \in {"probing", "conflictLost"}
        /\ pc[v] = "rename" => state[v] = "conflictLost"
        /\ v \in panicked => state[v] # "announced"

\* Probes in flight and records being handled were sent, under names that the
\* sender tries or has tried.
NetInv ==
    /\ \A p \in net : p \in Probe /\ p.name <= name[p.from]
    /\ inbox \in [Server -> Seq(Heard)]

\* A service that has lost has lost to a rival.
LostInv == \A v \in Server : state[v] = "conflictLost" => Contested(v)

\* The inductive invariant.
IInv == Types /\ HasText /\ LocusInv /\ NetInv /\ LostInv

-----------------------------------------------------------------------------
\* A sequence over a set is one over any larger set.
LEMMA SeqMonotone ==
    ASSUME NEW S, NEW T, S \subseteq T, NEW q \in Seq(S)
    PROVE  q \in Seq(T)
  OBVIOUS

\* Initially the invariant holds.
LEMMA InitIInv == Init /\ HasText => IInv
<1> SUFFICES ASSUME Init, HasText PROVE IInv
  OBVIOUS
<1>1. Types
  BY TwoServersAssumption DEF Init, Types, Name
<1>2. LocusInv /\ LostInv
  BY DEF Init, LocusInv, LostInv
<1>3. NetInv
  BY DEF Init, NetInv
<1> QED
  BY <1>1, <1>2, <1>3 DEF IInv

\* The records of a probe in flight are among those that were sent.
LEMMA AuthoritiesHeard ==
    ASSUME IInv, NEW p \in net
    PROVE  Authorities(p) \in Seq(Heard)
<1>1. /\ p.from \in Server /\ p.name \in Name /\ p.name <= name[p.from]
  BY DEF IInv, NetInv, Probe
<1>2. \A t \in RecordType : Sent(p.from, p.name, t) \in Heard
  <2> TAKE t \in RecordType
  <2>1. <<p.from, p.name, t>> \in {y \in Server \X Name \X RecordType : y[2] <= name[y[1]]}
    BY <1>1
  <2> QED
    BY <2>1 DEF Heard
<1>3. Authorities(p) = IF p.kind = "host"
                       THEN (IF HostIsShared(p.from) THEN <<Sent(p.from, p.name, "A")>> ELSE <<>>)
                       ELSE <<Sent(p.from, p.name, "SRV"), Sent(p.from, p.name, "TXT")>>
                            \o (IF HostIsShared(p.from) THEN <<Sent(p.from, p.name, "A")>> ELSE <<>>)
  BY DEF Authorities, Sent
<1> QED
  BY <1>2, <1>3 DEF RecordType

\* A server loses to a record of another one only, and for a name that the
\* other tries or has tried.
LEMMA LosesToRival ==
    ASSUME IInv, NEW v \in Server, NEW ns \in Heard,
           ns.owner = Owner(v, name[v], ns.type),
           ns.rdata # conf.rdata[v][ns.type],
           LexLess(conf.rdata[v][ns.type], ns.rdata)
    PROVE  Contested(v)
<1>1. PICK x \in Server \X Name \X RecordType :
         x[2] <= name[x[1]] /\ ns = Sent(x[1], x[2], x[3])
  BY DEF Heard
<1> DEFINE w == x[1]
           t == x[3]
<1>2. /\ w \in Server /\ t \in RecordType /\ ns.type = t
      /\ ns.rdata = OnWire(t, conf.rdata[w][t]) /\ ns.owner = Owner(w, x[2], t)
  BY <1>1 DEF Sent
<1>3. w # v
  BY <1>2 DEF OnWire, IInv, HasText
<1>4. CASE t = "A"
  <2>1. conf.host[v] = conf.host[w]
    BY <1>2, <1>4 DEF Owner
  <2>2. Beaten(v, w, "A")
    BY <1>2, <1>4, <2>1 DEF Beaten
  <2> QED
    BY <1>2, <1>3, <2>2 DEF Contested
<1>5. CASE t # "A"
  <2>1. x[2] = name[v]
    BY <1>2, <1>5 DEF Owner
  <2>2. Beaten(v, w, t)
    BY <1>2, <1>5 DEF Beaten
  <2>3. name[w] >= name[v]
    BY <1>1, <1>2, <2>1 DEF IInv, Types, Name
  <2> QED
    BY <1>2, <1>3, <1>5, <2>2, <2>3 DEF Contested, RecordType
<1> QED
  BY <1>4, <1>5

\* Names only grow, so that what has been sent stays sent.
LEMMA HeardGrows ==
    ASSUME Types, conf' = conf, name' \in [Server -> Name],
           \A u \in Server : name[u] <= name'[u]
    PROVE  Heard \subseteq Heard'
<1> SUFFICES ASSUME NEW r \in Heard PROVE r \in Heard'
  OBVIOUS
<1>1. PICK x \in Server \X Name \X RecordType :
         x[2] <= name[x[1]] /\ r = Sent(x[1], x[2], x[3])
  BY DEF Heard
<1>2. x[2] <= name'[x[1]]
  <2>1. x[1] \in Server /\ x[2] \in Nat /\ name[x[1]] \in Nat /\ name'[x[1]] \in Nat
    BY DEF Types, Name
  <2> QED
    BY <1>1, <2>1
<1>3. r = Sent(x[1], x[2], x[3])'
  BY <1>1 DEF Sent, Owner, OnWire
<1> QED
  BY <1>2, <1>3 DEF Heard

\* A record that is beaten stays so: the configuration never changes.
LEMMA SameRecords ==
    ASSUME conf' = conf
    PROVE  /\ HasText => HasText'
           /\ \A v, w \in Server : \A t \in RecordType : Beaten(v, w, t)' <=> Beaten(v, w, t)
  BY DEF HasText, Beaten, LexLess, OnWire

\* Whoever is contested stays so until it takes another name.
LEMMA ContestedStays ==
    ASSUME Types, conf' = conf, name' \in [Server -> Name],
           \A u \in Server : name[u] <= name'[u],
           NEW v \in Server, name'[v] = name[v], Contested(v)
    PROVE  Contested(v)'
<1>1. \A w \in Server : \A t \in RecordType : Beaten(v, w, t)' <=> Beaten(v, w, t)
  BY SameRecords
<1>2. \A w \in Server : name[w] >= name[v] => name'[w] >= name'[v]
  BY DEF Types, Name
<1>3. PICK w \in Server \ {v} :
        \/ Beaten(v, w, "A")
        \/ name[w] >= name[v] /\ \E t \in {"SRV", "TXT"} : Beaten(v, w, t)
  BY DEF Contested
<1>4. CASE Beaten(v, w, "A")
  BY <1>1, <1>4 DEF Contested, RecordType
<1>5. CASE name[w] >= name[v] /\ \E t \in {"SRV", "TXT"} : Beaten(v, w, t)
  <2>1. PICK t \in {"SRV", "TXT"} : Beaten(v, w, t)
    BY <1>5
  <2>2. Beaten(v, w, t)'
    BY <1>1, <2>1 DEF RecordType
  <2>3. name'[w] >= name'[v]
    BY <1>2, <1>5
  <2> QED
    BY <2>1, <2>2, <2>3 DEF Contested
<1> QED
  BY <1>3, <1>4, <1>5

\* A probe sent under the name its sender tries is in order.
LEMMA MulticastIsSent ==
    ASSUME IInv, NEW v \in Server, NEW n \in Name, n <= name[v],
           NEW kind \in {"service", "host"}, Multicast(v, kind, n)
    PROVE  \A p \in net' : p \in Probe /\ p.name <= name[p.from]
<1>1. PICK T \in SUBSET Listeners(v) :
        net' = net \cup {[from |-> v, kind |-> kind, name |-> n, to |-> u] : u \in T}
  BY DEF Multicast
<1>2. T \subseteq Server
  BY <1>1 DEF Listeners
<1> QED
  BY <1>1, <1>2 DEF IInv, NetInv, Probe

\* Most steps leave the names alone: what is left to show about them.
LEMMA SameNames ==
    ASSUME IInv, conf' = conf, name' = name
    PROVE  /\ HasText'
           /\ Heard' = Heard
           /\ \A v \in Server : Contested(v) => Contested(v)'
<1>1. Types /\ HasText /\ name' \in [Server -> Name] /\ \A u \in Server : name[u] <= name'[u]
  BY DEF IInv, Types, Name
<1>2. Heard' = Heard
  BY DEF Heard, Sent, Owner, OnWire
<1>3. \A v \in Server : Contested(v) => Contested(v)'
  BY <1>1, ContestedStays
<1> QED
  BY <1>1, <1>2, <1>3, SameRecords

\* probeService between its sections, and its probes.
LEMMA ProbingStep ==
    ASSUME IInv, NEW v \in Server,
           ProbeBegin(v) \/ ProbeWait(v) \/ SendProbe(v) \/ CheckTiebreak(v)
    PROVE  IInv'
<1> USE DEF Goto
<1>1. conf' = conf /\ name' = name /\ inbox' = inbox /\ panicked' = panicked
  BY DEF ProbeBegin, ProbeWait, SendProbe, CheckTiebreak
<1>2. HasText' /\ Heard' = Heard /\ \A u \in Server : Contested(u) => Contested(u)'
  BY <1>1, SameNames
<1>3. Types'
  BY <1>1 DEF IInv, Types, Waiting, ProbeBegin, ProbeWait, SendProbe, CheckTiebreak
<1>4. LocusInv'
  BY <1>1 DEF IInv, Types, LocusInv, Waiting, ProbeBegin, ProbeWait, SendProbe, CheckTiebreak
<1>5. NetInv'
  <2>1. CASE net' = net
    BY <1>1, <1>2, <2>1 DEF IInv, NetInv
  <2>2. CASE SendProbe(v)
    <3>1. name[v] \in Name /\ name[v] <= name[v]
      BY DEF IInv, Types, Name
    <3>2. Multicast(v, "service", name[v])
      BY <2>2 DEF SendProbe
    <3>3. \A p \in net' : p \in Probe /\ p.name <= name[p.from]
      BY <3>1, <3>2, MulticastIsSent
    <3> QED
      BY <1>1, <1>2, <3>3 DEF IInv, NetInv
  <2> QED
    BY <2>1, <2>2 DEF ProbeBegin, ProbeWait, CheckTiebreak
<1>6. LostInv'
  <2>1. \A u \in Server : state'[u] = "conflictLost" => state[u] = "conflictLost"
    BY DEF IInv, Types, ProbeBegin, ProbeWait, SendProbe, CheckTiebreak
  <2> QED
    BY <1>2, <2>1 DEF IInv, LostInv
<1> QED
  BY <1>2, <1>3, <1>4, <1>5, <1>6 DEF IInv

\* The end of probeService: announced, or the process is gone.
LEMMA AnnouncedStep ==
    ASSUME IInv, NEW v \in Server \ panicked, MarkAnnounced(v)
    PROVE  IInv'
<1> USE DEF Goto
<1>1. conf' = conf /\ name' = name
  BY DEF MarkAnnounced
<1>2. HasText' /\ Heard' = Heard /\ \A u \in Server : Contested(u) => Contested(u)'
  BY <1>1, SameNames
<1>3. Types'
  BY <1>1 DEF IInv, Types, Waiting, MarkAnnounced
<1>4. LocusInv'
  BY <1>1 DEF IInv, Types, LocusInv, Waiting, MarkAnnounced
<1>5. NetInv'
  <2>1. net' \subseteq net
    BY DEF MarkAnnounced
  <2>2. <<>> \in Seq(Heard) /\ inbox \in [Server -> Seq(Heard)]
    BY DEF IInv, NetInv
  <2>3. inbox' = inbox \/ inbox' = [inbox EXCEPT ![v] = <<>>]
    BY DEF MarkAnnounced
  <2>4. inbox' \in [Server -> Seq(Heard)]
    BY <2>2, <2>3
  <2> QED
    BY <1>1, <1>2, <2>1, <2>4 DEF IInv, NetInv
<1>6. LostInv'
  BY <1>2 DEF IInv, LostInv, Types, MarkAnnounced
<1> QED
  BY <1>2, <1>3, <1>4, <1>5, <1>6 DEF IInv

\* The next name: whoever lost to the old one is contested still.
LEMMA RenameStep ==
    ASSUME IInv, NEW v \in Server \ panicked, HandleConflictRename(v)
    PROVE  IInv'
<1> USE DEF Goto
<1>1. /\ conf' = conf /\ net' = net /\ inbox' = inbox /\ panicked' = panicked
      /\ name' = [name EXCEPT ![v] = @ + 1] /\ name[v] < MaxSuffix
  BY DEF HandleConflictRename
<1>2. name' \in [Server -> Name] /\ \A u \in Server : name[u] <= name'[u]
  BY <1>1, TwoServersAssumption DEF IInv, Types, Name
<1>3. Heard \subseteq Heard'
  BY <1>1, <1>2, HeardGrows DEF IInv
<1>4. Types'
  BY <1>1, <1>2 DEF IInv, Types, HandleConflictRename
<1>5. LocusInv'
  BY <1>1 DEF IInv, Types, LocusInv, HandleConflictRename
<1>6. NetInv'
  <2>1. \A p \in net' : p \in Probe /\ p.name <= name'[p.from]
    <3> TAKE p \in net'
    <3>1. p \in Probe /\ p.name <= name[p.from]
      BY <1>1 DEF IInv, NetInv
    <3>2. p.from \in Server /\ p.name \in Nat
      BY <3>1 DEF Probe, Name
    <3>3. name[p.from] \in Nat /\ name'[p.from] \in Nat
      BY <1>2, <3>2 DEF IInv, Types, Name
    <3> QED
      BY <1>2, <3>1, <3>2, <3>3
  <2>2. \A u \in Server : inbox[u] \in Seq(Heard')
    BY <1>3, SeqMonotone DEF IInv, NetInv
  <2>3. inbox' \in [Server -> Seq(Heard')]
    BY <1>1, <2>2 DEF IInv, NetInv
  <2> QED
    BY <2>1, <2>3 DEF NetInv
<1>7. LostInv'
  <2> SUFFICES ASSUME NEW u \in Server, state'[u] = "conflictLost" PROVE Contested(u)'
    BY DEF LostInv
  <2>1. u # v /\ state[u] = "conflictLost"
    BY DEF HandleConflictRename, IInv, Types
  <2>2. Contested(u) /\ name'[u] = name[u]
    BY <1>1, <2>1 DEF IInv, LostInv, Types
  <2> QED
    BY <1>1, <1>2, <2>2, ContestedStays DEF IInv
<1> QED
  BY <1>1, <1>4, <1>5, <1>6, <1>7, SameRecords DEF IInv

\* probeHostRecords and the arrival of a packet leave the services alone.
LEMMA PacketStep ==
    ASSUME IInv, NEW v \in Server,
           ProbeHostRecords(v) \/ \E p \in net : p.to = v /\ Receive(p)
    PROVE  IInv'
<1>1. /\ conf' = conf /\ name' = name /\ state' = state /\ pc' = pc
      /\ panicked' = panicked
  BY DEF ProbeHostRecords, Receive
<1>2. HasText' /\ Heard' = Heard /\ \A u \in Server : Contested(u) => Contested(u)'
  BY <1>1, SameNames
<1>3. Types' /\ LocusInv' /\ LostInv'
  BY <1>1, <1>2 DEF IInv, Types, LocusInv, LostInv
<1>4. NetInv'
  <2>1. CASE ProbeHostRecords(v)
    <3>1. 1 \in Name /\ 1 <= name[v]
      BY TwoServersAssumption DEF IInv, Types, Name
    <3>2. Multicast(v, "host", 1) /\ inbox' = inbox
      BY <2>1 DEF ProbeHostRecords
    <3>3. \A p \in net' : p \in Probe /\ p.name <= name[p.from]
      BY <3>1, <3>2, MulticastIsSent
    <3> QED
      BY <1>1, <1>2, <3>2, <3>3 DEF IInv, NetInv
  <2>2. CASE \E p \in net : p.to = v /\ Receive(p)
    <3>1. PICK p \in net : p.to = v /\ Receive(p)
      BY <2>2
    <3>2. net' \subseteq net /\ inbox' = [inbox EXCEPT ![v] = Authorities(p)]
      BY <3>1 DEF Receive
    <3>3. Authorities(p) \in Seq(Heard)
      BY AuthoritiesHeard
    <3> HIDE DEF Heard
    <3>4. inbox' \in [Server -> Seq(Heard)]
      BY <3>2, <3>3 DEF IInv, NetInv
    <3> QED
      BY <1>1, <1>2, <3>2, <3>4 DEF IInv, NetInv
  <2> QED
    BY <2>1, <2>2
<1> QED
  BY <1>2, <1>3, <1>4 DEF IInv

\* A record of a probe is handled: whoever loses is contested.
LEMMA HandleProbeStep ==
    ASSUME IInv, NEW v \in Server, HandleProbe(v)
    PROVE  IInv'
<1> DEFINE ns == Head(inbox[v])
<1>1. /\ conf' = conf /\ name' = name /\ net' = net /\ pc' = pc
      /\ panicked' = panicked
      /\ inbox[v] # <<>> /\ inbox' = [inbox EXCEPT ![v] = Tail(@)]
  BY DEF HandleProbe
<1>2. HasText' /\ Heard' = Heard /\ \A u \in Server : Contested(u) => Contested(u)'
  BY <1>1, SameNames
<1>3. ns \in Heard /\ Tail(inbox[v]) \in Seq(Heard)
  BY <1>1 DEF IInv, NetInv
<1>4. /\ \A u \in Server \ {v} : state'[u] = state[u]
      /\ \/ state'[v] = state[v]
         \/ state[v] = "probing" /\ state'[v] = "conflictLost"
      /\ state' \in [Server -> {"idle", "probing", "announced", "conflictLost"}]
  BY DEF HandleProbe, IInv, Types
<1>5. state'[v] = "conflictLost" => state[v] = "conflictLost" \/ Contested(v)
  <2> SUFFICES ASSUME state'[v] = "conflictLost", state[v] # "conflictLost"
               PROVE  Contested(v)
    OBVIOUS
  <2>1. /\ ns.owner = Owner(v, name[v], ns.type)
        /\ ns.rdata # conf.rdata[v][ns.type]
        /\ LexLess(conf.rdata[v][ns.type], ns.rdata)
    BY DEF HandleProbe, IInv, Types
  <2> HIDE DEF ns
  <2> QED
    BY <1>3, <2>1, LosesToRival
<1>6. Types'
  BY <1>1, <1>4 DEF IInv, Types
<1>7. LocusInv'
  <2> SUFFICES ASSUME NEW u \in Server
               PROVE  /\ pc'[u] = "begin" => state'[u] = "idle"
                      /\ pc'[u] \in {"delay", "gap", "lateWait", "probe", "check", "commit"}
                            => state'[u] \in {"probing", "conflictLost"}
                      /\ pc'[u] = "rename" => state'[u] = "conflictLost"
                      /\ u \in panicked' => state'[u] # "announced"
    BY DEF LocusInv
  <2> QED
    BY <1>1, <1>4 DEF IInv, LocusInv
<1>8. NetInv'
  <2>1. inbox' \in [Server -> Seq(Heard)]
    BY <1>1, <1>3 DEF IInv, NetInv
  <2> QED
    BY <1>1, <1>2, <2>1 DEF IInv, NetInv
<1>9. LostInv'
  BY <1>2, <1>4, <1>5 DEF IInv, LostInv
<1> QED
  BY <1>2, <1>6, <1>7, <1>8, <1>9 DEF IInv

\* Every step preserves the invariant.
LEMMA NextIInv == IInv /\ [Next]_vars => IInv'
<1> SUFFICES ASSUME IInv, [Next]_vars PROVE IInv'
  OBVIOUS
<1>1. CASE UNCHANGED vars
  <2>1. /\ conf' = conf /\ name' = name /\ state' = state /\ pc' = pc
        /\ panicked' = panicked /\ net' = net /\ inbox' = inbox
    BY <1>1 DEF vars
  <2>2. HasText' /\ Heard' = Heard /\ \A u \in Server : Contested(u) => Contested(u)'
    BY <2>1, SameNames
  <2> QED
    BY <2>1, <2>2 DEF IInv, Types, LocusInv, NetInv, LostInv
<1>2. CASE Next
  <2>1. PICK v \in Server \ panicked : Probing(v) \/ ProbeHostRecords(v) \/ Recv(v)
    BY <1>2 DEF Next
  <2>2. CASE ProbeBegin(v) \/ ProbeWait(v) \/ SendProbe(v) \/ CheckTiebreak(v)
    BY <2>2, ProbingStep
  <2>3. CASE MarkAnnounced(v)
    BY <2>3, AnnouncedStep
  <2>4. CASE HandleConflictRename(v)
    BY <2>4, RenameStep
  <2>5. CASE ProbeHostRecords(v) \/ \E p \in net : p.to = v /\ Receive(p)
    BY <2>5, PacketStep
  <2>6. CASE HandleProbe(v)
    BY <2>6, HandleProbeStep
  <2> QED
    BY <2>1, <2>2, <2>3, <2>4, <2>5, <2>6 DEF Probing, Recv
<1> QED
  BY <1>1, <1>2

-----------------------------------------------------------------------------
\* The initial states are initial states of NameClaims.
LEMMA InitClaims == Init => Claims!Init
<1> SUFFICES ASSUME Init PROVE Claims!Init
  OBVIOUS
<1>1. {v \in Server : state[v] = "announced"} = {}
  BY DEF Init
<1>2. /\ Beats \subseteq Server \X Server \X {"name", "host"}
      /\ \A v \in Server : \A c \in {"name", "host"} : <<v, v, c>> \notin Beats
  BY DEF Beats
<1> QED
  BY <1>1, <1>2 DEF Init, Claims!Init

\* A contested server has a rival in NameClaims.
LEMMA ContestedHasRival ==
    ASSUME NEW v \in Server, Contested(v)
    PROVE  Claims!Rivals(v) # {}
<1>1. PICK w \in Server \ {v} :
        \/ Beaten(v, w, "A")
        \/ name[w] >= name[v] /\ \E t \in {"SRV", "TXT"} : Beaten(v, w, t)
  BY DEF Contested
<1>2. CASE Beaten(v, w, "A")
  <2>1. <<w, v, "host">> \in Beats
    BY <1>2 DEF Beats, RecordType
  <2> QED
    BY <2>1 DEF Claims!Rivals
<1>3. CASE name[w] >= name[v] /\ \E t \in {"SRV", "TXT"} : Beaten(v, w, t)
  <2>1. <<w, v, "name">> \in Beats
    BY <1>3 DEF Beats, RecordType
  <2> QED
    BY <1>3, <2>1 DEF Claims!Rivals
<1> QED
  BY <1>1, <1>2, <1>3

\* Every step is a step of NameClaims or leaves the claims as they are.
LEMMA NextClaims == IInv /\ [Next]_vars => [Claims!Next]_(Claims!claims)
<1> DEFINE Announced == {v \in Server : state[v] = "announced"}
<1> SUFFICES ASSUME IInv, [Next]_vars
             PROVE  Claims!Next \/ UNCHANGED Claims!claims
  OBVIOUS
<1>1. conf' = conf
  BY DEF vars, Next, Probing, Recv, ProbeBegin, ProbeWait, SendProbe, CheckTiebreak,
         MarkAnnounced, HandleConflictRename, ProbeHostRecords, Receive, HandleProbe
<1>2. Beats' = Beats
  BY <1>1 DEF Beats, Beaten, LexLess, OnWire
<1>3. ASSUME name' = name, panicked' = panicked, Announced' = Announced
      PROVE  UNCHANGED Claims!claims
  BY <1>2, <1>3 DEF Claims!claims
<1>4. CASE UNCHANGED vars
  BY <1>3, <1>4 DEF vars
<1>5. CASE Next
  <2>1. PICK v \in Server \ panicked : Probing(v) \/ ProbeHostRecords(v) \/ Recv(v)
    BY <1>5 DEF Next
  <2>2. CASE \/ ProbeWait(v) \/ SendProbe(v) \/ CheckTiebreak(v)
             \/ ProbeHostRecords(v) \/ \E p \in net : p.to = v /\ Receive(p)
    <3>1. name' = name /\ panicked' = panicked /\ state' = state
      BY <2>2 DEF ProbeWait, SendProbe, CheckTiebreak, ProbeHostRecords, Receive
    <3> QED
      BY <1>3, <3>1
  <2>3. CASE ProbeBegin(v)
    <3>1. name' = name /\ panicked' = panicked
      BY <2>3 DEF ProbeBegin
    <3>2. state[v] # "announced" /\ state' = [state EXCEPT ![v] = "probing"]
      BY <2>3 DEF ProbeBegin, Goto, IInv, LocusInv
    <3>3. Announced' = Announced
      BY <3>2 DEF IInv, Types
    <3> QED
      BY <1>3, <3>1, <3>3
  <2>4. CASE HandleProbe(v)
    <3>1. name' = name /\ panicked' = panicked
      BY <2>4 DEF HandleProbe
    <3>2. Announced' = Announced
      BY <2>4 DEF HandleProbe, IInv, Types
    <3> QED
      BY <1>3, <3>1, <3>2
  <2>5. CASE HandleConflictRename(v)
    <3>1. /\ state[v] = "conflictLost" /\ name[v] < MaxSuffix
          /\ name' = [name EXCEPT ![v] = @ + 1] /\ panicked' = panicked
          /\ state' = [state EXCEPT ![v] = "idle"]
      BY <2>5 DEF HandleConflictRename, Goto, IInv, LocusInv
    <3>2. Announced' = Announced
      BY <3>1 DEF IInv, Types
    <3>3. Claims!Rivals(v) # {}
      BY <3>1, ContestedHasRival DEF IInv, LostInv
    <3>4. Claims!MoveOn(v)
      BY <1>2, <3>1, <3>2, <3>3 DEF Claims!MoveOn
    <3> QED
      BY <3>4 DEF Claims!Next
  <2>6. CASE MarkAnnounced(v)
    <3>1. name' = name /\ state[v] \in {"probing", "conflictLost"}
      BY <2>6 DEF MarkAnnounced, Goto, IInv, LocusInv
    <3>2. CASE state[v] = "conflictLost"
      <4>1. state' = state /\ panicked' = panicked \cup {v}
        BY <2>6, <3>2 DEF MarkAnnounced
      <4>2. Claims!Rivals(v) # {}
        BY <3>2, ContestedHasRival DEF IInv, LostInv
      <4>3. Claims!Crash(v)
        BY <1>2, <3>1, <3>2, <4>1, <4>2 DEF Claims!Crash
      <4> QED
        BY <4>3 DEF Claims!Next
    <3>3. CASE state[v] = "probing"
      <4>1. panicked' = panicked /\ state' = [state EXCEPT ![v] = "announced"]
        BY <2>6, <3>3 DEF MarkAnnounced
      <4>2. Announced' = Announced \cup {v}
        BY <4>1 DEF IInv, Types
      <4>3. Claims!Claim(v)
        BY <1>2, <3>1, <3>3, <4>1, <4>2 DEF Claims!Claim
      <4> QED
        BY <4>3 DEF Claims!Next
    <3> QED
      BY <3>1, <3>2, <3>3
  <2> QED
    BY <2>1, <2>2, <2>3, <2>4, <2>5, <2>6 DEF Probing, Recv
<1> QED
  BY <1>4, <1>5

\* The invariant holds in every reachable state if every service has a text.
THEOREM Invariance == Spec /\ HasText => []IInv
<1>1. Init /\ HasText => IInv
  BY InitIInv
<1>2. IInv /\ [Next]_vars => IInv'
  BY NextIInv
<1> QED
  BY <1>1, <1>2, PTL DEF Spec

\* Probing between any number of servers keeps the promise of NameClaims: a
\* server tries the names in order, gives one up, or panics in MarkAnnounced,
\* only when another server has a greater record for that name or for the host
\* name, and keeps the name it announced.
THEOREM ServersImplementClaims == Spec /\ HasText => ImplementsClaims
<1>1. Init => Claims!Init
  BY InitClaims
<1>2. IInv /\ [Next]_vars => [Claims!Next]_(Claims!claims)
  BY NextClaims
<1> QED
  BY <1>1, <1>2, Invariance, PTL DEF Spec, ImplementsClaims, Claims!Spec

-----------------------------------------------------------------------------
(* Types, and what a timely network gives.  These do not need HasText. *)

\* The records of all probes there could be.
Sendable == {Sent(x[1], x[2], x[3]) : x \in Server \X Name \X RecordType}

Boxes == inbox \in [Server -> Seq(Sendable)]

\* A service that probes has probes left to send.
CountInv == \A v \in Server : pc[v] \in {"gap", "probe"} => sent[v] < ProbeCount

\* Nobody but v has anything to do.
Calm(v) ==
    /\ net = {}
    /\ \A u \in Server : inbox[u] = <<>>
    /\ \A u \in Server \ {v} : u \in panicked \/ pc[u] \in Waiting \/ Exhausted(u)

\* In a timely network the last wait ends in silence, and the silence lasts until
\* the service is announced: nothing is lost between check and announcement.
CalmInv ==
    timely => \A v \in Server :
        /\ pc[v] \in {"check", "commit"} => Calm(v)
        /\ pc[v] = "commit" => state[v] = "probing"

\* A record that makes v lose the name it tries.
Deadly(v, ns) ==
    /\ ns.owner = Owner(v, name[v], ns.type)
    /\ LexLess(conf.rdata[v][ns.type], ns.rdata)

\* Such a record is on its way to v.
Doomed(v) ==
    \/ \E p \in net : p.to = v /\ \E i \in 1 .. Len(Authorities(p)) : Deadly(v, Authorities(p)[i])
    \/ \E i \in 1 .. Len(inbox[v]) : Deadly(v, inbox[v][i])

\* In a timely network whoever met a stronger rival has lost or is about to.
MetInv ==
    timely => \A v \in Server : met[v] # {} =>
        state[v] = "conflictLost" \/ (state[v] = "probing" /\ Doomed(v))

TInv ==
    TypeOK /\ Boxes /\ LocusInv /\ CountInv /\ CalmInv /\ MetInv /\ TimelyNoPanic

LEMMA ThreeTypes == Cardinality(RecordType) = 3
<1>1. Cardinality({}) = 0 /\ IsFiniteSet({})
  BY FS_EmptySet
<1>2. Cardinality({"SRV"}) = 1 /\ IsFiniteSet({"SRV"})
  BY FS_Singleton
<1>3. Cardinality({"SRV"} \cup {"TXT"}) = 2 /\ IsFiniteSet({"SRV"} \cup {"TXT"})
  BY <1>2, FS_AddElement
<1>4. Cardinality({"SRV"} \cup {"TXT"} \cup {"A"}) = 3
  BY <1>3, FS_AddElement
<1>5. RecordType = {"SRV"} \cup {"TXT"} \cup {"A"}
  BY DEF RecordType
<1> QED
  BY <1>4, <1>5

\* Records are sequences of numbers, and none is less than itself.
LEMMA RdataType ==
    ASSUME conf \in Config, NEW v \in Server, NEW t \in RecordType
    PROVE  conf.rdata[v][t] \in Seq(Nat) /\ OnWire(t, conf.rdata[v][t]) \in Seq(Nat)
<1>1. conf.rdata[v][t] \in Seq(Nat)
  BY TwoServersAssumption
<1> QED
  BY <1>1 DEF OnWire

LEMMA LexIrreflexive == \A a \in Seq(Nat) : ~LexLess(a, a)
  BY DEF LexLess

\* The records of a probe, in their order.
LEMMA AuthoritiesShape ==
    ASSUME NEW p \in Probe
    PROVE  /\ Authorities(p) \in Seq(Sendable)
           /\ Len(Authorities(p)) <= 3
           /\ p.kind = "service" => \A t \in RecordType :
                 (t = "A" => HostIsShared(p.from)) =>
                     \E i \in 1 .. Len(Authorities(p)) :
                         Authorities(p)[i] = Sent(p.from, p.name, t)
<1>1. p.from \in Server /\ p.name \in Name
  BY DEF Probe
<1> DEFINE srv == Sent(p.from, p.name, "SRV")
           txt == Sent(p.from, p.name, "TXT")
           a == Sent(p.from, p.name, "A")
<1>2. \A t \in RecordType : Sent(p.from, p.name, t) \in Sendable
  <2> TAKE t \in RecordType
  <2>1. <<p.from, p.name, t>> \in Server \X Name \X RecordType
    BY <1>1
  <2> QED
    BY <2>1 DEF Sendable
<1>3. srv \in Sendable /\ txt \in Sendable /\ a \in Sendable
  BY <1>2 DEF RecordType
<1>4. Authorities(p) = IF p.kind = "host"
                       THEN (IF HostIsShared(p.from) THEN <<a>> ELSE <<>>)
                       ELSE <<srv, txt>> \o (IF HostIsShared(p.from) THEN <<a>> ELSE <<>>)
  BY DEF Authorities, Sent
<1> HIDE DEF srv, txt, a
<1>5. /\ <<a>> \in Seq(Sendable) /\ Len(<<a>>) = 1 /\ <<a>>[1] = a
      /\ <<>> \in Seq(Sendable) /\ Len(<<>>) = 0
      /\ <<srv, txt>> \in Seq(Sendable) /\ Len(<<srv, txt>>) = 2
      /\ <<srv, txt>>[1] = srv /\ <<srv, txt>>[2] = txt
  BY <1>3
<1>6. /\ <<srv, txt>> \o <<a>> \in Seq(Sendable) /\ Len(<<srv, txt>> \o <<a>>) = 3
      /\ (<<srv, txt>> \o <<a>>)[1] = srv /\ (<<srv, txt>> \o <<a>>)[2] = txt
      /\ (<<srv, txt>> \o <<a>>)[3] = a
  BY <1>5
<1>7. /\ <<srv, txt>> \o <<>> \in Seq(Sendable) /\ Len(<<srv, txt>> \o <<>>) = 2
      /\ (<<srv, txt>> \o <<>>)[1] = srv /\ (<<srv, txt>> \o <<>>)[2] = txt
  BY <1>5
<1>8. Authorities(p) \in Seq(Sendable) /\ Len(Authorities(p)) <= 3
  BY <1>4, <1>5, <1>6, <1>7
<1>9. ASSUME p.kind = "service", NEW t \in RecordType, t = "A" => HostIsShared(p.from)
      PROVE  \E i \in 1 .. Len(Authorities(p)) : Authorities(p)[i] = Sent(p.from, p.name, t)
  <2>1. CASE t = "SRV"
    <3>1. 1 \in 1 .. Len(Authorities(p)) /\ Authorities(p)[1] = srv
      BY <1>4, <1>5, <1>6, <1>7, <1>9
    <3> QED
      BY <2>1, <3>1 DEF srv
  <2>2. CASE t = "TXT"
    <3>1. 2 \in 1 .. Len(Authorities(p)) /\ Authorities(p)[2] = txt
      BY <1>4, <1>5, <1>6, <1>7, <1>9
    <3> QED
      BY <2>2, <3>1 DEF txt
  <2>3. CASE t = "A"
    <3>1. 3 \in 1 .. Len(Authorities(p)) /\ Authorities(p)[3] = a
      BY <1>4, <1>5, <1>6, <1>7, <1>9, <2>3
    <3> QED
      BY <2>3, <3>1 DEF a
  <2> QED
    BY <2>1, <2>2, <2>3 DEF RecordType
<1> QED
  BY <1>8, <1>9

\* Initially the invariant holds.
LEMMA InitTInv == Init => TInv
<1> SUFFICES ASSUME Init PROVE TInv
  OBVIOUS
<1>1. timely \in BOOLEAN /\ \A v \in Server : inbox[v] = <<>>
  BY DEF Init
<1>2. \A v \in Server : Len(inbox[v]) <= Cardinality(RecordType)
  BY <1>1, ThreeTypes
<1>3. /\ name \in [Server -> Name] /\ sent \in [Server -> 0 .. ProbeCount]
      /\ hostSent \in [Server -> 0 .. HostProbes] /\ met \in [Server -> SUBSET Server]
  BY TwoServersAssumption DEF Init, Name
<1>4. TypeOK
  BY <1>1, <1>2, <1>3 DEF Init, TypeOK
<1>5. Boxes
  BY DEF Init, Boxes
<1>6. LocusInv /\ CountInv /\ CalmInv /\ MetInv /\ TimelyNoPanic
  BY DEF Init, LocusInv, CountInv, CalmInv, MetInv, TimelyNoPanic
<1> QED
  BY <1>4, <1>5, <1>6 DEF TInv

\* A probe that is multicast is a probe; in a timely network all others get it.
LEMMA MulticastReaches ==
    ASSUME TypeOK, NEW v \in Server, NEW n \in Name, NEW kind \in {"service", "host"},
           Multicast(v, kind, n)
    PROVE  /\ net' \subseteq Probe /\ net \subseteq net'
           /\ timely => \A u \in Server \ ({v} \cup panicked) :
                 [from |-> v, kind |-> kind, name |-> n, to |-> u] \in net'
<1>1. PICK T \in SUBSET Listeners(v) :
        /\ timely => T = Listeners(v)
        /\ net' = net \cup {[from |-> v, kind |-> kind, name |-> n, to |-> u] : u \in T}
  BY DEF Multicast
<1>2. T \subseteq Server /\ Server \ ({v} \cup panicked) \subseteq Listeners(v)
  BY <1>1 DEF Listeners
<1>3. net \subseteq Probe
  BY DEF TypeOK
<1> QED
  BY <1>1, <1>2, <1>3 DEF Probe

\* Types, and what the place of probeService says.
LEMMA StepTypes ==
    ASSUME TInv, NEW v \in Server \ panicked,
           Probing(v) \/ ProbeHostRecords(v) \/ Recv(v)
    PROVE  TypeOK' /\ Boxes' /\ LocusInv' /\ CountInv'
<1> USE DEF TInv, TypeOK, LocusInv, CountInv, Goto
<1>0. conf' = conf /\ timely' = timely /\ Sendable' = Sendable
  BY DEF Probing, Recv, ProbeBegin, ProbeWait, SendProbe, CheckTiebreak, MarkAnnounced,
         HandleConflictRename, ProbeHostRecords, Receive, HandleProbe, Sendable, Sent, Owner,
         OnWire
<1>1. CASE ProbeBegin(v)
  BY <1>0, <1>1 DEF ProbeBegin, Boxes, Waiting
<1>2. CASE ProbeWait(v)
  <2>1. sent' \in [Server -> 0 .. ProbeCount]
    <3>1. 0 \in 0 .. ProbeCount
      BY TwoServersAssumption
    <3>2. sent' = sent \/ sent' = [sent EXCEPT ![v] = 0]
      BY <1>2 DEF ProbeWait
    <3> QED
      BY <3>1, <3>2
  <2>2. pc' \in [Server -> Waiting \cup {"begin", "probe", "check", "commit", "rename"}]
    BY <1>2 DEF ProbeWait
  <2>3. CountInv'
    BY <1>2, TwoServersAssumption DEF ProbeWait
  <2>4. LocusInv'
    BY <1>2 DEF ProbeWait, Waiting
  <2> QED
    BY <1>0, <1>2, <2>1, <2>2, <2>3, <2>4 DEF ProbeWait, Boxes
<1>3. CASE SendProbe(v)
  <2>1. name[v] \in Name /\ Multicast(v, "service", name[v])
    BY <1>3 DEF SendProbe
  <2>2. net' \subseteq Probe
    BY <2>1, MulticastReaches
  <2>3. sent' \in [Server -> 0 .. ProbeCount] /\ CountInv'
    <3>1. pc[v] = "probe" /\ sent[v] \in Nat /\ sent[v] < ProbeCount /\ ProbeCount \in Nat
      BY <1>3, TwoServersAssumption DEF SendProbe
    <3>2. /\ sent' = [sent EXCEPT ![v] = sent[v] + 1]
          /\ pc' = [pc EXCEPT ![v] = IF sent[v] + 1 < ProbeCount THEN "gap" ELSE "lateWait"]
      BY <1>3 DEF SendProbe
    <3>3. sent' \in [Server -> 0 .. ProbeCount]
      BY <3>1, <3>2
    <3>4. CountInv'
      BY <3>1, <3>2
    <3> QED
      BY <3>3, <3>4
  <2>4. pc' \in [Server -> Waiting \cup {"begin", "probe", "check", "commit", "rename"}]
    BY <1>3 DEF SendProbe, Waiting
  <2>5. met' \in [Server -> SUBSET Server]
    BY <1>3 DEF SendProbe
  <2>6. LocusInv'
    BY <1>3 DEF SendProbe, Waiting
  <2> QED
    BY <1>0, <1>3, <2>2, <2>3, <2>4, <2>5, <2>6 DEF SendProbe, Boxes
<1>4. CASE CheckTiebreak(v)
  BY <1>0, <1>4 DEF CheckTiebreak, Boxes, Waiting
<1>5. CASE MarkAnnounced(v)
  <2>1. net' \subseteq net /\ (inbox' = inbox \/ inbox' = [inbox EXCEPT ![v] = <<>>])
    BY <1>5 DEF MarkAnnounced
  <2>2. <<>> \in Seq(Sendable) /\ Len(<<>>) = 0 /\ 0 <= Cardinality(RecordType)
    BY ThreeTypes
  <2>3. Boxes' /\ \A u \in Server : Len(inbox'[u]) <= Cardinality(RecordType)
    BY <1>0, <2>1, <2>2 DEF Boxes
  <2>4. /\ state' \in [Server -> {"idle", "probing", "announced", "conflictLost"}]
        /\ pc' \in [Server -> Waiting \cup {"begin", "probe", "check", "commit", "rename"}]
        /\ panicked' \subseteq Server
    BY <1>5 DEF MarkAnnounced, Waiting
  <2>5. LocusInv' /\ CountInv'
    BY <1>5 DEF MarkAnnounced, Waiting
  <2> QED
    BY <1>0, <1>5, <2>1, <2>3, <2>4, <2>5 DEF MarkAnnounced
<1>6. CASE HandleConflictRename(v)
  <2>1. name' \in [Server -> Name]
    BY <1>6, TwoServersAssumption DEF HandleConflictRename, Name
  <2>2. LocusInv' /\ CountInv'
    BY <1>6 DEF HandleConflictRename, Waiting
  <2> QED
    BY <1>0, <1>6, <2>1, <2>2 DEF HandleConflictRename, Boxes
<1>7. CASE ProbeHostRecords(v)
  <2>1. 1 \in Name /\ Multicast(v, "host", 1)
    BY <1>7, TwoServersAssumption DEF ProbeHostRecords, Name
  <2>2. net' \subseteq Probe
    BY <2>1, MulticastReaches
  <2>3. hostSent' \in [Server -> 0 .. HostProbes]
    BY <1>7, TwoServersAssumption DEF ProbeHostRecords
  <2> QED
    BY <1>0, <1>7, <2>2, <2>3 DEF ProbeHostRecords, Boxes
<1>8. CASE \E p \in net : p.to = v /\ Receive(p)
  <2>1. PICK p \in net : p.to = v /\ Receive(p)
    BY <1>8
  <2>2. p \in Probe /\ net' \subseteq Probe /\ inbox' = [inbox EXCEPT ![v] = Authorities(p)]
    BY <2>1 DEF Receive
  <2>3. Authorities(p) \in Seq(Sendable) /\ Len(Authorities(p)) <= Cardinality(RecordType)
    BY <2>2, AuthoritiesShape, ThreeTypes
  <2>4. Boxes' /\ \A u \in Server : Len(inbox'[u]) <= Cardinality(RecordType)
    BY <1>0, <2>2, <2>3 DEF Boxes
  <2> QED
    BY <1>0, <2>1, <2>2, <2>4 DEF Receive
<1>9. CASE HandleProbe(v)
  <2>1. inbox[v] # <<>> /\ inbox' = [inbox EXCEPT ![v] = Tail(@)] /\ inbox[v] \in Seq(Sendable)
    BY <1>9 DEF HandleProbe, Boxes
  <2>2. Tail(inbox[v]) \in Seq(Sendable) /\ Len(Tail(inbox[v])) <= Cardinality(RecordType)
    BY <2>1, ThreeTypes
  <2>3. Boxes' /\ \A u \in Server : Len(inbox'[u]) <= Cardinality(RecordType)
    BY <1>0, <2>1, <2>2 DEF Boxes
  <2>4. /\ state' \in [Server -> {"idle", "probing", "announced", "conflictLost"}]
        /\ \/ state' = state
           \/ state[v] = "probing" /\ state' = [state EXCEPT ![v] = "conflictLost"]
    BY <1>9 DEF HandleProbe
  <2>5. LocusInv'
    BY <1>9, <2>4 DEF HandleProbe
  <2> QED
    BY <1>0, <1>9, <2>3, <2>4, <2>5 DEF HandleProbe
<1> QED
  BY <1>1, <1>2, <1>3, <1>4, <1>5, <1>6, <1>7, <1>8, <1>9 DEF Probing, Recv

\* In a timely network nothing disturbs the section from check to announcement.
LEMMA StepCalm ==
    ASSUME TInv, NEW v \in Server \ panicked,
           Probing(v) \/ ProbeHostRecords(v) \/ Recv(v)
    PROVE  CalmInv' /\ TimelyNoPanic'
<1> SUFFICES ASSUME timely' PROVE CalmInv' /\ TimelyNoPanic'
  BY DEF CalmInv, TimelyNoPanic
<1> USE DEF Goto
<1>0. timely' = timely /\ conf' = conf
  BY DEF Probing, Recv, ProbeBegin, ProbeWait, SendProbe, CheckTiebreak, MarkAnnounced,
         HandleConflictRename, ProbeHostRecords, Receive, HandleProbe
<1>1. /\ timely /\ panicked = {}
      /\ \A u \in Server : /\ pc[u] \in {"check", "commit"} => Calm(u)
                           /\ pc[u] = "commit" => state[u] = "probing"
  BY <1>0 DEF TInv, CalmInv, TimelyNoPanic
<1>2. \A u \in Server \ {v} : pc[u] \in {"check", "commit"} =>
         /\ inbox[v] = <<>> /\ net = {}
         /\ pc[v] \in Waiting \/ Exhausted(v)
         /\ ~Quiet
  BY <1>1 DEF Calm, Quiet, Waiting, Exhausted
\* Whoever is between check and announcement is the one that moves.
<1>3. \A u \in Server \ {v} : pc[u] \notin {"check", "commit"}
  <2> SUFFICES ASSUME inbox[v] = <<>>, net = {}, pc[v] \in Waiting \/ Exhausted(v), ~Quiet
               PROVE  FALSE
    BY <1>2
  <2>1. ~TimerMayFire
    BY <1>1 DEF TimerMayFire
  <2>2. ~ProbeWait(v) /\ ~ProbeHostRecords(v) /\ ~Recv(v)
    BY <2>1 DEF ProbeWait, ProbeHostRecords, Recv, HandleProbe
  <2>3. ProbeBegin(v) \/ SendProbe(v) \/ CheckTiebreak(v) \/ MarkAnnounced(v)
           \/ HandleConflictRename(v)
    BY <2>2 DEF Probing
  <2>4. pc[v] \in {"begin", "probe", "check", "commit"} \/ (pc[v] = "rename" /\ name[v] < MaxSuffix)
    BY <2>3 DEF ProbeBegin, SendProbe, CheckTiebreak, MarkAnnounced, HandleConflictRename
  <2> QED
    BY <2>4, TwoServersAssumption DEF Waiting, Exhausted
<1>4. \A u \in Server \ {v} : pc'[u] = pc[u]
  <2>1. pc' = pc \/ \E x : pc' = [pc EXCEPT ![v] = x]
    BY DEF Probing, Recv, ProbeBegin, ProbeWait, SendProbe, CheckTiebreak, MarkAnnounced,
       HandleConflictRename, ProbeHostRecords, Receive, HandleProbe
  <2> QED
    BY <2>1 DEF TInv, TypeOK
<1>5. panicked' = {}
  <2>1. CASE MarkAnnounced(v)
    <3>1. state[v] = "probing"
      BY <1>1, <2>1 DEF MarkAnnounced
    <3> QED
      BY <1>1, <2>1, <3>1 DEF MarkAnnounced
  <2> QED
    BY <1>1, <2>1 DEF Probing, Recv, ProbeBegin, ProbeWait, SendProbe, CheckTiebreak,
       HandleConflictRename, ProbeHostRecords, Receive, HandleProbe
<1>6. /\ pc'[v] \in {"check", "commit"} => Calm(v)'
      /\ pc'[v] = "commit" => state'[v] = "probing"
  <2>1. CASE pc'[v] = "check" /\ pc[v] # "check"
    <3>1. Quiet /\ UNCHANGED <<net, inbox, panicked, name>>
      BY <1>1, <2>1 DEF TInv, TypeOK, Probing, Recv, ProbeBegin, ProbeWait, SendProbe,
         CheckTiebreak, MarkAnnounced, HandleConflictRename, ProbeHostRecords, Receive,
         HandleProbe, TimerMayFire, Waiting
    <3> QED
      BY <1>4, <2>1, <3>1 DEF Quiet, Calm, Exhausted
  <2>2. CASE pc[v] \in {"check", "commit"}
    <3>1. Calm(v)
      BY <1>1, <2>2
    <3>2. CheckTiebreak(v) \/ MarkAnnounced(v)
      BY <2>2, <3>1 DEF Calm, Probing, Recv, ProbeBegin, ProbeWait, SendProbe,
         HandleConflictRename, ProbeHostRecords, Receive, HandleProbe, TimerMayFire, Quiet,
         Waiting, Exhausted
    <3>3. CASE CheckTiebreak(v)
      <4>1. UNCHANGED <<net, inbox, panicked, name, state>>
        BY <3>3 DEF CheckTiebreak
      <4>2. Calm(v)'
        BY <1>4, <3>1, <4>1 DEF Calm, Exhausted
      <4>3. pc'[v] = "commit" => state'[v] = "probing"
        BY <3>3 DEF CheckTiebreak, TInv, TypeOK, LocusInv
      <4> QED
        BY <4>2, <4>3
    <3>4. CASE MarkAnnounced(v)
      BY <3>4 DEF MarkAnnounced, TInv, TypeOK
    <3> QED
      BY <3>2, <3>3, <3>4
  <2>3. CASE pc'[v] \notin {"check", "commit"}
    BY <2>3
  <2>4. pc'[v] = "commit" => pc[v] \in {"check", "commit"}
    BY DEF TInv, TypeOK, Probing, Recv, ProbeBegin, ProbeWait, SendProbe,
       CheckTiebreak, MarkAnnounced, HandleConflictRename, ProbeHostRecords, Receive, HandleProbe,
       Waiting
  <2> QED
    BY <2>1, <2>2, <2>3, <2>4
<1> QED
  BY <1>3, <1>4, <1>5, <1>6 DEF CalmInv, TimelyNoPanic

\* Records do not change under way.
LEMMA SameAuthorities ==
    ASSUME conf' = conf
    PROVE  /\ \A p : Authorities(p)' = Authorities(p)
           /\ \A u \in Server : \A ns : name'[u] = name[u] => (Deadly(u, ns)' <=> Deadly(u, ns))
<1>1. \A p : Authorities(p)' = Authorities(p)
  BY DEF Authorities, Owner, OnWire, HostIsShared
<1>2. \A u \in Server : \A ns : name'[u] = name[u] => (Deadly(u, ns)' <=> Deadly(u, ns))
  BY DEF Deadly, Owner, LexLess
<1> QED
  BY <1>1, <1>2

\* What is on its way stays so, if nothing is received.
LEMMA DoomedStays ==
    ASSUME conf' = conf, NEW u \in Server, name'[u] = name[u], net \subseteq net',
           inbox'[u] = inbox[u], Doomed(u)
    PROVE  Doomed(u)'
<1>1. CASE \E p \in net : p.to = u /\ \E i \in 1 .. Len(Authorities(p)) : Deadly(u, Authorities(p)[i])
  <2>1. PICK p \in net : p.to = u /\ \E i \in 1 .. Len(Authorities(p)) : Deadly(u, Authorities(p)[i])
    BY <1>1
  <2>2. \E i \in 1 .. Len(Authorities(p)') : Deadly(u, Authorities(p)[i])'
    BY <2>1, SameAuthorities
  <2> QED
    BY <2>1, <2>2 DEF Doomed
<1>2. CASE \E i \in 1 .. Len(inbox[u]) : Deadly(u, inbox[u][i])
  <2>1. \E i \in 1 .. Len(inbox'[u]) : Deadly(u, inbox[u][i])'
    BY <1>2, SameAuthorities
  <2> QED
    BY <2>1 DEF Doomed
<1> QED
  BY <1>1, <1>2 DEF Doomed

\* A probe for the name of u from a stronger server is deadly.
LEMMA StrongerIsDeadly ==
    ASSUME TypeOK, NEW u \in Server, NEW p \in Probe, p.kind = "service", p.name = name[u],
           p.from # u, Weaker(u, p.from)
    PROVE  \E i \in 1 .. Len(Authorities(p)) : Deadly(u, Authorities(p)[i])
<1>1. p.from \in Server
  BY DEF Probe
<1>2. PICK t \in RecordType : Beaten(u, p.from, t)
  BY DEF Weaker
<1>3. t = "A" => HostIsShared(p.from)
  BY <1>1, <1>2 DEF Beaten, HostIsShared
<1>4. PICK i \in 1 .. Len(Authorities(p)) : Authorities(p)[i] = Sent(p.from, p.name, t)
  BY <1>3, AuthoritiesShape
<1>5. Deadly(u, Sent(p.from, p.name, t))
  BY <1>2 DEF Deadly, Sent, Beaten, Owner
<1> QED
  BY <1>4, <1>5

\* In a timely network whoever met a stronger rival does not escape.
LEMMA StepMet ==
    ASSUME TInv, NEW v \in Server \ panicked,
           Probing(v) \/ ProbeHostRecords(v) \/ Recv(v)
    PROVE  MetInv'
<1> USE DEF Goto
<1>0. timely' = timely /\ conf' = conf
  BY DEF Probing, Recv, ProbeBegin, ProbeWait, SendProbe, CheckTiebreak, MarkAnnounced,
         HandleConflictRename, ProbeHostRecords, Receive, HandleProbe
<1> SUFFICES ASSUME timely, NEW u \in Server, met'[u] # {}
             PROVE  state'[u] = "conflictLost" \/ (state'[u] = "probing" /\ Doomed(u)')
  BY <1>0 DEF MetInv
<1>1. /\ panicked = {}
      /\ met[u] # {} => state[u] = "conflictLost" \/ (state[u] = "probing" /\ Doomed(u))
  BY DEF TInv, TimelyNoPanic, MetInv
<1>2. CASE ProbeBegin(v)
  <2>1. met[u] # {} /\ UNCHANGED <<name, net, inbox>>
    BY <1>2 DEF ProbeBegin
  <2>2. u # v
    BY <1>1, <1>2, <2>1 DEF ProbeBegin, TInv, LocusInv
  <2>3. state'[u] = state[u]
    BY <1>2, <2>2 DEF ProbeBegin, TInv, TypeOK
  <2> QED
    BY <1>0, <1>1, <2>1, <2>3, DoomedStays
<1>3. CASE ProbeWait(v) \/ CheckTiebreak(v) \/ ProbeHostRecords(v)
  <2>1. met[u] # {} /\ UNCHANGED <<name, state, inbox>>
    BY <1>3 DEF ProbeWait, CheckTiebreak, ProbeHostRecords
  <2>2. net \subseteq net'
    BY <1>3 DEF ProbeWait, CheckTiebreak, ProbeHostRecords, Multicast
  <2> QED
    BY <1>0, <1>1, <2>1, <2>2, DoomedStays
<1>4. CASE SendProbe(v)
  <2>1. /\ UNCHANGED <<name, state, inbox>>
        /\ name[v] \in Name /\ Multicast(v, "service", name[v])
    BY <1>4 DEF SendProbe, TInv, TypeOK
  <2>2. net \subseteq net' /\ net' \subseteq Probe
    BY <2>1, MulticastReaches DEF TInv
  <2>3. CASE met'[u] = met[u]
    BY <1>0, <1>1, <2>1, <2>2, <2>3, DoomedStays
  <2>4. CASE met'[u] # met[u]
    <3>1. u # v /\ name[u] = name[v] /\ state[u] = "probing" /\ Weaker(u, v)
      BY <1>4, <2>4 DEF SendProbe
    <3>2. PICK p \in net' : p = [from |-> v, kind |-> "service", name |-> name[v], to |-> u]
      BY <1>1, <2>1, <3>1, MulticastReaches DEF TInv
    <3>3. p \in Probe /\ p.kind = "service" /\ p.name = name[u] /\ p.from = v /\ p.to = u
      BY <2>2, <3>1, <3>2
    <3>4. \E i \in 1 .. Len(Authorities(p)) : Deadly(u, Authorities(p)[i])
      BY <3>1, <3>3, StrongerIsDeadly DEF TInv
    <3>5. \E i \in 1 .. Len(Authorities(p)') : Deadly(u, Authorities(p)[i])'
      BY <1>0, <2>1, <3>4, SameAuthorities
    <3>6. Doomed(u)'
      BY <3>2, <3>3, <3>5 DEF Doomed
    <3> QED
      BY <2>1, <3>1, <3>6
  <2> QED
    BY <2>3, <2>4
<1>5. CASE MarkAnnounced(v)
  <2>1. state[v] = "probing" /\ Calm(v) /\ met[u] # {}
    BY <1>5 DEF MarkAnnounced, TInv, CalmInv
  <2>2. ~Doomed(v)
    BY <2>1 DEF Doomed, Calm
  <2>3. u # v
    BY <1>1, <2>1, <2>2
  <2>4. state'[u] = state[u] /\ UNCHANGED <<name, net, inbox>>
    BY <1>5, <2>1, <2>3 DEF MarkAnnounced, TInv, TypeOK
  <2> QED
    BY <1>0, <1>1, <2>1, <2>4, DoomedStays
<1>6. CASE HandleConflictRename(v)
  <2>1. u # v
    BY <1>6 DEF HandleConflictRename, TInv, TypeOK
  <2>2. /\ met[u] # {} /\ state'[u] = state[u] /\ name'[u] = name[u]
        /\ net' = net /\ inbox' = inbox
    BY <1>6, <2>1 DEF HandleConflictRename, TInv, TypeOK
  <2> QED
    BY <1>0, <1>1, <2>2, DoomedStays
<1>7. CASE \E p \in net : p.to = v /\ Receive(p)
  <2>1. PICK p \in net : p.to = v /\ Receive(p)
    BY <1>7
  <2>2. /\ UNCHANGED <<name, state>> /\ met[u] # {} /\ inbox[v] = <<>>
        /\ net' = net \ {p} /\ inbox' = [inbox EXCEPT ![v] = Authorities(p)]
    BY <2>1 DEF Receive
  <2>3. ASSUME Doomed(u) PROVE Doomed(u)'
    <3>1. CASE \E i \in 1 .. Len(inbox[u]) : Deadly(u, inbox[u][i])
      <4>1. u # v
        BY <2>2, <3>1
      <4>2. inbox'[u] = inbox[u]
        BY <2>2, <4>1 DEF TInv, Boxes
      <4>3. \E i \in 1 .. Len(inbox'[u]) : Deadly(u, inbox[u][i])'
        BY <1>0, <2>2, <3>1, <4>2, SameAuthorities
      <4> QED
        BY <4>2, <4>3 DEF Doomed
    <3>2. CASE \E q \in net : q.to = u /\ \E i \in 1 .. Len(Authorities(q)) : Deadly(u, Authorities(q)[i])
      <4>1. PICK q \in net : q.to = u /\ \E i \in 1 .. Len(Authorities(q)) : Deadly(u, Authorities(q)[i])
        BY <3>2
      <4>2. \E i \in 1 .. Len(Authorities(q)') : Deadly(u, Authorities(q)[i])'
        BY <1>0, <2>2, <4>1, SameAuthorities
      <4>3. CASE q # p
        <5>1. q \in net'
          BY <2>2, <4>3
        <5> QED
          BY <4>1, <4>2, <5>1 DEF Doomed
      <4>4. CASE q = p
        <5>1. inbox'[u] = Authorities(q)'
          BY <1>0, <2>1, <2>2, <4>1, <4>4, SameAuthorities DEF TInv, Boxes
        <5> QED
          BY <4>2, <5>1 DEF Doomed
      <4> QED
        BY <4>3, <4>4
    <3> QED
      BY <2>3, <3>1, <3>2 DEF Doomed
  <2> QED
    BY <1>1, <2>2, <2>3
<1>8. CASE HandleProbe(v)
  <2>1. /\ UNCHANGED <<name, net>> /\ met[u] # {}
        /\ inbox' = [inbox EXCEPT ![v] = Tail(@)] /\ inbox[v] # <<>>
    BY <1>8 DEF HandleProbe
  <2>2. CASE u # v
    <3>1. inbox'[u] = inbox[u] /\ state'[u] = state[u]
      BY <1>8, <2>1, <2>2 DEF HandleProbe, TInv, TypeOK, Boxes
    <3> QED
      BY <1>0, <1>1, <2>1, <3>1, DoomedStays
  <2>3. CASE u = v
    <3> DEFINE ns == Head(inbox[v])
    <3>1. /\ inbox[v] \in Seq(Sendable) /\ ns = inbox[v][1] /\ ns \in Sendable
          /\ inbox'[v] = Tail(inbox[v])
      BY <2>1 DEF TInv, Boxes
    <3>2. ns.type \in RecordType
      BY <3>1 DEF Sendable, Sent
    <3>3. conf.rdata[v][ns.type] \in Seq(Nat)
      BY <3>2, RdataType DEF TInv, TypeOK
    <3>4. state[v] = "probing" /\ Deadly(v, ns) => state'[v] = "conflictLost"
      BY <1>8, <3>3, LexIrreflexive DEF HandleProbe, Deadly, TInv, TypeOK
    <3>5. state[v] = "conflictLost" => state'[v] = "conflictLost"
      BY <1>8 DEF HandleProbe, TInv, TypeOK
    <3>6. state[v] = "probing" => state'[v] \in {"probing", "conflictLost"}
      BY <1>8 DEF HandleProbe, TInv, TypeOK
    <3> HIDE DEF ns
    <3>7. ASSUME Doomed(v), ~Deadly(v, ns) PROVE Doomed(v)'
      <4>1. CASE \E q \in net : q.to = v /\ \E i \in 1 .. Len(Authorities(q)) : Deadly(v, Authorities(q)[i])
        <5>1. PICK q \in net : q.to = v /\ \E i \in 1 .. Len(Authorities(q)) : Deadly(v, Authorities(q)[i])
          BY <4>1
        <5>2. \E i \in 1 .. Len(Authorities(q)') : Deadly(v, Authorities(q)[i])'
          BY <1>0, <2>1, <5>1, SameAuthorities
        <5> QED
          BY <2>1, <5>1, <5>2 DEF Doomed
      <4>2. CASE \E i \in 1 .. Len(inbox[v]) : Deadly(v, inbox[v][i])
        <5>1. PICK i \in 1 .. Len(inbox[v]) : Deadly(v, inbox[v][i])
          BY <4>2
        <5>2. i # 1
          BY <3>1, <3>7, <5>1
        <5>3. i - 1 \in 1 .. Len(Tail(inbox[v])) /\ Tail(inbox[v])[i - 1] = inbox[v][i]
          BY <2>1, <3>1, <5>1, <5>2
        <5>4. Deadly(v, inbox[v][i - 1])'
          <6>1. PICK r : r = inbox[v][i]
            OBVIOUS
          <6>2. Deadly(v, r)'
            BY <1>0, <2>1, <5>1, <6>1, SameAuthorities
          <6>3. r = inbox'[v][i - 1]
            BY <3>1, <5>3, <6>1
          <6> QED
            BY <6>2, <6>3
        <5> QED
          BY <3>1, <5>3, <5>4 DEF Doomed
      <4> QED
        BY <3>7, <4>1, <4>2 DEF Doomed
    <3> QED
      BY <1>1, <2>1, <2>3, <3>4, <3>5, <3>6, <3>7
  <2> QED
    BY <2>2, <2>3
<1> QED
  BY <1>2, <1>3, <1>4, <1>5, <1>6, <1>7, <1>8 DEF Probing, Recv

LEMMA StepTInv == TInv /\ [Next]_vars => TInv'
<1> SUFFICES ASSUME TInv, [Next]_vars PROVE TInv'
  OBVIOUS
<1>1. CASE UNCHANGED vars
  <2>1. /\ conf' = conf /\ timely' = timely /\ name' = name /\ state' = state /\ pc' = pc
        /\ sent' = sent /\ hostSent' = hostSent /\ net' = net /\ inbox' = inbox
        /\ met' = met /\ panicked' = panicked
    BY <1>1 DEF vars
  <2>2. TypeOK' /\ LocusInv' /\ CountInv' /\ TimelyNoPanic'
    BY <2>1 DEF TInv, TypeOK, LocusInv, CountInv, TimelyNoPanic
  <2>3. Boxes'
    BY <2>1 DEF TInv, Boxes, Sendable, Sent, Owner, OnWire
  <2>4. CalmInv'
    BY <2>1 DEF TInv, CalmInv, Calm, Exhausted
  <2>5. \A u \in Server : Doomed(u) => Doomed(u)'
    BY <2>1, DoomedStays
  <2>6. MetInv'
    BY <2>1, <2>5 DEF TInv, MetInv
  <2> QED
    BY <2>2, <2>3, <2>4, <2>6 DEF TInv
<1>2. CASE Next
  <2>1. PICK v \in Server \ panicked : Probing(v) \/ ProbeHostRecords(v) \/ Recv(v)
    BY <1>2 DEF Next
  <2>2. TypeOK' /\ Boxes' /\ LocusInv' /\ CountInv'
    BY <2>1, StepTypes
  <2>3. CalmInv' /\ TimelyNoPanic'
    BY <2>1, StepCalm
  <2>4. MetInv'
    BY <2>1, StepMet
  <2> QED
    BY <2>2, <2>3, <2>4 DEF TInv
<1> QED
  BY <1>1, <1>2

\* The second invariant holds in every reachable state.
THEOREM TimelyInvariance == Spec => []TInv
  BY InitTInv, StepTInv, PTL DEF Spec

\* The state of the servers is well typed; recvLoop never has more records to
\* handle than one probe carries.
THEOREM TypeCorrect == Spec => []TypeOK
<1>1. TInv => TypeOK
  BY DEF TInv
<1> QED
  BY <1>1, TimelyInvariance, PTL

\* If packets and goroutines are fast against the timers, the window between the
\* check of the tiebreak and the announcement is never hit by a probe.
THEOREM NoPanicInTime == Spec => []TimelyNoPanic
<1>1. TInv => TimelyNoPanic
  BY DEF TInv
<1> QED
  BY <1>1, TimelyInvariance, PTL

\* ... and no service announces a name that a peer with a greater record probed
\* for at the same time: handleProbe has come before the check.
THEOREM StrongerProbeWins == Spec => []TimelyProbeWins
<1>1. TInv => TimelyProbeWins
  BY DEF TInv, MetInv, TimelyProbeWins
<1> QED
  BY <1>1, TimelyInvariance, PTL

-----------------------------------------------------------------------------
(* How many names a service may have to give up. *)

\* Two sequences that are not ordered one way are equal or ordered the other way.
LEMMA LexTotal ==
    ASSUME NEW a \in Seq(Nat), NEW b \in Seq(Nat), a # b
    PROVE  LexLess(a, b) \/ LexLess(b, a)
<1> DEFINE Differ == {i \in Nat \ {0} : /\ i <= Len(a) \/ i <= Len(b)
                                        /\ i <= Len(a) /\ i <= Len(b) => a[i] # b[i]}
<1>1. Differ # {}
  <2> SUFFICES ASSUME Differ = {} PROVE a = b
    OBVIOUS
  <2>1. Len(a) \in Nat /\ Len(b) \in Nat
    OBVIOUS
  <2>2. Len(a) = Len(b)
    <3>1. ~(Len(a) < Len(b))
      <4> SUFFICES ASSUME Len(a) < Len(b) PROVE Len(b) \in Differ
        OBVIOUS
      <4> QED
        BY <2>1
    <3>2. ~(Len(b) < Len(a))
      <4> SUFFICES ASSUME Len(b) < Len(a) PROVE Len(a) \in Differ
        OBVIOUS
      <4> QED
        BY <2>1
    <3> QED
      BY <2>1, <3>1, <3>2
  <2>3. \A i \in 1 .. Len(a) : a[i] = b[i]
    <3> TAKE i \in 1 .. Len(a)
    <3> SUFFICES ASSUME a[i] # b[i] PROVE i \in Differ
      OBVIOUS
    <3> QED
      BY <2>1, <2>2
  <2> QED
    BY <2>2, <2>3
<1>2. PICK i \in Differ : \A j \in Differ : ~(j < i)
  <2>1. PICK i \in Differ : \A j \in Differ : ~(<<j, i>> \in OpToRel(<, Nat))
    <3> HIDE DEF Differ
    <3>1. Differ \subseteq Nat
      BY DEF Differ
    <3> QED
      BY <1>1, <3>1, WFMin, NatLessThanWellFounded
  <2> QED
    BY <2>1 DEF OpToRel
<1>3. \A j \in 1 .. i - 1 : j <= Len(a) /\ j <= Len(b) /\ a[j] = b[j]
  <2> TAKE j \in 1 .. i - 1
  <2>1. j \in Nat \ {0} /\ j < i /\ j \notin Differ
    BY <1>2
  <2>2. Len(a) \in Nat /\ Len(b) \in Nat /\ i \in Nat
    OBVIOUS
  <2> QED
    BY <2>1, <2>2
<1>4. /\ i \in Nat \ {0} /\ Len(a) \in Nat /\ Len(b) \in Nat
      /\ i <= Len(a) \/ i <= Len(b)
      /\ i <= Len(a) /\ i <= Len(b) => a[i] # b[i]
  OBVIOUS
<1> HIDE DEF Differ
<1>5. CASE i > Len(a) \/ i > Len(b)
  <2>1. CASE i > Len(a)
    <3>1. i \in 1 .. Len(b)
      BY <1>4, <2>1
    <3>2. \A j \in 1 .. i - 1 : j <= Len(a) /\ a[j] = b[j]
      BY <1>3
    <3>3. LexLess(a, b)
      BY <2>1, <3>1, <3>2 DEF LexLess
    <3> QED
      BY <3>3
  <2>2. CASE i > Len(b)
    <3>1. i \in 1 .. Len(a)
      BY <1>4, <2>2
    <3>2. \A j \in 1 .. i - 1 : j <= Len(b) /\ b[j] = a[j]
      BY <1>3
    <3>3. LexLess(b, a)
      BY <2>2, <3>1, <3>2 DEF LexLess
    <3> QED
      BY <3>3
  <2> QED
    BY <1>5, <2>1, <2>2
<1>6. CASE i <= Len(a) /\ i <= Len(b)
  <2>1. a[i] \in Nat /\ b[i] \in Nat
    BY <1>4, <1>6
  <2>2. a[i] < b[i] \/ b[i] < a[i]
    BY <1>4, <1>6, <2>1
  <2> QED
    BY <1>3, <1>4, <1>6, <2>2 DEF LexLess
<1> QED
  BY <1>4, <1>5, <1>6

\* The order is transitive: the earlier of the two differences decides.
LEMMA LexTransitive ==
    ASSUME NEW a \in Seq(Nat), NEW b \in Seq(Nat), NEW c \in Seq(Nat),
           LexLess(a, b), LexLess(b, c)
    PROVE  LexLess(a, c)
<1>1. PICK i \in 1 .. Len(b) :
        /\ i > Len(a) \/ a[i] < b[i]
        /\ \A j \in 1 .. i - 1 : j <= Len(a) /\ a[j] = b[j]
  BY DEF LexLess
<1>2. PICK k \in 1 .. Len(c) :
        /\ k > Len(b) \/ b[k] < c[k]
        /\ \A j \in 1 .. k - 1 : j <= Len(b) /\ b[j] = c[j]
  BY DEF LexLess
<1>3. /\ Len(a) \in Nat /\ Len(b) \in Nat /\ Len(c) \in Nat /\ i \in Nat /\ k \in Nat
      /\ \A j \in 1 .. Len(a) : a[j] \in Nat
      /\ \A j \in 1 .. Len(b) : b[j] \in Nat
      /\ \A j \in 1 .. Len(c) : c[j] \in Nat
  OBVIOUS
<1>4. CASE i < k
  <2>1. i \in 1 .. Len(c) /\ i \in 1 .. k - 1
    BY <1>3, <1>4
  <2>2. b[i] = c[i]
    BY <1>2, <2>1
  <2>3. \A j \in 1 .. i - 1 : j <= Len(a) /\ a[j] = c[j]
    <3> TAKE j \in 1 .. i - 1
    <3>1. j \in 1 .. k - 1
      BY <1>3, <1>4
    <3> QED
      BY <1>1, <1>2, <3>1
  <2> QED
    BY <1>1, <2>1, <2>2, <2>3 DEF LexLess
<1>5. CASE i = k
  <2>1. k > Len(a) \/ a[k] < c[k]
    <3>1. b[k] < c[k] /\ b[k] \in Nat /\ c[k] \in Nat
      BY <1>2, <1>3, <1>5
    <3>2. CASE k <= Len(a)
      <4>1. a[k] \in Nat /\ a[k] < b[k]
        BY <1>1, <1>3, <1>5, <3>2
      <4> QED
        BY <3>1, <4>1
    <3> QED
      BY <1>3, <3>2
  <2>2. \A j \in 1 .. k - 1 : j <= Len(a) /\ a[j] = c[j]
    BY <1>1, <1>2, <1>5
  <2> QED
    BY <2>1, <2>2 DEF LexLess
<1>6. CASE k < i
  <2>1. k \in 1 .. i - 1 /\ k <= Len(b)
    BY <1>3, <1>6
  <2>2. k <= Len(a) /\ a[k] = b[k]
    BY <1>1, <2>1
  <2>3. a[k] < c[k]
    BY <1>2, <1>3, <2>1, <2>2
  <2>4. \A j \in 1 .. k - 1 : j <= Len(a) /\ a[j] = c[j]
    <3> TAKE j \in 1 .. k - 1
    <3>1. j \in 1 .. i - 1
      BY <1>3, <1>6
    <3> QED
      BY <1>1, <1>2, <3>1
  <2> QED
    BY <2>3, <2>4 DEF LexLess
<1> QED
  BY <1>3, <1>4, <1>5, <1>6
\* The comparison of handleProbe is a strict total order: of two different
\* records exactly one loses, and there is no cycle of losers.
THEOREM TiebreakIsAnOrder ==
    /\ \A a \in Seq(Nat) : ~LexLess(a, a)
    /\ \A a, b \in Seq(Nat) : a # b => (LexLess(a, b) <=> ~LexLess(b, a))
    /\ \A a, b, c \in Seq(Nat) : LexLess(a, b) /\ LexLess(b, c) => LexLess(a, c)
  BY LexIrreflexive, LexTotal, LexTransitive

\* The rank of a server: how many names it may have to give up.
Rank(v) == Cardinality(Stronger(v))

\* If the records are ordered alike and no host name is shared, a server is
\* stronger than v, or not weaker than v, by one of the records of the service.
LEMMA WeakerByService ==
    ASSUME conf \in Config, HasText, \A u \in Server : ~HostIsShared(u),
           NEW v \in Server, NEW w \in Server \ {v}
    PROVE  Weaker(v, w) <=> \E t \in {"SRV", "TXT"} :
                                LexLess(conf.rdata[v][t], conf.rdata[w][t])
<1>1. conf.host[v] # conf.host[w]
  BY DEF HostIsShared
<1>2. \A t \in RecordType : OnWire(t, conf.rdata[w][t]) = conf.rdata[w][t]
  BY DEF OnWire, HasText
<1> QED
  BY <1>1, <1>2 DEF Weaker, Beaten, RecordType

\* Being weaker is transitive: OneOrder excludes that one record says so and
\* the other one the opposite.
LEMMA WeakerTransitive ==
    ASSUME conf \in Config, HasText, OneOrder, \A u \in Server : ~HostIsShared(u),
           NEW v \in Server, NEW w \in Stronger(v), NEW x \in Stronger(w)
    PROVE  x \in Stronger(v)
<1>1. /\ w \in Server \ {v} /\ x \in Server \ {w}
      /\ Weaker(v, w) /\ Weaker(w, x)
  BY DEF Stronger
<1>2. x # v
  BY <1>1 DEF OneOrder
<1>3. ~Weaker(w, v) /\ ~Weaker(x, w)
  BY <1>1 DEF OneOrder
<1>4. \A u \in Server : \A t \in {"SRV", "TXT"} : conf.rdata[u][t] \in Seq(Nat)
  BY RdataType DEF RecordType
<1>5. PICK t \in {"SRV", "TXT"} : LexLess(conf.rdata[v][t], conf.rdata[w][t])
  BY <1>1, WeakerByService
<1>6. ~LexLess(conf.rdata[x][t], conf.rdata[w][t])
  BY <1>1, <1>3, WeakerByService
<1>7. conf.rdata[w][t] = conf.rdata[x][t] \/ LexLess(conf.rdata[w][t], conf.rdata[x][t])
  BY <1>1, <1>4, <1>6, LexTotal
<1>8. LexLess(conf.rdata[v][t], conf.rdata[x][t])
  BY <1>1, <1>4, <1>5, <1>7, LexTransitive
<1>9. Weaker(v, x)
  BY <1>1, <1>2, <1>8, WeakerByService
<1> QED
  BY <1>1, <1>2, <1>9 DEF Stronger

\* A stronger server has a smaller rank.
LEMMA StrongerHasSmallerRank ==
    ASSUME conf \in Config, HasText, OneOrder, \A u \in Server : ~HostIsShared(u),
           NEW v \in Server, NEW w \in Stronger(v)
    PROVE  Rank(w) \in Nat /\ Rank(v) \in Nat /\ Rank(w) + 1 <= Rank(v)
<1>1. \A u : Stronger(u) \subseteq Server
  BY DEF Stronger
<1>2. IsFiniteSet(Stronger(v)) /\ IsFiniteSet(Stronger(w))
  BY <1>1, TwoServersAssumption, FS_Subset
<1>3. Stronger(w) \cup {w} \in SUBSET Stronger(v)
  BY WeakerTransitive
<1>4. w \notin Stronger(w)
  BY DEF Stronger
<1>5. Cardinality(Stronger(w) \cup {w}) = Cardinality(Stronger(w)) + 1
  BY <1>2, <1>4, FS_AddElement
<1>6. Cardinality(Stronger(w) \cup {w}) <= Cardinality(Stronger(v))
  BY <1>2, <1>3, FS_Subset
<1> QED
  BY <1>2, <1>5, <1>6, FS_CardinalityType DEF Rank

\* A server renames because of a stronger one that tries, or has tried, the
\* same name, and that is below its own bound.
LEMMA NextRank == IInv /\ RenamedByRank /\ [Next]_vars => RenamedByRank'
<1> SUFFICES ASSUME IInv, RenamedByRank, [Next]_vars,
                    OneOrder', \A u \in Server : ~HostIsShared(u)', NEW v \in Server
             PROVE  name'[v] <= 1 + Cardinality(Stronger(v)')
  BY DEF RenamedByRank
<1>1. conf' = conf
  BY DEF vars, Next, Probing, Recv, ProbeBegin, ProbeWait, SendProbe, CheckTiebreak,
         MarkAnnounced, HandleConflictRename, ProbeHostRecords, Receive, HandleProbe
<1>2. \A u, w \in Server : Weaker(u, w)' <=> Weaker(u, w)
  BY <1>1 DEF Weaker, Beaten, LexLess, OnWire
<1>3. Stronger(v)' = Stronger(v)
  BY <1>2 DEF Stronger
<1>4. OneOrder /\ \A u \in Server : ~HostIsShared(u)
  BY <1>1, <1>2 DEF OneOrder, HostIsShared
<1>5. \A u \in Server : name[u] <= 1 + Rank(u)
  BY <1>4 DEF RenamedByRank, Rank
<1>6. CASE name'[v] = name[v]
  BY <1>3, <1>5, <1>6 DEF Rank
<1>7. CASE name'[v] # name[v]
  <2>1. HandleConflictRename(v)
    BY <1>7 DEF vars, Next, Probing, Recv, ProbeBegin, ProbeWait, SendProbe, CheckTiebreak,
       MarkAnnounced, HandleConflictRename, ProbeHostRecords, Receive, HandleProbe, IInv, Types
  <2>2. state[v] = "conflictLost" /\ name'[v] = name[v] + 1
    BY <2>1 DEF HandleConflictRename, Goto, IInv, LocusInv, Types
  <2>3. Contested(v)
    BY <2>2 DEF IInv, LostInv
  <2>4. PICK w \in Server \ {v} : Weaker(v, w) /\ name[w] >= name[v]
    <3>1. \A w \in Server \ {v} : ~Beaten(v, w, "A")
      BY <1>4 DEF Beaten, HostIsShared
    <3> QED
      BY <2>3, <3>1 DEF Contested, Weaker, RecordType
  <2>5. w \in Stronger(v)
    BY <2>4 DEF Stronger
  <2>6. Rank(w) \in Nat /\ Rank(v) \in Nat /\ Rank(w) + 1 <= Rank(v)
    BY <1>4, <2>5, StrongerHasSmallerRank DEF IInv, Types
  <2>7. name[v] \in Nat /\ name[w] \in Nat /\ name[w] <= 1 + Rank(w)
    BY <1>5, <2>4 DEF IInv, Types, Name
  <2>8. name'[v] <= 1 + Rank(v)
    BY <2>2, <2>4, <2>6, <2>7
  <2> QED
    BY <1>3, <2>8 DEF Rank
<1> QED
  BY <1>6, <1>7

LEMMA InitRank == Init => RenamedByRank
<1> SUFFICES ASSUME Init, NEW v \in Server PROVE name[v] <= 1 + Cardinality(Stronger(v))
  BY DEF RenamedByRank
<1>1. Stronger(v) \subseteq Server
  BY DEF Stronger
<1>2. Cardinality(Stronger(v)) \in Nat
  BY <1>1, TwoServersAssumption, FS_Subset, FS_CardinalityType
<1> QED
  BY <1>2 DEF Init

\* If every service has a text, the records are ordered alike and no host name
\* is shared, a service gives up at most as many names as there are stronger
\* servers: n servers settle within the first n names, for every n, any records
\* and a network that loses, delays and reorders.
THEOREM RenamesAreBounded == Spec /\ HasText => []RenamedByRank
<1>1. Init => RenamedByRank
  BY InitRank
<1>2. IInv /\ RenamedByRank /\ [Next]_vars => RenamedByRank'
  BY NextRank
<1> QED
  BY <1>1, <1>2, Invariance, PTL DEF Spec

=============================================================================
