------------------------- MODULE RegistrationProofs -------------------------
(***************************************************************************)
(* Theorems about Registration, for every set of services, every number of *)
(* probes and suffixes, all RDATA, and writes that may fail or not.        *)
(*                                                                         *)
(* The invariants are not inductive by themselves: that a channel is open, *)
(* that a probe sequence is complete and that a goroutine is still there   *)
(* all depend on where the goroutine is.  LocusInv relates its program     *)
(* point to the state that the other actors see, and IInv is the           *)
(* conjunction of everything.                                              *)
(***************************************************************************)
EXTENDS Registration, TLAPS

\* Where the goroutine of s is, in terms of the shared state.
LocusInv ==
    \A s \in Service :
        /\ pc[s] = "none" <=> state[s] = "none"
        /\ pc[s] = "begin" <=> state[s] = "idle"
        /\ pc[s] \in {"delay", "probe", "gap", "lateWait", "check", "commit",
                      "failed"}
              => state[s] \in {"probing", "conflictLost"}
        /\ pc[s] = "rename" => state[s] = "conflictLost"
        /\ pc[s] \in {"announce", "second"} => state[s] = "announced"
        /\ state[s] = "announced" => pc[s] \in {"announce", "second", "done"}

\* How far its probe sequence is.
SentInv ==
    \A s \in Service :
        /\ pc[s] \in {"probe", "gap"} => sent[s] < ProbeCount
        /\ pc[s] \in {"lateWait", "check", "commit", "rename"}
              => sent[s] = ProbeCount
        /\ state[s] = "announced" => sent[s] = ProbeCount

IInv ==
    /\ TypeOK
    /\ LocusInv
    /\ SentInv
    /\ ProbeChDiscipline
    /\ ProbedBeforeServed
    /\ MapKeyIsName
    /\ NoStrandedService

-----------------------------------------------------------------------------
\* incrementNameSuffix stays within the explored names and is never a fixpoint.
LEMMA IncrementNameSuffixName ==
    ASSUME NEW n \in Name, n[2] < MaxSuffix
    PROVE  IncrementNameSuffix(n) \in Name /\ IncrementNameSuffix(n) # n
  BY RegistrationAssumption DEF Name, IncrementNameSuffix

\* There is a name.
LEMMA NameNonempty == (CHOOSE n \in Name : TRUE) \in Name
<1>1. PICK b \in Base : TRUE
  BY RegistrationAssumption
<1>2. <<b, 1>> \in Name
  BY <1>1, RegistrationAssumption DEF Name
<1> QED
  BY <1>2

LEMMA InitIInv == Init => IInv
<1> SUFFICES ASSUME Init PROVE IInv
  OBVIOUS
<1> USE RegistrationAssumption DEF Init
<1>1. TypeOK
  <2>1. name \in [Service -> Name]
    <3> DEFINE n0 == CHOOSE n \in Name : TRUE
    <3>1. n0 \in Name /\ name = [s \in Service |-> n0]
      BY NameNonempty
    <3> HIDE DEF n0
    <3> QED
      BY <3>1
  <2>2. /\ services \in [Name -> Service \cup {NoService}]
        /\ state \in [Service -> ServiceState]
        /\ probeCh \in [Service -> {"open", "closed"}]
        /\ pc \in [Service -> Goroutine]
        /\ api \in [Service -> {"none", "removed", "returned"}]
        /\ air \in [Service -> {"silent", "live", "withdrawn"}]
    BY DEF ServiceState, Goroutine
  <2>3. sent \in [Service -> 0 .. ProbeCount]
    BY SMT
  <2>4. pending \subseteq Service /\ server \in ServerState /\ panicked \in BOOLEAN
    BY DEF ServerState
  <2> QED
    BY <2>1, <2>2, <2>3, <2>4 DEF TypeOK
<1>2. LocusInv /\ SentInv /\ ProbeChDiscipline /\ ProbedBeforeServed
  BY DEF LocusInv, SentInv, ProbeChDiscipline, ProbedBeforeServed
<1>3. MapKeyIsName /\ NoStrandedService
  BY DEF MapKeyIsName, NoStrandedService
<1> QED
  BY <1>1, <1>2, <1>3 DEF IInv

-----------------------------------------------------------------------------
\* Every step preserves the types; SentInv bounds the probe counter.
LEMMA TypeStep == TypeOK /\ SentInv /\ [Next]_vars => TypeOK'
<1> SUFFICES ASSUME TypeOK, SentInv, [Next]_vars PROVE TypeOK'
  OBVIOUS
<1> USE RegistrationAssumption DEF TypeOK, ServiceState, Goroutine, ServerState
<1>1. ASSUME NEW s \in Service, NEW n \in Name, RegisterService(s, n)
      PROVE  TypeOK'
  BY <1>1 DEF RegisterService
<1>2. ASSUME NEW n \in Name, UnregisterService(n) PROVE TypeOK'
  BY <1>2 DEF UnregisterService
<1>3. ASSUME NEW s \in Service, UnregisterGoodbye(s) PROVE TypeOK'
  BY <1>3 DEF UnregisterGoodbye, SendGoodbye
<1>4. ASSUME NEW s \in Service, Probing(s) PROVE TypeOK'
  <2>1. CASE ProbeBegin(s)
    BY <2>1 DEF ProbeBegin, Goto
  <2>2. CASE ProbeDelay(s)
    <3>1. sent' \in [Service -> 0 .. ProbeCount]
      BY <2>2 DEF ProbeDelay
    <3>2. pc' \in [Service -> Goroutine]
      BY <2>2 DEF ProbeDelay, TimerOrDone, Goto
    <3> QED
      BY <2>2, <3>1, <3>2 DEF ProbeDelay
  <2>3. CASE SendProbe(s)
    BY <2>3 DEF SendProbe, Goto, SentInv
  <2>4. CASE ProbeWait(s)
    BY <2>4 DEF ProbeWait, TimerOrDone, Goto
  <2>5. CASE CheckTiebreak(s)
    BY <2>5 DEF CheckTiebreak, Goto
  <2>6. CASE MarkAnnounced(s)
    BY <2>6 DEF MarkAnnounced, Goto
  <2>7. CASE AnnounceService(s)
    BY <2>7 DEF AnnounceService, Goto, SendResponseMulticast
  <2>8. CASE HandleConflictRename(s)
    BY <2>8, IncrementNameSuffixName DEF HandleConflictRename, Goto
  <2> QED
    BY <1>4, <2>1, <2>2, <2>3, <2>4, <2>5, <2>6, <2>7, <2>8 DEF Probing
<1>5. ASSUME NEW ns \in ProbeRecord, HandleProbe(ns) PROVE TypeOK'
  BY <1>5 DEF HandleProbe, Registered
<1>6. ASSUME NEW s \in Service, HandleQuery(s) PROVE TypeOK'
  BY <1>6 DEF HandleQuery
<1>7. ASSUME NEW s \in Service, SendAnswer(s) PROVE TypeOK'
  BY <1>7 DEF SendAnswer, SendResponseMulticast
<1>8. CASE CloseGoodbyes
  BY <1>8 DEF CloseGoodbyes, SendGoodbye
<1>9. CASE CloseStep
  BY <1>9 DEF CloseStep
<1>10. CASE UNCHANGED vars
  BY <1>10 DEF vars
<1> QED
  BY <1>1, <1>2, <1>3, <1>4, <1>5, <1>6, <1>7, <1>8, <1>9, <1>10 DEF Next

-----------------------------------------------------------------------------
\* What is to be shown of each service by itself.
ServiceInv ==
    LocusInv /\ SentInv /\ ProbeChDiscipline /\ ProbedBeforeServed /\ NoStrandedService

\* Every step preserves the relation between a service's state and its goroutine.
LEMMA ServiceStep == TypeOK /\ TypeOK' /\ ServiceInv /\ [Next]_vars => ServiceInv'
<1> SUFFICES ASSUME TypeOK, TypeOK', ServiceInv, [Next]_vars PROVE ServiceInv'
  OBVIOUS
<1> USE RegistrationAssumption
<1> USE DEF TypeOK, ServiceInv, LocusInv, SentInv, ProbeChDiscipline,
            ProbedBeforeServed, NoStrandedService, Cancelled
<1>1. ASSUME NEW s \in Service, NEW n \in Name, RegisterService(s, n)
      PROVE  ServiceInv'
  BY <1>1 DEF RegisterService
<1>2. ASSUME NEW n \in Name, UnregisterService(n) PROVE ServiceInv'
  BY <1>2 DEF UnregisterService
<1>3. ASSUME NEW s \in Service, UnregisterGoodbye(s) PROVE ServiceInv'
  BY <1>3 DEF UnregisterGoodbye, SendGoodbye
<1>4. ASSUME NEW s \in Service, Probing(s) PROVE ServiceInv'
  <2>1. CASE ProbeBegin(s)
    BY <2>1 DEF ProbeBegin, Goto
  <2>2. CASE ProbeDelay(s)
    BY <2>2 DEF ProbeDelay, TimerOrDone, Goto
  <2>3. CASE SendProbe(s)
    BY <2>3 DEF SendProbe, Goto
  <2>4. CASE ProbeWait(s)
    BY <2>4 DEF ProbeWait, TimerOrDone, Goto
  <2>5. CASE CheckTiebreak(s)
    BY <2>5 DEF CheckTiebreak, Goto
  <2>6. CASE MarkAnnounced(s)
    BY <2>6 DEF MarkAnnounced, Goto
  <2>7. CASE AnnounceService(s)
    BY <2>7 DEF AnnounceService, SendResponseMulticast, Goto
  <2>8. CASE HandleConflictRename(s)
    BY <2>8 DEF HandleConflictRename, Goto
  <2> QED
    BY <1>4, <2>1, <2>2, <2>3, <2>4, <2>5, <2>6, <2>7, <2>8 DEF Probing
<1>5. ASSUME NEW ns \in ProbeRecord, HandleProbe(ns) PROVE ServiceInv'
  BY <1>5 DEF HandleProbe
<1>6. ASSUME NEW s \in Service, HandleQuery(s) PROVE ServiceInv'
  BY <1>6 DEF HandleQuery
<1>7. ASSUME NEW s \in Service, SendAnswer(s) PROVE ServiceInv'
  BY <1>7 DEF SendAnswer, SendResponseMulticast
<1>8. CASE CloseGoodbyes
  BY <1>8 DEF CloseGoodbyes, SendGoodbye
<1>9. CASE CloseStep
  BY <1>9 DEF CloseStep
<1>10. CASE UNCHANGED vars
  BY <1>10 DEF vars
<1> QED
  BY <1>1, <1>2, <1>3, <1>4, <1>5, <1>6, <1>7, <1>8, <1>9, <1>10 DEF Next

\* Every step keeps the map's keys equal to the names.  Only a registration, an
\* unregistration and a rename touch the map or a name.
LEMMA KeyStep == IInv /\ [Next]_vars => MapKeyIsName'
<1> SUFFICES ASSUME IInv, [Next]_vars PROVE MapKeyIsName'
  OBVIOUS
<1> USE RegistrationAssumption DEF IInv, TypeOK, MapKeyIsName
<1>1. ASSUME NEW s \in Service, NEW n \in Name, RegisterService(s, n)
      PROVE  MapKeyIsName'
  BY <1>1 DEF RegisterService
<1>2. ASSUME NEW n \in Name, UnregisterService(n) PROVE MapKeyIsName'
  BY <1>2 DEF UnregisterService
<1>3. ASSUME NEW s \in Service, HandleConflictRename(s) PROVE MapKeyIsName'
  <2> DEFINE new == IncrementNameSuffix(name[s])
  <2>1. new \in Name /\ new # name[s]
    BY <1>3, IncrementNameSuffixName DEF HandleConflictRename
  <2> HIDE DEF new
  <2>2. /\ services' = [services EXCEPT ![name[s]] = NoService, ![new] = s]
        /\ name' = [name EXCEPT ![s] = new]
        /\ state' = [state EXCEPT ![s] = "idle"]
    BY <1>3 DEF HandleConflictRename, new
  <2> QED
    BY <2>1, <2>2
<1>4. ASSUME UNCHANGED <<services, name>>,
             \A s \in Service : state'[s] = "none" => state[s] = "none"
      PROVE  MapKeyIsName'
  BY <1>4
<1>5. ASSUME NEW s \in Service, Probing(s), ~HandleConflictRename(s)
      PROVE  MapKeyIsName'
  BY <1>4, <1>5 DEF Probing, ProbeBegin, ProbeDelay, SendProbe, ProbeWait,
                    CheckTiebreak, MarkAnnounced, AnnounceService
<1>6. ASSUME NEW ns \in ProbeRecord, HandleProbe(ns) PROVE MapKeyIsName'
  BY <1>4, <1>6 DEF HandleProbe
<1>7. ASSUME NEW s \in Service,
             UnregisterGoodbye(s) \/ HandleQuery(s) \/ SendAnswer(s)
      PROVE  MapKeyIsName'
  BY <1>4, <1>7 DEF UnregisterGoodbye, HandleQuery, SendAnswer
<1>8. ASSUME CloseGoodbyes \/ CloseStep \/ UNCHANGED vars PROVE MapKeyIsName'
  BY <1>4, <1>8 DEF CloseGoodbyes, CloseStep, vars
<1> QED
  BY <1>1, <1>2, <1>3, <1>5, <1>6, <1>7, <1>8 DEF Next

\* IInv is an inductive invariant of the server.
THEOREM InductiveInvariant == Spec => []IInv
<1>1. Init => IInv
  BY InitIInv
<1>2. IInv /\ [Next]_vars => IInv'
  <2> SUFFICES ASSUME IInv, [Next]_vars PROVE IInv'
    OBVIOUS
  <2>1. TypeOK'
    BY TypeStep DEF IInv
  <2>2. ServiceInv'
    BY <2>1, ServiceStep DEF IInv, ServiceInv
  <2> QED
    BY <2>1, <2>2, KeyStep DEF IInv, ServiceInv
<1> QED
  BY <1>1, <1>2, PTL DEF Spec

\* The state of a server and its goroutines is well typed; in particular no
\* probing goroutine sends more than ProbeCount probes for a name.
THEOREM TypeCorrect == Spec => []TypeOK
  BY InductiveInvariant, PTL DEF IInv

\* probeCh is open exactly while its service may still win or lose its name.
THEOREM ChannelDiscipline == Spec => []ProbeChDiscipline
  BY InductiveInvariant, PTL DEF IInv

\* No response about a service leaves before the whole probe sequence for its
\* present name was sent.
THEOREM ServedOnlyIfProbed == Spec => []ProbedBeforeServed
  BY InductiveInvariant, PTL DEF IInv

\* The services map is keyed by the services' present names, across renames.
THEOREM KeysAreNames == Spec => []MapKeyIsName
  BY InductiveInvariant, PTL DEF IInv

\* Only a closing server or a write error leaves a service without a goroutine
\* before it is announced.
THEOREM NoServiceStranded == Spec => []NoStrandedService
  BY InductiveInvariant, PTL DEF IInv

-----------------------------------------------------------------------------
\* An announced service keeps its name and its state, whatever probes arrive.
THEOREM AnnouncedIsStable == Spec => AnnouncedStable
<1> DEFINE Stable == \A s \in Service : state[s] = "announced" =>
                        state'[s] = "announced" /\ name'[s] = name[s]
<1>1. IInv /\ [Next]_vars => [Stable]_vars
  <2> SUFFICES ASSUME IInv, Next PROVE Stable
    OBVIOUS
  <2> USE RegistrationAssumption DEF IInv, TypeOK, LocusInv
  <2>1. ASSUME NEW s \in Service, NEW n \in Name, RegisterService(s, n)
        PROVE  Stable
    BY <2>1 DEF RegisterService
  <2>2. ASSUME NEW s \in Service, Probing(s) PROVE Stable
    <3>1. CASE ProbeBegin(s)
      BY <3>1 DEF ProbeBegin, Goto
    <3>2. CASE MarkAnnounced(s)
      BY <3>2 DEF MarkAnnounced, Goto
    <3>3. CASE HandleConflictRename(s)
      BY <3>3 DEF HandleConflictRename, Goto
    <3>4. CASE \/ ProbeDelay(s) \/ SendProbe(s) \/ ProbeWait(s)
               \/ CheckTiebreak(s) \/ AnnounceService(s)
      BY <3>4 DEF ProbeDelay, SendProbe, ProbeWait, CheckTiebreak,
                  AnnounceService
    <3> QED
      BY <2>2, <3>1, <3>2, <3>3, <3>4 DEF Probing
  <2>3. ASSUME NEW ns \in ProbeRecord, HandleProbe(ns) PROVE Stable
    BY <2>3 DEF HandleProbe
  <2>4. ASSUME UNCHANGED <<state, name>> PROVE Stable
    BY <2>4
  <2> QED
    BY <2>1, <2>2, <2>3, <2>4
       DEF Next, UnregisterService, UnregisterGoodbye, HandleQuery, SendAnswer,
           CloseGoodbyes, CloseStep
<1> QED
  BY <1>1, InductiveInvariant, PTL DEF Spec, AnnouncedStable

\* The only close of a closed channel is the one between the check of the
\* tiebreak and the announcement; handleProbe never panics.
THEOREM OnlyOnePanic == Spec => PanicOnlyInWindow
<1> DEFINE Window == panicked' => \E s \in Service :
                         pc[s] = "commit" /\ state[s] = "conflictLost"
<1>1. IInv /\ [Next]_vars => [Window]_vars
  <2> SUFFICES ASSUME IInv, Next, panicked'
               PROVE  \E s \in Service :
                          pc[s] = "commit" /\ state[s] = "conflictLost"
    OBVIOUS
  <2> USE RegistrationAssumption DEF IInv, TypeOK, LocusInv, ProbeChDiscipline
  <2>1. ~panicked
    BY DEF Next
  <2>2. ASSUME NEW s \in Service, MarkAnnounced(s)
        PROVE  pc[s] = "commit" /\ state[s] = "conflictLost"
    BY <2>2 DEF MarkAnnounced, Goto, ServiceState
  <2>3. ASSUME NEW ns \in ProbeRecord, HandleProbe(ns) PROVE FALSE
    <3>1. \E s \in Registered : state[s] = "probing" /\ probeCh[s] = "closed"
      BY <2>3, Zenon DEF HandleProbe
    <3>2. Registered \subseteq Service
      BY DEF Registered
    <3> QED
      BY <3>1, <3>2
  <2>4. ASSUME UNCHANGED panicked PROVE FALSE
    BY <2>1, <2>4
  <2> QED
    BY <2>2, <2>3, <2>4
       DEF Next, Probing, RegisterService, UnregisterService,
           UnregisterGoodbye, ProbeBegin, ProbeDelay, SendProbe, ProbeWait,
           CheckTiebreak, AnnounceService, HandleConflictRename, HandleQuery,
           SendAnswer, CloseGoodbyes, CloseStep
<1> QED
  BY <1>1, InductiveInvariant, PTL DEF Spec, PanicOnlyInWindow

\* Who is in the map after each kind of step that writes it.
LEMMA RegisteredAfter ==
    ASSUME TypeOK
    PROVE  /\ Registered \subseteq Service
           /\ services' = services => Registered' = Registered
           /\ \A s \in Service, n \in Name :
                 RegisterService(s, n) => Registered' = Registered \cup {s}
           /\ \A n \in Name : UnregisterService(n) =>
                 /\ Registered' \subseteq Registered
                 /\ Registered \subseteq Registered' \cup {services[n]}
           /\ \A s \in Service : HandleConflictRename(s) =>
                 Registered' \subseteq Registered \cup {s} /\ s \in Registered'
<1> USE RegistrationAssumption DEF TypeOK, Registered
<1>1. Registered \subseteq Service
  OBVIOUS
<1>2. ASSUME services' = services PROVE Registered' = Registered
  BY <1>2
<1>3. ASSUME NEW s \in Service, NEW n \in Name, RegisterService(s, n)
      PROVE  Registered' = Registered \cup {s}
  BY <1>3 DEF RegisterService
<1>4. ASSUME NEW n \in Name, UnregisterService(n)
      PROVE  /\ Registered' \subseteq Registered
             /\ Registered \subseteq Registered' \cup {services[n]}
  BY <1>4 DEF UnregisterService
<1>5. ASSUME NEW s \in Service, HandleConflictRename(s)
      PROVE  Registered' \subseteq Registered \cup {s} /\ s \in Registered'
  <2> DEFINE new == IncrementNameSuffix(name[s])
  <2>1. name[s] \in Name /\ new \in Name /\ new # name[s]
    BY <1>5, IncrementNameSuffixName DEF HandleConflictRename
  <2>2. services' = [services EXCEPT ![name[s]] = NoService, ![new] = s]
    BY <1>5 DEF HandleConflictRename
  <2> HIDE DEF new
  <2> QED
    BY <2>1, <2>2
<1> QED
  BY <1>1, <1>2, <1>3, <1>4, <1>5

\* Only UnregisterService and the rename of another service take a service out
\* of the map, and only RegisterService and its own rename put it in.
THEOREM MapChangesOnlyByItsWriters == Spec => MapIsStable
<1> DEFINE Stable == \A s \in Service :
          /\ s \in Registered /\ s \notin Registered' =>
                 \/ api'[s] = "removed"
                 \/ \E u \in Service \ {s} : pc[u] = "rename" /\ pc'[u] = "begin"
          /\ s \notin Registered /\ s \in Registered' =>
                 state[s] = "none" \/ pc[s] = "rename"
<1>1. IInv /\ [Next]_vars => [Stable]_vars
  <2> SUFFICES ASSUME IInv, Next PROVE Stable
    OBVIOUS
  <2>0. TypeOK
    BY DEF IInv
  <2>1. ASSUME NEW s \in Service, NEW n \in Name, RegisterService(s, n)
        PROVE  Stable
    <3>1. Registered' = Registered \cup {s}
      BY <2>0, <2>1, RegisteredAfter
    <3>2. state[s] = "none"
      BY <2>1 DEF RegisterService
    <3> QED
      BY <3>1, <3>2
  <2>2. ASSUME NEW n \in Name, UnregisterService(n) PROVE Stable
    <3>1. services[n] \in Service /\ api'[services[n]] = "removed"
      BY <2>0, <2>2 DEF UnregisterService, TypeOK
    <3> QED
      BY <2>0, <2>2, <3>1, RegisteredAfter
  <2>3. ASSUME NEW s \in Service, HandleConflictRename(s) PROVE Stable
    <3>1. pc[s] = "rename" /\ pc'[s] = "begin"
      BY <2>0, <2>3 DEF HandleConflictRename, Goto, TypeOK
    <3> QED
      BY <2>0, <2>3, <3>1, RegisteredAfter
  <2>4. ASSUME UNCHANGED services PROVE Stable
    BY <2>0, <2>4, RegisteredAfter
  <2> QED
    BY <2>1, <2>2, <2>3, <2>4
       DEF Next, Probing, UnregisterGoodbye, ProbeBegin, ProbeDelay, SendProbe,
           ProbeWait, CheckTiebreak, MarkAnnounced, AnnounceService, HandleProbe,
           HandleQuery, SendAnswer, CloseGoodbyes, CloseStep
<1> QED
  BY <1>1, InductiveInvariant, PTL DEF Spec, MapIsStable

\* An unregistered service whose goroutines have ended is silent for ever.
THEOREM DrainedStaysSilent == Spec => DrainedIsSilent
<1> DEFINE Silent(s) == Drained(s) =>
               Drained(s)' /\ (air'[s] = "live" => air[s] = "live")
<1>1. IInv /\ [Next]_vars => [\A s \in Service : Silent(s)]_vars
  <2> SUFFICES ASSUME IInv, Next, NEW s \in Service, Drained(s)
               PROVE  Drained(s)' /\ (air'[s] = "live" => air[s] = "live")
    OBVIOUS
  <2>0. /\ TypeOK
        /\ s \notin Registered /\ pc[s] \in {"done", "failed"}
        /\ s \notin pending /\ state[s] # "none"
    BY DEF IInv, LocusInv, Drained
  <2> USE DEF Drained
  <2>1. ASSUME NEW u \in Service, NEW n \in Name, RegisterService(u, n)
        PROVE  Drained(s)' /\ air' = air
    <3>1. u # s
      BY <2>0, <2>1 DEF RegisterService
    <3>2. s \notin Registered'
      BY <2>0, <2>1, <3>1, RegisteredAfter
    <3> QED
      BY <2>0, <2>1, <3>1, <3>2 DEF RegisterService, TypeOK
  <2>2. ASSUME NEW n \in Name, UnregisterService(n)
        PROVE  Drained(s)' /\ air' = air
    BY <2>0, <2>2, RegisteredAfter DEF UnregisterService
  <2>3. ASSUME NEW u \in Service, Probing(u)
        PROVE  Drained(s)' /\ air'[s] = air[s]
    <3>1. pc[u] \notin {"done", "failed"} /\ u # s
      BY <2>0, <2>3 DEF Probing, ProbeBegin, ProbeDelay, SendProbe, ProbeWait,
              CheckTiebreak, MarkAnnounced, AnnounceService, HandleConflictRename,
              TimerOrDone, Goto
    <3>2. pc'[s] = pc[s] /\ pending' = pending
      BY <2>0, <2>3, <3>1 DEF Probing, ProbeBegin, ProbeDelay, SendProbe, ProbeWait,
              CheckTiebreak, MarkAnnounced, AnnounceService, HandleConflictRename,
              TimerOrDone, Goto, TypeOK
    <3>3. air'[s] = air[s]
      BY <2>0, <2>3, <3>1 DEF Probing, ProbeBegin, ProbeDelay, SendProbe, ProbeWait,
              CheckTiebreak, MarkAnnounced, AnnounceService, HandleConflictRename,
              SendResponseMulticast, TypeOK
    <3>4. services' = services \/ HandleConflictRename(u)
      BY <2>3 DEF Probing, ProbeBegin, ProbeDelay, SendProbe, ProbeWait,
              CheckTiebreak, MarkAnnounced, AnnounceService
    <3>5. s \notin Registered'
      BY <2>0, <3>1, <3>4, RegisteredAfter
    <3> QED
      BY <2>0, <3>2, <3>3, <3>5
  <2>4. ASSUME NEW ns \in ProbeRecord, HandleProbe(ns)
        PROVE  Drained(s)' /\ air' = air
    <3>1. s \notin pending'
      BY <2>0, <2>4 DEF HandleProbe
    <3> QED
      BY <2>0, <2>4, <3>1, RegisteredAfter DEF HandleProbe
  <2>5. ASSUME NEW u \in Service, HandleQuery(u)
        PROVE  Drained(s)' /\ air' = air
    BY <2>0, <2>5, RegisteredAfter DEF HandleQuery
  <2>6. ASSUME NEW u \in Service, SendAnswer(u)
        PROVE  Drained(s)' /\ air'[s] = air[s]
    BY <2>0, <2>6, RegisteredAfter DEF SendAnswer, SendResponseMulticast, TypeOK
  <2>7. ASSUME NEW S, SendGoodbye(S)
        PROVE  air'[s] = "live" => air[s] = "live"
    BY <2>7 DEF SendGoodbye
  <2>8. ASSUME NEW u \in Service, UnregisterGoodbye(u)
        PROVE  Drained(s)' /\ (air'[s] = "live" => air[s] = "live")
    BY <2>0, <2>7, <2>8, RegisteredAfter DEF UnregisterGoodbye
  <2>9. ASSUME CloseGoodbyes
        PROVE  Drained(s)' /\ (air'[s] = "live" => air[s] = "live")
    BY <2>0, <2>7, <2>9, RegisteredAfter DEF CloseGoodbyes
  <2>10. ASSUME CloseStep PROVE Drained(s)' /\ air' = air
    BY <2>0, <2>10, RegisteredAfter DEF CloseStep
  <2> HIDE DEF Drained
  <2> QED
    BY <2>1, <2>2, <2>3, <2>4, <2>5, <2>6, <2>8, <2>9, <2>10 DEF Next
<1> QED
  BY <1>1, InductiveInvariant, PTL DEF Spec, DrainedIsSilent

=============================================================================
