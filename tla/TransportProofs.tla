-------------------------- MODULE TransportProofs ---------------------------
(***************************************************************************)
(* Proofs about Transport: no panic but the early one, what a returned     *)
(* Close leaves behind, and what a warning stands for, for every number of *)
(* callers of Close and of senders, any capacity, threshold and bound.     *)
(***************************************************************************)
EXTENDS Transport, FiniteSetTheorems, TLAPS

ReadersGone == \A s \in Socket : reader[s] \in {"none", "done"}

\* What has happened before Start is done: the context comes with the loops,
\* Close finds nothing to do, and a service registered now is early.
BootInv ==
    /\ ctx = "none" <=> boot # "running"
    /\ boot # "running" => \A c \in Closer : pc[c] \in {"idle", "nothing"}
    /\ reg = "pending" /\ ~early => boot = "running"

\* One Close at most shuts the connection, and only it closes the channel,
\* after the readers have gone.
ShutInv ==
    /\ \A c, d \in shutter : c = d
    /\ closed <=> shutter # {}
    /\ \A c \in Closer : pc[c] \in {"sockets", "wait", "close"}
                           => c \in shutter /\ chan = "open"
    /\ \A c \in shutter : pc[c] \in {"sockets", "wait", "close", "wg", "returned"}
    /\ \A c \in shutter : pc[c] \in {"wg", "returned"} => chan = "closed"
    /\ chan = "closed" => shutter # {}
    /\ chan = "closed" => ReadersGone
    /\ \A c \in Closer : pc[c] = "close" => ReadersGone

\* A packet is handled by a running recvLoop; a Close that has returned has
\* waited for the loops; a reader about to deliver holds a packet.
QuietInv ==
    /\ handling # NoPacket => loop["recv"] = "run"
    /\ \A c \in Closer : pc[c] = "returned" => \A l \in Loop : loop[l] = "done"
    /\ \A s \in Socket : reader[s] = "deliver" => hand[s] \in Packet

\* Failed writes that are not yet counted.
Uncounted == {w \in Writer : writer[w] = "noroute"}

\* Failures of the row that no warning stands for yet.
Unwarned == IF failures < Threshold THEN failures ELSE failures - Threshold

CountInv ==
    /\ failures + Cardinality(Uncounted) <= failed
    /\ warnings + Cardinality(Uncounted) <= failed
    /\ Threshold * warnings + Unwarned + Cardinality(Uncounted) <= failed
    /\ failed <= writes

\* The types of what is known of writes.  The bounds of the counts follow from
\* CountInv.
WriteType ==
    /\ writer \in [Writer -> {"idle", "ok", "noroute", "other"}]
    /\ failures \in Nat /\ warnings \in Nat /\ failed \in Nat
    /\ writes \in 0 .. MaxWrites

\* The inductive invariant.
IInv == TypeOK /\ BootInv /\ ShutInv /\ QuietInv /\ CountInv /\ PanicOnlyIfEarly

-----------------------------------------------------------------------------
\* The writers are finitely many, and so are the uncounted writes.
LEMMA UncountedFinite ==
    /\ IsFiniteSet(Writer)
    /\ IsFiniteSet(Uncounted)
    /\ Cardinality(Uncounted) \in Nat
<1>1. IsFiniteSet(Writer)
  BY TransportAssumption, FS_Union DEF Writer
<1>2. IsFiniteSet(Uncounted)
  BY <1>1, FS_Subset DEF Uncounted
<1> QED
  BY <1>1, <1>2, FS_CardinalityType

\* Only a write and its count touch what is known of writes.
LEMMA WriteFrame ==
    ASSUME [TransportNext]_transportVars
    PROVE  \/ UNCHANGED writeVars
           \/ \E w \in Writer : Write(w) \/ CountWrite(w)
  BY DEF TransportNext, Lifecycle, ReaderStep, CloseStep, transportVars,
         StartConn, StartLoops, Arrive, ReadFails, Deliver, TakePacket,
         HandlePacket, LoopEnds, CloseBegin, CloseCancel, CloseSwap,
         CloseSockets, CloseWait, CloseChannel, CloseReturn, Register, ProbeRuns

-----------------------------------------------------------------------------
\* Initially the invariant holds.
LEMMA InitIInv == TransportInit => IInv
<1> SUFFICES ASSUME TransportInit PROVE IInv
  OBVIOUS
<1> USE TransportAssumption DEF TransportInit
<1>1. TypeOK
  <2>1. /\ queue \in Seq(Packet) /\ Len(queue) <= Capacity
        /\ failures \in 0 .. MaxWrites /\ warnings \in 0 .. MaxWrites
        /\ failed \in 0 .. MaxWrites /\ writes \in 0 .. MaxWrites
    OBVIOUS
  <2> QED
    BY <2>1 DEF TypeOK
<1>2. BootInv /\ ShutInv /\ QuietInv /\ PanicOnlyIfEarly
  BY DEF BootInv, ShutInv, QuietInv, PanicOnlyIfEarly
<1>3. CountInv
  <2>1. Uncounted = {}
    BY DEF Uncounted
  <2>2. Cardinality(Uncounted) = 0
    BY <2>1, FS_EmptySet
  <2> QED
    BY <2>2 DEF CountInv, Unwarned
<1> QED
  BY <1>1, <1>2, <1>3 DEF IInv

\* The counts: a write adds a failure and leaves it uncounted, its count adds it
\* to the row, and the failure that completes a row becomes a warning.
LEMMA StepCount ==
    ASSUME IInv, [TransportNext]_transportVars
    PROVE  CountInv' /\ WriteType'
<1> USE TransportAssumption DEF WriteType
<1>0. WriteType /\ CountInv
  BY DEF IInv, TypeOK
<1>1. CASE UNCHANGED writeVars
  <2>1. Uncounted' = Uncounted
    BY <1>1 DEF Uncounted, writeVars
  <2> QED
    BY <1>0, <1>1, <2>1 DEF CountInv, Unwarned, writeVars
<1>2. ASSUME NEW w \in Writer, Write(w) PROVE CountInv' /\ WriteType'
  <2>1. /\ w \notin Uncounted /\ writes' = writes + 1 /\ writes < MaxWrites
        /\ failures' = failures /\ warnings' = warnings
    BY <1>2 DEF Write, Uncounted
  <2>2. PICK r \in {"ok", "noroute", "other"} :
           /\ writer' = [writer EXCEPT ![w] = r]
           /\ failed' = IF r = "noroute" THEN failed + 1 ELSE failed
    BY <1>2 DEF Write
  <2>3. writer' \in [Writer -> {"idle", "ok", "noroute", "other"}]
    BY <1>0, <2>2
  <2>4. CASE r = "noroute"
    <3>1. Uncounted' = Uncounted \cup {w}
      BY <1>0, <2>2, <2>4 DEF Uncounted
    <3>2. Cardinality(Uncounted') = Cardinality(Uncounted) + 1
      BY <3>1, <2>1, UncountedFinite, FS_AddElement
    <3> QED
      BY <1>0, <2>1, <2>2, <2>3, <2>4, <3>2, UncountedFinite DEF CountInv, Unwarned
  <2>5. CASE r # "noroute"
    <3>1. Uncounted' = Uncounted
      BY <1>0, <2>1, <2>2, <2>5 DEF Uncounted
    <3> QED
      BY <1>0, <2>1, <2>2, <2>3, <2>5, <3>1, UncountedFinite DEF CountInv, Unwarned
  <2> QED
    BY <2>4, <2>5
<1>3. ASSUME NEW w \in Writer, CountWrite(w) PROVE CountInv' /\ WriteType'
  <2>1. /\ writer' = [writer EXCEPT ![w] = "idle"]
        /\ failed' = failed /\ writes' = writes
    BY <1>3 DEF CountWrite
  <2>2. writer' \in [Writer -> {"idle", "ok", "noroute", "other"}]
    BY <1>0, <2>1
  <2>3. CASE writer[w] = "noroute"
    <3>1. /\ failures' = failures + 1
          /\ warnings' = IF failures + 1 = Threshold THEN warnings + 1 ELSE warnings
      BY <1>3, <2>3 DEF CountWrite
    <3>2. w \in Uncounted /\ Uncounted' = Uncounted \ {w}
      BY <1>0, <2>1, <2>3 DEF Uncounted
    <3>3. Cardinality(Uncounted') = Cardinality(Uncounted) - 1
      BY <3>2, UncountedFinite, FS_RemoveElement
    <3>4. Threshold * (warnings + 1) = Threshold * warnings + Threshold
      BY <1>0
    <3>5. Threshold * warnings \in Nat
      BY <1>0
    <3> QED
      BY <1>0, <2>1, <2>2, <3>1, <3>3, <3>4, <3>5, UncountedFinite DEF CountInv, Unwarned
  <2>4. CASE writer[w] # "noroute"
    <3>1. failures' = 0 /\ warnings' = warnings
      BY <1>3, <2>4 DEF CountWrite
    <3>2. Uncounted' = Uncounted
      BY <1>0, <2>1, <2>4 DEF Uncounted
    <3>3. Threshold * warnings \in Nat
      BY <1>0
    <3> QED
      BY <1>0, <2>1, <2>2, <3>1, <3>2, <3>3, UncountedFinite DEF CountInv, Unwarned
  <2> QED
    BY <2>3, <2>4
<1> QED
  BY <1>1, <1>2, <1>3, WriteFrame


-----------------------------------------------------------------------------
\* The order of Start, Close and registration.
LEMMA StepBoot ==
    ASSUME IInv, [TransportNext]_transportVars
    PROVE  BootInv'
<1> USE DEF IInv, TypeOK, BootInv
<1>1. CASE StartConn
  BY <1>1 DEF StartConn, closeVars, regVars
<1>2. CASE StartLoops
  BY <1>2 DEF StartLoops, closeVars, regVars
<1>3. ASSUME NEW c \in Closer, CloseStep(c) PROVE BootInv'
  <2>1. CASE CloseBegin(c)
    BY <2>1 DEF CloseBegin, GoTo, serverVars, regVars
  <2>2. CASE CloseCancel(c)
    BY <2>2 DEF CloseCancel, GoTo, regVars
  <2>3. CASE CloseSwap(c) \/ CloseSockets(c) \/ CloseWait(c) \/ CloseChannel(c) \/ CloseReturn(c)
    BY <2>3 DEF CloseSwap, CloseSockets, CloseWait, CloseChannel, CloseReturn,
                GoTo, serverVars, regVars
  <2> QED
    BY <1>3, <2>1, <2>2, <2>3 DEF CloseStep
<1>4. CASE Register \/ ProbeRuns
  BY <1>4 DEF Register, ProbeRuns, serverVars, closeVars
<1>5. CASE UNCHANGED <<boot, ctx, pc, reg, early>>
  BY <1>5
<1> QED
  BY <1>1, <1>2, <1>3, <1>4, <1>5
  DEF TransportNext, Lifecycle, ReaderStep, transportVars, serverVars, closeVars,
      regVars, Arrive, ReadFails, Deliver, TakePacket, HandlePacket, LoopEnds,
      Write, CountWrite

\* One Close shuts the connection, and closes the channel when the readers have
\* gone.
LEMMA StepShut ==
    ASSUME IInv, [TransportNext]_transportVars
    PROVE  ShutInv'
<1> USE DEF IInv, TypeOK, BootInv, ShutInv, ReadersGone
<1>1. CASE StartConn
  BY <1>1 DEF StartConn, closeVars
<1>2. ASSUME NEW s \in Socket, ReaderStep(s) \/ \E p \in Packet : Arrive(s, p)
      PROVE  ShutInv'
  <2>1. UNCHANGED <<closed, chan, pc, shutter>>
    BY <1>2 DEF ReaderStep, ReadFails, Deliver, Arrive, closeVars
  <2>2. ReadersGone => ReadersGone'
    BY <1>2 DEF ReaderStep, ReadFails, Deliver, Arrive
  <2> QED
    BY <2>1, <2>2
<1>3. ASSUME NEW c \in Closer, CloseStep(c) PROVE ShutInv'
  <2>1. CASE CloseBegin(c)
    BY <2>1 DEF CloseBegin, GoTo, connVars
  <2>2. CASE CloseCancel(c)
    BY <2>2 DEF CloseCancel, GoTo, connVars
  <2>3. CASE CloseSwap(c)
    BY <2>3 DEF CloseSwap, GoTo
  <2>4. CASE CloseSockets(c)
    BY <2>4 DEF CloseSockets, GoTo
  <2>5. CASE CloseWait(c)
    BY <2>5 DEF CloseWait, GoTo, connVars
  <2>6. CASE CloseChannel(c)
    BY <2>6 DEF CloseChannel, GoTo
  <2>7. CASE CloseReturn(c)
    BY <2>7 DEF CloseReturn, GoTo, connVars
  <2> QED
    BY <1>3, <2>1, <2>2, <2>3, <2>4, <2>5, <2>6, <2>7 DEF CloseStep
<1>4. CASE UNCHANGED <<closed, reader, chan, pc, shutter>>
  BY <1>4
<1> QED
  BY <1>1, <1>2, <1>3, <1>4
  DEF TransportNext, Lifecycle, transportVars, connVars, closeVars, StartLoops,
      TakePacket, HandlePacket, LoopEnds, Write, CountWrite, Register, ProbeRuns

\* What runs when: handling, loops and returned calls of Close.
LEMMA StepQuiet ==
    ASSUME IInv, [TransportNext]_transportVars
    PROVE  QuietInv'
<1> USE TransportAssumption DEF IInv, TypeOK, BootInv, QuietInv, Loop
<1>1. CASE StartConn
  BY <1>1 DEF StartConn, closeVars
<1>2. CASE StartLoops
  BY <1>2 DEF StartLoops, connVars, closeVars
<1>3. ASSUME NEW s \in Socket, NEW p \in Packet, Arrive(s, p) PROVE QuietInv'
  BY <1>3 DEF Arrive, serverVars, closeVars
<1>4. ASSUME NEW s \in Socket, ReaderStep(s) PROVE QuietInv'
  BY <1>4 DEF ReaderStep, ReadFails, Deliver, serverVars, closeVars
<1>5. CASE TakePacket
  BY <1>5 DEF TakePacket, closeVars
<1>6. CASE HandlePacket
  BY <1>6 DEF HandlePacket, connVars, closeVars
<1>7. ASSUME NEW l \in Loop, LoopEnds(l) PROVE QuietInv'
  BY <1>7 DEF LoopEnds, connVars, closeVars
<1>8. ASSUME NEW c \in Closer, CloseStep(c) PROVE QuietInv'
  BY <1>8 DEF CloseStep, CloseBegin, CloseCancel, CloseSwap, CloseSockets,
              CloseWait, CloseChannel, CloseReturn, GoTo, connVars, serverVars
<1>9. CASE UNCHANGED <<reader, hand, loop, handling, pc>>
  BY <1>9
<1> QED
  BY <1>1, <1>2, <1>3, <1>4, <1>5, <1>6, <1>7, <1>8, <1>9
  DEF TransportNext, Lifecycle, transportVars, connVars, serverVars, closeVars,
      Write, CountWrite, Register, ProbeRuns

\* The only step that panics is the start of an early service's goroutine.
LEMMA StepPanic ==
    ASSUME IInv, [TransportNext]_transportVars
    PROVE  PanicOnlyIfEarly'
<1> USE DEF IInv, PanicOnlyIfEarly
<1>1. ASSUME NEW s \in Socket, Deliver(s) PROVE PanicOnlyIfEarly'
  BY <1>1 DEF Deliver, ShutInv, ReadersGone, regVars
<1>2. ASSUME NEW c \in Closer, CloseChannel(c) PROVE PanicOnlyIfEarly'
  BY <1>2 DEF CloseChannel, ShutInv, TypeOK
<1>3. CASE ProbeRuns
  BY <1>3 DEF ProbeRuns, BootInv, TypeOK
<1>4. CASE ~panicked /\ UNCHANGED panicked
  BY <1>4
<1>5. CASE UNCHANGED transportVars
  BY <1>5 DEF transportVars, regVars
<1> QED
  BY <1>1, <1>2, <1>3, <1>4, <1>5
  DEF TransportNext, Lifecycle, ReaderStep, CloseStep, StartConn, StartLoops,
      Arrive, ReadFails, TakePacket, HandlePacket, LoopEnds, CloseBegin,
      CloseCancel, CloseSwap, CloseSockets, CloseWait, CloseReturn, Write,
      CountWrite, Register

-----------------------------------------------------------------------------
\* The types of the connection.
ConnType ==
    /\ closed \in BOOLEAN
    /\ sock \in [Socket -> {"none", "open", "closed"}]
    /\ reader \in [Socket -> {"none", "read", "deliver", "done"}]
    /\ hand \in [Socket -> Packet \cup {NoPacket}]
    /\ queue \in Seq(Packet) /\ Len(queue) <= Capacity
    /\ chan \in {"open", "closed"}
    /\ handling \in Packet \cup {NoPacket}

\* The types of the server.
LifeType ==
    /\ boot \in {"none", "conn", "running"}
    /\ ctx \in {"none", "live", "cancelled"}
    /\ loop \in [Loop -> {"none", "run", "done"}]
    /\ pc \in [Closer -> {"idle", "nothing", "goodbye", "swap", "sockets",
                          "wait", "close", "wg", "returned"}]
    /\ shutter \subseteq Closer
    /\ reg \in {"none", "pending", "probing"}
    /\ early \in BOOLEAN
    /\ panicked \in BOOLEAN

\* Every step keeps the types of the connection.
LEMMA StepConnType ==
    ASSUME IInv, [TransportNext]_transportVars
    PROVE  ConnType'
<1>0. ConnType
  BY DEF IInv, TypeOK, ConnType
<1> USE <1>0 DEF ConnType
<1>1. CASE StartConn
  BY <1>1 DEF StartConn
<1>2. ASSUME NEW s \in Socket, NEW p \in Packet, Arrive(s, p) PROVE ConnType'
  BY <1>2 DEF Arrive, serverVars
<1>3. ASSUME NEW s \in Socket, ReadFails(s) PROVE ConnType'
  BY <1>3 DEF ReadFails, serverVars
<1>4. ASSUME NEW s \in Socket, Deliver(s) PROVE ConnType'
  <2>1. hand[s] \in Packet
    BY <1>4 DEF Deliver, IInv, QuietInv
  <2>2. queue' \in Seq(Packet) /\ Len(queue') <= Capacity
    BY <1>4, <2>1, TransportAssumption DEF Deliver
  <2> QED
    BY <1>4, <2>2 DEF Deliver, serverVars
<1>5. CASE TakePacket
  <2>1. Head(queue) \in Packet /\ Tail(queue) \in Seq(Packet) /\ Len(Tail(queue)) <= Capacity
    BY <1>5, TransportAssumption DEF TakePacket
  <2> QED
    BY <1>5, <2>1 DEF TakePacket
<1>6. CASE HandlePacket
  BY <1>6 DEF HandlePacket, connVars
<1>7. ASSUME NEW c \in Closer, CloseSwap(c) \/ CloseSockets(c) \/ CloseChannel(c)
      PROVE  ConnType'
  BY <1>7 DEF CloseSwap, CloseSockets, CloseChannel, serverVars
<1>8. CASE UNCHANGED <<connVars, handling>>
  BY <1>8 DEF connVars
<1> QED
  BY <1>1, <1>2, <1>3, <1>4, <1>5, <1>6, <1>7, <1>8
  DEF TransportNext, Lifecycle, ReaderStep, CloseStep, transportVars, serverVars,
      StartLoops, LoopEnds, CloseBegin, CloseCancel, CloseWait, CloseReturn,
      Write, CountWrite, Register, ProbeRuns

\* Every step keeps the types of the server.
LEMMA StepLifeType ==
    ASSUME IInv, [TransportNext]_transportVars
    PROVE  LifeType'
<1>0. LifeType
  BY DEF IInv, TypeOK, LifeType
<1> USE <1>0 DEF LifeType
<1>1. CASE StartConn \/ StartLoops
  BY <1>1 DEF StartConn, StartLoops, closeVars, regVars
<1>2. ASSUME NEW s \in Socket, Deliver(s) PROVE LifeType'
  BY <1>2 DEF Deliver, serverVars, closeVars, regVars
<1>3. ASSUME NEW l \in Loop, LoopEnds(l) PROVE LifeType'
  BY <1>3 DEF LoopEnds, closeVars, regVars
<1>4. ASSUME NEW c \in Closer, CloseStep(c) PROVE LifeType'
  <2>1. CASE CloseBegin(c) \/ CloseCancel(c) \/ CloseSockets(c)
    BY <2>1 DEF CloseBegin, CloseCancel, CloseSockets, GoTo, serverVars, regVars
  <2>2. CASE CloseSwap(c)
    BY <2>2 DEF CloseSwap, GoTo, serverVars, regVars
  <2>3. CASE CloseWait(c) \/ CloseChannel(c) \/ CloseReturn(c)
    BY <2>3 DEF CloseWait, CloseChannel, CloseReturn, GoTo, serverVars, regVars
  <2> QED
    BY <1>4, <2>1, <2>2, <2>3 DEF CloseStep
<1>5. CASE Register \/ ProbeRuns
  BY <1>5 DEF Register, ProbeRuns, serverVars, closeVars
<1>6. CASE UNCHANGED <<boot, ctx, loop, closeVars, regVars, panicked>>
  BY <1>6 DEF closeVars, regVars
<1> QED
  BY <1>1, <1>2, <1>3, <1>4, <1>5, <1>6
  DEF TransportNext, Lifecycle, ReaderStep, transportVars, serverVars, Arrive,
      ReadFails, TakePacket, HandlePacket, Write, CountWrite

\* Every step preserves the invariant.
LEMMA StepIInv == IInv /\ [TransportNext]_transportVars => IInv'
<1> SUFFICES ASSUME IInv, [TransportNext]_transportVars PROVE IInv'
  OBVIOUS
<1>1. CountInv' /\ WriteType'
  BY StepCount
<1>2. Cardinality(Uncounted)' \in Nat
  <2>1. IsFiniteSet(Uncounted')
    BY UncountedFinite, FS_Subset DEF Uncounted
  <2> QED
    BY <2>1, FS_CardinalityType
<1>3. /\ failures' \in 0 .. MaxWrites /\ warnings' \in 0 .. MaxWrites
      /\ failed' \in 0 .. MaxWrites
  BY <1>1, <1>2, TransportAssumption DEF CountInv, WriteType
<1>4. TypeOK'
  BY <1>1, <1>3, StepConnType, StepLifeType DEF TypeOK, ConnType, LifeType, WriteType
<1> QED
  BY <1>1, <1>4, StepBoot, StepShut, StepQuiet, StepPanic DEF IInv

-----------------------------------------------------------------------------
\* The invariant holds in every behaviour of the transport.
THEOREM Invariance == TransportSpec => []IInv
  BY InitIInv, StepIInv, PTL DEF TransportSpec

\* Types, and the channel of packets never holds more than its capacity.
THEOREM TypeCorrect == TransportSpec => []TypeOK
<1>1. IInv => TypeOK
  BY DEF IInv
<1> QED
  BY <1>1, Invariance, PTL

\* However many calls of Close there are, and whatever the readers and loops are
\* doing, nobody sends on the closed channel of packets and nobody closes it
\* twice; the process panics only for a service registered before Start was done.
THEOREM NoPanicUnlessEarly == TransportSpec => []PanicOnlyIfEarly
<1>1. IInv => PanicOnlyIfEarly
  BY DEF IInv
<1> QED
  BY <1>1, Invariance, PTL

\* A Close that has returned leaves no loop running and no packet in handling;
\* the one that shut the connection leaves no reader either.
THEOREM CloseLeavesNothing == TransportSpec => []ClosedIsQuiet
<1>1. IInv => ClosedIsQuiet
  BY DEF IInv, TypeOK, ShutInv, QuietInv, ClosedIsQuiet, ReadersGone, Loop
<1> QED
  BY <1>1, Invariance, PTL

\* A warning of a broken route stands for Threshold failed sends of its own.
THEOREM WarningsAreEarned == TransportSpec => []ThreeFailuresPerWarning
<1>1. IInv => ThreeFailuresPerWarning
  <2> SUFFICES ASSUME IInv PROVE ThreeFailuresPerWarning
    OBVIOUS
  <2>1. Threshold * warnings \in Nat /\ Unwarned \in Nat /\ failed \in Nat
    BY TransportAssumption DEF IInv, TypeOK, Unwarned
  <2> QED
    BY <2>1, UncountedFinite DEF IInv, CountInv, ThreeFailuresPerWarning
<1> QED
  BY <1>1, Invariance, PTL

=============================================================================
