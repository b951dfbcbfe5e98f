----------------------------- MODULE Transport ------------------------------
(***************************************************************************)
(* The life of a server: MulticastConn (src/multicast.go) with its socket  *)
(* readers, its bounded channel and its count of failed sends, and Start,  *)
(* Close and the goroutines between them (src/server.go).                  *)
(*                                                                         *)
(* Processes: Start; a reader per socket (MulticastConn.recvLoop); the     *)
(* three goroutines of Server.wg (recvLoop, cacheLoop, probeHostRecords);  *)
(* any number of calls of Close; goroutines outside wg that only send      *)
(* (answers, probes, announcements); and the goroutine of a service        *)
(* registered before or after Start.  One action is one channel operation, *)
(* one system call or one atomic operation.                                *)
(*                                                                         *)
(* A server is started once.  Failures of Start before it has started      *)
(* anything are left out, and so is checkMulticastHealth, which only warns.*)
(***************************************************************************)
EXTENDS Naturals, Sequences, FiniteSets

CONSTANTS Packet,     \* what a socket may receive
          Closer,     \* callers of Close
          Sender,     \* goroutines that send and that nobody waits for
          Capacity,   \* of the channel of packets (256)
          Threshold,  \* failed sends in a row before the warning (3)
          MaxWrites,  \* bound: sends explored
          NoPacket

ASSUME TransportAssumption ==
    /\ Capacity \in Nat \ {0}
    /\ Threshold \in Nat \ {0}
    /\ MaxWrites \in Nat
    /\ NoPacket \notin Packet
    /\ IsFiniteSet(Closer) /\ IsFiniteSet(Sender)
    /\ Closer \cap Sender = {}

Socket == {"v4", "v6"}
Loop == {"recv", "cache", "probe"}
Writer == Closer \cup Sender

VARIABLES
    boot,      \* how far Start is: "none", "conn", "running"
    closed,    \* MulticastConn.closed
    sock,      \* "none", "open" or "closed"
    reader,    \* recvLoop of each socket: "none", "read", "deliver", "done"
    hand,      \* the packet that it has read
    queue,     \* MulticastConn.packets ...
    chan,      \* ... which is "open" or "closed"
    ctx,       \* Server.ctx: "none", "live" or "cancelled"
    loop,      \* goroutines of Server.wg: "none", "run" or "done"
    handling,  \* the packet in handlePacket
    pc,        \* where each Close is
    shutter,   \* the Close that found the connection open
    writer,    \* result of a write that is not yet counted, or "idle"
    failures,  \* sendFailures
    warnings,  \* calls of warnFn
    failed,    \* ghost: writes that failed for want of a route
    writes,    \* ghost: writes so far
    reg,       \* a registered service: "none", "pending", "probing"
    early,     \* ghost: it was registered before Start was done
    panicked

connVars == <<closed, sock, reader, hand, queue, chan>>
serverVars == <<boot, ctx, loop, handling>>
closeVars == <<pc, shutter>>
writeVars == <<writer, failures, warnings, failed, writes>>
regVars == <<reg, early>>
transportVars == <<connVars, serverVars, closeVars, writeVars, regVars, panicked>>

TypeOK ==
    /\ boot \in {"none", "conn", "running"}
    /\ closed \in BOOLEAN
    /\ sock \in [Socket -> {"none", "open", "closed"}]
    /\ reader \in [Socket -> {"none", "read", "deliver", "done"}]
    /\ hand \in [Socket -> Packet \cup {NoPacket}]
    /\ queue \in Seq(Packet) /\ Len(queue) <= Capacity
    /\ chan \in {"open", "closed"}
    /\ ctx \in {"none", "live", "cancelled"}
    /\ loop \in [Loop -> {"none", "run", "done"}]
    /\ handling \in Packet \cup {NoPacket}
    /\ pc \in [Closer -> {"idle", "nothing", "goodbye", "swap", "sockets",
                          "wait", "close", "wg", "returned"}]
    /\ shutter \subseteq Closer
    /\ writer \in [Writer -> {"idle", "ok", "noroute", "other"}]
    /\ failures \in 0 .. MaxWrites
    /\ warnings \in 0 .. MaxWrites
    /\ failed \in 0 .. MaxWrites
    /\ writes \in 0 .. MaxWrites
    /\ reg \in {"none", "pending", "probing"}
    /\ early \in BOOLEAN
    /\ panicked \in BOOLEAN

TransportInit ==
    /\ boot = "none"
    /\ closed = FALSE
    /\ sock = [s \in Socket |-> "none"]
    /\ reader = [s \in Socket |-> "none"]
    /\ hand = [s \in Socket |-> NoPacket]
    /\ queue = <<>> /\ chan = "open"
    /\ ctx = "none"
    /\ loop = [l \in Loop |-> "none"]
    /\ handling = NoPacket
    /\ pc = [c \in Closer |-> "idle"]
    /\ shutter = {}
    /\ writer = [w \in Writer |-> "idle"]
    /\ failures = 0 /\ warnings = 0 /\ failed = 0 /\ writes = 0
    /\ reg = "none" /\ early = FALSE
    /\ panicked = FALSE

-----------------------------------------------------------------------------
(* Start. *)

\* NewMulticastConn: the sockets and their readers; IPv6 may be off or fail.
StartConn ==
    /\ boot = "none"
    /\ boot' = "conn"
    /\ \E S \in {{"v4"}, Socket} :
          /\ sock' = [s \in Socket |-> IF s \in S THEN "open" ELSE "none"]
          /\ reader' = [s \in Socket |-> IF s \in S THEN "read" ELSE "none"]
    /\ UNCHANGED <<closed, hand, queue, chan, ctx, loop, handling, closeVars,
                   writeVars, regVars, panicked>>

\* The context, then the goroutines of Server.wg.
StartLoops ==
    /\ boot = "conn"
    /\ boot' = "running"
    /\ ctx' = "live"
    /\ loop' = [l \in Loop |-> "run"]
    /\ UNCHANGED <<connVars, handling, closeVars, writeVars, regVars, panicked>>

-----------------------------------------------------------------------------
(* MulticastConn.recvLoop. *)

Arrive(s, p) ==
    /\ reader[s] = "read" /\ sock[s] = "open"
    /\ reader' = [reader EXCEPT ![s] = "deliver"]
    /\ hand' = [hand EXCEPT ![s] = p]
    /\ UNCHANGED <<closed, sock, queue, chan, serverVars, closeVars, writeVars,
                   regVars, panicked>>

\* A read fails: the reader ends if the connection is being closed and reads
\* on if it is not.
ReadFails(s) ==
    /\ reader[s] = "read"
    /\ closed
    /\ reader' = [reader EXCEPT ![s] = "done"]
    /\ UNCHANGED <<closed, sock, hand, queue, chan, serverVars, closeVars,
                   writeVars, regVars, panicked>>

\* Mutant: the reader waits for room in the channel.
DeliverBlocks(s) ==
    /\ reader[s] = "deliver"
    /\ chan = "open" => Len(queue) < Capacity
    /\ IF chan = "closed" THEN panicked' = TRUE /\ queue' = queue
       ELSE /\ queue' = Append(queue, hand[s])
            /\ UNCHANGED panicked
    /\ reader' = [reader EXCEPT ![s] = "read"]
    /\ hand' = [hand EXCEPT ![s] = NoPacket]
    /\ UNCHANGED <<closed, sock, chan, serverVars, closeVars, writeVars, regVars>>

\* Mutant: the packet is sent whether or not the channel has room.
DeliverOverfull(s) ==
    /\ reader[s] = "deliver"
    /\ IF chan = "closed" THEN panicked' = TRUE /\ queue' = queue
       ELSE /\ queue' = IF Len(queue) <= Capacity THEN Append(queue, hand[s])
                        ELSE queue
            /\ UNCHANGED panicked
    /\ reader' = [reader EXCEPT ![s] = "read"]
    /\ hand' = [hand EXCEPT ![s] = NoPacket]
    /\ UNCHANGED <<closed, sock, chan, serverVars, closeVars, writeVars, regVars>>

\* The packet goes into the channel, or is dropped if that is full; to send on
\* a closed channel is a panic.
Deliver(s) ==
    /\ reader[s] = "deliver"
    /\ IF chan = "closed" THEN panicked' = TRUE /\ queue' = queue
       ELSE /\ queue' = IF Len(queue) < Capacity THEN Append(queue, hand[s])
                        ELSE queue
            /\ UNCHANGED panicked
    /\ reader' = [reader EXCEPT ![s] = "read"]
    /\ hand' = [hand EXCEPT ![s] = NoPacket]
    /\ UNCHANGED <<closed, sock, chan, serverVars, closeVars, writeVars, regVars>>

-----------------------------------------------------------------------------
(* The goroutines of Server.wg. *)

\* The select of Server.recvLoop takes a packet, also from a closed channel and
\* also if the context is done.
TakePacket ==
    /\ loop["recv"] = "run" /\ handling = NoPacket
    /\ queue # <<>>
    /\ handling' = Head(queue)
    /\ queue' = Tail(queue)
    /\ UNCHANGED <<closed, sock, reader, hand, chan, boot, ctx, loop, closeVars,
                   writeVars, regVars, panicked>>

\* handlePacket is done with it.
HandlePacket ==
    /\ handling # NoPacket
    /\ handling' = NoPacket
    /\ UNCHANGED <<connVars, boot, ctx, loop, closeVars, writeVars, regVars,
                   panicked>>

\* A goroutine ends: all when the context is done, recvLoop also when the
\* channel is closed and empty, probeHostRecords also by itself.
LoopEnds(l) ==
    /\ loop[l] = "run"
    /\ l = "recv" => handling = NoPacket
    /\ \/ ctx = "cancelled"
       \/ l = "recv" /\ chan = "closed" /\ queue = <<>>
       \/ l = "probe"
    /\ loop' = [loop EXCEPT ![l] = "done"]
    /\ UNCHANGED <<connVars, boot, ctx, handling, closeVars, writeVars, regVars,
                   panicked>>

-----------------------------------------------------------------------------
(* Close. *)

GoTo(c, place) == pc' = [pc EXCEPT ![c] = place]

\* Without a cancel function there is nothing to close and Close returns.
CloseBegin(c) ==
    /\ pc[c] = "idle"
    /\ GoTo(c, IF ctx = "none" THEN "nothing" ELSE "goodbye")
    /\ UNCHANGED <<connVars, serverVars, shutter, writeVars, regVars, panicked>>

\* Server.Close: the goodbyes are sent (Write, below); the context is cancelled.
CloseCancel(c) ==
    /\ pc[c] = "goodbye" /\ writer[c] = "idle"
    /\ GoTo(c, "swap")
    /\ ctx' = "cancelled"
    /\ UNCHANGED <<connVars, boot, loop, handling, shutter, writeVars, regVars,
                   panicked>>

\* Mutant: whether the connection is closed is seen from the channel.
CloseSwapLate(c) ==
    /\ pc[c] = "swap"
    /\ IF chan = "closed" THEN GoTo(c, "wg") /\ UNCHANGED shutter
       ELSE GoTo(c, "sockets") /\ shutter' = shutter \cup {c}
    /\ closed' = TRUE
    /\ UNCHANGED <<sock, reader, hand, queue, chan, serverVars, writeVars,
                   regVars, panicked>>

\* MulticastConn.Close: closed.Swap(true) lets one caller in.
CloseSwap(c) ==
    /\ pc[c] = "swap"
    /\ IF closed THEN GoTo(c, "wg") /\ UNCHANGED shutter
       ELSE GoTo(c, "sockets") /\ shutter' = shutter \cup {c}
    /\ closed' = TRUE
    /\ UNCHANGED <<sock, reader, hand, queue, chan, serverVars, writeVars,
                   regVars, panicked>>

CloseSockets(c) ==
    /\ pc[c] = "sockets"
    /\ GoTo(c, "wait")
    /\ sock' = [s \in Socket |-> IF sock[s] = "none" THEN "none" ELSE "closed"]
    /\ UNCHANGED <<closed, reader, hand, queue, chan, serverVars, shutter,
                   writeVars, regVars, panicked>>

\* mc.wg.Wait
CloseWait(c) ==
    /\ pc[c] = "wait"
    /\ \A s \in Socket : reader[s] \in {"none", "done"}
    /\ GoTo(c, "close")
    /\ UNCHANGED <<connVars, serverVars, shutter, writeVars, regVars, panicked>>

\* close(mc.packets), a panic if it is closed already.
CloseChannel(c) ==
    /\ pc[c] = "close"
    /\ GoTo(c, "wg")
    /\ chan' = "closed"
    /\ panicked' = (chan = "closed")
    /\ UNCHANGED <<closed, sock, reader, hand, queue, serverVars, shutter,
                   writeVars, regVars>>

\* Mutant: Close does not wait for the goroutines of the server.
CloseReturnNoWait(c) ==
    /\ pc[c] = "wg"
    /\ GoTo(c, "returned")
    /\ UNCHANGED <<connVars, serverVars, shutter, writeVars, regVars, panicked>>

\* s.wg.Wait
CloseReturn(c) ==
    /\ pc[c] = "wg"
    /\ \A l \in Loop : loop[l] = "done"
    /\ GoTo(c, "returned")
    /\ UNCHANGED <<connVars, serverVars, shutter, writeVars, regVars, panicked>>

-----------------------------------------------------------------------------
(* Sending: a write, then its count. *)

\* WriteToUDP on the IPv4 socket.  (An IPv6 write is not looked at.)
Write(w) ==
    /\ writer[w] = "idle" /\ writes < MaxWrites
    /\ ctx # "none" /\ (w \in Closer => pc[w] = "goodbye")
    /\ \E r \in IF sock["v4"] = "open" THEN {"ok", "noroute", "other"} ELSE {"other"} :
          /\ writer' = [writer EXCEPT ![w] = r]
          /\ failed' = IF r = "noroute" THEN failed + 1 ELSE failed
    /\ writes' = writes + 1
    /\ UNCHANGED <<connVars, serverVars, closeVars, failures, warnings, regVars,
                   panicked>>

\* Mutant: every failure from the threshold on is warned of.
CountWriteEach(w) ==
    /\ writer[w] # "idle"
    /\ writer' = [writer EXCEPT ![w] = "idle"]
    /\ IF writer[w] = "noroute"
       THEN /\ failures' = failures + 1
            /\ warnings' = IF failures + 1 >= Threshold THEN warnings + 1 ELSE warnings
       ELSE failures' = 0 /\ UNCHANGED warnings
    /\ UNCHANGED <<connVars, serverVars, closeVars, failed, writes, regVars,
                   panicked>>

\* WriteMulticastV4 and trackSendFailure: only the failure that makes the count
\* three is warned of; any other result sets the count back.
CountWrite(w) ==
    /\ writer[w] # "idle"
    /\ writer' = [writer EXCEPT ![w] = "idle"]
    /\ IF writer[w] = "noroute"
       THEN /\ failures' = failures + 1
            /\ warnings' = IF failures + 1 = Threshold THEN warnings + 1 ELSE warnings
       ELSE failures' = 0 /\ UNCHANGED warnings
    /\ UNCHANGED <<connVars, serverVars, closeVars, failed, writes, regVars,
                   panicked>>

-----------------------------------------------------------------------------
(* RegisterService, at any time. *)

Register ==
    /\ reg = "none"
    /\ reg' = "pending"
    /\ early' = (boot # "running")
    /\ UNCHANGED <<connVars, serverVars, closeVars, writeVars, panicked>>

\* probeService starts, and waits for s.ctx.Done(): a panic if there is no
\* context yet.
ProbeRuns ==
    /\ reg = "pending"
    /\ reg' = "probing"
    /\ panicked' = (ctx = "none")
    /\ UNCHANGED <<connVars, serverVars, closeVars, writeVars, early>>

-----------------------------------------------------------------------------
ReaderStep(s) == ReadFails(s) \/ Deliver(s)
CloseStep(c) ==
    \/ CloseBegin(c) \/ CloseCancel(c) \/ CloseSwap(c) \/ CloseSockets(c)
    \/ CloseWait(c) \/ CloseChannel(c) \/ CloseReturn(c)

\* All but the arrival and the handling of a packet.
Lifecycle ==
    /\ ~panicked
    /\ \/ StartConn \/ StartLoops
       \/ \E s \in Socket : ReaderStep(s)
       \/ TakePacket
       \/ \E l \in Loop : LoopEnds(l)
       \/ \E c \in Closer : CloseStep(c)
       \/ \E w \in Writer : Write(w) \/ CountWrite(w)
       \/ Register \/ ProbeRuns

TransportNext ==
    \/ ~panicked /\ \E s \in Socket, p \in Packet : Arrive(s, p)
    \/ ~panicked /\ HandlePacket
    \/ Lifecycle

TransportSpec == TransportInit /\ [][TransportNext]_transportVars

\* Goroutines that can run do; a read on a closed socket fails; packets are
\* handled; a Close that was called goes on.
TransportFairness ==
    /\ WF_transportVars(StartLoops)
    /\ \A s \in Socket : /\ WF_transportVars(sock[s] = "closed" /\ ReadFails(s))
                         /\ WF_transportVars(Deliver(s))
    /\ WF_transportVars(HandlePacket)
    /\ \A l \in Loop : WF_transportVars(ctx = "cancelled" /\ LoopEnds(l))
    /\ \A w \in Writer : WF_transportVars(CountWrite(w))
    /\ \A c \in Closer : WF_transportVars(pc[c] # "idle" /\ CloseStep(c))

-----------------------------------------------------------------------------
\* The program panics only if a service was registered before Start was done:
\* whatever the order in which readers, loops and several calls of Close run,
\* nobody sends on the closed channel of packets and nobody closes it twice.
PanicOnlyIfEarly == panicked => early

\* When a Close of a running server has returned, no packet is being handled
\* and none will be, though another Close may still be at work; if it was the
\* one that shut the connection, the readers are gone too.
ClosedIsQuiet ==
    \A c \in Closer : pc[c] = "returned" =>
        /\ handling = NoPacket
        /\ \A l \in Loop : loop[l] = "done"
        /\ c \in shutter =>
              chan = "closed" /\ \A s \in Socket : reader[s] \in {"none", "done"}

\* A Close of a running server returns, also if the channel of packets is full,
\* readers hold packets and another Close is at work.
CloseReturns == \A c \in Closer : pc[c] = "goodbye" ~> pc[c] = "returned"

\* Every warning of a broken route stands for three failed sends of its own,
\* however the sends of several goroutines and their counts interleave.
ThreeFailuresPerWarning == Threshold * warnings <= failed

=============================================================================
