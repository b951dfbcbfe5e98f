------------------------------ MODULE Browser -------------------------------
(***************************************************************************)
(* Service browsers (src/browser.go) and how the server drives them: the   *)
(* registry Server.browsers, the application that browses, starts and      *)
(* stops, the browseLoop goroutines, recvLoop that hands PTR records to    *)
(* the registered browser, cacheLoop that expires them, and the consumers  *)
(* of the event channels.                                                  *)
(*                                                                         *)
(* Data.  All browsers are for one service type, so they share one key of  *)
(* the registry.  An instance is its name; what SRV, TXT and address       *)
(* records say about it is left out.  Server.mu is held by recvLoop for    *)
(* the whole of handleResponse (recv.at # "idle"); a section under         *)
(* Browser.mu is one action.                                               *)
(***************************************************************************)
EXTENDS Naturals, Sequences, FiniteSets

CONSTANTS Browser,    \* Browser objects, one per Browse call
          Instance,   \* service instances on the network
          Chan,       \* event channels, one per Start call
          Cap,        \* capacity of an event channel
          NoBrowser

ASSUME BrowserAssumption ==
    /\ NoBrowser \notin Browser
    /\ Cap \in Nat \ {0}

VARIABLES
    registry,   \* Server.browsers[serviceType]
    created,    \* browsers that Browse returned
    running,    \* Browser.running
    cancel,     \* Browser.cancel: "open" or "closed"
    starting,   \* Start calls that have yet to start their loop
    loops,      \* browseLoop goroutines of the browser (Browser.wg)
    listeners,  \* Browser.listeners
    instances,  \* Browser.instances
    stop,       \* progress of the Stop call for the browser
    chan,       \* event channels: owner, open or not, buffered events
    recv,       \* progress of handleResponse for one PTR record
    ptr,        \* instances whose PTR record is in the cache
    view,       \* ghost: Instances() at Start, then updated by the events
    lossy,      \* ghost: channels that dropped an event
    panicked    \* a goroutine used a closed channel

vars == <<registry, created, running, cancel, starting, loops, listeners,
          instances, stop, chan, recv, ptr, view, lossy, panicked>>

Event == [action : {"add", "remove"}, inst : Instance]
Idle == [at |-> "idle"]
Stage == [at : {"lookup", "write", "send"}, to : SUBSET Chan, for : Browser,
          add : BOOLEAN, inst : Instance]
Unmade == [owner |-> NoBrowser, open |-> FALSE, queue |-> <<>>]

TypeOK ==
    /\ registry \in Browser \cup {NoBrowser}
    /\ created \subseteq Browser
    /\ running \in [Browser -> BOOLEAN]
    /\ cancel \in [Browser -> {"open", "closed"}]
    /\ starting \in [Browser -> Nat]
    /\ loops \in [Browser -> Nat]
    /\ listeners \in [Browser -> SUBSET Chan]
    /\ instances \in [Browser -> SUBSET Instance]
    /\ stop \in [Browser -> {"none", "cancel", "wait", "unregister", "close",
                             "returned"}]
    /\ \A c \in Chan :
          /\ chan[c].owner \in Browser \cup {NoBrowser}
          /\ chan[c].open \in BOOLEAN
          /\ chan[c].queue \in Seq(Event) /\ Len(chan[c].queue) <= Cap
    /\ recv \in {Idle} \cup Stage
    /\ ptr \subseteq Instance
    /\ view \in [Chan -> SUBSET Instance]
    /\ lossy \subseteq Chan
    /\ panicked \in BOOLEAN

Init ==
    /\ registry = NoBrowser
    /\ created = {}
    /\ running = [b \in Browser |-> FALSE]
    /\ cancel = [b \in Browser |-> "open"]
    /\ starting = [b \in Browser |-> 0]
    /\ loops = [b \in Browser |-> 0]
    /\ listeners = [b \in Browser |-> {}]
    /\ instances = [b \in Browser |-> {}]
    /\ stop = [b \in Browser |-> "none"]
    /\ chan = [c \in Chan |-> Unmade]
    /\ recv = Idle
    /\ ptr = {}
    /\ view = [c \in Chan |-> {}]
    /\ lossy = {}
    /\ panicked = FALSE

-----------------------------------------------------------------------------
(* The application. *)

\* Browse: an entry already under the key is overwritten.
Browse(b) ==
    /\ b \notin created
    /\ recv = Idle
    /\ created' = created \cup {b}
    /\ registry' = b
    /\ UNCHANGED <<running, cancel, starting, loops, listeners, instances,
                   stop, chan, recv, ptr, view, lossy, panicked>>

\* Mutant: every call starts a loop.
StartAnotherLoop(b, c) ==
    /\ b \in created
    /\ chan[c].owner = NoBrowser
    /\ chan' = [chan EXCEPT ![c] = [owner |-> b, open |-> TRUE, queue |-> <<>>]]
    /\ listeners' = [listeners EXCEPT ![b] = @ \cup {c}]
    /\ running' = [running EXCEPT ![b] = TRUE]
    /\ starting' = [starting EXCEPT ![b] = @ + 1]
    /\ view' = [view EXCEPT ![c] = instances[b]]
    /\ UNCHANGED <<registry, created, cancel, loops, instances, stop, recv,
                   ptr, lossy, panicked>>

\* Start: a channel of its own for every call ...
Start(b, c) ==
    /\ b \in created
    /\ chan[c].owner = NoBrowser
    /\ chan' = [chan EXCEPT ![c] = [owner |-> b, open |-> TRUE, queue |-> <<>>]]
    /\ listeners' = [listeners EXCEPT ![b] = @ \cup {c}]
    /\ running' = [running EXCEPT ![b] = TRUE]
    /\ starting' = [starting EXCEPT ![b] = IF running[b] THEN @ ELSE @ + 1]
    /\ view' = [view EXCEPT ![c] = instances[b]]
    /\ UNCHANGED <<registry, created, cancel, loops, instances, stop, recv,
                   ptr, lossy, panicked>>

\* ... and, after b.mu is released, a loop if the browser was not running.
StartLoop(b) ==
    /\ starting[b] > 0
    /\ starting' = [starting EXCEPT ![b] = @ - 1]
    /\ loops' = [loops EXCEPT ![b] = @ + 1]
    /\ UNCHANGED <<registry, created, running, cancel, listeners, instances,
                   stop, chan, recv, ptr, view, lossy, panicked>>

\* Stop, first section: a browser that is not running is left as it is.
StopBegin(b) ==
    /\ b \in created
    /\ stop[b] \in {"none", "returned"}
    /\ running' = [running EXCEPT ![b] = FALSE]
    /\ stop' = [stop EXCEPT ![b] = IF running[b] THEN "cancel" ELSE "returned"]
    /\ UNCHANGED <<registry, created, cancel, starting, loops, listeners,
                   instances, chan, recv, ptr, view, lossy, panicked>>

\* Stop: close(b.cancel).
StopCancel(b) ==
    /\ stop[b] = "cancel"
    /\ cancel' = [cancel EXCEPT ![b] = "closed"]
    /\ panicked' = (cancel[b] = "closed")
    /\ stop' = [stop EXCEPT ![b] = "wait"]
    /\ UNCHANGED <<registry, created, running, starting, loops, listeners,
                   instances, chan, recv, ptr, view, lossy>>

\* Stop: b.wg.Wait().
StopWait(b) ==
    /\ stop[b] = "wait"
    /\ loops[b] = 0
    /\ stop' = [stop EXCEPT ![b] = "unregister"]
    /\ UNCHANGED <<registry, created, running, cancel, starting, loops,
                   listeners, instances, chan, recv, ptr, view, lossy,
                   panicked>>

\* Mutant: Server.mu is not taken.
StopUnregisterUnlocked(b) ==
    /\ stop[b] = "unregister"
    /\ registry' = NoBrowser
    /\ stop' = [stop EXCEPT ![b] = "close"]
    /\ UNCHANGED <<created, running, cancel, starting, loops, listeners,
                   instances, chan, recv, ptr, view, lossy, panicked>>

\* Stop: the key is deleted under Server.mu, whoever it belongs to.
StopUnregister(b) ==
    /\ stop[b] = "unregister"
    /\ recv = Idle
    /\ registry' = NoBrowser
    /\ stop' = [stop EXCEPT ![b] = "close"]
    /\ UNCHANGED <<created, running, cancel, starting, loops, listeners,
                   instances, chan, recv, ptr, view, lossy, panicked>>

\* Stop, last section: all listeners are closed and forgotten.
StopClose(b) ==
    /\ stop[b] = "close"
    /\ chan' = [c \in Chan |-> IF c \in listeners[b]
                               THEN [chan[c] EXCEPT !.open = FALSE] ELSE chan[c]]
    /\ listeners' = [listeners EXCEPT ![b] = {}]
    /\ stop' = [stop EXCEPT ![b] = "returned"]
    /\ UNCHANGED <<registry, created, running, cancel, starting, loops,
                   instances, recv, ptr, view, lossy, panicked>>

\* A consumer takes an event.
Consume(c) ==
    /\ chan[c].queue # <<>>
    /\ chan' = [chan EXCEPT ![c].queue = Tail(@)]
    /\ UNCHANGED <<registry, created, running, cancel, starting, loops,
                   listeners, instances, stop, recv, ptr, view, lossy,
                   panicked>>

-----------------------------------------------------------------------------
(* Goroutines of the browser and of the server. *)

\* Mutant: the loop goes on querying after b.cancel was closed.
BrowseLoopDeaf(b) ==
    /\ loops[b] > 0
    /\ UNCHANGED vars

\* browseLoop: queries change nothing here; a closed cancel ends the loop.
BrowseLoop(b) ==
    /\ loops[b] > 0
    /\ cancel[b] = "closed"
    /\ loops' = [loops EXCEPT ![b] = @ - 1]
    /\ UNCHANGED <<registry, created, running, cancel, starting, listeners,
                   instances, stop, chan, recv, ptr, view, lossy, panicked>>

\* handleResponse takes Server.mu and updates the cache; a goodbye removes the
\* PTR records of all instances.  Without a browser nobody is notified.
HandleResponse(i, add) ==
    /\ recv = Idle
    /\ ptr' = IF add THEN ptr \cup {i} ELSE {}
    /\ recv' = IF registry = NoBrowser THEN Idle
               ELSE [at |-> IF add THEN "lookup" ELSE "write", to |-> {},
                     for |-> registry, add |-> add, inst |-> i]
    /\ UNCHANGED <<registry, created, running, cancel, starting, loops,
                   listeners, instances, stop, chan, view, lossy, panicked>>

\* handlePTR: an instance that is known already is left alone.
HandlePTR ==
    /\ recv.at = "lookup"
    /\ recv' = IF recv.inst \in instances[recv.for] THEN Idle
               ELSE [recv EXCEPT !.at = "write"]
    /\ UNCHANGED <<registry, created, running, cancel, starting, loops,
                   listeners, instances, stop, chan, ptr, view, lossy,
                   panicked>>

\* Mutant: the removed instance is not deleted.
ChangeInstancesNoDelete ==
    LET b == recv.for
        i == recv.inst
    IN
    /\ recv.at = "write"
    /\ instances' = [instances EXCEPT ![b] = @ \cup {i}]
    /\ recv' = IF ~recv.add /\ i \notin instances[b] THEN Idle
               ELSE [recv EXCEPT !.at = "send", !.to = listeners[b]]
    /\ UNCHANGED <<registry, created, running, cancel, starting, loops,
                   listeners, stop, chan, ptr, view, lossy, panicked>>

\* handlePTR and onRecordRemove: the instances change and the listeners are
\* read in one section; the removal of an unknown instance ends here.
ChangeInstances ==
    LET b == recv.for
        i == recv.inst
    IN
    /\ recv.at = "write"
    /\ instances' = [instances EXCEPT ![b] = IF recv.add THEN @ \cup {i} ELSE @ \ {i}]
    /\ recv' = IF ~recv.add /\ i \notin instances[b] THEN Idle
               ELSE [recv EXCEPT !.at = "send", !.to = listeners[b]]
    /\ UNCHANGED <<registry, created, running, cancel, starting, loops,
                   listeners, stop, chan, ptr, view, lossy, panicked>>

\* Mutant: the send does not give up when the channel is full.
SendEventUnbounded(c) ==
    LET e == [action |-> IF recv.add THEN "add" ELSE "remove", inst |-> recv.inst]
    IN
    /\ recv.at = "send"
    /\ c \in recv.to
    /\ recv' = [recv EXCEPT !.to = @ \ {c}]
    /\ panicked' = ~chan[c].open
    /\ chan' = [chan EXCEPT ![c].queue = Append(@, e)]
    /\ view' = [view EXCEPT ![c] = IF recv.add THEN @ \cup {recv.inst}
                                   ELSE @ \ {recv.inst}]
    /\ UNCHANGED <<registry, created, running, cancel, starting, loops,
                   listeners, instances, stop, ptr, lossy>>

\* ... and then the event is sent to each of them, or dropped if there is no
\* room.  After the last, Server.mu is released.
SendEvent(c) ==
    LET room == Len(chan[c].queue) < Cap
        e == [action |-> IF recv.add THEN "add" ELSE "remove", inst |-> recv.inst]
    IN
    /\ recv.at = "send"
    /\ c \in recv.to
    /\ recv' = [recv EXCEPT !.to = @ \ {c}]
    /\ panicked' = ~chan[c].open
    /\ IF room
       THEN /\ chan' = [chan EXCEPT ![c].queue = Append(@, e)]
            /\ view' = [view EXCEPT ![c] = IF recv.add THEN @ \cup {recv.inst}
                                           ELSE @ \ {recv.inst}]
            /\ lossy' = lossy
       ELSE /\ lossy' = lossy \cup {c}
            /\ UNCHANGED <<chan, view>>
    /\ UNCHANGED <<registry, created, running, cancel, starting, loops,
                   listeners, instances, stop, ptr>>

SendDone ==
    /\ recv.at = "send"
    /\ recv.to = {}
    /\ recv' = Idle
    /\ UNCHANGED <<registry, created, running, cancel, starting, loops,
                   listeners, instances, stop, chan, ptr, view, lossy,
                   panicked>>

\* cacheLoop: a PTR record expires and is purged; Cache.Expire tells nobody.
Expire(i) ==
    /\ i \in ptr
    /\ ptr' = ptr \ {i}
    /\ UNCHANGED <<registry, created, running, cancel, starting, loops,
                   listeners, instances, stop, chan, recv, view, lossy,
                   panicked>>

-----------------------------------------------------------------------------
StopStep(b) ==
    StopCancel(b) \/ StopWait(b) \/ StopUnregister(b) \/ StopClose(b)

Notify == HandlePTR \/ ChangeInstances \/ (\E c \in Chan : SendEvent(c)) \/ SendDone

Next ==
    /\ ~panicked
    /\ \/ \E b \in Browser : Browse(b)
       \/ \E b \in Browser, c \in Chan : Start(b, c)
       \/ \E b \in Browser : StartLoop(b)
       \/ \E b \in Browser : StopBegin(b)
       \/ \E b \in Browser : StopStep(b)
       \/ \E b \in Browser : BrowseLoop(b)
       \/ \E c \in Chan : Consume(c)
       \/ \E i \in Instance, add \in BOOLEAN : HandleResponse(i, add)
       \/ Notify
       \/ \E i \in Instance : Expire(i)

Spec == Init /\ [][Next]_vars

\* Goroutines run, expired records are purged at the next tick.  Server.mu is
\* contended by recvLoop for ever, and Go's mutexes do not starve a waiter: the
\* section of StopUnregister needs strong fairness.
FairSpec ==
    /\ Spec
    /\ WF_vars(~panicked /\ Notify)
    /\ \A b \in Browser :
          /\ WF_vars(~panicked /\ StartLoop(b))
          /\ WF_vars(~panicked /\ BrowseLoop(b))
          /\ SF_vars(~panicked /\ StopStep(b))
    /\ \A i \in Instance : WF_vars(~panicked /\ Expire(i))

-----------------------------------------------------------------------------
\* Events are never sent on a closed channel, though browsers are notified
\* without asking whether they still run: the only panic is a second
\* close(b.cancel), after a browser was started again.
PanicOnlyByRestart ==
    [][panicked' => \E b \in Browser : stop[b] = "cancel" /\ cancel[b] = "closed"]_vars

\* Instances() at Start plus the events received since are Instances(), for
\* every channel that is open and has dropped nothing, between responses.
ViewMatches ==
    \A b \in Browser : \A c \in listeners[b] :
        recv = Idle /\ c \notin lossy => view[c] = instances[b]

\* Until it is stopped, a browser has exactly one loop if it runs and none if it
\* does not, however many times it was started.
OneLoopUntilStopped ==
    \A b \in Browser : cancel[b] = "open" /\ stop[b] # "cancel" =>
        starting[b] + loops[b] = IF running[b] THEN 1 ELSE 0

\* Stop returns: neither the loop it waits for nor recvLoop waits for it.
StopReturns ==
    \A b \in Browser : stop[b] = "cancel" ~> stop[b] = "returned" \/ panicked

-----------------------------------------------------------------------------
(* What the repository says and the code does not do. *)

\* browser.go:439 "onRecordRemove is called by the server when a record expires
\* or a goodbye arrives": an instance whose PTR record is gone does not stay.
ExpiredIsRemoved ==
    \A b \in Browser, i \in Instance :
        (registry = b /\ i \in instances[b] /\ i \notin ptr)
            ~> (registry # b \/ i \notin instances[b] \/ i \in ptr)

=============================================================================
