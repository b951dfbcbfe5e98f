---------------------------- MODULE BrowserProofs ---------------------------
(***************************************************************************)
(* Proofs about Browser: the types, one loop per browser, events that add  *)
(* up to the instances, and no send on a closed channel, for every number  *)
(* of browsers, channels and instances and any capacity.                   *)
(***************************************************************************)
EXTENDS Browser, TLAPS

Channel == [owner : Browser \cup {NoBrowser}, open : BOOLEAN, queue : Seq(Event)]

\* TypeOK, and chan as a function.
Types == TypeOK /\ chan \in [Chan -> Channel]

\* A browser's listeners are its own, and open.
OwnInv == \A b \in Browser : \A c \in listeners[b] : chan[c].owner = b /\ chan[c].open

\* A browser is registered once, by the Browse that returns it: one that Stop
\* has unregistered is not found again.
RegInv ==
    /\ \A b \in Browser \ created : stop[b] = "none"
    /\ registry # NoBrowser => registry \in created /\ stop[registry] # "close"

\* recvLoop notifies no browser that is about to close its listeners, and has
\* read from the browser the listeners that it goes through.
RecvInv ==
    recv # Idle =>
        /\ stop[recv.for] # "close"
        /\ recv.at = "send" => recv.to \subseteq listeners[recv.for]

\* The event that recvLoop has yet to send to the channel c of b ...
Pending(b, c) == recv # Idle /\ recv.at = "send" /\ recv.for = b /\ c \in recv.to

\* ... and what it does to a view.
Applied(S) == IF recv.add THEN S \cup {recv.inst} ELSE S \ {recv.inst}

\* ViewMatches while an event is being sent: what a listener has been told, and
\* is about to be told, are the instances.
ViewInv ==
    \A b \in Browser : \A c \in listeners[b] : c \notin lossy =>
        instances[b] = IF Pending(b, c) THEN Applied(view[c]) ELSE view[c]

\* The inductive invariant.
IInv == Types /\ OwnInv /\ RegInv /\ RecvInv /\ ViewInv /\ OneLoopUntilStopped

-----------------------------------------------------------------------------
\* Initially the invariant holds.
LEMMA InitIInv == Init => IInv
<1> SUFFICES ASSUME Init PROVE IInv
  OBVIOUS
<1>1. Unmade \in Channel /\ Unmade.queue = <<>> /\ <<>> \in Seq(Event)
  BY DEF Channel, Unmade
<1>2. chan \in [Chan -> Channel] /\ \A c \in Chan : chan[c] = Unmade
  BY <1>1 DEF Init
<1>3. running \in [Browser -> BOOLEAN] /\ panicked \in BOOLEAN
  BY DEF Init
<1>4. Types
  BY <1>1, <1>2, <1>3, BrowserAssumption DEF Init, Types, TypeOK, Channel
<1>5. OwnInv /\ RegInv /\ RecvInv /\ ViewInv
  BY DEF Init, OwnInv, RegInv, RecvInv, ViewInv
<1>6. OneLoopUntilStopped
  BY DEF Init, OneLoopUntilStopped
<1> QED
  BY <1>4, <1>5, <1>6 DEF IInv

\* A response that is being handled has its stage.
LEMMA StageType ==
    ASSUME Types
    PROVE  /\ recv = Idle \/ recv \in Stage
           /\ recv.at = "idle" <=> recv = Idle
  BY DEF Types, TypeOK, Idle, Stage

\* Calls of the application and the loops of the browsers, but for Start and
\* the closing of the channels, leave channels, views and recvLoop alone.
LEMMA CallStep ==
    ASSUME IInv, NEW b \in Browser,
           \/ Browse(b) \/ StartLoop(b) \/ StopBegin(b) \/ StopCancel(b)
           \/ StopWait(b) \/ StopUnregister(b) \/ BrowseLoop(b)
    PROVE  IInv'
<1>1. UNCHANGED <<listeners, instances, chan, recv, ptr, view, lossy>>
  BY DEF Browse, StartLoop, StopBegin, StopCancel, StopWait, StopUnregister, BrowseLoop
<1>2. Types'
  <2>1. panicked' \in BOOLEAN
    BY DEF IInv, Types, TypeOK, Browse, StartLoop, StopBegin, StopCancel, StopWait,
           StopUnregister, BrowseLoop
  <2>2. running' \in [Browser -> BOOLEAN]
    BY DEF IInv, Types, TypeOK, Browse, StartLoop, StopBegin, StopCancel, StopWait,
           StopUnregister, BrowseLoop
  <2>3. /\ registry' \in Browser \cup {NoBrowser} /\ created' \subseteq Browser
        /\ cancel' \in [Browser -> {"open", "closed"}]
    BY DEF IInv, Types, TypeOK, Browse, StartLoop, StopBegin, StopCancel, StopWait,
           StopUnregister, BrowseLoop
  <2>5. starting' \in [Browser -> Nat] /\ loops' \in [Browser -> Nat]
    <3>1. CASE StartLoop(b)
      BY <3>1 DEF IInv, Types, TypeOK, StartLoop
    <3>2. CASE BrowseLoop(b)
      BY <3>2 DEF IInv, Types, TypeOK, BrowseLoop
    <3> QED
      BY <3>1, <3>2 DEF IInv, Types, TypeOK, Browse, StopBegin, StopCancel, StopWait,
                        StopUnregister
  <2>4. stop' \in [Browser -> {"none", "cancel", "wait", "unregister", "close", "returned"}]
    <3>1. \/ stop' = stop
          \/ \E x \in {"cancel", "wait", "unregister", "close", "returned"} :
                stop' = [stop EXCEPT ![b] = x]
      BY DEF Browse, StartLoop, StopBegin, StopCancel, StopWait, StopUnregister, BrowseLoop
    <3> QED
      BY <3>1 DEF IInv, Types, TypeOK
  <2> QED
    BY <1>1, <2>1, <2>2, <2>3, <2>4, <2>5 DEF IInv, Types, TypeOK
<1>3. OwnInv' /\ ViewInv'
  <2>1. \A d, c : Pending(d, c)' = Pending(d, c)
    BY <1>1 DEF Pending
  <2>2. \A S : Applied(S)' = Applied(S)
    BY <1>1 DEF Applied
  <2> QED
    BY <1>1, <2>1, <2>2 DEF IInv, OwnInv, ViewInv
<1>4. RegInv'
  BY BrowserAssumption DEF IInv, Types, TypeOK, RegInv, Browse, StartLoop, StopBegin,
     StopCancel, StopWait, StopUnregister, BrowseLoop
<1>5. RecvInv'
  <2> SUFFICES ASSUME recv # Idle PROVE stop'[recv.for] # "close"
    BY <1>1 DEF IInv, RecvInv
  <2>1. recv.for \in Browser /\ stop[recv.for] # "close"
    BY StageType DEF IInv, RecvInv, Stage
  <2> QED
    BY <2>1 DEF IInv, Types, TypeOK, Browse, StartLoop, StopBegin,
       StopCancel, StopWait, StopUnregister, BrowseLoop
<1>6. OneLoopUntilStopped'
  <2> SUFFICES ASSUME NEW d \in Browser, cancel'[d] = "open", stop'[d] # "cancel"
               PROVE  starting'[d] + loops'[d] = IF running'[d] THEN 1 ELSE 0
    BY DEF OneLoopUntilStopped
  <2>1. /\ cancel[d] = "open" /\ stop[d] # "cancel"
        /\ starting'[d] + loops'[d] = starting[d] + loops[d]
        /\ running'[d] <=> running[d]
    <3>1. CASE Browse(b) \/ StopWait(b) \/ StopUnregister(b)
      BY <3>1 DEF IInv, Types, TypeOK, Browse, StopWait, StopUnregister
    <3>2. CASE StartLoop(b)
      BY <3>2 DEF IInv, Types, TypeOK, StartLoop
    <3>3. CASE StopBegin(b)
      BY <3>3 DEF IInv, Types, TypeOK, StopBegin
    <3>4. CASE StopCancel(b)
      BY <3>4 DEF IInv, Types, TypeOK, StopCancel
    <3>5. CASE BrowseLoop(b)
      BY <3>5 DEF IInv, Types, TypeOK, BrowseLoop
    <3> QED
      BY <3>1, <3>2, <3>3, <3>4, <3>5
  <2> QED
    BY <2>1 DEF IInv, OneLoopUntilStopped
<1> QED
  BY <1>2, <1>3, <1>4, <1>5, <1>6 DEF IInv

\* Start: a new listener, whose view is what the instances are now.
LEMMA StartStep ==
    ASSUME IInv, NEW b \in Browser, NEW c \in Chan, Start(b, c)
    PROVE  IInv'
<1> USE DEF Start
<1>1. Types'
  <2>1. running' \in [Browser -> BOOLEAN] /\ panicked' \in BOOLEAN
    BY DEF IInv, Types, TypeOK
  <2>2. [owner |-> b, open |-> TRUE, queue |-> <<>>] \in Channel
    BY DEF Channel
  <2>3. chan' \in [Chan -> Channel] /\ \A d \in Chan : Len(chan'[d].queue) <= Cap
    BY <2>2, BrowserAssumption DEF IInv, Types, TypeOK
  <2>4. /\ starting' \in [Browser -> Nat]
        /\ listeners' \in [Browser -> SUBSET Chan]
        /\ view' \in [Chan -> SUBSET Instance]
    BY DEF IInv, Types, TypeOK
  <2> QED
    BY <2>1, <2>3, <2>4 DEF IInv, Types, TypeOK, Channel
<1>2. \A d \in Browser : c \notin listeners[d]
  BY BrowserAssumption DEF IInv, OwnInv
<1>3. OwnInv'
  BY <1>2 DEF IInv, Types, TypeOK, OwnInv, Channel
<1>4. RegInv'
  BY DEF IInv, RegInv
<1>5. RecvInv'
  BY StageType DEF IInv, RecvInv, Types, TypeOK, Stage
<1>6. ~Pending(b, c)
  BY <1>2, StageType DEF IInv, RecvInv, Pending, Stage
<1>7. ViewInv'
  BY <1>2, <1>6 DEF IInv, Types, TypeOK, ViewInv, Pending, Applied
<1>8. OneLoopUntilStopped'
  BY DEF IInv, Types, TypeOK, OneLoopUntilStopped
<1> QED
  BY <1>1, <1>3, <1>4, <1>5, <1>7, <1>8 DEF IInv

\* Stop closes the channels of its browser and no others.
LEMMA StopCloseStep ==
    ASSUME IInv, NEW b \in Browser, StopClose(b)
    PROVE  IInv'
<1> USE DEF StopClose
<1>1. Types'
  <2>1. \A r \in Channel : [r EXCEPT !.open = FALSE] \in Channel
    BY DEF Channel
  <2>2. chan' \in [Chan -> Channel]
    BY <2>1 DEF IInv, Types
  <2>3. \A d \in Chan : chan'[d].queue = chan[d].queue
    BY DEF IInv, Types, Channel
  <2>4. /\ listeners' \in [Browser -> SUBSET Chan]
        /\ stop' \in [Browser -> {"none", "cancel", "wait", "unregister", "close", "returned"}]
    BY DEF IInv, Types, TypeOK
  <2>5. \A d \in Chan : Len(chan'[d].queue) <= Cap
    BY <2>3 DEF IInv, Types, TypeOK
  <2> QED
    BY <2>2, <2>4, <2>5 DEF IInv, Types, TypeOK, Channel
<1>2. OwnInv'
  BY DEF IInv, Types, TypeOK, OwnInv, Channel
<1>3. RegInv'
  BY DEF IInv, Types, TypeOK, RegInv
<1>4. RecvInv'
  BY StageType DEF IInv, RecvInv, Types, TypeOK, Stage
<1>5. ViewInv'
  BY DEF IInv, Types, TypeOK, ViewInv, Pending, Applied
<1>6. OneLoopUntilStopped'
  BY DEF IInv, Types, TypeOK, OneLoopUntilStopped
<1> QED
  BY <1>1, <1>2, <1>3, <1>4, <1>5, <1>6 DEF IInv

\* A consumer and the expiry of a record.
LEMMA ConsumeStep ==
    ASSUME IInv, (\E c \in Chan : Consume(c)) \/ (\E i \in Instance : Expire(i))
    PROVE  IInv'
<1>1. UNCHANGED <<registry, created, running, cancel, starting, loops, listeners,
                  instances, stop, recv, view, lossy, panicked>>
  BY DEF Consume, Expire
<1>2. /\ chan' \in [Chan -> Channel] /\ ptr' \subseteq Instance
      /\ \A d \in Chan : /\ Len(chan'[d].queue) <= Cap
                         /\ chan'[d].owner = chan[d].owner /\ chan'[d].open = chan[d].open
  <2>1. CASE \E i \in Instance : Expire(i)
    BY <2>1 DEF Expire, IInv, Types, TypeOK
  <2>2. CASE \E c \in Chan : Consume(c)
    <3>1. PICK c \in Chan : Consume(c)
      BY <2>2
    <3>2. chan[c].queue \in Seq(Event) /\ chan[c].queue # <<>> /\ Len(chan[c].queue) <= Cap
      BY <3>1 DEF Consume, IInv, Types, TypeOK
    <3>3. Tail(chan[c].queue) \in Seq(Event) /\ Len(Tail(chan[c].queue)) <= Cap
      BY <3>2, BrowserAssumption
    <3>4. chan' = [chan EXCEPT ![c].queue = Tail(chan[c].queue)] /\ ptr' = ptr
      BY <3>1 DEF Consume
    <3> QED
      BY <3>3, <3>4 DEF IInv, Types, TypeOK, Channel
  <2> QED
    BY <2>1, <2>2
<1>3. Types'
  BY <1>1, <1>2 DEF IInv, Types, TypeOK, Channel
<1>4. OwnInv' /\ RegInv' /\ RecvInv'
  BY <1>1, <1>2 DEF IInv, Types, TypeOK, OwnInv, RegInv, RecvInv
<1>5. ViewInv' /\ OneLoopUntilStopped'
  BY <1>1 DEF IInv, ViewInv, Pending, Applied, OneLoopUntilStopped
<1> QED
  BY <1>3, <1>4, <1>5 DEF IInv

\* recvLoop, up to the events: while the instances change, all listeners of the
\* browser are still to be told.
LEMMA HandleStep ==
    ASSUME IInv,
           \/ \E i \in Instance, add \in BOOLEAN : HandleResponse(i, add)
           \/ HandlePTR \/ ChangeInstances \/ SendDone
    PROVE  IInv'
<1>1. UNCHANGED <<registry, created, running, cancel, starting, loops, listeners,
                  stop, chan, view, lossy, panicked>>
  BY DEF HandleResponse, HandlePTR, ChangeInstances, SendDone
<1>2. OwnInv' /\ RegInv' /\ OneLoopUntilStopped'
  BY <1>1 DEF IInv, OwnInv, RegInv, OneLoopUntilStopped
<1>3. ASSUME NEW i \in Instance, NEW add \in BOOLEAN, HandleResponse(i, add)
      PROVE  IInv'
  <2>1. recv = Idle /\ instances' = instances /\ ptr' \subseteq Instance
    BY <1>3 DEF HandleResponse, IInv, Types, TypeOK
  <2>2. \/ recv' = Idle
        \/ /\ recv' \in Stage /\ recv'.at # "send" /\ recv'.for = registry
           /\ registry # NoBrowser
    BY <1>3 DEF HandleResponse, IInv, Types, TypeOK, Stage
  <2>3. Types'
    BY <1>1, <2>1, <2>2 DEF IInv, Types, TypeOK
  <2>4. RecvInv'
    BY <1>1, <2>2 DEF IInv, RecvInv, RegInv
  <2>5. ViewInv'
    BY <1>1, <2>1, <2>2 DEF IInv, ViewInv, Pending
  <2> QED
    BY <1>2, <2>3, <2>4, <2>5 DEF IInv
<1>4. CASE HandlePTR \/ SendDone
  <2>1. instances' = instances /\ ptr' = ptr
    BY <1>4 DEF HandlePTR, SendDone
  <2>2. recv \in Stage /\ recv # Idle
    BY <1>4, StageType DEF IInv, HandlePTR, SendDone, Idle
  <2>3. \/ recv' = Idle /\ \A b, c : ~Pending(b, c)
        \/ /\ recv' \in Stage /\ recv'.at # "send" /\ recv'.for = recv.for
           /\ recv.at # "send"
    BY <1>4, <2>2 DEF HandlePTR, SendDone, Stage, Pending
  <2>4. Types'
    BY <1>1, <2>1, <2>3 DEF IInv, Types, TypeOK
  <2>5. RecvInv'
    BY <1>1, <2>2, <2>3 DEF IInv, RecvInv
  <2>6. ViewInv'
    BY <1>1, <2>1, <2>3 DEF IInv, ViewInv, Pending
  <2> QED
    BY <1>2, <2>4, <2>5, <2>6 DEF IInv
<1>5. CASE ChangeInstances
  <2> DEFINE b == recv.for
             i == recv.inst
  <2>1. recv \in Stage /\ recv # Idle /\ recv.at = "write" /\ b \in Browser /\ i \in Instance
    BY <1>5, StageType DEF IInv, ChangeInstances, Idle, Stage
  <2>2. /\ ptr' = ptr
        /\ instances' = [instances EXCEPT ![b] = Applied(@)]
    BY <1>5 DEF ChangeInstances, Applied
  <2>3. \/ recv' = Idle /\ ~recv.add /\ i \notin instances[b]
        \/ recv' = [recv EXCEPT !.at = "send", !.to = listeners[b]]
    BY <1>5 DEF ChangeInstances
  <2>4. listeners[b] \in SUBSET Chan
    BY <2>1 DEF IInv, Types, TypeOK
  <2>5. \/ recv' = Idle /\ ~recv.add /\ i \notin instances[b]
        \/ /\ recv' \in Stage /\ recv' # Idle /\ recv'.at = "send" /\ recv'.for = b
           /\ recv'.to = listeners[b] /\ recv'.add = recv.add /\ recv'.inst = i
    BY <2>1, <2>3, <2>4 DEF Stage, Idle
  <2>6. Types'
    <3>1. instances' \in [Browser -> SUBSET Instance]
      BY <2>1, <2>2 DEF IInv, Types, TypeOK, Applied
    <3> QED
      BY <1>1, <2>2, <2>5, <3>1 DEF IInv, Types, TypeOK
  <2>7. RecvInv'
    BY <1>1, <2>1, <2>5 DEF IInv, RecvInv
  <2>8. ViewInv'
    <3> SUFFICES ASSUME NEW d \in Browser, NEW c \in listeners[d], c \notin lossy
                 PROVE  instances'[d] = IF Pending(d, c)' THEN Applied(view[c])' ELSE view[c]
      BY <1>1 DEF ViewInv
    <3>1. instances[d] = view[c]
      BY <2>1 DEF IInv, ViewInv, Pending
    <3>2. CASE d # b
      BY <2>1, <2>2, <2>5, <3>1, <3>2 DEF IInv, Types, TypeOK, Pending
    <3>3. CASE d = b /\ recv' = Idle
      BY <2>1, <2>2, <2>5, <3>1, <3>3 DEF IInv, Types, TypeOK, Pending, Applied, Idle
    <3>4. CASE d = b /\ recv' # Idle
      <4>1. Pending(d, c)'
        BY <2>5, <3>4 DEF Pending
      <4>2. Applied(view[c])' = Applied(view[c])
        BY <1>1, <2>5, <3>4 DEF Applied
      <4>3. instances'[d] = Applied(instances[d])
        BY <2>1, <2>2, <3>4 DEF IInv, Types, TypeOK
      <4> QED
        BY <3>1, <4>1, <4>2, <4>3
    <3> QED
      BY <3>2, <3>3, <3>4
  <2> QED
    BY <1>2, <2>6, <2>7, <2>8 DEF IInv
<1> QED
  BY <1>3, <1>4, <1>5

\* An event goes to a listener that is open, and is in its view or counted lost.
LEMMA SendStep ==
    ASSUME IInv, NEW c \in Chan, SendEvent(c)
    PROVE  IInv' /\ chan[c].open /\ ~panicked'
<1> DEFINE b == recv.for
           e == [action |-> IF recv.add THEN "add" ELSE "remove", inst |-> recv.inst]
<1>1. recv \in Stage /\ recv # Idle /\ recv.at = "send" /\ b \in Browser /\ c \in recv.to
  BY StageType DEF IInv, SendEvent, Idle, Stage
<1>2. c \in listeners[b] /\ chan[c].owner = b /\ chan[c].open /\ stop[b] # "close"
  BY <1>1 DEF IInv, RecvInv, OwnInv
<1>3. /\ UNCHANGED <<registry, created, running, cancel, starting, loops, listeners,
                     instances, stop, ptr>>
      /\ panicked' = FALSE
  BY <1>2 DEF SendEvent
<1>4. /\ recv' \in Stage /\ recv' # Idle /\ recv'.at = "send" /\ recv'.for = b
      /\ recv'.to = recv.to \ {c} /\ recv'.add = recv.add /\ recv'.inst = recv.inst
  BY <1>1 DEF SendEvent, Stage, Idle
<1>5. \/ /\ Len(chan[c].queue) < Cap
         /\ chan' = [chan EXCEPT ![c].queue = Append(chan[c].queue, e)]
         /\ view' = [view EXCEPT ![c] = Applied(@)] /\ lossy' = lossy
      \/ chan' = chan /\ view' = view /\ lossy' = lossy \cup {c}
  BY DEF SendEvent, Applied
<1>6. /\ chan' \in [Chan -> Channel]
      /\ \A d \in Chan : /\ Len(chan'[d].queue) <= Cap
                         /\ chan'[d].owner = chan[d].owner /\ chan'[d].open = chan[d].open
  <2>0. e \in Event
    <3>1. recv.inst \in Instance
      BY <1>1 DEF Stage
    <3> QED
      BY <3>1 DEF Event
  <2>1. chan[c].queue \in Seq(Event) /\ Len(chan[c].queue) \in Nat /\ e \in Event
    BY <2>0 DEF IInv, Types, TypeOK
  <2> HIDE DEF e
  <2>2. /\ Append(chan[c].queue, e) \in Seq(Event)
        /\ Len(Append(chan[c].queue, e)) = Len(chan[c].queue) + 1
    BY <2>1
  <2>3. Len(chan[c].queue) < Cap => Len(Append(chan[c].queue, e)) <= Cap
    BY <2>1, <2>2, BrowserAssumption
  <2>4. CASE chan' = chan
    BY <2>4 DEF IInv, Types, TypeOK
  <2>5. CASE /\ Len(chan[c].queue) < Cap
             /\ chan' = [chan EXCEPT ![c].queue = Append(chan[c].queue, e)]
    BY <2>2, <2>3, <2>5 DEF IInv, Types, TypeOK, Channel
  <2> QED
    BY <1>5, <2>4, <2>5
<1>7. Types'
  <2>1. view' \in [Chan -> SUBSET Instance] /\ lossy' \subseteq Chan
    <3>1. recv.inst \in Instance
      BY <1>1 DEF Stage
    <3>2. \A S \in SUBSET Instance : Applied(S) \in SUBSET Instance
      BY <3>1 DEF Applied
    <3>3. view \in [Chan -> SUBSET Instance] /\ lossy \subseteq Chan
      BY DEF IInv, Types, TypeOK
    <3>4. view' = view \/ view' = [view EXCEPT ![c] = Applied(view[c])]
      BY <1>5
    <3>5. view' \in [Chan -> SUBSET Instance]
      BY <3>2, <3>3, <3>4
    <3> QED
      BY <1>5, <3>3, <3>5
  <2> QED
    BY <1>3, <1>4, <1>6, <2>1 DEF IInv, Types, TypeOK, Channel
<1>8. OwnInv' /\ RegInv' /\ RecvInv' /\ OneLoopUntilStopped'
  BY <1>1, <1>3, <1>4, <1>6
     DEF IInv, Types, TypeOK, OwnInv, RegInv, RecvInv, OneLoopUntilStopped
<1>9. ViewInv'
  <2> SUFFICES ASSUME NEW d \in Browser, NEW k \in listeners[d], k \notin lossy'
               PROVE  instances[d] = IF Pending(d, k)' THEN Applied(view[k])' ELSE view'[k]
    BY <1>3 DEF ViewInv
  <2>1. /\ k \in Chan /\ k \notin lossy /\ chan[k].owner = d
        /\ instances[d] = IF Pending(d, k) THEN Applied(view[k]) ELSE view[k]
    BY <1>5 DEF IInv, ViewInv, OwnInv, Types, TypeOK
  <2>2. CASE k = c
    <3>1. d = b /\ Pending(d, k) /\ ~Pending(d, k)' /\ view'[k] = Applied(view[k])
      BY <1>1, <1>2, <1>4, <1>5, <2>1, <2>2 DEF Pending, IInv, Types, TypeOK
    <3> QED
      BY <2>1, <3>1
  <2>3. CASE k # c
    <3>1. view'[k] = view[k] /\ (Pending(d, k)' <=> Pending(d, k))
      BY <1>1, <1>4, <1>5, <2>1, <2>3 DEF Pending, IInv, Types, TypeOK
    <3>2. Applied(view[k])' = Applied(view[k])
      BY <1>4, <3>1 DEF Applied
    <3> QED
      BY <2>1, <3>1, <3>2
  <2> QED
    BY <2>2, <2>3
<1> QED
  BY <1>2, <1>3, <1>7, <1>8, <1>9 DEF IInv

\* Every step preserves the invariant.
LEMMA StepIInv == IInv /\ [Next]_vars => IInv'
<1> SUFFICES ASSUME IInv, [Next]_vars PROVE IInv'
  OBVIOUS
<1>1. CASE UNCHANGED vars
  BY <1>1 DEF vars, IInv, Types, TypeOK, OwnInv, RegInv, RecvInv, ViewInv, Pending,
              Applied, OneLoopUntilStopped
<1>2. CASE Next
  <2>1. CASE \E b \in Browser : \/ Browse(b) \/ StartLoop(b) \/ StopBegin(b)
                                \/ StopCancel(b) \/ StopWait(b) \/ StopUnregister(b)
                                \/ BrowseLoop(b)
    BY <2>1, CallStep
  <2>2. CASE \E b \in Browser, c \in Chan : Start(b, c)
    BY <2>2, StartStep
  <2>3. CASE \E b \in Browser : StopClose(b)
    BY <2>3, StopCloseStep
  <2>4. CASE (\E c \in Chan : Consume(c)) \/ (\E i \in Instance : Expire(i))
    BY <2>4, ConsumeStep
  <2>5. CASE \/ \E i \in Instance, add \in BOOLEAN : HandleResponse(i, add)
             \/ HandlePTR \/ ChangeInstances \/ SendDone
    BY <2>5, HandleStep
  <2>6. CASE \E c \in Chan : SendEvent(c)
    BY <2>6, SendStep
  <2> QED
    BY <1>2, <2>1, <2>2, <2>3, <2>4, <2>5, <2>6 DEF Next, StopStep, Notify
<1> QED
  BY <1>1, <1>2

\* Only two steps can panic, and of these the send never does.
LEMMA StepPanic ==
    ASSUME IInv, [Next]_vars
    PROVE  [panicked' => \E b \in Browser : stop[b] = "cancel" /\ cancel[b] = "closed"]_vars
<1> SUFFICES ASSUME Next, panicked'
             PROVE  \E b \in Browser : stop[b] = "cancel" /\ cancel[b] = "closed"
  OBVIOUS
<1>1. ~panicked
  BY DEF Next
<1>2. CASE \E c \in Chan : SendEvent(c)
  BY <1>2, SendStep
<1>3. CASE \E b \in Browser : StopCancel(b)
  BY <1>3 DEF StopCancel
<1>4. CASE panicked' = panicked
  BY <1>1, <1>4
<1> QED
  BY <1>2, <1>3, <1>4 DEF Next, StopStep, Notify, Browse, Start, StartLoop, StopBegin,
     StopWait, StopUnregister, StopClose, BrowseLoop, Consume, HandleResponse, HandlePTR,
     ChangeInstances, SendDone, Expire

-----------------------------------------------------------------------------
\* The invariant holds in every reachable state.
THEOREM Invariance == Spec => []IInv
  BY InitIInv, StepIInv, PTL DEF Spec

\* The state of the browsers is well typed; no channel holds more than Cap events.
THEOREM TypeCorrect == Spec => []TypeOK
<1>1. IInv => TypeOK
  BY DEF IInv, Types
<1> QED
  BY <1>1, Invariance, PTL

\* Until Stop closes b.cancel, a browser that runs has one browseLoop, started
\* or about to be, and one that does not run has none.
THEOREM OneLoop == Spec => []OneLoopUntilStopped
<1>1. IInv => OneLoopUntilStopped
  BY DEF IInv
<1> QED
  BY <1>1, Invariance, PTL

\* What an open channel that has dropped nothing was told since Start adds up to
\* Instances(), whenever recvLoop is between responses.
THEOREM EventsAddUp == Spec => []ViewMatches
<1>1. IInv => ViewMatches
  BY DEF IInv, ViewInv, ViewMatches, Pending
<1> QED
  BY <1>1, Invariance, PTL

\* handlePTR and onRecordRemove never send on a channel that Stop has closed; only a second
\* close(b.cancel) panics.
THEOREM NoSendOnClosed == Spec => PanicOnlyByRestart
<1>1. IInv /\ [Next]_vars =>
        [panicked' => \E b \in Browser : stop[b] = "cancel" /\ cancel[b] = "closed"]_vars
  BY StepPanic
<1> QED
  BY <1>1, Invariance, PTL DEF Spec, PanicOnlyByRestart

=============================================================================
