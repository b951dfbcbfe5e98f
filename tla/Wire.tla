-------------------------------- MODULE Wire --------------------------------
(***************************************************************************)
(* A packet's way from Message.Pack of one server to handlePacket of       *)
(* another: the codec and the transport together.  In a behaviour the link *)
(* carries one packet, any number of times: a message as it was packed, or *)
(* cut off, or with a compression pointer that points to itself.           *)
(***************************************************************************)
EXTENDS Transport, Codec

CONSTANTS Message,   \* the messages a peer may pack
          Plain      \* the one of them that the life of a server is explored with

\* To the transport a packet is opaque, and there is one.
ASSUME WireAssumption == Plain \in Message /\ Packet = {"air"}

VARIABLES
    message,   \* the message that was packed
    damaged,   \* is the packet another than was packed?
    air,       \* the packet: its octets, and where it comes from
    focus,     \* bound: what is explored with the rest held back (Held)
    outcome    \* what handlePacket did with the last packet

wireVars == <<message, damaged, air, focus>>
vars == <<transportVars, wireVars, outcome>>

\* The sender's port is the mDNS port; its address is on a local subnet.
Source == [mdnsPort : BOOLEAN, local : BOOLEAN]
Peer == [mdnsPort |-> TRUE, local |-> TRUE]

CutOff(data) == {SubSeq(data, 1, n) : n \in 0 .. Len(data) - 1}
Misdirected(data) ==
    {[data EXCEPT ![i + 1] = i - 1] : i \in {i \in DOMAIN data : data[i] = pointerMask}}

WireInit ==
    /\ TransportInit
    /\ outcome = [kind |-> "none"]
    /\ message \in {m \in Message : Pack(m).ok}
    /\ LET data == Pack(message).data IN
       \/ /\ damaged = FALSE
          /\ air \in [data : {data}, from : Source]
          /\ focus \in {"packets", "closing", "sending"}
          /\ focus # "packets" => air.from = Peer /\ message = Plain
       \/ /\ damaged = TRUE /\ focus = "packets"
          /\ air \in [data : CutOff(data) \cup Misdirected(data), from : {Peer}]

\* handlePacket: what does not parse is dropped; an ID other than 0 is a legacy
\* query if it comes from another port, and is looked at before compliance and
\* source are.
outcomeOf(p) ==
    LET Act(m) ==
            IF m.id # 0
            THEN (IF IsQuery(m) /\ ~p.from.mdnsPort THEN "legacy" ELSE "ignored")
            ELSE IF ~IsValidmDNS(m) \/ ~p.from.local THEN "ignored"
            ELSE IF IsQuery(m) THEN "query" ELSE "response"
        Outcome(parsed) ==
            IF ~parsed.ok THEN [kind |-> "malformed"]
            ELSE [kind |-> Act(parsed.msg), msg |-> parsed.msg]
    IN Outcome(UnpackMessage(p.data))

\* Many packets with no more of a life than Start; the whole life with one
\* packet and no sends; sends with no packets.
Held ==
    /\ focus = "packets" => UNCHANGED <<closeVars, writeVars, regVars>>
    /\ focus = "closing" => UNCHANGED writeVars
    /\ focus = "sending" => UNCHANGED regVars
    /\ focus # "closing" => sock'["v6"] = "none"

Receive ==
    /\ ~panicked
    /\ focus # "sending"
    /\ \E s \in Socket : Arrive(s, "air")
    /\ UNCHANGED <<wireVars, outcome>>

Handle ==
    /\ ~panicked
    /\ HandlePacket
    /\ outcome' = outcomeOf(air)
    /\ UNCHANGED wireVars

Live ==
    /\ Lifecycle
    /\ Held
    /\ UNCHANGED <<wireVars, outcome>>

WireNext == Receive \/ Handle \/ Live

WireSpec == WireInit /\ [][WireNext]_vars

\* The fairness of the transport: in its actions packets are opaque.
FairWireSpec == WireSpec /\ TransportFairness

-----------------------------------------------------------------------------
(* Records and messages as Go's types have them. *)

Number15 == 0 .. 32767
Number16 == 0 .. 65535
FitName == {name \in Name : Len(name) <= MaxJumps}

Fields == [name : FitName, type : Number16, class : Number15, ttl : Nat, flush : BOOLEAN,
           ip : Seq(Octet), target : FitName, srv : [1 .. 3 -> Number16],
           text : Seq(Seq(Octet)), next : FitName, types : SUBSET Nat, raw : Seq(Octet)]

Known == NameTypes \cup {TypeA, TypeAAAA, TypeSRV, TypeTXT, TypeNSEC}

\* The fields of a ResourceRecord; those that the type does not use, and Pack does
\* not write, are empty.  A name has no more labels than readName follows pointers:
\* neither end checks that.
Fits(rr) ==
    /\ rr \in Fields
    /\ Wide32(rr.ttl)
    /\ rr.type \notin {TypeA, TypeAAAA} => rr.ip = <<>>
    /\ rr.type \notin NameTypes \cup {TypeSRV} => rr.target = <<>>
    /\ rr.type # TypeSRV => rr.srv = <<0, 0, 0>>
    /\ rr.type # TypeTXT => rr.text = <<>>
    /\ rr.type # TypeNSEC => rr.next = <<>> /\ rr.types = {}
    /\ rr.type \in Known => rr.raw = <<>>

FitRR == {rr \in Fields : Fits(rr)}
FitQuestion == [name : FitName, type : Number16, class : Number16]
FitMessage == [id : Number16, flags : Number16, questions : Seq(FitQuestion),
               answers : Seq(FitRR), authorities : Seq(FitRR), additionals : Seq(FitRR)]

\* What the theorems about this module assume of the messages: they have the types of
\* the code, ...
MessagesFit == \A m \in Message : Pack(m).ok => m \in FitMessage

\* ... and where an octet of theirs is that of a pointer, it is one.
LoopsAreRefused ==
    \A m \in Message : Pack(m).ok =>
        \A data \in Misdirected(Pack(m).data) : ~UnpackMessage(data).ok

\* What a receiver is to make of a record: an address has the size of its type,
\* no text is one empty string, and types of the last window are not told.
Received(rr) ==
    [rr EXCEPT !.ip = CASE rr.type = TypeA -> To4(@)
                        [] rr.type = TypeAAAA -> To16(@)
                        [] OTHER -> @,
               !.text = IF rr.type = TypeTXT /\ @ = <<>> THEN << <<>> >> ELSE @,
               !.types = {t \in @ : t < 65280}]

ReceivedMessage(m) ==
    LET all(rrs) == [i \in DOMAIN rrs |-> Received(rrs[i])] IN
    [m EXCEPT !.answers = all(@), !.authorities = all(@), !.additionals = all(@)]

\* A message that the server acts upon is the one that a peer packed, field by
\* field, whatever names in it were compressed; of a packet that is cut off
\* anywhere, or whose name never ends, no part is acted upon.
HandledWasSent ==
    outcome.kind \in {"query", "response", "legacy"} =>
        ~damaged /\ outcome.msg = ReceivedMessage(message)

\* Every message that Pack accepts can be unpacked by the receiver, also where
\* suffixes lie beyond the reach of a pointer.
PackedIsParsed == outcome.kind = "malformed" => damaged

=============================================================================
