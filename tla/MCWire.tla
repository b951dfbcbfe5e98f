------------------------------- MODULE MCWire -------------------------------
(***************************************************************************)
(* Messages as the servers send them: a browse query with a known answer,  *)
(* a probe, an announcement, answers with an NSEC record, a one-shot       *)
(* query, a legacy query, and two that do not comply.                      *)
(***************************************************************************)
EXTENDS Wire

local == <<108>>
svc == <<115>>
SvcType == <<svc, local>>
Instance == <<<<105, 105>>, svc, local>>
Renamed == <<<<105, 106>>, svc, local>>
HostName == <<<<104>>, local>>

PTRof(i) == [ZeroRR EXCEPT !.name = SvcType, !.type = TypePTR, !.class = 1,
                           !.ttl = 75, !.target = i]
SRVof(i) == [ZeroRR EXCEPT !.name = i, !.type = TypeSRV, !.class = 1, !.ttl = 120,
                           !.flush = TRUE, !.srv = <<0, 1, 8080>>, !.target = HostName]
TXTof(i, text) == [ZeroRR EXCEPT !.name = i, !.type = TypeTXT, !.class = 1, !.ttl = 75,
                                 !.flush = TRUE, !.text = text]
Aof(ip) == [ZeroRR EXCEPT !.name = HostName, !.type = TypeA, !.class = 1, !.ttl = 120,
                          !.flush = TRUE, !.ip = ip]
AAAAof(ip) == [Aof(ip) EXCEPT !.type = TypeAAAA]
NSECof(types) == [ZeroRR EXCEPT !.name = HostName, !.type = TypeNSEC, !.class = 1,
                                !.ttl = 120, !.flush = TRUE, !.next = HostName,
                                !.types = types]

Msg(flags, q, an, ns, ar) ==
    [id |-> 0, flags |-> flags, questions |-> q, answers |-> an,
     authorities |-> ns, additionals |-> ar]
Q(name, type, class) == [name |-> name, type |-> type, class |-> class]
ip4 == <<10, 0, 0, 7>>
response == 32768 + 1024

Browse == Msg(0, <<Q(SvcType, TypePTR, 1)>>, <<PTRof(Instance)>>, <<>>, <<>>)
Probing == Msg(0, <<Q(SvcType, 255, 1), Q(Renamed, 255, 1)>>, <<>>,
               <<PTRof(Renamed), SRVof(Renamed), TXTof(Renamed, <<>>)>>, <<>>)
Announcing == Msg(response, <<>>,
                  <<PTRof(Instance), SRVof(Instance),
                    TXTof(Instance, <<<<1, 2>>, <<>>, <<3>>>>), Aof(ip4)>>, <<>>, <<>>)
Addresses == Msg(response, <<>>, <<Aof(Mapped \o ip4), AAAAof(ip4)>>, <<>>,
                 <<NSECof({1, 7, 8, 28, 256, 65279, 65280, 65535})>>)
OneShot == Msg(0, <<Q(HostName, TypeA, 32769), Q(HostName, TypeAAAA, 32769)>>,
               <<>>, <<>>, <<>>)
Legacy == [OneShot EXCEPT !.id = 7]
OddOpcode == [OneShot EXCEPT !.flags = 2048]
OddRCode == [Addresses EXCEPT !.flags = response + 3]
TooLong == Msg(response, <<>>, <<AAAAof(ip4), AAAAof(ip4), AAAAof(ip4), AAAAof(ip4),
                                 AAAAof(ip4)>>, <<>>, <<>>)
LongLabel == Msg(0, <<Q(<<<<1, 2, 3, 4>>>>, 1, 1)>>, <<>>, <<>>, <<>>)

MCMessage == {Browse, Probing, Announcing, Addresses, OneShot, Legacy, OddOpcode,
              OddRCode, TooLong, LongLabel}

\* The hypotheses of the theorems in WireProofs hold of these messages.
ASSUME MCWireAssumption == MessagesFit /\ LoopsAreRefused

=============================================================================
