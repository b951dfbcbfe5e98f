---------------------------- MODULE MCTwoServers ----------------------------
(***************************************************************************)
(* Configurations of two servers: ordered alike by all records; ordered    *)
(* one way by SRV and the other way by TXT; and one host name for two      *)
(* hosts.                                                                  *)
(***************************************************************************)
EXTENDS TwoServers, TLC

CONSTANTS v1, v2, h1, h2

Records(srv, txt, a) ==
    [t \in RecordType |-> CASE t = "SRV" -> srv [] t = "TXT" -> txt [] t = "A" -> a]

Alike == [rdata |-> (v1 :> Records(<<1>>, <<1>>, <<1>>))
                    @@ (v2 :> Records(<<2>>, <<1, 0>>, <<2>>)),
          host |-> (v1 :> h1) @@ (v2 :> h2)]

Crosswise == [Alike EXCEPT !.rdata[v1].TXT = <<2>>]

SharedHost == [rdata |-> (v1 :> Records(<<1>>, <<1>>, <<1>>))
                         @@ (v2 :> Records(<<1>>, <<1>>, <<2>>)),
               host |-> (v1 :> h1) @@ (v2 :> h1)]

\* One server alone, with a service that has no text.
NoText == [rdata |-> v1 :> Records(<<1>>, <<>>, <<1>>), host |-> v1 :> h1]

MCConfig == {Alike, Crosswise, SharedHost}
MCNoText == {NoText}

=============================================================================
