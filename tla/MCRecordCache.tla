--------------------------- MODULE MCRecordCache ----------------------------
(***************************************************************************)
(* Instances of RecordCache for TLC.  A time unit stands for five seconds: *)
(* the ticker's ten are Tick = 2.                                          *)
(***************************************************************************)
EXTENDS RecordCache

PTR == <<"n", "shared">>  \* PTR records: no cache-flush bit
A == <<"n", "unique">>    \* addresses, the host's own ones too
SRV == <<"m", "unique">>  \* the SRV record of an instance that is browsed

Rec(k, r, ttl) == [key |-> k, rdata |-> r, ttl |-> ttl, flush |-> k # PTR]

MCHostRecords == <<2>>
MCNoHostRecords == <<>>
MCBrowsed == {SRV}

\* The followed SRV record has the smallest TTL that the ticker can keep up with:
\* a fifth of it is one period.
MCFollowed == <<Rec(SRV, 1, 5 * Tick)>>

\* Two instances share the PTR key; a peer claims an address of the host name.
MCResponse ==
    {<<Rec(PTR, 1, 3), Rec(A, 1, 2)>>, <<Rec(PTR, 2, 2)>>, <<Rec(PTR, 1, 0)>>,
     MCFollowed}
MCFollowedOnly == {MCFollowed}

\* Other hosts ask for n, or for the followed instance in any spelling.
MCObserved == {<<"n", "same">>}
MCObservedFollowed == {"m"} \X Spelling

=============================================================================
