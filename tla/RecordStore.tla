---------------------------- MODULE RecordStore -----------------------------
(***************************************************************************)
(* What the record cache (src/cache.go) promises to those who look records *)
(* up: how much longer each RDATA is returned for each name and type.      *)
(* Nothing but a received record, an explicit removal and the passage of   *)
(* time changes that; purging and maintenance are invisible.               *)
(***************************************************************************)
EXTENDS Integers

CONSTANTS Name, Type,  \* a cache key is a name and a record type
          Rdata,
          Announcement \* the records that can be announced

Key == Name \X Type

VARIABLE alive   \* alive[k][r]: time units for which r is still returned for k

Init == alive = [k \in Key |-> [r \in Rdata |-> 0]]

\* A record is announced, for as long as its TTL says; one with the cache-flush
\* bit displaces its siblings.
Announce(rr) ==
    alive' = [alive EXCEPT ![rr.key] =
                 [x \in Rdata |-> IF x = rr.rdata THEN rr.ttl
                                  ELSE IF rr.flush THEN 0 ELSE alive[rr.key][x]]]

\* The keys of K are withdrawn as a whole.
Withdraw(K) ==
    alive' = [k \in Key |-> IF k \in K THEN [r \in Rdata |-> 0] ELSE alive[k]]

Elapse ==
    alive' = [k \in Key |-> [r \in Rdata |->
                 IF alive[k][r] > 0 THEN alive[k][r] - 1 ELSE 0]]

Next ==
    \/ \E rr \in Announcement : Announce(rr)
    \/ \E k \in Key : Withdraw({k})
    \/ \E n \in Name : Withdraw({n} \X Type)
    \/ Elapse

Spec == Init /\ [][Next]_alive

=============================================================================
