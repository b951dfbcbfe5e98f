----------------------------- MODULE NameClaims -----------------------------
(***************************************************************************)
(* What probing promises between servers that want one instance name: a    *)
(* server tries "X", "X (2)", "X (3)" ... in this order, moves on only     *)
(* when a rival with greater records contends for the name it tries, and   *)
(* claims the name it has arrived at for good.  It does NOT promise that   *)
(* the names claimed are different.                                        *)
(***************************************************************************)
EXTENDS Naturals

CONSTANTS Server, MaxSuffix

VARIABLES trying,   \* suffix number of the name each server tries or holds
          claimed,  \* servers that hold the name they tried
          gone,     \* servers whose process is gone
          beats     \* <<w, v, c>>: a record of w beats one of v; the two meet
                    \* when both try one name, or (c = "host") always

claims == <<trying, claimed, gone, beats>>

Init ==
    /\ trying = [v \in Server |-> 1]
    /\ claimed = {}
    /\ gone = {}
    /\ beats \subseteq Server \X Server \X {"name", "host"}
    /\ \A v \in Server : \A c \in {"name", "host"} : <<v, v, c>> \notin beats

\* A rival that has tried the name v tries now, or that has the host name of v.
Rivals(v) ==
    {w \in Server : \/ <<w, v, "name">> \in beats /\ trying[w] >= trying[v]
                    \/ <<w, v, "host">> \in beats}

MoveOn(v) ==
    /\ v \notin claimed \cup gone
    /\ Rivals(v) # {}
    /\ trying[v] < MaxSuffix
    /\ trying' = [trying EXCEPT ![v] = @ + 1]
    /\ UNCHANGED <<claimed, gone, beats>>

Claim(v) ==
    /\ v \notin claimed \cup gone
    /\ claimed' = claimed \cup {v}
    /\ UNCHANGED <<trying, gone, beats>>

\* The process dies when it claims a name that it has just been denied.
Crash(v) ==
    /\ v \notin claimed \cup gone
    /\ Rivals(v) # {}
    /\ gone' = gone \cup {v}
    /\ UNCHANGED <<trying, claimed, beats>>

Next == \E v \in Server : MoveOn(v) \/ Claim(v) \/ Crash(v)

Spec == Init /\ [][Next]_claims

=============================================================================
