--------------------------- MODULE MCRegistration ---------------------------
(***************************************************************************)
(* Instances of Registration for TLC: two services that compete for the    *)
(* same base name, one whose records sort before what the peers probe with *)
(* and one whose records sort after it.                                    *)
(***************************************************************************)
EXTENDS Registration

CONSTANTS s1, s2

MCRdata == [s \in {s1, s2} |-> [t \in RecordType |-> IF s = s1 THEN 1 ELSE 3]]

\* One service alone.
MCRdataOne == [s \in {s1} |-> [t \in RecordType |-> 1]]

=============================================================================
