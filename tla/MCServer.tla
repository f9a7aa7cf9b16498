------------------------------ MODULE MCServer ------------------------------
(* Instances of Server for TLC: which connections exist, which of them share *)
(* a client address, and how many chunks their clients send.                *)
EXTENDS Server

CONSTANTS s1, s2, s3, a1, a2, e1, e2

TwoSocks   == {s1, s2}
ThreeSocks == {s1, s2, s3}
OwnAddr    == [s \in Sock |-> IF s = s1 THEN a1 ELSE a2]
Silent     == [s \in Sock |-> 0]
OneEach    == [s \in Sock |-> 1]
TwoThenOne == [s \in Sock |-> IF s = s1 THEN 2 ELSE 1]
OneAddr    == [s \in Sock |-> a1]
=============================================================================
