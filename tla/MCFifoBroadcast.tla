---------------------------- MODULE MCFifoBroadcast ----------------------------
(***************************************************************************)
(* Instances of FifoBroadcast for TLC.                                     *)
(***************************************************************************)
EXTENDS FifoBroadcast

CONSTANTS p1, p2

TwoProcs == {p1, p2}

\* p1 broadcasts enough for one of its messages to be overtaken by two others.
OneMore == [p \in Proc |-> IF p = p1 THEN 3 ELSE 1]

OneSource == [p \in Proc |-> IF p = p1 THEN 3 ELSE 0]

=============================================================================
