---------------------- MODULE MCUniformReliableBroadcast ----------------------
(***************************************************************************)
(* Instances of UniformReliableBroadcast for TLC, with three processes.    *)
(***************************************************************************)
EXTENDS UniformReliableBroadcast, TLC

CONSTANTS p1, p2, p3, t1,
          MaxAcks  \* bound: link acknowledgements that arrive

ThreeProcs == {p1, p2, p3}

\* One message, of p1.
OneSource == {<<p1, t1>>}

\* Two processes broadcast the same text.
SameText == {<<p1, t1>>, <<p2, t1>>}

\* The link acknowledgements that have arrived.
Erased == {a \in link_acks : <<a[1], a[3]>> \notin not_delivered[a[2]]}

FewAcks == Cardinality(Erased') <= MaxAcks

=============================================================================
