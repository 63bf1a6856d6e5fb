---------------------------- MODULE MCLatticeLinks ----------------------------
(***************************************************************************)
(* Instances of LatticeLinks for TLC, with two processes.                  *)
(***************************************************************************)
EXTENDS LatticeLinks, TLC

CONSTANTS p1, p2,
          MaxAcks,    \* bound: link acknowledgements handed to UDP
          MaxStrays   \* bound: messages that arrive in another round

TwoProcs == {p1, p2}

\* The proposals of the first round conflict; later everybody proposes the same.
OwnNameFirst ==
  [p \in Proc |-> [r \in 0 .. Rounds - 1 |-> IF r = 0 THEN {p} ELSE {p1}]]

\* Everybody proposes the same: what a message says does not matter to the link.
SameValue == [p \in Proc |-> [r \in 0 .. Rounds - 1 |-> Value]]

Strays(R) == {x \in UNION {R[p] : p \in Proc} : x[1].round # x[2]}

\* Bounds on every step.  A message that arrives in another round is a PROP.
FewAcks == Cardinality(link_acks') <= MaxAcks

FewStrays == /\ Cardinality(Strays(reached')) <= MaxStrays
             /\ \A x \in Strays(reached') : x[1].type = "P"

\* Bound on the states: a crash is combined with neither of the two.
CrashAlone ==
  (\E p \in Proc : ~alive[p]) => link_acks = {} /\ Strays(reached) = {}

\* Bound on the states: in the last round proposals are made but not answered.
LastRoundOpen == \A m \in Fins \cup Acks \cup Nacks : m.round < Rounds - 1

\* A pass acknowledges only once a message of a later round is in the queue.
EarlyAcks ==
  link_acks' # link_acks =>
    \E p \in Proc : \E m \in ack_queue[p] : m.round > round_num[p]

\* Bound on every step: an acceptor that is asked twice gives the same answer.
AnsweredOnce ==
  \A a, b \in (Acks \cup Nacks)' :
    a.src = b.src /\ a.dst = b.dst /\ a.round = b.round /\ a.num = b.num => a = b

=============================================================================
