------------------------- MODULE MCLatticeAgreement -------------------------
(***************************************************************************)
(* Instances of LatticeAgreement for TLC.  Values are the processes        *)
(* themselves: process p proposes {p}, so that no two proposals of a round *)
(* are comparable and every acceptor that sees two of them answers NACK.   *)
(***************************************************************************)
EXTENDS LatticeInvariant, LatticeVerifier, TLC

CONSTANTS p1, p2, p3

TwoProcs == {p1, p2}
ThreeProcs == {p1, p2, p3}

\* Round r of process p: its own name.
OwnName == [p \in Proc |-> [r \in 0 .. Rounds - 1 |-> {p}]]

\* Its own name in the second round; in the others everybody proposes everything.
OwnNameOnce ==
  [p \in Proc |-> [r \in 0 .. Rounds - 1 |-> IF r = 1 THEN {p} ELSE Value]]

\* Everybody proposes the same value: no NACK is ever sent.
SameName == [p \in Proc |-> [r \in 0 .. Rounds - 1 |-> {p1}]]

\* Permuting the processes permutes the values with them.
Permuted == Permutations(Proc)

-----------------------------------------------------------------------------
(* Schedules of the three-process runs: the processes enter the            *)
(* round and propose one after the other before anything is received;      *)
(* every proposal in flight is answered, once, before the next answer is   *)
(* received.  Fairness is that of the code.                                *)

Idle(p) == round_num[p] = 0 /\ ~HasProposed(p)

Unanswered(m, p) == /\ alive[p] /\ recvOn[p] /\ round_num[p] = m.round
                    /\ ~Answered(m, p)

PropInFlight == \E m \in Props, p \in Proc : Unanswered(m, p)

Startup(p) == Idle(p) /\ (MainThread(p) \/ SendThread(p))

Answer(p) == \E m \in Props : Unanswered(m, p) /\ RecvProp(p, m)

Otherwise(p) == /\ ~PropInFlight
                /\ \/ MainThread(p)
                   \/ SendThread(p)
                   \/ \E m \in sent \ Props : Receive(p, m)
                   \/ ReseExit(p)

\* p has broadcast its FIN.
Finished(p) == Fin(p, 0) \in sent

\* Whose turn it is once all have proposed: p1 until it has finished, then p2,
\* then p3 until it stops receiving, then everybody.
Turn(p) == CASE ~Finished(p1) -> p = p1
             [] Finished(p1) /\ ~Finished(p2) -> p = p2
             [] Finished(p1) /\ Finished(p2) -> recvOn[p3] => p = p3

InPhases == \/ Startup(p1)
            \/ ~Idle(p1) /\ Startup(p2)
            \/ ~Idle(p1) /\ ~Idle(p2) /\ Startup(p3)
            \/ /\ \A p \in Proc : ~Idle(p)
               /\ \E p \in Proc : Answer(p) \/ (Turn(p) /\ Otherwise(p))

PhasedSpec == Init /\ [][InPhases]_vars /\ Fairness

\* In these, p3 enters the round first, answers proposals without making one
\* of its own, and crashes at any time; the behaviour is followed until a
\* majority has decided.
MajorityDecided == Cardinality({p \in Proc : Len(output[p]) > 0}) > 1

Proposer(p) == p # p3

WithCrash == \/ StartRound(p3)
             \/ mainPC[p3] = "join" /\ Startup(p1)
             \/ ~Idle(p1) /\ Startup(p2)
             \/ /\ ~Idle(p1) /\ ~Idle(p2) /\ ~MajorityDecided
                /\ \/ Crash(p3)
                   \/ \E p \in Proc : Answer(p)
                   \/ \E p \in Proc : Proposer(p) /\ Otherwise(p)

CrashSpec == Init /\ [][WithCrash]_vars /\ Fairness

=============================================================================
