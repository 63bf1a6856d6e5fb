-------------------------- MODULE LatticeInvariant --------------------------
(***************************************************************************)
(* The inductive invariant of LatticeAgreement: what the messages on the   *)
(* network say about the state of the processes, and the state of one      *)
(* process about the messages it has sent.                                 *)
(***************************************************************************)
EXTENDS LatticeAgreement

\* A proposal belongs to a round its process has left, or to the current one,
\* and is then not newer than the current proposal.
PropInv ==
  \A m \in Props :
    \/ m.round < round_num[m.src]
    \/ /\ m.round = round_num[m.src]
       /\ HasProposed(m.src)
       /\ m.num <= active_proposal_number[m.src]

\* The process, the round and the number identify a proposal.
UniqueProp ==
  \A m, n \in Props :
    m.src = n.src /\ m.round = n.round /\ m.num = n.num => m = n

\* Every ACK and NACK answers a proposal that was made.
AnswerInv == \A a \in Acks \cup Nacks : \E m \in Props : Answers(a, m)

\* While an acceptor is in a round, it holds everything it has ACKed there.
AckInv ==
  \A a \in Acks, m \in Props : Answers(a, m) =>
    \/ a.round < round_num[a.src]
    \/ /\ a.round = round_num[a.src]
       /\ mainPC[a.src] = "join"
       /\ m.val \subseteq accepted_value[a.src]

\* The proposals that one acceptor ACKs in one round form a chain.
ChainInv ==
  \A a, b \in Acks, m, n \in Props :
    a.src = b.src /\ a.round = b.round /\ Answers(a, m) /\ Answers(b, n) =>
      Comparable(m.val, n.val)

\* propose_lattice and the end of the send thread: no state the receive thread
\* could have changed in between.
SendOk(p) ==
  /\ sendPC[p] \in {"number", "propose"} => active[p]
  /\ sendPC[p] \in PreBroadcast \ {"assign"} =>
       proposed_value[p] = Proposal[p][round_num[p]]
  /\ sendPC[p] = "off" => ~active[p]

SendInv == \A p \in Proc : mainPC[p] = "join" => SendOk(p)

\* The counts of a process that has proposed: its ACKs are real; without a NACK
\* its value is the one it broadcast; with one, it still waits for a majority
\* of answers.
ProposerOk(p) ==
  /\ \A q \in ack_count[p] :
       Ack(q, p, round_num[p], active_proposal_number[p]) \in sent
  /\ active[p] /\ nack_count[p] = {} =>
       Prop(p, round_num[p], active_proposal_number[p], proposed_value[p])
         \in sent
  /\ active[p] /\ nack_count[p] # {} =>
       ~Quorum(Cardinality(ack_count[p]) + Cardinality(nack_count[p]))

ProposerInv == \A p \in Proc : HasProposed(p) => ProposerOk(p)

\* A FIN is sent, and counted in a round, only after the decision of that round.
FinInv ==
  /\ \A m \in Fins : Len(output[m.src]) > m.round
  /\ \A p \in Proc : mainPC[p] = "join" =>
       /\ \A q \in fin[p] : Len(output[q]) > round_num[p]
       /\ ~reseOn[p] => Majority(fin[p])

MessageInv == PropInv /\ UniqueProp /\ AnswerInv /\ AckInv /\ ChainInv

\* The inductive invariant of the program: what one thread may conclude from a
\* message another one left behind.  The safety properties follow from it.
IInv == /\ TypeOK
        /\ MessageInv
        /\ SendInv
        /\ ProposerInv
        /\ OutputOrder
        /\ DecidedWasAccepted
        /\ FinInv
        /\ RoundBarrier

-----------------------------------------------------------------------------
(* The values of the messages.                                             *)

\* What has been proposed in each round.
Joint == [r \in Nat |-> UNION {Proposal[q][r] : q \in Proposers(r)}]

\* A proposal contains that of its process and only what was proposed.
PropValues ==
  \A m \in Props : /\ Proposal[m.src][m.round] \subseteq m.val
                   /\ m.val \subseteq Joint[m.round]

\* A NACK brings its receiver something new, which was proposed.
NackValues ==
  \A a \in Nacks : /\ a.val \subseteq Joint[a.round]
                   /\ \A m \in Props : Answers(a, m) => ~(a.val \subseteq m.val)

AcceptedValues ==
  \A p \in Proc : mainPC[p] = "join" => accepted_value[p] \subseteq Joint[round_num[p]]

\* proposed_value contains whatever its process has proposed in the round, and
\* more if that is an older proposal or a NACK to it was counted.
GrowOk(p) ==
  /\ Proposal[p][round_num[p]] \subseteq proposed_value[p]
  /\ proposed_value[p] \subseteq Joint[round_num[p]]
  /\ \A m \in Props : m.src = p /\ m.round = round_num[p] =>
       /\ m.val \subseteq proposed_value[p]
       /\ m.num < active_proposal_number[p] \/ nack_count[p] # {} =>
            m.val # proposed_value[p]

GrowInv == \A p \in Proc : HasProposed(p) => GrowOk(p)

\* With IInv, an inductive invariant from which Validity follows.
ValueInv == /\ ProposalsGrow
            /\ PropValues
            /\ NackValues
            /\ AcceptedValues
            /\ GrowInv

=============================================================================
