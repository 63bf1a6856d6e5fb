----------------------- MODULE LatticeAgreementProofs -----------------------
(***************************************************************************)
(* Proofs about LatticeAgreement, for any set of processes, any proposals, *)
(* any number of rounds and any number of crashes.                         *)
(***************************************************************************)
EXTENDS LatticeInvariant, FiniteSetTheorems, TLAPS

-----------------------------------------------------------------------------
(* Type correctness.                                                       *)

\* The messages the handlers build are messages.
LEMMA MessageTypes ==
  ASSUME NEW p \in Proc, NEW q \in Proc, NEW r \in Nat, NEW k \in Nat,
         NEW v \in SUBSET Value
  PROVE  /\ Prop(p, r, k, v) \in PropMessage
         /\ Ack(p, q, r, k) \in AckMessage
         /\ Nack(p, q, r, k, v) \in NackMessage
         /\ Fin(p, r) \in FinMessage
BY DEF Prop, Ack, Nack, Fin, PropMessage, AckMessage, NackMessage, FinMessage

\* What the fields of a message are, by its type.
LEMMA MessageFields ==
  ASSUME NEW m \in Message
  PROVE  /\ m.src \in Proc
         /\ m.round \in Nat
         /\ m.type = "P" => m \in PropMessage /\ m.num \in Nat /\ m.val \in SUBSET Value
         /\ m.type = "A" => m \in AckMessage /\ m.num \in Nat /\ m.dst \in Proc
         /\ m.type = "N" => /\ m \in NackMessage /\ m.num \in Nat /\ m.dst \in Proc
                            /\ m.val \in SUBSET Value
         /\ m.type = "F" => m \in FinMessage
BY DEF Message, PropMessage, AckMessage, NackMessage, FinMessage

\* A round that has begun has a proposal.
LEMMA ProposalType ==
  ASSUME NEW p \in Proc, NEW r \in 0 .. Rounds, r < Rounds
  PROVE  Proposal[p][r] \in SUBSET Value
<1>1. r \in 0 .. Rounds - 1
  BY RoundsAssumption
<1> QED BY <1>1, ProposalAssumption

\* The reply to a proposal is a message.
LEMMA ReplyType ==
  ASSUME TypeOK, NEW p \in Proc, NEW m \in Message, m.type = "P"
  PROVE  /\ Reply(p, m) \in Message
         /\ NewAccepted(p, m.val) \in SUBSET Value
<1>1. /\ m.src \in Proc /\ m.num \in Nat /\ m.val \in SUBSET Value
  BY MessageFields
<1>2. round_num[p] \in Nat /\ accepted_value[p] \in SUBSET Value
  BY RoundsAssumption DEF TypeOK
<1>3. NewAccepted(p, m.val) \in SUBSET Value
  BY <1>1, <1>2 DEF NewAccepted
<1> QED BY <1>1, <1>2, <1>3, MessageTypes DEF Reply, Message

\* The initial state has the types.
LEMMA TypeInit == Init => TypeOK
BY RoundsAssumption DEF Init, TypeOK

\* Every step keeps the types; only the steps that send need the lemmas above.
LEMMA TypeNext == TypeOK /\ [Next]_vars => TypeOK'
<1> SUFFICES ASSUME TypeOK, [Next]_vars PROVE TypeOK'
  OBVIOUS
<1> USE RoundsAssumption
<1>a. CASE UNCHANGED vars
  BY <1>a DEF TypeOK, vars, threadVars, proposerVars, countVars, Message
<1>b. ASSUME NEW p \in Proc, StartRound(p) PROVE TypeOK'
  BY <1>b DEF TypeOK, StartRound, MoreRounds, InitProposer, InitAcceptor,
              InitFin, PreBroadcast
<1>c. ASSUME NEW p \in Proc, JoinThreads(p) PROVE TypeOK'
  BY <1>c DEF TypeOK, JoinThreads, proposerVars, countVars
<1>d. ASSUME NEW p \in Proc, SendThread(p) PROVE TypeOK'
  <2>0. mainPC[p] = "join"
    BY <1>d DEF SendThread, SendStep, ProposeAssign, ProposeActivate,
                ProposeNumber, ProposeBroadcast, SendFin, TypeOK
  <2>1. round_num[p] < Rounds /\ round_num[p] \in 0 .. Rounds
    BY <2>0 DEF TypeOK
  <2>2. Proposal[p][round_num[p]] \in SUBSET Value
    BY <2>1, ProposalType
  <2>3. CASE ProposeAssign(p)
    BY <2>0, <2>2, <2>3
    DEF TypeOK, ProposeAssign, SendStep, countVars, PreBroadcast
  <2>4. CASE ProposeActivate(p)
    BY <2>0, <2>4 DEF TypeOK, ProposeActivate, SendStep, countVars, PreBroadcast
  <2>5. CASE ProposeNumber(p)
    BY <2>0, <2>5 DEF TypeOK, ProposeNumber, SendStep, PreBroadcast
  <2>6. CASE ProposeBroadcast(p)
    <3>1. Prop(p, round_num[p], active_proposal_number[p],
               Proposal[p][round_num[p]]) \in Message
      BY <2>1, <2>2, MessageTypes DEF TypeOK, Message
    <3> QED BY <2>0, <2>6, <3>1
            DEF TypeOK, ProposeBroadcast, SendStep, PreBroadcast
  <2>7. CASE SendFin(p)
    <3>1. Fin(p, round_num[p]) \in Message
      BY <2>1, MessageTypes DEF Message
    <3> QED BY <2>0, <2>7, <3>1
            DEF TypeOK, SendFin, SendStep, PreBroadcast, proposerVars, countVars
  <2> QED BY <1>d, <2>3, <2>4, <2>5, <2>6, <2>7 DEF SendThread
<1>e. ASSUME NEW p \in Proc, NEW m \in sent, Receive(p, m) PROVE TypeOK'
  <2>0. /\ m \in Message
        /\ m.src \in Proc
        /\ m.type = "N" => m.val \in SUBSET Value
        /\ recvOn[p]
        /\ mainPC[p] = "join"
        /\ round_num[p] \in Nat
    BY <1>e, MessageFields
    DEF Receive, RecvProp, RecvAckDecide, DecideLattice, RecvAckCount, RecvNack, RecvFin,
        CurrentAnswer, Receives, TypeOK
  <2>1. CASE RecvProp(p, m)
    <3>1. m.type = "P"
      BY <2>1 DEF RecvProp, Receives
    <3>2. Reply(p, m) \in Message /\ NewAccepted(p, m.val) \in SUBSET Value
      BY <2>0, <3>1, ReplyType
    <3> QED BY <2>1, <3>2
            DEF TypeOK, RecvProp, threadVars, proposerVars, countVars
  <2>2. CASE RecvAckDecide(p, m)
    <3>1. output' \in [Proc -> Seq(SUBSET Value)]
      BY <2>2 DEF TypeOK, RecvAckDecide, DecideLattice
    <3>2. /\ ack_count' \in [Proc -> SUBSET Proc]
          /\ fin' \in [Proc -> SUBSET Proc]
          /\ active' \in [Proc -> BOOLEAN]
      BY <2>0, <2>2 DEF TypeOK, RecvAckDecide, DecideLattice
    <3>3. UNCHANGED <<alive, mainPC, sendPC, recvOn, reseOn, round_num,
                      active_proposal_number, nack_count, proposed_value,
                      accepted_value, sent>>
      BY <2>2 DEF RecvAckDecide, DecideLattice, threadVars
    <3> QED BY <3>1, <3>2, <3>3 DEF TypeOK
  <2>3. ASSUME NEW acks \in SUBSET Proc, NEW nacks \in SUBSET Proc,
               NEW value \in SUBSET Value,
               CheckNackCount(p, acks, nacks, value)
        PROVE  /\ active_proposal_number' \in [Proc -> Nat]
               /\ ack_count' \in [Proc -> SUBSET Proc]
               /\ nack_count' \in [Proc -> SUBSET Proc]
               /\ sent' \subseteq Message
    <3>1. Prop(p, round_num[p], active_proposal_number[p] + 1, value) \in Message
      BY <2>0, MessageTypes DEF TypeOK, Message
    <3>2. CASE MustRepropose(p, acks, nacks)
      <4>1. sent' = sent \cup {Prop(p, round_num[p],
                                    active_proposal_number[p] + 1, value)}
        BY <2>3, <3>2 DEF CheckNackCount
      <4>2. sent' \subseteq Message
        BY <3>1, <4>1 DEF TypeOK
      <4>3. /\ active_proposal_number' =
                  [active_proposal_number EXCEPT ![p] = @ + 1]
            /\ ack_count' = [ack_count EXCEPT ![p] = {}]
            /\ nack_count' = [nack_count EXCEPT ![p] = {}]
        BY <2>3, <3>2 DEF CheckNackCount
      <4> QED BY <4>2, <4>3 DEF TypeOK
    <3>3. CASE ~MustRepropose(p, acks, nacks)
      BY <2>3, <3>3 DEF CheckNackCount, TypeOK
    <3> QED BY <3>2, <3>3
  <2>4. CASE RecvAckCount(p, m)
    <3>1. /\ active_proposal_number' \in [Proc -> Nat]
          /\ ack_count' \in [Proc -> SUBSET Proc]
          /\ nack_count' \in [Proc -> SUBSET Proc]
          /\ sent' \subseteq Message
      <4>1. /\ ack_count[p] \cup {m.src} \in SUBSET Proc
            /\ nack_count[p] \in SUBSET Proc
            /\ proposed_value[p] \in SUBSET Value
        BY <2>0 DEF TypeOK
      <4> QED BY <2>3, <2>4, <4>1 DEF RecvAckCount
    <3> QED BY <2>4, <3>1 DEF TypeOK, RecvAckCount, threadVars
  <2>5. CASE RecvNack(p, m)
    <3>1. m.type = "N"
      BY <2>5 DEF RecvNack, CurrentAnswer, Receives
    <3>2. /\ nack_count[p] \cup {m.src} \in SUBSET Proc
          /\ ack_count[p] \in SUBSET Proc
          /\ proposed_value[p] \cup m.val \in SUBSET Value
      BY <2>0, <3>1 DEF TypeOK
    <3>3. /\ active_proposal_number' \in [Proc -> Nat]
          /\ ack_count' \in [Proc -> SUBSET Proc]
          /\ nack_count' \in [Proc -> SUBSET Proc]
          /\ sent' \subseteq Message
      BY <2>3, <2>5, <3>2 DEF RecvNack
    <3> QED BY <2>5, <3>2, <3>3 DEF TypeOK, RecvNack, threadVars
  <2>6. CASE RecvFin(p, m)
    BY <2>0, <2>6
    DEF TypeOK, RecvFin, proposerVars, countVars
  <2> QED BY <1>e, <2>1, <2>2, <2>4, <2>5, <2>6 DEF Receive
<1>f. ASSUME NEW p \in Proc, ReseExit(p) PROVE TypeOK'
  BY <1>f DEF TypeOK, ReseExit, proposerVars, countVars
<1>g. ASSUME NEW p \in Proc, Crash(p) PROVE TypeOK'
  BY <1>g DEF TypeOK, Crash, threadVars, proposerVars, countVars
<1>h. ASSUME NEW p \in Proc, NEW m \in sent, RecvOtherRound(p, m) PROVE TypeOK'
  BY <1>h DEF TypeOK, RecvOtherRound, proposerVars, countVars
<1> QED BY <1>a, <1>b, <1>c, <1>d, <1>e, <1>f, <1>g, <1>h
        DEF Next, MainThread, RecvThread

\* TypeOK is an invariant: threads run only inside a round that has a proposal,
\* and round_num never passes the number of proposals.
THEOREM TypeCorrect == Spec => []TypeOK
BY TypeInit, TypeNext, PTL DEF Spec

-----------------------------------------------------------------------------
(* Quorums.                                                                *)

\* A larger set of processes is a majority too.
LEMMA MajorityGrows ==
  ASSUME NEW S \in SUBSET Proc, NEW T \in SUBSET Proc, S \subseteq T, Majority(S)
  PROVE  Majority(T)
<1>1. IsFiniteSet(T)
  BY ProcAssumption, FS_Subset
<1>2. Cardinality(S) <= Cardinality(T) /\ IsFiniteSet(S)
  BY <1>1, FS_Subset
<1>3. Cardinality(S) \in Nat /\ Cardinality(T) \in Nat /\ Cardinality(Proc) \in Nat
  BY <1>1, <1>2, ProcAssumption, FS_CardinalityType
<1>4. Cardinality(Proc) \div 2 \in Nat
  BY <1>3
<1> QED BY <1>2, <1>3, <1>4 DEF Majority, Quorum

\* Two majorities have a process in common.
LEMMA MajoritiesMeet ==
  ASSUME NEW S \in SUBSET Proc, NEW T \in SUBSET Proc, Majority(S), Majority(T)
  PROVE  S \cap T # {}
<1>1. IsFiniteSet(S) /\ IsFiniteSet(T) /\ IsFiniteSet(S \cup T)
  BY ProcAssumption, FS_Subset
<1>2. /\ Cardinality(S) \in Nat /\ Cardinality(T) \in Nat
      /\ Cardinality(S \cup T) \in Nat /\ Cardinality(Proc) \in Nat
  BY <1>1, ProcAssumption, FS_CardinalityType
<1>3. Cardinality(S \cup T) <= Cardinality(Proc)
  BY ProcAssumption, FS_Subset
<1>4. Cardinality(S \cup T) =
        Cardinality(S) + Cardinality(T) - Cardinality(S \cap T)
  BY <1>1, FS_Union
<1>5. Cardinality(S) + Cardinality(T) > Cardinality(Proc)
  BY <1>2 DEF Majority, Quorum
<1>6. SUFFICES ASSUME S \cap T = {} PROVE FALSE
  OBVIOUS
<1>7. Cardinality(S \cap T) = 0
  BY <1>6, FS_EmptySet
<1> QED BY <1>2, <1>3, <1>4, <1>5, <1>7

\* Adding one process to a set adds at most one to its size.
LEMMA AddOne ==
  ASSUME NEW S \in SUBSET Proc, NEW x \in Proc
  PROVE  /\ Cardinality(S) \in Nat
         /\ Cardinality(S \cup {x}) \in Nat
         /\ Cardinality(S \cup {x}) <= Cardinality(S) + 1
<1>1. IsFiniteSet(S)
  BY ProcAssumption, FS_Subset
<1>2. IsFiniteSet(S \cup {x}) /\ Cardinality(S) \in Nat
  BY <1>1, FS_AddElement, FS_CardinalityType
<1> QED BY <1>1, <1>2, FS_AddElement, FS_CardinalityType

\* A process that finds a majority of ACKs has counted no NACK.
LEMMA NoNackAtDecision ==
  ASSUME TypeOK, ProposerInv, NEW p \in Proc, NEW x \in Proc, HasProposed(p),
         MustDecide(p, ack_count[p] \cup {x})
  PROVE  nack_count[p] = {}
<1>1. SUFFICES ASSUME nack_count[p] # {} PROVE FALSE
  OBVIOUS
<1>2. ack_count[p] \in SUBSET Proc /\ nack_count[p] \in SUBSET Proc
  BY DEF TypeOK
<1>3. ~Quorum(Cardinality(ack_count[p]) + Cardinality(nack_count[p]))
  BY <1>1 DEF ProposerInv, ProposerOk, MustDecide
<1>4. IsFiniteSet(nack_count[p])
  BY <1>2, ProcAssumption, FS_Subset
<1>5. Cardinality(nack_count[p]) \in Nat /\ Cardinality(nack_count[p]) # 0
  BY <1>1, <1>4, FS_CardinalityType, FS_EmptySet
<1>6. Cardinality(Proc) \in Nat /\ Cardinality(Proc) \div 2 \in Nat
  BY ProcAssumption, FS_CardinalityType
<1>7. Quorum(Cardinality(ack_count[p] \cup {x}))
  BY DEF MustDecide, Majority
<1> QED BY <1>2, <1>3, <1>5, <1>6, <1>7, AddOne DEF Quorum

-----------------------------------------------------------------------------
(* What a step does to the network and to the round of a process.          *)

\* The state of p moves forward within its round, or p goes to the next one.
Advances(p) ==
  \/ /\ round_num'[p] = round_num[p]
     /\ mainPC[p] = "join" => /\ mainPC'[p] = "join"
                              /\ accepted_value[p] \subseteq accepted_value'[p]
     /\ HasProposed(p) =>
          /\ HasProposed(p)'
          /\ active_proposal_number[p] <= active_proposal_number'[p]
  \/ round_num'[p] = round_num[p] + 1

SendsProp(m) == /\ sent' = sent \cup {m}
                /\ m.round = round_num[m.src]
                /\ HasProposed(m.src)'
                /\ m.num = active_proposal_number'[m.src]
                /\ \A n \in Props : ~( /\ n.src = m.src
                                       /\ n.round = m.round
                                       /\ n.num = m.num)

SendsAck(a) == /\ sent' = sent \cup {a}
               /\ a.round = round_num[a.src]
               /\ mainPC'[a.src] = "join"
               /\ \E m \in Props : /\ Answers(a, m)
                                   /\ accepted_value[a.src] \subseteq m.val
                                   /\ accepted_value'[a.src] = m.val

SendsNack(a) == /\ sent' = sent \cup {a}
                /\ \E m \in Props : Answers(a, m)

SendsFin(m) == /\ sent' = sent \cup {m}
               /\ m.round = round_num[m.src]
               /\ HasDecided(m.src)

MessageStep == \/ UNCHANGED sent
               \/ /\ UNCHANGED round_num
                  /\ \/ \E m \in PropMessage : SendsProp(m)
                     \/ \E a \in AckMessage : SendsAck(a)
                     \/ \E a \in NackMessage : SendsNack(a)
                     \/ \E m \in FinMessage : SendsFin(m)

\* No proposal of the current round exists before it is broadcast.
LEMMA NoPropBeforeBroadcast ==
  ASSUME PropInv, TypeOK, NEW p \in Proc, ~HasProposed(p), NEW m \in Props,
         m.src = p
  PROVE  m.round < round_num[p]
BY DEF PropInv

\* Whoever receives an answer to its current proposal has proposed.
LEMMA AnsweredHasProposed ==
  ASSUME TypeOK, PropInv, AnswerInv, NEW p \in Proc,
         NEW a \in Acks \cup Nacks, a.dst = p, a.round = round_num[p]
  PROVE  HasProposed(p)
<1>1. PICK m \in Props : Answers(a, m)
  BY DEF AnswerInv
<1>2. m.src = p /\ m.round = round_num[p]
  BY <1>1 DEF Answers
<1>3. round_num[p] \in Nat
  BY RoundsAssumption DEF TypeOK
<1> QED BY <1>2, <1>3 DEF PropInv

\* The same, for the handlers of ACK and NACK.
LEMMA ReceiverHasProposed ==
  ASSUME TypeOK, PropInv, AnswerInv, NEW p \in Proc, NEW m \in sent,
         NEW t \in {"A", "N"}, CurrentAnswer(p, m, t)
  PROVE  /\ HasProposed(p)
         /\ m \in Acks \cup Nacks
         /\ m.dst = p /\ m.src \in Proc
         /\ m.round = round_num[p]
         /\ m.num = active_proposal_number[p]
<1>1. /\ m.type = t /\ m.round = round_num[p] /\ m.dst = p
      /\ m.num = active_proposal_number[p]
  BY DEF CurrentAnswer, Receives, AddressedTo
<1>2. m \in Acks \cup Nacks
  BY <1>1 DEF Acks, Nacks
<1>3. m.src \in Proc
  BY MessageFields DEF TypeOK
<1> QED BY <1>1, <1>2, <1>3, AnsweredHasProposed

\* A new proposal after NACKs has a number of its own.
LEMMA ReproposeStep ==
  ASSUME TypeOK, PropInv, NEW p \in Proc, HasProposed(p), NEW value \in SUBSET Value,
         NEW acks, NEW nacks, CheckNackCount(p, acks, nacks, value),
         UNCHANGED threadVars
  PROVE  /\ \/ UNCHANGED sent
            \/ \E m \in PropMessage : SendsProp(m)
         /\ \A q \in Proc : active_proposal_number[q] <= active_proposal_number'[q]
<1>0. /\ round_num[p] \in Nat
      /\ active_proposal_number \in [Proc -> Nat]
  BY RoundsAssumption DEF TypeOK
<1>1. CASE ~MustRepropose(p, acks, nacks)
  BY <1>0, <1>1 DEF CheckNackCount
<1>2. CASE MustRepropose(p, acks, nacks)
  <2>1. PICK m \in PropMessage :
          m = Prop(p, round_num[p], active_proposal_number[p] + 1, value)
    BY <1>0, MessageTypes
  <2>2. /\ sent' = sent \cup {m}
        /\ active_proposal_number' = [active_proposal_number EXCEPT ![p] = @ + 1]
    BY <1>2, <2>1 DEF CheckNackCount
  <2>3. m.src = p /\ m.round = round_num[p] /\ m.num = active_proposal_number[p] + 1
    BY <2>1 DEF Prop
  <2>4. HasProposed(m.src)'
    BY <2>3 DEF HasProposed, threadVars, PreBroadcast
  <2>5. \A n \in Props : n.src = p /\ n.round = round_num[p] => n.num # m.num
    <3> TAKE n \in Props
    <3> HAVE n.src = p /\ n.round = round_num[p]
    <3>0. n \in Message /\ n.type = "P"
      BY DEF Props, TypeOK
    <3>1. n.num <= active_proposal_number[p] /\ n.num \in Nat
      BY <1>0, <3>0, MessageFields DEF PropInv
    <3> QED BY <1>0, <2>3, <3>1
  <2>6. SendsProp(m)
    BY <1>0, <2>2, <2>3, <2>4, <2>5 DEF SendsProp
  <2>7. \A q \in Proc : active_proposal_number[q] <= active_proposal_number'[q]
    BY <1>0, <2>2
  <2> QED BY <2>1, <2>6, <2>7
<1> QED BY <1>1, <1>2

\* Every step sends at most one message, of one of these kinds, and moves the
\* processes forward.
LEMMA StepFacts ==
  ASSUME TypeOK, PropInv, AnswerInv, SendInv, [Next]_vars
  PROVE  MessageStep /\ \A p \in Proc : Advances(p)
<1> USE RoundsAssumption
<1>0. /\ \A p \in Proc : round_num[p] \in Nat /\ active_proposal_number[p] \in Nat
      /\ \A p \in Proc : sendPC[p] \in PreBroadcast => ~HasProposed(p)
  BY DEF TypeOK, HasProposed
<1>a. CASE UNCHANGED vars
  BY <1>0, <1>a DEF MessageStep, Advances, vars, threadVars, proposerVars,
                    countVars, HasProposed, PreBroadcast
<1>b. ASSUME NEW p \in Proc, StartRound(p) PROVE MessageStep /\ \A q \in Proc : Advances(q)
  <2>1. mainPC[p] = "loop" /\ ~HasProposed(p)
    BY <1>b DEF StartRound, HasProposed
  <2>2. \A q \in Proc : Advances(q)
    BY <1>0, <1>b, <2>1 DEF TypeOK, StartRound, InitProposer, InitAcceptor,
                            Advances, HasProposed, PreBroadcast
  <2> QED BY <1>b, <2>2 DEF StartRound, MessageStep
<1>c. ASSUME NEW p \in Proc, JoinThreads(p) PROVE MessageStep /\ \A q \in Proc : Advances(q)
  BY <1>0, <1>c DEF TypeOK, JoinThreads, proposerVars, countVars, Advances,
                    HasProposed, PreBroadcast, MessageStep
<1>d. ASSUME NEW p \in Proc, SendThread(p) PROVE MessageStep /\ \A q \in Proc : Advances(q)
  <2>1. \A q \in Proc : /\ round_num'[q] = round_num[q]
                        /\ mainPC'[q] = mainPC[q]
                        /\ accepted_value'[q] = accepted_value[q]
    BY <1>d DEF SendThread, SendStep, ProposeAssign, ProposeActivate,
                ProposeNumber, ProposeBroadcast, SendFin
  <2>2. \A q \in Proc : HasProposed(q) =>
          /\ HasProposed(q)'
          /\ active_proposal_number[q] <= active_proposal_number'[q]
    <3>1. \A q \in Proc : HasProposed(q) => HasProposed(q)'
      BY <1>0, <1>d DEF TypeOK, HasProposed, PreBroadcast, SendThread, SendStep,
            ProposeAssign, ProposeActivate, ProposeNumber, ProposeBroadcast,
            SendFin
    <3>2. \A q \in Proc : active_proposal_number[q] <= active_proposal_number'[q]
      BY <1>0, <1>d DEF TypeOK, SendThread, ProposeAssign, ProposeActivate,
            ProposeNumber, ProposeBroadcast, SendFin, proposerVars, countVars
    <3> QED BY <3>1, <3>2
  <2>3. \A q \in Proc : Advances(q)
    BY <2>1, <2>2 DEF Advances
  <2>4. CASE ProposeAssign(p) \/ ProposeActivate(p) \/ ProposeNumber(p)
    BY <2>3, <2>4 DEF ProposeAssign, ProposeActivate, ProposeNumber, MessageStep
  <2>5. CASE ProposeBroadcast(p)
    <3>1. mainPC[p] = "join" /\ ~HasProposed(p)
      BY <1>0, <2>5 DEF TypeOK, ProposeBroadcast, SendStep, PreBroadcast
    <3>2. Proposal[p][round_num[p]] \in SUBSET Value
      BY <3>1, ProposalType DEF TypeOK
    <3>3. PICK m \in PropMessage :
            m = Prop(p, round_num[p], active_proposal_number[p],
                     Proposal[p][round_num[p]])
      BY <1>0, <3>2, MessageTypes
    <3>4. /\ m.src = p /\ m.round = round_num[p]
          /\ m.num = active_proposal_number'[p]
      BY <2>5, <3>3 DEF Prop, ProposeBroadcast
    <3>5. HasProposed(m.src)'
      BY <2>5, <3>1, <3>4 DEF TypeOK, ProposeBroadcast, SendStep, HasProposed, PreBroadcast
    <3>6. \A n \in Props : ~(n.src = m.src /\ n.round = m.round)
      BY <1>0, <3>1, <3>4, NoPropBeforeBroadcast
    <3>7. SendsProp(m)
      BY <2>5, <3>3, <3>4, <3>5, <3>6 DEF SendsProp, ProposeBroadcast
    <3> QED BY <2>3, <2>5, <3>7 DEF MessageStep, ProposeBroadcast, SendStep
  <2>6. CASE SendFin(p)
    <3>1. PICK m \in FinMessage : m = Fin(p, round_num[p])
      BY <1>0, MessageTypes
    <3>2. HasDecided(p)
      BY <2>6 DEF SendFin, SendStep, HasDecided, HasProposed, PreBroadcast, TypeOK
    <3>3. SendsFin(m)
      BY <2>6, <3>1, <3>2 DEF SendsFin, SendFin, Fin
    <3> QED BY <2>3, <2>6, <3>3 DEF MessageStep, SendFin, SendStep
  <2> QED BY <1>d, <2>4, <2>5, <2>6 DEF SendThread
<1>e. ASSUME NEW p \in Proc, NEW m \in sent, Receive(p, m)
      PROVE  MessageStep /\ \A q \in Proc : Advances(q)
  <2>0. m \in Message /\ mainPC[p] = "join" /\ m.src \in Proc
    BY <1>e, MessageFields
    DEF Receive, RecvProp, RecvAckDecide, DecideLattice, RecvAckCount, RecvNack, RecvFin,
        CurrentAnswer, Receives, TypeOK
  <2>1. CASE RecvProp(p, m)
    <3>1. /\ m \in Props /\ m.type = "P" /\ m.round = round_num[p]
          /\ m.num \in Nat /\ m.val \in SUBSET Value
      BY <2>0, <2>1, MessageFields DEF RecvProp, Receives, Props
    <3>2. /\ accepted_value' = [accepted_value EXCEPT ![p] = NewAccepted(p, m.val)]
          /\ sent' = sent \cup {Reply(p, m)}
          /\ UNCHANGED <<threadVars, proposerVars>>
      BY <2>1 DEF RecvProp
    <3>3. accepted_value[p] \subseteq NewAccepted(p, m.val)
      BY DEF NewAccepted, Accepts
    <3>4. \A q \in Proc : Advances(q)
      BY <1>0, <3>2, <3>3 DEF TypeOK, Advances, threadVars, proposerVars,
                              countVars, HasProposed, PreBroadcast
    <3>5. CASE Accepts(p, m.val)
      <4>1. PICK a \in AckMessage : a = Ack(p, m.src, round_num[p], m.num)
        BY <1>0, <2>0, <3>1, MessageTypes
      <4>2. a.src = p /\ a.round = round_num[p] /\ Answers(a, m)
        BY <3>1, <4>1 DEF Ack, Answers
      <4>3. accepted_value[p] \subseteq m.val /\ accepted_value'[p] = m.val
        BY <3>2, <3>5 DEF NewAccepted, Accepts, TypeOK
      <4>4. SendsAck(a)
        BY <2>0, <3>1, <3>2, <3>5, <4>1, <4>2, <4>3
        DEF SendsAck, Reply, threadVars
      <4> QED BY <3>2, <3>4, <4>4 DEF MessageStep, threadVars
    <3>6. CASE ~Accepts(p, m.val)
      <4>1. NewAccepted(p, m.val) \in SUBSET Value
        BY <2>0, <3>1, ReplyType
      <4>2. PICK a \in NackMessage :
              a = Nack(p, m.src, round_num[p], m.num, NewAccepted(p, m.val))
        BY <1>0, <2>0, <3>1, <4>1, MessageTypes
      <4>3. Answers(a, m)
        BY <3>1, <4>2 DEF Nack, Answers
      <4>4. SendsNack(a)
        BY <3>1, <3>2, <3>6, <4>2, <4>3 DEF SendsNack, Reply
      <4> QED BY <3>2, <3>4, <4>4 DEF MessageStep, threadVars
    <3> QED BY <3>5, <3>6
  <2>2. CASE RecvAckDecide(p, m)
    BY <1>0, <2>2 DEF RecvAckDecide, DecideLattice, threadVars, TypeOK, Advances, MessageStep, HasProposed, PreBroadcast
  <2>3. CASE RecvAckCount(p, m)
    <3>1. HasProposed(p)
      BY <2>3, ReceiverHasProposed DEF RecvAckCount
    <3>2. proposed_value[p] \in SUBSET Value
      BY DEF TypeOK
    <3>3. UNCHANGED <<threadVars, accepted_value>>
      BY <2>3 DEF RecvAckCount
    <3>4. /\ UNCHANGED sent \/ \E x \in PropMessage : SendsProp(x)
          /\ \A q \in Proc : active_proposal_number[q] <= active_proposal_number'[q]
      BY <2>3, <3>1, <3>2, <3>3, ReproposeStep DEF RecvAckCount
    <3> QED BY <3>3, <3>4 DEF Advances, MessageStep, threadVars, HasProposed, PreBroadcast
  <2>4. CASE RecvNack(p, m)
    <3>1. HasProposed(p)
      BY <2>4, ReceiverHasProposed DEF RecvNack
    <3>2. proposed_value[p] \cup m.val \in SUBSET Value
      BY <2>0, <2>4, MessageFields DEF TypeOK, RecvNack, CurrentAnswer, Receives
    <3>3. UNCHANGED <<threadVars, accepted_value>>
      BY <2>4 DEF RecvNack
    <3>4. /\ UNCHANGED sent \/ \E x \in PropMessage : SendsProp(x)
          /\ \A q \in Proc : active_proposal_number[q] <= active_proposal_number'[q]
      BY <2>4, <3>1, <3>2, <3>3, ReproposeStep DEF RecvNack
    <3> QED BY <3>3, <3>4 DEF Advances, MessageStep, threadVars, HasProposed, PreBroadcast
  <2>5. CASE RecvFin(p, m)
    BY <1>0, <2>5 DEF RecvFin, TypeOK, Advances, MessageStep, HasProposed,
                      PreBroadcast, proposerVars, countVars
  <2> QED BY <1>e, <2>1, <2>2, <2>3, <2>4, <2>5 DEF Receive
<1>f. ASSUME NEW p \in Proc, ReseExit(p) PROVE MessageStep /\ \A q \in Proc : Advances(q)
  BY <1>0, <1>f DEF ReseExit, TypeOK, Advances, MessageStep, HasProposed,
                    PreBroadcast, proposerVars, countVars
<1>g. ASSUME NEW p \in Proc, Crash(p) PROVE MessageStep /\ \A q \in Proc : Advances(q)
  BY <1>0, <1>g DEF Crash, TypeOK, Advances, MessageStep, HasProposed,
                    PreBroadcast, threadVars, proposerVars, countVars
<1>h. ASSUME NEW p \in Proc, NEW m \in sent, RecvOtherRound(p, m)
      PROVE  MessageStep /\ \A q \in Proc : Advances(q)
  BY <1>0, <1>h DEF RecvOtherRound, TypeOK, Advances, MessageStep, HasProposed,
                    PreBroadcast, proposerVars, countVars
<1> QED BY <1>a, <1>b, <1>c, <1>d, <1>e, <1>f, <1>g, <1>h
        DEF Next, MainThread, RecvThread

-----------------------------------------------------------------------------
(* The messages keep saying what they say.                                 *)

\* The sets of messages by type, after one more message.
LEMMA SendOne ==
  ASSUME NEW m, sent' = sent \cup {m}
  PROVE  /\ Props' = IF m.type = "P" THEN Props \cup {m} ELSE Props
         /\ Acks' = IF m.type = "A" THEN Acks \cup {m} ELSE Acks
         /\ Nacks' = IF m.type = "N" THEN Nacks \cup {m} ELSE Nacks
         /\ Fins' = IF m.type = "F" THEN Fins \cup {m} ELSE Fins
BY DEF Props, Acks, Nacks, Fins

\* The type of a message, by its set.
LEMMA TypeField ==
  /\ \A m \in PropMessage : m.type = "P"
  /\ \A m \in AckMessage : m.type = "A"
  /\ \A m \in NackMessage : m.type = "N"
  /\ \A m \in FinMessage : m.type = "F"
BY DEF PropMessage, AckMessage, NackMessage, FinMessage

\* A step adds at most one message to one of the four sets.
LEMMA NetworkStep ==
  ASSUME MessageStep
  PROVE  \/ Props' = Props /\ Acks' = Acks /\ Nacks' = Nacks /\ Fins' = Fins
         \/ /\ UNCHANGED round_num
            /\ \/ /\ Acks' = Acks /\ Nacks' = Nacks /\ Fins' = Fins
                  /\ \E m \in PropMessage : SendsProp(m) /\ Props' = Props \cup {m}
               \/ /\ Props' = Props /\ Nacks' = Nacks /\ Fins' = Fins
                  /\ \E a \in AckMessage : SendsAck(a) /\ Acks' = Acks \cup {a}
               \/ /\ Props' = Props /\ Acks' = Acks /\ Fins' = Fins
                  /\ \E a \in NackMessage : SendsNack(a) /\ Nacks' = Nacks \cup {a}
               \/ /\ Props' = Props /\ Acks' = Acks /\ Nacks' = Nacks
                  /\ \E m \in FinMessage : SendsFin(m) /\ Fins' = Fins \cup {m}
<1>1. CASE UNCHANGED sent
  BY <1>1 DEF Props, Acks, Nacks, Fins
<1>2. ASSUME NEW m \in PropMessage, SendsProp(m)
      PROVE  /\ Props' = Props \cup {m}
             /\ Acks' = Acks /\ Nacks' = Nacks /\ Fins' = Fins
  BY <1>2, SendOne, TypeField DEF SendsProp
<1>3. ASSUME NEW a \in AckMessage, SendsAck(a)
      PROVE  /\ Acks' = Acks \cup {a}
             /\ Props' = Props /\ Nacks' = Nacks /\ Fins' = Fins
  BY <1>3, SendOne, TypeField DEF SendsAck
<1>4. ASSUME NEW a \in NackMessage, SendsNack(a)
      PROVE  /\ Nacks' = Nacks \cup {a}
             /\ Props' = Props /\ Acks' = Acks /\ Fins' = Fins
  BY <1>4, SendOne, TypeField DEF SendsNack
<1>5. ASSUME NEW m \in FinMessage, SendsFin(m)
      PROVE  /\ Fins' = Fins \cup {m}
             /\ Props' = Props /\ Acks' = Acks /\ Nacks' = Nacks
  BY <1>5, SendOne, TypeField DEF SendsFin
<1> QED BY <1>1, <1>2, <1>3, <1>4, <1>5 DEF MessageStep

\* The messages of each set are of the right type.
LEMMA NetworkTypes ==
  ASSUME TypeOK
  PROVE  /\ Props \subseteq PropMessage /\ Acks \subseteq AckMessage
         /\ Nacks \subseteq NackMessage /\ Fins \subseteq FinMessage
         /\ \A m \in Props : /\ m.src \in Proc /\ m.round \in Nat /\ m.num \in Nat
                              /\ m.val \in SUBSET Value
         /\ \A a \in Acks : a.src \in Proc /\ a.round \in Nat
<1>1. \A m \in sent : m \in Message
  BY DEF TypeOK
<1> QED BY <1>1, MessageFields DEF Props, Acks, Nacks, Fins

\* A new proposal is of its process's current round and carries its current number.
LEMMA PropInvNext ==
  ASSUME TypeOK, PropInv, MessageStep, \A p \in Proc : Advances(p), TypeOK'
  PROVE  PropInv'
<1>1. SUFFICES ASSUME NEW m \in Props'
               PROVE  \/ m.round < round_num'[m.src]
                      \/ /\ m.round = round_num'[m.src]
                         /\ HasProposed(m.src)'
                         /\ m.num <= active_proposal_number'[m.src]
  BY DEF PropInv
<1>2. /\ \A p \in Proc : round_num[p] \in Nat /\ round_num'[p] \in Nat
      /\ \A p \in Proc : /\ active_proposal_number[p] \in Nat
                         /\ active_proposal_number'[p] \in Nat
  BY RoundsAssumption DEF TypeOK
<1>3. CASE m \in Props
  <2>1. m.src \in Proc /\ m.round \in Nat /\ m.num \in Nat
    BY <1>3, NetworkTypes
  <2>2. Advances(m.src)
    BY <2>1
  <2> QED BY <1>2, <1>3, <2>1, <2>2 DEF PropInv, Advances
<1>4. CASE m \notin Props
  <2>1. UNCHANGED round_num /\ SendsProp(m) /\ m \in PropMessage
    BY <1>1, <1>4, NetworkStep
  <2>2. m.src \in Proc
    BY <2>1 DEF PropMessage
  <2> QED BY <1>2, <2>1, <2>2 DEF SendsProp
<1> QED BY <1>3, <1>4

\* A new proposal has the number of none before it.
LEMMA UniquePropNext ==
  ASSUME UniqueProp, MessageStep
  PROVE  UniqueProp'
<1>1. CASE Props' = Props
  BY <1>1 DEF UniqueProp
<1>2. ASSUME NEW m \in PropMessage, SendsProp(m), Props' = Props \cup {m}
      PROVE  UniqueProp'
  BY <1>2 DEF UniqueProp, SendsProp
<1> QED BY <1>1, <1>2, NetworkStep

\* Proposals stay on the network, so answers keep the one they answer.
LEMMA AnswerInvNext ==
  ASSUME AnswerInv, MessageStep
  PROVE  AnswerInv'
<1>1. Props \subseteq Props'
  BY NetworkStep
<1>2. ASSUME NEW a \in (Acks \cup Nacks)', a \notin Acks \cup Nacks
      PROVE  \E m \in Props : Answers(a, m)
  BY <1>2, NetworkStep DEF SendsAck, SendsNack
<1> QED BY <1>1, <1>2 DEF AnswerInv, Answers

\* An answer that was on the network does not answer a new proposal.
LEMMA OldAnswer ==
  ASSUME AnswerInv, MessageStep, NEW a \in Acks, NEW m \in Props', Answers(a, m)
  PROVE  m \in Props
<1>1. PICK n \in Props : Answers(a, n)
  BY DEF AnswerInv
<1>2. n.src = m.src /\ n.round = m.round /\ n.num = m.num
  BY <1>1 DEF Answers
<1> QED BY <1>1, <1>2, NetworkStep DEF SendsProp

\* A new ACK answers one proposal only, which its sender now holds as accepted.
LEMMA NewAck ==
  ASSUME UniqueProp, MessageStep, NEW a \in Acks', a \notin Acks,
         NEW m \in Props', Answers(a, m)
  PROVE  /\ m \in Props /\ a \in AckMessage
         /\ UNCHANGED round_num
         /\ a.round = round_num[a.src]
         /\ mainPC'[a.src] = "join"
         /\ accepted_value[a.src] \subseteq m.val
         /\ accepted_value'[a.src] = m.val
         /\ Acks' = Acks \cup {a}
<1>1. /\ a \in AckMessage /\ SendsAck(a)
      /\ UNCHANGED round_num
      /\ Props' = Props /\ Acks' = Acks \cup {a}
  BY NetworkStep
<1>2. PICK n \in Props : /\ Answers(a, n)
                         /\ accepted_value[a.src] \subseteq n.val
                         /\ accepted_value'[a.src] = n.val
  BY <1>1 DEF SendsAck
<1>3. n = m
  BY <1>1, <1>2 DEF UniqueProp, Answers
<1> QED BY <1>1, <1>2, <1>3 DEF SendsAck

\* An acceptor keeps holding what it has ACKed, and holds what it ACKs.
LEMMA AckInvNext ==
  ASSUME TypeOK, TypeOK', UniqueProp, AnswerInv, AckInv, MessageStep,
         \A p \in Proc : Advances(p)
  PROVE  AckInv'
<1>1. SUFFICES ASSUME NEW a \in Acks', NEW m \in Props', Answers(a, m)
               PROVE  \/ a.round < round_num'[a.src]
                      \/ /\ a.round = round_num'[a.src]
                         /\ mainPC'[a.src] = "join"
                         /\ m.val \subseteq accepted_value'[a.src]
  BY DEF AckInv, Answers
<1>2. CASE a \in Acks
  <2>1. m \in Props
    BY <1>1, <1>2, OldAnswer
  <2>2. a.src \in Proc /\ a.round \in Nat
    BY <1>2, NetworkTypes
  <2>3. Advances(a.src)
    BY <2>2
  <2>4. round_num[a.src] \in Nat /\ round_num'[a.src] \in Nat
    BY <2>2, RoundsAssumption DEF TypeOK
  <2> QED BY <1>1, <1>2, <2>1, <2>2, <2>3, <2>4 DEF AckInv, Advances
<1>3. CASE a \notin Acks
  BY <1>1, <1>3, NewAck
<1> QED BY <1>2, <1>3

\* An acceptor that ACKs a proposal has ACKed only smaller ones in the round.
LEMMA ChainInvNext ==
  ASSUME TypeOK, TypeOK', MessageInv, MessageStep
  PROVE  ChainInv'
<1>0. PropInv /\ UniqueProp /\ AnswerInv /\ AckInv /\ ChainInv
  BY DEF MessageInv
<1>1. SUFFICES ASSUME NEW a \in Acks', NEW b \in Acks', NEW m \in Props', NEW n \in Props',
                      a.src = b.src, a.round = b.round, Answers(a, m), Answers(b, n)
               PROVE  Comparable(m.val, n.val)
  BY DEF ChainInv, Answers, Comparable
<1>2. ASSUME NEW x \in Acks', x \notin Acks, NEW y \in Acks,
             NEW k \in Props', NEW l \in Props',
             x.src = y.src, x.round = y.round, Answers(x, k), Answers(y, l)
      PROVE  l.val \subseteq k.val
  <2>1. /\ x.round = round_num[x.src] /\ x.src \in Proc
        /\ accepted_value[x.src] \subseteq k.val
    BY <1>0, <1>2, NewAck DEF AckMessage
  <2>2. l \in Props
    BY <1>0, <1>2, OldAnswer
  <2>3. round_num[x.src] \in Nat
    BY <2>1, RoundsAssumption DEF TypeOK
  <2>4. \/ y.round < round_num[y.src]
        \/ l.val \subseteq accepted_value[y.src]
    BY <1>0, <1>2, <2>2 DEF AckInv
  <2> QED BY <1>2, <2>1, <2>3, <2>4
<1>3. CASE a \in Acks /\ b \in Acks
  BY <1>0, <1>1, <1>3, OldAnswer DEF ChainInv
<1>4. CASE a \notin Acks /\ b \in Acks
  BY <1>1, <1>2, <1>4 DEF Comparable
<1>5. CASE a \in Acks /\ b \notin Acks
  BY <1>1, <1>2, <1>5 DEF Comparable
<1>6. CASE a \notin Acks /\ b \notin Acks
  <2>1. accepted_value'[a.src] = m.val /\ accepted_value'[b.src] = n.val
    BY <1>0, <1>1, <1>6, NewAck
  <2> QED BY <1>1, <2>1 DEF Comparable
<1> QED BY <1>3, <1>4, <1>5, <1>6

\* The statements about messages are kept by every step.
LEMMA MessageInvNext ==
  ASSUME TypeOK, TypeOK', MessageInv, MessageStep, \A p \in Proc : Advances(p)
  PROVE  MessageInv'
BY PropInvNext, UniquePropNext, AnswerInvNext, AckInvNext, ChainInvNext
DEF MessageInv

-----------------------------------------------------------------------------
(* The state of the proposer.                                              *)

\* The send thread and the handlers of the receive thread do not disturb each
\* other: until the proposal is out, no handler changes the proposer's state.
LEMMA SendInvNext ==
  ASSUME TypeOK, PropInv, AnswerInv, SendInv, [Next]_vars
  PROVE  SendInv'
<1> USE DEF PreBroadcast
<1>a. CASE UNCHANGED vars
  BY <1>a DEF SendInv, SendOk, vars, threadVars, proposerVars, countVars
<1>b. ASSUME NEW p \in Proc, StartRound(p) PROVE SendInv'
  BY <1>b DEF TypeOK, SendInv, SendOk, StartRound, InitProposer
<1>c. ASSUME NEW p \in Proc, JoinThreads(p) PROVE SendInv'
  BY <1>c DEF TypeOK, SendInv, SendOk, JoinThreads, proposerVars, countVars
<1>d. ASSUME NEW p \in Proc, SendThread(p) PROVE SendInv'
  <2>1. CASE ProposeAssign(p)
    BY <2>1 DEF TypeOK, SendInv, SendOk, ProposeAssign, SendStep, countVars
  <2>2. CASE ProposeActivate(p)
    BY <2>2 DEF TypeOK, SendInv, SendOk, ProposeActivate, SendStep, countVars
  <2>3. CASE ProposeNumber(p)
    BY <2>3 DEF TypeOK, SendInv, SendOk, ProposeNumber, SendStep
  <2>4. CASE ProposeBroadcast(p)
    BY <2>4 DEF TypeOK, SendInv, SendOk, ProposeBroadcast, SendStep
  <2>5. CASE SendFin(p)
    BY <2>5 DEF TypeOK, SendInv, SendOk, SendFin, SendStep, proposerVars, countVars
  <2> QED BY <1>d, <2>1, <2>2, <2>3, <2>4, <2>5 DEF SendThread
<1>e. ASSUME NEW p \in Proc, NEW m \in sent, Receive(p, m) PROVE SendInv'
  <2>1. CASE RecvProp(p, m)
    BY <2>1 DEF SendInv, SendOk, RecvProp, threadVars, proposerVars, countVars
  <2>2. CASE RecvAckDecide(p, m)
    <3>1. HasProposed(p)
      BY <2>2, ReceiverHasProposed DEF RecvAckDecide, DecideLattice
    <3> QED BY <2>2, <3>1 DEF TypeOK, SendInv, SendOk, RecvAckDecide, DecideLattice, threadVars, HasProposed
  <2>3. CASE RecvAckCount(p, m)
    BY <2>3 DEF SendInv, SendOk, RecvAckCount, threadVars
  <2>4. CASE RecvNack(p, m)
    <3>1. HasProposed(p)
      BY <2>4, ReceiverHasProposed DEF RecvNack
    <3> QED BY <2>4, <3>1 DEF TypeOK, SendInv, SendOk, RecvNack, HasProposed, threadVars
  <2>5. CASE RecvFin(p, m)
    BY <2>5 DEF SendInv, SendOk, RecvFin, proposerVars, countVars
  <2> QED BY <1>e, <2>1, <2>2, <2>3, <2>4, <2>5 DEF Receive
<1>f. ASSUME NEW p \in Proc, ReseExit(p) PROVE SendInv'
  BY <1>f DEF SendInv, SendOk, ReseExit, proposerVars, countVars
<1>g. ASSUME NEW p \in Proc, Crash(p) PROVE SendInv'
  BY <1>g DEF SendInv, SendOk, Crash, threadVars, proposerVars, countVars
<1>h. ASSUME NEW p \in Proc, NEW m \in sent, RecvOtherRound(p, m) PROVE SendInv'
  BY <1>h DEF SendInv, SendOk, RecvOtherRound, proposerVars, countVars
<1> QED BY <1>a, <1>b, <1>c, <1>d, <1>e, <1>f, <1>g, <1>h
        DEF Next, MainThread, RecvThread

\* The part of the state of q that ProposerOk is about does not change.
Unaffected(q) == /\ mainPC'[q] = mainPC[q] /\ sendPC'[q] = sendPC[q]
                 /\ round_num'[q] = round_num[q] /\ active'[q] = active[q]
                 /\ active_proposal_number'[q] = active_proposal_number[q]
                 /\ ack_count'[q] = ack_count[q] /\ nack_count'[q] = nack_count[q]
                 /\ proposed_value'[q] = proposed_value[q]

\* A step that leaves the proposer's state alone and only adds to the network keeps
\* what is said of it.
LEMMA ProposerFrame ==
  ASSUME ProposerInv, sent \subseteq sent', NEW q \in Proc, Unaffected(q)
  PROVE  HasProposed(q)' => ProposerOk(q)'
<1>1. HasProposed(q)' = HasProposed(q)
  BY DEF Unaffected, HasProposed, PreBroadcast
<1>2. ASSUME ProposerOk(q) PROVE ProposerOk(q)'
  BY <1>2 DEF ProposerOk, Unaffected, Prop, Ack, Quorum
<1> QED BY <1>1, <1>2 DEF ProposerInv

\* The counts after an answer that does not decide.
LEMMA CountStep ==
  ASSUME TypeOK, NEW p \in Proc, NEW acks \in SUBSET Proc, NEW nacks \in SUBSET Proc,
         NEW value \in SUBSET Value,
         CheckNackCount(p, acks, nacks, value), UNCHANGED <<round_num, active>>,
         proposed_value'[p] = value,
         \A q \in acks : Ack(q, p, round_num[p], active_proposal_number[p]) \in sent,
         active[p] /\ nacks = {} =>
           Prop(p, round_num[p], active_proposal_number[p], value) \in sent
  PROVE  /\ ProposerOk(p)'
         /\ \A q \in Proc \ {p} :
              /\ active_proposal_number'[q] = active_proposal_number[q]
              /\ ack_count'[q] = ack_count[q] /\ nack_count'[q] = nack_count[q]
<1>1. CASE MustRepropose(p, acks, nacks)
  <2>1. /\ active_proposal_number' = [active_proposal_number EXCEPT ![p] = @ + 1]
        /\ ack_count' = [ack_count EXCEPT ![p] = {}]
        /\ nack_count' = [nack_count EXCEPT ![p] = {}]
        /\ sent' = sent \cup {Prop(p, round_num[p],
                                   active_proposal_number[p] + 1, value)}
    BY <1>1 DEF CheckNackCount
  <2>2. /\ active_proposal_number'[p] = active_proposal_number[p] + 1
        /\ ack_count'[p] = {} /\ nack_count'[p] = {}
    BY <2>1 DEF TypeOK
  <2>3. ProposerOk(p)'
    BY <2>1, <2>2 DEF ProposerOk, Prop
  <2> QED BY <2>1, <2>3 DEF TypeOK
<1>2. CASE ~MustRepropose(p, acks, nacks)
  <2>1. /\ ack_count' = [ack_count EXCEPT ![p] = acks]
        /\ nack_count' = [nack_count EXCEPT ![p] = nacks]
        /\ UNCHANGED <<active_proposal_number, sent>>
    BY <1>2 DEF CheckNackCount
  <2>2. ack_count'[p] = acks /\ nack_count'[p] = nacks
    BY <2>1 DEF TypeOK
  <2>3. active[p] /\ nacks # {} => ~Quorum(Cardinality(acks) + Cardinality(nacks))
    BY <1>2 DEF MustRepropose
  <2>4. ProposerOk(p)'
    BY <2>1, <2>2, <2>3 DEF ProposerOk, Prop, Ack, Quorum
  <2> QED BY <2>1, <2>4 DEF TypeOK
<1> QED BY <1>1, <1>2

\* The counts, the current proposal and the answers on the network agree.
LEMMA ProposerInvNext ==
  ASSUME TypeOK, MessageInv, SendInv, ProposerInv, [Next]_vars, sent \subseteq sent'
  PROVE  ProposerInv'
<1>0. PropInv /\ AnswerInv
  BY DEF MessageInv
<1>1. SUFFICES ASSUME NEW q \in Proc, HasProposed(q)' PROVE ProposerOk(q)'
  BY DEF ProposerInv
<1>2. SUFFICES Unaffected(q) \/ ProposerOk(q)'
  BY <1>1, ProposerFrame
<1>a. CASE UNCHANGED vars
  BY <1>a DEF Unaffected, vars, threadVars, proposerVars, countVars
<1>b. ASSUME NEW p \in Proc, StartRound(p) PROVE Unaffected(q)
  <2>1. q # p
    BY <1>1, <1>b DEF TypeOK, StartRound, HasProposed, PreBroadcast
  <2> QED BY <1>b, <2>1 DEF TypeOK, Unaffected, StartRound, InitProposer
<1>c. ASSUME NEW p \in Proc, JoinThreads(p) PROVE Unaffected(q)
  <2>1. q # p
    BY <1>1, <1>c DEF TypeOK, JoinThreads, HasProposed
  <2> QED BY <1>c, <2>1 DEF TypeOK, Unaffected, JoinThreads, proposerVars, countVars
<1>d. ASSUME NEW p \in Proc, SendThread(p), q # p PROVE Unaffected(q)
  BY <1>d DEF TypeOK, Unaffected, SendThread, SendStep, ProposeAssign,
     ProposeActivate, ProposeNumber, ProposeBroadcast, SendFin, proposerVars, countVars
<1>e. CASE SendThread(q)
  <2>1. CASE ProposeAssign(q) \/ ProposeActivate(q) \/ ProposeNumber(q)
    BY <1>1, <2>1 DEF TypeOK, ProposeAssign, ProposeActivate, ProposeNumber,
                      SendStep, HasProposed, PreBroadcast
  <2>2. CASE ProposeBroadcast(q)
    <3>1. sendPC[q] = "propose" /\ mainPC[q] = "join"
      BY <2>2 DEF TypeOK, ProposeBroadcast, SendStep, PreBroadcast
    <3>2. proposed_value[q] = Proposal[q][round_num[q]]
      BY <3>1 DEF SendInv, SendOk, PreBroadcast
    <3>3. ack_count'[q] = {} /\ nack_count'[q] = {}
      BY <2>2 DEF TypeOK, ProposeBroadcast
    <3>4. /\ Prop(q, round_num[q], active_proposal_number[q], proposed_value[q]) \in sent'
          /\ UNCHANGED <<round_num, active_proposal_number, proposed_value>>
      BY <2>2, <3>2 DEF ProposeBroadcast, SendStep
    <3> QED BY <3>3, <3>4 DEF ProposerOk, Prop
  <2>3. CASE SendFin(q)
    <3>1. HasProposed(q) /\ ~active[q]
      BY <2>3 DEF TypeOK, SendFin, SendStep, HasProposed, PreBroadcast
    <3>2. /\ UNCHANGED <<round_num, active, ack_count, active_proposal_number>>
          /\ ProposerOk(q)
      BY <2>3, <3>1 DEF SendFin, SendStep, proposerVars, countVars, ProposerInv
    <3> QED BY <3>1, <3>2 DEF ProposerOk, Ack
  <2> QED BY <1>e, <2>1, <2>2, <2>3 DEF SendThread
<1>f. ASSUME NEW p \in Proc, NEW m \in sent, Receive(p, m)
      PROVE  Unaffected(q) \/ ProposerOk(q)'
  <2>1. CASE RecvProp(p, m)
    BY <2>1 DEF Unaffected, RecvProp, threadVars, proposerVars, countVars
  <2>2. CASE RecvAckDecide(p, m)
    <3>1. /\ HasProposed(p) /\ m \in Acks /\ m.dst = p /\ m.src \in Proc
          /\ m.round = round_num[p] /\ m.num = active_proposal_number[p]
      BY <1>0, <2>2, ReceiverHasProposed
      DEF RecvAckDecide, DecideLattice, CurrentAnswer, Receives, Acks
    <3>2. m = Ack(m.src, p, round_num[p], active_proposal_number[p])
      BY <3>1, NetworkTypes DEF AckMessage, Ack
    <3>3. CASE q # p
      BY <2>2, <3>3 DEF TypeOK, Unaffected, RecvAckDecide, DecideLattice, threadVars
    <3>4. CASE q = p
      <4>1. ProposerOk(p)
        BY <3>1 DEF ProposerInv
      <4>2. /\ ack_count'[p] = ack_count[p] \cup {m.src} /\ ~active'[p]
            /\ UNCHANGED <<round_num, active_proposal_number, sent>>
        BY <2>2 DEF TypeOK, RecvAckDecide, DecideLattice, threadVars
      <4>3. \A x \in ack_count'[p] :
               Ack(x, p, round_num[p], active_proposal_number[p]) \in sent
        BY <3>1, <3>2, <4>1, <4>2 DEF ProposerOk, Acks
      <4> QED BY <3>4, <4>2, <4>3 DEF ProposerOk, Ack
    <3> QED BY <3>3, <3>4
  <2>3. CASE RecvAckCount(p, m)
    <3> DEFINE acks == ack_count[p] \cup {m.src}
    <3>1. /\ HasProposed(p) /\ m \in Acks /\ m.dst = p /\ m.src \in Proc
          /\ m.round = round_num[p] /\ m.num = active_proposal_number[p]
      BY <1>0, <2>3, ReceiverHasProposed
      DEF RecvAckCount, CurrentAnswer, Receives, Acks
    <3>2. m = Ack(m.src, p, round_num[p], active_proposal_number[p])
      BY <3>1, NetworkTypes DEF AckMessage, Ack
    <3>3. ProposerOk(p)
      BY <3>1 DEF ProposerInv
    <3>4. /\ \A x \in acks : Ack(x, p, round_num[p], active_proposal_number[p]) \in sent
          /\ active[p] /\ nack_count[p] = {} =>
               Prop(p, round_num[p], active_proposal_number[p], proposed_value[p]) \in sent
      BY <3>1, <3>2, <3>3 DEF ProposerOk, Acks
    <3>5. /\ acks \in SUBSET Proc /\ nack_count[p] \in SUBSET Proc
          /\ proposed_value[p] \in SUBSET Value
      BY <3>1 DEF TypeOK
    <3>6. /\ CheckNackCount(p, acks, nack_count[p], proposed_value[p])
          /\ UNCHANGED <<mainPC, sendPC, round_num, active, proposed_value>>
      BY <2>3 DEF RecvAckCount, threadVars
    <3>7. /\ ProposerOk(p)'
          /\ \A x \in Proc \ {p} :
               /\ active_proposal_number'[x] = active_proposal_number[x]
               /\ ack_count'[x] = ack_count[x] /\ nack_count'[x] = nack_count[x]
      <4> HIDE DEF acks
      <4> QED BY <3>4, <3>5, <3>6, CountStep
    <3> QED BY <3>6, <3>7 DEF Unaffected
  <2>4. CASE RecvNack(p, m)
    <3> DEFINE nacks == nack_count[p] \cup {m.src}
               value == proposed_value[p] \cup m.val
    <3>1. /\ HasProposed(p) /\ m.src \in Proc /\ m.val \in SUBSET Value
      BY <1>0, <2>4, ReceiverHasProposed, MessageFields
      DEF RecvNack, CurrentAnswer, Receives, TypeOK
    <3>2. ProposerOk(p)
      BY <3>1 DEF ProposerInv
    <3>3. /\ nacks \in SUBSET Proc /\ nacks # {} /\ ack_count[p] \in SUBSET Proc
          /\ value \in SUBSET Value
      BY <3>1 DEF TypeOK
    <3>4. /\ CheckNackCount(p, ack_count[p], nacks, value)
          /\ UNCHANGED <<mainPC, sendPC, round_num, active>>
          /\ proposed_value'[p] = value
          /\ \A x \in Proc \ {p} : proposed_value'[x] = proposed_value[x]
      BY <2>4 DEF TypeOK, RecvNack, threadVars
    <3>5. \A x \in ack_count[p] :
             Ack(x, p, round_num[p], active_proposal_number[p]) \in sent
      BY <3>2 DEF ProposerOk
    <3>6. /\ ProposerOk(p)'
          /\ \A x \in Proc \ {p} :
               /\ active_proposal_number'[x] = active_proposal_number[x]
               /\ ack_count'[x] = ack_count[x] /\ nack_count'[x] = nack_count[x]
      <4> HIDE DEF nacks, value
      <4> QED BY <3>3, <3>4, <3>5, CountStep
    <3> QED BY <3>4, <3>6 DEF Unaffected
  <2>5. CASE RecvFin(p, m)
    BY <2>5 DEF Unaffected, RecvFin, proposerVars, countVars
  <2> QED BY <1>f, <2>1, <2>2, <2>3, <2>4, <2>5 DEF Receive
<1>g. ASSUME NEW p \in Proc, ReseExit(p) \/ Crash(p) PROVE Unaffected(q)
  BY <1>g DEF Unaffected, ReseExit, Crash, threadVars, proposerVars, countVars
<1>h. ASSUME NEW p \in Proc, NEW m \in sent, RecvOtherRound(p, m) PROVE Unaffected(q)
  BY <1>h DEF Unaffected, RecvOtherRound, proposerVars, countVars
<1> QED BY <1>a, <1>b, <1>c, <1>d, <1>e, <1>f, <1>g, <1>h
        DEF Next, MainThread, RecvThread

-----------------------------------------------------------------------------
(* The output file.                                                        *)

\* Only a decision writes to the output, and it is a decision of the current
\* round by a process that had none, on a value it has broadcast and a majority
\* has ACKed.
LEMMA DecideStep ==
  ASSUME TypeOK, MessageInv, ProposerInv, OutputOrder, NEW p \in Proc,
         NEW m \in sent, RecvAckDecide(p, m)
  PROVE  /\ output' = [output EXCEPT ![p] = Append(@, proposed_value[p])]
         /\ sent' = sent
         /\ HasProposed(p) /\ active[p]
         /\ Len(output[p]) = round_num[p]
         /\ \E n \in Props : /\ n.src = p /\ n.round = round_num[p]
                             /\ n.val = proposed_value[p]
                             /\ Majority(AckedBy(n))
<1>0. PropInv /\ AnswerInv
  BY DEF MessageInv
<1>1. /\ HasProposed(p) /\ m \in Acks /\ m.dst = p /\ m.src \in Proc
      /\ m.round = round_num[p] /\ m.num = active_proposal_number[p]
  BY <1>0, ReceiverHasProposed
  DEF RecvAckDecide, DecideLattice, CurrentAnswer, Receives, Acks
<1>2. active[p] /\ Majority(ack_count[p] \cup {m.src})
  BY DEF RecvAckDecide, DecideLattice, MustDecide
<1>3. nack_count[p] = {}
  BY <1>1, NoNackAtDecision DEF RecvAckDecide, DecideLattice
<1>4. ProposerOk(p)
  BY <1>1 DEF ProposerInv
<1>5. PICK n \in sent :
        n = Prop(p, round_num[p], active_proposal_number[p], proposed_value[p])
  BY <1>2, <1>3, <1>4 DEF ProposerOk
<1>6. /\ n \in Props /\ n.src = p /\ n.round = round_num[p]
      /\ n.num = active_proposal_number[p] /\ n.val = proposed_value[p]
  BY <1>5 DEF Prop, Props
<1>7. \A x \in ack_count[p] \cup {m.src} : x \in AckedBy(n)
  <2> TAKE x \in ack_count[p] \cup {m.src}
  <2>1. CASE x = m.src
    BY <1>1, <1>6, <2>1 DEF AckedBy, Answers
  <2>2. CASE x \in ack_count[p]
    <3>1. PICK a \in sent : a = Ack(x, p, round_num[p], active_proposal_number[p])
      BY <1>4, <2>2 DEF ProposerOk
    <3>2. a \in Acks /\ a.src = x /\ Answers(a, n)
      BY <1>6, <3>1 DEF Ack, Acks, Answers
    <3> QED BY <3>2 DEF AckedBy
  <2> QED BY <2>1, <2>2
<1>8. AckedBy(n) \in SUBSET Proc /\ ack_count[p] \cup {m.src} \in SUBSET Proc
  BY <1>1, NetworkTypes DEF AckedBy, TypeOK
<1>9. Majority(AckedBy(n))
  BY <1>2, <1>7, <1>8, MajorityGrows
<1>10. Len(output[p]) = round_num[p]
  BY <1>1, <1>2 DEF OutputOrder, HasDecided, TypeOK
<1> QED BY <1>1, <1>2, <1>6, <1>9, <1>10 DEF RecvAckDecide, DecideLattice

\* Any other step leaves the output alone.
LEMMA OutputStep ==
  ASSUME [Next]_vars
  PROVE  \/ UNCHANGED output
         \/ \E p \in Proc, m \in sent : RecvAckDecide(p, m)
BY DEF Next, vars, MainThread, StartRound, JoinThreads, SendThread, SendStep,
   ProposeAssign, ProposeActivate, ProposeNumber, ProposeBroadcast, SendFin,
   RecvThread, Receive, RecvProp, RecvAckCount, RecvNack, RecvFin, RecvOtherRound,
   ReseExit, Crash

\* The output of a process only grows.
LEMMA OutputGrows ==
  ASSUME TypeOK, TypeOK', [Next]_vars
  PROVE  \A q \in Proc : /\ Len(output[q]) \in Nat /\ Len(output'[q]) \in Nat
                        /\ Len(output[q]) <= Len(output'[q])
                        /\ \A i \in 1 .. Len(output[q]) : output'[q][i] = output[q][i]
<1>1. /\ output \in [Proc -> Seq(SUBSET Value)]
      /\ proposed_value \in [Proc -> SUBSET Value]
  BY DEF TypeOK
<1>2. CASE UNCHANGED output
  BY <1>1, <1>2
<1>3. ASSUME NEW p \in Proc, NEW m \in sent, RecvAckDecide(p, m)
      PROVE  \A q \in Proc : /\ Len(output[q]) \in Nat /\ Len(output'[q]) \in Nat
                            /\ Len(output[q]) <= Len(output'[q])
                            /\ \A i \in 1 .. Len(output[q]) : output'[q][i] = output[q][i]
  BY <1>1, <1>3 DEF RecvAckDecide, DecideLattice
<1> QED BY <1>2, <1>3, OutputStep

\* A majority that has ACKed a proposal stays one.
LEMMA AckedByGrows ==
  ASSUME TypeOK, TypeOK', sent \subseteq sent', NEW m \in Props, Majority(AckedBy(m))
  PROVE  m \in Props' /\ Majority(AckedBy(m)')
<1>1. Props \subseteq Props' /\ Acks \subseteq Acks'
  BY DEF Props, Acks
<1>2. AckedBy(m) \subseteq AckedBy(m)'
  BY <1>1 DEF AckedBy, Answers
<1>3. /\ \A a \in Acks : a.src \in Proc
      /\ \A a \in Acks' : a.src \in Proc
  BY MessageFields DEF TypeOK, Acks
<1>4. AckedBy(m) \in SUBSET Proc /\ AckedBy(m)' \in SUBSET Proc
  BY <1>3 DEF AckedBy
<1> QED BY <1>1, <1>2, <1>4, MajorityGrows

\* Every line of the output stays a value a majority has ACKed.
LEMMA DecidedWasAcceptedNext ==
  ASSUME TypeOK, TypeOK', MessageInv, ProposerInv, OutputOrder, DecidedWasAccepted,
         [Next]_vars, sent \subseteq sent'
  PROVE  DecidedWasAccepted'
<1>1. SUFFICES ASSUME NEW q \in Proc, NEW i \in 1 .. Len(output'[q])
               PROVE  \E n \in Props' : /\ n.src = q /\ n.round = i - 1
                                       /\ n.val = output'[q][i]
                                       /\ Majority(AckedBy(n)')
  BY DEF DecidedWasAccepted, Majority, Quorum
<1>2. CASE i \in 1 .. Len(output[q])
  <2>1. PICK n \in Props : /\ n.src = q /\ n.round = i - 1
                           /\ n.val = output[q][i] /\ Majority(AckedBy(n))
    BY <1>2 DEF DecidedWasAccepted
  <2>2. output'[q][i] = output[q][i]
    BY <1>2, OutputGrows
  <2> QED BY <2>1, <2>2, AckedByGrows
<1>3. CASE i \notin 1 .. Len(output[q])
  <2>1. PICK p \in Proc, m \in sent : RecvAckDecide(p, m)
    BY <1>1, <1>3, OutputStep
  <2>2. /\ output' = [output EXCEPT ![p] = Append(@, proposed_value[p])]
        /\ Len(output[p]) = round_num[p]
    BY <2>1, DecideStep
  <2>3. PICK n \in Props : /\ n.src = p /\ n.round = round_num[p]
                           /\ n.val = proposed_value[p]
                           /\ Majority(AckedBy(n))
    BY <2>1, DecideStep
  <2>4. q = p
    BY <1>1, <1>3, <2>2 DEF TypeOK
  <2>5. /\ output[p] \in Seq(SUBSET Value) /\ proposed_value[p] \in SUBSET Value
        /\ output'[p] = Append(output[p], proposed_value[p])
    BY <2>2 DEF TypeOK
  <2>6. i = Len(output[p]) + 1 /\ output'[q][i] = proposed_value[p]
    BY <1>1, <1>3, <2>4, <2>5
  <2>7. i - 1 = round_num[p]
    BY <2>2, <2>5, <2>6
  <2> QED BY <2>3, <2>4, <2>6, <2>7, AckedByGrows
<1> QED BY <1>2, <1>3

\* The number of lines follows the rounds through every step.
LEMMA OutputOrderNext ==
  ASSUME TypeOK, MessageInv, SendInv, ProposerInv, OutputOrder, [Next]_vars
  PROVE  OutputOrder'
<1> USE DEF PreBroadcast
<1>0. SUFFICES ASSUME NEW q \in Proc
               PROVE  Len(output'[q]) = round_num'[q] + (IF HasDecided(q)' THEN 1 ELSE 0)
  BY DEF OutputOrder
<1>1. /\ Len(output[q]) = round_num[q] + (IF HasDecided(q) THEN 1 ELSE 0)
      /\ round_num[q] \in Nat
  BY RoundsAssumption DEF OutputOrder, TypeOK
<1>a. CASE UNCHANGED vars
  BY <1>1, <1>a DEF vars, threadVars, proposerVars, countVars, HasDecided, HasProposed
<1>b. ASSUME NEW p \in Proc, StartRound(p)
      PROVE  Len(output'[q]) = round_num'[q] + (IF HasDecided(q)' THEN 1 ELSE 0)
  BY <1>1, <1>b DEF TypeOK, StartRound, InitProposer, HasDecided, HasProposed
<1>c. ASSUME NEW p \in Proc, JoinThreads(p)
      PROVE  Len(output'[q]) = round_num'[q] + (IF HasDecided(q)' THEN 1 ELSE 0)
  <2>1. CASE q = p
    <3>1. HasDecided(p)
      BY <1>c DEF JoinThreads, HasDecided, HasProposed, SendInv, SendOk
    <3>2. /\ round_num'[p] = round_num[p] + 1 /\ ~HasDecided(p)'
          /\ UNCHANGED output
      BY <1>c DEF TypeOK, JoinThreads, HasDecided, HasProposed
    <3> QED BY <1>1, <2>1, <3>1, <3>2
  <2>2. CASE q # p
    BY <1>1, <1>c, <2>2 DEF TypeOK, JoinThreads, HasDecided, HasProposed,
                            proposerVars, countVars
  <2> QED BY <2>1, <2>2
<1>d. ASSUME NEW p \in Proc, SendThread(p)
      PROVE  Len(output'[q]) = round_num'[q] + (IF HasDecided(q)' THEN 1 ELSE 0)
  <2>1. UNCHANGED <<output, round_num, mainPC>>
    BY <1>d DEF SendThread, SendStep, ProposeAssign, ProposeActivate,
                ProposeNumber, ProposeBroadcast, SendFin
  <2>2. HasDecided(q)' = HasDecided(q)
    <3>1. CASE ProposeAssign(p) \/ ProposeActivate(p) \/ ProposeNumber(p)
      BY <2>1, <3>1 DEF TypeOK, ProposeAssign, ProposeActivate, ProposeNumber,
                        SendStep, HasDecided, HasProposed
    <3>2. CASE ProposeBroadcast(p)
      <4>1. active[p]
        BY <3>2 DEF TypeOK, ProposeBroadcast, SendStep, SendInv, SendOk
      <4> QED BY <2>1, <3>2, <4>1 DEF TypeOK, ProposeBroadcast, SendStep,
                                      HasDecided, HasProposed
    <3>3. CASE SendFin(p)
      BY <2>1, <3>3 DEF TypeOK, SendFin, SendStep, HasDecided, HasProposed,
                        proposerVars, countVars
    <3> QED BY <1>d, <3>1, <3>2, <3>3 DEF SendThread
  <2> QED BY <1>1, <2>1, <2>2
<1>e. ASSUME NEW p \in Proc, NEW m \in sent, Receive(p, m)
      PROVE  Len(output'[q]) = round_num'[q] + (IF HasDecided(q)' THEN 1 ELSE 0)
  <2>1. CASE RecvAckDecide(p, m)
    <3>1. /\ output' = [output EXCEPT ![p] = Append(@, proposed_value[p])]
          /\ HasProposed(p) /\ active[p] /\ Len(output[p]) = round_num[p]
      BY <2>1, DecideStep
    <3>2. /\ UNCHANGED <<mainPC, sendPC, round_num>>
          /\ active' = [active EXCEPT ![p] = FALSE]
      BY <2>1 DEF RecvAckDecide, DecideLattice, threadVars
    <3>3. CASE q = p
      <4>1. /\ output[p] \in Seq(SUBSET Value) /\ proposed_value[p] \in SUBSET Value
            /\ output'[p] = Append(output[p], proposed_value[p])
        BY <3>1 DEF TypeOK
      <4>2. Len(output'[p]) = Len(output[p]) + 1
        BY <4>1
      <4>3. HasDecided(p)'
        BY <3>1, <3>2 DEF TypeOK, HasDecided, HasProposed
      <4> QED BY <1>1, <3>1, <3>2, <3>3, <4>2, <4>3
    <3>4. CASE q # p
      BY <1>1, <3>1, <3>2, <3>4 DEF TypeOK, HasDecided, HasProposed
    <3> QED BY <3>3, <3>4
  <2>2. CASE ~RecvAckDecide(p, m)
    <3>1. UNCHANGED <<output, mainPC, sendPC, round_num, active>>
      BY <1>e, <2>2 DEF Receive, RecvProp, RecvAckCount, RecvNack, RecvFin,
                        threadVars, proposerVars
    <3> QED BY <1>1, <3>1 DEF HasDecided, HasProposed
  <2> QED BY <2>1, <2>2
<1>f. ASSUME NEW p \in Proc, ReseExit(p) \/ Crash(p)
      PROVE  Len(output'[q]) = round_num'[q] + (IF HasDecided(q)' THEN 1 ELSE 0)
  BY <1>1, <1>f DEF ReseExit, Crash, threadVars, proposerVars, HasDecided, HasProposed
<1>h. ASSUME NEW p \in Proc, NEW m \in sent, RecvOtherRound(p, m)
      PROVE  Len(output'[q]) = round_num'[q] + (IF HasDecided(q)' THEN 1 ELSE 0)
  BY <1>1, <1>h DEF RecvOtherRound, proposerVars, HasDecided, HasProposed
<1> QED BY <1>a, <1>b, <1>c, <1>d, <1>e, <1>f, <1>h
        DEF Next, MainThread, RecvThread

-----------------------------------------------------------------------------
(* The end of a round.                                                     *)

\* A FIN is sent by a process that has decided.
LEMMA FinsNext ==
  ASSUME TypeOK, TypeOK', OutputOrder, MessageStep, [Next]_vars,
         \A m \in Fins : Len(output[m.src]) > m.round
  PROVE  \A m \in Fins' : Len(output'[m.src]) > m.round
<1> SUFFICES ASSUME NEW m \in Fins' PROVE Len(output'[m.src]) > m.round
  OBVIOUS
<1>1. m.src \in Proc /\ m.round \in Nat
  BY MessageFields DEF TypeOK, Fins
<1>2. /\ Len(output[m.src]) \in Nat /\ Len(output'[m.src]) \in Nat
      /\ Len(output[m.src]) <= Len(output'[m.src])
  BY <1>1, OutputGrows
<1>3. Len(output[m.src]) > m.round
  <2>1. CASE m \in Fins
    BY <2>1
  <2>2. CASE m \notin Fins
    <3>1. m.round = round_num[m.src] /\ HasDecided(m.src)
      BY <2>2, NetworkStep DEF SendsFin
    <3> QED BY <1>1, <1>2, <3>1 DEF OutputOrder
  <2> QED BY <2>1, <2>2
<1> QED BY <1>1, <1>2, <1>3

\* What p counts as finished in its round has decided in that round.
FinOk(p) == mainPC[p] = "join" =>
              /\ \A q \in fin[p] : Len(output[q]) > round_num[p]
              /\ ~reseOn[p] => Majority(fin[p])

\* A step that leaves fin and the threads alone keeps what is said of FINs.
LEMMA FinFrame ==
  ASSUME TypeOK, TypeOK', [Next]_vars, NEW p \in Proc, FinOk(p),
         mainPC'[p] = mainPC[p], round_num'[p] = round_num[p],
         reseOn'[p] = reseOn[p], fin'[p] = fin[p]
  PROVE  FinOk(p)'
<1>1. \A q \in fin[p] : /\ Len(output[q]) <= Len(output'[q])
                       /\ Len(output[q]) \in Nat /\ Len(output'[q]) \in Nat
  BY OutputGrows DEF TypeOK
<1>2. round_num[p] \in Nat
  BY RoundsAssumption DEF TypeOK
<1> QED BY <1>1, <1>2 DEF FinOk, Majority, Quorum

\* Every FIN counted by a process comes from one that has decided in the round.
LEMMA FinOkNext ==
  ASSUME TypeOK, TypeOK', MessageInv, ProposerInv, OutputOrder, FinInv, [Next]_vars
  PROVE  \A p \in Proc : FinOk(p)'
<1> SUFFICES ASSUME NEW q \in Proc PROVE FinOk(q)'
  OBVIOUS
<1>1. FinOk(q)
  BY DEF FinInv, FinOk
<1>2. SUFFICES ASSUME ~( /\ mainPC'[q] = mainPC[q] /\ round_num'[q] = round_num[q]
                         /\ reseOn'[q] = reseOn[q] /\ fin'[q] = fin[q])
               PROVE  FinOk(q)'
  BY <1>1, FinFrame
<1>3. round_num[q] \in Nat
  BY RoundsAssumption DEF TypeOK
<1>a. CASE UNCHANGED vars
  BY <1>2, <1>a DEF vars, threadVars
<1>b. ASSUME NEW p \in Proc, StartRound(p) PROVE FinOk(q)'
  BY <1>2, <1>b DEF TypeOK, StartRound, InitFin, FinOk
<1>c. ASSUME NEW p \in Proc, JoinThreads(p) PROVE FinOk(q)'
  BY <1>2, <1>c DEF TypeOK, JoinThreads, FinOk
<1>d. ASSUME NEW p \in Proc, SendThread(p) PROVE FinOk(q)'
  BY <1>2, <1>d DEF SendThread, SendStep, ProposeAssign, ProposeActivate,
                    ProposeNumber, ProposeBroadcast, SendFin
<1>e. ASSUME NEW p \in Proc, NEW m \in sent, Receive(p, m) PROVE FinOk(q)'
  <2>0. CASE RecvProp(p, m) \/ RecvAckCount(p, m) \/ RecvNack(p, m)
    BY <1>2, <2>0 DEF RecvProp, RecvAckCount, RecvNack, threadVars
  <2>1. CASE RecvAckDecide(p, m)
    <3>1. /\ UNCHANGED <<mainPC, round_num, reseOn>>
          /\ fin' = [fin EXCEPT ![p] = @ \cup {p}]
      BY <2>1 DEF RecvAckDecide, DecideLattice, threadVars
    <3>2. q = p
      BY <1>2, <3>1 DEF TypeOK
    <3>3. Len(output'[p]) = round_num[p] + 1
      <4>1. /\ output' = [output EXCEPT ![p] = Append(@, proposed_value[p])]
            /\ Len(output[p]) = round_num[p]
        BY <2>1, DecideStep
      <4>2. /\ output[p] \in Seq(SUBSET Value) /\ proposed_value[p] \in SUBSET Value
            /\ output'[p] = Append(output[p], proposed_value[p])
        BY <4>1 DEF TypeOK
      <4> QED BY <4>1, <4>2
    <3>4. fin'[p] = fin[p] \cup {p} /\ fin[p] \in SUBSET Proc
      BY <3>1 DEF TypeOK
    <3>5. mainPC[p] = "join" => \A x \in fin'[p] : Len(output'[x]) > round_num[p]
      <4>1. \A x \in fin[p] : /\ Len(output[x]) <= Len(output'[x])
                             /\ Len(output[x]) \in Nat /\ Len(output'[x]) \in Nat
        BY OutputGrows DEF TypeOK
      <4> QED BY <1>1, <1>3, <3>2, <3>3, <3>4, <4>1 DEF FinOk
    <3>6. Majority(fin[p]) => Majority(fin'[p])
      BY <3>4, MajorityGrows
    <3>7. Majority(fin[p])' = Majority(fin'[p])
      BY DEF Majority, Quorum
    <3> QED BY <1>1, <3>1, <3>2, <3>5, <3>6, <3>7 DEF FinOk
  <2>2. CASE RecvFin(p, m)
    <3>1. /\ UNCHANGED <<mainPC, round_num, reseOn, output>>
          /\ fin' = [fin EXCEPT ![p] = @ \cup {m.src}]
          /\ m \in Fins /\ m.round = round_num[p]
      BY <2>2 DEF RecvFin, Receives, Fins
    <3>2. q = p
      BY <1>2, <3>1 DEF TypeOK
    <3>3. Len(output[m.src]) > round_num[p] /\ m.src \in Proc
      BY <3>1, MessageFields DEF FinInv, TypeOK, Fins
    <3>4. fin'[p] = fin[p] \cup {m.src} /\ fin[p] \in SUBSET Proc
      BY <3>1 DEF TypeOK
    <3>5. Majority(fin[p]) => Majority(fin'[p])
      BY <3>3, <3>4, MajorityGrows
    <3>6. Majority(fin[p])' = Majority(fin'[p])
      BY DEF Majority, Quorum
    <3> QED BY <1>1, <3>1, <3>2, <3>3, <3>4, <3>5, <3>6 DEF FinOk
  <2> QED BY <1>e, <2>0, <2>1, <2>2 DEF Receive
<1>f. ASSUME NEW p \in Proc, ReseExit(p) PROVE FinOk(q)'
  <2>1. /\ UNCHANGED <<mainPC, round_num, fin, output>>
        /\ reseOn' = [reseOn EXCEPT ![p] = FALSE] /\ Majority(fin[p])
    BY <1>f DEF ReseExit
  <2>2. q = p
    BY <1>2, <2>1 DEF TypeOK
  <2> QED BY <1>1, <2>1, <2>2 DEF FinOk, Majority, Quorum
<1>g. ASSUME NEW p \in Proc, Crash(p) PROVE FinOk(q)'
  BY <1>2, <1>g DEF Crash, threadVars
<1>h. ASSUME NEW p \in Proc, NEW m \in sent, RecvOtherRound(p, m) PROVE FinOk(q)'
  BY <1>2, <1>h DEF RecvOtherRound
<1> QED BY <1>a, <1>b, <1>c, <1>d, <1>e, <1>f, <1>g, <1>h
        DEF Next, MainThread, RecvThread

\* The processes that have decided in round r stay a majority.
LEMMA DecidersGrow ==
  ASSUME TypeOK, TypeOK', [Next]_vars, NEW r \in Nat,
         Majority({q \in Proc : Len(output[q]) > r})
  PROVE  Majority({q \in Proc : Len(output'[q]) > r})
<1>1. {q \in Proc : Len(output[q]) > r} \subseteq {q \in Proc : Len(output'[q]) > r}
  BY OutputGrows
<1> QED BY <1>1, MajorityGrows

\* A round is left only with a majority of FINs, each after a decision.
LEMMA RoundBarrierNext ==
  ASSUME TypeOK, TypeOK', FinInv, RoundBarrier, [Next]_vars
  PROVE  RoundBarrier'
<1>1. SUFFICES ASSUME NEW p \in Proc, NEW r \in 0 .. round_num'[p] - 1
               PROVE  Majority({q \in Proc : Len(output'[q]) > r})
  BY DEF RoundBarrier, Majority, Quorum
<1>2. round_num[p] \in Nat /\ round_num'[p] \in Nat /\ r \in Nat
  BY RoundsAssumption DEF TypeOK
<1>3. SUFFICES Majority({q \in Proc : Len(output[q]) > r})
  BY <1>2, DecidersGrow
<1>4. CASE r \in 0 .. round_num[p] - 1
  BY <1>4 DEF RoundBarrier
<1>5. CASE r \notin 0 .. round_num[p] - 1
  <2>1. round_num'[p] # round_num[p]
    BY <1>1, <1>5
  <2>2. PICK x \in Proc : JoinThreads(x)
    <3>1. ASSUME NEW x \in Proc, NEW m \in sent, Receive(x, m) \/ RecvOtherRound(x, m)
          PROVE  UNCHANGED round_num
      BY <3>1 DEF Receive, RecvProp, RecvAckDecide, DecideLattice, RecvAckCount, RecvNack,
                  RecvFin, RecvOtherRound, threadVars
    <3>2. ASSUME NEW x \in Proc, StartRound(x) \/ SendThread(x) \/ ReseExit(x) \/ Crash(x)
          PROVE  UNCHANGED round_num
      BY <3>2 DEF StartRound, SendThread, SendStep, ProposeAssign,
                  ProposeActivate, ProposeNumber, ProposeBroadcast, SendFin,
                  ReseExit, Crash, threadVars
    <3> QED BY <2>1, <3>1, <3>2 DEF Next, vars, threadVars, MainThread, RecvThread
  <2>3. x = p /\ round_num'[p] = round_num[p] + 1
    BY <2>1, <2>2 DEF JoinThreads, TypeOK
  <2>4. r = round_num[p]
    BY <1>1, <1>2, <1>5, <2>3
  <2>5. Majority(fin[p]) /\ \A q \in fin[p] : Len(output[q]) > r
    BY <2>2, <2>3, <2>4 DEF JoinThreads, FinInv
  <2>6. fin[p] \subseteq {q \in Proc : Len(output[q]) > r} /\ fin[p] \in SUBSET Proc
    BY <2>5 DEF TypeOK
  <2> QED BY <2>5, <2>6, MajorityGrows
<1> QED BY <1>4, <1>5

-----------------------------------------------------------------------------
(* The inductive invariant and the theorems.                               *)

\* The initial state satisfies the invariant: nothing was sent or decided.
LEMMA IInvInit == Init => IInv
<1> SUFFICES ASSUME Init PROVE IInv
  OBVIOUS
<1>1. TypeOK
  BY TypeInit
<1>2. Props = {} /\ Acks = {} /\ Nacks = {} /\ Fins = {}
  BY DEF Init, Props, Acks, Nacks, Fins
<1>3. MessageInv
  BY <1>2 DEF MessageInv, PropInv, UniqueProp, AnswerInv, AckInv, ChainInv
<1>4. \A p \in Proc : /\ mainPC[p] = "loop" /\ output[p] = << >>
                      /\ round_num[p] = 0 /\ Len(output[p]) = 0
  BY DEF Init
<1>5. SendInv /\ ProposerInv /\ FinInv
  BY <1>2, <1>4 DEF SendInv, ProposerInv, FinInv, HasProposed
<1>6. OutputOrder /\ DecidedWasAccepted /\ RoundBarrier
  BY <1>4 DEF OutputOrder, DecidedWasAccepted, RoundBarrier, HasDecided, HasProposed
<1> QED BY <1>1, <1>3, <1>5, <1>6 DEF IInv

\* Every step keeps the invariant, one conjunct at a time.
LEMMA IInvNext == IInv /\ [Next]_vars => IInv'
<1> SUFFICES ASSUME IInv, [Next]_vars PROVE IInv'
  OBVIOUS
<1>1. /\ TypeOK /\ MessageInv /\ SendInv /\ ProposerInv /\ OutputOrder
      /\ DecidedWasAccepted /\ FinInv /\ RoundBarrier
  BY DEF IInv
<1>2. PropInv /\ AnswerInv
  BY <1>1 DEF MessageInv
<1>3. TypeOK'
  BY <1>1, TypeNext
<1>4. MessageStep /\ \A p \in Proc : Advances(p)
  BY <1>1, <1>2, StepFacts
<1>5. sent \subseteq sent'
  BY <1>4 DEF MessageStep, SendsProp, SendsAck, SendsNack, SendsFin
<1>6. MessageInv' /\ SendInv' /\ ProposerInv'
  BY <1>1, <1>2, <1>3, <1>4, <1>5, MessageInvNext, SendInvNext, ProposerInvNext
<1>7. OutputOrder' /\ DecidedWasAccepted'
  BY <1>1, <1>3, <1>5, OutputOrderNext, DecidedWasAcceptedNext
<1>8. FinInv'
  <2>1. \A m \in Fins' : Len(output'[m.src]) > m.round
    BY <1>1, <1>3, <1>4, FinsNext DEF FinInv
  <2>2. \A p \in Proc : FinOk(p)'
    BY <1>1, <1>3, FinOkNext
  <2> QED BY <2>1, <2>2 DEF FinInv, FinOk
<1>9. RoundBarrier'
  BY <1>1, <1>3, RoundBarrierNext
<1> QED BY <1>3, <1>6, <1>7, <1>8, <1>9 DEF IInv

\* The inductive invariant holds in every reachable state.
THEOREM Invariant == Spec => []IInv
BY IInvInit, IInvNext, PTL DEF Spec

\* Any two decisions of one round are ordered by inclusion: each was ACKed by a
\* majority, two majorities share an acceptor, and what one acceptor ACKs in a
\* round is a chain.
LEMMA IInvConsistency == IInv => Consistency
<1> SUFFICES ASSUME IInv, NEW p \in Proc, NEW q \in Proc,
                    NEW i \in 1 .. Len(output[p]), i <= Len(output[q])
             PROVE  Comparable(output[p][i], output[q][i])
  BY DEF Consistency
<1>1. TypeOK /\ ChainInv /\ DecidedWasAccepted
  BY DEF IInv, MessageInv
<1>2. Len(output[p]) \in Nat /\ Len(output[q]) \in Nat /\ i \in 1 .. Len(output[q])
  BY <1>1 DEF TypeOK
<1>3. PICK m \in Props : /\ m.src = p /\ m.round = i - 1
                         /\ m.val = output[p][i] /\ Majority(AckedBy(m))
  BY <1>1 DEF DecidedWasAccepted
<1>4. PICK n \in Props : /\ n.src = q /\ n.round = i - 1
                         /\ n.val = output[q][i] /\ Majority(AckedBy(n))
  BY <1>1, <1>2 DEF DecidedWasAccepted
<1>5. AckedBy(m) \in SUBSET Proc /\ AckedBy(n) \in SUBSET Proc
  BY <1>1, NetworkTypes DEF AckedBy
<1>6. PICK x \in Proc : x \in AckedBy(m) /\ x \in AckedBy(n)
  BY <1>3, <1>4, <1>5, MajoritiesMeet
<1>7. PICK a \in Acks : a.src = x /\ Answers(a, m)
  BY <1>6 DEF AckedBy
<1>8. PICK b \in Acks : b.src = x /\ Answers(b, n)
  BY <1>6 DEF AckedBy
<1>9. a.round = b.round
  BY <1>3, <1>4, <1>7, <1>8 DEF Answers
<1> QED BY <1>1, <1>3, <1>4, <1>7, <1>8, <1>9 DEF ChainInv

\* Consistency of the decisions, for any number of processes and crashes.
THEOREM ConsistencyHolds == Spec => []Consistency
BY Invariant, IInvConsistency, PTL

\* One line per round, in order.
THEOREM OutputOrderHolds == Spec => []OutputOrder
<1>1. IInv => OutputOrder
  BY DEF IInv
<1> QED BY <1>1, Invariant, PTL

\* What is decided was broadcast and accepted by a majority as it was.
THEOREM DecidedWasAcceptedHolds == Spec => []DecidedWasAccepted
<1>1. IInv => DecidedWasAccepted
  BY DEF IInv
<1> QED BY <1>1, Invariant, PTL

\* A process leaves a round only after a majority has decided in it.
THEOREM RoundBarrierHolds == Spec => []RoundBarrier
<1>1. IInv => RoundBarrier
  BY DEF IInv
<1> QED BY <1>1, Invariant, PTL

\* The proposer's unlocked writes cannot race with an answer of the round.
LEMMA IInvNoAnswer == IInv => NoAnswerBeforeProposal
<1> SUFFICES ASSUME IInv, NEW p \in Proc, mainPC[p] = "join",
                    sendPC[p] \in PreBroadcast, NEW m \in Acks \cup Nacks,
                    m.dst = p, m.round = round_num[p]
             PROVE  FALSE
  BY DEF NoAnswerBeforeProposal
<1>1. TypeOK /\ PropInv /\ AnswerInv
  BY DEF IInv, MessageInv
<1>2. HasProposed(p)
  BY <1>1, AnsweredHasProposed
<1> QED BY <1>2 DEF HasProposed

\* No answer of a round exists before the round's proposal.
THEOREM NoAnswerBeforeProposalHolds == Spec => []NoAnswerBeforeProposal
BY Invariant, IInvNoAnswer, PTL

\* Two steps write the acceptor's value.
LEMMA AcceptedStep ==
  ASSUME [Next]_vars
  PROVE  \/ UNCHANGED accepted_value
         \/ \E q \in Proc : StartRound(q)
         \/ \E q \in Proc, m \in sent : RecvProp(q, m)
<1>1. CASE UNCHANGED vars
  BY <1>1 DEF vars
<1>2. ASSUME NEW p \in Proc, MainThread(p) \/ ReseExit(p) \/ Crash(p)
      PROVE  UNCHANGED accepted_value \/ StartRound(p)
  BY <1>2 DEF MainThread, JoinThreads, ReseExit, Crash
<1>3. ASSUME NEW p \in Proc, SendThread(p)
      PROVE  UNCHANGED accepted_value
  BY <1>3 DEF SendThread, SendStep, ProposeAssign, ProposeActivate, ProposeNumber,
     ProposeBroadcast, SendFin
<1>4. ASSUME NEW p \in Proc, NEW m \in sent, Receive(p, m) \/ RecvOtherRound(p, m)
      PROVE  UNCHANGED accepted_value \/ RecvProp(p, m)
  BY <1>4 DEF Receive, RecvAckDecide, RecvAckCount, RecvNack, RecvFin, RecvOtherRound
<1> QED BY <1>1, <1>2, <1>3, <1>4 DEF Next, RecvThread

\* No round is initialised while one is under way.
LEMMA AcceptedKept ==
  ASSUME TypeOK, [Next]_vars, NEW p \in Proc, mainPC[p] = "join"
  PROVE  accepted_value[p] \subseteq accepted_value'[p]
<1>1. ASSUME NEW q \in Proc, StartRound(q)
      PROVE  accepted_value'[p] = accepted_value[p]
  BY <1>1 DEF StartRound, InitAcceptor, TypeOK
<1>2. ASSUME NEW q \in Proc, NEW m \in sent, RecvProp(q, m)
      PROVE  accepted_value[p] \subseteq accepted_value'[p]
  BY <1>2 DEF RecvProp, NewAccepted, Accepts, TypeOK
<1> QED BY <1>1, <1>2, AcceptedStep

\* The action property AcceptedGrows: an acceptor holds, to the end of a round,
\* whatever it has ACKed or joined into a NACK there.
THEOREM AcceptedGrowsHolds == Spec => AcceptedGrows
<1>1. TypeOK /\ [Next]_vars =>
        [\A p \in Proc : mainPC[p] = "join" =>
           accepted_value[p] \subseteq accepted_value'[p]]_vars
  BY AcceptedKept
<1> QED BY <1>1, TypeCorrect, PTL DEF Spec, AcceptedGrows

=============================================================================
