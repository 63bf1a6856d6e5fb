----------------------- MODULE LatticeRefinementProofs -----------------------
(***************************************************************************)
(* Proofs about the values of LatticeAgreement: proposals grow, and what   *)
(* is decided was proposed.  Hence LatticeAgreement implements             *)
(* LatticeSpec, and the verifier finds nothing wrong with what it writes.  *)
(***************************************************************************)
EXTENDS LatticeAgreementProofs, LatticeVerifier

-----------------------------------------------------------------------------
(* What a step does to the values.                                         *)

\* A step that sends neither a proposal nor a NACK and changes no value, except
\* that a round may begin or end.
QuietStep ==
  /\ Props' = Props
  /\ Nacks' = Nacks
  /\ \A p \in Proc : mainPC'[p] = "join" =>
       \/ accepted_value'[p] = {}
       \/ /\ mainPC[p] = "join"
          /\ round_num'[p] = round_num[p]
          /\ accepted_value'[p] = accepted_value[p]
  /\ \A p \in Proc : HasProposed(p)' =>
       /\ HasProposed(p)
       /\ round_num'[p] = round_num[p]
       /\ active_proposal_number'[p] = active_proposal_number[p]
       /\ nack_count'[p] = nack_count[p]
       /\ proposed_value'[p] = proposed_value[p]

\* The steps that are not quiet.
ValueStep(p) == \/ ProposeBroadcast(p)
                \/ \E m \in sent : \/ RecvProp(p, m)
                                   \/ RecvAckCount(p, m)
                                   \/ RecvNack(p, m)

\* A step of the main thread, of the resend thread, or a crash is quiet.
LEMMA MainIsQuiet ==
  ASSUME TypeOK, NEW p \in Proc,
         \/ StartRound(p) \/ JoinThreads(p) \/ ReseExit(p) \/ Crash(p)
         \/ \E m \in sent : RecvOtherRound(p, m)
  PROVE  QuietStep
<1> USE DEF QuietStep, HasProposed, PreBroadcast, Props, Nacks
<1>1. CASE StartRound(p)
  BY <1>1 DEF TypeOK, StartRound, InitProposer, InitAcceptor
<1>2. CASE JoinThreads(p)
  BY <1>2 DEF TypeOK, JoinThreads, proposerVars, countVars
<1>3. CASE ReseExit(p)
  BY <1>3 DEF ReseExit, proposerVars, countVars
<1>4. CASE Crash(p)
  BY <1>4 DEF Crash, threadVars, proposerVars, countVars
<1>5. CASE \E m \in sent : RecvOtherRound(p, m)
  BY <1>5 DEF RecvOtherRound, proposerVars, countVars
<1> QED BY <1>1, <1>2, <1>3, <1>4, <1>5

\* The send thread before and after its broadcast.
LEMMA SendIsQuiet ==
  ASSUME TypeOK, NEW p \in Proc, SendThread(p), ~ProposeBroadcast(p)
  PROVE  QuietStep
<1>1. CASE ProposeAssign(p) \/ ProposeActivate(p) \/ ProposeNumber(p)
  <2>1. UNCHANGED <<mainPC, round_num, accepted_value, sent, nack_count>>
    BY <1>1 DEF ProposeAssign, ProposeActivate, ProposeNumber, SendStep, countVars
  <2>2. /\ ~HasProposed(p)'
        /\ \A q \in Proc \ {p} : HasProposed(q)' = HasProposed(q)
    BY <1>1 DEF TypeOK, ProposeAssign, ProposeActivate, ProposeNumber, SendStep,
                HasProposed, PreBroadcast
  <2>3. \A q \in Proc \ {p} :
          /\ active_proposal_number'[q] = active_proposal_number[q]
          /\ proposed_value'[q] = proposed_value[q]
    BY <1>1 DEF TypeOK, ProposeAssign, ProposeActivate, ProposeNumber, countVars
  <2> QED BY <2>1, <2>2, <2>3 DEF QuietStep, Props, Nacks
<1>2. CASE SendFin(p)
  <2>1. /\ UNCHANGED <<mainPC, round_num, accepted_value, nack_count, proposed_value,
                       active_proposal_number>>
        /\ sent' = sent \cup {Fin(p, round_num[p])}
    BY <1>2 DEF SendFin, SendStep, proposerVars, countVars
  <2>2. Props' = Props /\ Nacks' = Nacks
    BY <2>1 DEF Props, Nacks, Fin
  <2>3. \A q \in Proc : HasProposed(q)' => HasProposed(q)
    BY <1>2 DEF TypeOK, SendFin, SendStep, HasProposed, PreBroadcast
  <2> QED BY <2>1, <2>2, <2>3 DEF QuietStep
<1> QED BY <1>1, <1>2 DEF SendThread

\* A FIN, and an ACK that decides, change no value.
LEMMA DecideIsQuiet ==
  ASSUME TypeOK, NEW p \in Proc, NEW m \in sent, RecvAckDecide(p, m) \/ RecvFin(p, m)
  PROVE  QuietStep
BY DEF TypeOK, RecvAckDecide, DecideLattice, RecvFin, QuietStep, HasProposed,
       PreBroadcast, Props, Nacks, threadVars, proposerVars, countVars

\* Every step is quiet or one of four.
LEMMA ValueCases ==
  ASSUME TypeOK, [Next]_vars
  PROVE  QuietStep \/ \E p \in Proc : ValueStep(p)
<1>1. CASE UNCHANGED vars
  BY <1>1 DEF QuietStep, vars, threadVars, proposerVars, countVars, HasProposed,
              PreBroadcast, Props, Nacks
<1>2. ASSUME NEW p \in Proc, MainThread(p) \/ ReseExit(p) \/ Crash(p)
      PROVE  QuietStep
  BY <1>2, MainIsQuiet DEF MainThread
<1>3. ASSUME NEW p \in Proc, SendThread(p)
      PROVE  QuietStep \/ ValueStep(p)
  BY <1>3, SendIsQuiet DEF ValueStep
<1>4. ASSUME NEW p \in Proc, NEW m \in sent, Receive(p, m) \/ RecvOtherRound(p, m)
      PROVE  QuietStep \/ ValueStep(p)
  BY <1>4, MainIsQuiet, DecideIsQuiet DEF Receive, ValueStep
<1> QED BY <1>1, <1>2, <1>3, <1>4 DEF Next, RecvThread

-----------------------------------------------------------------------------
(* The joint proposals of a round.                                         *)

\* What has been proposed stays proposed.
LEMMA JointGrows ==
  ASSUME Props \subseteq Props'
  PROVE  \A r \in Nat : Joint[r] \subseteq Joint'[r]
BY DEF Joint, Proposers

\* The proposal of a process that has proposed is among them.
LEMMA InJoint ==
  ASSUME NEW m \in Props, m.round \in Nat
  PROVE  Proposal[m.src][m.round] \subseteq Joint[m.round]
<1>1. m.src \in Proposers(m.round)
  BY DEF Proposers
<1> QED BY <1>1 DEF Joint

-----------------------------------------------------------------------------
(* The invariant is kept.                                                  *)

\* A quiet step keeps it.
LEMMA QuietKeeps ==
  ASSUME TypeOK, TypeOK', ValueInv, QuietStep
  PROVE  ValueInv'
<1>1. Props' = Props /\ Nacks' = Nacks
  BY DEF QuietStep
<1>2. Joint' = Joint
  BY <1>1 DEF Joint, Proposers
<1>3. ProposalsGrow' /\ PropValues' /\ NackValues'
  BY <1>1, <1>2 DEF ValueInv, ProposalsGrow, PropValues, NackValues, Answers
<1>4. AcceptedValues'
  BY <1>2 DEF ValueInv, AcceptedValues, QuietStep
<1>5. ASSUME NEW p \in Proc, HasProposed(p)' PROVE GrowOk(p)'
  <2>1. GrowOk(p)
    BY <1>5 DEF ValueInv, GrowInv, QuietStep
  <2> QED BY <1>1, <1>2, <1>5, <2>1 DEF GrowOk, QuietStep
<1> QED BY <1>3, <1>4, <1>5 DEF ValueInv, GrowInv

\* The same for the process that has not moved, when others have proposed.
LEMMA GrowFrame ==
  ASSUME TypeOK, NEW p \in Proc, HasProposed(p), GrowOk(p),
         round_num'[p] = round_num[p],
         active_proposal_number'[p] = active_proposal_number[p],
         nack_count'[p] = nack_count[p], proposed_value'[p] = proposed_value[p],
         Props \subseteq Props', \A m \in Props' : m.src = p => m \in Props
  PROVE  GrowOk(p)'
<1>1. round_num[p] \in Nat
  BY RoundsAssumption DEF TypeOK
<1>2. Joint[round_num[p]] \subseteq Joint'[round_num[p]]
  BY <1>1, JointGrows
<1> QED BY <1>2 DEF GrowOk

\* What is said of the proposals and NACKs after a new proposal, which contains
\* that of its process, only what was proposed, and more than any before it.
LEMMA NewProposal ==
  ASSUME TypeOK, TypeOK', ValueInv, AnswerInv, NEW x \in PropMessage,
         Props' = Props \cup {x}, Nacks' = Nacks,
         Proposal[x.src][x.round] \subseteq x.val,
         x.val \subseteq Joint[x.round] \cup Proposal[x.src][x.round],
         \A m \in Props : m.src = x.src /\ m.round = x.round =>
           m.num < x.num /\ m.val \subseteq x.val /\ m.val # x.val
  PROVE  ProposalsGrow' /\ PropValues' /\ NackValues' /\ x.val \subseteq Joint'[x.round]
<1>0. x.src \in Proc /\ x.round \in Nat /\ x.num \in Nat
  BY DEF PropMessage
<1>1. \A r \in Nat : Joint[r] \subseteq Joint'[r]
  BY JointGrows
<1>2. x.src \in Proposers(x.round)'
  BY DEF Proposers
<1>3. x.val \subseteq Joint'[x.round]
  <2>1. Joint'[x.round] = UNION {Proposal[q][x.round] : q \in Proposers(x.round)'}
    BY <1>0 DEF Joint, Proposers
  <2>2. Proposal[x.src][x.round] \subseteq Joint'[x.round]
    BY <1>2, <2>1
  <2> QED BY <1>0, <1>1, <2>2
<1>4. \A m \in Props : /\ m.src \in Proc /\ m.round \in Nat /\ m.num \in Nat
  BY NetworkTypes
<1>5. ProposalsGrow'
  <2>1. ASSUME NEW m \in Props', NEW n \in Props', m.src = n.src, m.round = n.round,
               m.num < n.num
        PROVE  m.val \subseteq n.val /\ m.val # n.val
    <3>1. CASE m \in Props /\ n \in Props
      BY <2>1, <3>1 DEF ValueInv, ProposalsGrow
    <3>2. CASE m \in Props /\ n = x
      BY <2>1, <3>2
    <3>3. CASE m = x /\ n \in Props
      <4>1. n.num < m.num /\ n.num \in Nat /\ m.num \in Nat
        BY <1>0, <1>4, <2>1, <3>3
      <4> QED BY <2>1, <4>1
    <3>4. CASE m = x /\ n = x
      BY <1>0, <2>1, <3>4
    <3> QED BY <3>1, <3>2, <3>3, <3>4
  <2> QED BY <2>1 DEF ProposalsGrow
<1>6. PropValues'
  BY <1>1, <1>3, <1>4 DEF ValueInv, PropValues
<1>7. NackValues'
  <2>1. ASSUME NEW a \in Nacks
        PROVE  a.round \in Nat /\ a.val \subseteq Joint'[a.round]
    <3>1. a.round \in Nat
      BY NetworkTypes DEF NackMessage
    <3> QED BY <1>1, <3>1 DEF ValueInv, NackValues
  <2>2. ASSUME NEW a \in Nacks, NEW m \in Props', Answers(a, m)
        PROVE  m \in Props
    <3>1. PICK n \in Props : Answers(a, n)
      BY DEF AnswerInv
    <3>2. n.src = m.src /\ n.round = m.round /\ n.num = m.num
      BY <2>2, <3>1 DEF Answers
    <3>3. m # x
      BY <1>0, <1>4, <3>2
    <3> QED BY <3>3
  <2> QED BY <2>1, <2>2 DEF ValueInv, NackValues, Answers
<1> QED BY <1>3, <1>5, <1>6, <1>7

\* What an acceptor holds stays proposed when it does not change.
LEMMA AcceptedFrame ==
  ASSUME TypeOK, AcceptedValues, Props \subseteq Props',
         UNCHANGED <<mainPC, round_num, accepted_value>>
  PROVE  AcceptedValues'
<1>1. \A p \in Proc : round_num[p] \in Nat
  BY RoundsAssumption DEF TypeOK
<1>2. \A r \in Nat : Joint[r] \subseteq Joint'[r]
  BY JointGrows
<1> QED BY <1>1, <1>2 DEF AcceptedValues

-----------------------------------------------------------------------------
(* The four steps.                                                         *)

\* The first proposal of a round.
LEMMA BroadcastKeeps ==
  ASSUME TypeOK, TypeOK', MessageInv, SendInv, ValueInv, NEW p \in Proc,
         ProposeBroadcast(p)
  PROVE  ValueInv'
<1>0. PropInv /\ AnswerInv /\ round_num[p] \in Nat /\ active_proposal_number[p] \in Nat
  BY RoundsAssumption DEF MessageInv, TypeOK
<1>1. mainPC[p] = "join" /\ sendPC[p] = "propose" /\ ~HasProposed(p)
  BY DEF TypeOK, ProposeBroadcast, SendStep, HasProposed, PreBroadcast
<1>2. proposed_value[p] = Proposal[p][round_num[p]]
  BY <1>1 DEF SendInv, SendOk, PreBroadcast
<1>3. PICK x \in PropMessage : x = Prop(p, round_num[p], active_proposal_number[p],
                                       proposed_value[p])
  BY <1>0, MessageTypes DEF TypeOK
<1>4. /\ x.src = p /\ x.round = round_num[p] /\ x.val = proposed_value[p]
      /\ x.num = active_proposal_number[p] /\ x.type = "P"
  BY <1>3 DEF Prop
<1>5. /\ UNCHANGED <<mainPC, round_num, accepted_value, proposed_value, active_proposal_number>>
      /\ sent' = sent \cup {x}
      /\ nack_count' = [nack_count EXCEPT ![p] = {}]
  BY <1>2, <1>3 DEF ProposeBroadcast, SendStep
<1>6. Props' = Props \cup {x} /\ Nacks' = Nacks
  BY <1>4, <1>5, SendOne
<1>7. \A m \in Props : ~(m.src = p /\ m.round = round_num[p])
  BY <1>0, <1>1, NoPropBeforeBroadcast
<1>8. ProposalsGrow' /\ PropValues' /\ NackValues' /\ x.val \subseteq Joint'[x.round]
  BY <1>0, <1>2, <1>4, <1>6, <1>7, NewProposal
<1>9. AcceptedValues'
  BY <1>5, <1>6, AcceptedFrame DEF ValueInv
<1>10. ASSUME NEW q \in Proc, HasProposed(q)' PROVE GrowOk(q)'
  <2>1. CASE q = p
    <3>1. nack_count'[p] = {}
      BY <1>5 DEF TypeOK
    <3>2. \A m \in Props' : m.src = p /\ m.round = round_num[p] => m = x
      BY <1>6, <1>7
    <3> QED BY <1>0, <1>2, <1>4, <1>5, <1>8, <2>1, <3>1, <3>2 DEF GrowOk
  <2>2. CASE q # p
    <3>1. HasProposed(q)
      BY <1>10, <2>2 DEF TypeOK, ProposeBroadcast, SendStep, HasProposed, PreBroadcast
    <3>2. nack_count'[q] = nack_count[q]
      BY <1>5, <2>2 DEF TypeOK
    <3>3. GrowOk(q)
      BY <3>1 DEF ValueInv, GrowInv
    <3> QED BY <1>4, <1>5, <1>6, <2>2, <3>1, <3>2, <3>3, GrowFrame
  <2> QED BY <2>1, <2>2
<1> QED BY <1>8, <1>9, <1>10 DEF ValueInv, GrowInv

\* An acceptor answers: with a NACK that contains something new.
LEMMA PropKeeps ==
  ASSUME TypeOK, TypeOK', MessageInv, ValueInv, NEW p \in Proc, NEW m \in sent,
         RecvProp(p, m)
  PROVE  ValueInv'
<1>0. /\ round_num[p] \in Nat /\ m \in Props /\ m.round = round_num[p]
      /\ m.src \in Proc /\ m.num \in Nat /\ m.val \in SUBSET Value
      /\ mainPC[p] = "join" /\ UniqueProp
  BY RoundsAssumption, NetworkTypes DEF TypeOK, RecvProp, Receives, Props, MessageInv
<1>1. /\ accepted_value' = [accepted_value EXCEPT ![p] = NewAccepted(p, m.val)]
      /\ sent' = sent \cup {Reply(p, m)}
      /\ UNCHANGED <<threadVars, proposerVars>>
  BY DEF RecvProp
<1>2. NewAccepted(p, m.val) \subseteq Joint[round_num[p]]
  BY <1>0 DEF ValueInv, AcceptedValues, PropValues, NewAccepted
<1>3. Props' = Props
  BY <1>1, SendOne DEF Reply, Ack, Nack
<1>4. Joint' = Joint
  BY <1>3 DEF Joint, Proposers
<1>5. AcceptedValues'
  BY <1>1, <1>2, <1>4 DEF TypeOK, ValueInv, AcceptedValues, threadVars
<1>6. GrowInv'
  <2>1. ASSUME NEW q \in Proc, HasProposed(q)' PROVE GrowOk(q)'
    <3>1. HasProposed(q) /\ GrowOk(q)
      BY <1>1, <2>1 DEF threadVars, HasProposed, PreBroadcast, ValueInv, GrowInv
    <3> QED BY <1>1, <1>3, <1>4, <3>1 DEF GrowOk, threadVars, proposerVars, countVars
  <2> QED BY <2>1 DEF GrowInv
<1>7. NackValues'
  <2>1. CASE Accepts(p, m.val)
    <3>1. Nacks' = Nacks
      BY <1>1, <2>1, SendOne DEF Reply, Ack
    <3> QED BY <1>3, <1>4, <3>1 DEF ValueInv, NackValues, Answers
  <2>2. CASE ~Accepts(p, m.val)
    <3> DEFINE a == Nack(p, m.src, round_num[p], m.num, NewAccepted(p, m.val))
    <3>1. Reply(p, m) = a /\ a.type = "N"
      BY <2>2 DEF Reply, Nack
    <3>2. /\ a.val = accepted_value[p] \cup m.val /\ a.round = round_num[p]
          /\ a.dst = m.src /\ a.num = m.num /\ a.val \subseteq Joint[a.round]
      BY <1>2, <2>2 DEF Nack, NewAccepted
    <3>3. ~(a.val \subseteq m.val)
      BY <2>2, <3>2 DEF Accepts
    <3>4. \A n \in Props : Answers(a, n) => n = m
      BY <1>0, <3>2 DEF Answers, UniqueProp
    <3> HIDE DEF a
    <3>5. Nacks' = Nacks \cup {a}
      BY <1>1, <3>1, SendOne
    <3> QED BY <1>3, <1>4, <3>2, <3>3, <3>4, <3>5 DEF ValueInv, NackValues, Answers
  <2> QED BY <2>1, <2>2
<1>8. ProposalsGrow' /\ PropValues'
  BY <1>3, <1>4 DEF ValueInv, ProposalsGrow, PropValues
<1> QED BY <1>5, <1>6, <1>7, <1>8 DEF ValueInv

\* The counts are checked, with or without a new proposal.
LEMMA CountKeeps ==
  ASSUME TypeOK, TypeOK', MessageInv, ValueInv, NEW p \in Proc, HasProposed(p),
         NEW acks \in SUBSET Proc, NEW nacks \in SUBSET Proc, NEW value \in SUBSET Value,
         CheckNackCount(p, acks, nacks, value),
         UNCHANGED <<mainPC, sendPC, round_num, accepted_value>>,
         \A q \in Proc : proposed_value'[q] = IF q = p THEN value ELSE proposed_value[q],
         Proposal[p][round_num[p]] \subseteq value,
         value \subseteq Joint[round_num[p]],
         \A m \in Props : m.src = p /\ m.round = round_num[p] =>
           /\ m.val \subseteq value
           /\ m.num < active_proposal_number[p] \/ nacks # {} => m.val # value
  PROVE  ValueInv'
<1>0. /\ PropInv /\ AnswerInv
      /\ round_num[p] \in Nat /\ active_proposal_number[p] \in Nat
      /\ UNCHANGED <<mainPC, sendPC, round_num>>
  BY RoundsAssumption DEF MessageInv, TypeOK
<1>1. \A q \in Proc : HasProposed(q)' => HasProposed(q) /\ GrowOk(q)
  BY <1>0 DEF HasProposed, PreBroadcast, ValueInv, GrowInv
<1>2. proposed_value'[p] = value /\ \A q \in Proc \ {p} : proposed_value'[q] = proposed_value[q]
  BY DEF TypeOK
<1>3. CASE MustRepropose(p, acks, nacks)
  <2>1. nacks # {}
    BY <1>3 DEF MustRepropose
  <2>2. PICK x \in PropMessage :
          x = Prop(p, round_num[p], active_proposal_number[p] + 1, value)
    <3>1. active_proposal_number[p] + 1 \in Nat
      BY <1>0
    <3>2. Prop(p, round_num[p], active_proposal_number[p] + 1, value) \in PropMessage
      BY <1>0, <3>1, MessageTypes
    <3> QED BY <3>2
  <2>3. /\ x.src = p /\ x.round = round_num[p] /\ x.val = value
        /\ x.num = active_proposal_number[p] + 1 /\ x.type = "P"
    BY <2>2 DEF Prop
  <2>4. /\ sent' = sent \cup {x}
        /\ active_proposal_number' = [active_proposal_number EXCEPT ![p] = @ + 1]
        /\ nack_count' = [nack_count EXCEPT ![p] = {}]
    BY <1>3, <2>2 DEF CheckNackCount
  <2>5. Props' = Props \cup {x} /\ Nacks' = Nacks
    BY <2>3, <2>4, SendOne
  <2>6. \A m \in Props : m.src = p /\ m.round = round_num[p] =>
           m.num < x.num /\ m.val \subseteq x.val /\ m.val # x.val
    <3>1. \A m \in Props : m.src = p /\ m.round = round_num[p] =>
             m.num <= active_proposal_number[p] /\ m.num \in Nat
      BY <1>0, NetworkTypes DEF PropInv
    <3> QED BY <1>0, <2>1, <2>3, <3>1
  <2>7. ProposalsGrow' /\ PropValues' /\ NackValues' /\ x.val \subseteq Joint'[x.round]
    BY <1>0, <2>3, <2>5, <2>6, NewProposal
  <2>8. AcceptedValues'
    BY <1>0, <2>5, AcceptedFrame DEF ValueInv
  <2>9. ASSUME NEW q \in Proc, HasProposed(q)' PROVE GrowOk(q)'
    <3>1. CASE q = p
      <4>1. nack_count'[p] = {} /\ active_proposal_number'[p] = x.num
        BY <2>3, <2>4 DEF TypeOK
      <4>2. x.num \in Nat
        BY <1>0, <2>3
      <4> QED BY <1>0, <1>2, <2>3, <2>5, <2>6, <2>7, <3>1, <4>1, <4>2 DEF GrowOk
    <3>2. CASE q # p
      <4>1. /\ nack_count'[q] = nack_count[q]
            /\ active_proposal_number'[q] = active_proposal_number[q]
        BY <2>4, <3>2 DEF TypeOK
      <4> QED BY <1>0, <1>1, <1>2, <2>3, <2>5, <2>9, <3>2, <4>1, GrowFrame
    <3> QED BY <3>1, <3>2
  <2> QED BY <2>7, <2>8, <2>9 DEF ValueInv, GrowInv
<1>4. CASE ~MustRepropose(p, acks, nacks)
  <2>1. /\ nack_count' = [nack_count EXCEPT ![p] = nacks]
        /\ UNCHANGED <<active_proposal_number, sent>>
    BY <1>4 DEF CheckNackCount
  <2>2. Props' = Props /\ Nacks' = Nacks
    BY <2>1 DEF Props, Nacks
  <2>3. Joint' = Joint
    BY <2>2 DEF Joint, Proposers
  <2>4. ProposalsGrow' /\ PropValues' /\ NackValues'
    BY <2>2, <2>3 DEF ValueInv, ProposalsGrow, PropValues, NackValues, Answers
  <2>5. AcceptedValues'
    BY <1>0, <2>2, AcceptedFrame DEF ValueInv
  <2>6. ASSUME NEW q \in Proc, HasProposed(q)' PROVE GrowOk(q)'
    <3>1. CASE q = p
      <4>1. nack_count'[p] = nacks
        BY <2>1 DEF TypeOK
      <4> QED BY <1>0, <1>2, <2>1, <2>2, <2>3, <3>1, <4>1 DEF GrowOk
    <3>2. CASE q # p
      <4>1. nack_count'[q] = nack_count[q]
        BY <2>1, <3>2 DEF TypeOK
      <4> QED BY <1>0, <1>1, <1>2, <2>1, <2>2, <2>6, <3>2, <4>1, GrowFrame
    <3> QED BY <3>1, <3>2
  <2> QED BY <2>4, <2>5, <2>6 DEF ValueInv, GrowInv
<1> QED BY <1>3, <1>4

\* An ACK that does not decide.
LEMMA AckKeeps ==
  ASSUME TypeOK, TypeOK', MessageInv, ValueInv, NEW p \in Proc, NEW m \in sent,
         RecvAckCount(p, m)
  PROVE  ValueInv'
<1>1. HasProposed(p) /\ m.src \in Proc
  BY ReceiverHasProposed DEF RecvAckCount, MessageInv
<1>2. GrowOk(p) /\ proposed_value[p] \in SUBSET Value
  BY <1>1 DEF ValueInv, GrowInv, TypeOK
<1> DEFINE acks == ack_count[p] \cup {m.src}
           nacks == nack_count[p]
           value == proposed_value[p]
<1>3. /\ CheckNackCount(p, acks, nacks, value)
      /\ UNCHANGED <<mainPC, sendPC, round_num, accepted_value>>
      /\ \A q \in Proc : proposed_value'[q] = IF q = p THEN value ELSE proposed_value[q]
  BY DEF RecvAckCount, TypeOK, threadVars
<1>4. /\ acks \in SUBSET Proc /\ nacks \in SUBSET Proc /\ value \in SUBSET Value
      /\ Proposal[p][round_num[p]] \subseteq value
      /\ value \subseteq Joint[round_num[p]]
      /\ \A x \in Props : x.src = p /\ x.round = round_num[p] =>
           /\ x.val \subseteq value
           /\ x.num < active_proposal_number[p] \/ nacks # {} => x.val # value
  BY <1>1, <1>2 DEF GrowOk, TypeOK
<1> HIDE DEF acks, nacks, value
<1> QED BY <1>1, <1>3, <1>4, CountKeeps

\* A NACK: its value is not contained in the current proposal, nor, as proposals
\* grow, is the new proposed value contained in any other.
LEMMA NackKeeps ==
  ASSUME TypeOK, TypeOK', MessageInv, ValueInv, NEW p \in Proc, NEW a \in sent,
         RecvNack(p, a)
  PROVE  ValueInv'
<1>0. /\ AnswerInv /\ PropInv /\ UniqueProp
      /\ round_num[p] \in Nat /\ active_proposal_number[p] \in Nat
  BY RoundsAssumption DEF MessageInv, TypeOK
<1>1. /\ HasProposed(p) /\ a \in Nacks /\ a.dst = p /\ a.src \in Proc
      /\ a.round = round_num[p] /\ a.num = active_proposal_number[p]
  BY <1>0, ReceiverHasProposed DEF RecvNack, CurrentAnswer, Receives, Nacks
<1>2. GrowOk(p) /\ proposed_value[p] \cup a.val \in SUBSET Value
  BY <1>1, NetworkTypes DEF ValueInv, GrowInv, TypeOK, NackMessage
<1>3. a.val \subseteq Joint[round_num[p]]
  BY <1>1 DEF ValueInv, NackValues
<1>4. ASSUME NEW m \in Props, m.src = p, m.round = round_num[p]
      PROVE  m.val \subseteq proposed_value[p] \cup a.val
             /\ m.val # proposed_value[p] \cup a.val
  <2>1. m.val \subseteq proposed_value[p]
    BY <1>2, <1>4 DEF GrowOk
  <2>2. CASE m.num = active_proposal_number[p]
    <3>1. Answers(a, m)
      BY <1>1, <1>4, <2>2 DEF Answers
    <3>2. ~(a.val \subseteq m.val)
      BY <1>1, <3>1 DEF ValueInv, NackValues
    <3> QED BY <2>1, <3>2
  <2>3. CASE m.num # active_proposal_number[p]
    <3>1. m.num < active_proposal_number[p]
      BY <1>0, <1>4, <2>3, NetworkTypes DEF PropInv
    <3>2. m.val # proposed_value[p]
      BY <1>2, <1>4, <3>1 DEF GrowOk
    <3> QED BY <2>1, <3>2
  <2> QED BY <2>2, <2>3
<1> DEFINE acks == ack_count[p]
           nacks == nack_count[p] \cup {a.src}
           value == proposed_value[p] \cup a.val
<1>5. /\ CheckNackCount(p, acks, nacks, value)
      /\ UNCHANGED <<mainPC, sendPC, round_num, accepted_value>>
      /\ \A q \in Proc : proposed_value'[q] = IF q = p THEN value ELSE proposed_value[q]
  BY DEF RecvNack, TypeOK, threadVars
<1>6. /\ acks \in SUBSET Proc /\ nacks \in SUBSET Proc /\ value \in SUBSET Value
      /\ Proposal[p][round_num[p]] \subseteq value
      /\ value \subseteq Joint[round_num[p]]
      /\ \A x \in Props : x.src = p /\ x.round = round_num[p] =>
           x.val \subseteq value /\ x.val # value
  BY <1>1, <1>2, <1>3, <1>4 DEF GrowOk, TypeOK
<1> HIDE DEF acks, nacks, value
<1> QED BY <1>1, <1>5, <1>6, CountKeeps

-----------------------------------------------------------------------------
(* The theorems.                                                           *)

\* Nothing has been proposed at first.
LEMMA ValueInit == Init => ValueInv
<1> SUFFICES ASSUME Init PROVE ValueInv
  OBVIOUS
<1>1. Props = {} /\ Nacks = {} /\ \A p \in Proc : mainPC[p] = "loop"
  BY DEF Init, Props, Nacks
<1> QED BY <1>1 DEF ValueInv, ProposalsGrow, PropValues, NackValues, AcceptedValues,
                    GrowInv, HasProposed

\* Every step keeps the invariant of the values.
LEMMA ValueNext == IInv /\ TypeOK' /\ ValueInv /\ [Next]_vars => ValueInv'
<1> SUFFICES ASSUME IInv, TypeOK', ValueInv, [Next]_vars PROVE ValueInv'
  OBVIOUS
<1>1. TypeOK /\ MessageInv /\ SendInv
  BY DEF IInv
<1>2. CASE QuietStep
  BY <1>1, <1>2, QuietKeeps
<1>3. ASSUME NEW p \in Proc, ValueStep(p) PROVE ValueInv'
  BY <1>1, <1>3, BroadcastKeeps, PropKeeps, AckKeeps, NackKeeps DEF ValueStep
<1> QED BY <1>1, <1>2, <1>3, ValueCases

\* The values of the messages and of the proposers, in every reachable state.
THEOREM ValueInvariant == Spec => []ValueInv
<1>1. IInv => TypeOK
  BY DEF IInv
<1> QED BY <1>1, ValueInit, ValueNext, Invariant, PTL DEF Spec

\* Of two proposals of a process in a round the later one is strictly larger.
THEOREM ProposalsGrowHolds == Spec => []ProposalsGrow
<1>1. ValueInv => ProposalsGrow
  BY DEF ValueInv
<1> QED BY <1>1, ValueInvariant, PTL

\* What is decided was broadcast by its process, and every proposal contains the
\* process's own set and only what was proposed.
LEMMA DecidedIsValid == IInv /\ ValueInv => Validity
<1> SUFFICES ASSUME IInv, ValueInv, NEW p \in Proc, NEW i \in 1 .. Len(output[p])
             PROVE  /\ Proposal[p][i - 1] \subseteq output[p][i]
                    /\ output[p][i] \subseteq UNION {Proposal[q][i - 1] : q \in Proposers(i - 1)}
  BY DEF Validity
<1>1. TypeOK /\ DecidedWasAccepted
  BY DEF IInv
<1>2. PICK m \in Props : m.src = p /\ m.round = i - 1 /\ m.val = output[p][i]
  BY <1>1 DEF DecidedWasAccepted
<1>3. m.round \in Nat
  BY <1>1, NetworkTypes
<1>4. Proposal[m.src][m.round] \subseteq m.val /\ m.val \subseteq Joint[m.round]
  BY DEF ValueInv, PropValues
<1>5. Joint[m.round] = UNION {Proposal[q][m.round] : q \in Proposers(m.round)}
  BY <1>3 DEF Joint
<1> QED BY <1>2, <1>4, <1>5

\* A decision contains the process's own proposal and only what was proposed.
THEOREM ValidityHolds == Spec => []Validity
BY Invariant, ValueInvariant, DecidedIsValid, PTL

-----------------------------------------------------------------------------
(* The refinement mapping, action by action.                               *)

\* A step that begins no proposal and writes nothing.  Leaving a round whose
\* proposal is out does not change how many rounds have been started.
LEMMA StartedKept ==
  ASSUME TypeOK, NEW p \in Proc,
         \/ StartRound(p) \/ JoinThreads(p) \/ ReseExit(p) \/ Crash(p)
         \/ SendThread(p) /\ ~ProposeBroadcast(p)
  PROVE  UNCHANGED <<started, output>>
<1> USE DEF HasProposed, PreBroadcast, started
<1>1. CASE StartRound(p)
  BY <1>1 DEF TypeOK, StartRound
<1>2. CASE JoinThreads(p)
  <2>1. /\ round_num[p] \in Nat /\ mainPC'[p] = "loop" /\ round_num'[p] = round_num[p] + 1
        /\ HasProposed(p) /\ UNCHANGED <<output, sendPC>>
    BY <1>2, RoundsAssumption DEF TypeOK, JoinThreads
  <2>2. \A q \in Proc \ {p} : mainPC'[q] = mainPC[q] /\ round_num'[q] = round_num[q]
    BY <1>2 DEF TypeOK, JoinThreads
  <2> QED BY <2>1, <2>2
<1>3. CASE ReseExit(p) \/ Crash(p)
  BY <1>3 DEF ReseExit, Crash, threadVars
<1>4. CASE SendThread(p) /\ ~ProposeBroadcast(p)
  <2>1. UNCHANGED <<mainPC, round_num, output>>
    BY <1>4 DEF SendThread, SendStep, ProposeAssign, ProposeActivate, ProposeNumber, SendFin
  <2>2. \A q \in Proc : HasProposed(q)' = HasProposed(q)
    BY <1>4 DEF TypeOK, SendThread, SendStep, ProposeAssign, ProposeActivate, ProposeNumber,
                SendFin
  <2> HIDE DEF HasProposed
  <2> QED BY <2>1, <2>2
<1> QED BY <1>1, <1>2, <1>3, <1>4

\* No handler but that of the deciding ACK writes to the file.
LEMMA HandlerKept ==
  ASSUME NEW p \in Proc, NEW m \in sent,
         Receive(p, m) \/ RecvOtherRound(p, m), ~RecvAckDecide(p, m)
  PROVE  UNCHANGED <<started, output>>
<1>1. UNCHANGED <<mainPC, sendPC, round_num, output>>
  BY DEF Receive, RecvProp, RecvAckCount, RecvNack, RecvFin, RecvOtherRound, threadVars
<1> QED BY <1>1 DEF started, HasProposed, PreBroadcast

\* The broadcast of a proposal starts the round.
LEMMA BroadcastStarts ==
  ASSUME TypeOK, OutputOrder, NEW p \in Proc, ProposeBroadcast(p)
  PROVE  LS!Propose(p)
<1>1. mainPC[p] = "join" /\ sendPC[p] = "propose" /\ ~HasProposed(p)
  BY DEF TypeOK, ProposeBroadcast, SendStep, HasProposed, PreBroadcast
<1>2. /\ round_num[p] \in Nat /\ round_num[p] < Rounds
      /\ Len(output[p]) = round_num[p] /\ started[p] = round_num[p]
  BY <1>1, RoundsAssumption DEF TypeOK, OutputOrder, HasDecided, started
<1>3. /\ UNCHANGED <<mainPC, round_num, output>>
      /\ sendPC' = [sendPC EXCEPT ![p] = "wait"]
  BY DEF ProposeBroadcast, SendStep
<1>4. HasProposed(p)' /\ \A q \in Proc \ {p} : HasProposed(q)' = HasProposed(q)
  BY <1>1, <1>3 DEF TypeOK, HasProposed, PreBroadcast
<1>5. started' = [started EXCEPT ![p] = @ + 1]
  BY <1>1, <1>2, <1>3, <1>4 DEF started
<1> QED BY <1>2, <1>3, <1>5 DEF LS!Propose

\* What has been proposed in a round, by processes that have started it.
LEMMA JointStarted ==
  ASSUME TypeOK, PropInv, NEW r \in Nat
  PROVE  Joint[r] \subseteq LS!Joint(r)
<1>1. Joint[r] = UNION {Proposal[q][r] : q \in Proposers(r)}
  BY DEF Joint
<1>2. ASSUME NEW q \in Proposers(r) PROVE q \in Proc /\ started[q] > r
  <2>1. PICK m \in Props : m.src = q /\ m.round = r
    BY DEF Proposers
  <2>2. q \in Proc /\ round_num[q] \in Nat
    BY <2>1, NetworkTypes, RoundsAssumption DEF TypeOK
  <2>3. r < round_num[q] \/ (r = round_num[q] /\ HasProposed(q))
    BY <2>1 DEF PropInv
  <2> QED BY <2>2, <2>3 DEF started
<1> QED BY <1>1, <1>2 DEF LS!Joint

\* The deciding ACK is a decision of the specification.
LEMMA AckDecides ==
  ASSUME IInv, IInv', ValueInv, NEW p \in Proc, NEW m \in sent, RecvAckDecide(p, m)
  PROVE  \E v \in SUBSET Value : LS!Decide(p, v)
<1> DEFINE v == proposed_value[p]
           r == round_num[p]
<1>1. TypeOK /\ MessageInv /\ ProposerInv /\ OutputOrder /\ PropInv
  BY DEF IInv, MessageInv
<1>2. /\ output' = [output EXCEPT ![p] = Append(@, v)]
      /\ HasProposed(p) /\ Len(output[p]) = r
  BY <1>1, DecideStep
<1>3. v \in SUBSET Value /\ r \in Nat /\ output[p] \in Seq(SUBSET Value)
  BY <1>1, RoundsAssumption DEF TypeOK
<1>4. started[p] = r + 1
  BY <1>2 DEF started
<1>5. Proposal[p][r] \subseteq v /\ v \subseteq Joint[r]
  BY <1>2 DEF ValueInv, GrowInv, GrowOk
<1>6. v \subseteq LS!Joint(r)
  BY <1>1, <1>3, <1>5, JointStarted
<1>7. output'[p][r + 1] = v /\ Len(output'[p]) = r + 1
  BY <1>1, <1>2, <1>3 DEF TypeOK
<1>8. Consistency'
  BY IInvConsistency, PTL
<1>9. ASSUME NEW q \in Proc, Len(output[q]) > r
      PROVE  LS!Comparable(v, output[q][r + 1])
  <2>1. q # p
    BY <1>2, <1>3, <1>9
  <2>2. output'[q] = output[q] /\ Len(output[q]) \in Nat
    BY <1>1, <1>2, <2>1 DEF TypeOK
  <2>3. r + 1 \in 1 .. Len(output'[p]) /\ r + 1 <= Len(output'[q])
    BY <1>3, <1>7, <1>9, <2>2
  <2>4. Comparable(output'[p][r + 1], output'[q][r + 1])
    BY <1>8, <2>3 DEF Consistency, Comparable
  <2> QED BY <1>7, <2>2, <2>4 DEF LS!Comparable, Comparable
<1>10. UNCHANGED started
  BY DEF RecvAckDecide, DecideLattice, threadVars, started, HasProposed, PreBroadcast
<1> QED BY <1>2, <1>3, <1>4, <1>5, <1>6, <1>9, <1>10 DEF LS!Decide

\* Initially nothing was started or decided.
LEMMA RefinementInit == Init => LS!SpecInit
BY DEF Init, LS!SpecInit, started, HasProposed

\* A step of the program is a proposal, a decision, or a stutter.
LEMMA RefinementStep ==
  IInv /\ IInv' /\ ValueInv /\ [Next]_vars => [LS!SpecNext]_<<started, output>>
<1> SUFFICES ASSUME IInv, IInv', ValueInv, [Next]_vars
             PROVE  LS!SpecNext \/ UNCHANGED <<started, output>>
  OBVIOUS
<1>1. TypeOK /\ OutputOrder
  BY DEF IInv
<1>2. CASE UNCHANGED vars
  BY <1>2 DEF vars, threadVars, started, HasProposed, PreBroadcast
<1>3. ASSUME NEW p \in Proc, ProposeBroadcast(p) PROVE LS!SpecNext
  BY <1>1, <1>3, BroadcastStarts DEF LS!SpecNext
<1>4. ASSUME NEW p \in Proc, NEW m \in sent, RecvAckDecide(p, m) PROVE LS!SpecNext
  BY <1>4, AckDecides DEF LS!SpecNext
<1>5. ASSUME NEW p \in Proc, MainThread(p) \/ SendThread(p) \/ ReseExit(p) \/ Crash(p)
      PROVE  LS!SpecNext \/ UNCHANGED <<started, output>>
  BY <1>1, <1>3, <1>5, StartedKept DEF MainThread
<1>6. ASSUME NEW p \in Proc, NEW m \in sent, Receive(p, m) \/ RecvOtherRound(p, m)
      PROVE  LS!SpecNext \/ UNCHANGED <<started, output>>
  BY <1>4, <1>6, HandlerKept
<1> QED BY <1>2, <1>5, <1>6 DEF Next, RecvThread

\* The program implements LatticeSpec: what its processes write is what
\* verify_lattice.cpp accepts, one decision after the other.
THEOREM Refinement == Spec => RefinesLatticeSpec
<1>1. Spec => [](IInv /\ ValueInv)
  BY Invariant, ValueInvariant, PTL
<1> QED BY <1>1, RefinementInit, RefinementStep, PTL
        DEF Spec, RefinesLatticeSpec, LS!AbstractSpec, LS!specVars

-----------------------------------------------------------------------------
(* The verifier.                                                           *)

\* A line that is written obeys Validity, one that is not is read as {}.
LEMMA DecisionLines ==
  ASSUME IInv, ValueInv, NEW p \in Proc, NEW i \in 1 .. Rounds
  PROVE  /\ proposals[p][i] = Proposal[p][i - 1]
         /\ i <= Len(output[p]) =>
              /\ decisions[p][i] = output[p][i]
              /\ proposals[p][i] \subseteq decisions[p][i]
              /\ decisions[p][i] \subseteq UNION {proposals[q][i] : q \in Proc}
         /\ i > Len(output[p]) => decisions[p][i] = {}
         /\ Len(output[p]) \in Nat
<1>1. TypeOK /\ Validity
  BY DecidedIsValid DEF IInv
<1>2. i \in Nat /\ Len(output[p]) \in Nat
  BY <1>1, RoundsAssumption DEF TypeOK
<1>3. \A q \in Proc : proposals[q][i] = Proposal[q][i - 1]
  BY DEF proposals
<1>4. decisions[p][i] = IF i <= Len(output[p]) THEN output[p][i] ELSE {}
  BY DEF decisions, ReadOutput
<1>5. ASSUME i <= Len(output[p])
      PROVE  /\ Proposal[p][i - 1] \subseteq output[p][i]
             /\ output[p][i] \subseteq UNION {Proposal[q][i - 1] : q \in Proc}
  <2>1. i \in 1 .. Len(output[p])
    BY <1>2, <1>5, RoundsAssumption
  <2>2. Proposers(i - 1) \subseteq Proc
    BY <1>1, NetworkTypes DEF Proposers
  <2>3. /\ Proposal[p][i - 1] \subseteq output[p][i]
        /\ output[p][i] \subseteq UNION {Proposal[q][i - 1] : q \in Proposers(i - 1)}
    BY <1>1, <2>1 DEF Validity
  <2> QED BY <2>2, <2>3
<1>6. UNION {proposals[q][i] : q \in Proc} = UNION {Proposal[q][i - 1] : q \in Proc}
  BY <1>3
<1> QED BY <1>2, <1>3, <1>4, <1>5, <1>6

\* The verdict, in every state that satisfies the invariants.
LEMMA VerdictHolds == IInv /\ ValueInv => VerifierVerdict
<1> SUFFICES ASSUME IInv, ValueInv PROVE VerifierVerdict
  OBVIOUS
<1>1. JointFailures(proposals, decisions, Rounds) = {}
  <2>1. ASSUME NEW x \in (1 .. Rounds) \X Proc
        PROVE  decisions[x[2]][x[1]] \subseteq UNION {proposals[q][x[1]] : q \in Proc}
    <3>1. x[1] \in 1 .. Rounds /\ x[2] \in Proc
      OBVIOUS
    <3>2. x[1] \in Int /\ Len(output[x[2]]) \in Nat
      BY <3>1, DecisionLines
    <3>3. x[1] <= Len(output[x[2]]) \/ x[1] > Len(output[x[2]])
      BY <3>2
    <3> QED BY <3>1, <3>3, DecisionLines
  <2> QED BY <2>1 DEF JointFailures
<1>2. ConsistencyFailures(decisions, Rounds) = {}
  <2>1. ASSUME NEW i \in 1 .. Rounds, NEW p \in Proc, NEW q \in Proc
        PROVE  decisions[p][i] \subseteq decisions[q][i] \/ decisions[q][i] \subseteq decisions[p][i]
    <3>0. i \in Nat /\ i >= 1 /\ Len(output[p]) \in Nat /\ Len(output[q]) \in Nat
      BY DecisionLines, RoundsAssumption
    <3>1. CASE i > Len(output[p]) \/ i > Len(output[q])
      BY <3>1, DecisionLines
    <3>2. CASE i <= Len(output[p]) /\ i <= Len(output[q])
      <4>1. i \in 1 .. Len(output[p])
        BY <3>0, <3>2
      <4>2. Comparable(output[p][i], output[q][i])
        BY <3>2, <4>1, IInvConsistency DEF Consistency
      <4> QED BY <3>2, <4>2, DecisionLines DEF Comparable
    <3> QED BY <3>0, <3>1, <3>2
  <2>2. ASSUME NEW x \in (1 .. Rounds) \X Proc \X Proc
        PROVE  \/ decisions[x[2]][x[1]] \subseteq decisions[x[3]][x[1]]
               \/ decisions[x[3]][x[1]] \subseteq decisions[x[2]][x[1]]
    <3>1. x[1] \in 1 .. Rounds /\ x[2] \in Proc /\ x[3] \in Proc
      OBVIOUS
    <3> QED BY <2>1, <3>1
  <2> QED BY <2>2 DEF ConsistencyFailures
<1>3. SubsetFailures(proposals, decisions, Rounds) = Unwritten
  <2>1. ASSUME NEW x \in (1 .. Rounds) \X Proc
        PROVE  ~(proposals[x[2]][x[1]] \subseteq decisions[x[2]][x[1]])
                 <=> x[1] > Len(output[x[2]]) /\ Proposal[x[2]][x[1] - 1] # {}
    <3>1. x[1] \in 1 .. Rounds /\ x[2] \in Proc
      OBVIOUS
    <3>2. x[1] \in Int /\ Len(output[x[2]]) \in Nat
      BY <3>1, DecisionLines
    <3>3. CASE x[1] <= Len(output[x[2]])
      BY <3>1, <3>2, <3>3, DecisionLines
    <3>4. CASE x[1] > Len(output[x[2]])
      BY <3>1, <3>4, DecisionLines
    <3> QED BY <3>2, <3>3, <3>4
  <2> QED BY <2>1 DEF SubsetFailures, Unwritten
<1> QED BY <1>1, <1>2, <1>3 DEF VerifierVerdict

\* At any moment verify_lattice.cpp complains of the missing lines only.
THEOREM VerifierVerdictHolds == Spec => []VerifierVerdict
BY Invariant, ValueInvariant, VerdictHolds, PTL

=============================================================================
