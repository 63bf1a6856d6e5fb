------------------------- MODULE LatticeLinksProofs -------------------------
(***************************************************************************)
(* The program over its link implements LatticeAgreement, so that all that *)
(* is proved there holds here too, and the link does not stop resending    *)
(* what has not arrived, as long as its sender stays in the round.         *)
(***************************************************************************)
EXTENDS LatticeLinks, LatticeAgreementProofs

-----------------------------------------------------------------------------
(* The steps of the program.                                               *)

\* Every step over the link is one of the program or leaves its variables alone.
LEMMA LinkStepIsStep == [LinkNext]_allVars => [Next]_vars
<1> SUFFICES ASSUME LinkNext PROVE Next \/ UNCHANGED vars
  BY DEF allVars
<1>1. ASSUME NEW p \in Proc, NEW m \in sent, LinkReceive(p, m)
      PROVE  RecvThread(p) \/ UNCHANGED vars
  BY <1>1 DEF LinkReceive, Dropped, RecvThread
<1>2. ASSUME NEW p \in Proc, NEW a \in link_acks, ReceiveLinkAck(p, a[1], a[2])
      PROVE  UNCHANGED vars
  BY <1>2 DEF ReceiveLinkAck
<1>3. ASSUME NEW p \in Proc, Resend(p) PROVE UNCHANGED vars
  BY <1>3 DEF Resend
<1>4. ASSUME NEW p \in Proc,
             \/ LinkStartRound(p) \/ LinkSendThread(p) \/ LinkJoinThreads(p)
             \/ LinkReseExit(p) \/ LinkCrash(p)
      PROVE  MainThread(p) \/ SendThread(p) \/ ReseExit(p) \/ Crash(p)
  BY <1>4 DEF LinkStartRound, LinkSendThread, LinkJoinThreads, LinkReseExit, LinkCrash,
              MainThread
<1> QED BY <1>1, <1>2, <1>3, <1>4 DEF LinkNext, Next

\* Retransmission, acknowledgements and the reset of the link at every round
\* only choose among the deliveries that LatticeAgreement allows.
THEOREM LinksRefinement == LinkSpec => Spec
BY LinkStepIsStep, PTL DEF LinkSpec, LinkInit, Spec

\* The decisions are comparable whatever the link loses.
THEOREM LinksConsistency == LinkSpec => []Consistency
BY LinksRefinement, ConsistencyHolds, PTL

-----------------------------------------------------------------------------
(* Messages and rounds.                                                    *)

\* The message a handler or the send thread of p sends is of the round of p.
SendsOwn(p) == /\ mainPC[p] = "join" /\ UNCHANGED <<mainPC, round_num>>
               /\ sent \subseteq sent'
               /\ \A m \in sent' \ sent : m.src = p /\ m.round = round_num[p]

\* The send thread.
LEMMA SendThreadSends ==
  ASSUME TypeOK, NEW p \in Proc, SendThread(p)
  PROVE  SendsOwn(p)
BY DEF TypeOK, SendThread, SendStep, ProposeAssign, ProposeActivate, ProposeNumber,
       ProposeBroadcast, SendFin, SendsOwn, Prop, Fin, PreBroadcast

\* The receive thread, of which only the answer to a proposal may be on the
\* network already.
LEMMA ReceiveSends ==
  ASSUME TypeOK, NEW p \in Proc, NEW m \in sent, LinkReceive(p, m)
  PROVE  SendsOwn(p) /\ sent' \ sent \subseteq Emitted(p, m)
<1>1. mainPC[p] = "join"
  BY DEF LinkReceive, TypeOK
<1>2. CASE RecvProp(p, m)
  <2>1. /\ sent' = sent \cup {Reply(p, m)} /\ UNCHANGED <<mainPC, round_num>>
        /\ Emitted(p, m) = {Reply(p, m)}
    BY <1>2 DEF RecvProp, Receives, threadVars, Emitted
  <2>2. Reply(p, m).src = p /\ Reply(p, m).round = round_num[p]
    BY DEF Reply, Ack, Nack
  <2> QED BY <1>1, <2>1, <2>2 DEF SendsOwn
<1>3. CASE RecvAckDecide(p, m) \/ RecvFin(p, m) \/ RecvOtherRound(p, m) \/ Dropped(p, m)
  BY <1>1, <1>3 DEF RecvAckDecide, RecvFin, RecvOtherRound, Dropped, vars, threadVars, SendsOwn
<1>4. CASE RecvAckCount(p, m) \/ RecvNack(p, m)
  <2>1. /\ sent \subseteq sent' /\ UNCHANGED <<mainPC, round_num>>
        /\ \A x \in sent' \ sent : x.src = p /\ x.round = round_num[p]
    BY <1>4 DEF RecvAckCount, RecvNack, CheckNackCount, threadVars, Prop
  <2>2. m.type # "P"
    BY <1>4 DEF RecvAckCount, RecvNack, CurrentAnswer, Receives
  <2> QED BY <1>1, <2>1, <2>2 DEF SendsOwn, Emitted
<1> QED BY <1>2, <1>3, <1>4 DEF LinkReceive, Receive

\* What a step over the link does to rounds, messages and the history.
LEMMA LinkFacts ==
  ASSUME TypeOK, [LinkNext]_allVars
  PROVE  \/ UNCHANGED <<mainPC, round_num, sent>>
         \/ \E p \in Proc : LinkStartRound(p) \/ LinkJoinThreads(p)
         \/ \E p \in Proc : SendsOwn(p) /\ (LinkSendThread(p) \/ \E m \in sent : LinkReceive(p, m))
<1>1. CASE UNCHANGED allVars
  BY <1>1 DEF allVars, vars, threadVars
<1>2. ASSUME NEW p \in Proc, LinkReseExit(p) \/ LinkCrash(p) \/ Resend(p)
      PROVE  UNCHANGED <<mainPC, round_num, sent>>
  BY <1>2 DEF LinkReseExit, ReseExit, LinkCrash, Crash, Resend, vars, threadVars
<1>3. ASSUME NEW p \in Proc, NEW a \in link_acks, ReceiveLinkAck(p, a[1], a[2])
      PROVE  UNCHANGED <<mainPC, round_num, sent>>
  BY <1>3 DEF ReceiveLinkAck, vars, threadVars
<1>4. ASSUME NEW p \in Proc, LinkSendThread(p) PROVE SendsOwn(p)
  BY <1>4, SendThreadSends DEF LinkSendThread
<1>5. ASSUME NEW p \in Proc, NEW m \in sent, LinkReceive(p, m) PROVE SendsOwn(p)
  BY <1>5, ReceiveSends
<1> QED BY <1>1, <1>2, <1>3, <1>4, <1>5 DEF LinkNext

\* No message is of a round that its sender has not begun.
LEMMA SentInvNext ==
  ASSUME TypeOK, TypeOK', SentInv, [LinkNext]_allVars
  PROVE  SentInv'
<1>1. \A m \in sent' : m.src \in Proc /\ m.round \in Nat
  BY MessageFields DEF TypeOK
<1>2. \A p \in Proc : round_num[p] \in Nat
  BY RoundsAssumption DEF TypeOK
<1>3. CASE UNCHANGED <<mainPC, round_num, sent>>
  BY <1>3 DEF SentInv
<1>4. ASSUME NEW p \in Proc, LinkStartRound(p) PROVE SentInv'
  BY <1>1, <1>4 DEF TypeOK, SentInv, LinkStartRound, StartRound
<1>5. ASSUME NEW p \in Proc, LinkJoinThreads(p) PROVE SentInv'
  <2>1. /\ sent' = sent /\ round_num' = [round_num EXCEPT ![p] = @ + 1]
        /\ mainPC' = [mainPC EXCEPT ![p] = "loop"]
    BY <1>5 DEF LinkJoinThreads, JoinThreads
  <2> QED BY <1>1, <1>2, <2>1 DEF TypeOK, SentInv
<1>6. ASSUME NEW p \in Proc, SendsOwn(p) PROVE SentInv'
  BY <1>1, <1>2, <1>6 DEF SentInv, SendsOwn
<1> QED BY <1>3, <1>4, <1>5, <1>6, LinkFacts

-----------------------------------------------------------------------------
(* The link.                                                               *)

\* Messages are kept, queued and recorded per host.
LEMMA LinkTypesNext ==
  ASSUME TypeOK, TypeOK', LinkTypes, [LinkNext]_allVars
  PROVE  LinkTypes'
<1>0. sent \subseteq Message /\ sent' \subseteq Message
  BY DEF TypeOK
<1>1. CASE UNCHANGED allVars
  BY <1>1 DEF allVars, linkVars, LinkTypes
<1>2. ASSUME NEW p \in Proc,
             \/ LinkStartRound(p) \/ LinkJoinThreads(p) \/ LinkReseExit(p) \/ LinkCrash(p)
             \/ Resend(p) \/ \E a \in link_acks : ReceiveLinkAck(p, a[1], a[2])
      PROVE  LinkTypes'
  <2>1. CASE LinkStartRound(p)
    BY <2>1 DEF LinkTypes, LinkStartRound
  <2>2. CASE LinkJoinThreads(p) \/ LinkReseExit(p) \/ LinkCrash(p)
    BY <2>2 DEF LinkTypes, LinkJoinThreads, LinkReseExit, LinkCrash, linkVars
  <2>3. CASE Resend(p)
    BY <2>3 DEF LinkTypes, Resend
  <2>4. ASSUME NEW a \in link_acks, ReceiveLinkAck(p, a[1], a[2]) PROVE LinkTypes'
    BY <2>4 DEF LinkTypes, ReceiveLinkAck
  <2> QED BY <1>2, <2>1, <2>2, <2>3, <2>4
<1>3. ASSUME NEW p \in Proc, NEW S \in SUBSET Message, HandToLink(p, S)
      PROVE  not_delivered' \in [Proc -> SUBSET (Proc \X Message)]
  BY <1>3 DEF LinkTypes, HandToLink
<1>4. ASSUME NEW p \in Proc, LinkSendThread(p) PROVE LinkTypes'
  <2>1. sent' \ sent \in SUBSET Message
    BY <1>0
  <2> QED BY <1>3, <1>4, <2>1 DEF LinkTypes, LinkSendThread
<1>5. ASSUME NEW p \in Proc, NEW m \in sent, LinkReceive(p, m) PROVE LinkTypes'
  <2>1. Emitted(p, m) \in SUBSET Message
    BY <1>0, ReplyType DEF Emitted
  <2>2. round_num[p] \in Nat /\ m \in Message
    BY <1>0, RoundsAssumption DEF TypeOK
  <2>3. /\ ack_queue' = [ack_queue EXCEPT ![p] = @ \cup {m}]
        /\ reached' = [reached EXCEPT ![p] = @ \cup {<<m, round_num[p]>>}]
        /\ link_acks' = link_acks /\ HandToLink(p, Emitted(p, m))
    BY <1>5 DEF LinkReceive
  <2> QED BY <1>3, <2>1, <2>2, <2>3 DEF LinkTypes
<1> QED BY <1>1, <1>2, <1>4, <1>5 DEF LinkNext

\* The history grows.
LEMMA ReachedGrows ==
  ASSUME LinkTypes, [LinkNext]_allVars, NEW q \in Proc
  PROVE  reached[q] \subseteq reached'[q]
<1>1. ASSUME NEW p \in Proc, NEW m \in sent, LinkReceive(p, m)
      PROVE  reached[q] \subseteq reached'[q]
  BY <1>1 DEF LinkReceive, LinkTypes
<1>2. ASSUME NEW p \in Proc,
             \/ LinkStartRound(p) \/ LinkJoinThreads(p) \/ LinkReseExit(p) \/ LinkCrash(p)
             \/ LinkSendThread(p) \/ Resend(p)
             \/ \E a \in link_acks : ReceiveLinkAck(p, a[1], a[2])
      PROVE  reached' = reached
  BY <1>2 DEF LinkStartRound, LinkJoinThreads, LinkReseExit, LinkCrash, LinkSendThread,
              Resend, ReceiveLinkAck, linkVars
<1> QED BY <1>1, <1>2 DEF LinkNext, allVars, linkVars

\* What was handed over stays handed over.
LEMMA HandedStays ==
  ASSUME TypeOK, TypeOK', LinkTypes, [LinkNext]_allVars, NEW q \in Proc, NEW m,
         HandedTo(q, m)
  PROVE  HandedTo(q, m)'
<1>1. reached[q] \subseteq reached'[q]
  BY ReachedGrows
<1>2. round_num[q] \in Nat /\ round_num'[q] \in Nat
  BY RoundsAssumption DEF TypeOK
<1>3. round_num[q] <= round_num'[q]
  <2>1. ASSUME NEW p \in Proc, LinkStartRound(p) \/ LinkJoinThreads(p)
        PROVE  round_num'[q] = round_num[q] \/ round_num'[q] = round_num[q] + 1
    BY <2>1 DEF TypeOK, LinkStartRound, StartRound, LinkJoinThreads, JoinThreads
  <2> QED BY <1>2, <2>1, LinkFacts DEF SendsOwn
<1>4. PICK r \in 0 .. round_num[q] : <<m, r>> \in reached[q]
  BY DEF HandedTo
<1>5. r \in 0 .. round_num'[q] /\ <<m, r>> \in reached'[q]
  BY <1>1, <1>2, <1>3, <1>4
<1> QED BY <1>5 DEF HandedTo

\* A message is queued for acknowledgement when it is handed over.
LEMMA AckedInvNext ==
  ASSUME TypeOK, TypeOK', LinkTypes, AckedInv, [LinkNext]_allVars
  PROVE  AckedInv'
<1>1. \A q \in Proc, m \in Message : HandedTo(q, m) => HandedTo(q, m)'
  BY HandedStays
<1>2. /\ \A q \in Proc : \A m \in ack_queue'[q] : m \in ack_queue[q] \/ HandedTo(q, m)'
      /\ \A a \in link_acks' : \/ a \in link_acks
                               \/ a[1] \in Proc /\ a[2] \in ack_queue[a[1]]
  <2>1. CASE UNCHANGED allVars
    BY <2>1 DEF allVars, linkVars
  <2>2. ASSUME NEW p \in Proc,
               \/ LinkJoinThreads(p) \/ LinkReseExit(p) \/ LinkCrash(p) \/ LinkSendThread(p)
               \/ \E a \in link_acks : ReceiveLinkAck(p, a[1], a[2])
        PROVE  ack_queue' = ack_queue /\ link_acks' = link_acks
    BY <2>2 DEF LinkJoinThreads, LinkReseExit, LinkCrash, LinkSendThread, ReceiveLinkAck,
                linkVars
  <2>3. ASSUME NEW p \in Proc, LinkStartRound(p) \/ Resend(p)
        PROVE  /\ \A q \in Proc : ack_queue'[q] \subseteq ack_queue[q]
               /\ \A a \in link_acks' : \/ a \in link_acks
                                        \/ a[1] \in Proc /\ a[2] \in ack_queue[a[1]]
    BY <2>3 DEF LinkTypes, LinkStartRound, Resend
  <2>4. ASSUME NEW p \in Proc, NEW x \in sent, LinkReceive(p, x)
        PROVE  /\ \A q \in Proc : \A m \in ack_queue'[q] : m \in ack_queue[q] \/ HandedTo(q, m)'
               /\ link_acks' = link_acks
    <3>1. /\ ack_queue' = [ack_queue EXCEPT ![p] = @ \cup {x}] /\ link_acks' = link_acks
          /\ reached' = [reached EXCEPT ![p] = @ \cup {<<x, round_num[p]>>}]
      BY <2>4 DEF LinkReceive
    <3>2. round_num'[p] = round_num[p] /\ round_num[p] \in 0 .. round_num[p]
      <4>1. SendsOwn(p)
        BY <2>4, ReceiveSends
      <4>2. round_num[p] \in Nat
        BY RoundsAssumption DEF TypeOK
      <4> QED BY <4>1, <4>2 DEF SendsOwn
    <3>3. <<x, round_num[p]>> \in reached'[p]
      BY <3>1 DEF LinkTypes
    <3>4. HandedTo(p, x)'
      BY <3>2, <3>3 DEF HandedTo
    <3> QED BY <3>1, <3>4 DEF LinkTypes
  <2> QED BY <2>1, <2>2, <2>3, <2>4 DEF LinkNext
<1>3. \A a \in link_acks' : a[1] \in Proc /\ a[2] \in Message
  BY LinkTypesNext DEF LinkTypes
<1>4. \A q \in Proc : \A m \in ack_queue[q] : m \in Message /\ HandedTo(q, m)
  BY DEF LinkTypes, AckedInv
<1>5. \A a \in link_acks' : HandedTo(a[1], a[2])
  BY <1>2, <1>4 DEF AckedInv
<1> QED BY <1>1, <1>2, <1>3, <1>4, <1>5 DEF AckedInv

\* A new message is kept by its sender for every host it is addressed to.
LEMMA NewIsKept ==
  ASSUME TypeOK, LinkTypes, NEW p \in Proc, SendsOwn(p),
         LinkSendThread(p) \/ \E x \in sent : LinkReceive(p, x),
         NEW m \in sent' \ sent, NEW q \in Proc, AddressedTo(m, q)
  PROVE  m.src = p /\ <<q, m>> \in not_delivered'[p]
<1>1. PICK S : HandToLink(p, S) /\ m \in S
  <2>1. CASE LinkSendThread(p)
    BY <2>1 DEF LinkSendThread
  <2>2. ASSUME NEW x \in sent, LinkReceive(p, x)
        PROVE  HandToLink(p, Emitted(p, x)) /\ m \in Emitted(p, x)
    BY <2>2, ReceiveSends DEF LinkReceive
  <2> QED BY <2>1, <2>2
<1>2. <<q, m>> \in {x \in Proc \X S : AddressedTo(x[2], x[1])}
  BY <1>1
<1> QED BY <1>1, <1>2 DEF LinkTypes, HandToLink, SendsOwn

\* Only the beginning of a round, and the acknowledgement of what was handed over,
\* take anything out of not_delivered.
LEMMA KeptUntilReached ==
  ASSUME TypeOK, LinkTypes, AckedInv, [LinkNext]_allVars, NEW p \in Proc,
         ~LinkStartRound(p), NEW q \in Proc, NEW m \in Message,
         <<q, m>> \in not_delivered[p]
  PROVE  <<q, m>> \in not_delivered'[p] \/ HandedTo(q, m)
<1>1. CASE UNCHANGED allVars
  BY <1>1 DEF allVars, linkVars
<1>2. ASSUME NEW x \in Proc, LinkStartRound(x)
      PROVE  not_delivered'[p] = not_delivered[p]
  BY <1>2 DEF LinkStartRound, LinkTypes
<1>3. ASSUME NEW x \in Proc,
             LinkJoinThreads(x) \/ LinkReseExit(x) \/ LinkCrash(x) \/ Resend(x)
      PROVE  not_delivered' = not_delivered
  BY <1>3 DEF LinkJoinThreads, LinkReseExit, LinkCrash, Resend, linkVars
<1>4. ASSUME NEW x \in Proc, NEW S, HandToLink(x, S)
      PROVE  not_delivered[p] \subseteq not_delivered'[p]
  BY <1>4 DEF HandToLink, LinkTypes
<1>5. ASSUME NEW x \in Proc, LinkSendThread(x) \/ \E y \in sent : LinkReceive(x, y)
      PROVE  not_delivered[p] \subseteq not_delivered'[p]
  BY <1>4, <1>5 DEF LinkSendThread, LinkReceive
<1>6. ASSUME NEW x \in Proc, NEW a \in link_acks, ReceiveLinkAck(x, a[1], a[2])
      PROVE  <<q, m>> \in not_delivered'[p] \/ HandedTo(q, m)
  <2>1. CASE <<q, m>> = <<a[1], a[2]>>
    BY <2>1 DEF AckedInv
  <2>2. CASE <<q, m>> # <<a[1], a[2]>>
    BY <1>6, <2>2 DEF ReceiveLinkAck, Acknowledged, LinkTypes
  <2> QED BY <2>1, <2>2
<1> QED BY <1>1, <1>2, <1>3, <1>5, <1>6 DEF LinkNext

\* A message of the current round is kept from the moment it is sent.
LEMMA ResentNext ==
  ASSUME TypeOK, TypeOK', LinkTypes, SentInv, AckedInv, ResentUntilReached,
         [LinkNext]_allVars
  PROVE  ResentUntilReached'
<1>1. SUFFICES ASSUME NEW m \in sent', NEW q \in Proc, m.round = round_num'[m.src],
                      mainPC'[m.src] = "join", AddressedTo(m, q)
               PROVE  <<q, m>> \in not_delivered'[m.src] \/ HandedTo(q, m)'
  BY DEF ResentUntilReached, HandedTo, AddressedTo
<1>2. m \in Message /\ m.src \in Proc
  BY MessageFields DEF TypeOK
<1>3. CASE m \notin sent
  <2>1. \E p \in Proc : SendsOwn(p) /\ (LinkSendThread(p) \/ \E x \in sent : LinkReceive(p, x))
    <3>1. ASSUME NEW p \in Proc, LinkStartRound(p) \/ LinkJoinThreads(p)
          PROVE  sent' = sent
      BY <3>1 DEF LinkStartRound, StartRound, LinkJoinThreads, JoinThreads
    <3> QED BY <1>1, <1>3, <3>1, LinkFacts
  <2> QED BY <1>1, <1>3, <2>1, NewIsKept
<1>4. CASE m \in sent
  <2>1. ~LinkStartRound(m.src)
    <3>1. LinkStartRound(m.src) => mainPC[m.src] = "loop" /\ round_num' = round_num
      BY DEF LinkStartRound, StartRound
    <3> QED BY <1>1, <1>4, <3>1 DEF SentInv
  <2>2. mainPC[m.src] = "join" /\ m.round = round_num[m.src]
    <3>1. ASSUME NEW p \in Proc, LinkStartRound(p) \/ LinkJoinThreads(p)
          PROVE  mainPC'[m.src] = mainPC[m.src] /\ round_num'[m.src] = round_num[m.src]
      <4>1. /\ mainPC' = [mainPC EXCEPT ![p] = "join"] \/ mainPC' = [mainPC EXCEPT ![p] = "loop"]
            /\ round_num' = round_num \/ round_num' = [round_num EXCEPT ![p] = @ + 1]
        BY <3>1 DEF LinkStartRound, StartRound, LinkJoinThreads, JoinThreads
      <4>2. p # m.src
        BY <1>1, <1>2, <2>1, <3>1 DEF TypeOK, LinkJoinThreads, JoinThreads
      <4>3. mainPC \in [Proc -> {"loop", "join"}] /\ round_num \in [Proc -> 0 .. Rounds]
        BY DEF TypeOK
      <4> QED BY <1>2, <4>1, <4>2, <4>3
    <3> QED BY <1>1, <1>2, <3>1, LinkFacts DEF SendsOwn
  <2>3. <<q, m>> \in not_delivered[m.src] \/ HandedTo(q, m)
    BY <1>1, <1>4, <2>2 DEF ResentUntilReached, HandedTo
  <2>4. <<q, m>> \in not_delivered'[m.src] \/ HandedTo(q, m)
    BY <1>2, <2>1, <2>3, KeptUntilReached
  <2> QED BY <2>4, HandedStays
<1> QED BY <1>3, <1>4

\* The link starts empty.
LEMMA LinkInvInit == LinkInit => LinkInv
BY DEF LinkInit, Init, LinkInv, LinkTypes, SentInv, AckedInv, ResentUntilReached

\* Every step keeps the invariant of the link.
LEMMA LinkInvNext == TypeOK /\ TypeOK' /\ LinkInv /\ [LinkNext]_allVars => LinkInv'
BY LinkTypesNext, SentInvNext, AckedInvNext, ResentNext DEF LinkInv

\* The inductive invariant of the link.
THEOREM LinkInvariant == LinkSpec => []LinkInv
<1>1. LinkSpec => []TypeOK
  BY LinksRefinement, TypeCorrect, PTL
<1> QED BY <1>1, LinkInvInit, LinkInvNext, PTL DEF LinkSpec

\* What has not arrived is resent, as long as its sender is in the round.
THEOREM ResentUntilReachedHolds == LinkSpec => []ResentUntilReached
<1>1. LinkInv => ResentUntilReached
  BY DEF LinkInv
<1> QED BY <1>1, LinkInvariant, PTL

=============================================================================
