-------------------- MODULE UniformReliableBroadcastProofs --------------------
(***************************************************************************)
(* Proofs about UniformReliableBroadcast, for any finite set of processes, *)
(* any texts, any requests of the applications and any number of crashes.  *)
(***************************************************************************)
EXTENDS UniformReliableBroadcast, FiniteSetTheorems, TLAPS

\* What a packet on the network says: the message was requested, and the packet
\* and its source name processes.
LEMMA PacketTypes ==
  ASSUME TypeOK, NEW x \in sent
  PROVE  /\ SourceDatum(x) \in requested
         /\ SourceDatum(x) = <<x.src, x.text>>
         /\ x.from \in Proc /\ x.src \in Proc /\ x.text \in Text
BY DEF TypeOK, Packet, SourceDatum

\* A requested message has a source and a text.
LEMMA RequestTypes ==
  ASSUME TypeOK, NEW d \in requested
  PROVE  /\ d \in Broadcasts /\ d \in Proc \X Text
         /\ d = <<d[1], d[2]>> /\ d[1] \in Proc /\ d[2] \in Text
BY BroadcastsAssumption DEF TypeOK

\* Sending a requested message to all keeps the types.
LEMMA SendTypes ==
  ASSUME TypeOK, NEW p \in Proc, NEW from \in Proc, NEW d \in requested',
         d \in Proc \X Text, requested \subseteq requested',
         SendToAll(p, from, d)
  PROVE  /\ not_delivered' \in [Proc -> SUBSET (Proc \X requested')]
         /\ sent' \subseteq {x \in Packet : <<x.src, x.text>> \in requested'}
<1>1. not_delivered' \in [Proc -> SUBSET (Proc \X requested')]
  BY DEF SendToAll, TypeOK
<1>2. Copies(from, d) \subseteq {x \in Packet : <<x.src, x.text>> \in requested'}
  BY DEF Copies, Packet
<1> QED BY <1>1, <1>2 DEF SendToAll, TypeOK

\* check_pending_urb: the process holds the message afterwards, and whatever it
\* held before.
LEMMA CheckTypes ==
  ASSUME TypeOK, NEW p \in Proc, NEW d \in requested, NEW acked,
         CheckPending(p, d, acked)
  PROVE  /\ pending' \in [Proc -> SUBSET requested]
         /\ delivered_urb' \in [Proc -> SUBSET requested]
         /\ output' \in [Proc -> Seq(Datum)]
         /\ d \in pending'[p] \cup delivered_urb'[p]
         /\ \A q \in Proc, e \in requested : Holds(q, e) => Holds(q, e)'
<1>1. d \in Datum
  BY RequestTypes DEF Datum
<1>2. CASE CanDeliver(p, d, acked)
  <2>1. /\ delivered_urb' = [delivered_urb EXCEPT ![p] = @ \cup {d}]
        /\ output' = [output EXCEPT ![p] = Append(@, d)]
        /\ pending' = [pending EXCEPT ![p] = @ \ {d}]
    BY <1>2 DEF CheckPending
  <2> QED BY <1>1, <2>1 DEF TypeOK, Holds
<1>3. CASE ~CanDeliver(p, d, acked)
  <2>1. /\ pending' = [pending EXCEPT ![p] = @ \cup {d}]
        /\ UNCHANGED <<delivered_urb, output>>
    BY <1>3 DEF CheckPending
  <2> QED BY <2>1 DEF TypeOK, Holds
<1> QED BY <1>2, <1>3

\* The part of a delivery that RecvNew and RecvPending share.
LEMMA RecvTypes ==
  ASSUME TypeOK, NEW p \in Proc, NEW x \in sent, Recv(p, x)
  PROVE  /\ ack' \in [Proc -> [Text -> SUBSET Proc]]
         /\ link_acks' \subseteq Proc \X Proc \X requested
         /\ pending' \in [Proc -> SUBSET requested]
         /\ delivered_urb' \in [Proc -> SUBSET requested]
         /\ output' \in [Proc -> Seq(Datum)]
<1>1. SourceDatum(x) \in requested /\ x.from \in Proc /\ x.text \in Text
  BY PacketTypes
<1>2. Arrives(p, x) /\ CheckPending(p, SourceDatum(x), Acked(p, x))
  BY DEF Recv, RecvNew, RecvPending
<1>3. ack' \in [Proc -> [Text -> SUBSET Proc]]
  BY <1>1, <1>2 DEF Arrives, Acked, TypeOK
<1>4. link_acks' \subseteq Proc \X Proc \X requested
  BY <1>1, <1>2 DEF Arrives, TypeOK
<1> QED BY <1>1, <1>2, <1>3, <1>4, CheckTypes

\* The initial state has the types.
LEMMA TypeInit == Init => TypeOK
BY DEF Init, TypeOK

\* Every step keeps the types.
LEMMA TypeNext == TypeOK /\ [Next]_vars => TypeOK'
<1> SUFFICES ASSUME TypeOK, [Next]_vars PROVE TypeOK'
  OBVIOUS
<1>1. ASSUME NEW p \in Proc, NEW t \in Text, Broadcast(p, t) PROVE TypeOK'
  <2>1. <<p, t>> \in requested' /\ <<p, t>> \in Proc \X Text
    BY <1>1 DEF Broadcast
  <2>2. requested \subseteq requested' /\ requested' \subseteq Broadcasts
    BY <1>1 DEF Broadcast, TypeOK
  <2>3. /\ not_delivered' \in [Proc -> SUBSET (Proc \X requested')]
        /\ sent' \subseteq {x \in Packet : <<x.src, x.text>> \in requested'}
    BY <1>1, <2>1, <2>2, SendTypes DEF Broadcast
  <2>4. /\ pending' \in [Proc -> SUBSET requested']
        /\ delivered_urb' \in [Proc -> SUBSET requested']
        /\ link_acks' \subseteq Proc \X Proc \X requested'
    BY <1>1, <2>1, <2>2 DEF Broadcast, TypeOK
  <2> QED BY <1>1, <2>2, <2>3, <2>4 DEF Broadcast, TypeOK
<1>2. ASSUME NEW p \in Proc, NEW x \in sent, Recv(p, x) PROVE TypeOK'
  <2>1. /\ ack' \in [Proc -> [Text -> SUBSET Proc]]
        /\ link_acks' \subseteq Proc \X Proc \X requested
        /\ pending' \in [Proc -> SUBSET requested]
        /\ delivered_urb' \in [Proc -> SUBSET requested]
        /\ output' \in [Proc -> Seq(Datum)]
    BY <1>2, RecvTypes
  <2>2. requested' = requested /\ alive' = alive
    BY <1>2 DEF Recv, RecvNew, RecvPending
  <2>3. /\ not_delivered' \in [Proc -> SUBSET (Proc \X requested')]
        /\ sent' \subseteq {y \in Packet : <<y.src, y.text>> \in requested'}
    <3>1. CASE RecvNew(p, x)
      BY <2>2, <3>1, PacketTypes, RequestTypes, SendTypes DEF RecvNew
    <3>2. CASE RecvPending(p, x)
      BY <2>2, <3>2 DEF RecvPending, TypeOK
    <3> QED BY <1>2, <3>1, <3>2 DEF Recv
  <2> QED BY <2>1, <2>2, <2>3 DEF TypeOK
<1>3. ASSUME NEW p \in Proc, NEW q, NEW d, ReceiveLinkAck(p, q, d) PROVE TypeOK'
  BY <1>3 DEF ReceiveLinkAck, urbVars, TypeOK
<1>4. ASSUME NEW p \in Proc, Resend(p) PROVE TypeOK'
  <2>1. ASSUME NEW e \in not_delivered[p]
        PROVE  Retransmission(p, e) \in {x \in Packet : <<x.src, x.text>> \in requested}
    <3>1. e[1] \in Proc /\ e[2] \in requested
      BY DEF TypeOK
    <3>2. e[2][1] \in Proc /\ e[2][2] \in Text /\ <<e[2][1], e[2][2]>> \in requested
      BY <3>1, RequestTypes
    <3> QED BY <3>1, <3>2 DEF Retransmission, Packet
  <2>2. sent' \subseteq {x \in Packet : <<x.src, x.text>> \in requested}
    BY <1>4, <2>1 DEF Resend, TypeOK
  <2> QED BY <1>4, <2>2 DEF Resend, urbVars, TypeOK
<1>5. ASSUME NEW p \in Proc, Crash(p) PROVE TypeOK'
  BY <1>5 DEF Crash, urbVars, TypeOK
<1>6. CASE UNCHANGED vars
  BY <1>6 DEF vars, urbVars, TypeOK
<1> QED BY <1>1, <1>2, <1>3, <1>4, <1>5, <1>6 DEF Next

\* Every variable stays in its type, for every value of the constants.
THEOREM TypeCorrect == Spec => []TypeOK
BY TypeInit, TypeNext, PTL DEF Spec

-----------------------------------------------------------------------------
(* A process never lets go of a message.                                   *)

\* A process that receives a message holds it.
LEMMA RecvHolds ==
  ASSUME TypeOK, NEW p \in Proc, NEW x \in sent, Recv(p, x)
  PROVE  /\ Holds(p, SourceDatum(x))'
         /\ \A q \in Proc, d \in requested : Holds(q, d) => Holds(q, d)'
<1>1. SourceDatum(x) \in requested
  BY PacketTypes
<1>2. CheckPending(p, SourceDatum(x), Acked(p, x))
  BY DEF Recv, RecvNew, RecvPending
<1>3. /\ SourceDatum(x) \in pending'[p] \cup delivered_urb'[p]
      /\ \A q \in Proc, d \in requested : Holds(q, d) => Holds(q, d)'
  BY <1>1, <1>2, CheckTypes
<1> QED BY <1>3 DEF Holds, SourceDatum

\* What is held stays held, what is requested stays requested.
LEMMA HoldsGrows ==
  ASSUME TypeOK, [Next]_vars
  PROVE  /\ requested \subseteq requested'
         /\ \A q \in Proc, d \in requested : Holds(q, d) => Holds(q, d)'
<1>1. ASSUME NEW p \in Proc, NEW t \in Text, Broadcast(p, t)
      PROVE  /\ requested \subseteq requested'
             /\ \A q \in Proc, d \in requested : Holds(q, d) => Holds(q, d)'
  BY <1>1 DEF Broadcast, TypeOK, Holds
<1>2. ASSUME NEW p \in Proc, NEW x \in sent, Recv(p, x)
      PROVE  /\ requested \subseteq requested'
             /\ \A q \in Proc, d \in requested : Holds(q, d) => Holds(q, d)'
  BY <1>2, RecvHolds DEF Recv, RecvNew, RecvPending
<1>3. ASSUME NEW p \in Proc,
             \/ \E q, d : ReceiveLinkAck(p, q, d)
             \/ Resend(p)
             \/ Crash(p)
      PROVE  UNCHANGED <<requested, urbVars>>
  BY <1>3 DEF ReceiveLinkAck, Resend, Crash
<1>4. CASE UNCHANGED <<requested, urbVars>>
  BY <1>4 DEF urbVars, Holds
<1> QED BY <1>1, <1>2, <1>3, <1>4 DEF Next, vars

-----------------------------------------------------------------------------
(* The inductive invariant.                                                *)

\* The source of a requested message holds it.
LEMMA SourceHolds ==
  ASSUME TypeOK, TypeOK', HeldInv, [Next]_vars, NEW d \in requested'
  PROVE  Holds(d[1], d)'
<1>1. CASE d \in requested
  BY <1>1, HoldsGrows, RequestTypes DEF HeldInv
<1>2. ASSUME NEW p \in Proc, NEW t \in Text, Broadcast(p, t), d = <<p, t>>
      PROVE  Holds(d[1], d)'
  BY <1>2 DEF Broadcast, TypeOK, Holds
<1>3. ASSUME NEW p \in Proc, NEW t \in Text, Broadcast(p, t), d \notin requested
      PROVE  d = <<p, t>>
  BY <1>3 DEF Broadcast
<1>4. CASE requested' = requested
  BY <1>1, <1>4
<1>5. ASSUME NEW p \in Proc,
             \/ \E x \in sent : Recv(p, x)
             \/ \E q, e : ReceiveLinkAck(p, q, e)
             \/ Resend(p)
             \/ Crash(p)
      PROVE  requested' = requested
  BY <1>5 DEF Recv, RecvNew, RecvPending, ReceiveLinkAck, Resend, Crash
<1> QED BY <1>1, <1>2, <1>3, <1>4, <1>5 DEF Next, vars

\* A process holds what it resends.
LEMMA ResentHolds ==
  ASSUME TypeOK, TypeOK', HeldInv, [Next]_vars,
         NEW p \in Proc, NEW e \in not_delivered'[p]
  PROVE  Holds(p, e[2])'
<1>1. CASE e \in not_delivered[p]
  <2>1. e[2] \in requested
    BY <1>1 DEF TypeOK
  <2> QED BY <1>1, <2>1, HoldsGrows DEF HeldInv
<1>2. ASSUME NEW q \in Proc, NEW t \in Text, Broadcast(q, t)
      PROVE  Holds(p, e[2])'
  <2>1. CASE p = q /\ e[2] = <<q, t>>
    BY <1>2, <2>1 DEF Broadcast, TypeOK, Holds
  <2>2. CASE ~(p = q /\ e[2] = <<q, t>>)
    BY <1>1, <1>2, <2>2 DEF Broadcast, SendToAll, TypeOK
  <2> QED BY <2>1, <2>2
<1>3. ASSUME NEW q \in Proc, NEW x \in sent, Recv(q, x)
      PROVE  Holds(p, e[2])'
  <2>1. CASE p = q /\ e[2] = SourceDatum(x)
    BY <1>3, <2>1, RecvHolds DEF Holds, SourceDatum
  <2>2. CASE ~(p = q /\ e[2] = SourceDatum(x))
    BY <1>1, <1>3, <2>2 DEF Recv, RecvNew, RecvPending, SendToAll, TypeOK
  <2> QED BY <2>1, <2>2
<1>4. ASSUME NEW q \in Proc,
             \/ \E r, d : ReceiveLinkAck(q, r, d)
             \/ Resend(q)
             \/ Crash(q)
      PROVE  not_delivered'[p] \subseteq not_delivered[p]
  BY <1>4 DEF ReceiveLinkAck, Resend, Crash, TypeOK
<1>5. CASE UNCHANGED vars
  BY <1>1, <1>5 DEF vars
<1> QED BY <1>1, <1>2, <1>3, <1>4, <1>5 DEF Next

\* A process holds the message of every packet that bears its name.
LEMMA SenderHolds ==
  ASSUME TypeOK, TypeOK', HeldInv, [Next]_vars, NEW x \in sent'
  PROVE  Holds(x.from, SourceDatum(x))'
<1>1. CASE x \in sent
  <2>1. SourceDatum(x) \in requested /\ x.from \in Proc
    BY <1>1, PacketTypes
  <2>2. Holds(x.from, SourceDatum(x))
    BY <1>1 DEF HeldInv
  <2> QED BY <2>1, <2>2, HoldsGrows DEF SourceDatum, Holds
<1>2. ASSUME NEW q \in Proc, NEW t \in Text, Broadcast(q, t)
      PROVE  Holds(x.from, SourceDatum(x))'
  <2>1. CASE x \in Copies(q, <<q, t>>)
    BY <1>2, <2>1 DEF Broadcast, Copies, SourceDatum, TypeOK, Holds
  <2>2. CASE x \notin Copies(q, <<q, t>>)
    BY <1>1, <1>2, <2>2 DEF Broadcast, SendToAll
  <2> QED BY <2>1, <2>2
<1>3. ASSUME NEW q \in Proc, NEW y \in sent, Recv(q, y)
      PROVE  Holds(x.from, SourceDatum(x))'
  <2>1. SourceDatum(y) \in requested /\ SourceDatum(y) = <<y.src, y.text>> /\ y.src \in Proc
    BY PacketTypes
  <2>2. Holds(y.src, SourceDatum(y))
    BY <2>1 DEF HeldInv
  <2>3. CASE x \in Copies(y.src, SourceDatum(y))
    <3>1. x.from = y.src /\ SourceDatum(x) = SourceDatum(y)
      BY <2>1, <2>3 DEF Copies, SourceDatum
    <3> QED BY <2>1, <2>2, <3>1, HoldsGrows DEF Holds, SourceDatum
  <2>4. CASE x \notin Copies(y.src, SourceDatum(y))
    BY <1>1, <1>3, <2>4 DEF Recv, RecvNew, RecvPending, SendToAll
  <2> QED BY <2>3, <2>4
<1>4. ASSUME NEW q \in Proc, Resend(q), x \notin sent
      PROVE  Holds(x.from, SourceDatum(x))'
  <2>1. PICK e \in not_delivered[q] : x = Retransmission(q, e)
    BY <1>4 DEF Resend
  <2>2. e[2] \in requested
    BY DEF TypeOK
  <2>3. e[2] = <<e[2][1], e[2][2]>>
    BY <2>2, RequestTypes
  <2>4. x.from = q /\ SourceDatum(x) = e[2]
    BY <2>1, <2>3 DEF Retransmission, SourceDatum
  <2>5. Holds(q, e[2])
    BY DEF HeldInv
  <2> QED BY <2>2, <2>4, <2>5, HoldsGrows DEF Holds, SourceDatum
<1>5. ASSUME NEW q \in Proc, (\E r, d : ReceiveLinkAck(q, r, d)) \/ Crash(q)
      PROVE  sent' = sent
  BY <1>5 DEF ReceiveLinkAck, Crash
<1>6. CASE UNCHANGED vars
  BY <1>1, <1>6 DEF vars
<1> QED BY <1>1, <1>2, <1>3, <1>4, <1>5, <1>6 DEF Next

\* A process whose acknowledgement of a text is counted holds the text, of some
\* source.
LEMMA AckedHolds ==
  ASSUME TypeOK, TypeOK', HeldInv, [Next]_vars,
         NEW p \in Proc, NEW t \in Text, NEW c \in ack'[p][t]
  PROVE  \E d \in requested' : d[2] = t /\ Holds(c, d)'
<1>1. CASE c \in ack[p][t]
  <2>1. PICK d \in requested : d[2] = t /\ Holds(c, d)
    BY <1>1 DEF HeldInv
  <2>2. c \in Proc
    BY <1>1 DEF TypeOK
  <2> QED BY <2>1, <2>2, HoldsGrows
<1>2. ASSUME NEW q \in Proc, NEW x \in sent, Recv(q, x), c \notin ack[p][t]
      PROVE  \E d \in requested' : d[2] = t /\ Holds(c, d)'
  <2>1. Arrives(q, x)
    BY <1>2 DEF Recv, RecvNew, RecvPending
  <2>2. p = q /\ t = x.text /\ c = x.from
    BY <1>2, <2>1 DEF Arrives, Acked, TypeOK
  <2>3. /\ SourceDatum(x) \in requested /\ SourceDatum(x)[2] = x.text
        /\ x.from \in Proc /\ Holds(x.from, SourceDatum(x))
    BY PacketTypes DEF HeldInv
  <2> QED BY <2>2, <2>3, HoldsGrows DEF Holds, SourceDatum
<1>3. ASSUME NEW q \in Proc,
             \/ \E u \in Text : Broadcast(q, u)
             \/ \E r, d : ReceiveLinkAck(q, r, d)
             \/ Resend(q)
             \/ Crash(q)
      PROVE  ack' = ack
  BY <1>3 DEF Broadcast, ReceiveLinkAck, Resend, Crash, urbVars
<1>4. CASE UNCHANGED vars
  BY <1>1, <1>4 DEF vars, urbVars
<1> QED BY <1>1, <1>2, <1>3, <1>4 DEF Next

\* The output changes only at a delivery, by the message delivered.
LEMMA OutputStep ==
  ASSUME [Next]_vars
  PROVE  \/ UNCHANGED <<delivered_urb, output>>
         \/ \E p \in Proc, x \in sent :
              /\ Recv(p, x)
              /\ SourceDatum(x) \notin delivered_urb[p]
              /\ Quorum(Acked(p, x))
              /\ delivered_urb' = [delivered_urb EXCEPT ![p] = @ \cup {SourceDatum(x)}]
              /\ output' = [output EXCEPT ![p] = Append(@, SourceDatum(x))]
<1>1. ASSUME NEW p \in Proc, NEW x \in sent, Recv(p, x), ~UNCHANGED <<delivered_urb, output>>
      PROVE  /\ SourceDatum(x) \notin delivered_urb[p]
             /\ Quorum(Acked(p, x))
             /\ delivered_urb' = [delivered_urb EXCEPT ![p] = @ \cup {SourceDatum(x)}]
             /\ output' = [output EXCEPT ![p] = Append(@, SourceDatum(x))]
  <2>1. CheckPending(p, SourceDatum(x), Acked(p, x))
    BY <1>1 DEF Recv, RecvNew, RecvPending
  <2>2. CanDeliver(p, SourceDatum(x), Acked(p, x))
    BY <1>1, <2>1 DEF CheckPending
  <2> QED BY <2>1, <2>2 DEF CheckPending, CanDeliver
<1>2. ASSUME NEW p \in Proc,
             \/ \E t \in Text : Broadcast(p, t)
             \/ \E q, d : ReceiveLinkAck(p, q, d)
             \/ Resend(p)
             \/ Crash(p)
      PROVE  UNCHANGED <<delivered_urb, output>>
  BY <1>2 DEF Broadcast, ReceiveLinkAck, Resend, Crash, urbVars
<1>3. CASE UNCHANGED vars
  BY <1>3 DEF vars, urbVars
<1> QED BY <1>1, <1>2, <1>3 DEF Next

\* Every line stays the only one of its message.
LEMMA OutputInvNext ==
  ASSUME TypeOK, OutputInv, [Next]_vars
  PROVE  OutputInv'
<1>1. CASE UNCHANGED <<delivered_urb, output>>
  BY <1>1 DEF OutputInv
<1>2. ASSUME NEW q \in Proc, NEW d, d \notin delivered_urb[q],
             delivered_urb' = [delivered_urb EXCEPT ![q] = @ \cup {d}],
             output' = [output EXCEPT ![q] = Append(@, d)]
      PROVE  OutputInv'
  <2> SUFFICES ASSUME NEW p \in Proc, NEW i \in 1 .. Len(output'[p])
               PROVE  /\ output'[p][i] \in delivered_urb'[p]
                      /\ \A j \in 1 .. i - 1 : output'[p][j] # output'[p][i]
    BY DEF OutputInv
  <2>1. output[p] \in Seq(Datum) /\ Len(output[p]) \in Nat
    BY DEF TypeOK
  <2>2. CASE p # q
    BY <1>2, <2>1, <2>2 DEF OutputInv, TypeOK
  <2>3. CASE p = q
    <3>1. /\ output'[p] = Append(output[p], d)
          /\ delivered_urb'[p] = delivered_urb[p] \cup {d}
      BY <1>2, <2>3 DEF TypeOK
    <3>2. /\ Len(output'[p]) = Len(output[p]) + 1
          /\ output'[p][Len(output[p]) + 1] = d
          /\ \A j \in 1 .. Len(output[p]) : output'[p][j] = output[p][j]
      BY <2>1, <3>1
    <3>3. CASE i \in 1 .. Len(output[p])
      BY <2>1, <3>1, <3>2, <3>3 DEF OutputInv
    <3>4. CASE i = Len(output[p]) + 1
      BY <1>2, <2>1, <2>3, <3>1, <3>2, <3>4 DEF OutputInv
    <3> QED BY <2>1, <3>2, <3>3, <3>4
  <2> QED BY <2>2, <2>3
<1> QED BY <1>1, <1>2, OutputStep

\* The initial state satisfies the invariant: nothing was sent or held.
LEMMA UrbInvInit == Init => UrbInv
BY TypeInit DEF Init, UrbInv, HeldInv, OutputInv

\* Every step keeps the invariant.
LEMMA UrbInvNext == UrbInv /\ [Next]_vars => UrbInv'
<1> SUFFICES ASSUME UrbInv, [Next]_vars PROVE UrbInv'
  OBVIOUS
<1>1. TypeOK /\ HeldInv /\ OutputInv
  BY DEF UrbInv
<1>2. TypeOK'
  BY <1>1, TypeNext
<1>3. \A d \in requested' : Holds(d[1], d)'
  BY <1>1, <1>2, SourceHolds
<1>4. \A p \in Proc : \A e \in not_delivered'[p] : Holds(p, e[2])'
  BY <1>1, <1>2, ResentHolds
<1>5. \A x \in sent' : Holds(x.from, SourceDatum(x))'
  BY <1>1, <1>2, SenderHolds
<1>6. \A p \in Proc, t \in Text : \A c \in ack'[p][t] :
        \E d \in requested' : d[2] = t /\ Holds(c, d)'
  BY <1>1, <1>2, AckedHolds
<1>7. HeldInv'
  BY <1>3, <1>4, <1>5, <1>6 DEF HeldInv
<1>8. OutputInv'
  BY <1>1, OutputInvNext
<1> QED BY <1>2, <1>7, <1>8 DEF UrbInv

\* The inductive invariant holds in every reachable state.
THEOREM Invariant == Spec => []UrbInv
BY UrbInvInit, UrbInvNext, PTL DEF Spec

\* No line is written twice, and none that was not requested.
THEOREM NoCreationOrDuplicationHolds == Spec => []NoCreationOrDuplication
<1>1. UrbInv => NoCreationOrDuplication
  BY DEF UrbInv, OutputInv, TypeOK, NoCreationOrDuplication
<1> QED BY <1>1, Invariant, PTL

-----------------------------------------------------------------------------
(* Delivery.                                                               *)

\* A larger set of processes is a majority too.
LEMMA QuorumGrows ==
  ASSUME NEW S \in SUBSET Proc, NEW T \in SUBSET Proc, S \subseteq T, Quorum(S)
  PROVE  Quorum(T)
<1>1. IsFiniteSet(T)
  BY ProcAssumption, FS_Subset
<1>2. IsFiniteSet(S) /\ Cardinality(S) <= Cardinality(T)
  BY <1>1, FS_Subset
<1>3. Cardinality(S) \in Nat /\ Cardinality(T) \in Nat /\ Cardinality(Proc) \div 2 \in Nat
  BY <1>1, <1>2, ProcAssumption, FS_CardinalityType
<1> QED BY <1>2, <1>3 DEF Quorum

\* The processes that hold the text of message d, from whatever source.
TextHolders(d) == {q \in Proc : \E e \in requested : e[2] = d[2] /\ Holds(q, e)}

\* The processes counted for the text of a packet hold that text.
LEMMA AckedHold ==
  ASSUME UrbInv, NEW p \in Proc, NEW x \in sent
  PROVE  Acked(p, x) \subseteq TextHolders(SourceDatum(x))
<1>1. TypeOK /\ HeldInv
  BY DEF UrbInv
<1>2. /\ SourceDatum(x) \in requested /\ SourceDatum(x)[2] = x.text
      /\ x.from \in Proc /\ x.text \in Text
  BY <1>1, PacketTypes
<1>3. ASSUME NEW c \in ack[p][x.text]
      PROVE  c \in TextHolders(SourceDatum(x))
  <2>1. c \in Proc
    BY <1>1, <1>2, <1>3 DEF TypeOK
  <2>2. PICK d \in requested : d[2] = x.text /\ Holds(c, d)
    BY <1>1, <1>2, <1>3 DEF HeldInv
  <2> QED BY <1>2, <2>1, <2>2 DEF TextHolders
<1>4. x.from \in TextHolders(SourceDatum(x))
  <2>1. Holds(x.from, SourceDatum(x))
    BY <1>1 DEF HeldInv
  <2> QED BY <1>2, <2>1 DEF TextHolders
<1> QED BY <1>3, <1>4 DEF Acked

\* The holders of a text only become more.
LEMMA TextHoldersGrow ==
  ASSUME TypeOK, [Next]_vars, NEW d
  PROVE  TextHolders(d) \subseteq TextHolders(d)'
<1>1. requested \subseteq requested'
  BY HoldsGrows
<1>2. ASSUME NEW q \in Proc, NEW e \in requested, e[2] = d[2], Holds(q, e)
      PROVE  q \in TextHolders(d)'
  <2>1. Holds(q, e)'
    BY <1>2, HoldsGrows
  <2> QED BY <1>1, <1>2, <2>1 DEF TextHolders
<1> QED BY <1>2 DEF TextHolders

\* A step that delivers does so on the word of a majority that holds the text.
LEMMA DeliveredTextIsHeldNext ==
  ASSUME UrbInv, DeliveredTextIsHeld, [Next]_vars
  PROVE  DeliveredTextIsHeld'
<1>1. TypeOK
  BY DEF UrbInv
<1>2. ASSUME NEW d, Quorum(TextHolders(d))
      PROVE  Quorum(TextHolders(d)')
  <2>1. TextHolders(d) \subseteq TextHolders(d)'
    BY <1>1, TextHoldersGrow
  <2>2. TextHolders(d) \in SUBSET Proc /\ TextHolders(d)' \in SUBSET Proc
    BY DEF TextHolders
  <2> QED BY <1>2, <2>1, <2>2, QuorumGrows
<1>3. SUFFICES ASSUME NEW p \in Proc, NEW d \in delivered_urb'[p]
               PROVE  Quorum(TextHolders(d)')
  BY DEF DeliveredTextIsHeld, TextHolders, Holds, Quorum
<1>4. CASE d \in delivered_urb[p]
  <2>1. Quorum(TextHolders(d))
    BY <1>4 DEF DeliveredTextIsHeld, TextHolders
  <2> QED BY <1>2, <2>1
<1>5. CASE d \notin delivered_urb[p]
  <2>1. PICK r \in Proc, x \in sent :
          /\ Quorum(Acked(r, x))
          /\ delivered_urb' = [delivered_urb EXCEPT ![r] = @ \cup {SourceDatum(x)}]
    BY <1>5, OutputStep
  <2>2. d = SourceDatum(x) /\ Quorum(Acked(p, x))
    BY <1>1, <1>5, <2>1 DEF TypeOK
  <2>3. Acked(p, x) \subseteq TextHolders(d)
    BY <2>2, AckedHold
  <2>4. TextHolders(d) \in SUBSET Proc
    BY DEF TextHolders
  <2>5. Quorum(TextHolders(d))
    BY <2>2, <2>3, <2>4, QuorumGrows
  <2> QED BY <1>2, <2>5
<1> QED BY <1>4, <1>5

\* A majority holds the text of every message delivered: any number of
\* processes, texts and crashes, and any number of sources of one text.
THEOREM DeliveredTextIsHeldHolds == Spec => []DeliveredTextIsHeld
<1>1. Init => DeliveredTextIsHeld
  BY DEF Init, DeliveredTextIsHeld
<1>2. UrbInv /\ DeliveredTextIsHeld /\ [Next]_vars => DeliveredTextIsHeld'
  BY DeliveredTextIsHeldNext
<1> QED BY <1>1, <1>2, Invariant, PTL DEF Spec

-----------------------------------------------------------------------------
(* The program implements UniformBroadcast.                                *)

\* A packet makes its receiver write nothing, or deliver a message that has been
\* requested and that it has not delivered before.
LEMMA RecvRefines ==
  ASSUME UrbInv, NEW p \in Proc, NEW x \in sent, Recv(p, x)
  PROVE  UB!BroadcastNext \/ UNCHANGED UB!broadcastVars
<1> DEFINE d == SourceDatum(x)
<1>1. TypeOK /\ OutputInv
  BY DEF UrbInv
<1>2. d \in requested
  BY <1>1, PacketTypes
<1>3. requested' = requested /\ CheckPending(p, d, Acked(p, x))
  BY DEF Recv, RecvNew, RecvPending
<1>4. CASE CanDeliver(p, d, Acked(p, x))
  <2>1. output' = [output EXCEPT ![p] = Append(@, d)]
    BY <1>3, <1>4 DEF CheckPending
  <2>2. d \notin delivered_urb[p]
    BY <1>4 DEF CanDeliver
  <2>3. DOMAIN output[p] = 1 .. Len(output[p])
    BY <1>1 DEF TypeOK
  <2>4. d \notin UB!Delivered(p)
    BY <1>1, <2>2, <2>3 DEF OutputInv, UB!Delivered
  <2>5. UB!Deliver(p, d)
    BY <1>2, <1>3, <2>1, <2>4 DEF UB!Deliver
  <2> QED BY <1>2, <2>5 DEF UB!BroadcastNext
<1>5. CASE ~CanDeliver(p, d, Acked(p, x))
  BY <1>3, <1>5 DEF CheckPending, UB!broadcastVars
<1> QED BY <1>4, <1>5

\* Every step is a step of UniformBroadcast or leaves its variables alone.
LEMMA StepRefines ==
  ASSUME UrbInv, [Next]_vars
  PROVE  [UB!BroadcastNext]_UB!broadcastVars
<1>1. CASE UNCHANGED vars
  BY <1>1 DEF vars, urbVars, UB!broadcastVars
<1>2. ASSUME NEW p \in Proc, NEW t \in Text, Broadcast(p, t)
      PROVE  UB!BroadcastNext
  <2>1. UB!Request(p, t)
    BY <1>2 DEF Broadcast, UB!Request
  <2> QED BY <2>1 DEF UB!BroadcastNext
<1>3. ASSUME NEW p \in Proc, NEW x \in sent, Recv(p, x)
      PROVE  UB!BroadcastNext \/ UNCHANGED UB!broadcastVars
  BY <1>3, RecvRefines
<1>4. ASSUME NEW p \in Proc, NEW a \in link_acks, ReceiveLinkAck(p, a[1], a[3])
      PROVE  UNCHANGED UB!broadcastVars
  BY <1>4 DEF ReceiveLinkAck, urbVars, UB!broadcastVars
<1>5. ASSUME NEW p \in Proc, Resend(p) \/ Crash(p)
      PROVE  UNCHANGED UB!broadcastVars
  BY <1>5 DEF Resend, Crash, urbVars, UB!broadcastVars
<1> QED BY <1>1, <1>2, <1>3, <1>4, <1>5 DEF Next

\* Whatever packets, relays and acknowledgements it is made of, the broadcast
\* delivers only what was broadcast, and to each process once: for any processes,
\* any texts, shared or not, and any number of crashes.
THEOREM Refinement == Spec => RefinesUniformBroadcast
<1>1. Init => UB!BroadcastInit
  BY DEF Init, UB!BroadcastInit
<1>2. UrbInv /\ [Next]_vars => [UB!BroadcastNext]_UB!broadcastVars
  BY StepRefines
<1> QED BY <1>1, <1>2, Invariant, PTL DEF Spec, RefinesUniformBroadcast, UB!BroadcastSpec

=============================================================================
