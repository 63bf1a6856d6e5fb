----------------------- MODULE UniformReliableBroadcast -----------------------
(***************************************************************************)
(* The uniform reliable broadcast of uniformreliablebroadcast.cpp over the *)
(* link of perfectlink.cpp.  The link of this commit calls the lattice     *)
(* handler in its place; the module follows the call that is left in a     *)
(* comment there (perfectlink.cpp:35).                                     *)
(*                                                                         *)
(* Who a packet comes from decides whose acknowledgement it counts as, and *)
(* that is what its header claims: a relay is first sent under the name of *)
(* the process that broadcast the message, and only its retransmissions    *)
(* carry the relayer's own.                                                *)
(*                                                                         *)
(* The number get_mapping_mes gives to a text is private to a process and  *)
(* stands for the text.  Packets are lost, duplicated and reordered: sent  *)
(* and link_acks only grow.                                                *)
(***************************************************************************)
EXTENDS Naturals, Sequences, FiniteSets

CONSTANTS Proc,        \* the hosts
          Text,        \* what is broadcast
          Broadcasts,  \* <<p, t>>: the application of p may broadcast t
          MaxCrashes   \* how many processes may be terminated

ASSUME ProcAssumption == IsFiniteSet(Proc)
ASSUME BroadcastsAssumption == Broadcasts \subseteq Proc \X Text

VARIABLES
  alive,
  requested,      \* history: the broadcasts that have been requested
  pending,        \* the <<src, text>> a process holds
  ack,            \* ack[p][t]: who has sent text t to p
  delivered_urb,
  output,         \* the lines "d src text"
  not_delivered,  \* the <<host, <<src, text>>>> still resent
  sent, link_acks \* the network

urbVars == <<pending, ack, delivered_urb, output>>
vars == <<alive, requested, urbVars, not_delivered, sent, link_acks>>

Datum == Proc \X Text
Packet == [from : Proc, to : Proc, src : Proc, text : Text]

Quorum(S) == Cardinality(S) > Cardinality(Proc) \div 2

-----------------------------------------------------------------------------
Init ==
  /\ alive = [p \in Proc |-> TRUE]
  /\ requested = {}
  /\ pending = [p \in Proc |-> {}]
  /\ ack = [p \in Proc |-> [t \in Text |-> {}]]
  /\ delivered_urb = [p \in Proc |-> {}]
  /\ output = [p \in Proc |-> <<>>]
  /\ not_delivered = [p \in Proc |-> {}]
  /\ sent = {}
  /\ link_acks = {}

\* The packets that carry d to every host under the name of process from.
Copies(from, d) ==
  {[from |-> from, to |-> q, src |-> d[1], text |-> d[2]] : q \in Proc}

\* senderPerfectLinks(from, q, d) for every host q, called by p.
SendToAll(p, from, d) ==
  /\ not_delivered' = [not_delivered EXCEPT ![p] = @ \cup (Proc \X {d})]
  /\ sent' = sent \cup Copies(from, d)

\* broadcast_urb.  Nothing keeps the application from repeating itself.
Broadcast(p, t) ==
  /\ alive[p]
  /\ <<p, t>> \in Broadcasts
  /\ requested' = requested \cup {<<p, t>>}
  /\ pending' = [pending EXCEPT ![p] = @ \cup {<<p, t>>}]
  /\ SendToAll(p, p, <<p, t>>)
  /\ UNCHANGED <<alive, ack, delivered_urb, output, link_acks>>

-----------------------------------------------------------------------------
(* upon_event_deliver_beb_urb, on packet x.                                *)

\* Broken variant: the message is taken for one of the process it comes from.
SenderDatum(x) == <<x.from, x.text>>

SourceDatum(x) == <<x.src, x.text>>

\* ack[m] with the sender of x.
Acked(p, x) == ack[p][x.text] \cup {x.from}

\* Broken variant: the majority is not waited for.
CanDeliverAtOnce(p, d, acked) == d \notin delivered_urb[p]

\* Broken variant: a message that comes again is delivered again.
CanDeliverAgain(p, d, acked) == Quorum(acked)

\* candeliver_urb, and the test of delivered_urb that follows it.
CanDeliver(p, d, acked) == Quorum(acked) /\ d \notin delivered_urb[p]

\* check_pending_urb, for a process that holds d.
CheckPending(p, d, acked) ==
  IF CanDeliver(p, d, acked)
    THEN /\ delivered_urb' = [delivered_urb EXCEPT ![p] = @ \cup {d}]
         /\ output' = [output EXCEPT ![p] = Append(@, d)]
         /\ pending' = [pending EXCEPT ![p] = @ \ {d}]
    ELSE /\ pending' = [pending EXCEPT ![p] = @ \cup {d}]
         /\ UNCHANGED <<delivered_urb, output>>

\* receiverPerfectLinks up to the handler: the acknowledgement goes to the
\* process that the packet claims to come from.
Arrives(p, x) ==
  /\ alive[p]
  /\ x.to = p
  /\ ack' = [ack EXCEPT ![p][x.text] = Acked(p, x)]
  /\ link_acks' = link_acks \cup {<<p, x.from, SourceDatum(x)>>}

\* A message that is not pending is relayed, under the name of its source.
RecvNew(p, x) ==
  /\ SourceDatum(x) \notin pending[p]
  /\ Arrives(p, x)
  /\ CheckPending(p, SourceDatum(x), Acked(p, x))
  /\ SendToAll(p, x.src, SourceDatum(x))
  /\ UNCHANGED <<alive, requested>>

RecvPending(p, x) ==
  /\ SourceDatum(x) \in pending[p]
  /\ Arrives(p, x)
  /\ CheckPending(p, SourceDatum(x), Acked(p, x))
  /\ UNCHANGED <<alive, requested, not_delivered, sent>>

Recv(p, x) == RecvNew(p, x) \/ RecvPending(p, x)

-----------------------------------------------------------------------------
(* The link.                                                               *)

\* Broken variant: an acknowledgement counts for every host.
AckedByAny(q, d) == Proc \X {d}

\* The entry that the acknowledgement of d by q erases.
Acknowledged(q, d) == {<<q, d>>}

\* receiverPerfectLinks, an acknowledgement of d by q.
ReceiveLinkAck(p, q, d) ==
  /\ alive[p]
  /\ not_delivered' = [not_delivered EXCEPT ![p] = @ \ Acknowledged(q, d)]
  /\ UNCHANGED <<alive, requested, urbVars, sent, link_acks>>

\* Broken variant: retransmissions too go out under the name of the source.
AsSource(p, e) == [from |-> e[2][1], to |-> e[1], src |-> e[2][1], text |-> e[2][2]]

\* A retransmission by p goes out under its own name.
Retransmission(p, e) == [from |-> p, to |-> e[1], src |-> e[2][1], text |-> e[2][2]]

\* resendPerfectLinks: one pass.  Acknowledgements are in link_acks already.
Resend(p) ==
  /\ alive[p]
  /\ sent' = sent \cup {Retransmission(p, e) : e \in not_delivered[p]}
  /\ UNCHANGED <<alive, requested, urbVars, not_delivered, link_acks>>

(* SIGTERM or SIGINT.                                                      *)
Crash(p) ==
  /\ alive[p]
  /\ Cardinality({q \in Proc : ~alive[q]}) < MaxCrashes
  /\ alive' = [alive EXCEPT ![p] = FALSE]
  /\ UNCHANGED <<requested, urbVars, not_delivered, sent, link_acks>>

Next == \E p \in Proc :
          \/ \E t \in Text : Broadcast(p, t)
          \/ \E x \in sent : Recv(p, x)
          \/ \E a \in link_acks : a[2] = p /\ ReceiveLinkAck(p, a[1], a[3])
          \/ Resend(p)
          \/ Crash(p)

Spec == Init /\ [][Next]_vars

-----------------------------------------------------------------------------
(* Fairness.  The resend thread of a live process is scheduled, and what   *)
(* it keeps resending to a live process arrives in the end.  Nothing is    *)
(* assumed of first copies, of acknowledgements or of the application.     *)

Retransmitted(p, q, d) ==
  /\ alive[p]
  /\ <<q, d>> \in not_delivered[p]
  /\ Retransmission(p, <<q, d>>) \in sent
  /\ Recv(q, Retransmission(p, <<q, d>>))

Fairness ==
  \A p \in Proc : /\ WF_vars(Resend(p))
                  /\ \A q \in Proc, d \in Broadcasts : WF_vars(Retransmitted(p, q, d))

FairSpec == Spec /\ Fairness

-----------------------------------------------------------------------------
(* Properties.                                                             *)

\* Every set holds messages that were requested, of the source they name, and
\* what is delivered is what is written.
TypeOK ==
  /\ alive \in [Proc -> BOOLEAN]
  /\ requested \subseteq Broadcasts
  /\ pending \in [Proc -> SUBSET requested]
  /\ ack \in [Proc -> [Text -> SUBSET Proc]]
  /\ delivered_urb \in [Proc -> SUBSET requested]
  /\ output \in [Proc -> Seq(Datum)]
  /\ not_delivered \in [Proc -> SUBSET (Proc \X requested)]
  /\ sent \subseteq {x \in Packet : <<x.src, x.text>> \in requested}
  /\ link_acks \subseteq Proc \X Proc \X requested

\* Every line names a message that its source has broadcast, and no line is
\* written twice, although a delivered message leaves pending and is taken for
\* a new one when it comes again.
NoCreationOrDuplication ==
  \A p \in Proc : \A i \in 1 .. Len(output[p]) :
    /\ output[p][i] \in requested
    /\ \A j \in 1 .. i - 1 : output[p][j] # output[p][i]

\* The messages that p has taken over: it has put them in not_delivered.
Holds(p, d) == d \in pending[p] \cup delivered_urb[p]

\* What one process delivers, a majority holds: the promise of a uniform
\* broadcast when a minority may crash.
DeliveredIsHeld ==
  \A p \in Proc : \A d \in delivered_urb[p] : Quorum({q \in Proc : Holds(q, d)})

\* What check_pending_urb really waits for, whoever broadcasts what: a majority
\* holds the text that is delivered, from one source or another.
DeliveredTextIsHeld ==
  \A p \in Proc : \A d \in delivered_urb[p] :
    Quorum({q \in Proc : \E e \in requested : e[2] = d[2] /\ Holds(q, e)})

\* Uniform agreement ("Uniform Reliable Broadcast",
\* uniformreliablebroadcast.hpp:24): what any process delivers, also one that
\* crashes afterwards, every live process delivers in the end.
UniformAgreement ==
  \A d \in Broadcasts, q \in Proc :
    (\E p \in Proc : d \in delivered_urb[p]) ~> (~alive[q] \/ d \in delivered_urb[q])

\* What a live process broadcasts is delivered in the end, although the relays
\* count as acknowledgements only once they are retransmitted.
BroadcastDelivered ==
  \A d \in Broadcasts :
    d \in requested ~> (~alive[d[1]] \/ d \in delivered_urb[d[1]])

-----------------------------------------------------------------------------
(* The inductive invariant.                                                *)

\* What a process broadcasts, resends, or is named as the sender of, it holds;
\* an acknowledgement of a text comes from a process that holds it, from
\* whatever source.
HeldInv ==
  /\ \A d \in requested : Holds(d[1], d)
  /\ \A p \in Proc : \A e \in not_delivered[p] : Holds(p, e[2])
  /\ \A x \in sent : Holds(x.from, SourceDatum(x))
  /\ \A p \in Proc, t \in Text : \A c \in ack[p][t] :
       \E d \in requested : d[2] = t /\ Holds(c, d)

\* The lines of the output are the messages delivered, each once.
OutputInv ==
  \A p \in Proc : \A i \in 1 .. Len(output[p]) :
    /\ output[p][i] \in delivered_urb[p]
    /\ \A j \in 1 .. i - 1 : output[p][j] # output[p][i]

\* Why the network may be trusted: the name on a packet, be it that of a source
\* or of a relayer, is the name of a process that holds the message.
UrbInv == TypeOK /\ HeldInv /\ OutputInv

-----------------------------------------------------------------------------
(* The program implements UniformBroadcast, the broadcast that              *)
(* FifoBroadcast is written for: relays, retransmissions, acknowledgements *)
(* and messages that come again change nothing that a caller can see.      *)

UB == INSTANCE UniformBroadcast WITH delivered <- output

RefinesUniformBroadcast == UB!BroadcastSpec

=============================================================================
