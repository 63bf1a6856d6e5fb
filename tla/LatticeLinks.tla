----------------------------- MODULE LatticeLinks -----------------------------
(***************************************************************************)
(* LatticeAgreement over the link of perfectlink.cpp: which messages are   *)
(* still retransmitted to whom, and the link's own acknowledgements ("@"). *)
(*                                                                         *)
(* A data packet is a message of sent on its way to a host it is addressed *)
(* to.  UDP loses, duplicates, delays and reorders packets, so sent and    *)
(* link_acks only grow and a packet may arrive at any time, any number of  *)
(* times, or never.  What retransmission adds is that a message that stays *)
(* in not_delivered arrives in the end: that is the fairness below, and    *)
(* the only one.                                                           *)
(***************************************************************************)
EXTENDS LatticeAgreement

VARIABLES
  not_delivered, \* not_delivered_pl: the <<host, message>> still resent
  ack_queue,     \* ack_queue_pl: messages to acknowledge in the next pass
  link_acks,     \* <<q, m>>: q has sent "m@" to the sender of m
  reached        \* history: <<m, r>>, m was handed to p while in round r

linkVars == <<not_delivered, ack_queue, link_acks, reached>>
allVars == <<vars, linkVars>>

-----------------------------------------------------------------------------
\* The socket is opened and the link state emptied before the first round too.
LinkInit == /\ Init
            /\ not_delivered = [p \in Proc |-> {}]
            /\ ack_queue = [p \in Proc |-> {}]
            /\ link_acks = {}
            /\ reached = [p \in Proc |-> {}]

\* initPerfectLink, at the head of every round.
LinkStartRound(p) ==
  /\ StartRound(p)
  /\ not_delivered' = [not_delivered EXCEPT ![p] = {}]
  /\ ack_queue' = [ack_queue EXCEPT ![p] = {}]
  /\ UNCHANGED <<link_acks, reached>>

\* Broken variant: a message is sent once and not kept.
SentOnce(p, S) == UNCHANGED not_delivered

\* senderPerfectLinks for each message in S and each host it is addressed to.
HandToLink(p, S) ==
  not_delivered' = [not_delivered EXCEPT
    ![p] = @ \cup {x \in Proc \X S : AddressedTo(x[2], x[1])}]

LinkSendThread(p) == /\ SendThread(p)
                     /\ HandToLink(p, sent' \ sent)
                     /\ UNCHANGED <<ack_queue, link_acks, reached>>

\* A message the handler drops: of another round, or an answer to an older
\* proposal.
Dropped(p, m) ==
  /\ \/ m.round # round_num[p] /\ ~Majority(fin[p])
     \/ /\ m.round = round_num[p]
        /\ m.type \in {"A", "N"}
        /\ m.num # active_proposal_number[p]
  /\ UNCHANGED vars

\* What the handler hands to the link.  A PROP is answered every time it
\* arrives, also when the same answer was sent before.
Emitted(p, m) == IF m.type = "P" /\ m.round = round_num[p]
                   THEN {Reply(p, m)} ELSE sent' \ sent

\* receiverPerfectLinks, data: the acknowledgement is queued first, whatever
\* the handler then makes of the message.
LinkReceive(p, m) ==
  /\ alive[p]
  /\ recvOn[p]
  /\ AddressedTo(m, p)
  /\ ack_queue' = [ack_queue EXCEPT ![p] = @ \cup {m}]
  /\ reached' = [reached EXCEPT ![p] = @ \cup {<<m, round_num[p]>>}]
  /\ Receive(p, m) \/ RecvOtherRound(p, m) \/ Dropped(p, m)
  /\ HandToLink(p, Emitted(p, m))
  /\ UNCHANGED link_acks

\* Broken variant: an acknowledgement counts for every host.
AckedByAny(q, m) == Proc \X {m}

\* The entry that the acknowledgement of m by q erases.
Acknowledged(q, m) == {<<q, m>>}

\* receiverPerfectLinks, "m@" from q.
ReceiveLinkAck(p, q, m) ==
  /\ alive[p]
  /\ recvOn[p]
  /\ m.src = p
  /\ not_delivered' = [not_delivered EXCEPT ![p] = @ \ Acknowledged(q, m)]
  /\ UNCHANGED <<vars, ack_queue, link_acks, reached>>

\* resendPerfectLinks: one pass.  The data packets of the pass are in sent
\* already.
Resend(p) ==
  /\ alive[p]
  /\ reseOn[p]
  /\ link_acks' = link_acks \cup ({p} \X ack_queue[p])
  /\ ack_queue' = [ack_queue EXCEPT ![p] = {}]
  /\ UNCHANGED <<vars, not_delivered, reached>>

\* The steps that leave the link alone.
LinkJoinThreads(p) == JoinThreads(p) /\ UNCHANGED linkVars
LinkReseExit(p) == ReseExit(p) /\ UNCHANGED linkVars
LinkCrash(p) == Crash(p) /\ UNCHANGED linkVars

LinkNext == \E p \in Proc : \/ LinkStartRound(p)
                            \/ LinkSendThread(p)
                            \/ \E m \in sent : LinkReceive(p, m)
                            \/ \E a \in link_acks : ReceiveLinkAck(p, a[1], a[2])
                            \/ Resend(p)
                            \/ LinkJoinThreads(p)
                            \/ LinkReseExit(p)
                            \/ LinkCrash(p)

LinkSpec == LinkInit /\ [][LinkNext]_allVars

-----------------------------------------------------------------------------
(* Fairness.  Threads are scheduled; a message that a live process keeps   *)
(* resending to a process that is receiving arrives there at least once in *)
(* the round.  Nothing is assumed of link acknowledgements.                *)

IsResent(q, m) == /\ alive[m.src]
                  /\ reseOn[m.src]
                  /\ <<q, m>> \in not_delivered[m.src]

HasReached(q, m) == <<m, round_num[q]>> \in reached[q]

Arrival(p) == \E m \in sent : /\ IsResent(p, m)
                              /\ ~HasReached(p, m)
                              /\ LinkReceive(p, m)

LinkFairness ==
  \A p \in Proc : /\ WF_allVars(LinkStartRound(p))
                  /\ WF_allVars(LinkSendThread(p))
                  /\ WF_allVars(Arrival(p))
                  /\ WF_allVars(LinkJoinThreads(p))
                  /\ WF_allVars(LinkReseExit(p))

LinkFairSpec == LinkSpec /\ LinkFairness

-----------------------------------------------------------------------------
(* Properties.                                                             *)

\* A message of its sender's current round stays in not_delivered until it has
\* been handed to the receive thread of the host it is meant for: an
\* acknowledgement that is late, repeated, or comes from another host of the
\* broadcast takes nothing out that is still on its way.
ResentUntilReached ==
  \A m \in sent, q \in Proc :
    m.round = round_num[m.src] /\ mainPC[m.src] = "join" /\ AddressedTo(m, q) =>
      \/ <<q, m>> \in not_delivered[m.src]
      \/ \E r \in 0 .. round_num[q] : <<m, r>> \in reached[q]

-----------------------------------------------------------------------------
(* The inductive invariant of the link.                                    *)

\* m has been handed to q, in its current round or before.
HandedTo(q, m) == \E r \in 0 .. round_num[q] : <<m, r>> \in reached[q]

\* A message belongs to a round its sender has reached; the round in which the
\* retransmissions are about to be emptied has no message yet.
SentInv ==
  \A m \in sent : /\ m.round <= round_num[m.src]
                  /\ m.round = round_num[m.src] => mainPC[m.src] = "join"

\* Only what was handed over is acknowledged.
AckedInv == /\ \A q \in Proc : \A m \in ack_queue[q] : HandedTo(q, m)
            /\ \A a \in link_acks : HandedTo(a[1], a[2])

LinkTypes == /\ not_delivered \in [Proc -> SUBSET (Proc \X Message)]
             /\ ack_queue \in [Proc -> SUBSET Message]
             /\ link_acks \subseteq Proc \X Message
             /\ reached \in [Proc -> SUBSET (Message \X Nat)]

\* A message that may be lost is resent, or has arrived: with TypeOK, the inductive
\* invariant of the link.
LinkInv == LinkTypes /\ SentInv /\ AckedInv /\ ResentUntilReached

-----------------------------------------------------------------------------
(* What the comments of the link promise.                                  *)

\* Host q is in the round of m, receives, and has not been handed m in it.
Undelivered(q, m) == /\ alive[q]
                     /\ recvOn[q]
                     /\ AddressedTo(m, q)
                     /\ m.round = round_num[q]
                     /\ ~HasReached(q, m)

\* "resend all un-delivered message" (perfectlink.cpp:58), of a sender that is
\* still in the round of the message.
UndeliveredIsResent ==
  \A m \in sent, q \in Proc :
    Undelivered(q, m) /\ round_num[m.src] = m.round =>
      <<q, m>> \in not_delivered[m.src]

\* "Algorithm 2.1: Retransmit Forever" (perfectlink.hpp:26): the FIN that a
\* process waits for is still retransmitted, also by a sender that has gone on.
RetransmitForever ==
  \A m \in Fins, q \in Proc :
    Undelivered(q, m) /\ ~Majority(fin[q]) => <<q, m>> \in not_delivered[m.src]

=============================================================================
