-------------------------- MODULE LatticeAgreement --------------------------
(***************************************************************************)
(* Multi-shot lattice agreement as the processes of this program run it:   *)
(* the proposer and acceptor of latticeagreement.cpp, and the main, send,  *)
(* receive and resend threads of multithread.cpp that drive them through   *)
(* one round after the other.                                              *)
(*                                                                         *)
(* The network is the set of all messages ever handed to the link.  Any    *)
(* of them may be delivered to a process it is addressed to at any later   *)
(* time, any number of times, in any order, or never: what UDP with the    *)
(* retransmissions of perfectlink.cpp can do.  The link's own state and    *)
(* its acknowledgements are in LatticeLinks.                               *)
(*                                                                         *)
(* A broadcast (PROP, FIN) is one message addressed to every host.         *)
(***************************************************************************)
EXTENDS Naturals, Sequences, FiniteSets

CONSTANTS Proc,       \* the hosts
          Value,      \* the integers that proposals are made of
          Rounds,     \* message_to_send: the number of proposals per process
          Proposal,   \* Proposal[p][r]: proposals_lattice[r] of process p
          MaxCrashes  \* how many processes may be terminated

ASSUME ProcAssumption == IsFiniteSet(Proc)
ASSUME RoundsAssumption == Rounds \in Nat
ASSUME ProposalAssumption ==
         Proposal \in [Proc -> [0 .. Rounds - 1 -> SUBSET Value]]

VARIABLES
  alive,      \* not terminated by a signal
  mainPC,     \* "loop": at the test of the round loop; "join": joining threads
  sendPC,     \* where the send thread is; "off" when there is none
  recvOn,     \* the receive thread is running
  reseOn,     \* the resend thread is running
  round_num,
  active,                  \* active_lattice
  active_proposal_number,
  ack_count, nack_count,
  proposed_value,
  accepted_value,
  fin,                     \* fin_lattice
  output,     \* the lines of the output file
  sent        \* the network

threadVars   == <<mainPC, sendPC, recvOn, reseOn, round_num>>
countVars    == <<active_proposal_number, ack_count, nack_count>>
proposerVars == <<active, proposed_value, countVars>>
vars == <<alive, threadVars, proposerVars, accepted_value, fin, output, sent>>

-----------------------------------------------------------------------------
(* Messages.  The sender's id and the round number travel with each of     *)
(* them: src is what receive_udp puts in mes.first.                        *)

Prop(p, r, k, v) ==
  [type |-> "P", src |-> p, round |-> r, num |-> k, val |-> v]
Ack(p, q, r, k) ==
  [type |-> "A", src |-> p, dst |-> q, round |-> r, num |-> k]
Nack(p, q, r, k, v) ==
  [type |-> "N", src |-> p, dst |-> q, round |-> r, num |-> k, val |-> v]
Fin(p, r) == [type |-> "F", src |-> p, round |-> r]

PropMessage == [type : {"P"}, src : Proc, round : Nat, num : Nat,
                val : SUBSET Value]
AckMessage  == [type : {"A"}, src : Proc, dst : Proc, round : Nat, num : Nat]
NackMessage == [type : {"N"}, src : Proc, dst : Proc, round : Nat, num : Nat,
                val : SUBSET Value]
FinMessage  == [type : {"F"}, src : Proc, round : Nat]
Message == PropMessage \cup AckMessage \cup NackMessage \cup FinMessage

Props == {m \in sent : m.type = "P"}
Acks  == {m \in sent : m.type = "A"}
Nacks == {m \in sent : m.type = "N"}
Fins  == {m \in sent : m.type = "F"}

\* a, an ACK or NACK, answers the proposal m.
Answers(a, m) == a.dst = m.src /\ a.round = m.round /\ a.num = m.num

AddressedTo(m, p) == m.type \in {"A", "N"} => m.dst = p

\* Broken variant: at least half.
QuorumAtHalf(n) == n >= Cardinality(Proc) \div 2

\* More than hosts().size() / 2, with the integer division of the code.
Quorum(n) == n > Cardinality(Proc) \div 2
Majority(S) == Quorum(Cardinality(S))

-----------------------------------------------------------------------------
Init ==
  /\ alive = [p \in Proc |-> TRUE]
  /\ mainPC = [p \in Proc |-> "loop"]
  /\ sendPC = [p \in Proc |-> "off"]
  /\ recvOn = [p \in Proc |-> FALSE]
  /\ reseOn = [p \in Proc |-> FALSE]
  /\ round_num = [p \in Proc |-> 0]
  /\ active = [p \in Proc |-> FALSE]
  /\ active_proposal_number = [p \in Proc |-> 0]
  /\ ack_count = [p \in Proc |-> {}]
  /\ nack_count = [p \in Proc |-> {}]
  /\ proposed_value = [p \in Proc |-> {}]
  /\ accepted_value = [p \in Proc |-> {}]
  /\ fin = [p \in Proc |-> {}]
  /\ output = [p \in Proc |-> <<>>]
  /\ sent = {}

-----------------------------------------------------------------------------
(* The main thread: thread_run.                                            *)

\* init_lattice, by its three parts.
InitProposer(p) ==
  /\ active' = [active EXCEPT ![p] = FALSE]
  /\ ack_count' = [ack_count EXCEPT ![p] = {}]
  /\ nack_count' = [nack_count EXCEPT ![p] = {}]
  /\ active_proposal_number' = [active_proposal_number EXCEPT ![p] = 0]
  /\ proposed_value' = [proposed_value EXCEPT ![p] = {}]

\* Broken variant: the acceptor keeps what it accepted in the last round.
KeepAccepted(p) == UNCHANGED accepted_value

InitAcceptor(p) == accepted_value' = [accepted_value EXCEPT ![p] = {}]

\* Broken variant: the FINs of the last round are kept.
KeepFin(p) == UNCHANGED fin

InitFin(p) == fin' = [fin EXCEPT ![p] = {}]

\* Broken variant: one round too many.
OneRoundMore(p) == round_num[p] <= Rounds

MoreRounds(p) == round_num[p] < Rounds

\* The head of the round loop: init_lattice, then the three threads.
StartRound(p) ==
  /\ alive[p]
  /\ mainPC[p] = "loop"
  /\ MoreRounds(p)
  /\ mainPC' = [mainPC EXCEPT ![p] = "join"]
  /\ sendPC' = [sendPC EXCEPT ![p] = "assign"]
  /\ recvOn' = [recvOn EXCEPT ![p] = TRUE]
  /\ reseOn' = [reseOn EXCEPT ![p] = TRUE]
  /\ InitProposer(p)
  /\ InitAcceptor(p)
  /\ InitFin(p)
  /\ UNCHANGED <<alive, round_num, output, sent>>

\* All three threads have been joined: the next round.
JoinThreads(p) ==
  /\ alive[p]
  /\ mainPC[p] = "join"
  /\ sendPC[p] = "off"
  /\ ~recvOn[p]
  /\ ~reseOn[p]
  /\ round_num' = [round_num EXCEPT ![p] = @ + 1]
  /\ mainPC' = [mainPC EXCEPT ![p] = "loop"]
  /\ UNCHANGED <<alive, sendPC, recvOn, reseOn, proposerVars, accepted_value,
                 fin, output, sent>>

-----------------------------------------------------------------------------
(* The send thread.  propose_lattice does not take the mutex, so the       *)
(* receive thread may run a handler between any two of these steps.  The   *)
(* counts are cleared in the step that broadcasts: no answer of the round  *)
(* exists before it (NoAnswerBeforeProposal, checked in the state that     *)
(* precedes the step), so no handler can tell.                             *)

SendStep(p, from, to) ==
  /\ alive[p]
  /\ sendPC[p] = from
  /\ sendPC' = [sendPC EXCEPT ![p] = to]
  /\ UNCHANGED <<alive, mainPC, recvOn, reseOn, round_num, accepted_value,
                 fin, output>>

ProposeAssign(p) ==
  /\ SendStep(p, "assign", "activate")
  /\ proposed_value' =
       [proposed_value EXCEPT ![p] = Proposal[p][round_num[p]]]
  /\ UNCHANGED <<active, countVars, sent>>

ProposeActivate(p) ==
  /\ SendStep(p, "activate", "number")
  /\ active' = [active EXCEPT ![p] = TRUE]
  /\ UNCHANGED <<proposed_value, countVars, sent>>

ProposeNumber(p) ==
  /\ SendStep(p, "number", "propose")
  /\ active_proposal_number' = [active_proposal_number EXCEPT ![p] = @ + 1]
  /\ UNCHANGED <<active, proposed_value, ack_count, nack_count, sent>>

\* The counts are cleared and the proposal goes out to every host.
ProposeBroadcast(p) ==
  /\ SendStep(p, "propose", "wait")
  /\ ack_count' = [ack_count EXCEPT ![p] = {}]
  /\ nack_count' = [nack_count EXCEPT ![p] = {}]
  /\ sent' = sent \cup {Prop(p, round_num[p], active_proposal_number[p],
                             Proposal[p][round_num[p]])}
  /\ UNCHANGED <<active, proposed_value, active_proposal_number>>

\* The thread polls active_lattice; once it is false it broadcasts FIN and ends.
SendFin(p) ==
  /\ ~active[p]
  /\ SendStep(p, "wait", "off")
  /\ sent' = sent \cup {Fin(p, round_num[p])}
  /\ UNCHANGED proposerVars

-----------------------------------------------------------------------------
(* The receive thread.  A handler runs under the mutex from its first      *)
(* statement to its last.  A delivery that changes nothing (an answer to   *)
(* an older proposal, a repeated message) stutters.  The thread leaves     *)
(* receiverPerfectLinks only when a handler throws, and ends if it then    *)
(* finds a majority of FINs.                                               *)

\* Broken variant: the round number of a message is not looked at.
ReceivesAnyRound(p, m, type) == /\ m.type = type
                                /\ alive[p]
                                /\ recvOn[p]
                                /\ AddressedTo(m, p)

\* A message of this type and of this round is delivered to p.
Receives(p, m, type) == /\ m.type = type
                        /\ alive[p]
                        /\ recvOn[p]
                        /\ m.round = round_num[p]
                        /\ AddressedTo(m, p)

\* upon_event_recv_prop_lattice: the acceptor.
Accepts(p, v) == accepted_value[p] \subseteq v

\* Broken variant: the last proposal received is the one accepted.
LastProposed(p, v) == v

NewAccepted(p, v) == IF Accepts(p, v) THEN v ELSE accepted_value[p] \cup v

Reply(p, m) ==
  IF Accepts(p, m.val)
    THEN Ack(p, m.src, round_num[p], m.num)
    ELSE Nack(p, m.src, round_num[p], m.num, NewAccepted(p, m.val))

RecvProp(p, m) ==
  /\ Receives(p, m, "P")
  /\ accepted_value' = [accepted_value EXCEPT ![p] = NewAccepted(p, m.val)]
  /\ sent' = sent \cup {Reply(p, m)}
  /\ UNCHANGED <<alive, threadVars, proposerVars, fin, output>>

\* An answer to the current proposal of p.
CurrentAnswer(p, m, type) ==
  /\ Receives(p, m, type)
  /\ m.num = active_proposal_number[p]

\* Broken variant: the NACKs alone have to be a majority.
NackMajority(p, acks, nacks) == Majority(nacks) /\ active[p]

\* check_nack_count_lattice, for given counts and proposed value.
MustRepropose(p, acks, nacks) ==
  /\ nacks # {}
  /\ Quorum(Cardinality(acks) + Cardinality(nacks))
  /\ active[p]

CheckNackCount(p, acks, nacks, value) ==
  IF MustRepropose(p, acks, nacks)
    THEN /\ active_proposal_number' =
              [active_proposal_number EXCEPT ![p] = @ + 1]
         /\ ack_count' = [ack_count EXCEPT ![p] = {}]
         /\ nack_count' = [nack_count EXCEPT ![p] = {}]
         /\ sent' = sent \cup {Prop(p, round_num[p],
                                    active_proposal_number[p] + 1, value)}
    ELSE /\ ack_count' = [ack_count EXCEPT ![p] = acks]
         /\ nack_count' = [nack_count EXCEPT ![p] = nacks]
         /\ UNCHANGED <<active_proposal_number, sent>>

\* Broken variant: a further ACK decides again.
DecideAgain(p, acks) == Majority(acks)

\* Broken variant: a majority of answers decides, whatever they are.
AnswersDecide(p, acks) ==
  Quorum(Cardinality(acks) + Cardinality(nack_count[p])) /\ active[p]

\* check_ack_count_lattice.
MustDecide(p, acks) == Majority(acks) /\ active[p]

\* decide_lattice: a line of output, and the process's own FIN.
DecideLattice(p) ==
  /\ output' = [output EXCEPT ![p] = Append(@, proposed_value[p])]
  /\ fin' = [fin EXCEPT ![p] = @ \cup {p}]

\* An ACK that completes a majority.  The check of the NACK count that follows
\* finds active_lattice false.
RecvAckDecide(p, m) ==
  /\ CurrentAnswer(p, m, "A")
  /\ MustDecide(p, ack_count[p] \cup {m.src})
  /\ ack_count' = [ack_count EXCEPT ![p] = @ \cup {m.src}]
  /\ DecideLattice(p)
  /\ active' = [active EXCEPT ![p] = FALSE]
  /\ UNCHANGED <<alive, threadVars, active_proposal_number, nack_count,
                 proposed_value, accepted_value, sent>>

\* Any other ACK: counted, and it may still complete the answers after a NACK.
RecvAckCount(p, m) ==
  /\ CurrentAnswer(p, m, "A")
  /\ ~MustDecide(p, ack_count[p] \cup {m.src})
  /\ CheckNackCount(p, ack_count[p] \cup {m.src}, nack_count[p],
                    proposed_value[p])
  /\ UNCHANGED <<alive, threadVars, active, proposed_value, accepted_value,
                 fin, output>>

\* Broken variant: the NACK's value is joined after the new proposal is sent.
RecvNackLate(p, m) ==
  /\ CurrentAnswer(p, m, "N")
  /\ proposed_value' = [proposed_value EXCEPT ![p] = @ \cup m.val]
  /\ CheckNackCount(p, ack_count[p], nack_count[p] \cup {m.src},
                    proposed_value[p])
  /\ UNCHANGED <<alive, threadVars, active, accepted_value, fin, output>>

RecvNack(p, m) ==
  /\ CurrentAnswer(p, m, "N")
  /\ proposed_value' = [proposed_value EXCEPT ![p] = @ \cup m.val]
  /\ CheckNackCount(p, ack_count[p], nack_count[p] \cup {m.src},
                    proposed_value[p] \cup m.val)
  /\ UNCHANGED <<alive, threadVars, active, accepted_value, fin, output>>

\* FIN of this round: the handler throws once a majority has finished.
RecvFin(p, m) ==
  /\ Receives(p, m, "F")
  /\ fin' = [fin EXCEPT ![p] = @ \cup {m.src}]
  /\ recvOn' = [recvOn EXCEPT ![p] = ~Majority(fin[p] \cup {m.src})]
  /\ UNCHANGED <<alive, mainPC, sendPC, reseOn, round_num, proposerVars,
                 accepted_value, output, sent>>

Receive(p, m) == \/ RecvProp(p, m)
                 \/ RecvAckDecide(p, m)
                 \/ RecvAckCount(p, m)
                 \/ RecvNack(p, m)
                 \/ RecvFin(p, m)

\* A message of another round: the handler throws before it looks at it.  The
\* thread may by then have a majority of FINs, its own decision being the last.
RecvOtherRound(p, m) ==
  /\ alive[p]
  /\ recvOn[p]
  /\ m.round # round_num[p]
  /\ AddressedTo(m, p)
  /\ Majority(fin[p])
  /\ recvOn' = [recvOn EXCEPT ![p] = FALSE]
  /\ UNCHANGED <<alive, mainPC, sendPC, reseOn, round_num, proposerVars,
                 accepted_value, fin, output, sent>>

-----------------------------------------------------------------------------
(* The resend thread ends after a pass that finds a majority of FINs.      *)
ReseExit(p) ==
  /\ alive[p]
  /\ reseOn[p]
  /\ Majority(fin[p])
  /\ reseOn' = [reseOn EXCEPT ![p] = FALSE]
  /\ UNCHANGED <<alive, mainPC, sendPC, recvOn, round_num, proposerVars,
                 accepted_value, fin, output, sent>>

(* SIGTERM or SIGINT: the process exits; what it has written stays.        *)
Crash(p) ==
  /\ alive[p]
  /\ Cardinality({q \in Proc : ~alive[q]}) < MaxCrashes
  /\ alive' = [alive EXCEPT ![p] = FALSE]
  /\ UNCHANGED <<threadVars, proposerVars, accepted_value, fin, output, sent>>

-----------------------------------------------------------------------------
MainThread(p) == StartRound(p) \/ JoinThreads(p)

SendThread(p) == \/ ProposeAssign(p)
                 \/ ProposeActivate(p)
                 \/ ProposeNumber(p)
                 \/ ProposeBroadcast(p)
                 \/ SendFin(p)

RecvThread(p) == \E m \in sent : Receive(p, m) \/ RecvOtherRound(p, m)

Next == \E p \in Proc : \/ MainThread(p)
                        \/ SendThread(p)
                        \/ RecvThread(p)
                        \/ ReseExit(p)
                        \/ Crash(p)

Spec == Init /\ [][Next]_vars

(* Every thread of a live process is scheduled, and what a live process    *)
(* has sent to a process that is receiving is delivered in the end, once:  *)
(* a process that has crashed retransmits nothing, and nothing guarantees  *)
(* a second delivery.  No step of a round can be undone, so every          *)
(* behaviour comes to rest, and fairness of all those steps together is as *)
(* strong as fairness of each thread.                                      *)
Answered(m, p) == \E a \in Acks \cup Nacks : a.src = p /\ Answers(a, m)

RecvFresh(p) == \E m \in sent : /\ alive[m.src]
                                /\ m.type = "P" => ~Answered(m, p)
                                /\ Receive(p, m)

Scheduled == \E p \in Proc : \/ MainThread(p)
                             \/ SendThread(p)
                             \/ RecvFresh(p)
                             \/ ReseExit(p)

Fairness == WF_vars(Scheduled)

FairSpec == Spec /\ Fairness

-----------------------------------------------------------------------------
(* Properties.                                                             *)

PreBroadcast == {"assign", "activate", "number", "propose"}

\* The send thread of p has broadcast its proposal of round_num[p].
HasProposed(p) == mainPC[p] = "join" /\ sendPC[p] \notin PreBroadcast

\* p has decided in round_num[p].
HasDecided(p) == HasProposed(p) /\ ~active[p]

\* Every variable holds what its C++ type and the round loop allow; a thread
\* runs only inside a round that has a proposal.
TypeOK ==
  /\ alive \in [Proc -> BOOLEAN]
  /\ mainPC \in [Proc -> {"loop", "join"}]
  /\ sendPC \in [Proc -> PreBroadcast \cup {"wait", "off"}]
  /\ recvOn \in [Proc -> BOOLEAN]
  /\ reseOn \in [Proc -> BOOLEAN]
  /\ round_num \in [Proc -> 0 .. Rounds]
  /\ active \in [Proc -> BOOLEAN]
  /\ active_proposal_number \in [Proc -> Nat]
  /\ ack_count \in [Proc -> SUBSET Proc]
  /\ nack_count \in [Proc -> SUBSET Proc]
  /\ proposed_value \in [Proc -> SUBSET Value]
  /\ accepted_value \in [Proc -> SUBSET Value]
  /\ fin \in [Proc -> SUBSET Proc]
  /\ output \in [Proc -> Seq(SUBSET Value)]
  /\ sent \subseteq Message
  /\ \A p \in Proc :
       IF mainPC[p] = "join"
         THEN round_num[p] < Rounds
         ELSE sendPC[p] = "off" /\ ~recvOn[p] /\ ~reseOn[p]

Comparable(v, w) == v \subseteq w \/ w \subseteq v

\* Any two decisions of one round are ordered by inclusion, whichever
\* processes wrote them (verifyConsistency).
Consistency ==
  \A p, q \in Proc : \A i \in 1 .. Len(output[p]) :
    i <= Len(output[q]) => Comparable(output[p][i], output[q][i])

\* The processes that have proposed in round r.
Proposers(r) == {m.src : m \in {x \in Props : x.round = r}}

\* A decision contains the process's own proposal and, beyond it, only what
\* was proposed in the same round by then (verifySubsetValidity,
\* verifyJointProposals).
Validity ==
  \A p \in Proc : \A i \in 1 .. Len(output[p]) :
    /\ Proposal[p][i - 1] \subseteq output[p][i]
    /\ output[p][i] \subseteq UNION {Proposal[q][i - 1] : q \in Proposers(i - 1)}

\* One line per round, in the order of the rounds: p has written a line for
\* each round it has left, and one for its current round exactly when it has
\* decided there (decide_lattice is called at most once, never before the
\* proposal and never for a round already left).
OutputOrder ==
  \A p \in Proc :
    Len(output[p]) = round_num[p] + (IF HasDecided(p) THEN 1 ELSE 0)

\* The acceptors of a proposal.
AckedBy(m) == {a.src : a \in {x \in Acks : Answers(x, m)}}

\* What is decided is a value the process broadcast and a majority accepted as
\* it was, although proposed_value may grow between the broadcast and the last
\* ACK, and ACKs of older proposals and older rounds keep arriving.
DecidedWasAccepted ==
  \A p \in Proc : \A i \in 1 .. Len(output[p]) :
    \E m \in Props : /\ m.src = p
                     /\ m.round = i - 1
                     /\ m.val = output[p][i]
                     /\ Majority(AckedBy(m))

\* propose_lattice writes the proposer's state without the mutex while the
\* receive thread runs.  It is safe because no answer that belongs to the round
\* exists before the thread's broadcast, whatever is left over from the rounds
\* before, so that no handler touches that state until then.
NoAnswerBeforeProposal ==
  \A p \in Proc : mainPC[p] = "join" /\ sendPC[p] \in PreBroadcast =>
    \A m \in Acks \cup Nacks : m.dst = p => m.round # round_num[p]

\* A process leaves a round only after a majority has decided in it: a FIN is
\* sent after the decision and counted for its own round only.
RoundBarrier ==
  \A p \in Proc : \A r \in 0 .. round_num[p] - 1 :
    Majority({q \in Proc : Len(output[q]) > r})

\* Of two proposals of a process in a round the later one is strictly larger,
\* so the proposal number is bounded by the number of values proposed.
ProposalsGrow ==
  \A m, n \in Props :
    m.src = n.src /\ m.round = n.round /\ m.num < n.num =>
      m.val \subseteq n.val /\ m.val # n.val

\* Within a round an acceptor never forgets what it has accepted.
AcceptedGrows ==
  [][\A p \in Proc : mainPC[p] = "join" =>
       accepted_value[p] \subseteq accepted_value'[p]]_vars

\* A majority decides in the first round, unless so many crash that no majority
\* is left.
MajorityDecides ==
  <>(Majority({p \in Proc : Len(output[p]) > 0}) \/ ~Majority({p \in Proc : alive[p]}))

\* "propose once, wait until decided" (multithread.cpp:25): the wait of a live
\* process ends.
WaitEnds ==
  \A p \in Proc : sendPC[p] = "wait" ~> (sendPC[p] # "wait" \/ ~alive[p])

-----------------------------------------------------------------------------
(* The program implements LatticeSpec: a process has started a round when  *)
(* it has broadcast its proposal.                                          *)

started == [p \in Proc |->
              IF HasProposed(p) THEN round_num[p] + 1 ELSE round_num[p]]

LS == INSTANCE LatticeSpec WITH started <- started, decisions <- output

RefinesLatticeSpec == LS!AbstractSpec

=============================================================================
