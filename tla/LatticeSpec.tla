----------------------------- MODULE LatticeSpec -----------------------------
(***************************************************************************)
(* What the lattice agreement program promises, as the checker             *)
(* example/output/verify_lattice.cpp reads it off the output files:        *)
(* every process proposes one set per round and writes one decision per    *)
(* round, in the order of its proposals, such that in each round           *)
(*   - a decision contains the process's own proposal,                     *)
(*   - a decision contains only values somebody proposed in that round,    *)
(*   - any two decisions are ordered by inclusion.                         *)
(* Nothing is said of messages, threads, proposal numbers or quorums.      *)
(***************************************************************************)
EXTENDS Naturals, Sequences

CONSTANTS Proc,      \* the processes
          Value,     \* the integers that proposals are made of
          Rounds,    \* number of proposals of each process
          Proposal   \* Proposal[p][r]: what p proposes in round r

VARIABLES started,   \* started[p]: how many rounds p has proposed in
          decisions  \* decisions[p]: the lines p has written, in order

specVars == <<started, decisions>>

\* The values proposed so far in round r.
Joint(r) == UNION {Proposal[q][r] : q \in {x \in Proc : started[x] > r}}

Comparable(v, w) == v \subseteq w \/ w \subseteq v

-----------------------------------------------------------------------------

SpecInit == /\ started = [p \in Proc |-> 0]
            /\ decisions = [p \in Proc |-> <<>>]

\* A process proposes in its next round once it has decided in the last one.
Propose(p) == /\ started[p] < Rounds
              /\ Len(decisions[p]) = started[p]
              /\ started' = [started EXCEPT ![p] = @ + 1]
              /\ UNCHANGED decisions

\* A process decides in the round it has proposed in.
Decide(p, v) ==
  LET r == Len(decisions[p]) IN
  /\ started[p] = r + 1
  /\ Proposal[p][r] \subseteq v
  /\ v \subseteq Joint(r)
  /\ \A q \in Proc : Len(decisions[q]) > r => Comparable(v, decisions[q][r + 1])
  /\ decisions' = [decisions EXCEPT ![p] = Append(@, v)]
  /\ UNCHANGED started

SpecNext == \E p \in Proc : Propose(p) \/ \E v \in SUBSET Value : Decide(p, v)

AbstractSpec == SpecInit /\ [][SpecNext]_specVars

=============================================================================
