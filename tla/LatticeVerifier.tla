--------------------------- MODULE LatticeVerifier ---------------------------
(***************************************************************************)
(* The verifier, run over the output files of the lattice agreement at any *)
(* moment, while processes still run or have crashed.                      *)
(***************************************************************************)
EXTENDS LatticeAgreement

INSTANCE Verifier

\* Round r is line r + 1 of the files.
proposals == [p \in Proc |-> [i \in 1 .. Rounds |-> Proposal[p][i - 1]]]

decisions == [p \in Proc |-> ReadOutput(output[p], Rounds)]

\* The lines that have not been written, of a proposal that is not empty.
Unwritten ==
  {x \in (1 .. Rounds) \X Proc :
     x[1] > Len(output[x[2]]) /\ Proposal[x[2]][x[1] - 1] # {}}

\* The verifier never finds a decision at fault, and it does find every decision
\* that is missing, although it reads it as an empty set, which is comparable
\* to any other and within the joint proposals.
VerifierVerdict ==
  /\ JointFailures(proposals, decisions, Rounds) = {}
  /\ ConsistencyFailures(decisions, Rounds) = {}
  /\ SubsetFailures(proposals, decisions, Rounds) = Unwritten

=============================================================================
