-------------------------------- MODULE Verifier --------------------------------
(***************************************************************************)
(* example/output/verify_lattice.cpp: what it complains of, given the      *)
(* proposals of every process and the lines of every output file.  All     *)
(* configurations announce the same number of proposals, lines, and the    *)
(* variable n of the program has been set to the number of processes.      *)
(***************************************************************************)
EXTENDS Naturals, Sequences

CONSTANTS Proc

\* readConfigAndOutput, the output: a line that is not there is read as an
\* empty set, and what is beyond the last proposal is not read.
ReadOutput(output, lines) ==
  [i \in 1 .. lines |-> IF i <= Len(output) THEN output[i] ELSE {}]

\* verifySubsetValidity: the <<line, process>> complained of.
SubsetFailures(proposals, decisions, lines) ==
  {x \in (1 .. lines) \X Proc :
     ~(proposals[x[2]][x[1]] \subseteq decisions[x[2]][x[1]])}

\* verifyJointProposals.
JointFailures(proposals, decisions, lines) ==
  {x \in (1 .. lines) \X Proc :
     ~(decisions[x[2]][x[1]] \subseteq UNION {proposals[q][x[1]] : q \in Proc})}

\* verifyConsistency: the <<line, process, process>> complained of.
ConsistencyFailures(decisions, lines) ==
  {x \in (1 .. lines) \X Proc \X Proc :
     /\ ~(decisions[x[2]][x[1]] \subseteq decisions[x[3]][x[1]])
     /\ ~(decisions[x[3]][x[1]] \subseteq decisions[x[2]][x[1]])}

=============================================================================
