-------------------------------- MODULE Startup --------------------------------
(***************************************************************************)
(* Processes on their way from main to the round loop, and what becomes of *)
(* the output file when one is started in place of another: main.cpp, the  *)
(* parser, and the socket of udp.hpp.                                      *)
(*                                                                         *)
(* All run on one machine and are given the same hosts file.  What a round *)
(* does is in LatticeAgreement; here it is the line that it writes.  Each  *)
(* process has been given its command line in the initial state and takes  *)
(* its first step at any time: one that is started again is another        *)
(* process.                                                                *)
(***************************************************************************)
EXTENDS Configuration

CONSTANTS Proc,      \* the processes that are started
          Start,     \* the command lines, behind the name of the program
          LongRange, \* how many values an unsigned long has: 2^64
          Anything,  \* what an int that has not been written may hold
          HostsFiles

ASSUME StartAssumption ==
  \A argv \in Start :
    /\ Len(argv) >= 2 => argv[2] \in Word
    /\ Len(argv) >= 7 => argv[7] = NoFile \/ argv[7] \in Seq(Seq(Word))
ASSUME HostsAssumption ==
  \A entries \in HostsFiles :
    entries = NoFile \/ entries \in Seq([id : Nat, port : Nat] \cup {Junk})
ASSUME AnythingAssumption == Anything \subseteq Int

VARIABLES
  args,      \* the command line of a process, a file in the place of its path
             \* for the configuration
  hostsFile,
  writable,  \* the output files can be opened
  pc,
  addr,      \* udp.addr, from index 1
  message_to_send, proposals_lattice,
  round_num,
  file       \* the lines of an output file, by its path: <<process, round>>

inputVars == <<args, hostsFile, writable>>
configVars == <<message_to_send, proposals_lattice>>
vars == <<inputVars, pc, addr, configVars, round_num, file>>

-----------------------------------------------------------------------------
(* The command line: --id ID --hosts HOSTS --output OUTPUT CONFIG.  What   *)
(* comes after that is not looked at.                                      *)

\* isPositiveNumber, and stoul, which throws when the number is too large.
ParseID(argv) == /\ Len(argv) >= 2
                 /\ argv[1] = "--id"
                 /\ argv[2] # Junk
                 /\ 0 <= argv[2] /\ argv[2] < LongRange

ParseHostPath(argv) == Len(argv) >= 4 /\ argv[3] = "--hosts"

ParseOutputPath(argv) == Len(argv) >= 6 /\ argv[5] = "--output"

ParseConfigPath(argv) == Len(argv) >= 7

\* parseInternal.
Accepted(argv) == /\ ParseID(argv)
                  /\ ParseHostPath(argv)
                  /\ ParseOutputPath(argv)
                  /\ ParseConfigPath(argv)

OutputPath(p) == args[p][6]

Config(p) == args[p][7]

OutputPaths == {argv[6] : argv \in {x \in Start : Accepted(x)}}

\* unsigned long to int.
EmId(p) == LET n == args[p][2] % IntRange
           IN  IF n < IntRange \div 2 THEN n ELSE n - IntRange

-----------------------------------------------------------------------------
\* Where a process is, and how it may have ended: exit with failure or success,
\* terminate on an exception, or go on with undefined behaviour.
Going == {"parse", "hosts", "clear", "config", "bind", "run", "idle"}
Ended == {"failure", "success", "abort", "undefined"}

Init ==
  /\ args \in [Proc -> Start]
  /\ hostsFile \in HostsFiles
  /\ writable \in BOOLEAN
  /\ pc = [p \in Proc |-> "parse"]
  /\ addr = [p \in Proc |-> <<>>]
  /\ message_to_send = [p \in Proc |-> 0]
  /\ proposals_lattice = [p \in Proc |-> <<>>]
  /\ round_num = [p \in Proc |-> 0]
  /\ file = [o \in OutputPaths |-> <<>>]

\* The process goes from one place to another.
Goes(p, from, to) == /\ pc[p] = from
                     /\ pc' = [pc EXCEPT ![p] = to]

\* Parser::parse.  Arguments that are not accepted end in help().
Parse(p) ==
  /\ Goes(p, "parse", IF Accepted(args[p]) THEN "hosts" ELSE "failure")
  /\ UNCHANGED <<inputVars, addr, configVars, round_num, file>>

\* hosts(), to print them: an exception is not caught.
ReadHosts(p) ==
  /\ Goes(p, "hosts", IF HostsAccepted(hostsFile) THEN "clear" ELSE "abort")
  /\ UNCHANGED <<inputVars, addr, configVars, round_num, file>>

\* clearOutputFile.
Cleared(p) == IF writable THEN [file EXCEPT ![OutputPath(p)] = <<>>] ELSE file

ClearOutputFile(p) ==
  /\ Goes(p, "clear", "config")
  /\ file' = Cleared(p)
  /\ UNCHANGED <<inputVars, addr, configVars, round_num>>

\* config_lattice: a file that cannot be opened throws before the try block, a
\* negative number of proposals in it, after message_to_send has been read; any
\* other failure is only printed.
Configure(p) ==
  \/ /\ Goes(p, "config", "abort")
     /\ Config(p) = NoFile
     /\ UNCHANGED <<inputVars, addr, configVars, round_num, file>>
  \/ /\ Goes(p, "config", "abort")
     /\ Config(p) # NoFile /\ AssignThrows(Config(p))
     /\ message_to_send' = [message_to_send EXCEPT ![p] = Words(Config(p))[1]]
     /\ UNCHANGED <<inputVars, addr, proposals_lattice, round_num, file>>
  \/ /\ Goes(p, "config", "bind")
     /\ Config(p) # NoFile /\ ~AssignThrows(Config(p))
     /\ \E n \in MessageToSend(Config(p), Anything) :
          message_to_send' = [message_to_send EXCEPT ![p] = n]
     /\ proposals_lattice' =
          [proposals_lattice EXCEPT ![p] = ProposalsLattice(Config(p))]
     /\ UNCHANGED <<inputVars, addr, round_num, file>>

\* addr has an entry for id 0, which no host has, with port 0.
Port(table, i) == IF i = 0 THEN 0 ELSE table[i].port

Bound(p) == pc[p] \in {"run", "idle"}

\* Broken variant: the address is shared.
PortIsReused(p, port) == TRUE

\* bind to port 0 takes any free port; a port is free unless it is bound.
PortIsFree(p, port) ==
  port # 0 => \A q \in Proc : Bound(q) => Port(addr[q], EmId(q)) # port

\* initPerfectLink: the sockets are made once, with hosts() read again.
\* An em_id that is not an index of addr is undefined behaviour.
Bind(p) ==
  /\ pc[p] = "bind"
  /\ addr' = [addr EXCEPT ![p] = Sorted(hostsFile)]
  /\ \/ EmId(p) \notin 0 .. Len(addr'[p]) /\ Goes(p, "bind", "undefined")
     \/ /\ EmId(p) \in 0 .. Len(addr'[p])
        /\ Goes(p, "bind", IF PortIsFree(p, Port(addr'[p], EmId(p)))
                             THEN "run" ELSE "success")
  /\ UNCHANGED <<inputVars, configVars, round_num, file>>

-----------------------------------------------------------------------------
(* thread_run, and the sleep after it.                                     *)

\* writeOutputFile: the file is opened for each line, and appended to.
Appended(p) ==
  IF writable THEN [file EXCEPT ![OutputPath(p)] = Append(@, <<p, round_num[p]>>)] ELSE file

\* A round begins by taking proposals_lattice[round_num], whatever there is.
OutOfRange(p) == round_num[p] >= Len(proposals_lattice[p])

Round(p) ==
  /\ round_num[p] < message_to_send[p]
  /\ IF OutOfRange(p)
       THEN /\ Goes(p, "run", "undefined")
            /\ UNCHANGED <<round_num, file>>
       ELSE /\ Goes(p, "run", "run")
            /\ file' = Appended(p)
            /\ round_num' = [round_num EXCEPT ![p] = @ + 1]
  /\ UNCHANGED <<inputVars, addr, configVars>>

Finish(p) ==
  /\ round_num[p] >= message_to_send[p]
  /\ Goes(p, "run", "idle")
  /\ UNCHANGED <<inputVars, addr, configVars, round_num, file>>

\* SIGTERM or SIGINT, at any point: exit(0).
Stop(p) ==
  /\ pc[p] \in Going
  /\ pc' = [pc EXCEPT ![p] = "success"]
  /\ UNCHANGED <<inputVars, addr, configVars, round_num, file>>

Next == \E p \in Proc : \/ Parse(p)
                        \/ ReadHosts(p)
                        \/ ClearOutputFile(p)
                        \/ Configure(p)
                        \/ Bind(p)
                        \/ Round(p)
                        \/ Finish(p)
                        \/ Stop(p)

Spec == Init /\ [][Next]_vars

-----------------------------------------------------------------------------
(* Properties.                                                             *)

\* A word behind the header in its line, or a blank line before another, is
\* read differently by the two readers.
IsPlain(content) ==
  /\ HeaderComplete(content)
  /\ Before(content, HeaderLine(content) + 1) = HeaderWords
  /\ \A i, j \in HeaderLine(content) + 1 .. Len(content) :
       i < j /\ content[i] = <<>> => content[j] = <<>>

Configured(p) == pc[p] \in {"bind", "run", "idle"}

\* A process proposes what verify_lattice.cpp takes for its proposals, also from
\* a file with too few lines, for which config_lattice fails half-way.
ReadersAgree ==
  \A p \in Proc : Configured(p) /\ IsPlain(Config(p)) =>
    proposals_lattice[p] = VerifierProposals(Config(p))

\* Every round of a process that runs has a proposal, and every process an
\* address: behaviour is undefined only for an --id that is no host's, and for a
\* configuration without a complete header, whose failure main ignores.
UndefinedOnlyIf ==
  \A p \in Proc : pc[p] = "undefined" =>
    EmId(p) \notin 0 .. Len(addr[p]) \/ ~HeaderComplete(Config(p))

\* The entry that send_udp finds for a host is the one of that host, although the
\* check of the hosts file looks at the smallest id, the largest and their
\* number only, as long as no id is there twice.
HostsIndexed ==
  \A p \in Proc :
    Bound(p) /\ IsInjective([i \in 1 .. Len(addr[p]) |-> addr[p][i].id]) =>
      \A i \in 1 .. Len(addr[p]) : addr[p][i].id = i

\* An id stands for one process, as every protocol above assumes, also if one is
\* started twice, or --id does not fit an int.  An --id of 0 is accepted, and so is
\* a host with port 0: there the port protects nothing.
UniqueSender ==
  \A p, q \in Proc :
    Bound(p) /\ Bound(q) /\ EmId(p) = EmId(q) => p = q \/ Port(addr[p], EmId(p)) = 0

\* The port of p, once it has tried to bind to it, is not 0.
HasPort(p) == EmId(p) \in 0 .. Len(addr[p]) => Port(addr[p], EmId(p)) # 0

\* The processes that write to o stand for one host.
IsOwn(o) ==
  \A p, q \in Proc :
    /\ Accepted(args[p]) /\ OutputPath(p) = o
    /\ Accepted(args[q]) /\ OutputPath(q) = o
    => EmId(p) = EmId(q) /\ HasPort(p)

\* A process that finds its port taken has cleared the output file before, and
\* may get the port later, after lines of the other process.  Even so an output
\* file that hosts do not share is made of the lines of one process after the
\* other, and the lines of a process are those of consecutive rounds.
LinesInOrder ==
  \A o \in OutputPaths : IsOwn(o) =>
    \A j, k \in 1 .. Len(file[o]) :
      j < k /\ file[o][j][1] = file[o][k][1] =>
        /\ file[o][j + 1][1] = file[o][j][1]
        /\ file[o][j + 1][2] = file[o][j][2] + 1

=============================================================================
