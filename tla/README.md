# TLA+ verification of the CS451 lattice agreement program

The repository is a C++ program (`template_cpp/src`) that runs multi-shot lattice agreement between a fixed set of
processes over UDP. Every process reads a configuration with one set of integers per round, proposes it, and writes one
line per round, the set it decided. This directory holds TLA+ modules translated from that code, TLC configurations that
check them on small instances, and TLAPS proofs of the main safety properties for every instance.

Beside it the repository keeps the earlier milestones, the uniform reliable broadcast and the FIFO broadcast on top of
it, and a verifier of the output files; they are modelled too, and so are the text of the messages and the way of a
process from `main` to its first round.

Paths below are relative to `src/`; `LA`, `MT`, `PL`, `URB`, `FIFO` stand for `latticeagreement.cpp`, `multithread.cpp`,
`perfectlink.cpp`, `uniformreliablebroadcast.cpp` and `fifobroadcast.cpp` in `template_cpp/src/src/`, `PAR` and `UDP`
for `parser.hpp` and `udp.hpp` in `template_cpp/src/include/`, `VL` for `example/output/verify_lattice.cpp`.

## Inventory

| Component | State | Operations | What makes it correct |
|---|---|---|---|
| Lattice agreement (`LA`) | proposer: `active_lattice`, proposal number, ACK and NACK sets, `proposed_value`; acceptor: `accepted_value`; round: `fin_lattice` | `init_lattice`, `propose_lattice`, one handler per message type, the two count checks, `decide_lattice` | decisions of a round are comparable, contain the own proposal and only proposed values; one line per round; a majority decides |
| Round driver (`MT`) | `round_num`, three threads per round | `thread_run`, `send_thread`, `recv_thread`, `rese_thread` | rounds do not mix; a round is left only when a majority has decided; no thread waits for ever |
| Perfect link (`PL`) | `not_delivered_pl`, `ack_queue_pl` | `initPerfectLink`, `senderPerfectLinks`, `receiverPerfectLinks`, `resendPerfectLinks` | what has not arrived stays in the set that is resent |
| UDP (`UDP`) | two sockets, `addr` | `init_udp`, `send_udp`, `receive_udp` | packets are lost, repeated, reordered and cut at `MAXLINE`, and nothing is written behind the buffer; the entry of a host is found under its id, and a bound port belongs to one process |
| Message format (`LA` 3-156) | – | `format_*`, `deformat_*` | what fits the buffer is read as it was sent, what fills it is not read as something else |
| Output and verifier (`PAR`, `VL`) | the output file | `clearOutputFile`, `writeOutputFile`; the three checks | the checks hold of what is written, and the lines of two processes are not mixed |
| Signals (`main.cpp`) | – | `stop` | what was written stays; the others go on |
| Configuration, hosts, arguments (`PAR`, `main.cpp`) | `message_to_send`, `proposals_lattice`, hosts | `parse`, `hosts`, `config_lattice` | the program and the verifier read the same proposals; a file that is refused stops the process |
| Uniform reliable broadcast (`URB`) | `pending`, `ack`, `delivered_urb` | `init_urb`, `broadcast_urb`, `upon_event_deliver_beb_urb` with `check_pending_urb` | nothing invented or repeated; what one process delivers, every live one does. Compiled, but not started by `main` at this commit |
| FIFO broadcast (`FIFO`) | `past_fifo`, `delivered_fifo`, `cheating_vector_d` | `init_fifo`, `broadcast_fifo`, `upon_event_deliver_urb_fifo` with `deliver_fifo` | the messages of a source are delivered in order and without a gap. Compiled, not started by `main` |
| `tools/stress.py`, `tc.py`, `validate_fifo.py` | process states and counters; none; none | stop, continue, terminate; network emulation; output check | never more than the allowed number of processes stopped |
| `template_java`, `hello.c`, build files | none | – | no protocol |

How they interact. In each round, `thread_run` clears the link and the lattice state and creates three threads. The send
thread proposes, polls `active_lattice`, then broadcasts FIN. The receive thread sits in `receiverPerfectLinks`, which
calls the handler of each message; a handler that throws makes it return, and the thread ends if a majority of FINs is
in. The resend thread retransmits and acknowledges every 50 ms until the same condition holds. The main thread joins
the three and starts the next round. The threads share the `Parser` object. Handlers take the mutex;
`propose_lattice`, the polling loop, the two exit tests and the link's containers do not.

What is hard: the unlocked accesses; messages of other rounds and of older proposals; retransmissions answered from a
state that has grown; majorities counted over changing sets; the end of a round, where each process leaves on its own
evidence; the link state that is reset while peers still depend on it; crashes. `PROJECT.json` lists each at its line.

## Modules

| Module | Content |
|---|---|
| `LatticeSpec` | what the program promises, as `VL` checks it: `started` rounds and `decisions` of each process, actions `Propose` and `Decide` |
| `LatticeAgreement` | the program: proposer, acceptor, the four threads of every process, crashes, network; the properties; the refinement mapping to `LatticeSpec` |
| `Verifier`, `LatticeVerifier` | `VL` itself, as operators on proposals and output files, and its use on the files of `LatticeAgreement` |
| `LatticeInvariant` | the inductive invariants `IInv` and `ValueInv` |
| `LatticeAgreementProofs`, `LatticeRefinementProofs` | the theorems |
| `LatticeLinks` | `LatticeAgreement` composed with the perfect link: every step of the program together with what it does to `not_delivered` and `ack_queue`, plus link acknowledgements and the resend pass; its invariant `LinkInv` |
| `LatticeLinksProofs` | the theorems about it, among them that it implements `LatticeAgreement` |
| `MessageFormat` | the text of one message on its way through sender, buffer, parser and acknowledgement |
| `Configuration` | reading a configuration, in the program and in the verifier, and a hosts file |
| `Startup` | processes from `main` to the round loop, their ports and their output files |
| `UniformBroadcast` | what a uniform broadcast promises to the layer above it |
| `UniformReliableBroadcast` | the broadcast of `URB` together with the link it runs on; its properties, its inductive invariant `UrbInv`, the refinement mapping to `UniformBroadcast` |
| `UniformReliableBroadcastProofs` | the theorems about it |
| `FifoBroadcast` | the broadcast of `FIFO` over a `UniformBroadcast` |
| `FifoBroadcastProofs`, `MessageFormatProofs`, `StartupProofs` | the theorems about `FifoBroadcast`, `MessageFormat` and `Startup` (with `Configuration`) |
| `SequenceLemmas` | induction over numbers and recursive functions, ordered sequences, flattening, for the last two |
| `MC...` | instances for TLC, bounds and schedules |

The layers meet in two places. `LatticeLinks` extends `LatticeAgreement` and implements it (proved): what is proved of the
program over a set of messages that may arrive at any time holds over the link that retransmits. `FifoBroadcast` is
written over `UniformBroadcast`, which `UniformReliableBroadcast` implements (proved).

### `LatticeAgreement` and the code

Variables carry the names of the fields of `Parser` without the suffix `_lattice`. `mainPC`, `sendPC`, `recvOn` and
`reseOn` say where the four threads are.

| Action | Code |
|---|---|
| `StartRound`, `JoinThreads` | one iteration of `thread_run`: `init_lattice` and the creation of the threads, the joins and `round_num++` |
| `ProposeAssign`, `ProposeActivate`, `ProposeNumber`, `ProposeBroadcast` | `propose_lattice`, split where a handler of the receive thread can run in between. Clearing the counts is one step with the broadcast: no answer of the round exists until then (`NoAnswerBeforeProposal`) |
| `SendFin` | `send_thread` finds `active_lattice` false, broadcasts FIN and ends |
| `RecvProp` | `upon_event_recv_prop_lattice` |
| `RecvAckDecide`, `RecvAckCount` | `upon_event_recv_ack_lattice` with both checks, when the ACK leads to a decision and when it does not |
| `RecvNack` | `upon_event_recv_nack_lattice` with the check that may propose again |
| `RecvFin` | `upon_event_recv_fin_lattice`, with the throw that ends the receive thread on a majority |
| `RecvOtherRound` | a message of another round makes the handler throw; the thread ends if a majority of FINs is in already, because the process's own decision completed it |
| `ReseExit` | the exit test of `rese_thread` |
| `Crash` | `stop()` after a signal: the process takes no further step. It never restarts; the program has no recovery |

The network is one set `sent` that only grows. A message in it may be delivered to a host it is addressed to at any
later time, any number of times, or never: this is loss, duplication, delay and reordering at once, and every delivery
the retransmissions can cause. A broadcast is one message addressed to all, so a crash in the middle of a broadcast is
a broadcast that some hosts never get. Messages are records; `MessageFormat` shows when the text keeps them whole.

Data races. `active_lattice`, `fin_lattice.size()` and the sets of the link are read by one thread and written by
another without a lock. The model takes each access as atomic, at any time. This is the outcome of the build for
`active_lattice` (the polling loop contains an opaque call). For the link's containers it is an assumption: a concurrent
insert and iteration is undefined, and corruption of a `std::set` is not modelled.

### `LatticeLinks` and the code

`not_delivered[p]` and `ack_queue[p]` are the two containers; `link_acks` the "@" packets handed to UDP; `reached` is a
history of what was handed to the receive thread and in which round. `LinkStartRound` empties the containers
(`initPerfectLink`), `HandToLink` is `senderPerfectLinks`, `LinkReceive` queues the acknowledgement and then runs the
handler, `Dropped` is a handler that refuses the message, `ReceiveLinkAck` erases one entry, `Resend` is one pass.

### `UniformReliableBroadcast` and the code

| Action | Code |
|---|---|
| `Broadcast` | `broadcast_urb`, which may be called again for the same text |
| `RecvNew`, `RecvPending` | the data branch of `receiverPerfectLinks` with `upon_event_deliver_beb_urb`, `check_pending_urb` and `deliver_urb`, for a message that is not pending (and is relayed) and for one that is |
| `ReceiveLinkAck`, `Resend` | the "@" branch of `receiverPerfectLinks`, and `resendPerfectLinks` |
| `Crash` | `stop()` |

Variables carry the names of the code; a message is the pair of its source and its text. At this commit the link calls the
lattice handler; the call of the broadcast's handler stands next to it in a comment (`PL` 35), and the module follows it.
There are no rounds here, so nothing empties the link's containers and `ack_queue` can be folded into `link_acks`. The
number that `get_mapping_mes` gives a text indexes `ack` in the code; it is private to a process and stands for the text,
so `ack` is indexed by the text. A handler and a call of `broadcast_urb` are one step each.

What makes the algorithm unusual is the name a packet travels under. A relay is first sent with the *source's* name
(`URB` 113), so the receiver counts the source and acknowledges to the source; only the retransmissions, which `PL` 57-68
sends with the process's own name, let a relay count as one. Both are in the model, as `SendToAll` and `Retransmission`.

### `FifoBroadcast` and the code

| Action | Code |
|---|---|
| `Broadcast`, `BroadcastAppend` | `broadcast_fifo` in the send thread, up to `broadcast_urb`, and the `append_past_fifo` after it: the handler may run in between |
| `HandleKnown`, `HandleNew` | `upon_event_deliver_urb_fifo` for a number that is in `delivered_fifo`, and for one that is not: `todo` is what its loop has still to go through, the past it has read and then the message |
| `HandleDeliver`, `HandleSkip` | one turn of that loop, with `deliver_fifo` and `append_past_fifo`, or without; the last turn is the message itself |

A past loses its last entry on the way (`ReadPast`: `FIFO` 13 drops the comma that `FIFO` 29 needs). `delivered_fifo` holds
numbers without sources and `Written` writes the numbers strictly between the counter and `m`, both as in the code. The call
in `URB` 128 is a comment, and what it would pass (the receiver's name and an index) is not what the handler's own comment
asks for (`FIFO` 112: the source and its message); the module follows the handler. What is checked and proved of this layer is
so of the handler as it documents itself: with what the call would pass (`SourceAsCalled`) `TypeOK` and `NoCreation` fail.

### `MessageFormat` and the code

One message is in `not_delivered` of its sender. `ReceiveData` is one copy of it on its way through `send_udp`,
`recvfrom`, `extract_sender_id_and_buffer`, the data branch of `receiverPerfectLinks` and the parsers; `ReceiveAck` the
same for an acknowledgement. Both are `ReceiveUdp` at the process the datagram is sent to: what arrives decides which branch
is taken (`Handle`), so an acknowledgement that has lost its "@" is queued for acknowledgement in its turn and given to
the handler, as in `PL` 33. Text is a sequence of characters, and every parser does what it does to text that was cut.
`handled` keeps what handlers have been given. The handler's effect is in `LatticeAgreement`; a message of another round
is thrown away there, and one without a round in every round.

`receive_udp` reads up to `MAXLINE` characters into `char buffer[MAXLINE]` and then writes `buffer[n] = '\0'` (`UDP` 69,
77, 83). For a datagram of `MAXLINE` characters or more that is one place behind the array, which C++ leaves undefined.
`overrun` keeps which processes have done it, and every such datagram has two outcomes in the model. The process goes on with the first
`MAXLINE` characters: that is what a build does that keeps nothing behind the buffer, and in the builds of this function that
were tried (g++ with `-O0` and `-O3`, each with and without a stack protector) the place is padding and the text is read so. Or the process ends, as in a build with a
sanitizer or with the guard of the stack next to the buffer: it is in `ended` and receives nothing more. A build in which the write changes another variable is
not modelled. With `MAXLINE - 1` in `recvfrom` there would be no such write.

### `Configuration`, `Startup` and the code

A file is a sequence of lines, a line a sequence of words, integers of any size and sign or something else. `ProposalsLattice` is `config_lattice` with
its ways to fail half-way: a word that is no number, one that does not fit an `int` (`Extracted`: the limit is what is left in `message_to_send`),
lines that are missing. A negative `p` makes `assign` throw `length_error`, which nothing catches (`AssignThrows`); a `p` too large for the memory is
not modelled. `VerifierProposals` is the reader in `VL`, `HostsAccepted` and `Sorted` are `hosts()`.

| Action | Code |
|---|---|
| `Parse`, `ReadHosts`, `ClearOutputFile`, `Configure`, `Bind` | `main` in its order: `parse` with the four parts of `parseInternal` and `help()`, the listing of the hosts (an exception ends the process), `clearOutputFile`, `config_lattice` (its failure is printed and ignored, but a file that cannot be opened throws outside the `try`, and `assign` something that is not caught: both abort), `initPerfectLink` with `bind` |
| `Round`, `Finish` | one round of `thread_run`, reduced to its output line, and the endless sleep after the last |
| `Stop` | `stop()` |

A `pc` of `undefined` is undefined behaviour: an `em_id` that is no index of `addr`, or a round without an entry in
`proposals_lattice`. A command line is a sequence of words, a configuration stands in it in the place of its path, and output files
go by their paths. All processes run on one machine, as under `tools/stress.py`, where a port belongs to one process. A
process that is started again is another process with the same command line.

## What is checked

`tlc -config <run>.cfg <module>`; the module of each run is in `PROJECT.json`. Deadlock is not checked: a process that has
finished its rounds sleeps for ever, a crashed one stops, and with `MaxCrashes` or a lost message everybody may stop.

| Run | Instance | Shows |
|---|---|---|
| `SafetyTwo` | 2 processes, 3 rounds, conflict in the second, one crash; no other bound | `TypeOK`, `IInv`, `OutputOrder`, `Validity`, `NoAnswerBeforeProposal`, `RoundBarrier`, `AcceptedGrows`, that the program implements `LatticeSpec`, and that the verifier is satisfied at any moment (`VerifierVerdict`) |
| `Three` | 3 processes, two conflicting proposers, the acceptor may crash | `Consistency`, `DecidedWasAccepted`, `ProposalsGrow` where a majority is not everybody, and `MajorityDecides` |
| `Links` | 2 processes over the link, 2 rounds, conflict in the first; one crash or one acknowledgement and one stray message | `ResentUntilReached`, and `MajorityDecides` when only retransmission brings messages |
| `Urb` | 3 processes, one message, one crash, one link acknowledgement, the broadcast may be repeated | `UrbInv`, `NoCreationOrDuplication`, `DeliveredIsHeld`; `UniformAgreement` and `BroadcastDelivered`, also when the source or the first to deliver crashes; that it implements `UniformBroadcast` |
| `Fifo` | 2 processes, three broadcasts and one | `TypeOK`, `NoCreation`, `FifoOrder`, `CarriesOwnPast` |
| `Format` | a buffer of 11 characters, all types, up to three numbers, one and two digit ids, numbers and rounds | `ReadAsSent`, `CutIsRefused`, `ResentUntilRead`, with both outcomes of a write behind the buffer |
| `Startup` | 2 processes, the command lines with their configurations, 10 hosts files | `ReadersAgree`, `UndefinedOnlyIf`, `HostsIndexed`, `UniqueSender`, `LinesInOrder` |
| `WaitEnds`, `RetransmitForever`, `UndeliveredIsResent`, `UrbSharedText`, `FifoGaps` | see *Findings* | four comments and a validator the code does not live up to |

Bounds and why they are enough.

- Values are the process names and each process proposes its own. Two proposals of a round are then incomparable, the
  hard case: every acceptor that sees both refuses one. Proposals grow at most to the set of all values, so proposal
  numbers are bounded without a constraint (`ProposalsGrow`).
- Three rounds make a message two rounds old possible, and put the conflict where messages of the round before and
  state for the round after surround it. In the other two rounds everybody proposes everything.
- With two processes a majority is both of them. `Three` has majorities that overlap in one process only. It follows a
  schedule (`CrashSpec`): the processes enter the round one after the other, every proposal is answered before the next
  answer is received, answers are received in any order, and the third process makes no proposal of its own and may crash at
  any time. Its three safety properties are theorems, which no schedule restricts. `WaitEnds` has a similar schedule
  (`PhasedSpec`). Liveness over all interleavings of the threads is checked with two processes, in `Links`.
- In `Links`, `MaxAcks` and `MaxStrays` count acknowledgements handed to UDP and messages arriving in another round; `CrashAlone`
  does not combine a crash with either, `AnsweredOnce` leaves out an acceptor that answers one proposal twice
  differently, and `LastRoundOpen` leaves the second round when it begins to answer: the second round is there for its
  reset of the link and its early and late messages, and the property of liveness is about the first.
- The run of the broadcast has one message. When every text has one source, no action on one text reads or
  writes anything of another, so one message is every message. Two sources of one text are the run `UrbSharedText`.
- `FewAcks` in `Urb` counts the link acknowledgements that have arrived. One is enough for a relayer to stop resending to a process
  before the relay has counted there.
- Three messages of one source are the least in which one is overtaken by two, so that the last entry of a past, which is lost,
  and an earlier one, which is not, are both needed; the one message of the other has the number of the first's first.
- Eleven characters stand for `MAXLINE`. The datagrams have 7 to 14, the acknowledgements one more, so every cut is met:
  in the round, in the proposal number, between the two, and in a set; and so are the datagrams of exactly 11, from which nothing is cut, but
  which leave no place for the end of the string.
- An `int` has the 8 values -4 to 3 in `Startup`, so that an `--id` can become another host's, or negative, and an `unsigned long` 16. The command lines
  are complete, cut short, with an option that is not the one expected, or with an id that is none. The files are one or more of each kind:
  as documented, short, with blank lines, with the header in two lines, with words that are no numbers or do not fit, without a complete header, with a negative number of proposals.
- Symmetry permutes the processes together with their values, in `SafetyTwo` and `Startup`, which have no liveness property.

Fairness. In `LatticeAgreement`, one weak fairness condition on all steps of live processes together: the scheduler
runs every thread and what a live process has sent to a process that is receiving arrives. A round cannot undo a step
and has finitely many, so this is as strong as one condition per thread. A message of a crashed process need not
arrive, and a proposal that was answered need not arrive again. In `LatticeLinks` threads are scheduled, and
a message arrives if its sender is alive, its resend thread runs and the message is still in `not_delivered`: what
retransmission over a lossy network gives, and nothing more. Nothing is assumed of link acknowledgements. Neither
fairness promises that a process leaves a round, and the findings show that it may not; therefore liveness is claimed
of the first round and of a majority only. In `UniformReliableBroadcast` the resend thread of a live process runs, and what
it keeps resending to a live process arrives; first copies, acknowledgements and crashes are left free.

### Findings

1. `WaitEnds`. The receive and resend threads end on a majority of FINs (`MT` 66, 85) whether or not the process has
   decided. If the FINs come before its ACKs, the send thread polls for ever, although the comment at `MT` 25 says
   "propose once, wait until decided". `example/output/proc02.stdout` is such an execution.
2. `RetransmitForever`. `initPerfectLink` empties `not_delivered_pl` at the head of each round (`PL` 6), although
   `perfectlink.hpp:26` promises "Algorithm 2.1: Retransmit Forever": a FIN that was lost and that a peer waits for
   is not sent again.
3. `UndeliveredIsResent`. A message of a round its receiver has not reached is acknowledged (`PL` 33) and then dropped
   (`LA` 224), and its sender stops resending it; `PL` 58 says "resend all un-delivered message".
4. `UrbSharedText`. `ack` has one set per text (`URB` 104), shared by all processes that broadcast it, while `pending` and
   `delivered_urb` keep them apart. When two processes broadcast the same text, the acknowledgements of one complete the
   majority of the other, and a message is delivered that only one process holds. This is not what
   `uniformreliablebroadcast.hpp:25` announces, and in that case a crash can break agreement.
5. `FifoGaps`. `deliver_fifo` writes the numbers below the delivered one and never that one itself (`FIFO` 91, 98), so a
   message that is delivered in its turn is missing in the output for good, and `tools/validate_fifo.py:44` refuses the
   file ("Expected message {}, but delivered message {}"). What is written is in order and was broadcast (`FifoOrder`,
   `NoCreation`).

Not disagreements with anything the repository says, but worth knowing:

- A datagram of `MAXLINE` characters or more makes its receiver write behind its buffer (`UDP` 83), which is undefined behaviour. The
  acknowledgement is one character longer than the message (`PL` 65), so it may happen to the sender only: of a message of `MAXLINE` - 1
  characters (with a header as long), the acknowledgement is what fills the buffer. `ReadAsSent` therefore asks that both are shorter than `MAXLINE`.
  Should the process go on, a longer acknowledgement has lost its "@" and is handed to the sender's handler as a message
  (`HandledInv`). Real proposals are far shorter than `MAXLINE`.
- `main` ignores a configuration that fails to parse: with an incomplete header the first round reads past the end of an
  empty vector, or, where `message_to_send` is 0, nothing is ever proposed (`UndefinedOnlyIf`).
- A blank line between two rows of a configuration is skipped by the program and read as an empty proposal by the verifier; a word behind the
  header in its line is a row to the program and nothing to the verifier. `ReadersAgree` leaves both out (`IsPlain`): there they disagree.
- A hosts file with the ids 1, 1, 3 is accepted (`PAR` 392), and the second entry of `addr` is then a second host 1. `HostsIndexed` is about
  distinct ids.
- A process that is started under the id of a running one fails at `bind`, but has cleared the output file before (`main.cpp` 69). The
  earlier lines of the running process are lost, and its file goes on at a later round. `LinesInOrder` says that the lines still there are
  in order and without a gap, not that they begin with the first round, which would be false.

## What is proved

The proofs about the lattice agreement hold for every finite set of processes, every set of values, any number of rounds
and crashes and every assignment of proposals, with no bound on the interleavings. The assumptions are the three of the module
`LatticeAgreement`: `Proc` is finite, `Rounds` is a natural number, `Proposal` has one set of values per process and round.
The others hold for every value of the constants as well; their assumptions are types: of a message that its ids are
positive and its numbers natural (`DataAssumption`; ids start at 1, and proposals are of positive integers, `README.md` 196), of a
file and a command line what words they have (any integer, or none), of `Count` that it is a number per process, of the range of an `int` that it is an even number. Every safety property a passing run
checks is a theorem, except `DeliveredIsHeld`, in place of which the statement about texts is one that needs no further assumption (see below).

| Module | Theorems |
|---|---|
| `LatticeAgreementProofs` | `TypeOK`, `IInv`, `Consistency`, `OutputOrder`, `DecidedWasAccepted`, `RoundBarrier` and `NoAnswerBeforeProposal` are invariants of `Spec`, and every step obeys `AcceptedGrows` |
| `LatticeRefinementProofs` | `ValueInv`, `ProposalsGrow`, `Validity` and `VerifierVerdict` are invariants; `Spec` implements `LatticeSpec` |
| `LatticeLinksProofs` | `LinkSpec` implements `Spec`; `LinkInv`, `ResentUntilReached` and `Consistency` are invariants of it |
| `UniformReliableBroadcastProofs` | `UrbInv`, `NoCreationOrDuplication` and `DeliveredTextIsHeld` are invariants; it implements `UniformBroadcast` |
| `FifoBroadcastProofs` | `TypeOK`, `NoCreation`, `FifoOrder` and `CarriesOwnPast` are invariants |
| `MessageFormatProofs` | `FormatInv`, `ReadAsSent`, `CutIsRefused` and `ResentUntilRead` are invariants |
| `StartupProofs` | `PathInv`, `ReadersAgree`, `UndefinedOnlyIf`, `HostsIndexed`, `UniqueSender` and `LinesInOrder` are invariants |

`Consistency` is not inductive. Two decided values are comparable because each was accepted by a majority
(`DecidedWasAccepted`), two majorities share an acceptor (`MajoritiesMeet`), and the proposals one acceptor has ACKed in a
round form a chain (`ChainInv`). The chain is kept because an acceptor that is still in the round holds
everything it has ACKed (`AckInv`) and accepts only what contains it. `DecidedWasAccepted` in turn needs that the
ACKs counted are real and, as long as no NACK is counted, `proposed_value` is what was broadcast (`ProposerInv`); that a decision is
never reached with a NACK in the set, since the answers would have been a majority earlier (`NoNackAtDecision`); and
that the send thread writes undisturbed (`SendInv`), because an answer implies a proposal of the round (`AnswerInv`,
`PropInv`). Round, sender and number identify a proposal (`UniqueProp`). `RoundBarrier` follows from what a FIN proves
(`FinInv`). The proof that a step keeps `IInv` goes conjunct by conjunct, and within one action by action; `StepFacts`
states once what a step may do to the network and to the position of a process.

`Validity` and `ProposalsGrow` need a second invariant, `ValueInv`, about values only, which is inductive once `IInv` holds. A
NACK brings its receiver something that the answered proposal did not contain (`NackValues`), because its sender refused; so
with a NACK counted `proposed_value` is strictly larger than the last proposal (`GrowOk`), and the next proposal,
which needs one, is too. Whatever is in a proposal, a NACK or an acceptor was proposed in the same round (`PropValues`,
`AcceptedValues`): the acceptors forget at the end of a round, and a message of another round is refused.

The refinement maps a round to *started* when its proposal is broadcast. `ProposeBroadcast` is then `Propose`,
`RecvAckDecide` is `Decide`, for which `Validity` and `Consistency` *after* the step give the guards, and everything else
stutters. `VerifierVerdict` follows from the same two and from `OutputOrder`; the lines that are missing are empty sets to the
verifier, which are comparable to all others, so only its subset check complains, and of nothing else.

`LinkInv` says that a message of the sender's current round is in `not_delivered` or has been handed to its receiver. It
is kept because only what was handed over is acknowledged (`AckedInv`) and because the containers are emptied when no message
of the new round exists yet (`SentInv`, which needs `TypeOK` of the program, inherited through the refinement).

`UniformReliableBroadcastProofs` holds for every finite set of processes, any texts, whoever broadcasts them, and any number of
crashes. The heart of `UrbInv` is `HeldInv`: the name on a packet, though it is at times the source's
and at times the relayer's, is always that of a process that holds the message. An acknowledgement therefore comes from a
process that holds *some* message with this text, and a quorum of acknowledgements is a quorum of holders of the text:
`DeliveredTextIsHeld`, which is what the code guarantees. When nobody else has broadcast the text, the message itself is what they hold, which is
`DeliveredIsHeld`, checked for one source in `Urb`; when somebody has, it is not (finding 4), and every caller left in the repository
broadcasts texts that others broadcast too (`MT` 44-50). It matters for the induction that a process never lets go of a message: it leaves
`pending` only for `delivered_urb`.

`FifoBroadcastProofs` is for any set of processes and any number of broadcasts. `TypeOK` carries the content of `NoCreation`:
wherever a process keeps a message, it is one that was broadcast, in the past, in what travels, and as the bound of a
counter. `FifoOrder` needs `LineInv`: a "d" line is about a number below the counter of its source, and the
counter rises whenever a line is written, so the next line is above all that came before; `Written` never looks at what was
received, which is why the order of arrival does not matter. `CarriesOwnPast` is not inductive between `broadcast_urb` and
`append_past_fifo`: the own message may then be missing in the past, or be there already because the receive thread has
delivered it (`PastInv`). In both cases `append_past_fifo` leaves it there once, behind all the earlier ones.

`MessageFormatProofs` is for any numbers and any `MaxLine`. The lemmas about the text say what the model's operators compute:
`DecimalHolds` that the digits of a number are read back as the number and that every proper beginning of them is the
decimal of another number; `ListedIs` and `NextItem` that `deformat_lattice` splits a list where
`format_proposal_buffer_lattice` joined it; `BodyIs`, `ReadBeginning`, `CutEnding` and `ReadEnding` what the
parsers make of the first `k` characters of a message, for each place `k` can fall in. `FormatInv` then says of every
acknowledgement that it is a beginning of the message, and the whole of it only if the message was read (`AckInv`, which includes the
acknowledgement of an acknowledgement); of every call of a handler that it has the message, one whose round is cut or missing, or an
acknowledgement that lost its "@", and that it has the message itself unless the process has overrun its buffer (`HandledInv`); and that nobody overruns
anything where both datagrams are short enough (`FitsInv`). Whether a process that overruns its buffer ends or goes on, the step keeps
each of them. `ResentUntilRead` is part of the induction: an entry of `not_delivered` is erased only for an
acknowledgement that equals it, so for a whole one.

`StartupProofs` is for any processes, command lines, files and width of an `int`. `PathInv` says what must have
happened where a process is: its arguments were accepted from `hosts` on, its hosts file from `clear` on, and
so on. With it, `ReadersAgree` and `HostsIndexed` are about pure operators: the two readers take the same numbers of every
line of a plain file; and a sequence of distinct ids of which the smallest is 1 and the largest their number is, once
sorted, the identity. `UniqueSender` and `LinesInOrder` go together: `LastInv` says that a process that runs and has
written to a file of its own wrote the last line of it, with its latest round, and a step that would let another process write
in between needs a port that is taken (`LineInv`). The attempt to prove an earlier `UniqueSender` showed that a host with
port 0 escapes it, since the parser accepts it and `bind` then takes any free port; the property now says so, and the run has
such a file.

`SequenceLemmas` makes induction available without the library's induction theorems, which take an operator as a
parameter: it is stated of a *set* of numbers (`NumberInduction`, `CompleteInduction`, from the least element of the
complement), and a proof defines the set of numbers for which its claim holds. `StepwiseFunction` gives a recursive function
its defining equation, which is why the operators proved about here are recursive functions and not `RECURSIVE` operators.

Only model-checked: liveness, that is `MajorityDecides`, `UniformAgreement` and `BroadcastDelivered`, since the prover does
not reason about fairness; and the findings, which are counterexamples. Of `UniformAgreement`, `DeliveredIsHeld` is the safety half. `DeliveredIsHeld` itself is checked, not proved: it needs one source
per text, and what holds without that, `DeliveredTextIsHeld`, is proved in its place.

## Not modelled, and the plan

Not modelled:

- corruption by concurrent access to the containers of the link, of the broadcast or of `past_fifo`, which threads
  share without a lock: undefined behaviour without a finite description; of the write behind the receive buffer, outcomes
  other than that the process ends or goes on;
- `configPerfectLink` and `config_fifo`, whose calls are commented out; console output and its time stamps;
- hosts that are read again, from a file that has changed, by every broadcast and every count (`parser.hosts()`): the file is
  taken to stay as it is;
- the growth of the past in `FIFO`, which carries every message ever broadcast or delivered and would exceed `MAXLINE`;
- `tools/stress.py` and `tc.py`, which drive the program from outside: what they do to it is `Crash`, `Stop` and loss;
- `template_java` (no protocol), `hello.c`, and the compiler probes generated by CMake under `template_cpp/CMakeFiles`, which are
  the larger part of the lines of C in the repository.

Done: `LatticeSpec`, `LatticeAgreement`, `LatticeLinks`, the verifier; `UniformReliableBroadcast`, `UniformBroadcast`,
`FifoBroadcast`; `MessageFormat`; `Configuration` and `Startup`; each with its proofs.

Left, in this order:

1. The step from `MessageFormat` to `LatticeAgreement` as a theorem: with a buffer that is large enough, what handlers
   are given when a message is sent as text is the record the model keeps in `sent`.
2. The budget of stopped processes in `stress.py`.
