---------------------------- MODULE FifoBroadcast ----------------------------
(***************************************************************************)
(* The broadcast of fifobroadcast.cpp, on top of a uniform broadcast.      *)
(* Every message carries the past of its sender: the messages it had       *)
(* broadcast or delivered before.  A receiver delivers what is missing of  *)
(* that past first.                                                        *)
(*                                                                         *)
(* main does not start this layer at this commit and its handler's call is *)
(* a comment (uniformreliablebroadcast.cpp:128) that would pass on the     *)
(* receiver's name.  The module follows the comment above the handler, "rb,*)
(* Deliver | p, [DATA, mpast, m]": the source and its number.  The caller  *)
(* broadcasts 1 to Count[p] in order.                                      *)
(*                                                                         *)
(* broadcast_fifo runs in the send thread and the handler in the receive   *)
(* thread, which share past_fifo without a lock: steps of the two          *)
(* interleave.  A crash is a process that takes no more steps.             *)
(***************************************************************************)
EXTENDS Integers, Sequences

CONSTANTS Proc,
          Count  \* Count[p]: message_to_send of process p

ASSUME CountAssumption == Count \in [Proc -> Nat]

VARIABLES
  requested, delivered,  \* the uniform broadcast
  last_sent,         \* the number of the last broadcast
  appending,         \* broadcast_fifo is at its call of append_past_fifo
  past_fifo,
  delivered_fifo,    \* numbers only, of whatever source
  cheating_vector_d, \* the number reached, by source
  todo,              \* what the running handler has still to look at
  output             \* the lines "b m" and "d s m"

sendVars == <<last_sent, appending>>
recvVars == <<delivered_fifo, cheating_vector_d, todo>>
vars == <<requested, delivered, sendVars, past_fifo, recvVars, output>>

Message == Proc \X Nat

\* The text "past;m".
Text == Seq(Message) \X Nat

URB == INSTANCE UniformBroadcast

Line(act, s, m) == [act |-> act, src |-> s, num |-> m]

-----------------------------------------------------------------------------
\* init_fifo.
Init ==
  /\ URB!BroadcastInit
  /\ last_sent = [p \in Proc |-> 0]
  /\ appending = [p \in Proc |-> FALSE]
  /\ past_fifo = [p \in Proc |-> <<>>]
  /\ delivered_fifo = [p \in Proc |-> {}]
  /\ cheating_vector_d = [p \in Proc |-> [s \in Proc |-> 0]]
  /\ todo = [p \in Proc |-> <<>>]
  /\ output = [p \in Proc |-> <<>>]

In(x, seq) == \E i \in 1 .. Len(seq) : seq[i] = x

\* Broken variant: a number that is in the past from another source is left out.
AppendNewNumber(past, x) ==
  IF \E i \in 1 .. Len(past) : past[i][2] = x[2] THEN past ELSE Append(past, x)

\* append_past_fifo.
AppendPast(past, x) == IF In(x, past) THEN past ELSE Append(past, x)

\* broadcast_fifo up to the return of broadcast_urb.
Broadcast(p) ==
  /\ ~appending[p]
  /\ last_sent[p] < Count[p]
  /\ last_sent' = [last_sent EXCEPT ![p] = @ + 1]
  /\ appending' = [appending EXCEPT ![p] = TRUE]
  /\ output' = [output EXCEPT ![p] = Append(@, Line("b", p, last_sent[p] + 1))]
  /\ URB!Request(p, <<past_fifo[p], last_sent[p] + 1>>)
  /\ UNCHANGED <<past_fifo, recvVars>>

\* The rest of broadcast_fifo.
BroadcastAppend(p) ==
  /\ appending[p]
  /\ appending' = [appending EXCEPT ![p] = FALSE]
  /\ past_fifo' = [past_fifo EXCEPT ![p] = AppendPast(@, <<p, last_sent[p]>>)]
  /\ UNCHANGED <<requested, delivered, last_sent, recvVars, output>>

-----------------------------------------------------------------------------
(* upon_event_deliver_urb_fifo, on the delivery of <<s, <<past, m>>>>.     *)

\* deformat_get_m_past_fifo: an entry ends at a comma, and format_past_fifo
\* puts none after the last one, which is lost.
ReadPast(past) == SubSeq(past, 1, Len(past) - 1)

\* Broken variant: the name of the receiver, as in the call left in a comment.
SourceAsCalled(p, d) == p

Source(p, d) == d[1]

\* A number that has been delivered, from any source, is ignored.
HandleKnown(p, d) ==
  /\ todo[p] = <<>>
  /\ URB!Deliver(p, d)
  /\ d[2][2] \in delivered_fifo[p]
  /\ UNCHANGED <<sendVars, past_fifo, recvVars, output>>

HandleNew(p, d) ==
  /\ todo[p] = <<>>
  /\ URB!Deliver(p, d)
  /\ d[2][2] \notin delivered_fifo[p]
  /\ todo' = [todo EXCEPT ![p] =
                Append(ReadPast(d[2][1]), <<Source(p, d), d[2][2]>>)]
  /\ UNCHANGED <<sendVars, past_fifo, delivered_fifo, cheating_vector_d, output>>

\* The message itself comes last and is delivered whatever has been meanwhile.
MustDeliver(p) == \/ Len(todo[p]) = 1
                  \/ todo[p] # <<>> /\ Head(todo[p])[2] \notin delivered_fifo[p]

\* Broken variant: a message is written when it is delivered.
WriteAtOnce(p, s, m) == <<Line("d", s, m)>>

\* deliver_fifo writes the numbers between the counter and m, neither included.
Written(p, s, m) ==
  [i \in 1 .. m - 1 - cheating_vector_d[p][s] |->
     Line("d", s, cheating_vector_d[p][s] + i)]

\* deliver_fifo, and append_past_fifo.
DeliverFifo(p, s, m) ==
  /\ delivered_fifo' = [delivered_fifo EXCEPT ![p] = @ \cup {m}]
  /\ output' = [output EXCEPT ![p] = @ \o Written(p, s, m)]
  /\ cheating_vector_d' =
       [cheating_vector_d EXCEPT ![p][s] = IF @ < m THEN m ELSE @]
  /\ past_fifo' = [past_fifo EXCEPT ![p] = AppendPast(@, <<s, m>>)]

HandleDeliver(p) ==
  /\ MustDeliver(p)
  /\ DeliverFifo(p, Head(todo[p])[1], Head(todo[p])[2])
  /\ todo' = [todo EXCEPT ![p] = Tail(@)]
  /\ UNCHANGED <<requested, delivered, sendVars>>

HandleSkip(p) ==
  /\ todo[p] # <<>>
  /\ ~MustDeliver(p)
  /\ todo' = [todo EXCEPT ![p] = Tail(@)]
  /\ UNCHANGED <<requested, delivered, sendVars, past_fifo, delivered_fifo,
                 cheating_vector_d, output>>

Next == \E p \in Proc : \/ Broadcast(p)
                        \/ BroadcastAppend(p)
                        \/ \E d \in requested : HandleKnown(p, d) \/ HandleNew(p, d)
                        \/ HandleDeliver(p)
                        \/ HandleSkip(p)

Spec == Init /\ [][Next]_vars

-----------------------------------------------------------------------------
(* Properties.                                                             *)

\* Message x has been broadcast.
IsSent(x) == x[1] \in Proc /\ x[2] \in 1 .. last_sent[x[1]]

\* What is kept of messages names only messages that have been broadcast: the
\* past, the counters, and what travels in the pasts of others.
TypeOK ==
  /\ \A d \in requested : /\ d \in Proc \X Text
                          /\ IsSent(<<d[1], d[2][2]>>)
                          /\ \A i \in 1 .. Len(d[2][1]) : IsSent(d[2][1][i])
  /\ last_sent \in [Proc -> Nat]
  /\ appending \in [Proc -> BOOLEAN]
  /\ past_fifo \in [Proc -> Seq(Message)]
  /\ delivered_fifo \in [Proc -> SUBSET Nat]
  /\ cheating_vector_d \in [Proc -> [Proc -> Nat]]
  /\ todo \in [Proc -> Seq(Message)]
  /\ output \in [Proc -> Seq([act : {"b", "d"}, src : Proc, num : Nat])]
  /\ \A p, s \in Proc : /\ last_sent[p] <= Count[p]
                        /\ cheating_vector_d[p][s] <= last_sent[s]
  /\ \A p \in Proc : /\ \A i \in 1 .. Len(past_fifo[p]) : IsSent(past_fifo[p][i])
                     /\ \A i \in 1 .. Len(todo[p]) : IsSent(todo[p][i])

\* deliver_fifo writes numbers it has not received, on the strength of a later
\* one; all the same, a line "d s m" names a message that s has broadcast.
NoCreation ==
  \A p \in Proc : \A i \in 1 .. Len(output[p]) : IsSent(<<output[p][i].src, output[p][i].num>>)

\* The lines of one source are in the order of its broadcasts and none is
\* written twice, in whatever order its messages and their pasts arrive.
FifoOrder ==
  \A p \in Proc : \A i, j \in 1 .. Len(output[p]) :
    /\ i < j
    /\ output[p][i].act = output[p][j].act
    /\ output[p][i].src = output[p][j].src
    => output[p][i].num < output[p][j].num

\* The entries of s in a past are its messages 1 to m - 1, in order.
OwnEntries(past, s, m) ==
  /\ \A n \in 1 .. m - 1 : In(<<s, n>>, past)
  /\ \A i, j \in 1 .. Len(past) :
       i < j /\ past[i][1] = s /\ past[j][1] = s => past[i][2] < past[j][2]
  /\ \A i \in 1 .. Len(past) : past[i][1] = s => past[i][2] < m

\* Message m carries its sender's messages 1 to m - 1, in order, although the
\* receive thread appends to the same past between two broadcasts: all that a
\* receiver needs to deliver in order, whichever of them it has missed.
CarriesOwnPast == \A d \in requested : OwnEntries(d[2][1], d[1], d[2][2])

\* "Expected message {}, but delivered message {}" (validate_fifo.py:44): the
\* lines of a source are its messages 1, 2, 3, ... without a gap.
Contiguous ==
  \A p \in Proc : \A i \in 1 .. Len(output[p]) :
    output[p][i].act = "d" =>
      \A m \in 1 .. output[p][i].num - 1 :
        \E j \in 1 .. i - 1 : output[p][j] = Line("d", output[p][i].src, m)

=============================================================================
