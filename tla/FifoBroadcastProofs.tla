------------------------- MODULE FifoBroadcastProofs -------------------------
(***************************************************************************)
(* Proofs about FifoBroadcast, for any set of processes and any number of  *)
(* broadcasts of each.                                                     *)
(***************************************************************************)
EXTENDS FifoBroadcast, SequenceTheorems, TLAPS

-----------------------------------------------------------------------------
(* The operations on sequences.                                            *)

\* append_past_fifo keeps the entries and their places, and adds x unless x is
\* one of them.
LEMMA AppendPastEntries ==
  ASSUME NEW past \in Seq(Message), NEW x \in Message
  PROVE  /\ AppendPast(past, x) \in Seq(Message)
         /\ In(x, past) => AppendPast(past, x) = past
         /\ ~In(x, past) =>
              /\ Len(AppendPast(past, x)) = Len(past) + 1
              /\ \A i \in 1 .. Len(past) : AppendPast(past, x)[i] = past[i]
              /\ AppendPast(past, x)[Len(past) + 1] = x
<1>1. /\ Append(past, x) \in Seq(Message)
      /\ Len(Append(past, x)) = Len(past) + 1
      /\ \A i \in 1 .. Len(past) : Append(past, x)[i] = past[i]
      /\ Append(past, x)[Len(past) + 1] = x
  BY AppendProperties
<1> QED BY <1>1 DEF AppendPast

\* What a handler looks at next, and what is left.
LEMMA TodoEntries ==
  ASSUME TypeOK, NEW p \in Proc, todo[p] # <<>>
  PROVE  /\ Head(todo[p]) \in Message
         /\ Head(todo[p]) = todo[p][1]
         /\ 1 \in 1 .. Len(todo[p])
         /\ IsSent(Head(todo[p]))
         /\ Tail(todo[p]) \in Seq(Message)
         /\ \A i \in 1 .. Len(Tail(todo[p])) : IsSent(Tail(todo[p])[i])
<1>1. todo[p] \in Seq(Message)
  BY DEF TypeOK
<1>2. Len(todo[p]) \in Nat /\ Len(todo[p]) # 0
  BY <1>1, EmptySeq
<1>3. Head(todo[p]) = todo[p][1] /\ Head(todo[p]) \in Message
  BY <1>1, HeadTailProperties
<1>4. /\ Tail(todo[p]) \in Seq(Message)
      /\ Len(Tail(todo[p])) = Len(todo[p]) - 1
      /\ \A i \in 1 .. Len(Tail(todo[p])) : Tail(todo[p])[i] = todo[p][i + 1]
  BY <1>1, HeadTailProperties
<1>5. \A i \in 1 .. Len(todo[p]) : IsSent(todo[p][i])
  BY DEF TypeOK
<1> HIDE DEF TypeOK
<1>6. 1 \in 1 .. Len(todo[p]) /\ IsSent(Head(todo[p]))
  BY <1>2, <1>3, <1>5
<1>7. \A i \in 1 .. Len(Tail(todo[p])) : IsSent(Tail(todo[p])[i])
  BY <1>2, <1>4, <1>5
<1> QED BY <1>3, <1>4, <1>6, <1>7

\* A handler looks at what the message names, and then at the message.
LEMMA HandlerEntries ==
  ASSUME TypeOK, NEW p \in Proc, NEW d \in requested
  PROVE  LET new == Append(ReadPast(d[2][1]), <<Source(p, d), d[2][2]>>)
         IN  /\ new \in Seq(Message)
             /\ \A i \in 1 .. Len(new) : IsSent(new[i])
<1> DEFINE past == d[2][1]
           x == <<Source(p, d), d[2][2]>>
           new == Append(ReadPast(past), x)
<1>1. past \in Seq(Message) /\ x \in Message /\ IsSent(x)
  BY DEF TypeOK, Text, Message, Source, IsSent
<1>2. \A i \in 1 .. Len(past) : past[i] \in Message /\ IsSent(past[i])
  BY <1>1, ElementOfSeq DEF TypeOK
<1>3. /\ Len(past) \in Nat
      /\ ReadPast(past) \in Seq(Message)
      /\ Len(ReadPast(past)) \in 0 .. Len(past)
      /\ \A i \in 1 .. Len(ReadPast(past)) : ReadPast(past)[i] = past[i]
  <2>1. Len(past) \in Nat
    BY <1>1, LenProperties
  <2> HIDE DEF past
  <2>2. \A i \in 1 .. Len(past) - 1 : past[i] \in Message
    BY <1>2, <2>1
  <2>3. /\ SubSeq(past, 1, Len(past) - 1) \in Seq(Message)
        /\ Len(SubSeq(past, 1, Len(past) - 1)) =
             IF 1 <= Len(past) - 1 THEN Len(past) - 1 ELSE 0
        /\ \A i \in 1 .. Len(past) - 1 : SubSeq(past, 1, Len(past) - 1)[i] = past[i]
    BY <2>1, <2>2, SubSeqProperties
  <2> QED BY <2>1, <2>3 DEF ReadPast
<1> HIDE DEF past, x
<1>4. /\ new \in Seq(Message)
      /\ Len(new) = Len(ReadPast(past)) + 1
      /\ \A i \in 1 .. Len(ReadPast(past)) : new[i] = ReadPast(past)[i]
      /\ new[Len(ReadPast(past)) + 1] = x
  BY <1>1, <1>3, AppendProperties
<1>5. \A i \in 1 .. Len(new) : IsSent(new[i])
  BY <1>1, <1>2, <1>3, <1>4
<1> QED BY <1>4, <1>5 DEF past, x

\* The lines that a delivery writes: the numbers between the counter and that of
\* the message, in order.
LEMMA WrittenLines ==
  ASSUME TypeOK, NEW p \in Proc, NEW s \in Proc, NEW m \in Nat
  PROVE  LET lines == output[p] \o Written(p, s, m)
         IN  /\ lines \in Seq([act : {"b", "d"}, src : Proc, num : Nat])
             /\ Len(lines) >= Len(output[p])
             /\ \A i \in 1 .. Len(output[p]) : lines[i] = output[p][i]
             /\ \A i \in Len(output[p]) + 1 .. Len(lines) :
                  /\ lines[i] = Line("d", s, cheating_vector_d[p][s] + i - Len(output[p]))
                  /\ cheating_vector_d[p][s] + i - Len(output[p]) < m
<1> DEFINE Lines == [act : {"b", "d"}, src : Proc, num : Nat]
           c == cheating_vector_d[p][s]
           w == Written(p, s, m)
           n == IF m - 1 - c >= 0 THEN m - 1 - c ELSE 0
           lines == output[p] \o w
<1>1. c \in Nat /\ output[p] \in Seq(Lines)
  BY DEF TypeOK
<1>2. w = [i \in 1 .. n |-> Line("d", s, c + i)]
  BY <1>1 DEF Written
<1>3. n \in Nat /\ \A i \in 1 .. n : Line("d", s, c + i) \in Lines /\ c + i < m
  BY <1>1 DEF Line
<1> HIDE DEF Lines, n, c
<1>4. w \in Seq(Lines) /\ Len(w) = n
  BY <1>2, <1>3
<1>5. /\ lines \in Seq(Lines)
      /\ Len(lines) = Len(output[p]) + n
      /\ \A i \in 1 .. Len(output[p]) + n :
           lines[i] = IF i <= Len(output[p]) THEN output[p][i] ELSE w[i - Len(output[p])]
  BY <1>1, <1>4, ConcatProperties
<1>6. Len(output[p]) \in Nat
  BY <1>1, LenProperties
<1>7. ASSUME NEW i \in Len(output[p]) + 1 .. Len(lines)
      PROVE  /\ lines[i] = Line("d", s, c + i - Len(output[p]))
             /\ c + i - Len(output[p]) < m
  <2>1. i - Len(output[p]) \in 1 .. n /\ ~(i <= Len(output[p])) /\ i \in 1 .. Len(output[p]) + n
    BY <1>3, <1>5, <1>6
  <2>2. lines[i] = Line("d", s, c + (i - Len(output[p])))
    BY <1>2, <1>5, <2>1
  <2>3. c + (i - Len(output[p])) = c + i - Len(output[p])
    BY <1>1, <1>6
  <2> QED BY <1>3, <2>1, <2>2, <2>3
<1>8. /\ Len(lines) >= Len(output[p])
      /\ \A i \in 1 .. Len(output[p]) : lines[i] = output[p][i]
  BY <1>3, <1>5, <1>6
<1> QED BY <1>5, <1>7, <1>8 DEF Lines, c

-----------------------------------------------------------------------------
(* Types.                                                                  *)

\* Message x has been broadcast when the step is over.
IsSentNext(x) == x[1] \in Proc /\ x[2] \in 1 .. last_sent'[x[1]]

\* broadcast_fifo has counted a message before it appends it.
AppendingInv == \A p \in Proc : appending[p] => last_sent[p] # 0

\* What has been broadcast stays so.
LEMMA SentStays ==
  ASSUME TypeOK, [Next]_vars
  PROVE  /\ last_sent' \in [Proc -> Nat]
         /\ \A p \in Proc : last_sent[p] <= last_sent'[p]
         /\ \A x : IsSent(x) => IsSentNext(x)
<1>1. /\ last_sent' \in [Proc -> Nat]
      /\ \A p \in Proc : last_sent[p] <= last_sent'[p]
  <2>1. ASSUME NEW q \in Proc, Broadcast(q)
        PROVE  /\ last_sent' \in [Proc -> Nat]
               /\ \A p \in Proc : last_sent[p] <= last_sent'[p]
    BY <2>1 DEF Broadcast, TypeOK
  <2>2. CASE UNCHANGED last_sent
    BY <2>2 DEF TypeOK
  <2>3. (\E q \in Proc : Broadcast(q)) \/ UNCHANGED last_sent
    BY DEF Next, vars, sendVars, BroadcastAppend, HandleKnown, HandleNew, HandleDeliver,
           HandleSkip
  <2> QED BY <2>1, <2>2, <2>3
<1> QED BY <1>1 DEF IsSent, IsSentNext, TypeOK

\* What append_past_fifo adds has been broadcast, as has the rest.
LEMMA AppendedIsSent ==
  ASSUME TypeOK, NEW p \in Proc, NEW x \in Message, IsSent(x)
  PROVE  LET new == AppendPast(past_fifo[p], x)
         IN  /\ new \in Seq(Message)
             /\ \A i \in 1 .. Len(new) : IsSent(new[i])
<1> DEFINE past == past_fifo[p]
           new == AppendPast(past, x)
<1> SUFFICES new \in Seq(Message) /\ \A i \in 1 .. Len(new) : IsSent(new[i])
  OBVIOUS
<1>1. past \in Seq(Message) /\ \A i \in 1 .. Len(past) : IsSent(past[i])
  BY DEF TypeOK
<1>2. Len(past) \in Nat
  BY <1>1, LenProperties
<1> HIDE DEF past
<1>3. new \in Seq(Message)
  BY <1>1, AppendPastEntries
<1>4. CASE In(x, past)
  <2>1. new = past
    BY <1>1, <1>4, AppendPastEntries
  <2> QED BY <1>1, <2>1
<1>5. CASE ~In(x, past)
  <2>1. /\ Len(new) = Len(past) + 1
        /\ \A i \in 1 .. Len(past) : new[i] = past[i]
        /\ new[Len(past) + 1] = x
    BY <1>1, <1>5, AppendPastEntries
  <2>2. \A i \in 1 .. Len(new) : IsSent(new[i])
    BY <1>1, <1>2, <2>1
  <2> QED BY <1>3, <2>2
<1> QED BY <1>4, <1>5

\* What a delivery does to the state of the handler: types, and the counters.
LEMMA DeliveryTypes ==
  ASSUME TypeOK, NEW p \in Proc, NEW x \in Message, IsSent(x), DeliverFifo(p, x[1], x[2])
  PROVE  /\ past_fifo' \in [Proc -> Seq(Message)]
         /\ \A q \in Proc : \A i \in 1 .. Len(past_fifo'[q]) : IsSent(past_fifo'[q][i])
         /\ delivered_fifo' \in [Proc -> SUBSET Nat]
         /\ cheating_vector_d' \in [Proc -> [Proc -> Nat]]
         /\ \A q, s \in Proc : cheating_vector_d'[q][s] <= last_sent[s]
         /\ output' \in [Proc -> Seq([act : {"b", "d"}, src : Proc, num : Nat])]
<1>1. x[1] \in Proc /\ x[2] \in Nat /\ <<x[1], x[2]>> = x
  BY DEF Message
<1>2. past_fifo' = [past_fifo EXCEPT ![p] = AppendPast(@, x)]
  BY <1>1 DEF DeliverFifo
<1>3. past_fifo' \in [Proc -> Seq(Message)]
  BY <1>2, AppendedIsSent DEF TypeOK
<1>4. \A q \in Proc : \A i \in 1 .. Len(past_fifo'[q]) : IsSent(past_fifo'[q][i])
  BY <1>2, AppendedIsSent DEF TypeOK
<1>5. delivered_fifo' \in [Proc -> SUBSET Nat]
  BY <1>1 DEF DeliverFifo, TypeOK
<1>6. /\ cheating_vector_d' \in [Proc -> [Proc -> Nat]]
      /\ \A q, s \in Proc : cheating_vector_d'[q][s] <= last_sent[s]
  <2>1. /\ cheating_vector_d \in [Proc -> [Proc -> Nat]]
        /\ \A q, s \in Proc : cheating_vector_d[q][s] <= last_sent[s]
    BY DEF TypeOK
  <2>2. x[2] <= last_sent[x[1]]
    BY <1>1 DEF IsSent
  <2>3. PICK c \in Nat :
          /\ c = cheating_vector_d[p][x[1]] \/ c = x[2]
          /\ cheating_vector_d' = [cheating_vector_d EXCEPT ![p][x[1]] = c]
    BY <1>1, <2>1 DEF DeliverFifo
  <2>4. c <= last_sent[x[1]]
    BY <1>1, <2>1, <2>2, <2>3
  <2>5. \A q, s \in Proc :
          cheating_vector_d'[q][s] = IF q = p /\ s = x[1] THEN c ELSE cheating_vector_d[q][s]
    BY <1>1, <2>1, <2>3
  <2>6. cheating_vector_d' \in [Proc -> [Proc -> Nat]]
    BY <1>1, <2>1, <2>3
  <2> QED BY <2>1, <2>4, <2>5, <2>6
<1>7. output' \in [Proc -> Seq([act : {"b", "d"}, src : Proc, num : Nat])]
  <2>1. output[p] \o Written(p, x[1], x[2]) \in Seq([act : {"b", "d"}, src : Proc, num : Nat])
    BY <1>1, WrittenLines
  <2> QED BY <2>1 DEF DeliverFifo, TypeOK
<1> QED BY <1>3, <1>4, <1>5, <1>6, <1>7

LEMMA TypeInit == Init => TypeOK /\ AppendingInv
BY CountAssumption DEF Init, TypeOK, AppendingInv, URB!BroadcastInit

\* Every step keeps the types.
LEMMA TypeNext == TypeOK /\ AppendingInv /\ [Next]_vars => TypeOK'
<1> SUFFICES ASSUME TypeOK, AppendingInv, [Next]_vars PROVE TypeOK'
  OBVIOUS
<1> DEFINE Lines == [act : {"b", "d"}, src : Proc, num : Nat]
<1>0. /\ last_sent' \in [Proc -> Nat]
      /\ \A p \in Proc : last_sent[p] <= last_sent'[p]
      /\ \A x : IsSent(x) => IsSentNext(x)
  BY SentStays
<1>1. ASSUME NEW p \in Proc, Broadcast(p) PROVE TypeOK'
  <2> DEFINE n == last_sent[p] + 1
  <2>1. /\ last_sent' = [last_sent EXCEPT ![p] = @ + 1]
        /\ appending' = [appending EXCEPT ![p] = TRUE]
        /\ output' = [output EXCEPT ![p] = Append(@, Line("b", p, n))]
        /\ requested' = requested \cup {<<p, <<past_fifo[p], n>>>>}
        /\ UNCHANGED <<past_fifo, recvVars>>
        /\ last_sent[p] < Count[p]
    BY <1>1 DEF Broadcast, URB!Request
  <2>2. past_fifo[p] \in Seq(Message) /\ n \in Nat /\ last_sent[p] \in Nat
    BY DEF TypeOK
  <2>3. IsSentNext(<<p, n>>)
    <3>1. last_sent'[p] = n
      BY <2>1 DEF TypeOK
    <3> QED BY <2>2, <3>1 DEF IsSentNext
  <2>4. \A i \in 1 .. Len(past_fifo[p]) : IsSentNext(past_fifo[p][i])
    BY <1>0 DEF TypeOK
  <2>5. ASSUME NEW d \in requested'
        PROVE  /\ d \in Proc \X Text
               /\ IsSentNext(<<d[1], d[2][2]>>)
               /\ \A i \in 1 .. Len(d[2][1]) : IsSentNext(d[2][1][i])
    <3>1. CASE d \in requested
      BY <1>0, <3>1 DEF TypeOK
    <3>2. CASE d = <<p, <<past_fifo[p], n>>>>
      BY <2>2, <2>3, <2>4, <3>2 DEF Text
    <3> QED BY <2>1, <3>1, <3>2
  <2>6. output' \in [Proc -> Seq(Lines)]
    <3>1. Line("b", p, n) \in Lines
      BY <2>2 DEF Line
    <3>2. Append(output[p], Line("b", p, n)) \in Seq(Lines)
      BY <3>1, AppendProperties DEF TypeOK
    <3> QED BY <2>1, <3>2 DEF TypeOK
  <2>7. \A q, s \in Proc : /\ last_sent'[q] <= Count[q]
                           /\ cheating_vector_d[q][s] <= last_sent'[s]
    <3>1. \A q, s \in Proc : /\ last_sent[q] \in Nat /\ Count[q] \in Nat
                             /\ last_sent[q] <= Count[q]
                             /\ cheating_vector_d[q][s] \in Nat
                             /\ cheating_vector_d[q][s] <= last_sent[s]
      BY CountAssumption DEF TypeOK
    <3>2. \A q \in Proc : last_sent'[q] = IF q = p THEN last_sent[p] + 1 ELSE last_sent[q]
      BY <2>1 DEF TypeOK
    <3> HIDE DEF TypeOK
    <3> QED BY <2>1, <3>1, <3>2
  <2>8. \A q \in Proc : /\ \A i \in 1 .. Len(past_fifo[q]) : IsSentNext(past_fifo[q][i])
                        /\ \A i \in 1 .. Len(todo[q]) : IsSentNext(todo[q][i])
    BY <1>0 DEF TypeOK
  <2> QED BY <1>0, <2>1, <2>5, <2>6, <2>7, <2>8 DEF TypeOK, recvVars, IsSentNext, IsSent
<1>2. ASSUME NEW p \in Proc, BroadcastAppend(p) PROVE TypeOK'
  <2> DEFINE x == <<p, last_sent[p]>>
             new == AppendPast(past_fifo[p], x)
  <2>1. /\ appending' = [appending EXCEPT ![p] = FALSE]
        /\ past_fifo' = [past_fifo EXCEPT ![p] = new]
        /\ UNCHANGED <<requested, last_sent, recvVars, output>>
    BY <1>2 DEF BroadcastAppend
  <2>2. x \in Message /\ IsSent(x)
    BY <1>2 DEF TypeOK, Message, BroadcastAppend, AppendingInv, IsSent
  <2>3. new \in Seq(Message) /\ \A i \in 1 .. Len(new) : IsSent(new[i])
    BY <2>2, AppendedIsSent DEF TypeOK
  <2>4. /\ past_fifo' \in [Proc -> Seq(Message)]
        /\ \A q \in Proc : \A i \in 1 .. Len(past_fifo'[q]) : IsSent(past_fifo'[q][i])
    BY <2>1, <2>3 DEF TypeOK
  <2> QED BY <2>1, <2>4 DEF TypeOK, recvVars, IsSent
<1>3. ASSUME NEW p \in Proc, NEW d \in requested, HandleKnown(p, d) PROVE TypeOK'
  BY <1>3 DEF HandleKnown, URB!Deliver, TypeOK, sendVars, recvVars, IsSent
<1>4. ASSUME NEW p \in Proc, NEW d \in requested, HandleNew(p, d) PROVE TypeOK'
  <2> DEFINE new == Append(ReadPast(d[2][1]), <<Source(p, d), d[2][2]>>)
  <2>1. /\ todo' = [todo EXCEPT ![p] = new]
        /\ UNCHANGED <<requested, sendVars, past_fifo, delivered_fifo, cheating_vector_d,
                       output>>
    BY <1>4 DEF HandleNew, URB!Deliver
  <2>2. new \in Seq(Message) /\ \A i \in 1 .. Len(new) : IsSent(new[i])
    BY HandlerEntries
  <2>3. /\ todo' \in [Proc -> Seq(Message)]
        /\ \A q \in Proc : \A i \in 1 .. Len(todo'[q]) : IsSent(todo'[q][i])
    BY <2>1, <2>2 DEF TypeOK
  <2> QED BY <2>1, <2>3 DEF TypeOK, sendVars, IsSent
<1>5. ASSUME NEW p \in Proc, HandleDeliver(p) PROVE TypeOK'
  <2> DEFINE x == Head(todo[p])
  <2>1. todo[p] # <<>>
    BY <1>5, EmptySeq DEF HandleDeliver, MustDeliver
  <2>2. x \in Message /\ IsSent(x)
    BY <2>1, TodoEntries
  <2>3. /\ DeliverFifo(p, x[1], x[2])
        /\ todo' = [todo EXCEPT ![p] = Tail(@)]
        /\ UNCHANGED <<requested, sendVars>>
    BY <1>5 DEF HandleDeliver
  <2>4. /\ past_fifo' \in [Proc -> Seq(Message)]
        /\ \A q \in Proc : \A i \in 1 .. Len(past_fifo'[q]) : IsSent(past_fifo'[q][i])
        /\ delivered_fifo' \in [Proc -> SUBSET Nat]
        /\ cheating_vector_d' \in [Proc -> [Proc -> Nat]]
        /\ \A q, s \in Proc : cheating_vector_d'[q][s] <= last_sent[s]
        /\ output' \in [Proc -> Seq(Lines)]
    BY <2>2, <2>3, DeliveryTypes
  <2>5. /\ todo' \in [Proc -> Seq(Message)]
        /\ \A q \in Proc : \A i \in 1 .. Len(todo'[q]) : IsSent(todo'[q][i])
    BY <2>1, <2>3, TodoEntries DEF TypeOK
  <2> QED BY <2>3, <2>4, <2>5 DEF TypeOK, sendVars, IsSent
<1>6. ASSUME NEW p \in Proc, HandleSkip(p) PROVE TypeOK'
  <2>1. /\ todo[p] # <<>>
        /\ todo' = [todo EXCEPT ![p] = Tail(@)]
        /\ UNCHANGED <<requested, sendVars, past_fifo, delivered_fifo, cheating_vector_d,
                       output>>
    BY <1>6 DEF HandleSkip
  <2>2. /\ todo' \in [Proc -> Seq(Message)]
        /\ \A q \in Proc : \A i \in 1 .. Len(todo'[q]) : IsSent(todo'[q][i])
    BY <2>1, TodoEntries DEF TypeOK
  <2> QED BY <2>1, <2>2 DEF TypeOK, sendVars, IsSent
<1>7. CASE UNCHANGED vars
  BY <1>7 DEF vars, sendVars, recvVars, TypeOK, IsSent
<1> QED BY <1>1, <1>2, <1>3, <1>4, <1>5, <1>6, <1>7 DEF Next

LEMMA AppendingNext == TypeOK /\ AppendingInv /\ [Next]_vars => AppendingInv'
<1> SUFFICES ASSUME TypeOK, AppendingInv, [Next]_vars PROVE AppendingInv'
  OBVIOUS
<1>1. ASSUME NEW p \in Proc, Broadcast(p) PROVE AppendingInv'
  BY <1>1 DEF Broadcast, AppendingInv, TypeOK
<1>2. ASSUME NEW p \in Proc, BroadcastAppend(p) PROVE AppendingInv'
  BY <1>2 DEF BroadcastAppend, AppendingInv, TypeOK
<1>3. CASE UNCHANGED sendVars
  BY <1>3 DEF sendVars, AppendingInv
<1> QED BY <1>1, <1>2, <1>3 DEF Next, vars, HandleKnown, HandleNew, HandleDeliver, HandleSkip

\* Whatever a process keeps of messages names only messages that have been
\* broadcast: the past, the counters, and what travels in the pasts of others.
THEOREM TypeCorrect == Spec => []TypeOK
<1>1. Init => TypeOK /\ AppendingInv
  BY TypeInit
<1>2. TypeOK /\ AppendingInv /\ [Next]_vars => (TypeOK /\ AppendingInv)'
  BY TypeNext, AppendingNext
<1> QED BY <1>1, <1>2, PTL DEF Spec

-----------------------------------------------------------------------------
(* The lines of a step.                                                    *)

\* The lines that there are stay, and n are added.
LinesAdded(p, n) ==
  /\ Len(output'[p]) = Len(output[p]) + n
  /\ \A i \in 1 .. Len(output[p]) : output'[p][i] = output[p][i]

\* Process p broadcasts.
BroadcastLine(p) ==
  /\ LinesAdded(p, 1)
  /\ output'[p][Len(output[p]) + 1] = Line("b", p, last_sent[p] + 1)
  /\ last_sent' = [last_sent EXCEPT ![p] = @ + 1]
  /\ UNCHANGED cheating_vector_d

\* Process p delivers message x.
DeliveryLines(p, x) ==
  /\ x \in Message /\ IsSent(x)
  /\ UNCHANGED last_sent
  /\ cheating_vector_d' = [cheating_vector_d EXCEPT ![p][x[1]] = IF @ < x[2] THEN x[2] ELSE @]
  /\ \E n \in Nat :
       /\ LinesAdded(p, n)
       /\ \A i \in 1 .. n :
            /\ output'[p][Len(output[p]) + i] = Line("d", x[1], cheating_vector_d[p][x[1]] + i)
            /\ cheating_vector_d[p][x[1]] + i < x[2]

\* Every step is one of these for one process at most, and adds no line to the
\* output of another.
LEMMA StepLines ==
  ASSUME TypeOK, [Next]_vars
  PROVE  \/ UNCHANGED <<output, last_sent, cheating_vector_d>>
         \/ \E p \in Proc :
              /\ BroadcastLine(p) \/ \E x : DeliveryLines(p, x)
              /\ \A q \in Proc : q # p => output'[q] = output[q]
<1>1. ASSUME NEW p \in Proc, Broadcast(p)
      PROVE  BroadcastLine(p) /\ \A q \in Proc : q # p => output'[q] = output[q]
  <2> DEFINE line == Line("b", p, last_sent[p] + 1)
  <2>1. line \in [act : {"b", "d"}, src : Proc, num : Nat]
    BY DEF TypeOK, Line
  <2>2. /\ output' = [output EXCEPT ![p] = Append(@, line)]
        /\ last_sent' = [last_sent EXCEPT ![p] = @ + 1]
        /\ UNCHANGED cheating_vector_d
    BY <1>1 DEF Broadcast, recvVars
  <2>3. output[p] \in Seq([act : {"b", "d"}, src : Proc, num : Nat])
    BY DEF TypeOK
  <2>4. /\ output'[p] = Append(output[p], line)
        /\ \A q \in Proc : q # p => output'[q] = output[q]
    BY <2>2 DEF TypeOK
  <2>5. /\ Len(output'[p]) = Len(output[p]) + 1
        /\ \A i \in 1 .. Len(output[p]) : output'[p][i] = output[p][i]
        /\ output'[p][Len(output[p]) + 1] = line
    BY <2>1, <2>3, <2>4, AppendProperties
  <2> QED BY <2>2, <2>4, <2>5 DEF BroadcastLine, LinesAdded
<1>2. ASSUME NEW p \in Proc, HandleDeliver(p)
      PROVE  /\ DeliveryLines(p, Head(todo[p]))
             /\ \A q \in Proc : q # p => output'[q] = output[q]
  <2> DEFINE x == Head(todo[p])
             c == cheating_vector_d[p][x[1]]
  <2>1. todo[p] # <<>>
    BY <1>2, EmptySeq DEF HandleDeliver, MustDeliver
  <2>2. x \in Message /\ IsSent(x) /\ x[1] \in Proc /\ x[2] \in Nat
    BY <2>1, TodoEntries DEF Message
  <2>3. /\ output' = [output EXCEPT ![p] = @ \o Written(p, x[1], x[2])]
        /\ cheating_vector_d' =
             [cheating_vector_d EXCEPT ![p][x[1]] = IF @ < x[2] THEN x[2] ELSE @]
        /\ UNCHANGED last_sent
    BY <1>2 DEF HandleDeliver, DeliverFifo, sendVars
  <2>4. /\ output'[p] = output[p] \o Written(p, x[1], x[2])
        /\ \A q \in Proc : q # p => output'[q] = output[q]
    BY <2>3 DEF TypeOK
  <2>5. /\ output'[p] \in Seq([act : {"b", "d"}, src : Proc, num : Nat])
        /\ Len(output'[p]) >= Len(output[p])
        /\ \A i \in 1 .. Len(output[p]) : output'[p][i] = output[p][i]
        /\ \A i \in Len(output[p]) + 1 .. Len(output'[p]) :
             /\ output'[p][i] = Line("d", x[1], c + i - Len(output[p]))
             /\ c + i - Len(output[p]) < x[2]
    <3> DEFINE s == x[1]
               m == x[2]
               lines == output[p] \o Written(p, s, m)
    <3>1. s \in Proc /\ m \in Nat
      BY <2>2
    <3> HIDE DEF s, m
    <3>2. /\ lines \in Seq([act : {"b", "d"}, src : Proc, num : Nat])
          /\ Len(lines) >= Len(output[p])
          /\ \A i \in 1 .. Len(output[p]) : lines[i] = output[p][i]
          /\ \A i \in Len(output[p]) + 1 .. Len(lines) :
               /\ lines[i] = Line("d", s, cheating_vector_d[p][s] + i - Len(output[p]))
               /\ cheating_vector_d[p][s] + i - Len(output[p]) < m
      BY <3>1, WrittenLines
    <3> QED BY <2>4, <3>2 DEF s, m
  <2>6. Len(output'[p]) \in Nat /\ Len(output[p]) \in Nat /\ c \in Nat
    BY <2>2, <2>5, LenProperties DEF TypeOK
  <2> HIDE DEF x, c
  <2> DEFINE n == Len(output'[p]) - Len(output[p])
  <2>7. n \in Nat /\ LinesAdded(p, n)
    BY <2>5, <2>6 DEF LinesAdded
  <2>8. ASSUME NEW i \in 1 .. n
        PROVE  /\ output'[p][Len(output[p]) + i] = Line("d", x[1], c + i)
               /\ c + i < x[2]
    <3>1. /\ Len(output[p]) + i \in Len(output[p]) + 1 .. Len(output'[p])
          /\ c + (Len(output[p]) + i) - Len(output[p]) = c + i
      BY <2>6
    <3> QED BY <2>5, <3>1
  <2> HIDE DEF n
  <2> QED BY <2>2, <2>3, <2>4, <2>7, <2>8 DEF DeliveryLines, x, c
<1>3. CASE UNCHANGED <<output, last_sent, cheating_vector_d>>
  BY <1>3
<1>4. \/ UNCHANGED <<output, last_sent, cheating_vector_d>>
      \/ \E p \in Proc : Broadcast(p) \/ HandleDeliver(p)
  BY DEF Next, vars, sendVars, recvVars, BroadcastAppend, HandleKnown, HandleNew, HandleSkip
<1> QED BY <1>1, <1>2, <1>3, <1>4

\* A line is one of the lines before the step, the line of a broadcast, or one
\* that a delivery writes.
LEMMA LineOfStep ==
  ASSUME TypeOK, [Next]_vars, NEW p \in Proc, NEW i \in 1 .. Len(output'[p])
  PROVE  \/ /\ i \in 1 .. Len(output[p])
            /\ output'[p][i] = output[p][i]
         \/ /\ BroadcastLine(p)
            /\ i = Len(output[p]) + 1
            /\ output'[p][i] = Line("b", p, last_sent[p] + 1)
         \/ \E x : /\ DeliveryLines(p, x)
                   /\ i \in Nat /\ i > Len(output[p])
                   /\ output'[p][i] =
                        Line("d", x[1], cheating_vector_d[p][x[1]] + (i - Len(output[p])))
                   /\ cheating_vector_d[p][x[1]] + (i - Len(output[p])) < x[2]
<1>1. Len(output[p]) \in Nat
  BY LenProperties DEF TypeOK
<1>2. CASE output'[p] = output[p]
  BY <1>2
<1>3. CASE BroadcastLine(p)
  <2>1. i \in 1 .. Len(output[p]) \/ i = Len(output[p]) + 1
    BY <1>1, <1>3 DEF BroadcastLine, LinesAdded
  <2> QED BY <1>3, <2>1 DEF BroadcastLine, LinesAdded
<1>4. ASSUME NEW x, DeliveryLines(p, x)
      PROVE  \/ i \in 1 .. Len(output[p]) /\ output'[p][i] = output[p][i]
             \/ /\ i \in Nat /\ i > Len(output[p])
                /\ output'[p][i] =
                     Line("d", x[1], cheating_vector_d[p][x[1]] + (i - Len(output[p])))
                /\ cheating_vector_d[p][x[1]] + (i - Len(output[p])) < x[2]
  <2>1. PICK n \in Nat :
          /\ LinesAdded(p, n)
          /\ \A j \in 1 .. n :
               /\ output'[p][Len(output[p]) + j] = Line("d", x[1], cheating_vector_d[p][x[1]] + j)
               /\ cheating_vector_d[p][x[1]] + j < x[2]
    BY <1>4 DEF DeliveryLines
  <2>2. CASE i \in 1 .. Len(output[p])
    BY <2>1, <2>2 DEF LinesAdded
  <2>3. CASE i \notin 1 .. Len(output[p])
    <3> DEFINE j == i - Len(output[p])
    <3>1. j \in 1 .. n /\ Len(output[p]) + j = i /\ i > Len(output[p]) /\ i \in Nat
      BY <1>1, <2>1, <2>3 DEF LinesAdded
    <3> QED BY <2>1, <3>1
  <2> QED BY <2>2, <2>3
<1>5. \/ output'[p] = output[p]
      \/ BroadcastLine(p)
      \/ \E x : DeliveryLines(p, x)
  BY StepLines
<1> QED BY <1>2, <1>3, <1>4, <1>5

-----------------------------------------------------------------------------
(* No line about a message that has not been broadcast.                    *)

LEMMA NoCreationNext == TypeOK /\ NoCreation /\ [Next]_vars => NoCreation'
<1> SUFFICES ASSUME TypeOK, NoCreation, [Next]_vars,
                    NEW p \in Proc, NEW i \in 1 .. Len(output'[p])
             PROVE  IsSentNext(<<output'[p][i].src, output'[p][i].num>>)
  BY DEF NoCreation, IsSentNext, IsSent
<1>0. \A x : IsSent(x) => IsSentNext(x)
  BY SentStays
<1>1. CASE i \in 1 .. Len(output[p]) /\ output'[p][i] = output[p][i]
  BY <1>0, <1>1 DEF NoCreation
<1>2. CASE BroadcastLine(p) /\ output'[p][i] = Line("b", p, last_sent[p] + 1)
  <2>1. last_sent'[p] = last_sent[p] + 1 /\ last_sent[p] \in Nat
    BY <1>2 DEF BroadcastLine, TypeOK
  <2> QED BY <1>2, <2>1 DEF Line, IsSentNext
<1>3. ASSUME NEW x, DeliveryLines(p, x), i \in Nat, i > Len(output[p]),
             output'[p][i] =
               Line("d", x[1], cheating_vector_d[p][x[1]] + (i - Len(output[p]))),
             cheating_vector_d[p][x[1]] + (i - Len(output[p])) < x[2]
      PROVE  IsSentNext(<<output'[p][i].src, output'[p][i].num>>)
  <2> DEFINE num == cheating_vector_d[p][x[1]] + (i - Len(output[p]))
  <2>1. x[1] \in Proc /\ x[2] \in 1 .. last_sent[x[1]]
    BY <1>3 DEF DeliveryLines, IsSent
  <2>2. /\ cheating_vector_d[p][x[1]] \in Nat
        /\ Len(output[p]) \in Nat
        /\ last_sent[x[1]] \in Nat
    BY <2>1, LenProperties DEF TypeOK
  <2>3. num \in 1 .. last_sent[x[1]]
    <3>1. \A c, k, l, m, n \in Nat : k > l /\ c + (k - l) < m /\ m <= n => c + (k - l) \in 1 .. n
      OBVIOUS
    <3>2. x[2] \in Nat /\ x[2] <= last_sent[x[1]]
      BY <2>1, <2>2
    <3> QED BY <1>3, <2>2, <3>1, <3>2
  <2>4. IsSent(<<x[1], num>>)
    BY <2>1, <2>3 DEF IsSent
  <2> QED BY <1>0, <1>3, <2>4 DEF Line
<1> QED BY <1>1, <1>2, <1>3, LineOfStep

\* deliver_fifo writes numbers it has not received, on the strength of a later
\* one; all the same, a line names a message that its source has broadcast.
THEOREM NoCreationHolds == Spec => []NoCreation
<1>1. Init => NoCreation
  BY EmptySeq DEF Init, NoCreation
<1>2. TypeOK /\ NoCreation /\ [Next]_vars => NoCreation'
  BY NoCreationNext
<1> QED BY <1>1, <1>2, TypeCorrect, PTL DEF Spec

-----------------------------------------------------------------------------
(* The order of the lines.                                                 *)

\* A line "b" is about a message of the process itself that it has counted, a
\* line "d" about a number below the counter of its source.
LineInv ==
  \A p \in Proc : \A i \in 1 .. Len(output[p]) :
    \/ /\ output[p][i].act = "b"
       /\ output[p][i].src = p
       /\ output[p][i].num <= last_sent[p]
    \/ /\ output[p][i].act = "d"
       /\ output[p][i].num < cheating_vector_d[p][output[p][i].src]

LEMMA LineTypes ==
  ASSUME TypeOK, NEW p \in Proc, NEW i \in 1 .. Len(output[p])
  PROVE  output[p][i].src \in Proc /\ output[p][i].num \in Nat
<1>1. output[p] \in Seq([act : {"b", "d"}, src : Proc, num : Nat])
  BY DEF TypeOK
<1>2. output[p][i] \in [act : {"b", "d"}, src : Proc, num : Nat]
  BY <1>1, ElementOfSeq
<1> QED BY <1>2

\* The counters only grow.
LEMMA CountersGrow ==
  ASSUME TypeOK, [Next]_vars, NEW p \in Proc, NEW s \in Proc
  PROVE  /\ cheating_vector_d'[p][s] \in Nat
         /\ cheating_vector_d[p][s] <= cheating_vector_d'[p][s]
<1>1. CASE UNCHANGED cheating_vector_d
  BY <1>1 DEF TypeOK
<1>2. ASSUME NEW q \in Proc, NEW x, DeliveryLines(q, x)
      PROVE  /\ cheating_vector_d'[p][s] \in Nat
             /\ cheating_vector_d[p][s] <= cheating_vector_d'[p][s]
  <2> DEFINE c == cheating_vector_d[q][x[1]]
  <2>1. x[1] \in Proc /\ x[2] \in Nat
    BY <1>2 DEF DeliveryLines, Message
  <2>2. cheating_vector_d' =
          [cheating_vector_d EXCEPT ![q][x[1]] = IF @ < x[2] THEN x[2] ELSE @]
    BY <1>2 DEF DeliveryLines
  <2>3. c \in Nat /\ cheating_vector_d[p][s] \in Nat
    BY <2>1 DEF TypeOK
  <2>4. cheating_vector_d'[p][s] = IF p = q /\ s = x[1] THEN IF c < x[2] THEN x[2] ELSE c
                                                       ELSE cheating_vector_d[p][s]
    BY <2>1, <2>2 DEF TypeOK
  <2> QED BY <2>1, <2>3, <2>4
<1> QED BY <1>1, <1>2, StepLines DEF BroadcastLine

LEMMA LineNext == TypeOK /\ LineInv /\ [Next]_vars => LineInv'
<1> SUFFICES ASSUME TypeOK, LineInv, [Next]_vars,
                    NEW p \in Proc, NEW i \in 1 .. Len(output'[p])
             PROVE  \/ /\ output'[p][i].act = "b"
                       /\ output'[p][i].src = p
                       /\ output'[p][i].num <= last_sent'[p]
                    \/ /\ output'[p][i].act = "d"
                       /\ output'[p][i].num < cheating_vector_d'[p][output'[p][i].src]
  BY DEF LineInv
<1>1. CASE i \in 1 .. Len(output[p]) /\ output'[p][i] = output[p][i]
  <2> DEFINE line == output[p][i]
  <2>1. line.src \in Proc /\ line.num \in Nat
    BY <1>1, LineTypes
  <2>2. /\ cheating_vector_d'[p][line.src] \in Nat
        /\ cheating_vector_d[p][line.src] <= cheating_vector_d'[p][line.src]
        /\ cheating_vector_d[p][line.src] \in Nat
    BY <2>1, CountersGrow DEF TypeOK
  <2>3. last_sent[p] \in Nat /\ last_sent'[p] \in Nat /\ last_sent[p] <= last_sent'[p]
    BY SentStays DEF TypeOK
  <2>4. \/ line.act = "b" /\ line.src = p /\ line.num <= last_sent[p]
        \/ line.act = "d" /\ line.num < cheating_vector_d[p][line.src]
    BY <1>1 DEF LineInv
  <2> HIDE DEF line
  <2>5. \/ line.act = "b" /\ line.src = p /\ line.num <= last_sent'[p]
        \/ line.act = "d" /\ line.num < cheating_vector_d'[p][line.src]
    BY <2>1, <2>2, <2>3, <2>4
  <2> QED BY <1>1, <2>5 DEF line
<1>2. CASE BroadcastLine(p) /\ output'[p][i] = Line("b", p, last_sent[p] + 1)
  <2>1. last_sent'[p] = last_sent[p] + 1 /\ last_sent[p] \in Nat
    BY <1>2 DEF BroadcastLine, TypeOK
  <2> QED BY <1>2, <2>1 DEF Line
<1>3. ASSUME NEW x, DeliveryLines(p, x), i \in Nat, i > Len(output[p]),
             output'[p][i] =
               Line("d", x[1], cheating_vector_d[p][x[1]] + (i - Len(output[p]))),
             cheating_vector_d[p][x[1]] + (i - Len(output[p])) < x[2]
      PROVE  /\ output'[p][i].act = "d"
             /\ output'[p][i].num < cheating_vector_d'[p][output'[p][i].src]
  <2> DEFINE num == cheating_vector_d[p][x[1]] + (i - Len(output[p]))
  <2>1. x[1] \in Proc /\ x[2] \in Nat
    BY <1>3 DEF DeliveryLines, Message
  <2>2. cheating_vector_d'[p][x[1]] =
          IF cheating_vector_d[p][x[1]] < x[2] THEN x[2] ELSE cheating_vector_d[p][x[1]]
    BY <1>3, <2>1 DEF DeliveryLines, TypeOK
  <2>3. cheating_vector_d[p][x[1]] \in Nat /\ Len(output[p]) \in Nat
    BY <2>1, LenProperties DEF TypeOK
  <2>4. num < cheating_vector_d'[p][x[1]]
    BY <1>3, <2>1, <2>2, <2>3
  <2> QED BY <1>3, <2>4 DEF Line
<1> QED BY <1>1, <1>2, <1>3, LineOfStep

LEMMA FifoNext == TypeOK /\ LineInv /\ FifoOrder /\ [Next]_vars => FifoOrder'
<1> SUFFICES ASSUME TypeOK, LineInv, FifoOrder, [Next]_vars,
                    NEW p \in Proc,
                    NEW i \in 1 .. Len(output'[p]), NEW j \in 1 .. Len(output'[p]),
                    i < j,
                    output'[p][i].act = output'[p][j].act,
                    output'[p][i].src = output'[p][j].src
             PROVE  output'[p][i].num < output'[p][j].num
  BY DEF FifoOrder
<1>0. Len(output[p]) \in Nat
  BY LenProperties DEF TypeOK
<1>1. CASE j \in 1 .. Len(output[p]) /\ output'[p][j] = output[p][j]
  <2>1. i \in 1 .. Len(output[p])
    BY <1>0, <1>1
  <2>2. output'[p][i] = output[p][i]
    BY <1>0, <2>1, LineOfStep
  <2> QED BY <1>1, <2>1, <2>2 DEF FifoOrder
<1>2. CASE /\ BroadcastLine(p)
           /\ j = Len(output[p]) + 1
           /\ output'[p][j] = Line("b", p, last_sent[p] + 1)
  <2>1. i \in 1 .. Len(output[p])
    BY <1>0, <1>2
  <2>2. output'[p][i] = output[p][i]
    BY <1>0, <2>1, LineOfStep
  <2>3. output[p][i].num <= last_sent[p]
    BY <1>2, <2>1, <2>2 DEF LineInv, Line
  <2>4. output[p][i].num \in Nat /\ last_sent[p] \in Nat
    BY <2>1, LineTypes DEF TypeOK
  <2> QED BY <1>2, <2>2, <2>3, <2>4 DEF Line
<1>3. ASSUME NEW x, DeliveryLines(p, x), j \in Nat, j > Len(output[p]),
             output'[p][j] =
               Line("d", x[1], cheating_vector_d[p][x[1]] + (j - Len(output[p])))
      PROVE  output'[p][i].num < output'[p][j].num
  <2> DEFINE c == cheating_vector_d[p][x[1]]
  <2>1. x[1] \in Proc /\ c \in Nat
    BY <1>3 DEF DeliveryLines, Message, TypeOK
  <2>2. CASE i \in 1 .. Len(output[p])
    <3>1. output'[p][i] = output[p][i]
      BY <1>0, <2>2, LineOfStep
    <3>2. output[p][i].num < c
      BY <1>3, <2>2, <3>1 DEF LineInv, Line
    <3>3. output[p][i].num \in Nat
      BY <2>2, LineTypes
    <3> QED BY <1>0, <1>3, <2>1, <3>1, <3>2, <3>3 DEF Line
  <2>3. CASE i \notin 1 .. Len(output[p])
    <3>1. PICK n \in Nat :
            /\ LinesAdded(p, n)
            /\ \A k \in 1 .. n : output'[p][Len(output[p]) + k] = Line("d", x[1], c + k)
      BY <1>3 DEF DeliveryLines
    <3>2. Len(output'[p]) = Len(output[p]) + n
      BY <3>1 DEF LinesAdded
    <3>3. i \in Nat /\ i > Len(output[p]) /\ i <= Len(output[p]) + n
      BY <1>0, <2>3, <3>2
    <3>4. i - Len(output[p]) \in 1 .. n /\ Len(output[p]) + (i - Len(output[p])) = i
      BY <1>0, <3>3
    <3>5. output'[p][i] = Line("d", x[1], c + (i - Len(output[p])))
      BY <3>1, <3>4
    <3> QED BY <1>0, <1>3, <2>1, <3>3, <3>5 DEF Line
  <2> QED BY <2>2, <2>3
<1> QED BY <1>1, <1>2, <1>3, LineOfStep

\* The lines of one source are in the order of its broadcasts and none is
\* written twice, in whatever order its messages and their pasts arrive.
THEOREM FifoOrderHolds == Spec => []FifoOrder
<1>1. Init => LineInv /\ FifoOrder
  BY EmptySeq DEF Init, LineInv, FifoOrder
<1>2. TypeOK /\ LineInv /\ FifoOrder /\ [Next]_vars => (LineInv /\ FifoOrder)'
  BY LineNext, FifoNext
<1> QED BY <1>1, <1>2, TypeCorrect, PTL DEF Spec

-----------------------------------------------------------------------------
(* The past that a message carries.                                        *)

\* Between broadcasts the past of a process has all its own messages.  While
\* broadcast_fifo is at its call of append_past_fifo the last may be missing, or
\* be there already: the receive thread may have delivered it.
PastInv ==
  \A p \in Proc : \/ OwnEntries(past_fifo[p], p, last_sent[p] + 1)
                  \/ appending[p] /\ OwnEntries(past_fifo[p], p, last_sent[p])

\* The next message of s in order.
LEMMA OwnEntriesNext ==
  ASSUME NEW past \in Seq(Message), NEW s \in Proc, NEW m \in Nat, m # 0,
         OwnEntries(past, s, m)
  PROVE  OwnEntries(AppendPast(past, <<s, m>>), s, m + 1)
<1> DEFINE x == <<s, m>>
           new == AppendPast(past, x)
<1>1. x \in Message /\ Len(past) \in Nat
  BY LenProperties DEF Message
<1>2. \A i \in 1 .. Len(past) : past[i] \in Message
  BY ElementOfSeq
<1>3. ~In(x, past)
  BY DEF In, OwnEntries
<1>4. /\ Len(new) = Len(past) + 1
      /\ \A i \in 1 .. Len(past) : new[i] = past[i]
      /\ new[Len(past) + 1] = x
  BY <1>1, <1>3, AppendPastEntries
<1>5. \A i \in 1 .. Len(past) + 1 : i = Len(past) + 1 \/ i \in 1 .. Len(past)
  BY <1>1
<1> HIDE DEF new
<1>6. ASSUME NEW n \in 1 .. (m + 1) - 1 PROVE In(<<s, n>>, new)
  <2>1. CASE n = m
    BY <1>1, <1>4, <2>1 DEF In
  <2>2. CASE n \in 1 .. m - 1
    <3>1. PICK i \in 1 .. Len(past) : past[i] = <<s, n>>
      BY <2>2 DEF OwnEntries, In
    <3> QED BY <1>1, <1>4, <3>1 DEF In
  <2> QED BY <2>1, <2>2
<1>7. ASSUME NEW i \in 1 .. Len(new), NEW j \in 1 .. Len(new),
             i < j, new[i][1] = s, new[j][1] = s
      PROVE  new[i][2] < new[j][2]
  <2>1. i \in 1 .. Len(past)
    BY <1>1, <1>4, <1>7
  <2>2. CASE j \in 1 .. Len(past)
    BY <1>4, <1>7, <2>1, <2>2 DEF OwnEntries
  <2>3. CASE j = Len(past) + 1
    BY <1>4, <1>7, <2>1, <2>3 DEF OwnEntries
  <2> QED BY <1>4, <1>5, <2>2, <2>3
<1>8. ASSUME NEW i \in 1 .. Len(new), new[i][1] = s PROVE new[i][2] < m + 1
  <2>1. CASE i \in 1 .. Len(past)
    <3>1. past[i][2] < m /\ past[i][2] \in Nat
      BY <1>2, <1>4, <1>8, <2>1 DEF OwnEntries, Message
    <3> QED BY <1>4, <2>1, <3>1
  <2>2. CASE i = Len(past) + 1
    BY <1>4, <2>2
  <2> QED BY <1>4, <1>5, <2>1, <2>2
<1>9. OwnEntries(new, s, m + 1)
  <2>1. \A n \in 1 .. (m + 1) - 1 : In(<<s, n>>, new)
    BY <1>6
  <2>2. \A i, j \in 1 .. Len(new) :
          i < j /\ new[i][1] = s /\ new[j][1] = s => new[i][2] < new[j][2]
    BY <1>7
  <2>3. \A i \in 1 .. Len(new) : new[i][1] = s => new[i][2] < m + 1
    BY <1>8
  <2> QED BY <2>1, <2>2, <2>3, Zenon DEF OwnEntries
<1> QED BY <1>9 DEF new

\* A message that is in the past, or that another process has sent.
LEMMA OwnEntriesSame ==
  ASSUME NEW past \in Seq(Message), NEW s \in Proc, NEW m \in Nat, NEW x \in Message,
         OwnEntries(past, s, m), x[1] # s \/ x[2] \in 1 .. m - 1
  PROVE  OwnEntries(AppendPast(past, x), s, m)
<1> DEFINE new == AppendPast(past, x)
<1>1. x = <<x[1], x[2]>>
  BY DEF Message
<1>2. CASE In(x, past)
  BY <1>2, AppendPastEntries
<1>3. CASE ~In(x, past)
  <2>1. x[1] # s
    <3>1. SUFFICES ASSUME x[1] = s PROVE FALSE
      OBVIOUS
    <3>2. In(<<s, x[2]>>, past)
      BY <3>1 DEF OwnEntries
    <3> QED BY <1>1, <1>3, <3>1, <3>2
  <2>2. Len(past) \in Nat
    BY LenProperties
  <2>3. /\ Len(new) = Len(past) + 1
        /\ \A i \in 1 .. Len(past) : new[i] = past[i]
        /\ new[Len(past) + 1] = x
    BY <1>3, AppendPastEntries
  <2> HIDE DEF new
  <2>4. \A i \in 1 .. Len(new) : new[i][1] = s => i \in 1 .. Len(past) /\ new[i] = past[i]
    BY <2>1, <2>2, <2>3
  <2>5. ASSUME NEW n \in 1 .. m - 1 PROVE In(<<s, n>>, new)
    <3>1. PICK i \in 1 .. Len(past) : past[i] = <<s, n>>
      BY DEF OwnEntries, In
    <3> QED BY <2>2, <2>3, <3>1 DEF In
  <2>6. OwnEntries(new, s, m)
    BY <2>4, <2>5 DEF OwnEntries
  <2> QED BY <2>6 DEF new
<1> QED BY <1>2, <1>3

LEMMA PastNext ==
  TypeOK /\ AppendingInv /\ PastInv /\ CarriesOwnPast /\ [Next]_vars
    => PastInv' /\ CarriesOwnPast'
<1> SUFFICES ASSUME TypeOK, AppendingInv, PastInv, CarriesOwnPast, [Next]_vars
             PROVE  PastInv' /\ CarriesOwnPast'
  OBVIOUS
<1>1. ASSUME NEW p \in Proc, Broadcast(p) PROVE PastInv' /\ CarriesOwnPast'
  <2>1. /\ ~appending[p]
        /\ last_sent' = [last_sent EXCEPT ![p] = @ + 1]
        /\ appending' = [appending EXCEPT ![p] = TRUE]
        /\ requested' = requested \cup {<<p, <<past_fifo[p], last_sent[p] + 1>>>>}
        /\ UNCHANGED past_fifo
    BY <1>1 DEF Broadcast, URB!Request
  <2>2. OwnEntries(past_fifo[p], p, last_sent[p] + 1)
    BY <2>1 DEF PastInv
  <2>3. CarriesOwnPast'
    BY <2>1, <2>2 DEF CarriesOwnPast
  <2>4. PastInv'
    BY <2>1, <2>2 DEF PastInv, TypeOK
  <2> QED BY <2>3, <2>4
<1>2. ASSUME NEW p \in Proc, BroadcastAppend(p) PROVE PastInv' /\ CarriesOwnPast'
  <2> DEFINE x == <<p, last_sent[p]>>
             new == AppendPast(past_fifo[p], x)
  <2>1. /\ appending[p]
        /\ appending' = [appending EXCEPT ![p] = FALSE]
        /\ past_fifo' = [past_fifo EXCEPT ![p] = new]
        /\ UNCHANGED <<requested, last_sent>>
    BY <1>2 DEF BroadcastAppend
  <2>2. /\ past_fifo[p] \in Seq(Message)
        /\ last_sent[p] \in Nat /\ last_sent[p] # 0 /\ x \in Message
    BY <2>1 DEF TypeOK, AppendingInv, Message
  <2>3. OwnEntries(new, p, last_sent[p] + 1)
    <3>1. CASE OwnEntries(past_fifo[p], p, last_sent[p] + 1)
      <4>1. x[2] \in 1 .. last_sent[p] + 1 - 1 /\ last_sent[p] + 1 \in Nat
        BY <2>2
      <4> QED BY <2>2, <3>1, <4>1, OwnEntriesSame
    <3>2. CASE OwnEntries(past_fifo[p], p, last_sent[p])
      BY <2>2, <3>2, OwnEntriesNext
    <3> QED BY <3>1, <3>2 DEF PastInv
  <2>4. PastInv'
    BY <2>1, <2>3 DEF PastInv, TypeOK
  <2> QED BY <2>1, <2>4 DEF CarriesOwnPast
<1>3. ASSUME NEW p \in Proc, HandleDeliver(p) PROVE PastInv' /\ CarriesOwnPast'
  <2> DEFINE x == Head(todo[p])
             new == AppendPast(past_fifo[p], x)
  <2>1. todo[p] # <<>>
    BY <1>3, EmptySeq DEF HandleDeliver, MustDeliver
  <2>2. /\ x \in Message /\ x = <<x[1], x[2]>> /\ x[1] \in Proc
        /\ x[2] \in 1 .. last_sent[x[1]]
    BY <2>1, TodoEntries DEF Message, IsSent
  <2>3. /\ past_fifo' = [past_fifo EXCEPT ![p] = new]
        /\ UNCHANGED <<requested, last_sent, appending>>
    BY <1>3, <2>2 DEF HandleDeliver, DeliverFifo, sendVars
  <2>4. past_fifo[p] \in Seq(Message) /\ last_sent[p] \in Nat /\ last_sent[p] + 1 \in Nat
    BY DEF TypeOK
  <2> HIDE DEF x
  <2>5. \/ OwnEntries(new, p, last_sent[p] + 1)
        \/ appending[p] /\ OwnEntries(new, p, last_sent[p])
    <3>1. CASE OwnEntries(past_fifo[p], p, last_sent[p] + 1)
      <4>1. x[1] # p \/ x[2] \in 1 .. last_sent[p] + 1 - 1
        BY <2>2, <2>4
      <4> QED BY <2>2, <2>4, <3>1, <4>1, OwnEntriesSame
    <3>2. CASE appending[p] /\ OwnEntries(past_fifo[p], p, last_sent[p])
      <4>1. CASE x = <<p, last_sent[p]>>
        BY <2>4, <3>2, <4>1, OwnEntriesNext DEF AppendingInv
      <4>2. CASE x # <<p, last_sent[p]>>
        <5>1. x[1] # p \/ x[2] \in 1 .. last_sent[p] - 1
          BY <2>2, <2>4, <4>2
        <5> QED BY <2>2, <2>4, <3>2, <5>1, OwnEntriesSame
      <4> QED BY <4>1, <4>2
    <3> QED BY <3>1, <3>2 DEF PastInv
  <2>6. PastInv'
    BY <2>3, <2>5 DEF PastInv, TypeOK
  <2> QED BY <2>3, <2>6 DEF CarriesOwnPast
<1>4. CASE UNCHANGED <<requested, last_sent, appending, past_fifo>>
  BY <1>4 DEF PastInv, CarriesOwnPast
<1>5. \/ UNCHANGED <<requested, last_sent, appending, past_fifo>>
      \/ \E p \in Proc : Broadcast(p) \/ BroadcastAppend(p) \/ HandleDeliver(p)
  BY DEF Next, vars, sendVars, HandleKnown, HandleNew, HandleSkip, URB!Deliver
<1> QED BY <1>1, <1>2, <1>3, <1>4, <1>5

\* A message carries all the earlier messages of its sender, in order, whatever
\* the receive thread appends to the same past between two broadcasts.
THEOREM CarriesOwnPastHolds == Spec => []CarriesOwnPast
<1>1. Init => PastInv /\ CarriesOwnPast
  <2> SUFFICES ASSUME Init PROVE PastInv /\ CarriesOwnPast
    OBVIOUS
  <2>1. /\ requested = {}
        /\ \A p \in Proc : past_fifo[p] = <<>> /\ last_sent[p] = 0
    BY DEF Init, URB!BroadcastInit
  <2>2. \A p \in Proc : OwnEntries(past_fifo[p], p, last_sent[p] + 1)
    <3>1. \A p \in Proc : OwnEntries(<<>>, p, 1)
      BY DEF OwnEntries
    <3>2. 0 + 1 = 1
      OBVIOUS
    <3> QED BY <2>1, <3>1, <3>2, Zenon
  <2> QED BY <2>1, <2>2 DEF PastInv, CarriesOwnPast
<1>2. TypeOK /\ AppendingInv /\ PastInv /\ CarriesOwnPast /\ [Next]_vars
        => (PastInv /\ CarriesOwnPast)'
  BY PastNext
<1>3. Init => AppendingInv
  BY TypeInit
<1>4. TypeOK /\ AppendingInv /\ [Next]_vars => AppendingInv'
  BY AppendingNext
<1> QED BY <1>1, <1>2, <1>3, <1>4, TypeCorrect, PTL DEF Spec

=============================================================================
